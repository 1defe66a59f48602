------------------------- MODULE ValidationResults -------------------------
(***************************************************************************)
(* Validation of a log while its files are edited: the controller          *)
(* (validation/controller.py, log_commands/validation_cli.py and the       *)
(* preparation of reproductions), the observation of sources, inputs and   *)
(* documents (validation/engine.py, locator.py, fingerprint_cache.py), and *)
(* the validation domain of the result store with its report               *)
(* (snapshot_storage.py, records.py, read_model.py).                       *)
(*                                                                         *)
(* The lock of the log is held throughout, so one task at a time observes. *)
(***************************************************************************)
EXTENDS FileObservation

CONSTANTS
    Task,       \* commands that are run, each once
    Op,         \* what each does
    Entry,
    Research,   \* files below the log
    Mortal,     \* tasks that may be killed
    Faulty      \* tasks whose writes of results may fail

Tree == 0
Unit == Source \cup Document \cup {Tree}

ASSUME ValidationAssumption ==
    /\ Op \in [Task -> [kind : {"full", "entry", "dry", "launch", "render"},
                        entry : Entry \cup {None}, reads : SUBSET Unit, reuse : BOOLEAN]]
    /\ Document \subseteq Research /\ Research \subseteq File
    /\ Mortal \subseteq Task /\ Faulty \subseteq Task
    /\ \A t \in Task : Op[t].kind = "entry" <=> Op[t].entry # None
    /\ None \notin Task

VARIABLES
    lock,       \* holder of log.lock
    pc,         \* position of every task
    start,      \* research_snapshot that a task took
    scan,       \* memory of the task that holds the lock
    generations,\* cache_state: the next generation of the selection cache
    results,    \* validation domain of the result store
    report      \* validation.md: the snapshot it was composed from

memory == <<timeline, rows, trees, selections>>
vars == <<memory, lock, pc, start, scan, generations, results, report>>

Kind(t) == Op[t].kind
Writable == Kind(lock) = "full"     \* validate opens its caches writable
Reuses == Op[lock].reuse /\ Kind(lock) # "launch"
Publishes(t) == Kind(t) \in {"full", "entry", "launch"}
Whole(t) == Kind(t) \in {"full", "launch"}

\* research_snapshot: the identities of all files below the log.
ResearchNow == [f \in Research |-> StampOf(f)]

Observed == [stamp : Stamp \cup {None}, value : Content \cup [Member -> Content]]
Snapshot == [id : Task, generation : Nat, values : UNION {[S -> Content \cup [Member -> Content]] : S \in SUBSET Unit}, clear : BOOLEAN]

NoScan ==
    [at |-> "off", todo |-> {}, unit |-> None, file |-> None, stat |-> None,
     digest |-> None, read |-> None, left |-> {}, stamps |-> [m \in Member |-> None],
     digests |-> [m \in Member |-> None], seen |-> [u \in Unit |-> None],
     verifying |-> FALSE, bad |-> FALSE, used |-> {}, run |-> 0, generation |-> 0]

Stage == {"off", "next", "hash", "hashing", "hashed", "load", "evaluate", "list",
          "relist", "publish", "compose", "mark", "finish"}

Scan ==
    [at : Stage, todo : SUBSET Unit, unit : Unit \cup {None}, file : File \cup {None},
     stat : Stamp \cup {None}, digest : Content \cup {None},
     read : FileRow \cup Content \cup {None}, left : SUBSET Member,
     stamps : [Member -> Stamp \cup {None}], digests : [Member -> Content \cup {None}],
     seen : [Unit -> Observed \cup {None}], verifying : BOOLEAN, bad : BOOLEAN,
     used : SUBSET Content, run : Nat, generation : Nat]

TypeOK ==
    /\ ObservationTypeOK
    /\ lock \in Task \cup {None}
    /\ pc \in [Task -> {"idle", "looked", "busy", "done", "refused", "failed", "dead"}]
    /\ start \in [Task -> [Research -> Stamp] \cup {None}]
    /\ scan \in Scan
    /\ generations \in Nat
    /\ results \in [generation : Nat, marker : Nat, full : Snapshot \cup {None},
                    entries : [Entry -> Snapshot \cup {None}]]
    /\ report \in Task \cup {None}

Init ==
    /\ ObservationInit
    /\ lock = None
    /\ pc = [t \in Task |-> "idle"]
    /\ start = [t \in Task |-> None]
    /\ scan = NoScan
    /\ generations = 1
    /\ results = [generation |-> 0, marker |-> 0, full |-> None, entries |-> [e \in Entry |-> None]]
    /\ report = None

Author == 
    /\ \E f \in File, c \in Content : Edit(f, c)
    /\ UNCHANGED <<lock, pc, start, scan, generations, results, report>>

---------------------------------------------------------------------------
(* The lock of the log                                                     *)

\* The task ends, in whatever way, and its memory is gone.
End(outcome) ==
    /\ pc' = [pc EXCEPT ![lock] = outcome]
    /\ start' = [start EXCEPT ![lock] = None]
    /\ lock' = None
    /\ scan' = NoScan

Fail == End("failed") /\ UNCHANGED <<memory, generations, results, report>>

\* validate_entry looks at the log before it asks for the lock.
Look(t) ==
    /\ pc[t] = "idle"
    /\ Kind(t) = "entry"
    /\ pc' = [pc EXCEPT ![t] = "looked"]
    /\ start' = [start EXCEPT ![t] = ResearchNow]
    /\ UNCHANGED <<memory, lock, scan, generations, results, report>>

Waiting(t) == pc[t] = IF Kind(t) = "entry" THEN "looked" ELSE "idle"

\* Nobody waits for the lock. A dry run observes like any other.
Refuse(t) ==
    /\ Waiting(t)
    /\ \/ lock # None
       \/ Kind(t) = "entry" /\ start[t] # ResearchNow
       \/ Kind(t) = "render" /\ results.full = None
    /\ pc' = [pc EXCEPT ![t] = "refused"]
    /\ start' = [start EXCEPT ![t] = None]
    /\ UNCHANGED <<memory, lock, scan, generations, results, report>>

\* The selection cache gives every writable run a generation of its own.
Begin(t) ==
    /\ Waiting(t)
    /\ lock = None
    /\ Kind(t) # "render"
    /\ Kind(t) = "entry" => start[t] = ResearchNow
    /\ lock' = t
    /\ pc' = [pc EXCEPT ![t] = "busy"]
    /\ start' = [start EXCEPT ![t] = ResearchNow]
    /\ scan' = [NoScan EXCEPT !.at = "next", !.todo = Op[t].reads,
                              !.run = generations]
    /\ generations' = IF Kind(t) = "full" THEN generations + 1 ELSE generations
    /\ UNCHANGED <<memory, results, report>>

\* render_validation reads the snapshot of the log and the generation of the
\* validation domain.
BeginRender(t) ==
    /\ Waiting(t)
    /\ lock = None
    /\ Kind(t) = "render"
    /\ results.full # None
    /\ lock' = t
    /\ pc' = [pc EXCEPT ![t] = "busy"]
    /\ scan' = [NoScan EXCEPT !.at = "compose", !.generation = results.generation]
    /\ UNCHANGED <<memory, start, generations, results, report>>

---------------------------------------------------------------------------
(* Observation                                                             *)

Goto(stage) == scan' = [scan EXCEPT !.at = stage]

OnlyScan == UNCHANGED <<timeline, lock, pc, start, generations, results, report>>

\* The unit under observation is over: with a value, which a verification
\* compares with the one before, or with a failed check.
Over(memo) == [memo EXCEPT !.at = "next", !.todo = @ \ {scan.unit}, !.unit = None,
                           !.file = None, !.stat = None, !.digest = None, !.read = None,
                           !.left = {}, !.stamps = NoScan.stamps, !.digests = NoScan.digests]

Seen(stamp, value) ==
    IF scan.verifying
    THEN Over([scan EXCEPT !.bad = @ \/ scan.seen[scan.unit].value # value])
    ELSE Over([scan EXCEPT !.seen[scan.unit] = [stamp |-> stamp, value |-> value]])

Unavailable == Over([scan EXCEPT !.bad = TRUE])

\* _read_text: documents are read first, once, and not checked.
ReadDocument(d) ==
    /\ scan.at = "next" /\ ~ scan.verifying
    /\ d \in scan.todo \cap Document
    /\ scan' = [scan EXCEPT !.todo = @ \ {d},
                            !.seen[d] = [stamp |-> StampOf(d), value |-> ContentOf(d)]]
    /\ OnlyScan /\ UNCHANGED <<rows, trees, selections>>

\* observe_source_identity, up to the fingerprint.
ObserveSource(s) ==
    /\ scan.at = "next" /\ ~ scan.verifying
    /\ scan.todo \cap Document = {}
    /\ s \in scan.todo \cap Source
    /\ scan' = [scan EXCEPT !.at = "hash", !.unit = s, !.file = s, !.stat = StampOf(s)]
    /\ OnlyScan /\ UNCHANGED <<rows, trees, selections>>

\* _observe_directory lists the members, one after the other.
ObserveTree ==
    /\ scan.at = "next"
    /\ scan.todo \cap Document = {}
    /\ Tree \in scan.todo
    /\ scan.verifying => scan.todo = {Tree}
    /\ scan' = [scan EXCEPT !.at = "list", !.unit = Tree, !.left = Member]
    /\ OnlyScan /\ UNCHANGED <<rows, trees, selections>>

Least(S) == CHOOSE x \in S : \A y \in S : x <= y

List ==
    /\ scan.at = "list"
    /\ scan.left # {}
    /\ scan' = [scan EXCEPT !.stamps[Least(scan.left)] = StampOf(Least(scan.left)),
                            !.left = @ \ {Least(scan.left)}]
    /\ OnlyScan /\ UNCHANGED <<rows, trees, selections>>

\* The members are hashed one after the other, and then listed again.
HashNext(left) ==
    [scan EXCEPT !.at   = IF left = {} THEN "relist" ELSE "hash",
                 !.left = IF left = {} THEN Member ELSE left,
                 !.file = IF left = {} THEN None ELSE Least(left)]

\* A directory whose members all have their recorded identity is not read.
Listed ==
    /\ scan.at = "list"
    /\ scan.left = {}
    /\ scan' = IF Reuses /\ MatchingTree(scan.stamps) # None
               THEN Seen(None, MatchingTree(scan.stamps))
               ELSE HashNext(Member)
    /\ OnlyScan /\ UNCHANGED <<rows, trees, selections>>

\* _observe_file: the digest of a file with its recorded identity is taken as it
\* is; another file is read between two looks at its identity.
ReuseFile ==
    /\ scan.at = "hash"
    /\ Reuses /\ MatchingFile(scan.file) # None
    /\ scan' = [scan EXCEPT !.at = "hashed", !.digest = MatchingFile(scan.file)]
    /\ OnlyScan /\ UNCHANGED <<rows, trees, selections>>

HashFile ==
    /\ scan.at = "hash"
    /\ ~ (Reuses /\ MatchingFile(scan.file) # None)
    /\ scan' = [scan EXCEPT !.at = "hashing", !.read =
                    [stamp |-> StampOf(scan.file), digest |-> ContentOf(scan.file)]]
    /\ OnlyScan /\ UNCHANGED <<rows, trees, selections>>

EndHash ==
    /\ scan.at = "hashing"
    /\ IF scan.read.stamp = StampOf(scan.file)
       THEN /\ scan' = [scan EXCEPT !.at = "hashed", !.digest = scan.read.digest]
            /\ rows' = IF Writable THEN [rows EXCEPT ![scan.file] = scan.read] ELSE rows
       ELSE /\ scan' = Unavailable
            /\ UNCHANGED rows
    /\ OnlyScan /\ UNCHANGED <<trees, selections>>

\* Deviation: one member is enough.
MemberHashedOnce ==
    /\ scan.at = "hashed"
    /\ scan.unit = Tree
    /\ scan' = [HashNext({}) EXCEPT
                    !.digests[scan.file] = scan.digest, !.digest = None, !.read = None]
    /\ OnlyScan /\ UNCHANGED <<rows, trees, selections>>

MemberHashed ==
    /\ scan.at = "hashed"
    /\ scan.unit = Tree
    /\ scan' = [HashNext(scan.left \ {scan.file}) EXCEPT
                    !.digests[scan.file] = scan.digest, !.digest = None, !.read = None]
    /\ OnlyScan /\ UNCHANGED <<rows, trees, selections>>

\* The members are listed again; only if none changed the directory has a digest.
Relist ==
    /\ scan.at = "relist"
    /\ scan.left # {}
    /\ LET m == Least(scan.left) IN
       scan' = IF StampOf(m) = scan.stamps[m] THEN [scan EXCEPT !.left = @ \ {m}]
               ELSE Unavailable
    /\ OnlyScan /\ UNCHANGED <<rows, trees, selections>>

Relisted ==
    /\ scan.at = "relist"
    /\ scan.left = {}
    /\ scan' = Seen(None, scan.digests)
    /\ trees' = IF Writable THEN [stamp |-> scan.stamps, digest |-> scan.digests] ELSE trees
    /\ OnlyScan /\ UNCHANGED <<rows, selections>>

\* The rest of observe_source_identity, lookup_selection and, if it hits,
\* require_source_reader. The identity is compared each time.
Settled == scan.stat = StampOf(scan.file)

LookUp ==
    /\ scan.at = "hashed"
    /\ scan.unit \in Source
    /\ LET hit == Reuses /\ scan.digest \in Stored IN
       scan' = IF ~ Settled THEN Unavailable
               ELSE IF ~ hit THEN [scan EXCEPT !.at = "load"]
               ELSE [Seen(scan.stat, selections[scan.digest].value)
                        EXCEPT !.used = @ \cup IF Writable THEN {scan.digest} ELSE {}]
    /\ OnlyScan /\ UNCHANGED <<rows, trees, selections>>

\* load_source and evaluate_observed_locator read the source again and then
\* compare its identity.
Load ==
    /\ scan.at = "load"
    /\ scan' = [scan EXCEPT !.at = "evaluate", !.read = ContentOf(scan.file)]
    /\ OnlyScan /\ UNCHANGED <<rows, trees, selections>>

\* Deviation: the identity is not compared after the evaluation.
EvaluateUnchecked ==
    /\ scan.at = "evaluate"
    /\ scan' = Seen(scan.stat, scan.read)
    /\ selections' = IF Writable THEN WithSelection(scan.digest, scan.read, scan.run)
                     ELSE selections
    /\ OnlyScan /\ UNCHANGED <<rows, trees>>

Evaluate ==
    /\ scan.at = "evaluate"
    /\ IF Settled
       THEN /\ scan' = Seen(scan.stat, scan.read)
            /\ selections' =
                IF Writable THEN WithSelection(scan.digest, scan.read, scan.run)
                ELSE selections
       ELSE scan' = Unavailable /\ UNCHANGED selections
    /\ OnlyScan /\ UNCHANGED <<rows, trees>>

\* _verify_source_stability and _verify_provenance_stability: when all is
\* evaluated, the sources must have the identities they were seen with, and then
\* the input the digest.
BeginVerification ==
    /\ scan.at = "next"
    /\ scan.todo = {}
    /\ ~ scan.verifying
    /\ scan' = [scan EXCEPT !.verifying = TRUE,
                            !.todo = {u \in Source \cup {Tree} : scan.seen[u] # None}]
    /\ OnlyScan /\ UNCHANGED <<rows, trees, selections>>

\* Deviation: the identity now is the one that is remembered.
VerifyNothing(s) ==
    /\ scan.at = "next" /\ scan.verifying
    /\ s \in scan.todo \cap Source
    /\ scan' = [scan EXCEPT !.todo = @ \ {s}]
    /\ OnlyScan /\ UNCHANGED <<rows, trees, selections>>

VerifySource(s) ==
    /\ scan.at = "next" /\ scan.verifying
    /\ s \in scan.todo \cap Source
    /\ scan' = [scan EXCEPT !.todo = @ \ {s}, !.bad = @ \/ scan.seen[s].stamp # StampOf(s)]
    /\ OnlyScan /\ UNCHANGED <<rows, trees, selections>>

\* A dry run answers; the others must find the log as it was at the start.
EndScan ==
    /\ scan.at = "next" /\ scan.verifying
    /\ scan.todo = {}
    /\ IF Kind(lock) = "dry"
       THEN End("done") /\ UNCHANGED <<memory, generations, results, report>>
       ELSE IF ResearchNow = start[lock]
       THEN Goto("publish") /\ OnlyScan /\ UNCHANGED <<rows, trees, selections>>
       ELSE Fail

---------------------------------------------------------------------------
(* Results and report                                                      *)

Values == [u \in {v \in Unit : scan.seen[v] # None} |-> scan.seen[u].value]

NewSnapshot ==
    [id |-> lock, generation |-> results.generation + 1, values |-> Values, clear |-> ~ scan.bad]

\* Deviation: the report counts as current before it is written.
StoreCurrent(s) ==
    [generation |-> s.generation, marker |-> IF Whole(s.id) THEN s.generation ELSE 0,
     full    |-> IF Whole(s.id) THEN s ELSE results.full,
     entries |-> [e \in Entry |->
                    IF Whole(s.id) THEN None
                    ELSE IF Op[s.id].entry = e THEN s
                    ELSE results.entries[e]]]

\* publish_validation_snapshot: one transaction. A snapshot of the log replaces
\* all others, one of an entry its predecessor; no report is current.
StoreSnapshot(s) ==
    [generation |-> s.generation, marker |-> 0,
     full    |-> IF Whole(s.id) THEN s ELSE results.full,
     entries |-> [e \in Entry |->
                    IF Whole(s.id) THEN None
                    ELSE IF Op[s.id].entry = e THEN s
                    ELSE results.entries[e]]]

Publish ==
    /\ scan.at = "publish"
    /\ results' = StoreSnapshot(NewSnapshot)
    /\ IF Whole(lock)
       THEN /\ scan' = [scan EXCEPT !.at = "compose", !.generation = results'.generation]
            /\ UNCHANGED <<lock, pc, start>>
       ELSE End("done")
    /\ UNCHANGED <<memory, generations, report>>

PublishFails ==
    /\ scan.at = "publish"
    /\ lock \in Faulty
    /\ Fail

\* publish_validation_outputs_locked; the report that was there is restored if
\* the replacement fails.
WriteReport ==
    /\ scan.at = "compose"
    /\ report' = results.full.id
    /\ Goto("mark")
    /\ UNCHANGED <<memory, lock, pc, start, generations, results>>

ReportFails ==
    /\ scan.at = "compose"
    /\ lock \in Faulty
    /\ End("failed")
    /\ report' \in {report, results.full.id}
    /\ UNCHANGED <<memory, generations, results>>

\* Deviation: only a validation marks its report.
MarkOwn ==
    /\ scan.at = "mark"
    /\ results' = IF results.generation = scan.generation /\ Kind(lock) # "render"
                  THEN [results EXCEPT !.marker = scan.generation] ELSE results
    /\ IF Writable THEN Goto("finish") /\ UNCHANGED <<lock, pc, start>> ELSE End("done")
    /\ UNCHANGED <<memory, generations, report>>

\* record_report_materialization, for the generation the report was made for.
Mark ==
    /\ scan.at = "mark"
    /\ results' = IF results.generation = scan.generation
                  THEN [results EXCEPT !.marker = scan.generation] ELSE results
    /\ IF Writable THEN Goto("finish") /\ UNCHANGED <<lock, pc, start>> ELSE End("done")
    /\ UNCHANGED <<memory, generations, report>>

Finish ==
    /\ scan.at = "finish"
    /\ selections' = Retained(scan.used, scan.run)
    /\ End("done")
    /\ UNCHANGED <<timeline, rows, trees, generations, results, report>>

Die ==
    /\ lock \in Mortal
    /\ End("dead")
    /\ UNCHANGED <<memory, generations, results, report>>

---------------------------------------------------------------------------

Observe ==
    \/ \E f \in File : ReadDocument(f) \/ ObserveSource(f) \/ VerifySource(f)
    \/ ObserveTree \/ List \/ Listed \/ MemberHashed \/ Relist \/ Relisted
    \/ ReuseFile \/ HashFile \/ EndHash \/ LookUp \/ Load \/ Evaluate
    \/ BeginVerification \/ EndScan

Report == Publish \/ PublishFails \/ WriteReport \/ ReportFails \/ Mark \/ Finish

Next ==
    \/ Author
    \/ \E t \in Task : Look(t) \/ Refuse(t) \/ Begin(t) \/ BeginRender(t)
    \/ lock # None /\ (Observe \/ Report \/ Die)

Spec == Init /\ [][Next]_vars

---------------------------------------------------------------------------
(* Properties                                                              *)

Snapshots == ({results.full} \cup {results.entries[e] : e \in Entry}) \ {None}

\* What a saved validation without failed checks says of the sources and of the
\* documents was true of all of them at one moment, and what it says of the
\* input was true at one: an edit while others are still being read is noticed.
SnapshotsAreCuts ==
    \A s \in Snapshots :
        s.clear =>
            /\ \E i \in DOMAIN timeline :
                \A u \in DOMAIN s.values \ {Tree} : timeline[i][u].content = s.values[u]
            /\ Tree \in DOMAIN s.values =>
                \E i \in DOMAIN timeline :
                    \A m \in Member : timeline[i][m].content = s.values[Tree][m]

\* A report that show calls current is the rendering of the saved validation of
\* the log, whatever was interrupted or failed on the way.
ShownCurrent == results.full # None /\ results.marker = results.full.generation
MarkedReportIsExact == ShownCurrent => report = results.full.id

\* A report that could not be replaced, or was never marked, is current again
\* once it is rendered, unless an entry was validated since the log was: nothing
\* is evaluated again.
RenderRecovers ==
    [][\A t \in Task :
        (Kind(t) = "render" /\ pc[t] = "busy" /\ pc'[t] = "done")
            => ShownCurrent' \/ \E e \in Entry : results.entries[e] # None]_vars

=============================================================================
