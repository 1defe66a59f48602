------------------------- MODULE OrdinaryExecution -------------------------
(***************************************************************************)
(* The life of an ordinary research command under `./pyrun`: the launcher  *)
(* (pyrun main), the worker that registers and then becomes the research   *)
(* command, an operator who recovers or releases what was left behind, and *)
(* authors who edit files, Markdown and declarations meanwhile.            *)
(*                                                                         *)
(* Sections the code runs under the entry lock or the reservation lock are *)
(* single steps; everything it does outside a lock is a step of its own.   *)
(* Any error ends the launcher through its `finally`, whatever the reason: *)
(* Abort stands for all of them.                                           *)
(***************************************************************************)
EXTENDS Reservations

CONSTANTS
    Key,                \* execution identities: hash of an execution recipe
    Cid,                \* commands
    Recoverer,          \* processes running `./pyrun recover`
    Editable,           \* paths a person may edit at any time
    AuthoringWrites,    \* the boundary sets authoring transactions touch
    NoExecution,        \* "pyrun.json holds no such execution"
    Earlier,            \* whoever published an execution before this history
    MaxVersion,         \* bound on the versions of one path
    MaxEdits            \* bound on the edits made by authors

ASSUME DeclarationAssumption ==
    \A i \in Invocation : Plan[i].key \in Key /\ Plan[i].cid \in Cid
ASSUME EarlierAssumption == Earlier \notin Invocation

VARIABLES
    exitCode,       \* exitCode[i]: exit status of the worker's leader process
    seen,           \* seen[i]: the launcher's local observations
    version,        \* version[p]: how often the bytes at p changed; bytes that
                    \* change and change back are outside the model
    authority,      \* authority[c]: version of the Markdown, declarations and
                    \* policies that command c depends on
    published,      \* published[k]: the execution record of k in pyrun.json
    recovery,       \* recovery[r]: where recoverer r is, and what it observed
    edits,          \* author edits so far
    disturbed,      \* history: invocations whose inputs changed between
                    \* their first observation and the end of the worker
    completed       \* history: invocations a recovery certified as published

outside == <<version, authority, edits>>
history == <<disturbed, completed>>
vars == <<record, candidate, launcher, worker, exitCode, seen, version,
          authority, published, recovery, edits, disturbed, completed>>

KeysOf(c) == {Plan[i].key : i \in {j \in Invocation : Plan[j].cid = c}}

Now(paths) == [p \in paths |-> version[p]]

CidState(c) == [k \in KeysOf(c) |-> published[k]]

Present(state) == {k \in DOMAIN state : state[k] # NoExecution}

\* pyrun.json may hold an execution from before.
EarlierExecution(k) ==
    {[by |-> Earlier, runner |-> "runner", stale |-> FALSE,
      inputs |-> Now(Plan[i].reads), outputs |-> Now(Plan[i].writes)] :
        i \in {j \in Invocation : Plan[j].key = k}}

Init ==
    /\ record = [i \in Invocation |-> "absent"]
    /\ candidate = {}
    /\ launcher = [i \in Invocation |-> "idle"]
    /\ worker = [i \in Invocation |-> "none"]
    /\ exitCode = [i \in Invocation |-> "none"]
    /\ version = [p \in Path |-> 0]
    /\ authority = [c \in Cid |-> 0]
    /\ published \in [Key -> {NoExecution} \cup UNION {EarlierExecution(k) : k \in Key}]
    /\ \A k \in Key : published[k] \in {NoExecution} \cup EarlierExecution(k)
    /\ seen = [i \in Invocation |->
                  [authority |-> 0, state |-> CidState(Plan[i].cid),
                   inputs |-> Now(Plan[i].reads),
                   outputs |-> Now(Plan[i].writes)]]
    /\ recovery = [r \in Recoverer |-> [at |-> "idle"]]
    /\ edits = 0
    /\ disturbed = {}
    /\ completed = {}

-----------------------------------------------------------------------------
(* Changing bytes on disk *)

Touched(paths) == {q \in Path : \E p \in paths : Overlap(p, q)}

\* The window in which a change of its inputs makes i's results wrong.
InputsMatter(i) ==
    \/ launcher[i] \in {"observed", "reserved", "prepared", "waiting"}
    \/ worker[i] = "spawned"
    \/ GroupAlive(i)

Touch(paths) ==
    /\ \A q \in Touched(paths) : version[q] < MaxVersion
    /\ version' = [q \in Path |-> IF q \in Touched(paths) THEN version[q] + 1
                                  ELSE version[q]]
    /\ disturbed' = disturbed \cup
          {i \in Invocation : /\ InputsMatter(i)
                              /\ Plan[i].reads \cap Touched(paths) # {}}

-----------------------------------------------------------------------------
(* The launcher, up to the start of its worker *)

Step(i, from, to) ==
    /\ launcher[i] = from
    /\ launcher' = [launcher EXCEPT ![i] = to]

Snapshot(i) ==
    /\ Step(i, "idle", "snapshotted")
    /\ seen' = [seen EXCEPT ![i].authority = authority[Plan[i].cid],
                            ![i].state = CidState(Plan[i].cid)]
    /\ UNCHANGED <<storeVars, worker, exitCode, outside, published, recovery,
                   history>>

\* Deviation: observe the whole project, not the declared inputs.
ObserveEverything(i) ==
    /\ Step(i, "snapshotted", "observed")
    /\ seen' = [seen EXCEPT ![i].inputs = Now(Path)]
    /\ UNCHANGED <<storeVars, worker, exitCode, outside, published, recovery,
                   history>>

ObserveMaterials(i) ==
    /\ Step(i, "snapshotted", "observed")
    /\ seen' = [seen EXCEPT ![i].inputs = Now(Plan[i].reads)]
    /\ UNCHANGED <<storeVars, worker, exitCode, outside, published, recovery,
                   history>>

RequireCurrent(i) ==
    /\ authority[Plan[i].cid] = seen[i].authority
    /\ Present(CidState(Plan[i].cid)) = Present(seen[i].state)

Reserve(i) ==
    /\ Step(i, "observed", "reserved")
    /\ RequireCurrent(i)
    /\ PublishRecord(i)
    /\ UNCHANGED <<worker, exitCode, seen, outside, published, recovery,
                   history>>

MaterialsUnchanged(i) == Now(Plan[i].reads) = seen[i].inputs

ConfirmPreparation(i) ==
    /\ Step(i, "reserved", "prepared")
    /\ MaterialsUnchanged(i)
    /\ UNCHANGED <<storeVars, worker, exitCode, seen, outside, published,
                   recovery, history>>

Spawn(i) ==
    /\ Step(i, "prepared", "waiting")
    /\ worker' = [worker EXCEPT ![i] = "spawned"]
    /\ UNCHANGED <<storeVars, exitCode, seen, outside, published, recovery,
                   history>>

-----------------------------------------------------------------------------
(* The worker: register, become the research command, leave.  The process  *)
(* group outlives its leader while any descendant runs.                    *)

RegisterWorker(i) ==
    /\ worker[i] = "spawned"
    /\ RegisterRecord(i)
    /\ worker' = [worker EXCEPT ![i] = "running"]
    /\ UNCHANGED <<launcher, exitCode, seen, outside, published, recovery,
                   history>>

\* The record is gone, or the lock cannot be had: the worker never becomes
\* the research command.
RegisterFails(i) ==
    /\ worker[i] = "spawned"
    /\ worker' = [worker EXCEPT ![i] = "gone"]
    /\ exitCode' = [exitCode EXCEPT ![i] = "nonzero"]
    /\ UNCHANGED <<storeVars, launcher, seen, outside, published, recovery,
                   history>>

WorkerWrites(i) ==
    /\ GroupAlive(i)
    /\ \E p \in Plan[i].writes : Touch({p})
    /\ UNCHANGED <<storeVars, launcher, worker, exitCode, seen, authority,
                   edits, published, recovery, completed>>

LeaderExits(i) ==
    /\ worker[i] = "running"
    /\ \E after \in {"lingering", "gone"} :
          worker' = [worker EXCEPT ![i] = after]
    /\ \E code \in {"zero", "nonzero"} :
          exitCode' = [exitCode EXCEPT ![i] = code]
    /\ UNCHANGED <<storeVars, launcher, seen, outside, published, recovery,
                   history>>

GroupExits(i) ==
    /\ worker[i] = "lingering"
    /\ worker' = [worker EXCEPT ![i] = "gone"]
    /\ UNCHANGED <<storeVars, launcher, exitCode, seen, outside, published,
                   recovery, history>>

-----------------------------------------------------------------------------
(* The launcher, from its worker's exit to its own *)

ReapSuccess(i) ==
    /\ Step(i, "waiting", "checking")
    /\ exitCode[i] = "zero"
    /\ UNCHANGED <<storeVars, worker, exitCode, seen, outside, published,
                   recovery, history>>

ReapFailure(i) ==
    /\ Step(i, "waiting", "exiting")
    /\ exitCode[i] = "nonzero"
    /\ UNCHANGED <<storeVars, worker, exitCode, seen, outside, published,
                   recovery, history>>

\* An interrupted wait or a failed capture terminates the group and reaps its
\* leader; descendants that ignore SIGTERM survive.
Interrupt(i) ==
    /\ Step(i, "waiting", "exiting")
    /\ \E after \in CASE worker[i] = "spawned" -> {"gone"}
                      [] worker[i] = "running" -> {"lingering", "gone"}
                      [] OTHER -> {worker[i]} :
          worker' = [worker EXCEPT ![i] = after]
    /\ UNCHANGED <<storeVars, exitCode, seen, outside, published, recovery,
                   history>>

\* Deviation: take the leader's exit for the end of its group.
TrustLeaderExit(i) ==
    /\ Step(i, "checking", "finished")
    /\ UNCHANGED <<storeVars, worker, exitCode, seen, outside, published,
                   recovery, history>>

RequireWorkerFinished(i) ==
    /\ Step(i, "checking", IF RegisteredGroupAlive(i) THEN "retaining"
                           ELSE "finished")
    /\ UNCHANGED <<storeVars, worker, exitCode, seen, outside, published,
                   recovery, history>>

RetainCandidate(i) ==
    /\ Step(i, "retaining", "exiting")
    /\ candidate' = candidate \cup {i}
    /\ UNCHANGED <<record, worker, exitCode, seen, outside, published,
                   recovery, history>>

\* Deviation: do not look at the inputs again after the run.
SkipConfirmation(i) ==
    /\ Step(i, "finished", "confirmed")
    /\ UNCHANGED <<storeVars, worker, exitCode, seen, outside, published,
                   recovery, history>>

ConfirmMaterials(i) ==
    /\ Step(i, "finished", "confirmed")
    /\ MaterialsUnchanged(i)
    /\ UNCHANGED <<storeVars, worker, exitCode, seen, outside, published,
                   recovery, history>>

ObserveOutputs(i) ==
    /\ Step(i, "confirmed", "publishing")
    /\ seen' = [seen EXCEPT ![i].outputs = Now(Plan[i].writes)]
    /\ UNCHANGED <<storeVars, worker, exitCode, outside, published, recovery,
                   history>>

\* No other execution of the entry owns an output that overlaps i's.
OutputsUnowned(i) ==
    \A j \in Invocation :
        (/\ Plan[j].entry = Plan[i].entry
         /\ Plan[j].key # Plan[i].key
         /\ published[Plan[j].key] # NoExecution)
        => \A p \in Plan[i].writes, q \in Plan[j].writes : ~Overlap(p, q)

PublishExecution(i, runner, outputs) ==
    /\ OutputsUnowned(i)
    /\ published' = [published EXCEPT ![Plan[i].key] =
                        [by |-> i, runner |-> runner, stale |-> FALSE,
                         inputs |-> seen[i].inputs, outputs |-> outputs]]

\* Deviation: do not compare the execution record with the one first seen.
PublishOver(i) ==
    /\ Step(i, "publishing", "exiting")
    /\ AccessAllowed({}, {}, {i})
    /\ RequireCurrent(i)
    /\ PublishExecution(i, "runner", seen[i].outputs)
    /\ UNCHANGED <<storeVars, worker, exitCode, seen, outside, recovery,
                   disturbed, completed>>

Publish(i) ==
    /\ Step(i, "publishing", "exiting")
    /\ AccessAllowed({}, {}, {i})
    /\ RequireCurrent(i)
    /\ published[Plan[i].key] = seen[i].state[Plan[i].key]
    /\ PublishExecution(i, "runner", seen[i].outputs)
    /\ UNCHANGED <<storeVars, worker, exitCode, seen, outside, recovery,
                   disturbed, completed>>

\* A check that fails, a lock that times out, a missing output, a signal.
Abort(i) ==
    /\ launcher[i] \in {"snapshotted", "observed", "reserved", "prepared",
                        "checking", "retaining", "finished", "confirmed",
                        "publishing"}
    /\ launcher' = [launcher EXCEPT ![i] = "exiting"]
    /\ UNCHANGED <<storeVars, worker, exitCode, seen, outside, published,
                   recovery, history>>

\* The `finally` of reserve_execution, then process exit.
Exit(i) ==
    /\ Step(i, "exiting", "gone")
    /\ ReleaseOwnRecord(i)
    /\ UNCHANGED <<worker, exitCode, seen, outside, published, recovery,
                   history>>

\* The launcher is killed, or its `finally` cannot have the lock in time.
LauncherDies(i) ==
    /\ LauncherAlive(i)
    /\ launcher' = [launcher EXCEPT ![i] = "gone"]
    /\ UNCHANGED <<storeVars, worker, exitCode, seen, outside, published,
                   recovery, history>>

-----------------------------------------------------------------------------
(* `./pyrun recover --reservation UUID` *)

Recover(r, from, next) ==
    /\ recovery[r].at = from
    /\ recovery' = [recovery EXCEPT ![r] = next]

AuthorityDigestCurrent(i) == authority[Plan[i].cid] = seen[i].authority

RecoverLoad(r, i) ==
    /\ Recover(r, "idle", [at |-> "loaded", target |-> i])
    /\ record[i] # "absent"
    /\ i \in candidate
    /\ Abandoned(i)
    /\ AuthorityDigestCurrent(i)
    /\ UNCHANGED <<storeVars, launcher, worker, exitCode, seen, outside,
                   published, history>>

RecoverConfirm(r) ==
    /\ recovery[r].at = "loaded"
    /\ LET i == recovery[r].target IN
        /\ MaterialsUnchanged(i)
        /\ Recover(r, "loaded", [at |-> "confirmed", target |-> i])
    /\ UNCHANGED <<storeVars, launcher, worker, exitCode, seen, outside,
                   published, history>>

RecoverFirstPass(r) ==
    /\ recovery[r].at = "confirmed"
    /\ LET i == recovery[r].target IN
        Recover(r, "confirmed", [at |-> "observedOnce", target |-> i,
                                 outputs |-> Now(Plan[i].writes)])
    /\ UNCHANGED <<storeVars, launcher, worker, exitCode, seen, outside,
                   published, history>>

RecoverSecondPass(r) ==
    /\ recovery[r].at = "observedOnce"
    /\ LET i == recovery[r].target IN
        /\ Now(Plan[i].writes) = recovery[r].outputs
        /\ Recover(r, "observedOnce", [recovery[r] EXCEPT !.at = "observedTwice"])
    /\ UNCHANGED <<storeVars, launcher, worker, exitCode, seen, outside,
                   published, history>>

AlreadyRecovered(i, outputs) ==
    LET x == published[Plan[i].key] IN
    /\ x # NoExecution
    /\ x.runner = "recovery"
    /\ ~x.stale
    /\ x.inputs = seen[i].inputs
    /\ x.outputs = outputs

RecoverPublish(r) ==
    /\ recovery[r].at = "observedTwice"
    /\ LET i == recovery[r].target
           outputs == recovery[r].outputs
       IN /\ AccessAllowed({}, {}, {i})
          /\ AuthorityDigestCurrent(i)
          /\ record[i] # "absent"
          /\ Abandoned(i)
          /\ \/ /\ AlreadyRecovered(i, outputs)
                /\ UNCHANGED published
             \/ /\ ~AlreadyRecovered(i, outputs)
                /\ CidState(Plan[i].cid) = seen[i].state
                /\ PublishExecution(i, "recovery", outputs)
          /\ completed' = completed \cup {i}
          /\ Recover(r, "observedTwice", [at |-> "published", target |-> i])
    /\ UNCHANGED <<storeVars, launcher, worker, exitCode, seen, outside,
                   disturbed>>

RecoverFinish(r) ==
    /\ recovery[r].at = "published"
    /\ FinishRecovery(recovery[r].target)
    /\ Recover(r, "published", [at |-> "idle"])
    /\ UNCHANGED <<launcher, worker, exitCode, seen, outside, published,
                   history>>

RecoverFinishInterrupted(r) ==
    /\ recovery[r].at = "published"
    /\ FinishRecoveryInterrupted(recovery[r].target)
    /\ Recover(r, "published", [at |-> "idle"])
    /\ UNCHANGED <<launcher, worker, exitCode, seen, outside, published,
                   history>>

\* A candidate without a reservation is a receipt of a recovery that was
\* published but not cleaned up: cleanup wants the matching published record.
OrphanMatches(i) ==
    LET x == published[Plan[i].key] IN
    /\ x # NoExecution
    /\ x.runner = "recovery"
    /\ ~x.stale
    /\ x.inputs = seen[i].inputs

RecoverOrphan(r, i) ==
    /\ recovery[r].at = "idle"
    /\ i \in candidate
    /\ OrphanMatches(i)
    /\ FinishOrphanCandidate(i)
    /\ UNCHANGED <<recovery, launcher, worker, exitCode, seen, outside,
                   published, history>>

\* A recoverer stops early: a failed check, a dry run, a crash.
RecoverStops(r) ==
    /\ recovery[r].at # "idle"
    /\ recovery' = [recovery EXCEPT ![r] = [at |-> "idle"]]
    /\ UNCHANGED <<storeVars, launcher, worker, exitCode, seen, outside,
                   published, history>>

-----------------------------------------------------------------------------
(* Operators and authors *)

Release ==
    /\ \E selected \in SUBSET Reserved :
          \/ ReleaseAbandoned(selected)
          \/ \E done \in SUBSET selected, next \in selected :
                ReleaseInterrupted(selected, done, next)
    /\ UNCHANGED <<launcher, worker, exitCode, seen, outside, published,
                   recovery, history>>

EditFile(p) ==
    /\ edits < MaxEdits
    /\ edits' = edits + 1
    /\ Touch({p})
    /\ UNCHANGED <<storeVars, launcher, worker, exitCode, seen, authority,
                   published, recovery, completed>>

EditMarkdown(c) ==
    /\ edits < MaxEdits
    /\ edits' = edits + 1
    /\ authority' = [authority EXCEPT ![c] = @ + 1]
    /\ UNCHANGED <<storeVars, launcher, worker, exitCode, seen, version,
                   published, recovery, history>>

\* A declaration change or a relocation: under the reservation lock, refused
\* when a reserved boundary or entry is affected.  A rename of a declared
\* input marks the executions that use it as requiring reproduction.
AuthoringPublish(c, boundary) ==
    /\ edits < MaxEdits
    /\ edits' = edits + 1
    /\ AccessAllowed({}, boundary, {})
    /\ Touch(boundary)
    /\ authority' = [authority EXCEPT ![c] = @ + 1]
    /\ \E renamed \in BOOLEAN :
          published' = [k \in Key |->
              IF renamed /\ k \in KeysOf(c) /\ published[k] # NoExecution
              THEN [published[k] EXCEPT !.stale = TRUE]
              ELSE published[k]]
    /\ UNCHANGED <<storeVars, launcher, worker, exitCode, seen, recovery,
                   completed>>

-----------------------------------------------------------------------------
LauncherStep(i) ==
    \/ Snapshot(i) \/ ObserveMaterials(i) \/ Reserve(i)
    \/ ConfirmPreparation(i) \/ Spawn(i) \/ ReapSuccess(i) \/ ReapFailure(i)
    \/ Interrupt(i) \/ RequireWorkerFinished(i) \/ RetainCandidate(i)
    \/ ConfirmMaterials(i) \/ ObserveOutputs(i) \/ Publish(i) \/ Abort(i)
    \/ Exit(i) \/ LauncherDies(i)

WorkerStep(i) ==
    \/ RegisterWorker(i) \/ RegisterFails(i) \/ WorkerWrites(i)
    \/ LeaderExits(i) \/ GroupExits(i)

RecovererStep(r) ==
    \/ \E i \in Invocation : RecoverLoad(r, i) \/ RecoverOrphan(r, i)
    \/ RecoverConfirm(r) \/ RecoverFirstPass(r) \/ RecoverSecondPass(r)
    \/ RecoverPublish(r) \/ RecoverFinish(r) \/ RecoverFinishInterrupted(r)
    \/ RecoverStops(r)

AuthorStep ==
    \/ \E p \in Editable : EditFile(p)
    \/ \E c \in Cid : EditMarkdown(c)
    \/ \E c \in Cid, boundary \in AuthoringWrites : AuthoringPublish(c, boundary)

Next ==
    \/ \E i \in Invocation : LauncherStep(i) \/ WorkerStep(i)
    \/ \E r \in Recoverer : RecovererStep(r)
    \/ Release
    \/ AuthorStep

Spec == Init /\ [][Next]_vars

-----------------------------------------------------------------------------
(* Properties *)

\* The execution records invocation i may publish.
ExecutionOf(i) == [by : {i, Earlier}, runner : {"runner", "recovery"},
                   stale : BOOLEAN, inputs : [Plan[i].reads -> Nat],
                   outputs : [Plan[i].writes -> Nat]]

RecoveryTypeOK(progress) ==
    \/ progress \in [at : {"idle"}]
    \/ progress \in [at : {"loaded", "confirmed", "published"},
                    target : Invocation]
    \/ \E i \in Invocation :
          progress \in [at : {"observedOnce", "observedTwice"}, target : {i},
                       outputs : [Plan[i].writes -> Nat]]

\* Every variable has its type: in particular an observation covers exactly
\* the declared boundary it was made for.
TypeOK ==
    /\ StoreTypeOK
    /\ exitCode \in [Invocation -> {"none", "zero", "nonzero"}]
    /\ \A i \in Invocation :
          /\ seen[i].authority \in Nat
          /\ DOMAIN seen[i].state = KeysOf(Plan[i].cid)
          /\ seen[i].inputs \in [Plan[i].reads -> Nat]
          /\ seen[i].outputs \in [Plan[i].writes -> Nat]
    /\ version \in [Path -> Nat]
    /\ authority \in [Cid -> Nat]
    /\ \A k \in Key : published[k] # NoExecution =>
          \E i \in Invocation : published[k] \in ExecutionOf(i)
    /\ DOMAIN recovery = Recoverer
    /\ \A r \in Recoverer : RecoveryTypeOK(recovery[r])
    /\ edits \in Nat
    /\ disturbed \subseteq Invocation
    /\ completed \subseteq Invocation

\* i uses its declared artifacts from the start of its worker until the last
\* of its process group is gone and the launcher has published or given up.
Accessing(i) ==
    \/ launcher[i] \in {"waiting", "checking", "finished", "confirmed",
                         "publishing"}
    \/ GroupAlive(i)

Clash(i, j) ==
    \/ \E p \in Plan[i].reads, q \in Plan[j].writes : Overlap(p, q)
    \/ \E p \in Plan[i].writes, q \in Plan[j].reads \cup Plan[j].writes :
          Overlap(p, q)

Access == INSTANCE ArtifactAccess
    WITH Clash <- Clash, using <- {i \in Invocation : Accessing(i)}

\* Readers share, a writer is alone: records, process checks, release and
\* recovery together implement mutual exclusion of the commands that really
\* run, whatever dies in between (research_log_reservations.py).
ImplementsAccess == Access!Spec

Exclusion == Access!Exclusion

\* The inductive core: whoever uses its artifacts has its record on disk, a
\* live process group is registered in it, no worker exists before it is
\* spawned, and records never clash.
Sheltered ==
    /\ \A i \in Invocation : Accessing(i) => record[i] # "absent"
    /\ \A i \in Invocation : GroupAlive(i) => record[i] = "registered"
    /\ \A i \in Invocation :
          launcher[i] \in {"reserved", "prepared"} => record[i] # "absent"
    /\ \A i \in Invocation :
          launcher[i] \in {"idle", "snapshotted", "observed", "reserved",
                          "prepared"} => worker[i] = "none"
    /\ \A i, j \in Reserved : i # j => ~Clash(i, j)

\* A published execution records inputs that did not change between the
\* launcher's first look at them and the end of the process group: changes
\* made before, during or after the run are told apart (pyrun
\* _confirm_execution_materials, before, after and in recovery).
PublishedInputsHeld ==
    \A k \in Key : published[k] # NoExecution =>
        published[k].by \notin disturbed

NewlyPublished(k) ==
    /\ published'[k] # published[k]
    /\ ~published'[k].stale

\* Outputs are recorded as they are on disk, with nobody of the process group
\* left to change them, by the launcher and by recovery alike.  (People who
\* edit declared outputs by hand are not in the model: Editable excludes them.)
OutputsSettled ==
    [][\A k \in Key : NewlyPublished(k) =>
          LET i == published'[k].by IN
          /\ ~GroupAlive(i)
          /\ published'[k].outputs = Now(Plan[i].writes)]_vars

\* No publication replaces an execution record its invocation had not seen
\* when it started: runs of one recipe do not overwrite each other's results.
NoLostExecution ==
    [][\A k \in Key : NewlyPublished(k) =>
          published[k] = seen[published'[k].by].state[k]]_vars

\* A candidate whose reservation is gone is the receipt of a recovery that did
\* publish: an interrupted release or cleanup never leaves one otherwise.
ReceiptsAreRecovered ==
    \A i \in candidate : record[i] = "absent" => i \in completed
=============================================================================
