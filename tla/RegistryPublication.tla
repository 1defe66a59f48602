------------------------ MODULE RegistryPublication ------------------------
(***************************************************************************)
(* Publication of the registries of a research log: operation locks and    *)
(* residue markers (validation/operation_state.py, log_commands/storage.py)*)
(* and the commands that merge, mark, replace file by file, and roll back  *)
(* (command_sync.py, evidence_sync.py, graph_state.py, data.py,            *)
(* retention.py, reorganize.py, reorganize_transfer.py).                   *)
(*                                                                         *)
(* A lock is freed when its process dies, a marker is not.                 *)
(***************************************************************************)
EXTENDS RegistryOps, FiniteSets

CONSTANTS
    Mortal,         \* commands that may be killed
    Faulty,         \* commands whose file operations may fail
    Interruptible,  \* commands that may be interrupted from the keyboard
    Initial         \* the registry at the start

VARIABLES
    files,      \* what the registry files hold now
    marker,     \* markers on disk
    artifact,   \* holder of artifact-reservations.lock of the project
    pc, phase,  \* position of a command; "prepare" or "finish"
    log,        \* its mode of log.lock
    locked,     \* its entry locks
    seen,       \* registry it read when it prepared
    before,     \* registry it restores if it fails
    todo,       \* files it still has to replace
    undo,       \* files it has to restore
    torn,       \* files it replaced, while neither all are nor they are restored
    made        \* markers it created and has not removed

local == <<pc, phase, log, locked, seen, before, todo, undo, torn, made>>
vars == <<files, marker, artifact, local>>

ASSUME PublicationAssumption ==
    /\ Mortal \subseteq Command
    /\ Faulty \subseteq Command
    /\ Interruptible \subseteq Command
    /\ Initial \in Registry

Least(S) == CHOOSE x \in S : \A y \in S : x <= y
Greatest(S) == CHOOSE x \in S : \A y \in S : x >= y

Ended == {"done", "refused", "failed", "repair", "dead"}

TypeOK ==
    /\ files \in Registry
    /\ marker \subseteq Marker
    /\ artifact \in Command \cup {None}
    /\ pc \in [Command -> {"idle", "entering", "checked", "marking",
                           "writing", "undoing", "clearing"} \cup Ended]
    /\ phase \in [Command -> {"prepare", "finish"}]
    /\ log \in [Command -> {"none", "shared", "exclusive"}]
    /\ locked \in [Command -> SUBSET Entry]
    /\ seen \in [Command -> Registry]
    /\ before \in [Command -> Registry]
    /\ todo \in [Command -> SUBSET File]
    /\ undo \in [Command -> SUBSET File]
    /\ torn \in [Command -> SUBSET File]
    /\ made \in [Command -> SUBSET Marker]

\* Exclusive commands prepare and publish under one lock; an execution whose
\* publication is modelled has read the registries at the start.
Exclusive(c) == Op[c].kind \in {"data", "reorganize", "relocate"}

Init ==
    /\ files = Initial
    /\ marker = {}
    /\ artifact = None
    /\ pc = [c \in Command |-> "idle"]
    /\ phase = [c \in Command |-> IF Op[c].kind = "sync" THEN "prepare" ELSE "finish"]
    /\ log = [c \in Command |-> "none"]
    /\ locked = [c \in Command |-> {}]
    /\ seen = [c \in Command |-> Initial]
    /\ before = [c \in Command |-> Initial]
    /\ todo = [c \in Command |-> {}]
    /\ undo = [c \in Command |-> {}]
    /\ made = [c \in Command |-> {}]
    /\ torn = [c \in Command |-> {}]

\* Deviation: the prepared registry is installed instead of merged.
MergedStale(c, fresh) == Apply(c, IF Exclusive(c) THEN fresh ELSE seen[c])

\* A command changes its own slots in the registry it finds at last.
Merged(c, fresh) == Apply(c, fresh)
After(c) == Merged(c, before[c])

Image == <<seen, before, todo, undo, torn, made>>

\* Leave the locked region, with an outcome or to prepare the next phase.
Leave(c, to) ==
    /\ pc' = [pc EXCEPT ![c] = to]
    /\ log' = [log EXCEPT ![c] = "none"]
    /\ locked' = [locked EXCEPT ![c] = {}]
    /\ artifact' = IF artifact = c THEN None ELSE artifact

\* The end of a process whose publication is closed; its memory is gone.
End(c, outcome) ==
    /\ Leave(c, outcome)
    /\ seen' = [seen EXCEPT ![c] = Initial]
    /\ before' = [before EXCEPT ![c] = Initial]
    /\ todo' = [todo EXCEPT ![c] = {}]
    /\ UNCHANGED <<files, marker, phase, undo, torn, made>>

Refuse(c) == End(c, "refused")

---------------------------------------------------------------------------
(* Locks                                                                   *)

Wanted(c) == IF phase[c] = "prepare" THEN Op[c].reads ELSE Op[c].locks
Missing(c) == Wanted(c) \ locked[c]

\* Deviation: a command locks its own entry before those it refers to.
NextLockOwnFirst(c) ==
    Least(IF Missing(c) \cap Op[c].reads # {} THEN Missing(c) \cap Op[c].reads ELSE Missing(c))

NextLock(c) == Least(Missing(c))

\* Every lock for the publication is held.
Locked(c) ==
    /\ pc[c] = "entering"
    /\ phase[c] = "finish"
    /\ Missing(c) = {}

LogFree(c) ==
    \A d \in Command \ {c} :
        IF Exclusive(c) THEN log[d] = "none" ELSE log[d] # "exclusive"

EntryFree(e) == \A d \in Command : e \notin locked[d]

\* entry_locks and entry_lock: the log lock is shared, and each entry is
\* checked before its lock is awaited.
TakeSharedLog(c) ==
    /\ pc[c] = "idle"
    /\ ~ Exclusive(c)
    /\ LogFree(c)
    /\ log' = [log EXCEPT ![c] = "shared"]
    /\ pc' = [pc EXCEPT ![c] = "entering"]
    /\ UNCHANGED <<files, marker, artifact, phase, locked, Image>>

\* require_mutation_ready for one entry.
Ready(e) == marker \cap {e, WholeLog} = {}

CheckEntry(c) ==
    /\ pc[c] = "entering"
    /\ Missing(c) # {}
    /\ IF Ready(NextLock(c))
       THEN /\ pc' = [pc EXCEPT ![c] = "checked"]
            /\ UNCHANGED <<files, marker, artifact, phase, log, locked, Image>>
       ELSE Refuse(c)

TakeEntry(c) ==
    /\ pc[c] = "checked"
    /\ EntryFree(NextLock(c))
    /\ locked' = [locked EXCEPT ![c] = @ \cup {NextLock(c)}]
    /\ pc' = [pc EXCEPT ![c] = "entering"]
    /\ UNCHANGED <<files, marker, artifact, phase, log, Image>>

\* log_lock, log_and_entry_locks: the log lock is exclusive and every marker is
\* checked after it was taken. Nobody else holds an entry lock then.
TakeExclusiveLog(c) ==
    /\ pc[c] = "idle"
    /\ Exclusive(c)
    /\ LogFree(c)
    /\ IF marker = {}
       THEN /\ log' = [log EXCEPT ![c] = "exclusive"]
            /\ locked' = [locked EXCEPT ![c] = Op[c].locks]
            /\ pc' = [pc EXCEPT ![c] = "entering"]
            /\ UNCHANGED <<files, marker, artifact, phase, Image>>
       ELSE Refuse(c)

\* A lock that stays busy is given up, at once by exclusive commands, after
\* ten seconds by the others.
GiveUp(c) ==
    /\ \/ pc[c] = "idle" /\ ~ LogFree(c)
       \/ pc[c] = "checked" /\ ~ EntryFree(NextLock(c))
       \/ Locked(c) /\ artifact # None
    /\ Refuse(c)

---------------------------------------------------------------------------
(* Preparation and merge                                                   *)

\* The registries are read under the locks and prepared outside of them.
\* Slots of other entries are read without their locks.
Prepare(c) ==
    /\ pc[c] = "entering"
    /\ Missing(c) = {}
    /\ phase[c] = "prepare"
    /\ IF \A s \in Op[c].uses : Present(files, s)
       THEN /\ Leave(c, "idle")
            /\ phase' = [phase EXCEPT ![c] = "finish"]
            /\ seen' = [seen EXCEPT ![c] = files]
            /\ UNCHANGED <<files, marker, before, todo, undo, torn, made>>
       ELSE Refuse(c)

\* Deviation: what was deleted in the meantime counts as unchanged.
UnchangedUnlessDeleted(c, s) ==
    files[s].authority \in {None, seen[c][s].authority}

\* merge_data and require_unchanged: what the command uses or changes is as it
\* saw it, or a sync finds its own change already made.
Unchanged(c, s) ==
    \/ files[s].authority = seen[c][s].authority
    \/ /\ Op[c].kind = "sync"
       /\ s \in DOMAIN Op[c].sets
       /\ files[s].authority = Op[c].sets[s]

\* Deviation: a use of a declaration is not rechecked.
FitsUnchecked(c) ==
    /\ NothingLost(c, files)
    /\ Exclusive(c) =>
        /\ \A s \in DOMAIN Op[c].moves : ~ Present(files, s)
        /\ \A s \in DOMAIN Op[c].policy : Present(files, s)
    /\ ~ Exclusive(c) => \A s \in DOMAIN Op[c].sets : Unchanged(c, s)

Fits(c) ==
    /\ NothingLost(c, files)
    /\ Exclusive(c) =>
        /\ \A s \in DOMAIN Op[c].moves : ~ Present(files, s)
        /\ \A s \in DOMAIN Op[c].policy : Present(files, s)
    /\ ~ Exclusive(c) =>
        \A s \in Op[c].uses \cup DOMAIN Op[c].sets : Unchanged(c, s)


\* artifact_transaction is taken for the rest of the command. Any other check
\* of the command may refuse here.
Merge(c) ==
    /\ Locked(c)
    /\ artifact = None
    /\ LET image == Merged(c, files) IN
       \/ Refuse(c)
       \/ /\ Fits(c)
          /\ image = files
          /\ End(c, "done")
       \/ /\ Fits(c)
          /\ image # files
          /\ artifact' = c
          /\ before' = [before EXCEPT ![c] = files]
          /\ todo' = [todo EXCEPT ![c] =
                        {FileOf[s] : s \in {t \in Slot : files[t] # image[t]}}]
          /\ pc' = [pc EXCEPT ![c] = "marking"]
          /\ UNCHANGED <<files, marker, phase, log, locked, seen, undo, torn, made>>

---------------------------------------------------------------------------
(* Publication                                                             *)

Unmade(c) == Op[c].marks \ made[c]

\* begin_registry_transaction, begin_reorganization: O_EXCL refuses a marker
\* that is there. What was created before is removed again.
Mark(c) ==
    /\ pc[c] = "marking"
    /\ Unmade(c) # {}
    /\ LET m == Least(Unmade(c)) IN
       IF m \in marker
       THEN /\ pc' = [pc EXCEPT ![c] = "clearing"]
            /\ UNCHANGED <<files, marker, artifact, phase, log, locked, Image>>
       ELSE /\ marker' = marker \cup {m}
            /\ made' = [made EXCEPT ![c] = @ \cup {m}]
            /\ UNCHANGED <<files, artifact, pc, phase, log, locked, seen, before,
                           todo, undo, torn>>

\* The marker may be on disk when its creation fails; then it stays.
MarkFails(c) ==
    /\ c \in Faulty
    /\ pc[c] = "marking"
    /\ Unmade(c) # {}
    /\ Least(Unmade(c)) \notin marker
    /\ \/ /\ pc' = [pc EXCEPT ![c] = "clearing"]
          /\ UNCHANGED <<files, marker, artifact, phase, log, locked, Image>>
       \/ /\ marker' = (marker \cup {Least(Unmade(c))}) \ made[c]
          /\ made' = [made EXCEPT ![c] = {Least(Unmade(c))}]
          /\ Leave(c, "repair")
          /\ UNCHANGED <<files, phase, seen, before, todo, undo, torn>>

AllMarked(c) ==
    /\ pc[c] = "marking"
    /\ Unmade(c) = {}
    /\ pc' = [pc EXCEPT ![c] = "writing"]
    /\ UNCHANGED <<files, marker, artifact, phase, log, locked, Image>>

Install(f, image) == [s \in Slot |-> IF FileOf[s] = f THEN image[s] ELSE files[s]]

\* atomic_write_texts: the files are replaced one by one. A publication of one
\* file is over with it.
Write(c) ==
    /\ pc[c] = "writing"
    /\ LET f == Least(todo[c]) IN
       /\ files' = Install(f, After(c))
       /\ todo' = [todo EXCEPT ![c] = @ \ {f}]
       /\ undo' = [undo EXCEPT ![c] = IF todo[c] = {f} THEN {} ELSE @ \cup {f}]
       /\ torn' = [torn EXCEPT ![c] = IF todo[c] = {f} THEN {} ELSE @ \cup {f}]
       /\ pc' = [pc EXCEPT ![c] = IF todo[c] = {f} THEN "clearing" ELSE @]
    /\ UNCHANGED <<marker, artifact, phase, log, locked, seen, before, made>>

\* A replacement that fails may have happened already (the directory could not
\* be synchronized). pyrun restores nothing, its file is replaced or not.
WriteFails(c) ==
    /\ c \in Faulty
    /\ pc[c] = "writing"
    /\ LET f == Least(todo[c]) IN
       /\ \/ files' = Install(f, After(c))
          \/ UNCHANGED files
       /\ IF Op[c].kind = "run"
          THEN /\ Leave(c, "failed")
               /\ UNCHANGED <<undo, torn>>
          ELSE /\ pc' = [pc EXCEPT ![c] = "undoing"]
               /\ undo' = [undo EXCEPT ![c] = @ \cup {f}]
               /\ torn' = [torn EXCEPT ![c] = @ \cup {f}]
               /\ UNCHANGED <<artifact, log, locked>>
    /\ UNCHANGED <<marker, phase, seen, before, todo, made>>

\* The files are restored in reverse order; each failure is remembered and the
\* rest is restored nevertheless. The markers are removed only if all were.
Undo(c) ==
    /\ pc[c] = "undoing"
    /\ undo[c] # {}
    /\ LET f == Greatest(undo[c]) IN
       /\ undo' = [undo EXCEPT ![c] = @ \ {f}]
       /\ \/ files' = Install(f, before[c]) /\ torn' = [torn EXCEPT ![c] = @ \ {f}]
          \/ c \in Faulty /\ UNCHANGED <<files, torn>>
    /\ UNCHANGED <<marker, artifact, pc, phase, log, locked, seen, before, todo, made>>

\* Deviation: the markers are removed whether or not the files were restored.
UndoneAnyway(c) ==
    /\ pc[c] = "undoing"
    /\ undo[c] = {}
    /\ pc' = [pc EXCEPT ![c] = "clearing"]
    /\ UNCHANGED <<files, marker, artifact, phase, log, locked, Image>>

Undone(c) ==
    /\ pc[c] = "undoing"
    /\ undo[c] = {}
    /\ IF torn[c] # {}
       THEN Leave(c, "repair")
       ELSE pc' = [pc EXCEPT ![c] = "clearing"] /\ UNCHANGED <<artifact, log, locked>>
    /\ UNCHANGED <<files, marker, phase, Image>>

Succeeded(c) == todo[c] = {}
Outcome(c) == IF Succeeded(c) THEN "done" ELSE "failed"

\* finish_guarded_publication, once per marker. After a relocation that failed
\* the marker is looked for below the new root, where it no longer is.
Clear(c) ==
    /\ pc[c] = "clearing"
    /\ made[c] # {}
    /\ IF Op[c].kind = "relocate" /\ ~ Succeeded(c)
       THEN Leave(c, "failed") /\ UNCHANGED <<marker, made>>
       ELSE /\ marker' = marker \ {Least(made[c])}
            /\ made' = [made EXCEPT ![c] = @ \ {Least(made[c])}]
            /\ UNCHANGED <<artifact, pc, log, locked>>
    /\ UNCHANGED <<files, phase, seen, before, todo, undo, torn>>

\* The removal fails, before or after it is visible; later markers stay.
ClearFails(c) ==
    /\ c \in Faulty
    /\ pc[c] = "clearing"
    /\ made[c] # {}
    /\ \/ UNCHANGED <<marker, made>>
       \/ /\ marker' = marker \ {Least(made[c])}
          /\ made' = [made EXCEPT ![c] = @ \ {Least(made[c])}]
    /\ Leave(c, "repair")
    /\ UNCHANGED <<files, phase, seen, before, todo, undo, torn>>

\* Deviation: one marker is removed, whichever were created.
FinishEarly(c) ==
    /\ pc[c] = "clearing"
    /\ Cardinality(made[c]) < 2
    /\ End(c, Outcome(c))

Finish(c) ==
    /\ pc[c] = "clearing"
    /\ made[c] = {}
    /\ End(c, Outcome(c))

---------------------------------------------------------------------------
(* Faults of the process                                                   *)

Die(c) ==
    /\ c \in Mortal
    /\ pc[c] \notin Ended
    /\ Leave(c, "dead")
    /\ UNCHANGED <<files, marker, phase, Image>>

\* KeyboardInterrupt is no OSError, so atomic_write_texts restores nothing.
\* _publish_updates_locked removes its markers all the same.
Interrupt(c) ==
    /\ c \in Interruptible
    /\ pc[c] \in {"marking", "writing", "undoing"}
    /\ IF Op[c].kind = "data"
       THEN /\ marker' = marker \ made[c]
            /\ made' = [made EXCEPT ![c] = {}]
            /\ Leave(c, "failed")
       ELSE Leave(c, "dead") /\ UNCHANGED <<marker, made>>
    /\ UNCHANGED <<files, phase, seen, before, todo, undo, torn>>

---------------------------------------------------------------------------

Step(c) ==
    \/ TakeSharedLog(c) \/ CheckEntry(c) \/ TakeEntry(c) \/ TakeExclusiveLog(c)
    \/ Prepare(c) \/ Merge(c)
    \/ Mark(c) \/ AllMarked(c) \/ Write(c) \/ Undo(c) \/ Undone(c) \/ Clear(c) \/ Finish(c)

Fault(c) == MarkFails(c) \/ WriteFails(c) \/ ClearFails(c) \/ Die(c) \/ Interrupt(c)

Next == \E c \in Command : Step(c) \/ GiveUp(c) \/ Fault(c)

Spec == Init /\ [][Next]_vars

\* Processes that are not killed go on: as long as one of them can, one does.
\* Giving up a lock is never needed.
FairSpec == Spec /\ WF_vars(\E c \in Command : Step(c))

---------------------------------------------------------------------------
(* Properties                                                              *)

\* The registry once every publication that is neither complete nor undone is:
\* what the readers are promised.
Visible ==
    IF \A c \in Command : torn[c] = {} THEN files
    ELSE [s \in Slot |->
            IF \E c \in Command : FileOf[s] \in torn[c]
            THEN before[CHOOSE c \in Command : FileOf[s] \in torn[c]][s]
            ELSE files[s]]

\* Registry files that differ from what they held before an unfinished
\* publication carry a marker, of their entry or of the log: there is no moment,
\* crash and failed rollback included, at which later commands would take
\* half-written registries for whole ones.
TornIsMarked ==
    \A s \in Slot :
        files[s] # Visible[s] => marker \cap {EntryOf[FileOf[s]], WholeLog} # {}

\* A marker belongs to a publication in progress or to one that a kill or a
\* failed file operation cut short: a command that was refused, completed or
\* rolled back completely leaves none, which would stop the log for no reason.
MarkedIsUnfinished ==
    \A m \in marker : \E c \in Command :
        m \in made[c] /\ pc[c] \in {"marking", "writing", "undoing", "clearing", "repair", "dead"}

\* A reference, record or execution always finds the declaration it uses, though
\* the one was prepared while another command deleted or renamed the other.
UsesResolve == Resolved(Visible)

\* A sync changes a slot only if it is as the sync saw it when it prepared: what
\* another command published in between is never overwritten unseen.
NoLostUpdate ==
    [][\A s \in Slot :
        Visible'[s].authority # Visible[s].authority =>
            \E c \in Command :
                /\ pc[c] = "writing" /\ pc'[c] # "writing"
                /\ s \in Owns(c)
                /\ Exclusive(c) \/ Visible[s].authority = seen[c][s].authority]_vars

\* The publication implements AtomicRegistries: changes of several files appear
\* at once, keep what others changed, policies included, and never reach an
\* entry that waits for repair.
Damaged == UNION {made[c] : c \in {d \in Command : pc[d] \in {"repair", "dead"}}}

Atomic == INSTANCE AtomicRegistries WITH registry <- Visible, damaged <- Damaged
ImplementsAtomic == Atomic!Spec

\* No command waits forever, for locks or otherwise, as long as commands go on.
CommandsEnd == <>(\A c \in Command : pc[c] \in Ended)

=============================================================================
