---------------------------- MODULE Reservations ----------------------------
(***************************************************************************)
(* The reservation store of research_log_reservations.py: one record file  *)
(* per ordinary invocation, and beside it at most one completion           *)
(* candidate.  Every operation here runs while it holds                    *)
(* artifact-reservations.lock, so each is one atomic step; what a process  *)
(* killed while it holds the lock leaves behind is a step of its own.      *)
(*                                                                         *)
(* A record names the launcher's pid and, once registered, the worker's    *)
(* process group.  Liveness of both is read from the operating system.     *)
(***************************************************************************)
EXTENDS Naturals, Sequences, FiniteSets

CONSTANTS
    Invocation,         \* one per `./pyrun ...` invocation (and its UUID)
    Path,               \* declared boundaries, as sequences of components
    Plan,               \* Plan[i]: what invocation i declares, see below
    MaxReservations     \* MAX_RESERVATIONS

(***************************************************************************)
(* Plan[i].key is the execution identity of the recipe, cid its command,   *)
(* entry the directory of its entry, reads and writes its boundaries.      *)
(***************************************************************************)
ASSUME PathAssumption == \A p \in Path : p \in Seq(STRING)
ASSUME PlanAssumption ==
    /\ DOMAIN Plan = Invocation
    /\ \A i \in Invocation :
        /\ Plan[i].reads \subseteq Path
        /\ Plan[i].writes \subseteq Path
        /\ Plan[i].entry \in Seq(STRING)
ASSUME BoundAssumption == MaxReservations \in Nat

VARIABLES
    record,         \* record[i]: the reservation file of i
    candidate,      \* the invocations with a completion candidate file
    launcher,       \* launcher[i]: where the launcher process of i is
    worker          \* worker[i]: the process group of i's worker

storeVars == <<record, candidate>>

RecordState == {"absent", "reserved", "registered"}
LauncherState == {"idle", "snapshotted", "observed", "reserved", "prepared",
                  "waiting", "checking", "retaining", "finished", "confirmed",
                  "publishing", "exiting", "gone"}
WorkerState == {"none", "spawned", "running", "lingering", "gone"}

StoreTypeOK ==
    /\ record \in [Invocation -> RecordState]
    /\ candidate \subseteq Invocation
    /\ launcher \in [Invocation -> LauncherState]
    /\ worker \in [Invocation -> WorkerState]

-----------------------------------------------------------------------------
(* Path overlap and the access rule *)

Covers(d, p) == Len(d) <= Len(p) /\ SubSeq(p, 1, Len(d)) = d

Overlap(p, q) == Covers(p, q) \/ Covers(q, p)

Blocks(j, reads, writes) ==
    \/ \E p \in reads, q \in Plan[j].writes : Overlap(p, q)
    \/ \E p \in writes, q \in Plan[j].reads \cup Plan[j].writes : Overlap(p, q)
    \/ \E p \in writes : Covers(p, Plan[j].entry)

Reserved == {i \in Invocation : record[i] # "absent"}

RecordsReadable == Cardinality(Reserved) <= MaxReservations

AccessAllowed(reads, writes, exclude) ==
    /\ RecordsReadable
    /\ \A j \in Reserved \ exclude : ~Blocks(j, reads, writes)

-----------------------------------------------------------------------------
(* Process liveness, as the store's functions observe it *)

LauncherAlive(i) == launcher[i] \notin {"idle", "gone"}

GroupAlive(i) == worker[i] \in {"running", "lingering"}

RegisteredGroupAlive(i) == record[i] = "registered" /\ GroupAlive(i)

\* Deviation: forget the worker's process group.
AbandonedByLauncher(i) == ~LauncherAlive(i)

Abandoned(i) == ~LauncherAlive(i) /\ ~RegisteredGroupAlive(i)

-----------------------------------------------------------------------------
(* Operations on the two files *)

PublishRecord(i) ==
    /\ AccessAllowed(Plan[i].reads, Plan[i].writes, {})
    /\ record' = [record EXCEPT ![i] = "reserved"]
    /\ UNCHANGED candidate

\* Removal by the launcher that made the reservation, when it leaves the
\* reserve_execution context for whatever reason.
ReleaseOwnRecord(i) ==
    /\ record' = IF i \notin candidate /\ ~RegisteredGroupAlive(i)
                 THEN [record EXCEPT ![i] = "absent"]
                 ELSE record
    /\ UNCHANGED candidate

RegisterRecord(i) ==
    /\ record[i] = "reserved"
    /\ record' = [record EXCEPT ![i] = "registered"]
    /\ UNCHANGED candidate

\* The records an operator's `log command release` selects: all those of one
\* entry and command, or a single one by its UUID.
Selectable ==
    {{i} : i \in Reserved}
    \cup {{j \in Reserved : Plan[j].entry = Plan[i].entry
                            /\ Plan[j].cid = Plan[i].cid} : i \in Reserved}

ReleaseAbandoned(selected) ==
    /\ RecordsReadable
    /\ selected \in Selectable
    /\ \A i \in selected : Abandoned(i)
    /\ candidate' = candidate \ selected
    /\ record' = [i \in Invocation |-> IF i \in selected THEN "absent"
                                       ELSE record[i]]

\* The releasing process is killed between two unlinks: the records in `done`
\* are cleared, the next one has lost its candidate only.
\* Deviation: unlink the record first, then the candidate.
ReleaseInterruptedRecordFirst(selected, done, next) ==
    /\ RecordsReadable
    /\ selected \in Selectable
    /\ done \subseteq selected
    /\ next \in selected \ done
    /\ \A i \in selected : Abandoned(i)
    /\ candidate' = candidate \ done
    /\ record' = [i \in Invocation |-> IF i \in done \cup {next} THEN "absent"
                                       ELSE record[i]]

ReleaseInterrupted(selected, done, next) ==
    /\ RecordsReadable
    /\ selected \in Selectable
    /\ done \subseteq selected
    /\ next \in selected \ done
    /\ \A i \in selected : Abandoned(i)
    /\ candidate' = candidate \ (done \cup {next})
    /\ record' = [i \in Invocation |-> IF i \in done THEN "absent"
                                       ELSE record[i]]

FinishRecovery(i) ==
    /\ record[i] # "absent"
    /\ Abandoned(i)
    /\ record' = [record EXCEPT ![i] = "absent"]
    /\ candidate' = candidate \ {i}

\* finish_recovery killed, or failing, between its two unlinks.
FinishRecoveryInterrupted(i) ==
    /\ record[i] # "absent"
    /\ Abandoned(i)
    /\ record' = [record EXCEPT ![i] = "absent"]
    /\ UNCHANGED candidate

FinishOrphanCandidate(i) ==
    /\ record[i] = "absent"
    /\ candidate' = candidate \ {i}
    /\ UNCHANGED record
=============================================================================
