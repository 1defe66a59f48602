------------------------------ MODULE WorkJob ------------------------------
(***************************************************************************)
(* The durable job of one accepted reproduction run, state.sqlite, as      *)
(* reproduction_work_job.py keeps it: control state, supervisor row, one   *)
(* checkpoint and worker row per scheduled execution, terminal results and *)
(* the publication journal.  Every operation is one SQLite transaction; an *)
(* operation that is not enabled raises in the code.                       *)
(*                                                                         *)
(* A supervisor process is named by its incarnation: the number of         *)
(* supervisors its run has had.  So is the permit it was granted for an    *)
(* execution, which it is at most once.                                    *)
(***************************************************************************)
EXTENDS Naturals

CONSTANTS
    Run,            \* accepted runs
    Execution,      \* scheduled executions of all runs
    RunOf           \* RunOf[e]: the run that e belongs to

ASSUME RunOfAssumption == RunOf \in [Execution -> Run]

VARIABLES
    control,        \* control[r]: status, phase, stop intent, failure intent
    owner,          \* owner[r]: the supervisor row
    checkpoint,     \* checkpoint[e]: attempt state, attached permit, scratch
    recorded,       \* recorded[e]: the worker row of e
    result,         \* result[e]: the terminal command result
    journal         \* the runs whose publication journal exists

jobVars == <<control, owner, checkpoint, recorded, result, journal>>
attemptVars == <<checkpoint, recorded, result>>

ExecutionsOf(r) == {e \in Execution : RunOf[e] = r}

NoPermit == 0

Absent == [state |-> "absent", permit |-> NoPermit, started |-> FALSE,
           scratch |-> FALSE]

ControlType == [status : {"active", "complete", "stopped", "failed"},
                phase : {"accepted", "executing", "publishing", "stopping",
                         "none"},
                stop : BOOLEAN,
                failure : {"none", "publication", "other"}]

CheckpointType == [state : {"absent", "active", "stopped", "completed"},
                   permit : Nat, started : BOOLEAN, scratch : BOOLEAN]

JobTypeOK ==
    /\ control \in [Run -> ControlType]
    /\ owner \in [Run -> [pid : Nat,
                          state : {"none", "running", "stopped", "exited"}]]
    /\ checkpoint \in [Execution -> CheckpointType]
    /\ recorded \in [Execution -> {"none", "running", "exited"}]
    /\ result \in [Execution -> {"none", "succeeded", "failed"}]
    /\ journal \subseteq Run

JobInit ==
    /\ control = [r \in Run |-> [status |-> "active", phase |-> "accepted",
                                 stop |-> FALSE, failure |-> "none"]]
    /\ owner = [r \in Run |-> [pid |-> 0, state |-> "none"]]
    /\ checkpoint = [e \in Execution |-> Absent]
    /\ recorded = [e \in Execution |-> "none"]
    /\ result = [e \in Execution |-> "none"]
    /\ journal = {}

-----------------------------------------------------------------------------
(* What the guards of several operations read *)

Active(r) == control[r].status = "active"

Admitting(r) ==
    /\ Active(r)
    /\ control[r].phase \in {"accepted", "executing"}
    /\ ~control[r].stop
    /\ control[r].failure = "none"

StopSeen(r) == control[r].stop \/ control[r].phase = "stopping"

Attached(r) == {e \in ExecutionsOf(r) : checkpoint[e].permit # NoPermit}

WorkersRecorded(r) == \E e \in ExecutionsOf(r) : recorded[e] = "running"

Quiescent(r) ==
    /\ Attached(r) = {}
    /\ \A e \in ExecutionsOf(r) : checkpoint[e].state # "active"
    /\ ~WorkersRecorded(r)

-----------------------------------------------------------------------------
(* Run control and ownership *)

RequestStop(r) ==
    /\ Active(r)
    /\ control[r].stop \/ control[r].failure = "none"
    /\ control' = [control EXCEPT ![r].stop = TRUE]
    /\ UNCHANGED <<owner, attemptVars, journal>>

AcknowledgeStop(r) ==
    /\ Active(r)
    /\ control[r].stop
    /\ control' = [control EXCEPT ![r].phase = "stopping"]
    /\ UNCHANGED <<owner, attemptVars, journal>>

\* Both callers name the failure a publication failure in that phase only.
RequestFailure(r) ==
    /\ Active(r)
    /\ control[r].failure = "none"
    /\ control' = [control EXCEPT
          ![r].failure = IF control[r].phase = "publishing"
                         THEN "publication" ELSE "other",
          ![r].phase = "stopping"]
    /\ UNCHANGED <<owner, attemptVars, journal>>

ReplaceOwner(r, pid, state) ==
    /\ owner' = [owner EXCEPT ![r] = [pid |-> pid, state |-> state]]
    /\ UNCHANGED <<control, attemptVars, journal>>

\* Deviation: report the kind of failure as the status.
FinishStopByCause(r) ==
    /\ Active(r)
    /\ control[r].phase = "stopping"
    /\ Quiescent(r)
    /\ control' = [control EXCEPT
          ![r].status = IF @ = "active" /\ control[r].failure = "none"
                        THEN "stopped" ELSE control[r].failure,
          ![r].phase = "none"]
    /\ UNCHANGED <<owner, attemptVars, journal>>

FinishStop(r) ==
    /\ Active(r)
    /\ control[r].phase = "stopping"
    /\ Quiescent(r)
    /\ control' = [control EXCEPT
          ![r].status = IF control[r].failure = "none" THEN "stopped"
                        ELSE "failed",
          ![r].phase = "none"]
    /\ UNCHANGED <<owner, attemptVars, journal>>

Reopened(phase) ==
    [status |-> "active", phase |-> phase, stop |-> FALSE, failure |-> "none"]

\* Deviation: a resumed run tries its failed commands again.
BeginResumeRetrying(r) ==
    LET again == {e \in ExecutionsOf(r) : result[e] = "failed"} IN
    /\ control[r].status = "stopped"
    /\ Quiescent(r)
    /\ control' = [control EXCEPT ![r] = Reopened("accepted")]
    /\ checkpoint' = [e \in Execution |-> IF e \in again THEN Absent
                                          ELSE checkpoint[e]]
    /\ result' = [e \in Execution |-> IF e \in again THEN "none" ELSE result[e]]
    /\ UNCHANGED <<owner, recorded, journal>>

BeginResume(r) ==
    /\ control[r].status = "stopped"
    /\ Quiescent(r)
    /\ control' = [control EXCEPT ![r] = Reopened("accepted")]
    /\ UNCHANGED <<owner, attemptVars, journal>>

BeginPublicationResume(r) ==
    /\ control[r].status = "failed"
    /\ control[r].failure = "publication"
    /\ r \in journal
    /\ owner[r].state \in {"none", "exited"}
    /\ Quiescent(r)
    /\ control' = [control EXCEPT ![r] = Reopened("publishing")]
    /\ UNCHANGED <<owner, attemptVars, journal>>

-----------------------------------------------------------------------------
(* Attempts *)

AttachPermit(e, pid) ==
    /\ Admitting(RunOf[e])
    /\ \/ checkpoint[e].state = "absent"
       \/ /\ checkpoint[e].state = "stopped"
          /\ checkpoint[e].permit = NoPermit
          /\ ~checkpoint[e].scratch
          /\ recorded[e] # "running"
    /\ checkpoint' = [checkpoint EXCEPT ![e].state = "active",
                                        ![e].permit = pid]
    /\ recorded' = [recorded EXCEPT ![e] = "none"]
    /\ UNCHANGED <<control, owner, result, journal>>

Permitted(e, pid) ==
    checkpoint[e].state = "active" /\ checkpoint[e].permit = pid

RecordStart(e, pid) ==
    /\ Admitting(RunOf[e])
    /\ Permitted(e, pid)
    /\ ~checkpoint[e].scratch
    /\ checkpoint' = [checkpoint EXCEPT ![e].started = TRUE,
                                        ![e].scratch = TRUE]
    /\ control' = [control EXCEPT ![RunOf[e]].phase = "executing"]
    /\ UNCHANGED <<owner, recorded, result, journal>>

RecordWorkers(e, pid) ==
    /\ Permitted(e, pid)
    /\ recorded' = [recorded EXCEPT ![e] = "running"]
    /\ UNCHANGED <<control, owner, checkpoint, result, journal>>

WorkersExited(e) == IF recorded[e] = "none" THEN "none" ELSE "exited"

RecordCompletion(e, pid, outcome) ==
    /\ Permitted(e, pid)
    /\ checkpoint[e].started /\ checkpoint[e].scratch
    /\ checkpoint' = [checkpoint EXCEPT ![e].state = "completed"]
    /\ recorded' = [recorded EXCEPT ![e] = WorkersExited(e)]
    /\ result' = [result EXCEPT ![e] = outcome]
    /\ UNCHANGED <<control, owner, journal>>

RecordInterruption(e, pid) ==
    /\ Permitted(e, pid)
    /\ checkpoint' = [checkpoint EXCEPT ![e].state = "stopped"]
    /\ recorded' = [recorded EXCEPT ![e] = WorkersExited(e)]
    /\ UNCHANGED <<control, owner, result, journal>>

ClearPermit(e, pid) ==
    /\ checkpoint[e].state \in {"stopped", "completed"}
    /\ recorded[e] # "running"
    /\ checkpoint[e].permit = pid
    /\ checkpoint' = [checkpoint EXCEPT ![e].permit = NoPermit]
    /\ UNCHANGED <<control, owner, recorded, result, journal>>

ClearScratch(e) ==
    /\ checkpoint[e].state \in {"stopped", "completed"}
    /\ checkpoint[e].permit = NoPermit
    /\ recorded[e] # "running"
    /\ checkpoint' = [checkpoint EXCEPT ![e].scratch = FALSE]
    /\ UNCHANGED <<control, owner, recorded, result, journal>>

\* A scan of the processes that carry the run's marker found `survivors`.
ReplaceRecoveryWorkers(r, survivors) ==
    /\ recorded' = [e \in Execution |->
          IF RunOf[e] # r THEN recorded[e]
          ELSE IF e \in survivors THEN "running" ELSE WorkersExited(e)]
    /\ UNCHANGED <<control, owner, checkpoint, result, journal>>

-----------------------------------------------------------------------------
(* Publication *)

\* A retry finds its journal and repeats nothing.
PreparePublication(r) ==
    /\ owner[r].state = "running"
    /\ Active(r) /\ ~StopSeen(r)
    /\ \A e \in ExecutionsOf(r) : /\ ~checkpoint[e].scratch
                                  /\ result[e] # "none"
    /\ \/ /\ r \in journal
          /\ control[r].phase = "publishing"
          /\ UNCHANGED <<control, journal>>
       \/ /\ r \notin journal
          /\ control[r].phase \in {"accepted", "executing"}
          /\ Quiescent(r)
          /\ journal' = journal \cup {r}
          /\ control' = [control EXCEPT ![r].phase = "publishing"]
    /\ UNCHANGED <<owner, attemptVars>>

FinishPublication(r) ==
    /\ owner[r].state = "running"
    /\ r \in journal
    /\ Active(r)
    /\ control[r].phase = "publishing"
    /\ Quiescent(r)
    /\ control' = [control EXCEPT ![r].status = "complete", ![r].phase = "none"]
    /\ owner' = [owner EXCEPT ![r].state = "exited"]
    /\ UNCHANGED <<attemptVars, journal>>
=============================================================================
