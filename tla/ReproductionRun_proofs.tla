----------------------- MODULE ReproductionRun_proofs -----------------------
(***************************************************************************)
(* Proofs about ReproductionRun, for any runs, executions, claims and      *)
(* pools, whatever stops, crashes and recovers: its types, and that the    *)
(* permits of all runs are compatible with each other.  The audit of the   *)
(* scheduler's database follows, so that no poll is refused because of it. *)
(***************************************************************************)
EXTENDS ReproductionRun, TLAPS, FiniteSetTheorems

-----------------------------------------------------------------------------
(* Run control *)

LEMMA ControlTyped ==
    ASSUME JobTypeOK, NEW r \in Run,
           \/ RequestStop(r) \/ AcknowledgeStop(r) \/ RequestFailure(r)
           \/ FinishStop(r) \/ BeginResume(r) \/ BeginPublicationResume(r)
           \/ PreparePublication(r) \/ FinishPublication(r)
    PROVE  JobTypeOK'
  <1>0. control[r] \in ControlType
    BY DEF JobTypeOK
  <1>1. CASE RequestStop(r)
    BY <1>0, <1>1 DEF JobTypeOK, RequestStop, ControlType, attemptVars
  <1>2. CASE AcknowledgeStop(r)
    BY <1>0, <1>2 DEF JobTypeOK, AcknowledgeStop, ControlType, attemptVars
  <1>3. CASE RequestFailure(r)
    BY <1>0, <1>3 DEF JobTypeOK, RequestFailure, ControlType, attemptVars
  <1>4. CASE FinishStop(r)
    BY <1>0, <1>4 DEF JobTypeOK, FinishStop, ControlType, attemptVars
  <1>5. CASE BeginResume(r)
    BY <1>0, <1>5 DEF JobTypeOK, BeginResume, Reopened, ControlType, attemptVars
  <1>6. CASE BeginPublicationResume(r)
    BY <1>0, <1>6 DEF JobTypeOK, BeginPublicationResume, Reopened, ControlType,
                      attemptVars
  <1>7. CASE PreparePublication(r)
    BY <1>0, <1>7 DEF JobTypeOK, PreparePublication, ControlType, attemptVars
  <1>8. CASE FinishPublication(r)
    BY <1>0, <1>8 DEF JobTypeOK, FinishPublication, ControlType, attemptVars
  <1> QED
    BY <1>1, <1>2, <1>3, <1>4, <1>5, <1>6, <1>7, <1>8

LEMMA ReplaceOwnerTyped ==
    ASSUME JobTypeOK, NEW r \in Run, NEW pid \in Nat,
           NEW state \in {"running", "stopped", "exited"},
           ReplaceOwner(r, pid, state)
    PROVE  JobTypeOK'
  BY DEF JobTypeOK, ReplaceOwner, attemptVars

(* Attempts *)

LEMMA AttemptTyped ==
    ASSUME JobTypeOK, NEW e \in Execution, NEW pid \in Nat,
           \/ AttachPermit(e, pid) \/ RecordStart(e, pid)
           \/ RecordWorkers(e, pid) \/ RecordInterruption(e, pid)
           \/ ClearPermit(e, pid) \/ ClearScratch(e)
           \/ \E outcome \in {"succeeded", "failed"} :
                 RecordCompletion(e, pid, outcome)
    PROVE  JobTypeOK'
  <1>0. checkpoint[e] \in CheckpointType /\ RunOf[e] \in Run
    BY RunOfAssumption DEF JobTypeOK
  <1>1. CASE AttachPermit(e, pid)
    BY <1>0, <1>1 DEF JobTypeOK, AttachPermit, CheckpointType
  <1>2. CASE RecordStart(e, pid)
    <2>1. control[RunOf[e]] \in ControlType
      BY <1>0 DEF JobTypeOK
    <2> QED
      BY <1>0, <1>2, <2>1 DEF JobTypeOK, RecordStart, CheckpointType, ControlType
  <1>3. CASE RecordWorkers(e, pid)
    BY <1>0, <1>3 DEF JobTypeOK, RecordWorkers
  <1>4. CASE RecordInterruption(e, pid)
    BY <1>0, <1>4 DEF JobTypeOK, RecordInterruption, WorkersExited, CheckpointType
  <1>5. CASE ClearPermit(e, pid)
    BY <1>0, <1>5 DEF JobTypeOK, ClearPermit, NoPermit, CheckpointType
  <1>6. CASE ClearScratch(e)
    BY <1>0, <1>6 DEF JobTypeOK, ClearScratch, CheckpointType
  <1>7. ASSUME NEW outcome \in {"succeeded", "failed"},
               RecordCompletion(e, pid, outcome)
        PROVE  JobTypeOK'
    BY <1>0, <1>7 DEF JobTypeOK, RecordCompletion, WorkersExited, CheckpointType
  <1> QED
    BY <1>1, <1>2, <1>3, <1>4, <1>5, <1>6, <1>7

LEMMA RecoveryWorkersTyped ==
    ASSUME JobTypeOK, NEW r \in Run, NEW S, ReplaceRecoveryWorkers(r, S)
    PROVE  JobTypeOK'
  BY DEF JobTypeOK, ReplaceRecoveryWorkers, WorkersExited

-----------------------------------------------------------------------------
(* The scheduler's tables *)

SchedulerRows ==
    /\ nextTicket \in Nat \ {0}
    /\ waiter \in [Execution -> [ticket : Nat, pid : Nat]]
    /\ permit \in [Execution -> Nat]

LEMMA DecideTyped ==
    ASSUME SchedulerRows, NEW e \in Execution, Requester(e) \in Nat,
           Decide(e, Grantable(e))
    PROVE  SchedulerRows'
  <1>1. nextTicket' \in Nat \ {0}
    BY DEF SchedulerRows, Decide
  <1>2. waiter' \in [Execution -> [ticket : Nat, pid : Nat]]
    BY DEF SchedulerRows, Decide, NoWaiter
  <1>3. permit' \in [Execution -> Nat]
    BY DEF SchedulerRows, Decide, NoPermit
  <1> QED
    BY <1>1, <1>2, <1>3 DEF SchedulerRows

LEMMA ReconcileTyped ==
    ASSUME SchedulerRows, NEW S, Reconcile(S)
    PROVE  SchedulerRows'
  BY DEF SchedulerRows, Reconcile, NoWaiter, NoPermit

LEMMA CancelTyped ==
    ASSUME SchedulerRows, NEW r \in Run, CancelRunWaiters(r)
    PROVE  SchedulerRows'
  BY DEF SchedulerRows, CancelRunWaiters, NoWaiter

-----------------------------------------------------------------------------
(* The parts of the type invariant a step may leave alone *)

ProcessRows == supervisor \in [Run -> [pid : Nat, alive : BOOLEAN]]
               /\ lock \subseteq Execution

LEMMA TypesOfParts ==
    /\ TypeOK <=> JobTypeOK /\ SchedulerRows /\ ProcessRows /\ ProgramTypeOK
    /\ TypeOK' <=>
           JobTypeOK' /\ SchedulerRows' /\ ProcessRows' /\ ProgramTypeOK'
  BY DEF TypeOK, SchedulerTypeOK, SchedulerRows, ProcessRows

LEMMA JobKept == JobTypeOK /\ UNCHANGED jobVars => JobTypeOK'
  BY DEF JobTypeOK, jobVars

LEMMA RowsKept == SchedulerRows /\ UNCHANGED schedulerVars => SchedulerRows'
  BY DEF SchedulerRows, schedulerVars

LEMMA ProcessKept ==
    ProcessRows /\ UNCHANGED <<supervisor, lock>> => ProcessRows'
  BY DEF ProcessRows

LEMMA PidsTyped ==
    ASSUME TypeOK
    PROVE  /\ \A r \in Run : supervisor[r].pid \in Nat /\ owner[r].pid \in Nat
           /\ \A e \in Execution : /\ Requester(e) \in Nat
                                   /\ checkpoint[e].permit \in Nat
  <1>1. \A r \in Run : supervisor[r].pid \in Nat /\ owner[r].pid \in Nat
    BY DEF TypeOK, JobTypeOK, SchedulerTypeOK
  <1>2. \A e \in Execution : RunOf[e] \in Run
    BY RunOfAssumption
  <1>3. \A e \in Execution : checkpoint[e] \in CheckpointType
    BY DEF TypeOK, JobTypeOK
  <1> QED
    BY <1>1, <1>2, <1>3 DEF Requester, CheckpointType

LEMMA TypeInit == Init => TypeOK
  <1> SUFFICES ASSUME Init PROVE TypeOK
    OBVIOUS
  <1>1. JobTypeOK
    BY DEF Init, JobInit, JobTypeOK, ControlType, CheckpointType, Absent, NoPermit
  <1>2. SchedulerTypeOK
    BY DEF Init, SchedulerInit, SchedulerTypeOK, NoWaiter, NoPermit
  <1>3. ProgramTypeOK
    BY DEF Init, ProgramTypeOK, Idle, NoRecovery
  <1> QED
    BY <1>1, <1>2, <1>3 DEF TypeOK

-----------------------------------------------------------------------------
(* The steps of processes *)

LEMMA LaunchTyped ==
    ASSUME TypeOK, NEW r \in Run, Resume(r) \/ LauncherDies(r) \/ Register(r)
    PROVE  TypeOK'
  <1> USE TypesOfParts
  <1>1. ProgramTypeOK'
    BY DEF ProgramTypeOK, Resume, LauncherDies, Register, Go
  <1>2. CASE Resume(r)
    BY <1>1, <1>2, ControlTyped, RowsKept, ProcessKept DEF Resume
  <1>3. CASE LauncherDies(r)
    BY <1>1, <1>3, JobKept, RowsKept, ProcessKept DEF LauncherDies
  <1>4. CASE Register(r)
    <2>1. supervisor[r].pid + 1 \in Nat
      BY PidsTyped
    <2>2. JobTypeOK'
      BY <1>4, <2>1, ReplaceOwnerTyped DEF Register
    <2>3. ProcessRows'
      BY <1>4, <2>1 DEF Register, ProcessRows
    <2> QED
      BY <1>1, <1>4, <2>2, <2>3, RowsKept DEF Register
  <1> QED
    BY <1>2, <1>3, <1>4

\* The program variables of a step of the main thread.
LEMMA MainProgramTyped ==
    ASSUME TypeOK, NEW r \in Run,
           \/ Start(r) \/ Launch(r) \/ Collect(r) \/ Acknowledge(r)
           \/ Prepare(r) \/ PrepareRefused(r) \/ Publish(r) \/ CloseOwner(r)
           \/ Close(r) \/ MainFault(r) \/ RecordFailure(r) \/ Disown(r)
    PROVE  ProgramTypeOK' /\ SchedulerRows' /\ ProcessRows'
  <1>1. main' \in [Run -> {"idle", "launching", "starting", "top", "waiting",
                         "halting", "draining", "preparing", "publishing",
                         "closing", "closed", "failing", "failed", "exiting"}]
    BY DEF TypeOK, ProgramTypeOK, Go, Start, Launch, Collect, Acknowledge,
           Prepare, PrepareRefused, Publish, CloseOwner, Close, MainFault,
           RecordFailure, Disown
  <1>2. thread' \in [Execution -> Idle \cup
                      {"checking", "polling", "granted", "attached", "started",
                       "spawned", "monitoring", "recorded", "released",
                       "cleared"}]
    BY DEF TypeOK, ProgramTypeOK, Idle, Start, Launch, Collect, Acknowledge,
           Prepare, PrepareRefused, Publish, CloseOwner, Close, MainFault,
           RecordFailure, Disown
  <1>3. /\ UNCHANGED mainOnly
        /\ UNCHANGED faulted \/ faulted' = faulted \cup {r}
    BY DEF Start, Launch, Collect, Acknowledge, Prepare, PrepareRefused,
           Publish, CloseOwner, Close, MainFault, RecordFailure, Disown
  <1>4. ProgramTypeOK'
    BY <1>1, <1>2, <1>3 DEF TypeOK, ProgramTypeOK, mainOnly
  <1> QED
    BY <1>3, <1>4, TypesOfParts, RowsKept, ProcessKept DEF mainOnly

LEMMA MainTyped ==
    ASSUME TypeOK, NEW r \in Run,
           \/ Start(r) \/ Launch(r) \/ Collect(r) \/ Acknowledge(r)
           \/ Prepare(r) \/ PrepareRefused(r) \/ Publish(r) \/ CloseOwner(r)
           \/ Close(r) \/ MainFault(r) \/ RecordFailure(r) \/ Disown(r)
    PROVE  TypeOK'
  <1>1. JobTypeOK
    BY DEF TypeOK
  <1>2. CASE Start(r) \/ Launch(r) \/ Collect(r) \/ PrepareRefused(r) \/ MainFault(r)
    BY <1>1, <1>2, JobKept, MainProgramTyped, TypesOfParts
       DEF Start, Launch, Collect, PrepareRefused, MainFault
  <1>3. CASE Acknowledge(r) \/ Prepare(r) \/ Publish(r) \/ Close(r) \/ RecordFailure(r)
    BY <1>1, <1>3, ControlTyped, MainProgramTyped, TypesOfParts
       DEF Acknowledge, Prepare, Publish, Close, RecordFailure
  <1>4. CASE CloseOwner(r) \/ Disown(r)
    <2>1. supervisor[r].pid \in Nat
      BY PidsTyped
    <2>2. JobTypeOK'
      BY <1>1, <1>4, <2>1, ReplaceOwnerTyped, JobKept DEF CloseOwner, Disown
    <2> QED
      BY <1>4, <2>2, MainProgramTyped, TypesOfParts
  <1> QED
    BY <1>2, <1>3, <1>4

LEMMA VanishTyped ==
    ASSUME TypeOK, NEW r \in Run, Vanish(r)
    PROVE  TypeOK'
  <1> USE TypesOfParts
  <1>1. ProgramTypeOK'
    BY DEF ProgramTypeOK, Vanish, Go, Idle
  <1>2. ProcessRows'
    BY DEF ProcessRows, Vanish
  <1> QED
    BY <1>1, <1>2, JobKept, RowsKept DEF Vanish

LEMMA ThreadProgramTyped ==
    ASSUME TypeOK, NEW e \in Execution,
           ThreadStep(e) \/ CommandEnds(e) \/ ThreadFault(e)
    PROVE  ProgramTypeOK' /\ ProcessRows'
  <1>1. UNCHANGED threadOnly /\ RunOf[e] \in Run
    BY RunOfAssumption
       DEF ThreadStep, Withdraw, GoOn, Poll, Attach, StartAttempt, Spawn,
           LaunchFails, RegisterWorkers, CommandEnds, Complete, Interrupt,
           ThreadFault, ReleaseGrant, ForgetPermit, ForgetScratch
  <1>2. thread' \in [Execution -> Idle \cup
                      {"checking", "polling", "granted", "attached", "started",
                       "spawned", "monitoring", "recorded", "released",
                       "cleared"}]
    BY DEF TypeOK, ProgramTypeOK, Idle, Step,
           ThreadStep, Withdraw, GoOn, Poll, Attach, StartAttempt, Spawn,
           LaunchFails, RegisterWorkers, CommandEnds, Complete, Interrupt,
           ThreadFault, ReleaseGrant, ForgetPermit, ForgetScratch
  <1>3. proc' \in [Execution -> {"none", "running", "exited"}]
    BY DEF TypeOK, ProgramTypeOK,
           ThreadStep, Withdraw, GoOn, Poll, Attach, StartAttempt, Spawn,
           LaunchFails, RegisterWorkers, CommandEnds, Complete, Interrupt,
           ThreadFault, ReleaseGrant, ForgetPermit, ForgetScratch
  <1>4. faulted' \subseteq Run
    BY <1>1 DEF TypeOK, ProgramTypeOK,
           ThreadStep, Withdraw, GoOn, Poll, Attach, StartAttempt, Spawn,
           LaunchFails, RegisterWorkers, CommandEnds, Complete, Interrupt,
           ThreadFault, ReleaseGrant, ForgetPermit, ForgetScratch
  <1>5. lock' \subseteq Execution
    BY DEF TypeOK, SchedulerTypeOK,
           ThreadStep, Withdraw, GoOn, Poll, Attach, StartAttempt, Spawn,
           LaunchFails, RegisterWorkers, CommandEnds, Complete, Interrupt,
           ThreadFault, ReleaseGrant, ForgetPermit, ForgetScratch
  <1> QED
    BY <1>1, <1>2, <1>3, <1>4, <1>5
       DEF TypeOK, ProgramTypeOK, SchedulerTypeOK, ProcessRows, threadOnly

LEMMA ThreadTyped ==
    ASSUME TypeOK, NEW e \in Execution,
           ThreadStep(e) \/ CommandEnds(e) \/ ThreadFault(e)
    PROVE  TypeOK'
  <1>0. JobTypeOK /\ SchedulerRows /\ Requester(e) \in Nat
    BY TypesOfParts, PidsTyped
  <1>1. JobTypeOK'
    <2>1. CASE UNCHANGED jobVars
      BY <1>0, <2>1, JobKept
    <2>2. CASE ~ UNCHANGED jobVars
      BY <1>0, <2>2, AttemptTyped
         DEF ThreadStep, Withdraw, GoOn, Poll, Attach, StartAttempt, Spawn,
             LaunchFails, RegisterWorkers, CommandEnds, Complete, Interrupt,
             ThreadFault, ReleaseGrant, ForgetPermit, ForgetScratch
    <2> QED
      BY <2>1, <2>2
  <1>2. SchedulerRows'
    <2>1. CASE UNCHANGED schedulerVars
      BY <1>0, <2>1, RowsKept
    <2>2. CASE ~ UNCHANGED schedulerVars
      BY <1>0, <2>2, DecideTyped, ReconcileTyped
         DEF ThreadStep, Withdraw, GoOn, Poll, Attach, StartAttempt, Spawn,
             LaunchFails, RegisterWorkers, CommandEnds, Complete, Interrupt,
             ThreadFault, ReleaseGrant, ForgetPermit, ForgetScratch
    <2> QED
      BY <2>1, <2>2
  <1> QED
    BY <1>1, <1>2, ThreadProgramTyped, TypesOfParts

-----------------------------------------------------------------------------
(* Stop commands and recoveries *)

LEMMA StopTyped ==
    ASSUME TypeOK, NEW r \in Run, Stop(r) \/ CancelWaiters(r)
    PROVE  TypeOK'
  <1> USE TypesOfParts
  <1>1. ProgramTypeOK' /\ ProcessRows'
    BY DEF ProgramTypeOK, ProcessRows, Stop, CancelWaiters
  <1>2. CASE Stop(r)
    BY <1>1, <1>2, ControlTyped, RowsKept DEF Stop
  <1>3. CASE CancelWaiters(r)
    BY <1>1, <1>3, CancelTyped, JobKept DEF CancelWaiters
  <1> QED
    BY <1>2, <1>3

LEMMA RecoveryProgramTyped ==
    ASSUME TypeOK, NEW r \in Run, RecoveryStep(r) \/ RecovererDies(r)
    PROVE  ProgramTypeOK' /\ ProcessRows'
  <1>1. UNCHANGED <<recoveryOnly, proc>>
    BY DEF RecoveryStep, Scan, DeclareIntent, ReconcileAdmission,
           RecoverAttempt, RecoverGrant, RecoverOwner, RecoverControl,
           RecovererDies
  <1> DEFINE Places == [pc : {"none", "scanned", "admitting", "attempts", "owned"},
                        publishing : BOOLEAN]
  <1>2. recovery \in [Run -> Places] /\ recovery[r] \in Places
    BY DEF TypeOK, ProgramTypeOK
  <1>3. ASSUME NEW pc \in {"admitting", "attempts", "owned"}, Continue(r, pc)
        PROVE  recovery' \in [Run -> Places]
    BY <1>2, <1>3 DEF Continue
  <1>4. ASSUME Scan(r) PROVE recovery' \in [Run -> Places]
    BY <1>2, <1>4 DEF Scan
  <1>5. ASSUME recovery' = [recovery EXCEPT ![r] = NoRecovery]
        PROVE  recovery' \in [Run -> Places]
    BY <1>2, <1>5 DEF NoRecovery
  <1>6. recovery' \in [Run -> Places]
    <2>1. \/ Scan(r)
          \/ \E pc \in {"admitting", "attempts", "owned"} : Continue(r, pc)
          \/ recovery' = [recovery EXCEPT ![r] = NoRecovery]
          \/ UNCHANGED recovery
      BY DEF RecoveryStep, DeclareIntent, ReconcileAdmission, RecoverAttempt,
             RecoverGrant, RecoverOwner, RecoverControl, RecovererDies
    <2> QED
      BY <1>2, <1>3, <1>4, <1>5, <2>1
  <1> QED
    BY <1>1, <1>6
       DEF TypeOK, ProgramTypeOK, SchedulerTypeOK, ProcessRows, recoveryOnly

LEMMA RecoveryTyped ==
    ASSUME TypeOK, NEW r \in Run, RecoveryStep(r) \/ RecovererDies(r)
    PROVE  TypeOK'
  <1>0. /\ JobTypeOK /\ SchedulerRows
        /\ ProgramTypeOK' /\ ProcessRows'
        /\ ExecutionsOf(r) \subseteq Execution
    BY TypesOfParts, RecoveryProgramTyped DEF ExecutionsOf
  <1> USE TypesOfParts
  <1>1. CASE Scan(r)
    BY <1>0, <1>1, RecoveryWorkersTyped, RowsKept DEF Scan
  <1>2. CASE DeclareIntent(r)
    <2>1. CASE control[r].phase = "publishing" /\ RequestFailure(r)
      BY <1>0, <1>2, <2>1, ControlTyped, RowsKept DEF DeclareIntent
    <2>2. CASE UNCHANGED jobVars
      BY <1>0, <1>2, <2>2, JobKept, RowsKept DEF DeclareIntent
    <2>3. CASE /\ control' = [control EXCEPT ![r].stop = TRUE,
                                             ![r].phase = "stopping"]
               /\ UNCHANGED <<owner, attemptVars, journal>>
      <3>1. control[r] \in ControlType
        BY <1>0 DEF JobTypeOK
      <3>2. JobTypeOK'
        BY <1>0, <2>3, <3>1 DEF JobTypeOK, ControlType, attemptVars
      <3> QED
        BY <1>0, <1>2, <3>2, RowsKept DEF DeclareIntent
    <2> QED
      BY <1>2, <2>1, <2>2, <2>3 DEF DeclareIntent
  <1>3. CASE ReconcileAdmission(r)
    BY <1>0, <1>3, ReconcileTyped, JobKept DEF ReconcileAdmission
  <1>4. ASSUME NEW e \in ExecutionsOf(r), RecoverAttempt(e) PROVE TypeOK'
    <2>1. e \in Execution /\ checkpoint[e].permit \in Nat
      BY <1>0, PidsTyped
    <2> QED
      BY <1>0, <1>4, <2>1, AttemptTyped, RowsKept DEF RecoverAttempt
  <1>5. ASSUME NEW e \in ExecutionsOf(r), RecoverGrant(e) PROVE TypeOK'
    BY <1>0, <1>5, ReconcileTyped, JobKept DEF RecoverGrant
  <1>6. CASE RecoverOwner(r)
    BY <1>0, <1>6, PidsTyped, ReplaceOwnerTyped, RowsKept DEF RecoverOwner
  <1>7. CASE RecoverControl(r)
    BY <1>0, <1>7, ControlTyped, RowsKept DEF RecoverControl
  <1>8. CASE RecovererDies(r)
    BY <1>0, <1>8, JobKept, RowsKept DEF RecovererDies
  <1> QED
    BY <1>1, <1>2, <1>3, <1>4, <1>5, <1>6, <1>7, <1>8 DEF RecoveryStep

-----------------------------------------------------------------------------
LEMMA TypeStep == TypeOK /\ [Next]_vars => TypeOK'
  <1> SUFFICES ASSUME TypeOK, [Next]_vars PROVE TypeOK'
    OBVIOUS
  <1>1. CASE UNCHANGED vars
    BY <1>1 DEF vars, programVars, jobVars, schedulerVars, TypeOK, JobTypeOK,
                SchedulerTypeOK, ProgramTypeOK
  <1>2. ASSUME NEW r \in Run,
               \/ MainStep(r) \/ MainFault(r) \/ Crash(r) \/ LauncherDies(r)
               \/ Resume(r)
        PROVE  TypeOK'
    BY <1>2, LaunchTyped, MainTyped, VanishTyped DEF MainStep, Exit, Crash
  <1>3. ASSUME NEW r \in Run,
               \/ Stop(r) \/ CancelWaiters(r) \/ RecoveryStep(r)
               \/ RecovererDies(r)
        PROVE  TypeOK'
    BY <1>3, StopTyped, RecoveryTyped
  <1>4. ASSUME NEW e \in Execution,
               ThreadStep(e) \/ CommandEnds(e) \/ ThreadFault(e)
        PROVE  TypeOK'
    BY <1>4, ThreadTyped
  <1> QED
    BY <1>1, <1>2, <1>3, <1>4 DEF Next

(***************************************************************************)
(* Types: whatever runs, crashes or recovers, the rows of every job, the   *)
(* tables of the scheduler and the positions of the processes stay within  *)
(* the values the code writes.                                             *)
(***************************************************************************)
THEOREM TypeAlways == Spec => []TypeOK
  BY TypeInit, TypeStep, PTL DEF Spec

-----------------------------------------------------------------------------
(* Permits                                                                 *)


\* No two permits conflict, nobody waits for what it has, and tickets are
\* handed out in order.
PermitsCompatible ==
    \A e, f \in Holding : e # f => ~Conflict(e, f)

TicketsOrdered ==
    /\ nextTicket \in Nat
    /\ \A e \in Waiting : waiter[e].ticket \in Nat /\ waiter[e].ticket < nextTicket

PermitInv ==
    /\ PermitsCompatible
    /\ Waiting \cap Holding = {}
    /\ TicketsOrdered

LEMMA ConflictSymmetric ==
    ASSUME NEW e \in Execution, NEW f \in Execution, Conflict(e, f)
    PROVE  Conflict(f, e)
  BY DEF Conflict

LEMMA PermitInvInit == Init => PermitInv
  <1> SUFFICES ASSUME Init PROVE PermitInv
    OBVIOUS
  <1>1. Holding = {} /\ Waiting = {}
    BY DEF Init, SchedulerInit, Holding, Waiting
  <1>2. nextTicket = 1
    BY DEF Init, SchedulerInit
  <1> QED
    BY <1>1, <1>2 DEF PermitInv, PermitsCompatible, TicketsOrdered

\* A step that leaves the scheduler's tables alone.
LEMMA QuietStep ==
    ASSUME PermitInv, UNCHANGED schedulerVars
    PROVE  PermitInv'
  BY DEF PermitInv, PermitsCompatible, TicketsOrdered, Holding, Waiting,
         Conflict, schedulerVars

\* A step that only takes permits and waiters away.
LEMMA RemovalStep ==
    ASSUME PermitInv,
           UNCHANGED nextTicket,
           \A e \in Execution : permit'[e] \in {permit[e], NoPermit},
           \A e \in Execution : waiter'[e] \in {waiter[e], NoWaiter}
    PROVE  PermitInv'
  <1>1. Holding' \subseteq Holding
    BY DEF Holding
  <1>2. Waiting' \subseteq Waiting
    BY DEF Waiting
  <1>3. \A e \in Waiting' : waiter'[e] = waiter[e]
    BY DEF Waiting
  <1>4. PermitsCompatible'
    BY <1>1 DEF PermitInv, PermitsCompatible, Conflict
  <1>5. (Waiting \cap Holding = {})'
    BY <1>1, <1>2 DEF PermitInv
  <1>6. TicketsOrdered'
    BY <1>2, <1>3 DEF PermitInv, TicketsOrdered
  <1> QED
    BY <1>4, <1>5, <1>6 DEF PermitInv

LEMMA ReconcileKeepsInv ==
    ASSUME PermitInv, NEW S, Reconcile(S)
    PROVE  PermitInv'
  <1>1. UNCHANGED nextTicket
    BY DEF Reconcile
  <1>2. \A e \in Execution : permit'[e] \in {permit[e], NoPermit}
    BY DEF Reconcile
  <1>3. \A e \in Execution : waiter'[e] \in {waiter[e], NoWaiter}
    BY DEF Reconcile
  <1> QED
    BY <1>1, <1>2, <1>3, RemovalStep

LEMMA CancelKeepsInv ==
    ASSUME PermitInv, NEW r \in Run, CancelRunWaiters(r)
    PROVE  PermitInv'
  <1>1. UNCHANGED nextTicket
    BY DEF CancelRunWaiters
  <1>2. \A e \in Execution : permit'[e] \in {permit[e], NoPermit}
    BY DEF CancelRunWaiters
  <1>3. \A e \in Execution : waiter'[e] \in {waiter[e], NoWaiter}
    BY DEF CancelRunWaiters
  <1> QED
    BY <1>1, <1>2, <1>3, RemovalStep

\* The heart of the matter: what a poll may grant fits what it retains.
LEMMA GrantFits ==
    ASSUME PermitInv, NEW e \in Execution, Grantable(e)
    PROVE  \A f \in RetainedPermits : f # e => ~Conflict(e, f)
  <1>1. CASE e \in RetainedPermits
    BY <1>1 DEF PermitInv, PermitsCompatible, RetainedPermits
  <1>2. CASE e \notin Exclusive /\ Unblocked(e)
    BY <1>2 DEF Unblocked
  <1>3. CASE e \in Exclusive /\ FirstInLine(e)
    BY <1>3 DEF FirstInLine
  <1> QED
    BY <1>1, <1>2, <1>3 DEF Grantable

LEMMA DecideKeepsInv ==
    ASSUME PermitInv, NEW e \in Execution, Decide(e, Grantable(e))
    PROVE  PermitInv'
  <1> DEFINE queued == e \in Exclusive \ (Waiting \cup RetainedPermits)
             after == RetainedPermits \cup (IF Grantable(e) THEN {e} ELSE {})
  <1>1. Holding' \subseteq after
    BY DEF Decide, Holding, RetainedPermits
  <1>2. PermitsCompatible'
    <2> SUFFICES ASSUME NEW f \in Holding', NEW g \in Holding', f # g,
                        Conflict(f, g)
                 PROVE  FALSE
      BY DEF PermitsCompatible, Conflict
    <2>1. f \in Execution /\ g \in Execution
      BY DEF Holding
    <2>2. CASE f \in RetainedPermits /\ g \in RetainedPermits
      BY <2>2 DEF PermitInv, PermitsCompatible, RetainedPermits
    <2>3. CASE Grantable(e) /\ f = e /\ g \in RetainedPermits
      BY <2>3, GrantFits
    <2>4. CASE Grantable(e) /\ g = e /\ f \in RetainedPermits
      BY <2>1, <2>4, GrantFits, ConflictSymmetric
    <2> QED
      BY <1>1, <2>2, <2>3, <2>4
  <1>3. \A f \in Waiting' : ~(f = e /\ Grantable(e))
    BY DEF Decide, Waiting
  <1>4. \A f \in Waiting' : f \in Waiting \/ (f = e /\ queued)
    BY DEF Decide, Waiting
  <1>5. (Waiting \cap Holding = {})'
    BY <1>1, <1>3, <1>4 DEF PermitInv, RetainedPermits
  <1>6. \A f \in Waiting' : \/ waiter'[f] = waiter[f] /\ f \in Waiting
                            \/ waiter'[f].ticket = nextTicket /\ queued
    BY DEF Decide, Waiting
  <1>7. nextTicket' = IF queued THEN nextTicket + 1 ELSE nextTicket
    BY DEF Decide
  <1>8. TicketsOrdered'
    BY <1>6, <1>7 DEF PermitInv, TicketsOrdered
  <1> QED
    BY <1>2, <1>5, <1>8 DEF PermitInv

-----------------------------------------------------------------------------
\* What a step does to the scheduler's tables.
SchedulerStep ==
    \/ UNCHANGED schedulerVars
    \/ \E e \in Execution : Decide(e, Grantable(e))
    \/ \E S \in SUBSET Execution : Reconcile(S)
    \/ \E r \in Run : CancelRunWaiters(r)

LEMMA MainIsQuiet ==
    ASSUME NEW r \in Run,
           MainStep(r) \/ MainFault(r) \/ Crash(r) \/ LauncherDies(r) \/ Resume(r)
    PROVE  UNCHANGED schedulerVars
  <1>1. CASE Register(r) \/ Start(r) \/ Launch(r) \/ Collect(r) \/ Acknowledge(r)
    BY <1>1 DEF Register, Start, Launch, Collect, Acknowledge, mainOnly
  <1>2. CASE Prepare(r) \/ PrepareRefused(r) \/ Publish(r) \/ CloseOwner(r)
             \/ Close(r)
    BY <1>2 DEF Prepare, PrepareRefused, Publish, CloseOwner, Close, mainOnly
  <1>3. CASE RecordFailure(r) \/ Disown(r) \/ Exit(r)
    BY <1>3 DEF RecordFailure, Disown, Exit, Vanish, mainOnly
  <1>4. CASE MainFault(r) \/ Crash(r) \/ LauncherDies(r) \/ Resume(r)
    BY <1>4 DEF MainFault, Crash, Vanish, LauncherDies, Resume, mainOnly
  <1> QED
    BY <1>1, <1>2, <1>3, <1>4 DEF MainStep

LEMMA ThreadIsScheduled ==
    ASSUME NEW e \in Execution, ThreadStep(e) \/ CommandEnds(e) \/ ThreadFault(e)
    PROVE  SchedulerStep
  <1>1. CASE Withdraw(e)
    <2>1. UNCHANGED schedulerVars \/ Reconcile({e})
      BY <1>1 DEF Withdraw
    <2> QED
      BY <2>1 DEF SchedulerStep
  <1>2. CASE Poll(e)
    <2>1. UNCHANGED schedulerVars \/ Decide(e, Grantable(e))
      BY <1>2 DEF Poll
    <2> QED
      BY <2>1 DEF SchedulerStep
  <1>3. CASE ReleaseGrant(e)
    <2>1. UNCHANGED schedulerVars \/ Reconcile({e})
      BY <1>3 DEF ReleaseGrant
    <2> QED
      BY <2>1 DEF SchedulerStep
  <1>4. CASE GoOn(e) \/ Attach(e) \/ StartAttempt(e) \/ Spawn(e)
             \/ LaunchFails(e) \/ RegisterWorkers(e)
    BY <1>4 DEF SchedulerStep, GoOn, Attach, StartAttempt, Spawn, LaunchFails,
                RegisterWorkers
  <1>5. CASE Complete(e) \/ Interrupt(e) \/ ForgetPermit(e) \/ ForgetScratch(e)
    BY <1>5 DEF SchedulerStep, Complete, Interrupt, ForgetPermit, ForgetScratch
  <1>6. CASE CommandEnds(e) \/ ThreadFault(e)
    BY <1>6 DEF SchedulerStep, CommandEnds, ThreadFault
  <1> QED
    BY <1>1, <1>2, <1>3, <1>4, <1>5, <1>6 DEF ThreadStep

LEMMA RecoveryIsScheduled ==
    ASSUME NEW r \in Run,
           Stop(r) \/ CancelWaiters(r) \/ RecoveryStep(r) \/ RecovererDies(r)
    PROVE  SchedulerStep
  <1>1. CASE Stop(r) \/ RecovererDies(r) \/ Scan(r) \/ DeclareIntent(r)
             \/ RecoverOwner(r) \/ RecoverControl(r)
    BY <1>1 DEF SchedulerStep, Stop, RecovererDies, Scan, DeclareIntent,
                RecoverOwner, RecoverControl
  <1>2. CASE CancelWaiters(r)
    BY <1>2 DEF SchedulerStep, CancelWaiters
  <1>3. CASE ReconcileAdmission(r)
    <2>1. ExecutionsOf(r) \cap (Waiting \cup Holding) \in SUBSET Execution
      BY DEF ExecutionsOf
    <2> QED
      BY <1>3, <2>1 DEF SchedulerStep, ReconcileAdmission
  <1>4. ASSUME NEW e \in ExecutionsOf(r), RecoverAttempt(e) \/ RecoverGrant(e)
        PROVE  SchedulerStep
    <2>1. e \in Execution
      BY DEF ExecutionsOf
    <2>2. UNCHANGED schedulerVars \/ Reconcile({e})
      BY <1>4 DEF RecoverAttempt, RecoverGrant
    <2> QED
      BY <2>1, <2>2 DEF SchedulerStep
  <1> QED
    BY <1>1, <1>2, <1>3, <1>4 DEF RecoveryStep

LEMMA PermitInvStep == PermitInv /\ [Next]_vars => PermitInv'
  <1> SUFFICES ASSUME PermitInv, [Next]_vars PROVE PermitInv'
    OBVIOUS
  <1>1. SchedulerStep \/ UNCHANGED schedulerVars
    BY MainIsQuiet, ThreadIsScheduled, RecoveryIsScheduled
       DEF Next, vars, schedulerVars
  <1>2. CASE UNCHANGED schedulerVars
    BY <1>2, QuietStep
  <1>3. ASSUME NEW e \in Execution, Decide(e, Grantable(e)) PROVE PermitInv'
    BY <1>3, DecideKeepsInv
  <1>4. ASSUME NEW S \in SUBSET Execution, Reconcile(S) PROVE PermitInv'
    BY <1>4, ReconcileKeepsInv
  <1>5. ASSUME NEW r \in Run, CancelRunWaiters(r) PROVE PermitInv'
    BY <1>5, CancelKeepsInv
  <1> QED
    BY <1>1, <1>2, <1>3, <1>4, <1>5 DEF SchedulerStep

LEMMA CompatiblePassesAudit == PermitInv => AuditHolds
  <1> SUFFICES ASSUME PermitInv PROVE AuditHolds
    OBVIOUS
  <1>1. ASSUME Holding \cap Exclusive # {} PROVE Cardinality(Holding) = 1
    <2>1. PICK e \in Holding \cap Exclusive : TRUE
      BY <1>1
    <2>2. \A f \in Holding : f = e
      BY <2>1 DEF PermitInv, PermitsCompatible, Conflict
    <2>3. Holding = {e}
      BY <2>1, <2>2
    <2> QED
      BY <2>3, FS_Singleton
  <1> QED
    BY <1>1 DEF PermitInv, TicketsOrdered, AuditHolds

\* Two permits of the scheduler never conflict, over any interleaving of
\* grants, releases, crashes and recoveries of any number of runs.
THEOREM PermitsCompatibleAlways == Spec => []PermitsCompatible
  <1>1. PermitInv => PermitsCompatible
    BY DEF PermitInv
  <1> QED
    BY <1>1, PermitInvInit, PermitInvStep, PTL DEF Spec

\* The scheduler's audit of its own database never fails, so it refuses no poll.
THEOREM AuditAlwaysHolds == Spec => []AuditHolds
  BY PermitInvInit, PermitInvStep, CompatiblePassesAudit, PTL DEF Spec
=============================================================================
