----------------------- MODULE ReproductionCover_proofs -----------------------
(***************************************************************************)
(* Commands stay covered by their permits, and so exclude each other as    *)
(* their claims demand, for any runs, executions, claims and pools.        *)
(***************************************************************************)
EXTENDS ReproductionRun_proofs

(***************************************************************************)
(* The inductive invariant.  A covered execution cannot lose its permit to *)
(* anybody: polls drop permits only of jobs without one, and               *)
(* reconciliation only those of attempts that are over.  What is left to   *)
(* show is that attempts are ended by the thread or recovery they belong   *)
(* to, and only when their command does not run.                           *)
(***************************************************************************)
Covered(e) ==
    /\ checkpoint[e].state = "active"
    /\ permit[e] # NoPermit
    /\ permit[e] = checkpoint[e].permit

CommandsCovered ==
    \A e \in Execution :
        proc[e] = "running" => Covered(e) /\ checkpoint[e].started

AttemptsCovered ==
    \A e \in Execution :
        /\ thread[e] \in {"attached", "started"} => Covered(e)
        /\ thread[e] = "started" => checkpoint[e].started

GrantsLocked ==
    \A e \in Execution :
        thread[e] = "granted" => lock = {e} /\ permit[e] = Requester(e)

SpawnedLast ==
    \A e \in Execution :
        thread[e] \in {"pending", "checking", "polling", "granted", "attached",
                       "started"} => proc[e] # "running"

ThreadsOwned ==
    \A e \in Execution :
        main[RunOf[e]] \in {"idle", "launching", "starting"} => thread[e] = "none"

PidsGiven ==
    \A r \in Run : main[r] \notin {"idle", "launching"} => supervisor[r].pid # 0

RecoveriesAlone ==
    \A r \in Run : recovery[r] # NoRecovery => main[r] = "idle" /\ Live(r) = {}

CoverInv ==
    /\ TypeOK
    /\ CommandsCovered
    /\ AttemptsCovered
    /\ GrantsLocked
    /\ SpawnedLast
    /\ ThreadsOwned
    /\ PidsGiven
    /\ RecoveriesAlone

LEMMA CoverInit == Init => CoverInv
  <1> SUFFICES ASSUME Init PROVE CoverInv
    OBVIOUS
  <1>1. TypeOK
    BY TypeInit
  <1>2. /\ \A e \in Execution : thread[e] = "none" /\ proc[e] = "none"
        /\ \A r \in Run : main[r] = "launching" /\ recovery[r] = NoRecovery
    BY DEF Init
  <1> QED
    BY <1>1, <1>2, RunOfAssumption
       DEF CoverInv, CommandsCovered, AttemptsCovered, GrantsLocked, SpawnedLast,
           ThreadsOwned, PidsGiven, RecoveriesAlone

-----------------------------------------------------------------------------
(* The scheduler keeps the permits of covered executions *)

LEMMA DecideKeepsCovered ==
    ASSUME TypeOK, NEW e \in Execution, ~PollRefused(e),
           Decide(e, Grantable(e)),
           NEW f \in Execution, f # e, Covered(f)
    PROVE  permit'[f] = permit[f]
  <1>1. f \notin DeadPermits
    BY DEF PollRefused, Recoverable, Covered
  <1> QED
    BY <1>1 DEF Decide

LEMMA ReconcileKeepsCovered ==
    ASSUME TypeOK, NEW S, Reconcile(S), NEW f \in Execution, Covered(f)
    PROVE  permit'[f] = permit[f]
  BY DEF Reconcile, Covered, Forgets, Terminal, TypeOK, SchedulerTypeOK

-----------------------------------------------------------------------------
(* Main threads *)

\* What a step of the main thread of r may do besides its job transactions.
MainEffect(r) ==
    /\ UNCHANGED <<checkpoint, permit, lock, proc, supervisor, recovery>>
    /\ main[r] \notin {"idle", "launching"}
    /\ \A q \in Run : q # r => main'[q] = main[q]
    /\ main'[r] \notin {"idle", "launching", "starting"}
    /\ \A e \in Execution :
          \/ thread'[e] = thread[e]
          \/ RunOf[e] = r /\ thread'[e] = "none"
          \/ RunOf[e] = r /\ thread'[e] = "pending" /\ proc[e] # "running"
          \/ RunOf[e] = r /\ thread[e] = "pending" /\ thread'[e] = "checking"

LEMMA MainHasEffect ==
    ASSUME CoverInv, NEW r \in Run,
           \/ Start(r) \/ Launch(r) \/ Collect(r) \/ Acknowledge(r)
           \/ Prepare(r) \/ PrepareRefused(r) \/ Publish(r) \/ CloseOwner(r)
           \/ Close(r) \/ MainFault(r) \/ RecordFailure(r) \/ Disown(r)
    PROVE  MainEffect(r)
  <1>0. main \in [Run -> {"idle", "launching", "starting", "top", "waiting",
                         "halting", "draining", "preparing", "publishing",
                         "closing", "closed", "failing", "failed", "exiting"}]
        /\ thread = [e \in Execution |-> thread[e]]
    BY DEF CoverInv, TypeOK, ProgramTypeOK
  <1>1. CASE Start(r)
    <2>1. ASSUME NEW e \in Execution, thread'[e] # thread[e]
          PROVE  RunOf[e] = r /\ thread'[e] = "pending" /\ proc[e] # "running"
      <3>1. RunOf[e] = r /\ thread'[e] = "pending" /\ e \in ExecutionsOf(r)
        BY <1>1, <2>1 DEF Start, ExecutionsOf
      <3>2. ~Unrecovered(e)
        BY <1>1, <2>1, <3>1 DEF Start
      <3> QED
        BY <3>1, <3>2 DEF Unrecovered, CoverInv, CommandsCovered, Covered
    <2> QED
      BY <1>0, <1>1, <2>1 DEF Start, MainEffect, mainOnly, Go, jobVars, schedulerVars
  <1>2. CASE Launch(r)
    <2>1. PICK L \in Launchable(r) :
             thread' = [e \in Execution |-> IF e \in L THEN "checking" ELSE thread[e]]
      BY <1>2 DEF Launch
    <2>2. L \subseteq Pending(r)
      BY <2>1 DEF Launchable
    <2>3. \A e \in L : RunOf[e] = r /\ thread[e] = "pending"
      BY <2>2 DEF Pending, ExecutionsOf
    <2> QED
      BY <1>0, <1>2, <2>1, <2>3
         DEF Launch, MainEffect, mainOnly, Go, jobVars, schedulerVars
  <1>3. CASE Collect(r)
    <2>1. \A e \in Ended(r) : RunOf[e] = r
      BY DEF Ended, ExecutionsOf
    <2> QED
      BY <1>0, <1>3, <2>1
         DEF Collect, MainEffect, mainOnly, Go, jobVars, schedulerVars
  <1>4. CASE \/ Acknowledge(r) \/ Prepare(r) \/ PrepareRefused(r) \/ Publish(r)
             \/ CloseOwner(r) \/ Close(r) \/ MainFault(r) \/ RecordFailure(r)
             \/ Disown(r)
    <2>1. UNCHANGED <<mainOnly, thread, checkpoint>>
      BY <1>4 DEF Acknowledge, Prepare, PrepareRefused, Publish, CloseOwner, Close,
                  MainFault, RecordFailure, Disown, jobVars, attemptVars,
                  AcknowledgeStop, PreparePublication, FinishPublication,
                  ReplaceOwner, FinishStop, RequestFailure
    <2>2. /\ main[r] \notin {"idle", "launching"}
          /\ \E pc \in {"top", "draining", "closing", "publishing", "failing",
                        "exiting", "closed", "failed"} : Go(r, pc)
      BY <1>4 DEF Acknowledge, Prepare, PrepareRefused, Publish, CloseOwner, Close,
                  MainFault, RecordFailure, Disown, AtPublication
    <2> QED
      BY <1>0, <2>1, <2>2 DEF MainEffect, mainOnly, Go, schedulerVars
  <1> QED
    BY <1>1, <1>2, <1>3, <1>4

LEMMA MainCovers ==
    ASSUME CoverInv, TypeOK', NEW r \in Run, MainEffect(r)
    PROVE  CoverInv'
  <1> USE DEF CoverInv, MainEffect
  <1>0. \A e \in Execution : RunOf[e] \in Run
    BY RunOfAssumption
  <1>1. CommandsCovered'
    BY DEF CommandsCovered, Covered
  <1>2. AttemptsCovered'
    BY DEF AttemptsCovered, Covered
  <1>3. GrantsLocked'
    BY DEF GrantsLocked, Requester
  <1>4. SpawnedLast'
    BY DEF SpawnedLast
  <1>5. ThreadsOwned'
    BY <1>0 DEF ThreadsOwned
  <1>6. PidsGiven'
    BY DEF PidsGiven
  <1>7. RecoveriesAlone'
    BY DEF RecoveriesAlone, Live
  <1> QED
    BY <1>1, <1>2, <1>3, <1>4, <1>5, <1>6, <1>7

-----------------------------------------------------------------------------
(* Supervisors that come and go *)

ProcessEffect(r) ==
    /\ UNCHANGED <<checkpoint, permit, proc, recovery>>
    /\ recovery[r] = NoRecovery \/ main'[r] = "idle"
    /\ \A q \in Run : q # r => main'[q] = main[q] /\ supervisor'[q] = supervisor[q]
    /\ \A e \in Execution :
          \/ RunOf[e] # r /\ thread'[e] = thread[e]
          \/ RunOf[e] = r /\ thread'[e] = "none"
    /\ \A e \in Execution : RunOf[e] # r /\ lock = {e} => lock' = {e}
    /\ main'[r] \in {"idle", "launching"} \/ supervisor'[r].pid # 0

LEMMA ProcessHasEffect ==
    ASSUME CoverInv, NEW r \in Run,
           Resume(r) \/ LauncherDies(r) \/ Register(r) \/ Vanish(r)
    PROVE  ProcessEffect(r)
  <1> USE DEF CoverInv
  <1>0. /\ main = [q \in Run |-> main[q]] /\ thread = [e \in Execution |-> thread[e]]
        /\ supervisor \in [Run -> [pid : Nat, alive : BOOLEAN]]
        /\ lock \subseteq Execution
    BY DEF TypeOK, ProgramTypeOK, SchedulerTypeOK
  <1>1. CASE Vanish(r)
    <2>1. \A e \in Execution : RunOf[e] # r /\ lock = {e} => lock' = {e}
      BY <1>1 DEF Vanish, ExecutionsOf
    <2> QED
      BY <1>0, <1>1, <2>1 DEF Vanish, ProcessEffect, Go, jobVars, schedulerVars
  <1>2. ASSUME main[r] \in {"idle", "launching"}, UNCHANGED thread
        PROVE  \A e \in Execution :
                  \/ RunOf[e] # r /\ thread'[e] = thread[e]
                  \/ RunOf[e] = r /\ thread'[e] = "none"
    BY <1>2 DEF ThreadsOwned
  <1>3. CASE Resume(r)
    <2>1. UNCHANGED checkpoint
      BY <1>3 DEF Resume, BeginResume, BeginPublicationResume, attemptVars
    <2> QED
      BY <1>0, <1>2, <1>3, <2>1 DEF Resume, ScopeFree, ProcessEffect, Go, schedulerVars
  <1>4. CASE LauncherDies(r)
    BY <1>0, <1>2, <1>4 DEF LauncherDies, ProcessEffect, Go, schedulerVars, jobVars
  <1>5. CASE Register(r)
    <2>1. supervisor'[r].pid # 0
      BY <1>0, <1>5 DEF Register
    <2>2. recovery[r] = NoRecovery
      BY <1>5 DEF Register, RecoveriesAlone
    <2> QED
      BY <1>0, <1>2, <1>5, <2>1, <2>2
         DEF Register, ReplaceOwner, attemptVars, ProcessEffect, Go, schedulerVars
  <1> QED
    BY <1>1, <1>3, <1>4, <1>5

LEMMA ProcessCovers ==
    ASSUME CoverInv, TypeOK', NEW r \in Run, ProcessEffect(r)
    PROVE  CoverInv'
  <1> USE DEF CoverInv, ProcessEffect
  <1>0. \A e \in Execution : RunOf[e] \in Run
    BY RunOfAssumption
  <1>1. CommandsCovered'
    BY DEF CommandsCovered, Covered
  <1>2. AttemptsCovered'
    BY DEF AttemptsCovered, Covered
  <1>3. GrantsLocked'
    BY <1>0 DEF GrantsLocked, Requester
  <1>4. SpawnedLast'
    BY DEF SpawnedLast
  <1>5. ThreadsOwned'
    BY <1>0 DEF ThreadsOwned
  <1>6. PidsGiven'
    BY DEF PidsGiven
  <1>7. RecoveriesAlone'
    BY DEF RecoveriesAlone, Live
  <1> QED
    BY <1>1, <1>2, <1>3, <1>4, <1>5, <1>6, <1>7

-----------------------------------------------------------------------------
(* Pool threads and commands *)

\* What a step of e's thread leaves alone.
ThreadEffect(e) ==
    /\ UNCHANGED <<main, supervisor, recovery>>
    /\ thread[e] # "none"
    /\ \A f \in Execution : f # e =>
          /\ thread'[f] = thread[f] /\ proc'[f] = proc[f]
          /\ checkpoint'[f] = checkpoint[f]
          /\ Covered(f) => permit'[f] = permit[f]
          /\ thread[f] = "granted" => lock' = lock /\ permit'[f] = permit[f]

\* What is left to show of e itself.
OwnCover(e) ==
    /\ proc[e] = "running" => Covered(e) /\ checkpoint[e].started
    /\ thread[e] \in {"attached", "started"} => Covered(e)
    /\ thread[e] = "started" => checkpoint[e].started
    /\ thread[e] = "granted" => lock = {e} /\ permit[e] = Requester(e)
    /\ thread[e] \in {"pending", "checking", "polling", "granted", "attached",
                      "started"} => proc[e] # "running"

LEMMA OwnCovered ==
    ASSUME CoverInv, NEW e \in Execution
    PROVE  OwnCover(e)
  BY DEF CoverInv, CommandsCovered, AttemptsCovered, GrantsLocked, SpawnedLast,
         OwnCover

\* The run of an execution with a thread has a supervisor and no recovery.
LEMMA ThreadOwner ==
    ASSUME CoverInv, NEW e \in Execution, thread[e] # "none"
    PROVE  /\ RunOf[e] \in Run
           /\ main[RunOf[e]] \notin {"idle", "launching", "starting"}
           /\ recovery[RunOf[e]] = NoRecovery
           /\ Requester(e) \in Nat \ {0}
  <1>1. RunOf[e] \in Run
    BY RunOfAssumption
  <1>2. Requester(e) \in Nat
    BY PidsTyped DEF CoverInv
  <1> QED
    BY <1>1, <1>2 DEF CoverInv, ThreadsOwned, RecoveriesAlone, PidsGiven, Requester

LEMMA ThreadCovers ==
    ASSUME CoverInv, TypeOK', NEW e \in Execution, ThreadEffect(e), OwnCover(e)'
    PROVE  CoverInv'
  <1> USE DEF CoverInv
  <1>0. \A f \in Execution : RunOf[f] \in Run
    BY RunOfAssumption
  <1>1. \A f \in Execution : f # e => OwnCover(f)'
    <2> SUFFICES ASSUME NEW f \in Execution, f # e PROVE OwnCover(f)'
      OBVIOUS
    <2>1. OwnCover(f)
      BY OwnCovered
    <2> QED
      BY <2>1 DEF OwnCover, ThreadEffect, Covered, Requester
  <1>2. CommandsCovered' /\ AttemptsCovered' /\ GrantsLocked' /\ SpawnedLast'
    BY <1>1 DEF OwnCover, CommandsCovered, AttemptsCovered, GrantsLocked, SpawnedLast
  <1>3. ThreadsOwned'
    BY <1>0 DEF ThreadsOwned, ThreadEffect
  <1>4. PidsGiven'
    BY DEF PidsGiven, ThreadEffect
  <1>5. RecoveriesAlone'
    <2>1. recovery[RunOf[e]] = NoRecovery
      BY ThreadOwner DEF ThreadEffect
    <2> QED
      BY <2>1 DEF RecoveriesAlone, Live, ExecutionsOf, ThreadEffect
  <1> QED
    BY <1>2, <1>3, <1>4, <1>5

\* Steps that leave the permits, and the coordinator lock of others, alone.
LEMMA UnscheduledStep ==
    ASSUME CoverInv, TypeOK', NEW e \in Execution,
           \/ GoOn(e) \/ Attach(e) \/ StartAttempt(e) \/ Spawn(e)
           \/ LaunchFails(e) \/ RegisterWorkers(e) \/ Complete(e)
           \/ Interrupt(e) \/ ForgetPermit(e) \/ ForgetScratch(e)
           \/ ThreadFault(e)
    PROVE  CoverInv'
  <1>0. /\ thread = [f \in Execution |-> thread[f]]
        /\ proc = [f \in Execution |-> proc[f]]
        /\ checkpoint \in [Execution -> CheckpointType]
        /\ checkpoint[e] \in CheckpointType
    BY DEF CoverInv, TypeOK, ProgramTypeOK, JobTypeOK
  <1>1. OwnCover(e) /\ \A f \in Execution : f # e => OwnCover(f)
    BY OwnCovered
  <1>2. UNCHANGED <<main, supervisor, recovery, permit>> /\ thread[e] # "none"
    BY DEF GoOn, Attach, StartAttempt, Spawn, LaunchFails, RegisterWorkers,
           Complete, Interrupt, ForgetPermit, ForgetScratch,
           ThreadFault, threadOnly, schedulerVars, Idle
  <1>3. \A f \in Execution : f # e =>
           thread'[f] = thread[f] /\ proc'[f] = proc[f]
    BY <1>0 DEF GoOn, Attach, StartAttempt, Spawn, LaunchFails, RegisterWorkers,
           Complete, Interrupt, ForgetPermit, ForgetScratch,
           ThreadFault, Step
  <1>4. \A f \in Execution : f # e => checkpoint'[f] = checkpoint[f]
    BY <1>0 DEF GoOn, Attach, StartAttempt, Spawn, LaunchFails, RegisterWorkers,
           Complete, Interrupt, ForgetPermit, ForgetScratch,
           ThreadFault, jobVars, attemptVars, AttachPermit, RecordStart,
           RecordWorkers, RecordCompletion, RecordInterruption, ClearPermit,
           ClearScratch
  <1>5. ASSUME NEW f \in Execution, f # e, thread[f] = "granted"
        PROVE  lock' = lock
    <2>1. lock = {f}
      BY <1>1, <1>5 DEF OwnCover
    <2>2. thread[e] # "granted"
      BY <1>1, <1>5, <2>1 DEF OwnCover
    <2> QED
      BY <1>5, <2>1, <2>2
         DEF GoOn, Attach, StartAttempt, Spawn, LaunchFails, RegisterWorkers,
             Complete, Interrupt, ForgetPermit, ForgetScratch,
             ThreadFault
  <1>6. ThreadEffect(e)
    BY <1>2, <1>3, <1>4, <1>5 DEF ThreadEffect
  <1>7. OwnCover(e)'
    <2>0. Requester(e) # NoPermit /\ Requester(e)' = Requester(e)
      BY <1>2, ThreadOwner DEF NoPermit, Requester
    <2>1. CASE GoOn(e)
      BY <1>0, <1>1, <1>2, <2>1 DEF GoOn, OwnCover, Step, Covered, jobVars, attemptVars
    <2>2. CASE Attach(e)
      <3>1. permit[e] = Requester(e) /\ proc'[e] # "running"
        BY <1>1, <2>2 DEF Attach, OwnCover
      <3>2. CASE AttachPermit(e, Requester(e)) /\ Step(e, "attached")
        <4>1. /\ checkpoint'[e].state = "active"
              /\ checkpoint'[e].permit = Requester(e)
          BY <1>0, <3>2 DEF AttachPermit, CheckpointType
        <4>2. Covered(e)' /\ thread'[e] = "attached"
          BY <1>0, <1>2, <2>0, <3>1, <3>2, <4>1 DEF Covered, Step
        <4> QED
          BY <3>1, <4>2 DEF OwnCover
      <3>3. CASE Step(e, "raised")
        BY <1>0, <3>1, <3>3 DEF OwnCover, Step
      <3> QED
        BY <2>2, <3>2, <3>3 DEF Attach
    <2>3. CASE StartAttempt(e)
      BY <1>0, <1>1, <1>2, <2>3
         DEF StartAttempt, RecordStart, Permitted, OwnCover, Step, Covered,
             jobVars, attemptVars, CheckpointType
    <2>4. CASE Spawn(e)
      BY <1>0, <1>1, <1>2, <2>4 DEF Spawn, OwnCover, Step, Covered, jobVars, attemptVars
    <2>5. CASE LaunchFails(e)
      BY <1>0, <1>1, <1>2, <2>5 DEF LaunchFails, OwnCover, Step
    <2>6. CASE RegisterWorkers(e)
      BY <1>0, <1>1, <1>2, <2>6
         DEF RegisterWorkers, RecordWorkers, OwnCover, Step, Covered
    <2>7. CASE Complete(e)
      BY <1>0, <1>1, <1>2, <2>7 DEF Complete, OwnCover, Step
    <2>8. CASE Interrupt(e)
      BY <1>0, <1>1, <1>2, <2>8 DEF Interrupt, OwnCover, Step
    <2>9. CASE ForgetPermit(e) \/ ForgetScratch(e)
      BY <1>0, <1>1, <1>2, <2>9
         DEF ForgetPermit, ForgetScratch, ClearPermit, ClearScratch, OwnCover,
             Step, Covered
    <2>10. CASE ThreadFault(e)
      BY <1>0, <1>1, <1>2, <2>10
         DEF ThreadFault, OwnCover, Step, Covered, jobVars, attemptVars
    <2> QED
      BY <2>1, <2>2, <2>3, <2>4, <2>5, <2>6, <2>7, <2>8, <2>9, <2>10
  <1> QED
    BY <1>6, <1>7, ThreadCovers

\* A command ends, whether or not its thread is still there.
LEMMA CommandEndCovers ==
    ASSUME CoverInv, TypeOK', NEW e \in Execution, CommandEnds(e)
    PROVE  CoverInv'
  <1>0. /\ UNCHANGED <<main, supervisor, recovery, permit, lock, thread, checkpoint>>
        /\ proc' = [proc EXCEPT ![e] = "exited"]
        /\ proc = [f \in Execution |-> proc[f]]
    BY DEF CommandEnds, threadOnly, jobVars, attemptVars, schedulerVars, CoverInv,
           TypeOK, ProgramTypeOK
  <1>1. \A f \in Execution : proc'[f] = "running" => proc[f] = "running"
    BY <1>0
  <1> QED
    BY <1>0, <1>1
       DEF CoverInv, CommandsCovered, AttemptsCovered, GrantsLocked, SpawnedLast,
           ThreadsOwned, PidsGiven, RecoveriesAlone, Covered, Requester, Live

LEMMA ScheduledStep ==
    ASSUME CoverInv, TypeOK', NEW e \in Execution,
           Withdraw(e) \/ Poll(e) \/ ReleaseGrant(e)
    PROVE  CoverInv'
  <1>0. /\ thread = [f \in Execution |-> thread[f]]
        /\ UNCHANGED <<main, supervisor, recovery, proc, checkpoint>>
        /\ lock = {} /\ thread[e] # "none"
    BY DEF CoverInv, TypeOK, ProgramTypeOK, Withdraw, Poll, ReleaseGrant,
           threadOnly, jobVars, attemptVars
  <1>1. OwnCover(e) /\ \A f \in Execution : f # e => thread[f] # "granted"
    BY <1>0, OwnCovered DEF OwnCover
  <1>2. \A f \in Execution : f # e => thread'[f] = thread[f]
    BY <1>0 DEF Withdraw, Poll, ReleaseGrant, Step
  <1>3. ASSUME NEW f \in Execution, f # e, Covered(f)
        PROVE  permit'[f] = permit[f]
    BY <1>3, DecideKeepsCovered, ReconcileKeepsCovered
       DEF CoverInv, Withdraw, Poll, ReleaseGrant, schedulerVars
  <1>4. ThreadEffect(e)
    BY <1>0, <1>1, <1>2, <1>3 DEF ThreadEffect
  <1>5. OwnCover(e)'
    <2>1. CASE Withdraw(e)
      <3>1. Covered(e) => permit'[e] = permit[e]
        BY <2>1, ReconcileKeepsCovered DEF CoverInv, Withdraw, schedulerVars
      <3> QED
        BY <1>0, <1>1, <2>1, <3>1 DEF Withdraw, OwnCover, Step, Covered
    <2>2. CASE ReleaseGrant(e)
      <3>1. Covered(e) => permit'[e] = permit[e]
        BY <2>2, ReconcileKeepsCovered DEF CoverInv, ReleaseGrant, schedulerVars
      <3> QED
        BY <1>0, <1>1, <2>2, <3>1 DEF ReleaseGrant, OwnCover, Step, Covered
    <2>3. CASE Poll(e)
      <3>1. proc'[e] # "running" /\ Requester(e)' = Requester(e)
        BY <1>0, <1>1, <2>3 DEF Poll, OwnCover, Requester
      <3>2. CASE thread'[e] = "granted"
        <4>1. Decide(e, Grantable(e)) /\ Grantable(e) /\ lock' = {e}
          BY <1>0, <2>3, <3>2 DEF Poll, Step
        <4>2. permit'[e] = Requester(e)
          BY <4>1 DEF Decide
        <4> QED
          BY <3>1, <3>2, <4>1, <4>2 DEF OwnCover
      <3>3. CASE thread'[e] # "granted"
        <4>1. thread'[e] \in {"raised", "checking"}
          BY <1>0, <2>3, <3>3 DEF Poll, Step
        <4> QED
          BY <3>1, <4>1 DEF OwnCover
      <3> QED
        BY <3>2, <3>3
    <2> QED
      BY <2>1, <2>2, <2>3
  <1> QED
    BY <1>4, <1>5, ThreadCovers

-----------------------------------------------------------------------------
(* Stop commands and recoveries *)

\* What may change of executions whose command cannot run.
RecoveryEffect(r) ==
    /\ UNCHANGED <<main, supervisor, thread, proc, lock>>
    /\ \A q \in Run : q # r => recovery'[q] = recovery[q]
    /\ recovery'[r] # NoRecovery => main[r] = "idle" /\ Live(r) = {}
    /\ \A e \in Execution :
          \/ checkpoint'[e] = checkpoint[e]
          \/ RunOf[e] = r /\ main[r] = "idle" /\ Live(r) = {}
    /\ \A e \in Execution :
          \/ permit'[e] = permit[e]
          \/ lock = {} /\ ~Covered(e)

LEMMA RecoveryHasEffect ==
    ASSUME CoverInv, NEW r \in Run,
           \/ Stop(r) \/ CancelWaiters(r) \/ RecoveryStep(r) \/ RecovererDies(r)
    PROVE  RecoveryEffect(r)
  <1> USE DEF CoverInv
  <1>0. /\ recovery \in [Run -> [pc : {"none", "scanned", "admitting", "attempts",
                                     "owned"}, publishing : BOOLEAN]]
        /\ checkpoint = [f \in Execution |-> checkpoint[f]]
        /\ TypeOK
    BY DEF TypeOK, ProgramTypeOK, JobTypeOK
  <1>1. UNCHANGED <<main, supervisor, thread, proc, lock>>
    BY DEF Stop, CancelWaiters, RecoveryStep, Scan, DeclareIntent,
           ReconcileAdmission, RecoverAttempt, RecoverGrant, RecoverOwner,
           RecoverControl, RecovererDies, recoveryOnly
  <1>2. ASSUME recovery[r].pc # "none" PROVE main[r] = "idle" /\ Live(r) = {}
    <2>1. recovery[r] # NoRecovery
      BY <1>2 DEF NoRecovery
    <2> QED
      BY <2>1 DEF RecoveriesAlone
  <1>3. CASE Stop(r) \/ CancelWaiters(r)
    <2>1. UNCHANGED <<recovery, permit, checkpoint>>
      BY <1>3 DEF Stop, CancelWaiters, RequestStop, CancelRunWaiters, jobVars,
                  attemptVars, schedulerVars
    <2> QED
      BY <1>1, <2>1 DEF RecoveryEffect, RecoveriesAlone
  <1>4. CASE Scan(r)
    <2>1. UNCHANGED <<permit, checkpoint>> /\ main[r] = "idle"
          /\ recovery[r] = NoRecovery
      BY <1>4 DEF Scan, ScopeFree, ReplaceRecoveryWorkers, schedulerVars
    <2> QED
      BY <1>0, <1>1, <1>4, <2>1 DEF Scan, RecoveryEffect
  <1>5. CASE DeclareIntent(r) \/ RecoverOwner(r)
    <2>1. UNCHANGED <<permit, checkpoint>> /\ recovery[r].pc # "none"
      BY <1>5 DEF DeclareIntent, RecoverOwner, RequestFailure, ReplaceOwner,
                  Recovering, schedulerVars, jobVars, attemptVars
    <2>2. \A q \in Run : q # r => recovery'[q] = recovery[q]
      BY <1>0, <1>5 DEF DeclareIntent, RecoverOwner, Continue
    <2> QED
      BY <1>1, <1>2, <2>1, <2>2 DEF RecoveryEffect
  <1>6. CASE RecoverControl(r) \/ RecovererDies(r)
    <2>1. UNCHANGED <<permit, checkpoint>>
          /\ recovery' = [recovery EXCEPT ![r] = NoRecovery]
      BY <1>6 DEF RecoverControl, RecovererDies, FinishStop, schedulerVars,
                  jobVars, attemptVars
    <2> QED
      BY <1>0, <1>1, <2>1 DEF RecoveryEffect
  <1>7. CASE ReconcileAdmission(r)
    <2>1. /\ UNCHANGED checkpoint /\ recovery[r].pc # "none" /\ lock = {}
          /\ \A q \in Run : q # r => recovery'[q] = recovery[q]
      BY <1>0, <1>7 DEF ReconcileAdmission, Recovering, Continue, jobVars, attemptVars
    <2>2. \A e \in Execution : Covered(e) => permit'[e] = permit[e]
      BY <1>0, <1>7, ReconcileKeepsCovered DEF ReconcileAdmission
    <2> QED
      BY <1>1, <1>2, <2>1, <2>2 DEF RecoveryEffect
  <1>8. ASSUME NEW e \in ExecutionsOf(r), RecoverGrant(e)
        PROVE  RecoveryEffect(r)
    <2>1. /\ UNCHANGED <<checkpoint, recovery>> /\ lock = {}
      BY <1>8 DEF RecoverGrant, jobVars, attemptVars
    <2>2. \A f \in Execution : Covered(f) => permit'[f] = permit[f]
      BY <1>0, <1>8, ReconcileKeepsCovered DEF RecoverGrant
    <2> QED
      BY <1>1, <2>1, <2>2 DEF RecoveryEffect, RecoveriesAlone
  <1>9. ASSUME NEW e \in ExecutionsOf(r), RecoverAttempt(e)
        PROVE  RecoveryEffect(r)
    <2>1. e \in Execution /\ RunOf[e] = r
      BY DEF ExecutionsOf
    <2>2. UNCHANGED <<permit, recovery>> /\ recovery[r].pc # "none"
      BY <1>9, <2>1 DEF RecoverAttempt, Recovering, schedulerVars
    <2>3. \A f \in Execution : f # e => checkpoint'[f] = checkpoint[f]
      BY <1>0, <1>9 DEF RecoverAttempt, RecordInterruption, ClearPermit, ClearScratch
    <2> QED
      BY <1>1, <1>2, <2>1, <2>2, <2>3 DEF RecoveryEffect
  <1> QED
    BY <1>3, <1>4, <1>5, <1>6, <1>7, <1>8, <1>9 DEF RecoveryStep

LEMMA RecoveryCovers ==
    ASSUME CoverInv, TypeOK', NEW r \in Run, RecoveryEffect(r)
    PROVE  CoverInv'
  <1> USE DEF CoverInv, RecoveryEffect
  <1>1. ASSUME NEW e \in Execution PROVE OwnCover(e)'
    <2>1. OwnCover(e) /\ Requester(e)' = Requester(e)
      BY OwnCovered DEF Requester
    <2>2. CASE checkpoint'[e] = checkpoint[e]
      BY <2>1, <2>2 DEF OwnCover, Covered
    <2>3. CASE RunOf[e] = r /\ main[r] = "idle" /\ Live(r) = {}
      <3>1. thread[e] = "none" /\ proc[e] # "running"
        BY <2>3 DEF ThreadsOwned, Live, ExecutionsOf
      <3> QED
        BY <3>1 DEF OwnCover
    <2> QED
      BY <2>2, <2>3
  <1>2. CommandsCovered' /\ AttemptsCovered' /\ GrantsLocked' /\ SpawnedLast'
    BY <1>1 DEF OwnCover, CommandsCovered, AttemptsCovered, GrantsLocked, SpawnedLast
  <1>3. ThreadsOwned' /\ PidsGiven'
    BY DEF ThreadsOwned, PidsGiven
  <1>4. RecoveriesAlone'
    BY DEF RecoveriesAlone, Live
  <1> QED
    BY <1>2, <1>3, <1>4

-----------------------------------------------------------------------------
LEMMA CoverStep == CoverInv /\ [Next]_vars => CoverInv'
  <1> SUFFICES ASSUME CoverInv, [Next]_vars PROVE CoverInv'
    OBVIOUS
  <1>0. TypeOK'
    BY TypeStep DEF CoverInv
  <1>1. CASE UNCHANGED vars
    BY <1>0, <1>1
       DEF vars, jobVars, schedulerVars, programVars, CoverInv, CommandsCovered,
           AttemptsCovered, GrantsLocked, SpawnedLast, ThreadsOwned, PidsGiven,
           RecoveriesAlone, Covered, Requester, Live
  <1>2. ASSUME NEW r \in Run,
               \/ MainStep(r) \/ MainFault(r) \/ Crash(r) \/ LauncherDies(r)
               \/ Resume(r)
        PROVE  CoverInv'
    <2>1. MainEffect(r) \/ ProcessEffect(r)
      BY <1>2, MainHasEffect, ProcessHasEffect DEF MainStep, Exit, Crash
    <2> QED
      BY <1>0, <2>1, MainCovers, ProcessCovers
  <1>3. ASSUME NEW r \in Run,
               \/ Stop(r) \/ CancelWaiters(r) \/ RecoveryStep(r)
               \/ RecovererDies(r)
        PROVE  CoverInv'
    BY <1>0, <1>3, RecoveryHasEffect, RecoveryCovers
  <1>4. ASSUME NEW e \in Execution,
               ThreadStep(e) \/ CommandEnds(e) \/ ThreadFault(e)
        PROVE  CoverInv'
    BY <1>0, <1>4, UnscheduledStep, ScheduledStep, CommandEndCovers DEF ThreadStep
  <1> QED
    BY <1>1, <1>2, <1>3, <1>4 DEF Next

(***************************************************************************)
(* Every command that runs is covered by an open, started attempt of its   *)
(* job and by the very permit the job has attached.                        *)
(***************************************************************************)
THEOREM LiveCommandsAlwaysCovered == Spec => []LiveCommandsCovered
  <1>1. CoverInv => LiveCommandsCovered
    BY DEF CoverInv, CommandsCovered, Covered, LiveCommandsCovered, LiveCommands
  <1> QED
    BY <1>1, CoverInit, CoverStep, PTL DEF Spec

-----------------------------------------------------------------------------
(* Permits implement exclusive access *)

LEMMA AccessInit == Init => Access!Init
  BY DEF Init, Access!Init, LiveCommands

\* Only the spawn of a command makes one run.
LEMMA OthersSpawnNothing ==
    ASSUME TypeOK, [Next]_vars, \A e \in Execution : ~Spawn(e)
    PROVE  \/ UNCHANGED proc
           \/ \E e \in Execution : proc[e] = "running"
                                    /\ proc' = [proc EXCEPT ![e] = "exited"]
  <1>1. CASE UNCHANGED vars
    BY <1>1 DEF vars, programVars
  <1>2. ASSUME NEW r \in Run,
               \/ MainStep(r) \/ MainFault(r) \/ Crash(r) \/ LauncherDies(r)
               \/ Resume(r)
        PROVE  UNCHANGED proc
    BY <1>2 DEF MainStep, Register, Start, Launch, Collect, Acknowledge, Prepare,
                PrepareRefused, Publish, CloseOwner, Close, RecordFailure, Disown,
                Exit, Vanish, MainFault, Crash, LauncherDies, Resume, mainOnly
  <1>3. ASSUME NEW r \in Run,
               \/ Stop(r) \/ CancelWaiters(r) \/ RecoveryStep(r)
               \/ RecovererDies(r)
        PROVE  UNCHANGED proc
    BY <1>3 DEF Stop, CancelWaiters, RecoveryStep, Scan, DeclareIntent,
                ReconcileAdmission, RecoverAttempt, RecoverGrant, RecoverOwner,
                RecoverControl, RecovererDies
  <1>4. ASSUME NEW e \in Execution,
               ThreadStep(e) \/ CommandEnds(e) \/ ThreadFault(e)
        PROVE  \/ UNCHANGED proc
               \/ proc[e] = "running" /\ proc' = [proc EXCEPT ![e] = "exited"]
    BY <1>4 DEF ThreadStep, Withdraw, GoOn, Poll, Attach, StartAttempt,
                LaunchFails, RegisterWorkers, CommandEnds, Complete, Interrupt,
                ThreadFault, ReleaseGrant, ForgetPermit, ForgetScratch
  <1> QED
    BY <1>1, <1>2, <1>3, <1>4 DEF Next

LEMMA AccessStep ==
    ASSUME CoverInv, PermitsCompatible, [Next]_vars
    PROVE  [Access!Next]_LiveCommands
  <1>0. proc = [e \in Execution |-> proc[e]]
    BY DEF CoverInv, TypeOK, ProgramTypeOK
  <1>1. ASSUME NEW e \in Execution, Spawn(e) PROVE Access!Next
    <2>1. /\ thread[e] = "started" /\ proc[e] # "running" /\ Covered(e)
          /\ proc' = [proc EXCEPT ![e] = "running"]
      BY <1>1 DEF Spawn, CoverInv, AttemptsCovered, SpawnedLast
    <2>2. \A f \in LiveCommands : f # e /\ f \in Holding
      BY <2>1 DEF CoverInv, CommandsCovered, Covered, LiveCommands, Holding
    <2>3. \A f \in LiveCommands : ~Conflict(e, f)
      BY <2>1, <2>2 DEF PermitsCompatible, Covered, Holding
    <2>4. LiveCommands' = LiveCommands \cup {e}
      BY <1>0, <2>1 DEF LiveCommands
    <2>5. e \notin LiveCommands
      BY <2>1 DEF LiveCommands
    <2>6. Access!Acquire(e)
      BY <2>3, <2>4, <2>5 DEF Access!Acquire
    <2> QED
      BY <2>6 DEF Access!Next
  <1>2. ASSUME NEW e \in Execution, proc[e] = "running",
               proc' = [proc EXCEPT ![e] = "exited"]
        PROVE  Access!Next
    <2>1. e \in LiveCommands /\ LiveCommands' = LiveCommands \ {e}
      BY <1>0, <1>2 DEF LiveCommands
    <2>2. Access!Relinquish(e)
      BY <2>1 DEF Access!Relinquish
    <2> QED
      BY <2>2 DEF Access!Next
  <1>3. CASE UNCHANGED proc
    BY <1>3 DEF LiveCommands
  <1>4. TypeOK
    BY DEF CoverInv
  <1> QED
    BY <1>1, <1>2, <1>3, <1>4, OthersSpawnNothing

(***************************************************************************)
(* Commands of all runs, orphans included, exclude each other as their     *)
(* kinds and claims demand: reproduction implements exclusive access.      *)
(***************************************************************************)
THEOREM PermitsImplementAccess == Spec => AccessSpec
  <1>1. PermitInv => PermitsCompatible
    BY DEF PermitInv
  <1> QED
    BY <1>1, CoverInit, CoverStep, PermitInvInit, PermitInvStep, AccessInit,
       AccessStep, PTL DEF Spec, AccessSpec, Access!Spec
=============================================================================
