---------------------- MODULE ReproductionClosing_proofs ----------------------
(***************************************************************************)
(* What a run leaves behind when it closes, and what it keeps: a closed    *)
(* run has no open work, its closing cannot fail, and its results are      *)
(* final, for any runs, executions, claims and pools.                      *)
(*                                                                         *)
(* The invariant says of each run that open work has somebody to give it   *)
(* back: a pool thread that is past the grant of its permit, or, once an   *)
(* operational error is recorded, a recovery.  A run without error then    *)
(* has no open work when its pool is empty, and one with an error gives up *)
(* its ownership only when it finds none.                                  *)
(***************************************************************************)
EXTENDS ReproductionCover_proofs

\* The control state and the owner of a run agree with where its supervisor and
\* its recovery are.
Working == {"launching", "starting", "top", "waiting", "halting", "draining",
            "preparing", "publishing", "closing", "failing"}

Stages(r) ==
    /\ main[r] \in Working => Active(r) /\ control[r].failure = "none"
    /\ main[r] = "failed" => control[r].failure # "none"
    /\ main[r] \in {"failed", "closing", "closed"} =>
          Active(r) /\ control[r].phase = "stopping"
    /\ control[r].status = "stopped" => control[r].failure = "none"
    /\ recovery[r].pc # "none" => Active(r)
    /\ recovery[r].pc \in {"admitting", "attempts", "owned"} =>
          control[r].phase = "stopping"

Owners(r) ==
    /\ main[r] \notin {"idle", "launching"} => owner[r].pid = supervisor[r].pid
    /\ main[r] = "closed" \/ recovery[r].pc = "owned" \/ ~Active(r) =>
          owner[r].state # "running"

\* The pool is empty when the main thread goes on to publish or to close.
PoolEnded(r) ==
    main[r] \in {"preparing", "publishing", "closing", "closed", "failed", "exiting"} =>
        \A e \in ExecutionsOf(r) :
            /\ thread[e] \in Idle
            /\ control[r].failure = "none" => thread[e] \in {"none", "pending"}

Closings(r) ==
    /\ ~Active(r) \/ main[r] = "closed" \/ recovery[r].pc = "owned" => Quiescent(r)
    /\ recovery[r].pc # "none" => ~WorkersRecorded(r)

RunQuiet(r) == Stages(r) /\ Owners(r) /\ PoolEnded(r) /\ Closings(r)

\* Work that somebody has to give back: a thread, or after an error a recovery.
Open(e) ==
    \/ checkpoint[e].permit # NoPermit
    \/ recorded[e] = "running"
    \/ permit[e] # NoPermit

OpenWork(e) ==
    /\ Open(e) =>
        \/ thread[e] \in {"granted", "attached", "started", "spawned", "monitoring",
                          "recorded", "released", "raised"}
        \/ main[RunOf[e]] \in {"failing", "idle"}
        \/ control[RunOf[e]].failure # "none"
    /\ thread[e] = "released" => permit[e] = NoPermit
    /\ checkpoint[e].state = "active" => checkpoint[e].permit # NoPermit

\* A permit is of the registered supervisor, and no run that can be resumed, or
\* that publishes, has one.
Permits(e) ==
    permit[e] # NoPermit =>
        /\ permit[e] = owner[RunOf[e]].pid
        /\ control[RunOf[e]].phase # "publishing"
        /\ control[RunOf[e]].failure # "publication"
        /\ ~Active(RunOf[e]) => control[RunOf[e]].failure # "none"
        /\ recovery[RunOf[e]].pc \in {"attempts", "owned"} =>
              checkpoint[e].permit # NoPermit

WorkQuiet(e) == OpenWork(e) /\ Permits(e)

QuietInv ==
    /\ CoverInv
    /\ \A r \in Run : RunQuiet(r)
    /\ \A e \in Execution : WorkQuiet(e)

LEMMA QuietInit == Init => QuietInv
  <1> SUFFICES ASSUME Init PROVE QuietInv
    OBVIOUS
  <1>1. CoverInv
    BY CoverInit
  <1>2. \A r \in Run : /\ control[r] = [status |-> "active", phase |-> "accepted",
                                        stop |-> FALSE, failure |-> "none"]
                       /\ owner[r] = [pid |-> 0, state |-> "none"]
                       /\ main[r] = "launching" /\ recovery[r] = NoRecovery
    BY DEF Init, JobInit
  <1>3. \A e \in Execution : /\ checkpoint[e] = Absent /\ recorded[e] = "none"
                             /\ permit[e] = NoPermit /\ thread[e] = "none"
    BY DEF Init, JobInit, SchedulerInit
  <1>4. ASSUME NEW r \in Run PROVE RunQuiet(r)
    BY <1>2 DEF RunQuiet, Stages, Owners, PoolEnded, Closings, Active, NoRecovery
  <1>5. ASSUME NEW e \in Execution PROVE WorkQuiet(e)
    BY <1>3 DEF WorkQuiet, OpenWork, Open, Permits, Absent
  <1> QED
    BY <1>1, <1>4, <1>5 DEF QuietInv

(* A step belongs to one run.  Of the others it takes at most a permit.    *)

Local(r) ==
    /\ \A q \in Run : q # r =>
          /\ control'[q] = control[q] /\ owner'[q] = owner[q]
          /\ main'[q] = main[q] /\ recovery'[q] = recovery[q]
          /\ supervisor'[q] = supervisor[q]
    /\ \A f \in Execution : RunOf[f] # r =>
          /\ thread'[f] = thread[f] /\ checkpoint'[f] = checkpoint[f]
          /\ recorded'[f] = recorded[f]
          /\ permit'[f] \in {permit[f], NoPermit}

RunGood(r) == RunQuiet(r) /\ \A e \in ExecutionsOf(r) : WorkQuiet(e)

LEMMA OthersQuiet ==
    ASSUME QuietInv, NEW r \in Run, Local(r)
    PROVE  /\ \A q \in Run : q # r => RunQuiet(q)'
           /\ \A f \in Execution : RunOf[f] # r => WorkQuiet(f)'
  <1>1. ASSUME NEW q \in Run, q # r PROVE RunQuiet(q)'
    <2>1. RunQuiet(q)
      BY DEF QuietInv
    <2>2. /\ control'[q] = control[q] /\ owner'[q] = owner[q]
          /\ main'[q] = main[q] /\ recovery'[q] = recovery[q]
          /\ supervisor'[q] = supervisor[q]
      BY <1>1 DEF Local
    <2>3. \A f \in ExecutionsOf(q) :
             /\ thread'[f] = thread[f] /\ checkpoint'[f] = checkpoint[f]
             /\ recorded'[f] = recorded[f]
      BY <1>1 DEF Local, ExecutionsOf
    <2>4. Quiescent(q)' <=> Quiescent(q)
      BY <2>3 DEF Quiescent, Attached, WorkersRecorded, ExecutionsOf
    <2>5. WorkersRecorded(q)' <=> WorkersRecorded(q)
      BY <2>3 DEF WorkersRecorded, ExecutionsOf
    <2>6. Stages(q)' /\ Owners(q)'
      BY <2>1, <2>2 DEF RunQuiet, Stages, Owners, Active
    <2>7. PoolEnded(q)'
      BY <2>1, <2>2, <2>3 DEF RunQuiet, PoolEnded, ExecutionsOf
    <2>8. Closings(q)'
      BY <2>1, <2>2, <2>4, <2>5 DEF RunQuiet, Closings, Active
    <2> QED
      BY <2>6, <2>7, <2>8 DEF RunQuiet
  <1>2. ASSUME NEW f \in Execution, RunOf[f] # r PROVE WorkQuiet(f)'
    <2>1. WorkQuiet(f) /\ RunOf[f] \in Run
      BY RunOfAssumption DEF QuietInv
    <2>2. /\ control'[RunOf[f]] = control[RunOf[f]]
          /\ owner'[RunOf[f]] = owner[RunOf[f]]
          /\ main'[RunOf[f]] = main[RunOf[f]]
          /\ recovery'[RunOf[f]] = recovery[RunOf[f]]
          /\ thread'[f] = thread[f] /\ checkpoint'[f] = checkpoint[f]
          /\ recorded'[f] = recorded[f]
          /\ permit'[f] \in {permit[f], NoPermit}
      BY <1>2, <2>1 DEF Local
    <2>3. OpenWork(f)'
      BY <2>1, <2>2 DEF WorkQuiet, OpenWork, Open
    <2>4. Permits(f)'
      BY <2>1, <2>2 DEF WorkQuiet, Permits, Active
    <2> QED
      BY <2>3, <2>4 DEF WorkQuiet
  <1> QED
    BY <1>1, <1>2

\* What holds of a run and its executions before its step.
LEMMA RunIsGood ==
    ASSUME QuietInv, NEW r \in Run
    PROVE  /\ RunQuiet(r)
           /\ control[r] \in ControlType
           /\ owner[r] \in [pid : Nat, state : {"none", "running", "stopped", "exited"}]
           /\ recovery[r] \in [pc : {"none", "scanned", "admitting", "attempts",
                                     "owned"}, publishing : BOOLEAN]
           /\ recovery[r].pc # "none" => main[r] = "idle"
           /\ \A e \in ExecutionsOf(r) :
                 /\ e \in Execution /\ RunOf[e] = r /\ WorkQuiet(e)
                 /\ checkpoint[e] \in CheckpointType
                 /\ main[r] \in {"idle", "launching", "starting"} => thread[e] = "none"
  <1>1. TypeOK /\ ThreadsOwned /\ RecoveriesAlone
    BY DEF QuietInv, CoverInv
  <1>2. recovery[r].pc # "none" => main[r] = "idle"
    BY <1>1 DEF RecoveriesAlone, NoRecovery
  <1>3. /\ control[r] \in ControlType
        /\ owner[r] \in [pid : Nat, state : {"none", "running", "stopped", "exited"}]
        /\ recovery[r] \in [pc : {"none", "scanned", "admitting", "attempts",
                                  "owned"}, publishing : BOOLEAN]
    BY <1>1 DEF TypeOK, JobTypeOK, ProgramTypeOK
  <1>4. \A e \in ExecutionsOf(r) :
                 /\ e \in Execution /\ RunOf[e] = r /\ WorkQuiet(e)
                 /\ checkpoint[e] \in CheckpointType
                 /\ main[r] \in {"idle", "launching", "starting"} => thread[e] = "none"
    BY <1>1 DEF QuietInv, ExecutionsOf, TypeOK, JobTypeOK, ThreadsOwned
  <1> QED
    BY <1>2, <1>3, <1>4 DEF QuietInv

LEMMA RunStepQuiet ==
    ASSUME QuietInv, CoverInv', NEW r \in Run, Local(r), RunGood(r)'
    PROVE  QuietInv'
  <1>1. \A q \in Run : RunQuiet(q)'
    BY OthersQuiet DEF RunGood
  <1>2. ASSUME NEW f \in Execution PROVE WorkQuiet(f)'
    <2>1. RunOf[f] = r => f \in ExecutionsOf(r)
      BY DEF ExecutionsOf
    <2> QED
      BY <2>1, OthersQuiet DEF RunGood, ExecutionsOf
  <1> QED
    BY <1>1, <1>2 DEF QuietInv

JobAlone(r) ==
    /\ \A q \in Run : q # r => control'[q] = control[q] /\ owner'[q] = owner[q]
    /\ \A f \in Execution :
          RunOf[f] # r => checkpoint'[f] = checkpoint[f] /\ recorded'[f] = recorded[f]

LEMMA ControlAlone ==
    ASSUME TypeOK, NEW r \in Run,
           \/ RequestStop(r) \/ AcknowledgeStop(r) \/ RequestFailure(r)
           \/ FinishStop(r) \/ BeginResume(r) \/ BeginPublicationResume(r)
           \/ PreparePublication(r) \/ FinishPublication(r)
           \/ \E pid, state : ReplaceOwner(r, pid, state)
    PROVE  JobAlone(r) /\ UNCHANGED attemptVars
  <1>1. UNCHANGED attemptVars
    BY DEF RequestStop, AcknowledgeStop, RequestFailure, FinishStop, BeginResume,
           BeginPublicationResume, PreparePublication, FinishPublication,
           ReplaceOwner
  <1>2. \A q \in Run : q # r => control'[q] = control[q]
    BY DEF TypeOK, JobTypeOK, RequestStop, AcknowledgeStop, RequestFailure,
           FinishStop, BeginResume, BeginPublicationResume, PreparePublication,
           FinishPublication, ReplaceOwner
  <1>3. \A q \in Run : q # r => owner'[q] = owner[q]
    BY DEF TypeOK, JobTypeOK, RequestStop, AcknowledgeStop, RequestFailure,
           FinishStop, BeginResume, BeginPublicationResume, PreparePublication,
           FinishPublication, ReplaceOwner
  <1> QED
    BY <1>1, <1>2, <1>3 DEF JobAlone, attemptVars

LEMMA AttemptAlone ==
    ASSUME TypeOK, NEW e \in Execution, NEW pid,
           \/ AttachPermit(e, pid) \/ RecordStart(e, pid)
           \/ RecordWorkers(e, pid) \/ RecordInterruption(e, pid)
           \/ ClearPermit(e, pid) \/ ClearScratch(e)
           \/ \E outcome : RecordCompletion(e, pid, outcome)
    PROVE  JobAlone(RunOf[e]) /\ UNCHANGED owner
  <1>1. UNCHANGED owner
    BY DEF AttachPermit, RecordStart, RecordWorkers, RecordInterruption,
           ClearPermit, ClearScratch, RecordCompletion
  <1>2. \A q \in Run : q # RunOf[e] => control'[q] = control[q]
    BY DEF TypeOK, JobTypeOK, AttachPermit, RecordStart, RecordWorkers,
           RecordInterruption, ClearPermit, ClearScratch, RecordCompletion
  <1>3. \A f \in Execution : f # e => checkpoint'[f] = checkpoint[f]
    BY DEF TypeOK, JobTypeOK, AttachPermit, RecordStart, RecordWorkers,
           RecordInterruption, ClearPermit, ClearScratch, RecordCompletion
  <1>4. \A f \in Execution : f # e => recorded'[f] = recorded[f]
    BY DEF TypeOK, JobTypeOK, AttachPermit, RecordStart, RecordWorkers,
           RecordInterruption, ClearPermit, ClearScratch, RecordCompletion
  <1> QED
    BY <1>1, <1>2, <1>3, <1>4 DEF JobAlone

LEMMA KeptAlone == \A r \in Run : UNCHANGED jobVars => JobAlone(r)
  BY DEF JobAlone, jobVars, attemptVars

LEMMA SurvivorsAlone ==
    ASSUME NEW r \in Run, NEW S, ReplaceRecoveryWorkers(r, S)
    PROVE  JobAlone(r) /\ UNCHANGED <<control, owner, checkpoint>>
  BY DEF JobAlone, ReplaceRecoveryWorkers

\* Decisions and reconciliations take permits; a decision gives one to e.
LEMMA PermitsOfOthers ==
    ASSUME NEW e \in Execution,
           \/ \E granted : Decide(e, granted)
           \/ \E S : Reconcile(S)
           \/ UNCHANGED schedulerVars
    PROVE  \A f \in Execution : f # e => permit'[f] \in {permit[f], NoPermit}
  <1>1. CASE \E granted : Decide(e, granted)
    BY <1>1 DEF Decide
  <1>2. CASE \E S : Reconcile(S)
    BY <1>2 DEF Reconcile
  <1>3. CASE UNCHANGED schedulerVars
    BY <1>3 DEF schedulerVars
  <1> QED
    BY <1>1, <1>2, <1>3

LEMMA ReconcileTakes ==
    ASSUME NEW S, Reconcile(S)
    PROVE  \A f \in Execution : permit'[f] \in {permit[f], NoPermit}
  BY DEF Reconcile

LEMMA MainLocal ==
    ASSUME QuietInv, NEW r \in Run,
           \/ Start(r) \/ Launch(r) \/ Collect(r) \/ Acknowledge(r)
           \/ Prepare(r) \/ PrepareRefused(r) \/ Publish(r) \/ CloseOwner(r)
           \/ Close(r) \/ MainFault(r) \/ RecordFailure(r) \/ Disown(r)
    PROVE  Local(r) /\ UNCHANGED <<mainOnly, attemptVars>>
  <1>0. CoverInv /\ TypeOK
    BY DEF QuietInv, CoverInv
  <1>1. UNCHANGED mainOnly
    BY DEF Start, Launch, Collect, Acknowledge, Prepare, PrepareRefused, Publish,
           CloseOwner, Close, MainFault, RecordFailure, Disown
  <1>2. MainEffect(r)
    BY <1>0, MainHasEffect
  <1>3. \/ UNCHANGED jobVars
        \/ AcknowledgeStop(r) \/ RequestFailure(r) \/ FinishStop(r)
        \/ PreparePublication(r) \/ FinishPublication(r)
        \/ \E pid, state : ReplaceOwner(r, pid, state)
    BY DEF Start, Launch, Collect, Acknowledge, Prepare, PrepareRefused, Publish,
           CloseOwner, Close, MainFault, RecordFailure, Disown
  <1>4. JobAlone(r) /\ UNCHANGED attemptVars
    <2>1. CASE UNCHANGED jobVars
      BY <2>1, KeptAlone DEF jobVars, attemptVars
    <2>2. CASE ~ UNCHANGED jobVars
      BY <1>0, <1>3, <2>2, ControlAlone
    <2> QED
      BY <2>1, <2>2
  <1> QED
    BY <1>1, <1>2, <1>4 DEF Local, MainEffect, JobAlone, mainOnly, schedulerVars

LEMMA ProcessLocal ==
    ASSUME QuietInv, NEW r \in Run,
           Resume(r) \/ LauncherDies(r) \/ Register(r) \/ Vanish(r)
    PROVE  Local(r) /\ UNCHANGED <<attemptVars, schedulerVars, recovery>>
  <1>0. CoverInv /\ TypeOK
    BY DEF QuietInv, CoverInv
  <1>1. UNCHANGED <<schedulerVars, recovery>>
    BY DEF Resume, LauncherDies, Register, Vanish
  <1>2. ProcessEffect(r)
    BY <1>0, ProcessHasEffect
  <1>3. \/ UNCHANGED jobVars
        \/ BeginResume(r) \/ BeginPublicationResume(r)
        \/ \E pid, state : ReplaceOwner(r, pid, state)
    BY DEF Resume, LauncherDies, Register, Vanish
  <1>4. JobAlone(r) /\ UNCHANGED attemptVars
    <2>1. CASE UNCHANGED jobVars
      BY <2>1, KeptAlone DEF jobVars, attemptVars
    <2>2. CASE ~ UNCHANGED jobVars
      BY <1>0, <1>3, <2>2, ControlAlone
    <2> QED
      BY <2>1, <2>2
  <1> QED
    BY <1>1, <1>2, <1>4 DEF Local, ProcessEffect, JobAlone, schedulerVars

LEMMA StopLocal ==
    ASSUME QuietInv, NEW r \in Run, Stop(r) \/ CancelWaiters(r)
    PROVE  Local(r)
  <1>0. TypeOK
    BY DEF QuietInv, CoverInv
  <1>1. JobAlone(r)
    BY <1>0, ControlAlone, KeptAlone DEF Stop, CancelWaiters
  <1> QED
    BY <1>1 DEF Local, JobAlone, Stop, CancelWaiters, CancelRunWaiters, schedulerVars

LEMMA ThreadLocal ==
    ASSUME QuietInv, NEW e \in Execution,
           ThreadStep(e) \/ CommandEnds(e) \/ ThreadFault(e)
    PROVE  /\ Local(RunOf[e]) /\ UNCHANGED <<threadOnly, owner>>
           /\ \A f \in Execution : f # e =>
                 /\ thread'[f] = thread[f] /\ checkpoint'[f] = checkpoint[f]
                 /\ recorded'[f] = recorded[f]
                 /\ permit'[f] \in {permit[f], NoPermit}
  <1>0. TypeOK /\ RunOf[e] \in Run
    BY RunOfAssumption DEF QuietInv, CoverInv
  <1>1. UNCHANGED threadOnly
    BY DEF ThreadStep, Withdraw, GoOn, Poll, Attach, StartAttempt, Spawn,
           LaunchFails, RegisterWorkers, CommandEnds, Complete, Interrupt,
           ThreadFault, ReleaseGrant, ForgetPermit, ForgetScratch
  <1>2. \/ \E pid : \/ AttachPermit(e, pid) \/ RecordStart(e, pid)
                    \/ RecordWorkers(e, pid) \/ RecordInterruption(e, pid)
                    \/ ClearPermit(e, pid) \/ ClearScratch(e)
                    \/ \E outcome : RecordCompletion(e, pid, outcome)
        \/ UNCHANGED jobVars
    BY DEF ThreadStep, Withdraw, GoOn, Poll, Attach, StartAttempt, Spawn,
           LaunchFails, RegisterWorkers, CommandEnds, Complete, Interrupt,
           ThreadFault, ReleaseGrant, ForgetPermit, ForgetScratch
  <1>3. JobAlone(RunOf[e]) /\ UNCHANGED owner
    BY <1>0, <1>2, AttemptAlone, KeptAlone DEF jobVars
  <1>4. \A f \in Execution : f # e => thread'[f] = thread[f]
    BY <1>0
       DEF TypeOK, ProgramTypeOK, Step, ThreadStep, Withdraw, GoOn, Poll, Attach,
           StartAttempt, Spawn, LaunchFails, RegisterWorkers, CommandEnds,
           Complete, Interrupt, ThreadFault, ReleaseGrant, ForgetPermit,
           ForgetScratch
  <1>5. \A f \in Execution : f # e =>
           checkpoint'[f] = checkpoint[f] /\ recorded'[f] = recorded[f]
    <2>1. CASE UNCHANGED jobVars
      BY <2>1 DEF jobVars, attemptVars
    <2>2. ASSUME NEW pid, \/ AttachPermit(e, pid) \/ RecordStart(e, pid)
                          \/ RecordWorkers(e, pid) \/ RecordInterruption(e, pid)
                          \/ ClearPermit(e, pid) \/ ClearScratch(e)
                          \/ \E outcome : RecordCompletion(e, pid, outcome)
          PROVE  \A f \in Execution : f # e =>
                    checkpoint'[f] = checkpoint[f] /\ recorded'[f] = recorded[f]
      BY <1>0, <2>2
         DEF TypeOK, JobTypeOK, AttachPermit, RecordStart, RecordWorkers,
             RecordInterruption, ClearPermit, ClearScratch, RecordCompletion
    <2> QED
      BY <1>2, <2>1, <2>2
  <1>6. \A f \in Execution : f # e => permit'[f] \in {permit[f], NoPermit}
    <2>1. \/ \E granted : Decide(e, granted)
          \/ \E S : Reconcile(S)
          \/ UNCHANGED schedulerVars
      BY DEF ThreadStep, Withdraw, GoOn, Poll, Attach, StartAttempt, Spawn,
             LaunchFails, RegisterWorkers, CommandEnds, Complete, Interrupt,
             ThreadFault, ReleaseGrant, ForgetPermit, ForgetScratch
    <2> QED
      BY <2>1, PermitsOfOthers
  <1> QED
    BY <1>1, <1>3, <1>4, <1>5, <1>6 DEF Local, JobAlone, threadOnly

LEMMA RecoveryLocal ==
    ASSUME QuietInv, NEW r \in Run, RecoveryStep(r) \/ RecovererDies(r)
    PROVE  /\ Local(r) /\ UNCHANGED recoveryOnly
           /\ \A f \in Execution : permit'[f] \in {permit[f], NoPermit}
  <1>0. TypeOK /\ \A e \in ExecutionsOf(r) : e \in Execution /\ RunOf[e] = r
    BY DEF QuietInv, CoverInv, ExecutionsOf
  <1>1. UNCHANGED recoveryOnly
    BY DEF RecoveryStep, Scan, DeclareIntent, ReconcileAdmission, RecoverAttempt,
           RecoverGrant, RecoverOwner, RecoverControl, RecovererDies
  <1>2. \A q \in Run : q # r => recovery'[q] = recovery[q]
    <2>1. RecoveryEffect(r)
      BY RecoveryHasEffect DEF QuietInv
    <2> QED
      BY <2>1 DEF RecoveryEffect
  <1>3. \A f \in Execution : permit'[f] \in {permit[f], NoPermit}
    <2>1. UNCHANGED schedulerVars \/ \E S : Reconcile(S)
      BY DEF RecoveryStep, Scan, DeclareIntent, ReconcileAdmission, RecoverAttempt,
             RecoverGrant, RecoverOwner, RecoverControl, RecovererDies
    <2> QED
      BY <2>1, ReconcileTakes DEF schedulerVars
  <1>4. JobAlone(r)
    <2>1. CASE Scan(r)
      BY <2>1, SurvivorsAlone DEF Scan
    <2>2. CASE DeclareIntent(r)
      <3>1. CASE RequestFailure(r) \/ UNCHANGED jobVars
        BY <1>0, <3>1, ControlAlone, KeptAlone
      <3>2. CASE /\ control' = [control EXCEPT ![r].stop = TRUE,
                                               ![r].phase = "stopping"]
                 /\ UNCHANGED <<owner, attemptVars, journal>>
        BY <1>0, <3>2 DEF JobAlone, attemptVars, TypeOK, JobTypeOK
      <3> QED
        BY <2>2, <3>1, <3>2 DEF DeclareIntent
    <2>3. CASE RecoverOwner(r) \/ RecoverControl(r)
      BY <1>0, <2>3, ControlAlone DEF RecoverOwner, RecoverControl
    <2>4. CASE ReconcileAdmission(r) \/ RecovererDies(r)
      BY <2>4, KeptAlone DEF ReconcileAdmission, RecovererDies
    <2>5. ASSUME NEW e \in ExecutionsOf(r), RecoverGrant(e) PROVE JobAlone(r)
      BY <2>5, KeptAlone DEF RecoverGrant
    <2>6. ASSUME NEW e \in ExecutionsOf(r), RecoverAttempt(e) PROVE JobAlone(r)
      BY <1>0, <2>6, AttemptAlone DEF RecoverAttempt
    <2> QED
      BY <2>1, <2>2, <2>3, <2>4, <2>5, <2>6 DEF RecoveryStep
  <1> QED
    BY <1>1, <1>2, <1>3, <1>4 DEF Local, JobAlone, recoveryOnly

-----------------------------------------------------------------------------
(* Launching and ending supervisors *)

\* What the executions of r have before a step that leaves their rows alone.
LEMMA RestKept ==
    ASSUME NEW r \in Run, UNCHANGED attemptVars
    PROVE  /\ Quiescent(r)' <=> Quiescent(r)
           /\ WorkersRecorded(r)' <=> WorkersRecorded(r)
           /\ UNCHANGED <<checkpoint, recorded>>
  BY DEF attemptVars, Quiescent, Attached, WorkersRecorded, ExecutionsOf

\* A run that is being launched, and one that can be resumed, has no open work.
LEMMA LaunchedClear ==
    ASSUME QuietInv, NEW r \in Run, main[r] \in {"launching", "starting"}
    PROVE  \A e \in ExecutionsOf(r) : ~Open(e) /\ thread[e] = "none"
  BY RunIsGood DEF RunQuiet, Stages, Working, WorkQuiet, OpenWork

LEMMA ResumeQuiet ==
    ASSUME QuietInv, NEW r \in Run, Resume(r)
    PROVE  RunGood(r)'
  <1>0. /\ UNCHANGED <<attemptVars, schedulerVars, recovery, thread, owner>>
        /\ main[r] = "idle" /\ recovery[r].pc = "none"
        /\ Quiescent(r) /\ ~Active(r)
        /\ control[r].failure \in {"none", "publication"}
    BY RunIsGood
       DEF RunQuiet, Stages, Resume, ScopeFree, NoRecovery, BeginResume,
           BeginPublicationResume, Active
  <1>1. /\ main'[r] = "launching"
        /\ control'[r].status = "active" /\ control'[r].failure = "none"
    BY DEF Resume, Go, BeginResume, BeginPublicationResume, Reopened, QuietInv,
           CoverInv, TypeOK, ProgramTypeOK, JobTypeOK
  <1>2. \A e \in ExecutionsOf(r) : permit[e] = NoPermit
    BY <1>0, RunIsGood DEF WorkQuiet, Permits
  <1>3. \A e \in ExecutionsOf(r) : ~Open(e)'
    BY <1>0, <1>2 DEF Quiescent, Attached, WorkersRecorded, Open, attemptVars,
                      schedulerVars, ExecutionsOf
  <1>4. RunQuiet(r)'
    BY <1>0, <1>1, RestKept
       DEF RunQuiet, Stages, Owners, PoolEnded, Closings, Active
  <1>5. \A e \in ExecutionsOf(r) : WorkQuiet(e)'
    <2> TAKE e \in ExecutionsOf(r)
    <2>1. thread'[e] = "none" /\ permit'[e] = NoPermit
      BY <1>0, <1>2, RunIsGood DEF schedulerVars
    <2>2. checkpoint'[e].state # "active"
      BY <1>0 DEF Quiescent, attemptVars
    <2> QED
      BY <1>3, <2>1, <2>2 DEF WorkQuiet, OpenWork, Permits
  <1> QED
    BY <1>4, <1>5 DEF RunGood, ExecutionsOf

LEMMA RegisterQuiet ==
    ASSUME QuietInv, NEW r \in Run, Register(r)
    PROVE  RunGood(r)'
  <1>0. /\ UNCHANGED <<attemptVars, schedulerVars, recovery, thread, control>>
        /\ main[r] = "launching" /\ recovery[r].pc = "none"
        /\ Active(r) /\ control[r].failure = "none"
    BY RunIsGood
       DEF RunQuiet, Stages, Working, Register, ReplaceOwner
  <1>1. /\ main'[r] = "starting"
        /\ owner'[r].pid = supervisor'[r].pid
    BY DEF Register, Go, ReplaceOwner, QuietInv, CoverInv, TypeOK, ProgramTypeOK,
           JobTypeOK, SchedulerTypeOK
  <1>2. \A e \in ExecutionsOf(r) : ~Open(e) /\ thread[e] = "none"
    BY <1>0, LaunchedClear
  <1>3. RunQuiet(r)'
    BY <1>0, <1>1, RestKept, RunIsGood
       DEF RunQuiet, Stages, Owners, PoolEnded, Closings, Active
  <1>4. \A e \in ExecutionsOf(r) : WorkQuiet(e)'
    <2> TAKE e \in ExecutionsOf(r)
    <2>1. ~Open(e)' /\ thread'[e] = "none" /\ permit'[e] = NoPermit
      BY <1>0, <1>2 DEF Open, attemptVars, schedulerVars
    <2>2. checkpoint'[e].state # "active"
      BY <1>0, <1>2, RunIsGood DEF WorkQuiet, OpenWork, Open, attemptVars
    <2> QED
      BY <2>1, <2>2 DEF WorkQuiet, OpenWork, Permits
  <1> QED
    BY <1>3, <1>4 DEF RunGood, ExecutionsOf

LEMMA EndQuiet ==
    ASSUME QuietInv, NEW r \in Run, LauncherDies(r) \/ Vanish(r)
    PROVE  RunGood(r)'
  <1>0. /\ UNCHANGED <<jobVars, attemptVars, schedulerVars, recovery>>
        /\ \A e \in ExecutionsOf(r) : thread'[e] = "none"
    BY RunIsGood DEF LauncherDies, Vanish, jobVars, attemptVars, ExecutionsOf
  <1>1. main'[r] = "idle"
    BY DEF LauncherDies, Vanish, Go, QuietInv, CoverInv, TypeOK, ProgramTypeOK
  <1>2. UNCHANGED <<control, owner, checkpoint, recorded, permit>>
    BY <1>0 DEF jobVars, attemptVars, schedulerVars
  <1>3. RunQuiet(r)'
    BY <1>0, <1>1, <1>2, RestKept, RunIsGood
       DEF RunQuiet, Stages, Working, Owners, PoolEnded, Closings, Active
  <1>4. \A e \in ExecutionsOf(r) : WorkQuiet(e)'
    BY <1>0, <1>1, <1>2, RunIsGood
       DEF WorkQuiet, OpenWork, Permits, Open, Active
  <1> QED
    BY <1>3, <1>4 DEF RunGood, ExecutionsOf

-----------------------------------------------------------------------------
(* Main threads *)

\* A main thread at work: no error yet, no recovery, and open work is the
\* business of a thread or of the failure that is about to be recorded.
LEMMA MainAtWork ==
    ASSUME QuietInv, NEW r \in Run, main[r] \in Working
    PROVE  /\ Active(r) /\ control[r].failure = "none" /\ recovery[r].pc = "none"
           /\ \A e \in ExecutionsOf(r) : Open(e) =>
                 \/ thread[e] \in {"granted", "attached", "started", "spawned",
                                   "monitoring", "recorded", "released", "raised"}
                 \/ main[r] = "failing"
  <1>1. Active(r) /\ control[r].failure = "none"
    BY RunIsGood DEF RunQuiet, Stages
  <1>2. recovery[r].pc = "none" /\ main[r] # "idle"
    BY RunIsGood DEF Working
  <1> QED
    BY <1>1, <1>2, RunIsGood DEF WorkQuiet, OpenWork

\* An empty pool of a run without an error leaves no open work and no permit.
LEMMA PoolClear ==
    ASSUME QuietInv, NEW r \in Run, main[r] \in Working \ {"failing"},
           \A e \in ExecutionsOf(r) : thread[e] \in {"none", "pending"}
    PROVE  /\ \A e \in ExecutionsOf(r) : ~Open(e) /\ permit[e] = NoPermit
           /\ Quiescent(r)
  <1>1. \A e \in ExecutionsOf(r) : ~Open(e)
    BY MainAtWork
  <1>2. \A e \in ExecutionsOf(r) : checkpoint[e].state # "active"
    BY <1>1, RunIsGood DEF WorkQuiet, OpenWork, Open
  <1> QED
    BY <1>1, <1>2 DEF Open, Quiescent, Attached, WorkersRecorded

\* A step of the main thread that moves it and its threads and nothing else.
LEMMA MoveQuiet ==
    ASSUME QuietInv, NEW r \in Run, UNCHANGED <<jobVars, mainOnly>>,
           main[r] \in Working \ {"launching", "failing"},
           main'[r] \in Working \ {"launching", "starting", "closing"},
           PoolEnded(r)',
           \A e \in ExecutionsOf(r) :
              \/ thread'[e] = thread[e]
              \/ thread'[e] # "released" /\ (Open(e) => main'[r] = "failing")
    PROVE  RunGood(r)'
  <1>0. UNCHANGED <<control, owner, recovery, permit, supervisor, checkpoint,
                    recorded, attemptVars>>
    BY DEF jobVars, attemptVars, mainOnly, schedulerVars
  <1>1. RunQuiet(r)'
    BY <1>0, MainAtWork, RestKept, RunIsGood
       DEF RunQuiet, Stages, Working, Owners, Closings, Active
  <1>2. \A e \in ExecutionsOf(r) : WorkQuiet(e)'
    <2> TAKE e \in ExecutionsOf(r)
    <2>1. e \in Execution /\ RunOf[e] = r /\ WorkQuiet(e) /\ Open(e)' = Open(e)
      BY <1>0, RunIsGood DEF Open
    <2>2. OpenWork(e)'
      BY <1>0, <2>1, MainAtWork DEF WorkQuiet, OpenWork, Open
    <2>3. Permits(e)'
      BY <1>0, <2>1 DEF WorkQuiet, Permits, Active
    <2> QED
      BY <2>2, <2>3 DEF WorkQuiet
  <1> QED
    BY <1>1, <1>2 DEF RunGood, ExecutionsOf

LEMMA StartQuiet ==
    ASSUME QuietInv, NEW r \in Run, Start(r)
    PROVE  RunGood(r)'
  <1>0. UNCHANGED <<jobVars, mainOnly>> /\ main[r] = "starting"
    BY DEF Start
  <1>1. \A e \in ExecutionsOf(r) : ~Open(e) /\ thread[e] = "none"
    BY <1>0, LaunchedClear
  <1>2. \A e \in ExecutionsOf(r) : thread'[e] \in {"none", "pending"}
    BY <1>1, RunIsGood DEF Start
  <1>3. main'[r] \in {"preparing", "failing", "top"}
    BY DEF Start, Go, QuietInv, CoverInv, TypeOK, ProgramTypeOK
  <1>4. PoolEnded(r)'
    BY <1>2 DEF PoolEnded, Idle, ExecutionsOf
  <1> QED
    BY <1>0, <1>1, <1>2, <1>3, <1>4, MoveQuiet DEF Working

LEMMA LaunchQuiet ==
    ASSUME QuietInv, NEW r \in Run, Launch(r)
    PROVE  RunGood(r)'
  <1>0. UNCHANGED <<jobVars, mainOnly>> /\ main[r] = "top"
    BY DEF Launch
  <1>1. main'[r] = "waiting"
    BY DEF Launch, Go, QuietInv, CoverInv, TypeOK, ProgramTypeOK
  <1>2. PICK L \in Launchable(r) :
             thread' = [e \in Execution |-> IF e \in L THEN "checking" ELSE thread[e]]
    BY DEF Launch
  <1>3. \A e \in L : thread[e] = "pending"
    BY <1>2 DEF Launchable, Pending
  <1>4. \A e \in ExecutionsOf(r) :
              \/ thread'[e] = thread[e]
              \/ thread'[e] # "released" /\ (Open(e) => main'[r] = "failing")
    BY <1>0, <1>2, <1>3, MainAtWork, RunIsGood DEF Working
  <1>5. PoolEnded(r)'
    BY <1>1 DEF PoolEnded
  <1> QED
    BY <1>0, <1>1, <1>4, <1>5, MoveQuiet DEF Working

LEMMA CollectQuiet ==
    ASSUME QuietInv, NEW r \in Run, Collect(r)
    PROVE  RunGood(r)'
  <1>0. UNCHANGED <<jobVars, mainOnly>> /\ main[r] \in {"waiting", "draining"}
    BY DEF Collect
  <1>1. /\ main'[r] \in {"failing", "halting", "top"}
        /\ (\E e \in Ended(r) : thread[e] = "raised") => main'[r] = "failing"
    BY DEF Collect, Go, QuietInv, CoverInv, TypeOK, ProgramTypeOK
  <1>2. \A e \in ExecutionsOf(r) : thread'[e] = IF e \in Ended(r) THEN "none" ELSE thread[e]
    BY RunIsGood DEF Collect
  <1>3. \A e \in ExecutionsOf(r) :
              \/ thread'[e] = thread[e]
              \/ thread'[e] # "released" /\ (Open(e) => main'[r] = "failing")
    BY <1>0, <1>1, <1>2, MainAtWork DEF Working, Ended
  <1>4. PoolEnded(r)'
    BY <1>1 DEF PoolEnded
  <1> QED
    BY <1>0, <1>1, <1>3, <1>4, MoveQuiet DEF Working

LEMMA FailQuiet ==
    ASSUME QuietInv, NEW r \in Run, PrepareRefused(r) \/ MainFault(r)
    PROVE  RunGood(r)'
  <1>0. /\ UNCHANGED <<jobVars, mainOnly, thread>>
        /\ main[r] \in {"starting", "top", "preparing", "publishing"}
    BY DEF PrepareRefused, AtPublication, MainFault
  <1>1. main'[r] = "failing"
    BY DEF PrepareRefused, MainFault, Go, QuietInv, CoverInv, TypeOK, ProgramTypeOK
  <1>2. PoolEnded(r)'
    BY <1>1 DEF PoolEnded
  <1> QED
    BY <1>0, <1>1, <1>2, MoveQuiet DEF Working

\* Steps of the main thread that leave its threads and their work alone.
LEMMA WorkKept ==
    ASSUME QuietInv, NEW r \in Run, UNCHANGED <<mainOnly, thread, attemptVars>>
    PROVE  /\ \A e \in ExecutionsOf(r) :
                 /\ e \in Execution /\ RunOf[e] = r /\ WorkQuiet(e)
                 /\ Open(e)' <=> Open(e)
           /\ UNCHANGED <<recovery, supervisor, permit, checkpoint, recorded, thread>>
  <1>1. \A e \in ExecutionsOf(r) : e \in Execution /\ RunOf[e] = r /\ WorkQuiet(e)
    BY RunIsGood
  <1>2. UNCHANGED <<recovery, supervisor, permit, checkpoint, recorded, thread>>
    BY DEF mainOnly, schedulerVars, attemptVars
  <1> QED
    BY <1>1, <1>2 DEF Open

LEMMA AcknowledgeQuiet ==
    ASSUME QuietInv, NEW r \in Run, Acknowledge(r)
    PROVE  RunGood(r)'
  <1>0. /\ UNCHANGED <<mainOnly, thread, attemptVars, owner>>
        /\ main[r] \in {"top", "halting", "preparing"}
    BY DEF Acknowledge, AcknowledgeStop
  <1>1. /\ main'[r] = IF Running(r) # {} THEN "draining" ELSE "closing"
        /\ control'[r] = [control[r] EXCEPT !.phase = "stopping"]
    BY RunIsGood DEF Acknowledge, AcknowledgeStop, Go, QuietInv, CoverInv, TypeOK,
                     ProgramTypeOK, JobTypeOK
  <1>2. /\ Active(r) /\ control[r].failure = "none" /\ recovery[r].pc = "none"
    BY <1>0, MainAtWork DEF Working
  <1>3. /\ control'[r].status = "active" /\ control'[r].failure = "none"
        /\ control'[r].phase = "stopping"
    BY <1>1, <1>2, RunIsGood DEF Active, ControlType
  <1>4. PoolEnded(r)'
    BY <1>0, <1>1 DEF PoolEnded, Running, Idle, ExecutionsOf
  <1>5. RunQuiet(r)'
    BY <1>0, <1>1, <1>2, <1>3, <1>4, RestKept, WorkKept, RunIsGood
       DEF RunQuiet, Stages, Working, Owners, Closings, Active
  <1>6. \A e \in ExecutionsOf(r) : WorkQuiet(e)'
    <2> TAKE e \in ExecutionsOf(r)
    <2>1. /\ WorkQuiet(e) /\ RunOf[e] = r /\ (Open(e)' <=> Open(e))
          /\ UNCHANGED <<recovery, permit, checkpoint, thread>>
      BY <1>0, WorkKept
    <2>2. OpenWork(e)'
      BY <1>0, <1>1, <1>2, <1>3, <2>1, MainAtWork DEF WorkQuiet, OpenWork, Open, Working
    <2>3. Permits(e)'
      BY <1>0, <1>1, <1>2, <1>3, <2>1 DEF WorkQuiet, Permits, Active
    <2> QED
      BY <2>2, <2>3 DEF WorkQuiet
  <1> QED
    BY <1>5, <1>6 DEF RunGood, ExecutionsOf

LEMMA PrepareQuiet ==
    ASSUME QuietInv, NEW r \in Run, Prepare(r)
    PROVE  RunGood(r)'
  <1>0. /\ UNCHANGED <<mainOnly, thread, attemptVars, owner>>
        /\ main[r] \in {"top", "preparing"}
    BY DEF Prepare, PreparePublication, AtPublication
  <1>1. /\ main'[r] = "publishing"
        /\ \/ control' = control
           \/ control' = [control EXCEPT ![r].phase = "publishing"]
    BY DEF Prepare, PreparePublication, Go, QuietInv, CoverInv, TypeOK, ProgramTypeOK
  <1>2. /\ Active(r) /\ control[r].failure = "none" /\ recovery[r].pc = "none"
    BY <1>0, MainAtWork DEF Working
  <1>3. control'[r].status = "active" /\ control'[r].failure = "none"
    BY <1>1, <1>2, RunIsGood DEF Active, ControlType, QuietInv, CoverInv, TypeOK,
                                 JobTypeOK
  <1>4. \A e \in ExecutionsOf(r) : thread[e] \in {"none", "pending"}
    <2>1. CASE main[r] = "preparing"
      BY <1>2, <2>1, RunIsGood DEF RunQuiet, PoolEnded
    <2>2. CASE main[r] = "top"
      BY <2>2 DEF Prepare, AtPublication, Running
    <2> QED
      BY <1>0, <2>1, <2>2
  <1>5. \A e \in ExecutionsOf(r) : ~Open(e) /\ permit[e] = NoPermit
    BY <1>0, <1>4, PoolClear DEF Working
  <1>6. PoolEnded(r)'
    BY <1>0, <1>4 DEF PoolEnded, Idle, ExecutionsOf
  <1>7. RunQuiet(r)'
    BY <1>0, <1>1, <1>2, <1>3, <1>6, RestKept, WorkKept, RunIsGood
       DEF RunQuiet, Stages, Working, Owners, Closings, Active
  <1>8. \A e \in ExecutionsOf(r) : WorkQuiet(e)'
    BY <1>0, <1>5, WorkKept DEF WorkQuiet, OpenWork, Permits
  <1> QED
    BY <1>7, <1>8 DEF RunGood, ExecutionsOf

LEMMA PublishQuiet ==
    ASSUME QuietInv, NEW r \in Run, Publish(r)
    PROVE  RunGood(r)'
  <1>0. /\ UNCHANGED <<mainOnly, thread, attemptVars>>
        /\ main[r] = "publishing" /\ Quiescent(r)
    BY DEF Publish, FinishPublication
  <1>1. /\ main'[r] = "exiting"
        /\ control'[r] = [control[r] EXCEPT !.status = "complete", !.phase = "none"]
        /\ owner'[r] = [owner[r] EXCEPT !.state = "exited"]
    BY RunIsGood DEF Publish, FinishPublication, Go, QuietInv, CoverInv, TypeOK,
                     ProgramTypeOK, JobTypeOK
  <1>2. /\ control[r].failure = "none" /\ recovery[r].pc = "none"
        /\ control'[r].failure = "none" /\ control'[r].status = "complete"
        /\ owner'[r].pid = owner[r].pid /\ owner'[r].state = "exited"
    BY <1>0, <1>1, MainAtWork, RunIsGood DEF Working, ControlType
  <1>3. \A e \in ExecutionsOf(r) : thread[e] \in {"none", "pending"}
    BY <1>0, <1>2, RunIsGood DEF RunQuiet, PoolEnded
  <1>4. \A e \in ExecutionsOf(r) : ~Open(e) /\ permit[e] = NoPermit
    BY <1>0, <1>3, PoolClear DEF Working
  <1>5. PoolEnded(r)'
    BY <1>0, <1>3 DEF PoolEnded, Idle, ExecutionsOf
  <1>6. RunQuiet(r)'
    BY <1>0, <1>1, <1>2, <1>5, RestKept, WorkKept, RunIsGood
       DEF RunQuiet, Stages, Working, Owners, Closings, Active
  <1>7. \A e \in ExecutionsOf(r) : WorkQuiet(e)'
    BY <1>0, <1>4, WorkKept DEF WorkQuiet, OpenWork, Permits
  <1> QED
    BY <1>6, <1>7 DEF RunGood, ExecutionsOf

\* Giving up the ownership, of a run that is left quiescent.
LEMMA DisownedQuiet ==
    ASSUME QuietInv, NEW r \in Run, NEW state \in {"stopped", "exited"},
           UNCHANGED <<mainOnly, thread, attemptVars, control>>,
           owner'[r] = [pid |-> supervisor[r].pid, state |-> state],
           main[r] \in {"closing", "failed"}, main'[r] = "closed",
           Quiescent(r)
    PROVE  RunGood(r)'
  <1>1. /\ Active(r) /\ control[r].phase = "stopping" /\ recovery[r].pc = "none"
        /\ owner[r].pid = supervisor[r].pid
        /\ PoolEnded(r)
    BY RunIsGood DEF RunQuiet, Stages, Owners
  <1>2. main[r] = "closing" => control[r].failure = "none"
    BY MainAtWork DEF Working
  <1>3. main[r] = "failed" => control[r].failure # "none"
    BY RunIsGood DEF RunQuiet, Stages
  <1>4. PoolEnded(r)'
    BY <1>1 DEF PoolEnded, ExecutionsOf
  <1>5. RunQuiet(r)'
    BY <1>1, <1>4, RestKept, WorkKept, RunIsGood
       DEF RunQuiet, Stages, Working, Owners, Closings, Active
  <1>6. \A e \in ExecutionsOf(r) : WorkQuiet(e)'
    BY <1>1, <1>2, <1>3, WorkKept DEF WorkQuiet, OpenWork, Permits, Active
  <1> QED
    BY <1>5, <1>6 DEF RunGood, ExecutionsOf

LEMMA CloseOwnerQuiet ==
    ASSUME QuietInv, NEW r \in Run, CloseOwner(r)
    PROVE  RunGood(r)'
  <1>0. /\ UNCHANGED <<mainOnly, thread, attemptVars, control>>
        /\ main[r] = "closing"
    BY DEF CloseOwner, ReplaceOwner
  <1>1. /\ main'[r] = "closed"
        /\ owner'[r] = [pid |-> supervisor[r].pid, state |-> "stopped"]
    BY DEF CloseOwner, ReplaceOwner, Go, QuietInv, CoverInv, TypeOK, ProgramTypeOK,
           JobTypeOK
  <1>2. \A e \in ExecutionsOf(r) : thread[e] \in {"none", "pending"}
    BY <1>0, MainAtWork, RunIsGood DEF RunQuiet, PoolEnded, Working
  <1>3. Quiescent(r)
    BY <1>0, <1>2, PoolClear DEF Working
  <1> QED
    BY <1>0, <1>1, <1>3, DisownedQuiet

LEMMA DisownQuiet ==
    ASSUME QuietInv, NEW r \in Run, Disown(r)
    PROVE  RunGood(r)'
  <1>0. /\ UNCHANGED <<mainOnly, thread, attemptVars, control>>
        /\ main[r] = "failed"
    BY DEF Disown, ReplaceOwner, jobVars, attemptVars
  <1>1. CASE Attached(r) # {} \/ WorkersRecorded(r)
    <2>1. main'[r] = "exiting" /\ UNCHANGED owner
      BY <1>1 DEF Disown, jobVars, Go, QuietInv, CoverInv, TypeOK, ProgramTypeOK
    <2>2. /\ Active(r) /\ recovery[r].pc = "none" /\ control[r].failure # "none"
          /\ PoolEnded(r)
      BY <1>0, RunIsGood DEF RunQuiet, Stages
    <2>3. PoolEnded(r)'
      BY <1>0, <2>2 DEF PoolEnded, ExecutionsOf
    <2>4. RunQuiet(r)'
      BY <1>0, <2>1, <2>2, <2>3, RestKept, WorkKept, RunIsGood
         DEF RunQuiet, Stages, Working, Owners, Closings, Active
    <2>5. \A e \in ExecutionsOf(r) : WorkQuiet(e)'
      BY <1>0, <2>1, <2>2, WorkKept DEF WorkQuiet, OpenWork, Permits, Active
    <2> QED
      BY <2>4, <2>5 DEF RunGood, ExecutionsOf
  <1>2. CASE Attached(r) = {} /\ ~WorkersRecorded(r)
    <2>1. /\ main'[r] = "closed"
          /\ owner'[r] = [pid |-> supervisor[r].pid, state |-> "exited"]
      BY <1>2 DEF Disown, ReplaceOwner, Go, QuietInv, CoverInv, TypeOK,
                  ProgramTypeOK, JobTypeOK
    <2>2. Quiescent(r)
      BY <1>2, RunIsGood DEF Quiescent, Attached, WorkQuiet, OpenWork
    <2> QED
      BY <1>0, <2>1, <2>2, DisownedQuiet
  <1> QED
    BY <1>1, <1>2

LEMMA CloseQuiet ==
    ASSUME QuietInv, NEW r \in Run, Close(r)
    PROVE  RunGood(r)'
  <1>0. /\ UNCHANGED <<mainOnly, thread, attemptVars, owner>>
        /\ main[r] = "closed" /\ Quiescent(r)
    BY DEF Close, FinishStop
  <1>1. /\ main'[r] = "exiting"
        /\ control'[r] = [control[r] EXCEPT
              !.status = IF control[r].failure = "none" THEN "stopped" ELSE "failed",
              !.phase = "none"]
    BY RunIsGood DEF Close, FinishStop, Go, QuietInv, CoverInv, TypeOK,
                     ProgramTypeOK, JobTypeOK
  <1>2. /\ control'[r].status =
              IF control[r].failure = "none" THEN "stopped" ELSE "failed"
        /\ control'[r].phase = "none" /\ control'[r].failure = control[r].failure
        /\ recovery[r].pc = "none" /\ owner[r].state # "running"
    BY <1>0, <1>1, RunIsGood DEF ControlType, RunQuiet, Owners
  <1>3. PoolEnded(r) /\ PoolEnded(r)'
    BY <1>0, <1>1, <1>2, RunIsGood DEF RunQuiet, PoolEnded, ExecutionsOf
  <1>4. RunQuiet(r)'
    BY <1>0, <1>1, <1>2, <1>3, RestKept, WorkKept, RunIsGood
       DEF RunQuiet, Stages, Working, Owners, Closings, Active
  <1>5. ASSUME NEW e \in ExecutionsOf(r), permit[e] # NoPermit
        PROVE  control[r].failure # "none"
    BY <1>0, <1>3, <1>5, RunIsGood DEF PoolEnded, WorkQuiet, OpenWork, Open
  <1>6. \A e \in ExecutionsOf(r) : WorkQuiet(e)'
    <2> TAKE e \in ExecutionsOf(r)
    <2>1. /\ WorkQuiet(e) /\ RunOf[e] = r /\ (Open(e)' <=> Open(e))
          /\ UNCHANGED <<recovery, permit, checkpoint, thread>>
      BY <1>0, WorkKept
    <2>2. OpenWork(e)'
      BY <1>0, <1>1, <1>2, <1>5, <2>1 DEF WorkQuiet, OpenWork, Open, Working
    <2>3. Permits(e)'
      BY <1>0, <1>1, <1>2, <1>5, <2>1 DEF WorkQuiet, Permits, Active
    <2> QED
      BY <2>2, <2>3 DEF WorkQuiet
  <1> QED
    BY <1>4, <1>6 DEF RunGood, ExecutionsOf

LEMMA RecordFailureQuiet ==
    ASSUME QuietInv, NEW r \in Run, RecordFailure(r)
    PROVE  RunGood(r)'
  <1>0. /\ UNCHANGED <<mainOnly, thread, attemptVars, owner>>
        /\ main[r] = "failing"
        /\ \A e \in ExecutionsOf(r) : thread[e] \in Idle
    BY DEF RecordFailure, RequestFailure
  <1>1. /\ main'[r] = "failed"
        /\ control'[r] = [control[r] EXCEPT
              !.failure = IF control[r].phase = "publishing" THEN "publication"
                          ELSE "other",
              !.phase = "stopping"]
    BY RunIsGood DEF RecordFailure, RequestFailure, Go, QuietInv, CoverInv, TypeOK,
                     ProgramTypeOK, JobTypeOK
  <1>2. /\ Active(r) /\ control'[r].status = control[r].status
        /\ control'[r].phase = "stopping" /\ control'[r].failure # "none"
        /\ control'[r].failure = "publication" => control[r].phase = "publishing"
        /\ recovery[r].pc = "none"
    BY <1>0, <1>1, MainAtWork, RunIsGood DEF ControlType, Working
  <1>3. PoolEnded(r)'
    BY <1>0, <1>2 DEF PoolEnded, ExecutionsOf
  <1>4. RunQuiet(r)'
    BY <1>0, <1>1, <1>2, <1>3, RestKept, WorkKept, RunIsGood
       DEF RunQuiet, Stages, Working, Owners, Closings, Active
  <1>5. \A e \in ExecutionsOf(r) : WorkQuiet(e)'
    <2> TAKE e \in ExecutionsOf(r)
    <2>1. /\ WorkQuiet(e) /\ RunOf[e] = r /\ (Open(e)' <=> Open(e))
          /\ UNCHANGED <<recovery, permit, checkpoint, thread>>
      BY <1>0, WorkKept
    <2>2. OpenWork(e)'
      BY <1>0, <1>1, <1>2, <2>1 DEF WorkQuiet, OpenWork, Open, Working
    <2>3. Permits(e)'
      BY <1>0, <1>1, <1>2, <2>1 DEF WorkQuiet, Permits, Active
    <2> QED
      BY <2>2, <2>3 DEF WorkQuiet
  <1> QED
    BY <1>4, <1>5 DEF RunGood, ExecutionsOf

-----------------------------------------------------------------------------
(* Pool threads and commands *)

\* A thread that works has a main thread that works, and no recovery.
LEMMA ThreadAtWork ==
    ASSUME QuietInv, NEW e \in Execution, thread[e] \notin Idle
    PROVE  LET r == RunOf[e] IN
           /\ r \in Run /\ e \in ExecutionsOf(r)
           /\ main[r] \in {"top", "waiting", "halting", "draining", "failing"}
           /\ Active(r) /\ control[r].failure = "none" /\ recovery[r].pc = "none"
  <1> DEFINE r == RunOf[e]
  <1>1. r \in Run /\ e \in ExecutionsOf(r)
    BY RunOfAssumption DEF ExecutionsOf
  <1>2. /\ main[r] \in {"idle", "launching", "starting", "top", "waiting",
                         "halting", "draining", "preparing", "publishing",
                         "closing", "closed", "failing", "failed", "exiting"}
    BY <1>1 DEF QuietInv, CoverInv, TypeOK, ProgramTypeOK
  <1>3. main[r] \notin {"idle", "launching", "starting"}
    BY <1>1, RunIsGood DEF Idle
  <1>4. main[r] \notin {"preparing", "publishing", "closing", "closed", "failed",
                        "exiting"}
    BY <1>1, RunIsGood DEF RunQuiet, PoolEnded
  <1>5. main[r] \in {"top", "waiting", "halting", "draining", "failing"}
    BY <1>2, <1>3, <1>4
  <1>6. Active(r) /\ control[r].failure = "none" /\ recovery[r].pc = "none"
    BY <1>1, <1>5, MainAtWork DEF Working
  <1> QED
    BY <1>1, <1>5, <1>6

\* A step of e's thread leaves r's supervisor where it is; r goes on working.
LEMMA ThreadMovesQuiet ==
    ASSUME QuietInv, NEW e \in Execution, thread[e] \notin Idle,
           ThreadStep(e) \/ ThreadFault(e),
           control'[RunOf[e]].status = control[RunOf[e]].status,
           control'[RunOf[e]].failure = control[RunOf[e]].failure,
           control'[RunOf[e]].phase # "publishing" \/ UNCHANGED control,
           WorkQuiet(e)'
    PROVE  RunGood(RunOf[e])'
  <1> DEFINE r == RunOf[e]
  <1>1. /\ r \in Run /\ e \in ExecutionsOf(r)
        /\ main[r] \in {"top", "waiting", "halting", "draining", "failing"}
        /\ Active(r) /\ control[r].failure = "none" /\ recovery[r].pc = "none"
    BY ThreadAtWork
  <1>2. /\ UNCHANGED <<main, recovery, supervisor, owner>>
        /\ \A f \in Execution : f # e =>
                 /\ thread'[f] = thread[f] /\ checkpoint'[f] = checkpoint[f]
                 /\ recorded'[f] = recorded[f]
                 /\ permit'[f] \in {permit[f], NoPermit}
    BY ThreadLocal DEF threadOnly
  <1>3. RunQuiet(r)'
    BY <1>1, <1>2, RunIsGood
       DEF RunQuiet, Stages, Working, Owners, PoolEnded, Closings, Active
  <1>4. ASSUME NEW f \in ExecutionsOf(r), f # e PROVE WorkQuiet(f)'
    <2>1. /\ f \in Execution /\ RunOf[f] = r /\ WorkQuiet(f)
          /\ thread'[f] = thread[f] /\ checkpoint'[f] = checkpoint[f]
          /\ recorded'[f] = recorded[f]
          /\ permit'[f] \in {permit[f], NoPermit}
      BY <1>1, <1>2, <1>4, RunIsGood
    <2>2. OpenWork(f)'
      BY <1>2, <2>1 DEF WorkQuiet, OpenWork, Open
    <2>3. Permits(f)'
      BY <1>1, <1>2, <2>1 DEF WorkQuiet, Permits, Active
    <2> QED
      BY <2>2, <2>3 DEF WorkQuiet
  <1> QED
    BY <1>3, <1>4 DEF RunGood, ExecutionsOf

\* Steps that leave the job alone.
LEMMA UnrecordedQuiet ==
    ASSUME QuietInv, NEW e \in Execution,
           Withdraw(e) \/ GoOn(e) \/ Poll(e) \/ Spawn(e) \/ ReleaseGrant(e)
           \/ ThreadFault(e)
    PROVE  RunGood(RunOf[e])'
  <1> DEFINE r == RunOf[e]
  <1>0. /\ UNCHANGED <<control, owner, checkpoint, recorded, main, recovery>>
        /\ thread[e] \notin Idle /\ r \in Run
        /\ thread = [f \in Execution |-> thread[f]]
    BY RunOfAssumption
       DEF Withdraw, GoOn, Poll, Spawn, ReleaseGrant, ThreadFault, Idle, jobVars,
           attemptVars, threadOnly, QuietInv, CoverInv, TypeOK, ProgramTypeOK
  <1>1. /\ main[r] \in {"top", "waiting", "halting", "draining", "failing"}
        /\ Active(r) /\ control[r].failure = "none" /\ recovery[r].pc = "none"
        /\ WorkQuiet(e)
    BY <1>0, ThreadAtWork DEF QuietInv
  <1>2. ASSUME UNCHANGED permit,
               \/ thread[e] \in {"checking", "polling"} /\ thread'[e] # "released"
               \/ thread'[e] \in {"spawned", "raised"}
        PROVE  WorkQuiet(e)'
    BY <1>0, <1>1, <1>2 DEF WorkQuiet, OpenWork, Open, Permits, Active
  <1>3. ASSUME GoOn(e) \/ Spawn(e) \/ ThreadFault(e) PROVE WorkQuiet(e)'
    BY <1>0, <1>2, <1>3 DEF GoOn, Spawn, ThreadFault, Step, schedulerVars
  <1>4. ASSUME Withdraw(e) PROVE WorkQuiet(e)'
    <2>1. thread'[e] \in {"raised", "stopped"} /\ thread[e] = "checking"
      BY <1>0, <1>4 DEF Withdraw, Step
    <2>2. permit'[e] \in {permit[e], NoPermit}
      BY <1>4, ReconcileTakes DEF Withdraw, schedulerVars
    <2> QED
      BY <1>0, <1>1, <2>1, <2>2 DEF WorkQuiet, OpenWork, Open, Permits, Active
  <1>5. ASSUME ReleaseGrant(e) PROVE WorkQuiet(e)'
    <2>1. CASE ReconcileRefused(e) \/ ~Forgets(e)
      BY <1>0, <1>2, <1>5, <2>1 DEF ReleaseGrant, Step, schedulerVars
    <2>2. CASE ~(ReconcileRefused(e) \/ ~Forgets(e))
      <3>1. thread'[e] = "released" /\ permit'[e] = NoPermit
        BY <1>0, <1>5, <2>2 DEF ReleaseGrant, Step, Reconcile
      <3> QED
        BY <1>0, <1>1, <3>1 DEF WorkQuiet, OpenWork, Permits
    <2> QED
      BY <2>1, <2>2
  <1>6. ASSUME Poll(e) PROVE WorkQuiet(e)'
    <2>1. CASE PollRefused(e)
      BY <1>0, <1>2, <1>6, <2>1 DEF Poll, Step, schedulerVars
    <2>2. CASE ~PollRefused(e) /\ ~Grantable(e)
      <3>1. thread'[e] = "checking" /\ thread[e] = "polling"
            /\ permit'[e] \in {permit[e], NoPermit}
        BY <1>0, <1>6, <2>2 DEF Poll, Step, Decide
      <3> QED
        BY <1>0, <1>1, <3>1 DEF WorkQuiet, OpenWork, Open, Permits, Active
    <2>3. CASE ~PollRefused(e) /\ Grantable(e)
      <3>1. thread'[e] = "granted" /\ permit'[e] = Requester(e)
        BY <1>0, <1>6, <2>3 DEF Poll, Step, Decide
      <3>2. owner[r].pid = Requester(e) /\ control[r].phase # "publishing"
        BY <2>3 DEF PollRefused, Admitting
      <3> QED
        BY <1>0, <1>1, <3>1, <3>2 DEF WorkQuiet, OpenWork, Permits, Active
    <2> QED
      BY <2>1, <2>2, <2>3
  <1>7. WorkQuiet(e)'
    BY <1>3, <1>4, <1>5, <1>6
  <1> QED
    BY <1>0, <1>7, ThreadMovesQuiet DEF ThreadStep

\* Steps that record in the job, or fail to.
LEMMA RecordedQuiet ==
    ASSUME QuietInv, NEW e \in Execution,
           \/ Attach(e) \/ StartAttempt(e) \/ LaunchFails(e) \/ RegisterWorkers(e)
           \/ Complete(e) \/ Interrupt(e) \/ ForgetPermit(e) \/ ForgetScratch(e)
    PROVE  RunGood(RunOf[e])'
  <1> DEFINE r == RunOf[e]
  <1>0. /\ UNCHANGED <<owner, permit, main, recovery>>
        /\ thread[e] \in {"granted", "attached", "started", "spawned",
                          "monitoring", "recorded", "released", "cleared"}
        /\ r \in Run /\ checkpoint[e] \in CheckpointType
        /\ control[r] \in ControlType
        /\ TypeOK
        /\ thread = [f \in Execution |-> thread[f]]
    <2>1. UNCHANGED <<owner, main, recovery>>
      BY ThreadLocal DEF ThreadStep, threadOnly
    <2>2. UNCHANGED permit
      BY DEF Attach, StartAttempt, LaunchFails, RegisterWorkers, Complete,
             Interrupt, ForgetPermit, ForgetScratch, schedulerVars
    <2>3. thread[e] \in {"granted", "attached", "started", "spawned",
                         "monitoring", "recorded", "released", "cleared"}
      BY DEF Attach, StartAttempt, LaunchFails, RegisterWorkers, Complete,
             Interrupt, ForgetPermit, ForgetScratch
    <2> QED
      BY <2>1, <2>2, <2>3, RunOfAssumption
         DEF QuietInv, CoverInv, TypeOK, JobTypeOK, ProgramTypeOK
  <1>1. /\ main[r] \in {"top", "waiting", "halting", "draining", "failing"}
        /\ Active(r) /\ control[r].failure = "none" /\ recovery[r].pc = "none"
        /\ WorkQuiet(e) /\ thread[e] \notin Idle
    BY <1>0, ThreadAtWork DEF QuietInv, Idle
  <1>2. /\ control'[r].status = control[r].status
        /\ control'[r].failure = control[r].failure
        /\ control'[r].phase # "publishing" \/ UNCHANGED control
    <2>1. UNCHANGED control
          \/ control' = [control EXCEPT ![r].phase = "executing"]
      BY DEF Attach, StartAttempt, LaunchFails, RegisterWorkers, Complete,
             Interrupt, ForgetPermit, ForgetScratch, jobVars, AttachPermit,
             RecordStart, RecordWorkers, RecordCompletion, RecordInterruption,
             ClearPermit, ClearScratch
    <2> QED
      BY <1>0, <2>1 DEF TypeOK, JobTypeOK, ControlType
  <1>3. /\ checkpoint'[e].state = "active" => checkpoint'[e].permit # NoPermit
    <2>1. Requester(e) # NoPermit
      <3>1. CoverInv /\ thread[e] # "none"
        BY <1>1 DEF QuietInv, Idle
      <3> QED
        BY <3>1, ThreadOwner DEF NoPermit
    <2> QED
      BY <1>0, <1>1, <2>1
         DEF Attach, StartAttempt, LaunchFails, RegisterWorkers, Complete,
             Interrupt, ForgetPermit, ForgetScratch, jobVars, attemptVars,
             AttachPermit, RecordStart, RecordWorkers, RecordCompletion,
             RecordInterruption, ClearPermit, ClearScratch, CheckpointType,
             WorkQuiet, OpenWork, TypeOK, JobTypeOK
  <1>4. CASE thread'[e] \in {"attached", "started", "monitoring", "recorded", "raised"}
    <2>1. OpenWork(e)'
      BY <1>3, <1>4 DEF OpenWork
    <2>2. Permits(e)'
      BY <1>0, <1>1, <1>2 DEF WorkQuiet, Permits, Active
    <2>3. ThreadStep(e)
      BY DEF ThreadStep
    <2> QED
      BY <1>1, <1>2, <2>1, <2>2, <2>3, ThreadMovesQuiet DEF WorkQuiet
  <1>5. CASE ForgetPermit(e)
    <2>1. /\ thread'[e] = "cleared" /\ permit[e] = NoPermit
          /\ checkpoint'[e].permit = NoPermit /\ recorded'[e] # "running"
      BY <1>0, <1>1, <1>5
         DEF ForgetPermit, ClearPermit, Step, WorkQuiet, OpenWork, TypeOK, JobTypeOK,
             CheckpointType
    <2>2. WorkQuiet(e)'
      BY <1>0, <1>3, <2>1 DEF WorkQuiet, OpenWork, Open, Permits
    <2> QED
      BY <1>1, <1>2, <1>5, <2>2, ThreadMovesQuiet DEF ThreadStep
  <1>6. CASE ForgetScratch(e)
    <2>1. /\ thread'[e] \in {"finished", "stopped"} /\ thread[e] = "cleared"
          /\ checkpoint'[e].permit = checkpoint[e].permit
          /\ recorded'[e] = recorded[e]
      BY <1>0, <1>6
         DEF ForgetScratch, ClearScratch, Step, TypeOK, JobTypeOK, CheckpointType
    <2>2. WorkQuiet(e)'
      BY <1>0, <1>1, <1>2, <1>3, <2>1 DEF WorkQuiet, OpenWork, Open, Permits, Active
    <2> QED
      BY <1>1, <1>2, <1>6, <2>2, ThreadMovesQuiet DEF ThreadStep
  <1>7. \/ ForgetPermit(e) \/ ForgetScratch(e)
        \/ thread'[e] \in {"attached", "started", "monitoring", "recorded", "raised"}
    BY <1>0 DEF Attach, StartAttempt, LaunchFails, RegisterWorkers, Complete,
                Interrupt, Step
  <1> QED
    BY <1>4, <1>5, <1>6, <1>7

\* A command that ends tells nobody.
LEMMA CommandEndQuiet ==
    ASSUME QuietInv, NEW e \in Execution, CommandEnds(e)
    PROVE  RunGood(RunOf[e])'
  <1>0. UNCHANGED <<control, owner, checkpoint, recorded, permit, thread, main,
                    recovery, supervisor, attemptVars>>
        /\ RunOf[e] \in Run
    BY RunOfAssumption
       DEF CommandEnds, jobVars, attemptVars, schedulerVars, threadOnly
  <1>1. RunQuiet(RunOf[e])'
    BY <1>0, RunIsGood, RestKept
       DEF RunQuiet, Stages, Owners, PoolEnded, Closings, Active, ExecutionsOf
  <1>2. \A f \in ExecutionsOf(RunOf[e]) : WorkQuiet(f)'
    BY <1>0, RunIsGood DEF WorkQuiet, OpenWork, Open, Permits, Active
  <1> QED
    BY <1>1, <1>2 DEF RunGood, ExecutionsOf

-----------------------------------------------------------------------------
(* Stop commands and recoveries *)

LEMMA StopQuiet ==
    ASSUME QuietInv, NEW r \in Run, Stop(r) \/ CancelWaiters(r)
    PROVE  RunGood(r)'
  <1>1. /\ UNCHANGED <<owner, main, thread, recovery, supervisor, permit, attemptVars>>
        /\ \/ UNCHANGED control
           \/ control' = [control EXCEPT ![r].stop = TRUE]
    BY DEF Stop, RequestStop, CancelWaiters, CancelRunWaiters, schedulerVars,
           jobVars, attemptVars
  <1>2. UNCHANGED <<checkpoint, recorded>>
    BY <1>1 DEF attemptVars
  <1>3. /\ control'[r].status = control[r].status
        /\ control'[r].phase = control[r].phase
        /\ control'[r].failure = control[r].failure
    BY <1>1, RunIsGood DEF ControlType, QuietInv, CoverInv, TypeOK, JobTypeOK
  <1>4. RunQuiet(r)'
    BY <1>1, <1>2, <1>3, RunIsGood, RestKept
       DEF RunQuiet, Stages, Owners, PoolEnded, Closings, Active, ExecutionsOf
  <1>5. \A e \in ExecutionsOf(r) : WorkQuiet(e)'
    <2> TAKE e \in ExecutionsOf(r)
    <2>1. WorkQuiet(e) /\ RunOf[e] = r
      BY RunIsGood
    <2>2. OpenWork(e)' /\ Permits(e)'
      BY <1>1, <1>2, <1>3, <2>1 DEF WorkQuiet, OpenWork, Open, Permits, Active
    <2> QED
      BY <2>2 DEF WorkQuiet
  <1> QED
    BY <1>4, <1>5 DEF RunGood, ExecutionsOf

\* While a run is recovered, or looked at, its main thread is gone and work may
\* be open.  What a step of the recovery has to keep of an execution is this.
RestQuiet(e) ==
    /\ checkpoint[e].state = "active" => checkpoint[e].permit # NoPermit
    /\ Permits(e)

\* A recovery leaves the processes of the run's supervisor alone: there are none.
LEMMA RecoveryIdle ==
    ASSUME QuietInv, NEW r \in Run, RecoveryStep(r) \/ RecovererDies(r)
    PROVE  /\ main[r] = "idle" /\ main'[r] = "idle"
           /\ RecoveryStep(r) => Active(r)
           /\ UNCHANGED <<main, thread, supervisor>>
           /\ \A e \in ExecutionsOf(r) :
                 /\ e \in Execution /\ RunOf[e] = r /\ RestQuiet(e)
                 /\ thread[e] = "none" /\ checkpoint[e] \in CheckpointType
                 /\ permit'[e] \in {permit[e], NoPermit}
  <1>1. UNCHANGED <<main, thread, supervisor>>
    BY RecoveryLocal DEF recoveryOnly
  <1>2. main[r] = "idle" /\ (RecoveryStep(r) => Active(r))
    <2>1. recovery[r].pc # "none" => main[r] = "idle" /\ Active(r)
      BY RunIsGood DEF RunQuiet, Stages
    <2>2. CASE Scan(r)
      BY <2>2 DEF Scan, ScopeFree
    <2>3. CASE RecovererDies(r) /\ ~RecoveryStep(r)
      BY <2>3 DEF RecovererDies, QuietInv, CoverInv, RecoveriesAlone
    <2>4. \A e \in ExecutionsOf(r) : RunOf[e] = r
      BY DEF ExecutionsOf
    <2> QED
      BY <2>1, <2>2, <2>3, <2>4
         DEF RecoveryStep, DeclareIntent, ReconcileAdmission, RecoverAttempt,
             RecoverGrant, RecoverOwner, RecoverControl, Recovering
  <1>3. \A e \in ExecutionsOf(r) :
                 /\ e \in Execution /\ RunOf[e] = r /\ RestQuiet(e)
                 /\ thread[e] = "none" /\ checkpoint[e] \in CheckpointType
                 /\ permit'[e] \in {permit[e], NoPermit}
    BY <1>2, RunIsGood, RecoveryLocal DEF RestQuiet, WorkQuiet, OpenWork
  <1> QED
    BY <1>1, <1>2, <1>3

LEMMA ScanQuiet ==
    ASSUME QuietInv, NEW r \in Run, Scan(r)
    PROVE  RunGood(r)'
  <1>0. /\ main[r] = "idle" /\ main'[r] = "idle" /\ Active(r)
        /\ UNCHANGED <<main, thread, supervisor, control, owner, checkpoint, permit>>
        /\ \A e \in ExecutionsOf(r) :
              /\ e \in Execution /\ RunOf[e] = r /\ RestQuiet(e)
              /\ thread[e] = "none"
    BY RecoveryIdle DEF RecoveryStep, Scan, ReplaceRecoveryWorkers, schedulerVars
  <1>1. /\ recovery[r].pc = "none"
        /\ \/ UNCHANGED recovery
           \/ recovery'[r].pc = "scanned" /\ Live(r) = {}
    BY DEF Scan, ScopeFree, NoRecovery, QuietInv, CoverInv, TypeOK, ProgramTypeOK
  <1>2. Live(r) = {} => ~WorkersRecorded(r)'
    BY <1>0 DEF Scan, ReplaceRecoveryWorkers, WorkersRecorded, WorkersExited,
                ExecutionsOf
  <1>3. RunQuiet(r)'
    BY <1>0, <1>1, <1>2, RunIsGood
       DEF RunQuiet, Stages, Working, Owners, PoolEnded, Closings, Active
  <1>4. \A e \in ExecutionsOf(r) : RestQuiet(e)'
    BY <1>0, <1>1 DEF RestQuiet, Permits, Active
  <1> QED
    BY <1>0, <1>3, <1>4 DEF RunGood, ExecutionsOf, WorkQuiet, OpenWork, RestQuiet

LEMMA DeclareQuiet ==
    ASSUME QuietInv, NEW r \in Run, DeclareIntent(r)
    PROVE  RunGood(r)'
  <1>0. /\ main[r] = "idle" /\ main'[r] = "idle" /\ Active(r)
        /\ UNCHANGED <<main, thread, supervisor, owner, attemptVars, permit>>
        /\ \A e \in ExecutionsOf(r) :
              /\ e \in Execution /\ RunOf[e] = r /\ RestQuiet(e)
              /\ thread[e] = "none"
    BY RecoveryIdle DEF RecoveryStep, DeclareIntent, RequestFailure, schedulerVars,
       jobVars, attemptVars
  <1>1. recovery[r].pc = "scanned" /\ recovery'[r].pc = "admitting"
    BY DEF DeclareIntent, Recovering, Continue, QuietInv, CoverInv, TypeOK,
           ProgramTypeOK
  <1>2. /\ control'[r].status = "active" /\ control'[r].phase = "stopping"
        /\ control'[r].failure = "publication" =>
              control[r].failure = "publication" \/ control[r].phase = "publishing"
    BY <1>0, RunIsGood
       DEF DeclareIntent, RequestFailure, ControlType, QuietInv, CoverInv, TypeOK,
           JobTypeOK, jobVars, Active
  <1>3. RunQuiet(r)'
    BY <1>0, <1>1, <1>2, RunIsGood, RestKept
       DEF RunQuiet, Stages, Working, Owners, PoolEnded, Closings, Active
  <1>4. \A e \in ExecutionsOf(r) : RestQuiet(e)'
    BY <1>0, <1>1, <1>2 DEF RestQuiet, Permits, Active, attemptVars
  <1> QED
    BY <1>0, <1>3, <1>4 DEF RunGood, ExecutionsOf, WorkQuiet, OpenWork, RestQuiet

\* Reconciliation leaves no permit that the job does not know of.
LEMMA AdmissionQuiet ==
    ASSUME QuietInv, NEW r \in Run, ReconcileAdmission(r)
    PROVE  RunGood(r)'
  <1>0. /\ main[r] = "idle" /\ main'[r] = "idle" /\ Active(r)
        /\ UNCHANGED <<main, thread, supervisor, owner, attemptVars, control>>
        /\ \A e \in ExecutionsOf(r) :
              /\ e \in Execution /\ RunOf[e] = r /\ RestQuiet(e)
              /\ thread[e] = "none" /\ permit'[e] \in {permit[e], NoPermit}
    BY RecoveryIdle DEF RecoveryStep, ReconcileAdmission, jobVars, attemptVars
  <1>1. recovery[r].pc = "admitting" /\ recovery'[r].pc = "attempts"
    BY DEF ReconcileAdmission, Recovering, Continue, QuietInv, CoverInv, TypeOK,
           ProgramTypeOK
  <1>2. control[r].phase = "stopping"
    BY <1>1, RunIsGood DEF RunQuiet, Stages
  <1>3. \A e \in ExecutionsOf(r) :
           checkpoint[e].permit = NoPermit => permit'[e] = NoPermit
    BY <1>0, <1>2 DEF ReconcileAdmission, Reconcile, Holding, Stale
  <1>4. RunQuiet(r)'
    BY <1>0, <1>1, <1>2, RunIsGood, RestKept
       DEF RunQuiet, Stages, Working, Owners, PoolEnded, Closings, Active
  <1>5. \A e \in ExecutionsOf(r) : RestQuiet(e)'
    BY <1>0, <1>1, <1>2, <1>3 DEF RestQuiet, Permits, Active, attemptVars
  <1> QED
    BY <1>0, <1>4, <1>5 DEF RunGood, ExecutionsOf, WorkQuiet, OpenWork, RestQuiet

LEMMA RecoverGrantQuiet ==
    ASSUME QuietInv, NEW r \in Run, NEW e \in ExecutionsOf(r), RecoverGrant(e)
    PROVE  RunGood(r)'
  <1>0. /\ main[r] = "idle" /\ main'[r] = "idle" /\ Active(r)
        /\ UNCHANGED <<main, thread, supervisor, owner, attemptVars, control, recovery>>
        /\ \A f \in ExecutionsOf(r) :
              /\ f \in Execution /\ RunOf[f] = r /\ RestQuiet(f)
              /\ thread[f] = "none" /\ permit'[f] \in {permit[f], NoPermit}
    BY RecoveryIdle DEF RecoveryStep, RecoverGrant, jobVars, attemptVars
  <1>1. RunQuiet(r)'
    BY <1>0, RunIsGood, RestKept
       DEF RunQuiet, Stages, Working, Owners, PoolEnded, Closings, Active
  <1>2. \A f \in ExecutionsOf(r) : RestQuiet(f)'
    BY <1>0 DEF RestQuiet, Permits, Active, attemptVars
  <1> QED
    BY <1>0, <1>1, <1>2 DEF RunGood, ExecutionsOf, WorkQuiet, OpenWork, RestQuiet

LEMMA RecoverAttemptQuiet ==
    ASSUME QuietInv, NEW r \in Run, NEW e \in ExecutionsOf(r), RecoverAttempt(e)
    PROVE  RunGood(r)'
  <1>0. /\ main[r] = "idle" /\ main'[r] = "idle" /\ Active(r)
        /\ UNCHANGED <<main, thread, supervisor, owner, permit, control, recovery>>
        /\ \A f \in ExecutionsOf(r) :
              /\ f \in Execution /\ RunOf[f] = r /\ RestQuiet(f)
              /\ thread[f] = "none" /\ checkpoint[f] \in CheckpointType
        /\ checkpoint \in [Execution -> CheckpointType]
        /\ recorded \in [Execution -> {"none", "running", "exited"}]
    BY RecoveryIdle
       DEF RecoveryStep, RecoverAttempt, RecordInterruption, ClearPermit, ClearScratch,
           schedulerVars, QuietInv, CoverInv, TypeOK, JobTypeOK
  <1>1. recovery[r].pc = "attempts" /\ control[r].phase = "stopping"
    BY <1>0, RunIsGood DEF RecoverAttempt, Recovering, RunQuiet, Stages
  <1>2. /\ \A f \in ExecutionsOf(r) : recorded'[f] = "running" => recorded[f] = "running"
        /\ \A f \in ExecutionsOf(r) : f # e => checkpoint'[f] = checkpoint[f]
    BY <1>0
       DEF RecoverAttempt, RecordInterruption, ClearPermit, ClearScratch, WorkersExited
  <1>3. /\ checkpoint'[e].state = checkpoint[e].state \/ checkpoint'[e].state = "stopped"
        /\ \/ checkpoint'[e].permit = checkpoint[e].permit
           \/ permit[e] = NoPermit /\ checkpoint[e].state # "active"
    BY <1>0
       DEF RecoverAttempt, RecordInterruption, ClearPermit, ClearScratch,
           CheckpointType, Holding
  <1>4. ~WorkersRecorded(r)'
    BY <1>1, <1>2, RunIsGood DEF RunQuiet, Closings, WorkersRecorded, ExecutionsOf
  <1>5. RunQuiet(r)'
    BY <1>0, <1>1, <1>4, RunIsGood
       DEF RunQuiet, Stages, Working, Owners, PoolEnded, Closings, Active
  <1>6. \A f \in ExecutionsOf(r) : RestQuiet(f)'
    BY <1>0, <1>2, <1>3 DEF RestQuiet, Permits, Active
  <1> QED
    BY <1>0, <1>5, <1>6 DEF RunGood, ExecutionsOf, WorkQuiet, OpenWork, RestQuiet

LEMMA RecoverOwnerQuiet ==
    ASSUME QuietInv, NEW r \in Run, RecoverOwner(r)
    PROVE  RunGood(r)'
  <1>0. /\ main[r] = "idle" /\ main'[r] = "idle" /\ Active(r)
        /\ UNCHANGED <<main, thread, supervisor, permit, attemptVars, control>>
        /\ \A e \in ExecutionsOf(r) :
              /\ e \in Execution /\ RunOf[e] = r /\ RestQuiet(e)
              /\ thread[e] = "none"
    BY RecoveryIdle DEF RecoveryStep, RecoverOwner, ReplaceOwner, schedulerVars
  <1>1. recovery[r].pc = "attempts" /\ recovery'[r].pc = "owned"
    BY DEF RecoverOwner, Recovering, Continue, QuietInv, CoverInv, TypeOK,
           ProgramTypeOK
  <1>2. owner'[r].pid = owner[r].pid /\ owner'[r].state \in {"exited", "stopped"}
    BY DEF RecoverOwner, ReplaceOwner, QuietInv, CoverInv, TypeOK, JobTypeOK
  <1>3. Quiescent(r) /\ control[r].phase = "stopping"
    BY <1>1, RunIsGood
       DEF RecoverOwner, Quiescent, Attached, RunQuiet, Closings, Stages
  <1>4. RunQuiet(r)'
    BY <1>0, <1>1, <1>2, <1>3, RunIsGood, RestKept
       DEF RunQuiet, Stages, Working, Owners, PoolEnded, Closings, Active
  <1>5. \A e \in ExecutionsOf(r) : RestQuiet(e)'
    BY <1>0, <1>1, <1>2 DEF RestQuiet, Permits, Active, attemptVars
  <1> QED
    BY <1>0, <1>4, <1>5 DEF RunGood, ExecutionsOf, WorkQuiet, OpenWork, RestQuiet

LEMMA RecoverControlQuiet ==
    ASSUME QuietInv, NEW r \in Run, RecoverControl(r)
    PROVE  RunGood(r)'
  <1>0. /\ main[r] = "idle" /\ main'[r] = "idle" /\ Active(r)
        /\ UNCHANGED <<main, thread, supervisor, permit, attemptVars, owner>>
        /\ Quiescent(r)
        /\ \A e \in ExecutionsOf(r) :
              /\ e \in Execution /\ RunOf[e] = r /\ RestQuiet(e)
              /\ thread[e] = "none"
    BY RecoveryIdle DEF RecoveryStep, RecoverControl, FinishStop, schedulerVars
  <1>1. recovery[r].pc = "owned" /\ recovery'[r].pc = "none"
    BY DEF RecoverControl, Recovering, NoRecovery, QuietInv, CoverInv, TypeOK,
           ProgramTypeOK
  <1>2. /\ control'[r].status =
              IF control[r].failure = "none" THEN "stopped" ELSE "failed"
        /\ control'[r].phase = "none" /\ control'[r].failure = control[r].failure
    BY RunIsGood DEF RecoverControl, FinishStop, ControlType, QuietInv, CoverInv,
                     TypeOK, JobTypeOK
  <1>3. owner[r].state # "running"
    BY <1>1, RunIsGood DEF RunQuiet, Owners
  <1>4. \A e \in ExecutionsOf(r) : permit[e] = NoPermit
    BY <1>0, <1>1 DEF RestQuiet, Permits, Quiescent, Attached
  <1>5. RunQuiet(r)'
    BY <1>0, <1>1, <1>2, <1>3, RunIsGood, RestKept
       DEF RunQuiet, Stages, Working, Owners, PoolEnded, Closings, Active
  <1>6. \A e \in ExecutionsOf(r) : RestQuiet(e)'
    BY <1>0, <1>4 DEF RestQuiet, Permits, attemptVars
  <1> QED
    BY <1>0, <1>5, <1>6 DEF RunGood, ExecutionsOf, WorkQuiet, OpenWork, RestQuiet

LEMMA RecovererDiesQuiet ==
    ASSUME QuietInv, NEW r \in Run, RecovererDies(r)
    PROVE  RunGood(r)'
  <1>0. /\ main[r] = "idle" /\ main'[r] = "idle"
        /\ UNCHANGED <<main, thread, supervisor, permit, control, attemptVars, owner>>
        /\ \A e \in ExecutionsOf(r) :
              /\ e \in Execution /\ RunOf[e] = r /\ RestQuiet(e)
              /\ thread[e] = "none"
    BY RecoveryIdle DEF RecovererDies, schedulerVars, jobVars, attemptVars
  <1>1. recovery'[r].pc = "none"
    BY DEF RecovererDies, NoRecovery, QuietInv, CoverInv, TypeOK, ProgramTypeOK
  <1>2. RunQuiet(r)'
    BY <1>0, <1>1, RunIsGood, RestKept
       DEF RunQuiet, Stages, Working, Owners, PoolEnded, Closings, Active
  <1>3. \A e \in ExecutionsOf(r) : RestQuiet(e)'
    BY <1>0, <1>1 DEF RestQuiet, Permits, Active, attemptVars
  <1> QED
    BY <1>0, <1>2, <1>3 DEF RunGood, ExecutionsOf, WorkQuiet, OpenWork, RestQuiet

-----------------------------------------------------------------------------
LEMMA RunActionQuiet ==
    ASSUME QuietInv, NEW r \in Run,
           \/ MainStep(r) \/ MainFault(r) \/ Crash(r) \/ LauncherDies(r)
           \/ Resume(r) \/ Stop(r) \/ CancelWaiters(r)
           \/ RecoveryStep(r) \/ RecovererDies(r)
    PROVE  Local(r) /\ RunGood(r)'
  <1>1. ASSUME \/ Start(r) \/ Launch(r) \/ Collect(r) \/ Acknowledge(r)
               \/ Prepare(r) \/ PrepareRefused(r) \/ Publish(r) \/ CloseOwner(r)
               \/ Close(r) \/ MainFault(r) \/ RecordFailure(r) \/ Disown(r)
        PROVE  Local(r) /\ RunGood(r)'
    BY <1>1, MainLocal, StartQuiet, LaunchQuiet, CollectQuiet, AcknowledgeQuiet,
       PrepareQuiet, FailQuiet, PublishQuiet, CloseOwnerQuiet, CloseQuiet,
       RecordFailureQuiet, DisownQuiet
  <1>2. ASSUME Resume(r) \/ LauncherDies(r) \/ Register(r) \/ Vanish(r)
        PROVE  Local(r) /\ RunGood(r)'
    BY <1>2, ProcessLocal, ResumeQuiet, EndQuiet, RegisterQuiet
  <1>3. ASSUME Stop(r) \/ CancelWaiters(r) PROVE Local(r) /\ RunGood(r)'
    BY <1>3, StopLocal, StopQuiet
  <1>4. ASSUME RecoveryStep(r) \/ RecovererDies(r) PROVE Local(r) /\ RunGood(r)'
    BY <1>4, RecoveryLocal, ScanQuiet, DeclareQuiet, AdmissionQuiet,
       RecoverAttemptQuiet, RecoverGrantQuiet, RecoverOwnerQuiet,
       RecoverControlQuiet, RecovererDiesQuiet
       DEF RecoveryStep
  <1> QED
    BY <1>1, <1>2, <1>3, <1>4 DEF MainStep, Exit, Crash

LEMMA ThreadActionQuiet ==
    ASSUME QuietInv, NEW e \in Execution,
           ThreadStep(e) \/ CommandEnds(e) \/ ThreadFault(e)
    PROVE  Local(RunOf[e]) /\ RunGood(RunOf[e])'
  BY ThreadLocal, UnrecordedQuiet, RecordedQuiet, CommandEndQuiet DEF ThreadStep

LEMMA QuietNext == QuietInv /\ [Next]_vars => QuietInv'
  <1> SUFFICES ASSUME QuietInv, [Next]_vars PROVE QuietInv'
    OBVIOUS
  <1>0. CoverInv'
    BY CoverStep DEF QuietInv
  <1>1. CASE UNCHANGED vars
    <2>1. UNCHANGED <<control, owner, checkpoint, recorded, permit, thread, main,
                      recovery, supervisor>>
      BY <1>1 DEF vars, programVars, jobVars, attemptVars, schedulerVars
    <2>2. \A r \in Run : RunQuiet(r)'
      BY <2>1
         DEF QuietInv, RunQuiet, Stages, Owners, PoolEnded, Closings, Active,
             Quiescent, Attached, WorkersRecorded, ExecutionsOf
    <2>3. \A e \in Execution : WorkQuiet(e)'
      BY <2>1 DEF QuietInv, WorkQuiet, OpenWork, Open, Permits, Active
    <2> QED
      BY <1>0, <2>2, <2>3 DEF QuietInv
  <1>2. ASSUME NEW r \in Run,
               \/ MainStep(r) \/ MainFault(r) \/ Crash(r) \/ LauncherDies(r)
               \/ Resume(r) \/ Stop(r) \/ CancelWaiters(r)
               \/ RecoveryStep(r) \/ RecovererDies(r)
        PROVE  QuietInv'
    BY <1>0, <1>2, RunActionQuiet, RunStepQuiet
  <1>3. ASSUME NEW e \in Execution,
               ThreadStep(e) \/ CommandEnds(e) \/ ThreadFault(e)
        PROVE  QuietInv'
    BY <1>0, <1>3, ThreadActionQuiet, RunStepQuiet, RunOfAssumption
  <1> QED
    BY <1>1, <1>2, <1>3 DEF Next

(***************************************************************************)
(* A closed run leaves nothing behind, whatever stopped, crashed, failed   *)
(* or recovered before: no command, no open attempt, and no permit that a  *)
(* poll of another run could not remove.                                   *)
(***************************************************************************)
THEOREM ClosedRunsAlwaysQuiet == Spec => []ClosedRunsQuiet
  <1>1. QuietInv => ClosedRunsQuiet
    <2> SUFFICES ASSUME QuietInv, NEW r \in Run, ~Active(r)
                 PROVE  /\ Quiescent(r)
                        /\ \A e \in ExecutionsOf(r) :
                              /\ proc[e] # "running"
                              /\ e \in DeadPermits => Recoverable(e)
      BY DEF ClosedRunsQuiet
    <2>1. Quiescent(r) /\ owner[r].state # "running"
      BY RunIsGood DEF RunQuiet, Closings, Owners
    <2>2. ASSUME NEW e \in ExecutionsOf(r)
          PROVE  proc[e] # "running" /\ (e \in DeadPermits => Recoverable(e))
      <3>1. e \in Execution /\ RunOf[e] = r /\ Permits(e)
        BY RunIsGood DEF WorkQuiet
      <3>2. proc[e] # "running"
        BY <2>1, <3>1 DEF Quiescent, QuietInv, CoverInv, CommandsCovered, Covered
      <3>3. e \in DeadPermits => Recoverable(e)
        BY <2>1, <3>1
           DEF DeadPermits, Holding, Recoverable, Permits, Quiescent, Attached
      <3> QED
        BY <3>2, <3>3
    <2> QED
      BY <2>1, <2>2
  <1> QED
    BY <1>1, QuietInit, QuietNext, PTL DEF Spec

(***************************************************************************)
(* A supervisor or a recovery that has given up the ownership of its run   *)
(* can always finish its stop.                                             *)
(***************************************************************************)
THEOREM ClosingAlwaysSucceeds == Spec => []ClosingSucceeds
  <1>1. QuietInv => ClosingSucceeds
    BY DEF QuietInv, RunQuiet, Stages, Closings, ClosingSucceeds
  <1> QED
    BY <1>1, QuietInit, QuietNext, PTL DEF Spec

-----------------------------------------------------------------------------
(* Results *)

ResultsFinal ==
    \A e \in Execution : result[e] # "none" => checkpoint[e].state = "completed"

\* A step that opens an attempt finds it without a result, and one that
\* records a result finds the attempt open.
LEMMA ResultsKept ==
    ASSUME TypeOK, ResultsFinal, [Next]_vars
    PROVE  \A e \in Execution : result[e] # "none" =>
              /\ result'[e] = result[e]
              /\ checkpoint'[e].state = "completed"
  <1> SUFFICES ASSUME NEW e \in Execution, result[e] # "none"
               PROVE  /\ result'[e] = result[e]
                      /\ checkpoint'[e].state = "completed"
    OBVIOUS
  <1>0. /\ checkpoint[e].state = "completed"
        /\ checkpoint \in [Execution -> CheckpointType]
        /\ result \in [Execution -> {"none", "succeeded", "failed"}]
    BY DEF ResultsFinal, TypeOK, JobTypeOK
  <1> DEFINE Kept == /\ result'[e] = result[e]
                     /\ checkpoint'[e].state = "completed"
  <1>1. ASSUME UNCHANGED attemptVars PROVE Kept
    BY <1>0, <1>1 DEF attemptVars
  <1>2. ASSUME NEW f \in Execution, NEW pid,
               \/ AttachPermit(f, pid) \/ RecordStart(f, pid)
               \/ RecordWorkers(f, pid) \/ RecordInterruption(f, pid)
               \/ ClearPermit(f, pid) \/ ClearScratch(f)
               \/ \E outcome : RecordCompletion(f, pid, outcome)
        PROVE  Kept
    BY <1>0, <1>2
       DEF AttachPermit, RecordStart, RecordWorkers, RecordInterruption, ClearPermit,
           ClearScratch, RecordCompletion, Permitted, CheckpointType
  <1>3. ASSUME NEW r \in Run, NEW S, ReplaceRecoveryWorkers(r, S) PROVE Kept
    BY <1>0, <1>3 DEF ReplaceRecoveryWorkers
  <1>4. ASSUME NEW r \in Run,
               \/ MainStep(r) \/ MainFault(r) \/ Crash(r) \/ LauncherDies(r)
               \/ Resume(r) \/ Stop(r) \/ CancelWaiters(r) \/ RecovererDies(r)
               \/ Scan(r) \/ DeclareIntent(r) \/ ReconcileAdmission(r)
               \/ RecoverOwner(r) \/ RecoverControl(r)
        PROVE  Kept
    <2>1. CASE Scan(r)
      BY <1>3, <2>1 DEF Scan
    <2>2. CASE ~Scan(r)
      <3>1. UNCHANGED attemptVars \/ UNCHANGED jobVars
        BY <1>4, <2>2
           DEF MainStep, Register, Start, Launch, Collect, Acknowledge, Prepare,
               PrepareRefused, Publish, CloseOwner, Close, RecordFailure, Disown,
               Exit, Vanish, MainFault, Crash, LauncherDies, Resume, Stop,
               CancelWaiters, RecovererDies, DeclareIntent, ReconcileAdmission,
               RecoverOwner, RecoverControl, ReplaceOwner, AcknowledgeStop,
               PreparePublication, FinishPublication, FinishStop,
               RequestFailure, RequestStop, BeginResume, BeginPublicationResume
      <3>2. UNCHANGED jobVars => UNCHANGED attemptVars
        BY DEF jobVars, attemptVars
      <3> QED
        BY <1>1, <3>1, <3>2
    <2> QED
      BY <2>1, <2>2
  <1>5. ASSUME NEW f \in Execution,
               \/ ThreadStep(f) \/ CommandEnds(f) \/ ThreadFault(f)
               \/ RecoverAttempt(f) \/ RecoverGrant(f)
        PROVE  Kept
    <2>1. \/ UNCHANGED jobVars
          \/ \E pid : \/ AttachPermit(f, pid) \/ RecordStart(f, pid)
                      \/ RecordWorkers(f, pid) \/ RecordInterruption(f, pid)
                      \/ ClearPermit(f, pid) \/ ClearScratch(f)
                      \/ \E outcome : RecordCompletion(f, pid, outcome)
      BY <1>5
         DEF ThreadStep, Withdraw, GoOn, Poll, Attach, StartAttempt, Spawn,
             LaunchFails, RegisterWorkers, CommandEnds, Complete, Interrupt,
             ThreadFault, ReleaseGrant, ForgetPermit, ForgetScratch,
             RecoverAttempt, RecoverGrant
    <2>2. UNCHANGED jobVars => UNCHANGED attemptVars
      BY DEF jobVars, attemptVars
    <2> QED
      BY <1>1, <1>2, <2>1, <2>2
  <1>6. CASE UNCHANGED vars
    BY <1>1, <1>6 DEF vars, jobVars, attemptVars
  <1> QED
    BY <1>4, <1>5, <1>6 DEF Next, RecoveryStep, ExecutionsOf

LEMMA ResultsStep ==
    TypeOK /\ ResultsFinal /\ [Next]_vars => ResultsFinal'
  <1> SUFFICES ASSUME TypeOK, ResultsFinal, [Next]_vars, NEW e \in Execution,
                      result'[e] # "none"
               PROVE  checkpoint'[e].state = "completed"
    BY DEF ResultsFinal
  <1>1. CASE result[e] # "none"
    BY <1>1, ResultsKept
  <1>2. CASE result[e] = "none"
    <2> DEFINE Recorded(f) ==
          \E pid, outcome : RecordCompletion(f, pid, outcome)
    <2>1. ASSUME NEW r \in Run,
                 \/ MainStep(r) \/ MainFault(r) \/ Crash(r) \/ LauncherDies(r)
                 \/ Resume(r) \/ Stop(r) \/ CancelWaiters(r) \/ RecovererDies(r)
                 \/ Scan(r) \/ DeclareIntent(r) \/ ReconcileAdmission(r)
                 \/ RecoverOwner(r) \/ RecoverControl(r)
          PROVE  UNCHANGED result
      BY <2>1
         DEF MainStep, Register, Start, Launch, Collect, Acknowledge, Prepare,
             PrepareRefused, Publish, CloseOwner, Close, RecordFailure, Disown,
             Exit, Vanish, MainFault, Crash, LauncherDies, Resume, Stop,
             CancelWaiters, RecovererDies, Scan, DeclareIntent,
             ReconcileAdmission, RecoverOwner, RecoverControl, jobVars,
             attemptVars, ReplaceOwner, AcknowledgeStop, PreparePublication,
             FinishPublication, FinishStop, RequestFailure, RequestStop,
             BeginResume, BeginPublicationResume, ReplaceRecoveryWorkers
    <2>2. ASSUME NEW f \in Execution,
                 \/ ThreadStep(f) \/ CommandEnds(f) \/ ThreadFault(f)
                 \/ RecoverAttempt(f) \/ RecoverGrant(f)
          PROVE  UNCHANGED result \/ Recorded(f)
      BY <2>2
         DEF ThreadStep, Withdraw, GoOn, Poll, Attach, StartAttempt, Spawn,
             LaunchFails, RegisterWorkers, CommandEnds, Complete, Interrupt,
             ThreadFault, ReleaseGrant, ForgetPermit, ForgetScratch,
             RecoverAttempt, RecoverGrant, jobVars, attemptVars, AttachPermit,
             RecordStart, RecordWorkers, RecordInterruption, ClearPermit,
             ClearScratch
    <2>3. UNCHANGED vars => UNCHANGED result
      BY DEF vars, jobVars, attemptVars
    <2>4. UNCHANGED result \/ \E f \in Execution : Recorded(f)
      BY <2>1, <2>2, <2>3 DEF Next, RecoveryStep, ExecutionsOf
    <2>5. PICK f \in Execution : Recorded(f)
      BY <1>2, <2>4
    <2> QED
      BY <1>2, <2>5 DEF RecordCompletion, TypeOK, JobTypeOK, CheckpointType
  <1> QED
    BY <1>1, <1>2

(***************************************************************************)
(* A terminal result is never replaced and its command never runs again,   *)
(* over any number of stops, crashes, recoveries and resumes.              *)
(***************************************************************************)
THEOREM CompletedWorkAlwaysStays == Spec => CompletedWorkStays
  <1>1. Init => ResultsFinal
    BY DEF Init, JobInit, ResultsFinal
  <1>2. CoverInv /\ ResultsFinal /\ [Next]_vars => ResultsFinal'
    BY ResultsStep DEF CoverInv
  <1>3. CoverInv /\ ResultsFinal /\ [Next]_vars =>
           [\A e \in Execution : result[e] # "none" =>
               /\ result'[e] = result[e]
               /\ proc'[e] = "running" => proc[e] = "running"]_vars
    <2> SUFFICES ASSUME CoverInv, ResultsFinal, [Next]_vars, NEW e \in Execution,
                        result[e] # "none"
                 PROVE  /\ result'[e] = result[e]
                        /\ proc'[e] = "running" => proc[e] = "running"
      OBVIOUS
    <2>1. result'[e] = result[e] /\ TypeOK
      BY ResultsKept DEF CoverInv
    <2>2. thread[e] # "started"
      BY DEF ResultsFinal, CoverInv, AttemptsCovered, Covered
    <2>3. CASE \E f \in Execution : Spawn(f)
      <3>1. PICK f \in Execution : Spawn(f)
        BY <2>3
      <3>2. f # e
        BY <2>2, <3>1 DEF Spawn
      <3> QED
        BY <2>1, <3>1, <3>2 DEF Spawn, TypeOK, ProgramTypeOK
    <2>4. CASE ~ \E f \in Execution : Spawn(f)
      BY <2>1, <2>4, OthersSpawnNothing DEF TypeOK, ProgramTypeOK
    <2> QED
      BY <2>1, <2>3, <2>4
  <1> QED
    BY <1>1, <1>2, <1>3, CoverInit, CoverStep, PTL DEF Spec, CompletedWorkStays
===============================================================================
