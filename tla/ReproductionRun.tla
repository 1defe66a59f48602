--------------------------- MODULE ReproductionRun ---------------------------
(***************************************************************************)
(* Accepted reproduction runs from launch to their terminal state: the     *)
(* detached supervisor with one pool thread per scheduled execution, the   *)
(* commands it spawns, stop and resume requests, the death of any of these *)
(* processes between two transactions, and the recovery of a dead          *)
(* supervisor's run.  Runs share only the permit scheduler.                *)
(***************************************************************************)
EXTENDS Scheduler

CONSTANTS
    Jobs,               \* Jobs[r]: the size of the thread pool of r
    Stoppable,          \* runs somebody asks to stop
    Mortal,             \* runs whose supervisor may be killed
    Faulty,             \* runs that may meet an operational error
    MaxSupervisors      \* bound: how many supervisors a run may have

ASSUME RunsAssumption ==
    /\ Jobs \in [Run -> Nat \ {0}]
    /\ MaxSupervisors \in Nat \ {0}

VARIABLES
    main,           \* main[r]: where the launcher or supervisor of r is
    thread,         \* thread[e]: where the pool thread of e is
    proc,           \* proc[e]: the process tree of e's command
    stopper,        \* the runs with a stop command about to cancel waiters
    recovery,       \* recovery[r]: where the recovery of r is
    faulted         \* the runs that met an operational error (history)

programVars == <<main, thread, proc, stopper, recovery, faulted>>
vars == <<jobVars, schedulerVars, supervisor, lock, programVars>>

NoRecovery == [pc |-> "none", publishing |-> FALSE]

Idle == {"none", "pending", "finished", "stopped", "raised"}

ProgramTypeOK ==
    /\ main \in [Run -> {"idle", "launching", "starting", "top", "waiting",
                         "halting", "draining", "preparing", "publishing",
                         "closing", "closed", "failing", "failed", "exiting"}]
    /\ thread \in [Execution -> Idle \cup
                      {"checking", "polling", "granted", "attached", "started",
                       "spawned", "monitoring", "recorded", "released",
                       "cleared"}]
    /\ proc \in [Execution -> {"none", "running", "exited"}]
    /\ stopper \subseteq Run
    /\ recovery \in [Run -> [pc : {"none", "scanned", "admitting", "attempts",
                                   "owned"},
                             publishing : BOOLEAN]]
    /\ faulted \subseteq Run

(***************************************************************************)
(* The type invariant: the job, the scheduler's tables, and where the      *)
(* processes of every run are.                                             *)
(***************************************************************************)
TypeOK == JobTypeOK /\ SchedulerTypeOK /\ ProgramTypeOK

Init ==
    /\ JobInit
    /\ SchedulerInit
    /\ main = [r \in Run |-> "launching"]
    /\ thread = [e \in Execution |-> "none"]
    /\ proc = [e \in Execution |-> "none"]
    /\ stopper = {}
    /\ recovery = [r \in Run |-> NoRecovery]
    /\ faulted = {}

Go(r, pc) == main' = [main EXCEPT ![r] = pc]
Step(e, pc) == thread' = [thread EXCEPT ![e] = pc]

Pending(r) == {e \in ExecutionsOf(r) : thread[e] = "pending"}
Running(r) == {e \in ExecutionsOf(r) : thread[e] \notin {"none", "pending"}}
Ended(r) == {e \in ExecutionsOf(r) :
                thread[e] \in {"finished", "stopped", "raised"}}

-----------------------------------------------------------------------------
(* Launching a supervisor.  The launcher holds the scope locks, which the  *)
(* supervisor inherits: nobody launches or recovers r before both are gone.*)

ScopeFree(r) == main[r] = "idle" /\ recovery[r] = NoRecovery

Resume(r) ==
    /\ ScopeFree(r)
    /\ supervisor[r].pid < MaxSupervisors
    /\ BeginResume(r) \/ BeginPublicationResume(r)
    /\ Go(r, "launching")
    /\ UNCHANGED <<schedulerVars, supervisor, lock, thread, proc, stopper,
                   recovery, faulted>>

\* The spawned process waits at its gate until it is registered as owner.
Register(r) ==
    /\ main[r] = "launching"
    /\ supervisor' = [supervisor EXCEPT ![r] = [pid |-> @.pid + 1,
                                                alive |-> TRUE]]
    /\ ReplaceOwner(r, supervisor[r].pid + 1, "running")
    /\ Go(r, "starting")
    /\ UNCHANGED <<schedulerVars, lock, thread, proc, stopper, recovery, faulted>>

LauncherDies(r) ==
    /\ r \in Mortal
    /\ main[r] = "launching"
    /\ Go(r, "idle")
    /\ UNCHANGED <<jobVars, schedulerVars, supervisor, lock, thread, proc,
                   stopper, recovery, faulted>>

-----------------------------------------------------------------------------
(* The main thread of a supervisor *)

mainOnly == <<schedulerVars, supervisor, lock, proc, stopper, recovery>>

\* Work a supervisor must not be handed: its recovery was left unfinished.
Unrecovered(e) ==
    \/ checkpoint[e].state = "active" /\ checkpoint[e].started
    \/ Terminal(e) /\ (checkpoint[e].permit # NoPermit \/ checkpoint[e].scratch)

Start(r) ==
    /\ main[r] = "starting"
    /\ IF control[r].phase = "publishing"
       THEN Go(r, "preparing") /\ UNCHANGED thread
       ELSE IF \E e \in ExecutionsOf(r) : Unrecovered(e)
       THEN Go(r, "failing") /\ UNCHANGED thread
       ELSE /\ Go(r, "top")
            /\ thread' = [e \in Execution |->
                  IF RunOf[e] = r /\ result[e] = "none" THEN "pending"
                  ELSE thread[e]]
    /\ UNCHANGED <<jobVars, mainOnly, faulted>>

\* Exclusive work starts alone, other work as far as the pool has room.
Launchable(r) ==
    LET pending == Pending(r)
        slots == Jobs[r] - Cardinality(Running(r))
        sized == {L \in SUBSET pending :
                     \/ Cardinality(L) = slots
                     \/ L = pending /\ Cardinality(L) < slots}
    IN  IF slots = 0 \/ (pending \cap Exclusive # {} /\ Running(r) # {})
        THEN {{}}
        ELSE IF pending \cap Exclusive # {}
        THEN {{e} : e \in pending \cap Exclusive}
        ELSE sized

Launch(r) ==
    /\ main[r] = "top"
    /\ ~StopSeen(r)
    /\ Pending(r) \cup Running(r) # {}
    /\ \E L \in Launchable(r) :
          thread' = [e \in Execution |-> IF e \in L THEN "checking" ELSE thread[e]]
    /\ Go(r, "waiting")
    /\ UNCHANGED <<jobVars, mainOnly, faulted>>

\* The main thread sleeps until a thread ends, whatever is requested meanwhile.
Collect(r) ==
    /\ main[r] \in {"waiting", "draining"}
    /\ Ended(r) # {}
    /\ LET raised == \E e \in Ended(r) : thread[e] = "raised"
           stopped == \E e \in Ended(r) : thread[e] = "stopped"
       IN  Go(r, IF raised THEN "failing"
                 ELSE IF stopped \/ main[r] = "draining" THEN "halting" ELSE "top")
    /\ thread' = [e \in Execution |-> IF e \in Ended(r) THEN "none" ELSE thread[e]]
    /\ UNCHANGED <<jobVars, mainOnly, faulted>>

Acknowledge(r) ==
    /\ main[r] \in {"top", "halting", "preparing"}
    /\ StopSeen(r)
    /\ AcknowledgeStop(r)
    /\ Go(r, IF Running(r) # {} THEN "draining" ELSE "closing")
    /\ UNCHANGED <<mainOnly, thread, faulted>>

AtPublication(r) ==
    \/ main[r] = "preparing"
    \/ main[r] = "top" /\ Pending(r) \cup Running(r) = {}

Prepare(r) ==
    /\ AtPublication(r)
    /\ PreparePublication(r)
    /\ Go(r, "publishing")
    /\ UNCHANGED <<mainOnly, thread, faulted>>

\* A frozen journal outside the publishing phase is refused.
PrepareRefused(r) ==
    /\ AtPublication(r)
    /\ ~StopSeen(r)
    /\ r \in journal /\ control[r].phase # "publishing"
    /\ Go(r, "failing")
    /\ UNCHANGED <<jobVars, mainOnly, thread, faulted>>

Publish(r) ==
    /\ main[r] = "publishing"
    /\ FinishPublication(r)
    /\ Go(r, "exiting")
    /\ UNCHANGED <<mainOnly, thread, faulted>>

CloseOwner(r) ==
    /\ main[r] = "closing"
    /\ ReplaceOwner(r, supervisor[r].pid, "stopped")
    /\ Go(r, "closed")
    /\ UNCHANGED <<mainOnly, thread, faulted>>

Close(r) ==
    /\ main[r] = "closed"
    /\ FinishStop(r)
    /\ Go(r, "exiting")
    /\ UNCHANGED <<mainOnly, thread, faulted>>

MainFault(r) ==
    /\ r \in Faulty \ faulted
    /\ main[r] \in {"starting", "top", "preparing", "publishing"}
    /\ Go(r, "failing")
    /\ faulted' = faulted \cup {r}
    /\ UNCHANGED <<jobVars, mainOnly, thread>>

\* The pool is left once the threads that still run have ended.
RecordFailure(r) ==
    /\ main[r] = "failing"
    /\ \A e \in ExecutionsOf(r) : thread[e] \in Idle
    /\ RequestFailure(r)
    /\ Go(r, "failed")
    /\ UNCHANGED <<mainOnly, thread, faulted>>

\* Deviation: give up the ownership of attempts that are still open.
DisownAlways(r) ==
    /\ main[r] = "failed"
    /\ ReplaceOwner(r, supervisor[r].pid, "exited")
    /\ Go(r, "closed")
    /\ UNCHANGED <<mainOnly, thread, faulted>>

Disown(r) ==
    /\ main[r] = "failed"
    /\ IF Attached(r) # {} \/ WorkersRecorded(r)
       THEN Go(r, "exiting") /\ UNCHANGED jobVars
       ELSE ReplaceOwner(r, supervisor[r].pid, "exited") /\ Go(r, "closed")
    /\ UNCHANGED <<mainOnly, thread, faulted>>

\* The supervisor process ends; commands it spawned live on.
Vanish(r) ==
    /\ supervisor' = [supervisor EXCEPT ![r].alive = FALSE]
    /\ Go(r, "idle")
    /\ thread' = [e \in Execution |-> IF RunOf[e] = r THEN "none" ELSE thread[e]]
    /\ lock' = lock \ ExecutionsOf(r)
    /\ UNCHANGED <<jobVars, schedulerVars, proc, stopper, recovery, faulted>>

Exit(r) == main[r] = "exiting" /\ Vanish(r)

Crash(r) == r \in Mortal /\ supervisor[r].alive /\ Vanish(r)

MainStep(r) ==
    \/ Register(r) \/ Start(r) \/ Launch(r) \/ Collect(r) \/ Acknowledge(r)
    \/ Prepare(r) \/ PrepareRefused(r) \/ Publish(r) \/ CloseOwner(r)
    \/ Close(r) \/ RecordFailure(r) \/ Disown(r) \/ Exit(r)

-----------------------------------------------------------------------------
(* The pool thread of an execution *)

threadOnly == <<supervisor, main, stopper, recovery>>

\* The stop was seen: give back whatever the scheduler holds for e.
Withdraw(e) ==
    /\ thread[e] = "checking"
    /\ StopSeen(RunOf[e])
    /\ lock = {}
    /\ IF ReconcileRefused(e)
       THEN Step(e, "raised") /\ UNCHANGED schedulerVars
       ELSE Step(e, "stopped") /\ Reconcile({e})
    /\ UNCHANGED <<jobVars, threadOnly, lock, proc, faulted>>

GoOn(e) ==
    /\ thread[e] = "checking"
    /\ ~StopSeen(RunOf[e])
    /\ Step(e, "polling")
    /\ UNCHANGED <<jobVars, schedulerVars, threadOnly, lock, proc, faulted>>

\* Finding another run's death unresolved is an operational error of this one.
Poll(e) ==
    /\ thread[e] = "polling"
    /\ lock = {}
    /\ IF PollRefused(e)
       THEN /\ Step(e, "raised")
            /\ faulted' = IF Admitting(RunOf[e]) THEN faulted \cup {RunOf[e]}
                          ELSE faulted
            /\ UNCHANGED <<schedulerVars, lock>>
       ELSE /\ Decide(e, Grantable(e))
            /\ Step(e, IF Grantable(e) THEN "granted" ELSE "checking")
            /\ lock' = IF Grantable(e) THEN {e} ELSE {}
            /\ UNCHANGED faulted
    /\ UNCHANGED <<jobVars, threadOnly, proc>>

Attach(e) ==
    /\ thread[e] = "granted"
    /\ lock' = {}
    /\ \/ AttachPermit(e, Requester(e)) /\ Step(e, "attached")
       \/ /\ ~Admitting(RunOf[e])
          /\ Step(e, "raised")
          /\ UNCHANGED jobVars
    /\ UNCHANGED <<schedulerVars, threadOnly, proc, faulted>>

StartAttempt(e) ==
    /\ thread[e] = "attached"
    /\ \/ RecordStart(e, Requester(e)) /\ Step(e, "started")
       \/ /\ ~Admitting(RunOf[e])
          /\ Step(e, "raised")
          /\ UNCHANGED jobVars
    /\ UNCHANGED <<schedulerVars, threadOnly, lock, proc, faulted>>

Spawn(e) ==
    /\ thread[e] = "started"
    /\ proc' = [proc EXCEPT ![e] = "running"]
    /\ Step(e, "spawned")
    /\ UNCHANGED <<jobVars, schedulerVars, threadOnly, lock, faulted>>

LaunchFails(e) ==
    /\ thread[e] = "started"
    /\ RecordCompletion(e, Requester(e), "failed")
    /\ Step(e, "recorded")
    /\ UNCHANGED <<schedulerVars, threadOnly, lock, proc, faulted>>

RegisterWorkers(e) ==
    /\ thread[e] = "spawned"
    /\ RecordWorkers(e, Requester(e))
    /\ Step(e, "monitoring")
    /\ UNCHANGED <<schedulerVars, threadOnly, lock, proc, faulted>>

\* On its own, by the execution timeout, or killed by a recovery's scan.
CommandEnds(e) ==
    /\ proc[e] = "running"
    /\ proc' = [proc EXCEPT ![e] = "exited"]
    /\ UNCHANGED <<jobVars, schedulerVars, threadOnly, lock, thread, faulted>>

Complete(e) ==
    /\ thread[e] = "monitoring"
    /\ proc[e] = "exited"
    /\ \E outcome \in {"succeeded", "failed"} :
          RecordCompletion(e, Requester(e), outcome)
    /\ Step(e, "recorded")
    /\ UNCHANGED <<schedulerVars, threadOnly, lock, proc, faulted>>

Interrupt(e) ==
    /\ thread[e] = "monitoring"
    /\ proc[e] = "running"
    /\ StopSeen(RunOf[e])
    /\ proc' = [proc EXCEPT ![e] = "exited"]
    /\ RecordInterruption(e, Requester(e))
    /\ Step(e, "recorded")
    /\ UNCHANGED <<schedulerVars, threadOnly, lock, faulted>>

\* The processes of the command are killed, and may survive that; the permits
\* and waiters of e are left for a recovery.
ThreadFault(e) ==
    /\ RunOf[e] \in Faulty \ faulted
    /\ thread[e] \notin Idle
    /\ Step(e, "raised")
    /\ faulted' = faulted \cup {RunOf[e]}
    /\ lock' = lock \ {e}
    /\ \/ UNCHANGED proc
       \/ proc[e] = "running" /\ proc' = [proc EXCEPT ![e] = "exited"]
    /\ UNCHANGED <<jobVars, schedulerVars, threadOnly>>

ReleaseGrant(e) ==
    /\ thread[e] = "recorded"
    /\ lock = {}
    /\ IF ReconcileRefused(e) \/ ~Forgets(e)
       THEN Step(e, "raised") /\ UNCHANGED schedulerVars
       ELSE Step(e, "released") /\ Reconcile({e})
    /\ UNCHANGED <<jobVars, threadOnly, lock, proc, faulted>>

ForgetPermit(e) ==
    /\ thread[e] = "released"
    /\ ClearPermit(e, Requester(e))
    /\ Step(e, "cleared")
    /\ UNCHANGED <<schedulerVars, threadOnly, lock, proc, faulted>>

ForgetScratch(e) ==
    /\ thread[e] = "cleared"
    /\ ClearScratch(e)
    /\ Step(e, IF checkpoint[e].state = "completed" THEN "finished"
               ELSE "stopped")
    /\ UNCHANGED <<schedulerVars, threadOnly, lock, proc, faulted>>

ThreadStep(e) ==
    \/ Withdraw(e) \/ GoOn(e) \/ Poll(e) \/ Attach(e) \/ StartAttempt(e)
    \/ Spawn(e) \/ LaunchFails(e) \/ RegisterWorkers(e) \/ Complete(e)
    \/ Interrupt(e) \/ ReleaseGrant(e) \/ ForgetPermit(e) \/ ForgetScratch(e)

-----------------------------------------------------------------------------
(* A stop command.  It finds a registered supervisor or it recovers first. *)

Stop(r) ==
    /\ r \in Stoppable \ stopper
    /\ owner[r].state = "running"
    /\ RequestStop(r)
    /\ stopper' = stopper \cup {r}
    /\ UNCHANGED <<schedulerVars, supervisor, lock, main, thread, proc, recovery,
                   faulted>>

CancelWaiters(r) ==
    /\ r \in stopper
    /\ lock = {}
    /\ CancelRunWaiters(r)
    /\ stopper' = stopper \ {r}
    /\ UNCHANGED <<jobVars, supervisor, lock, main, thread, proc, recovery, faulted>>

-----------------------------------------------------------------------------
(* The recovery of a run whose supervisor is gone, run by stop and resume  *)
(* under the scope locks; it may itself die between two of its steps.      *)

recoveryOnly == <<supervisor, lock, main, thread, stopper, faulted>>

Recovering(r, pc) == recovery[r].pc = pc
Continue(r, pc) == recovery' = [recovery EXCEPT ![r].pc = pc]

Live(r) == {e \in ExecutionsOf(r) : proc[e] = "running"}

\* Deviation: believe that every process that was killed is gone.
ScanOnce(r) ==
    /\ ScopeFree(r)
    /\ Active(r)
    /\ ReplaceRecoveryWorkers(r, {})
    /\ recovery' = [recovery EXCEPT ![r] =
                       [pc |-> "scanned",
                        publishing |-> control[r].phase = "publishing"]]
    /\ UNCHANGED <<schedulerVars, recoveryOnly, proc>>

\* Deviation: a run nobody has registered for is left alone.
ScanOwned(r) ==
    /\ ScopeFree(r)
    /\ Active(r) /\ owner[r].state = "running"
    /\ ReplaceRecoveryWorkers(r, Live(r))
    /\ recovery' = IF Live(r) # {} THEN recovery
                   ELSE [recovery EXCEPT ![r] =
                            [pc |-> "scanned",
                             publishing |-> control[r].phase = "publishing"]]
    /\ UNCHANGED <<schedulerVars, recoveryOnly, proc>>

\* Processes that carry the run's marker are killed (CommandEnds); those that
\* survive are recorded and leave everything else as it is.
Scan(r) ==
    /\ ScopeFree(r)
    /\ Active(r)
    /\ ReplaceRecoveryWorkers(r, Live(r))
    /\ recovery' = IF Live(r) # {} THEN recovery
                   ELSE [recovery EXCEPT ![r] =
                            [pc |-> "scanned",
                             publishing |-> control[r].phase = "publishing"]]
    /\ UNCHANGED <<schedulerVars, recoveryOnly, proc>>

\* Requesting and acknowledging are two transactions; the state between them
\* is that of a crash right after a stop request.
DeclareIntent(r) ==
    /\ Recovering(r, "scanned")
    /\ \/ control[r].phase = "publishing" /\ RequestFailure(r)
       \/ control[r].phase = "stopping" /\ UNCHANGED jobVars
       \/ /\ control[r].phase \in {"accepted", "executing"}
          /\ control' = [control EXCEPT ![r].stop = TRUE, ![r].phase = "stopping"]
          /\ UNCHANGED <<owner, attemptVars, journal>>
    /\ Continue(r, "admitting")
    /\ UNCHANGED <<schedulerVars, recoveryOnly, proc>>

ReconcileAdmission(r) ==
    /\ Recovering(r, "admitting")
    /\ lock = {}
    /\ Reconcile(ExecutionsOf(r) \cap (Waiting \cup Holding))
    /\ Continue(r, "attempts")
    /\ UNCHANGED <<jobVars, recoveryOnly, proc>>

RecoverAttempt(e) ==
    /\ Recovering(RunOf[e], "attempts")
    /\ \/ /\ checkpoint[e].state = "active"
          /\ RecordInterruption(e, checkpoint[e].permit)
       \/ /\ checkpoint[e].permit # NoPermit
          /\ e \notin Holding
          /\ ClearPermit(e, checkpoint[e].permit)
       \/ checkpoint[e].scratch /\ ClearScratch(e)
    /\ UNCHANGED <<schedulerVars, recoveryOnly, proc, recovery>>

RecoverGrant(e) ==
    /\ Recovering(RunOf[e], "attempts")
    /\ e \in Holding
    /\ Forgets(e)
    /\ lock = {}
    /\ Reconcile({e})
    /\ UNCHANGED <<jobVars, recoveryOnly, proc, recovery>>

RecoverOwner(r) ==
    /\ Recovering(r, "attempts")
    /\ \A e \in ExecutionsOf(r) : /\ checkpoint[e].state # "active"
                                  /\ checkpoint[e].permit = NoPermit
                                  /\ ~checkpoint[e].scratch
    /\ ReplaceOwner(r, owner[r].pid,
                    IF recovery[r].publishing THEN "exited" ELSE "stopped")
    /\ Continue(r, "owned")
    /\ UNCHANGED <<schedulerVars, recoveryOnly, proc>>

RecoverControl(r) ==
    /\ Recovering(r, "owned")
    /\ FinishStop(r)
    /\ recovery' = [recovery EXCEPT ![r] = NoRecovery]
    /\ UNCHANGED <<schedulerVars, recoveryOnly, proc>>

RecovererDies(r) ==
    /\ r \in Mortal
    /\ recovery[r] # NoRecovery
    /\ recovery' = [recovery EXCEPT ![r] = NoRecovery]
    /\ UNCHANGED <<jobVars, schedulerVars, recoveryOnly, proc>>

RecoveryStep(r) ==
    \/ Scan(r) \/ DeclareIntent(r) \/ ReconcileAdmission(r)
    \/ \E e \in ExecutionsOf(r) : RecoverAttempt(e) \/ RecoverGrant(e)
    \/ RecoverOwner(r) \/ RecoverControl(r)

-----------------------------------------------------------------------------
Next ==
    \/ \E r \in Run :
          \/ MainStep(r) \/ MainFault(r) \/ Crash(r) \/ LauncherDies(r)
          \/ Resume(r) \/ Stop(r) \/ CancelWaiters(r)
          \/ RecoveryStep(r) \/ RecovererDies(r)
    \/ \E e \in Execution : ThreadStep(e) \/ CommandEnds(e) \/ ThreadFault(e)

Spec == Init /\ [][Next]_vars

\* The main thread, the pool and a started command (it has a timeout) go on
\* as long as their processes live.
SupervisorFairness ==
    /\ \A r \in Run : WF_vars(MainStep(r))
    /\ \A e \in Execution : WF_vars(ThreadStep(e)) /\ WF_vars(CommandEnds(e))

\* Somebody recovers a lost run and is not interrupted forever.
RecoveryFairness ==
    \A r \in Run :
        /\ SF_vars(Live(r) = {} /\ Scan(r))
        /\ SF_vars(DeclareIntent(r))
        /\ SF_vars(ReconcileAdmission(r))
        /\ \A e \in ExecutionsOf(r) : SF_vars(RecoverAttempt(e) \/ RecoverGrant(e))
        /\ SF_vars(RecoverOwner(r))
        /\ SF_vars(RecoverControl(r))

LiveSpec == Spec /\ SupervisorFairness

RecoveredSpec == LiveSpec /\ RecoveryFairness

-----------------------------------------------------------------------------
(* Safety *)

LiveCommands == {e \in Execution : proc[e] = "running"}

Access == INSTANCE ArtifactAccess WITH
              Invocation <- Execution, Clash <- Conflict, using <- LiveCommands

(***************************************************************************)
(* Commands of all runs, orphans of dead supervisors included, only ever   *)
(* run while no conflicting command of any run does: the permits of        *)
(* reproduction_scheduler.py implement exclusive access to the claims.     *)
(***************************************************************************)
AccessSpec == Access!Spec

(***************************************************************************)
(* A command that runs is covered in both stores: its attempt is active    *)
(* and started in the job, and the scheduler still holds the very permit   *)
(* the job has attached, whatever crashed since.                           *)
(***************************************************************************)
LiveCommandsCovered ==
    \A e \in LiveCommands :
        /\ checkpoint[e].state = "active" /\ checkpoint[e].started
        /\ permit[e] # NoPermit /\ permit[e] = checkpoint[e].permit

(***************************************************************************)
(* A closed run leaves nothing behind: none of its commands runs, none of  *)
(* its attempts is open, and a permit it may still have in the scheduler   *)
(* is one the next poll of any run can remove.  (A dead permit that cannot *)
(* be removed makes every poll of the project fail.)                       *)
(***************************************************************************)
ClosedRunsQuiet ==
    \A r \in Run : ~Active(r) =>
        /\ Quiescent(r)
        /\ \A e \in ExecutionsOf(r) :
              /\ proc[e] # "running"
              /\ e \in DeadPermits => Recoverable(e)

(***************************************************************************)
(* Closing never fails: when a supervisor or a recovery has given up the   *)
(* ownership of a run, its stop can be finished.                           *)
(***************************************************************************)
ClosingSucceeds ==
    \A r \in Run :
        main[r] = "closed" \/ recovery[r].pc = "owned" =>
            Active(r) /\ control[r].phase = "stopping" /\ Quiescent(r)

(***************************************************************************)
(* A terminal result is never replaced and its command never runs again,   *)
(* over any number of stops, crashes and resumes.                          *)
(***************************************************************************)
CompletedWorkStays ==
    [][\A e \in Execution : result[e] # "none" =>
           /\ result'[e] = result[e]
           /\ proc'[e] = "running" => proc[e] = "running"]_vars

-----------------------------------------------------------------------------
(* Liveness *)

(***************************************************************************)
(* Every accepted run reaches a terminal state, through any stop, crash or *)
(* resume, when somebody recovers it after a crash.                        *)
(***************************************************************************)
RunsClose == \A r \in Run : Active(r) ~> ~Active(r)

(***************************************************************************)
(* Every supervisor ends, also without recovery of the runs that crashed:  *)
(* no thread waits forever for the permits and waiters of other runs.      *)
(***************************************************************************)
SupervisorsEnd ==
    \A r \in Run : supervisor[r].alive ~> ~supervisor[r].alive

(***************************************************************************)
(* Exclusive work is not starved: an exclusive waiter gets its permit,     *)
(* unless its run is stopped or its supervisor ends.                       *)
(***************************************************************************)
WaitersServed ==
    \A e \in Execution :
        e \in Waiting ~> \/ e \in Holding
                        \/ StopSeen(RunOf[e])
                        \/ ~supervisor[RunOf[e]].alive

-----------------------------------------------------------------------------
(* What the repository says of stops and publications, and the code breaks *)

(***************************************************************************)
(* "Uncertain operational cleanup remains recoverable": the supervisor of  *)
(* a run that met an operational error ends, so that its grants can be     *)
(* recovered (recovery never touches a live supervisor).                   *)
(***************************************************************************)
FaultedRunsEnd ==
    \A r \in Run : r \in faulted ~> ~supervisor[r].alive

(***************************************************************************)
(* "Interrupted publication becomes the publication-only-resumable failure *)
(* with its frozen journal intact": a run with a frozen publication is     *)
(* complete or active, or it failed and resumes that publication, whether  *)
(* it was interrupted by a kill or by a stop.                              *)
(***************************************************************************)
FrozenPublicationResumes ==
    \A r \in journal :
        \/ Active(r) \/ control[r].status = "complete"
        \/ /\ control[r].status = "failed"
           /\ control[r].failure = "publication" => owner[r].state \in {"none", "exited"}
=============================================================================
