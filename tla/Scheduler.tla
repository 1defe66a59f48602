----------------------------- MODULE Scheduler -----------------------------
(***************************************************************************)
(* The project-wide permit scheduler of reproduction_scheduler.py: one     *)
(* SQLite database of tickets, exclusive waiters and permits shared by all *)
(* runs of a project, changed only under the coordinator lock.             *)
(*                                                                         *)
(* A permit is named by the supervisor (WorkJob.tla) it was granted to.    *)
(***************************************************************************)
EXTENDS WorkJob, FiniteSets

CONSTANTS
    Exclusive,      \* executions accepted with the exclusive kind
    Reads,          \* Reads[e]: the paths e reads
    Mutable         \* Mutable[e]: the paths e writes, its run path included

ASSUME ClaimsAssumption == Exclusive \subseteq Execution

VARIABLES
    supervisor,     \* supervisor[r]: the newest supervisor of r, and if it lives
    nextTicket,     \* the ticket of the next waiter
    waiter,         \* waiter[e]: the waiter row of e
    permit,         \* permit[e]: the supervisor whose permit row e has
    lock            \* the execution whose poll holds the coordinator lock

schedulerVars == <<nextTicket, waiter, permit>>

NoWaiter == [ticket |-> 0, pid |-> 0]

SchedulerTypeOK ==
    /\ supervisor \in [Run -> [pid : Nat, alive : BOOLEAN]]
    /\ nextTicket \in Nat \ {0}
    /\ waiter \in [Execution -> [ticket : Nat, pid : Nat]]
    /\ permit \in [Execution -> Nat]
    /\ lock \subseteq Execution

SchedulerInit ==
    /\ supervisor = [r \in Run |-> [pid |-> 0, alive |-> FALSE]]
    /\ nextTicket = 1
    /\ waiter = [e \in Execution |-> NoWaiter]
    /\ permit = [e \in Execution |-> NoPermit]
    /\ lock = {}

-----------------------------------------------------------------------------
Conflict(e, f) ==
    \/ e \in Exclusive
    \/ f \in Exclusive
    \/ Mutable[e] \cap (Reads[f] \cup Mutable[f]) # {}
    \/ Mutable[f] \cap Reads[e] # {}

PidAlive(r, pid) == supervisor[r] = [pid |-> pid, alive |-> TRUE]

Waiting == {e \in Execution : waiter[e] # NoWaiter}
Holding == {e \in Execution : permit[e] # NoPermit}

\* Deviation: waiters of dead supervisors keep their place.
NoDeadWaiters == {}

DeadWaiters == {e \in Waiting : ~PidAlive(RunOf[e], waiter[e].pid)}
DeadPermits == {e \in Holding : ~PidAlive(RunOf[e], permit[e])}

\* The state the scheduler refuses to work from.
AuditHolds ==
    /\ Waiting \cap Holding = {}
    /\ \A e \in Waiting : waiter[e].ticket < nextTicket
    /\ Holding \cap Exclusive # {} => Cardinality(Holding) = 1

\* Deviation: trust the owner row, whatever is still attached or recorded.
RecoverableByOwner(e) == owner[RunOf[e]].pid = permit[e]

\* Whether the job of a dead permit proves that no work hides behind it.
Recoverable(e) ==
    LET r == RunOf[e] IN
    /\ owner[r].pid = permit[e]
    /\ checkpoint[e].permit = NoPermit
    /\ ~WorkersRecorded(r)
    /\ Active(r) <=> owner[r].state = "running"

-----------------------------------------------------------------------------
(* One poll of a supervisor for a permit of e *)

Requester(e) == supervisor[RunOf[e]].pid

\* Deviation: drop dead permits without asking their jobs.
PollRefusedAlone(e) ==
    \/ ~Admitting(RunOf[e])
    \/ owner[RunOf[e]] # [pid |-> Requester(e), state |-> "running"]
    \/ ~AuditHolds
    \/ e \in Waiting /\ waiter[e].pid # Requester(e)

PollRefused(e) ==
    \/ ~Admitting(RunOf[e])
    \/ owner[RunOf[e]] # [pid |-> Requester(e), state |-> "running"]
    \/ ~AuditHolds
    \/ \E f \in DeadPermits : ~Recoverable(f)
    \/ e \in Waiting /\ waiter[e].pid # Requester(e)

RetainedWaiters == Waiting \ DeadWaiters
RetainedPermits == Holding \ DeadPermits

Unblocked(e) ==
    /\ RetainedWaiters = {}
    /\ \A f \in RetainedPermits : ~Conflict(e, f)

\* Deviation: the first waiter does not wait for the permits to drain.
FirstByTicket(e) ==
    \A f \in RetainedWaiters \ {e} :
        e \in Waiting /\ waiter[e].ticket < waiter[f].ticket

\* Deviation: the first waiter waits for itself.
FirstBehindItself(e) ==
    /\ RetainedPermits = {}
    /\ \A f \in RetainedWaiters :
          e \in Waiting /\ waiter[e].ticket < waiter[f].ticket

FirstInLine(e) ==
    /\ RetainedPermits = {}
    /\ \A f \in RetainedWaiters \ {e} :
          e \in Waiting /\ waiter[e].ticket < waiter[f].ticket

Grantable(e) ==
    \/ e \in RetainedPermits
    \/ e \notin Exclusive /\ Unblocked(e)
    \/ e \in Exclusive /\ FirstInLine(e)

\* What every committed decision does, the dead rows it removes included.
Decide(e, granted) ==
    LET queued == e \in Exclusive \ (Waiting \cup RetainedPermits) IN
    /\ permit' = [f \in Execution |->
          IF f = e /\ granted THEN Requester(e)
          ELSE IF f \in DeadPermits THEN NoPermit ELSE permit[f]]
    /\ waiter' = [f \in Execution |->
          IF f \in DeadWaiters \/ (f = e /\ granted) THEN NoWaiter
          ELSE IF f = e /\ queued
          THEN [ticket |-> nextTicket, pid |-> Requester(e)]
          ELSE waiter[f]]
    /\ nextTicket' = IF queued THEN nextTicket + 1 ELSE nextTicket

-----------------------------------------------------------------------------
(* Reconciling one execution with its job *)

Terminal(e) == checkpoint[e].state \in {"stopped", "completed"}

ReconcileRefused(e) ==
    LET r == RunOf[e]
        working == recorded[e] = "running"
        attached == checkpoint[e].permit # NoPermit
    IN  \/ e \in Waiting \cap Holding
        \/ /\ e \in Waiting
           /\ \/ working
              \/ /\ Active(r) /\ control[r].phase # "stopping"
                 /\ PidAlive(r, waiter[e].pid)
        \/ /\ e \notin Waiting
           /\ \/ e \notin Holding /\ attached /\ ~(Terminal(e) /\ ~working)
              \/ e \in Holding /\ ~attached /\ working
              \/ e \in Holding /\ attached /\ checkpoint[e].permit # permit[e]
              \/ e \in Holding /\ Terminal(e) /\ working

Stale(e) ==
    LET r == RunOf[e] IN
    \/ ~Active(r)
    \/ control[r].phase = "stopping"
    \/ ~PidAlive(r, permit[e])

\* Whether reconciling tells the run to forget its attached permit.
Forgets(e) == checkpoint[e].permit # NoPermit /\ Terminal(e)

Reconcile(S) ==
    LET released == {e \in S : \/ Forgets(e)
                               \/ checkpoint[e].permit = NoPermit /\ Stale(e)}
    IN  /\ \A e \in S : ~ReconcileRefused(e)
        /\ waiter' = [e \in Execution |-> IF e \in S THEN NoWaiter
                                          ELSE waiter[e]]
        /\ permit' = [e \in Execution |-> IF e \in released THEN NoPermit
                                          ELSE permit[e]]
        /\ UNCHANGED nextTicket

CancelRunWaiters(r) ==
    /\ waiter' = [e \in Execution |-> IF RunOf[e] = r THEN NoWaiter
                                      ELSE waiter[e]]
    /\ UNCHANGED <<nextTicket, permit>>
=============================================================================
