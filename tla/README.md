# Verification of the research-logging runtime

The repository is a collection of agent skills. Its one real program is the
research-logging runtime under `src/skills/research-logging/scripts`: it runs
research commands, records what they did, and reproduces them later. This
directory holds TLA+ models of that program's concurrent and crash-prone parts
and of its decisions,
the TLC configurations that check them on small instances, and TLAPS proofs of
their most important properties for all instances.

Paths below are relative to `src/skills/research-logging/scripts` unless they
start with `src/`.

## The system

A research log is a Markdown summary with one directory per entry. An entry
declares its data (`data.json`), evidence and commands; `pyrun.json` records
what each command did. Everything is plain files and SQLite databases, changed
by short-lived command-line processes which any number of people and agents
start at the same time, and which can be killed at any point. There is no
server. Coordination is done by `flock` locks, record files, SQLite
transactions and checks whether a process id is alive.

| Component | State it keeps | Operations | Hard behaviour |
|---|---|---|---|
| Artifact reservations (`research_log_reservations.py`, `pyrun_worker.py`) | one record file per running ordinary command, one candidate file per finished one | reserve, register worker, release abandoned, finish recovery, check access | records outlive processes; the lock covers only the record operations, not the command |
| Ordinary execution (`pyrun`, `research_log_recovery.py`, `validation/pyrun_state.py`) | `pyrun.json`, local observations of a launcher | snapshot, observe, reserve, spawn, confirm, publish, recover, orphan cleanup | hours pass between observation and publication; edits, crashes and other runs in between |
| Permit scheduler (`log_commands/reproduction_scheduler.py`) | project-wide SQLite: tickets, exclusive waiters, permits with claims | poll, reconcile, cancel waiters, drop dead rows | many runs, priorities, grants committed apart from the runs they belong to |
| Work job store (`reproduction_work_job.py`, `reproduction_job_control.py`) | one SQLite per accepted run: control, owner, checkpoints, workers, results, publication | some thirty guarded transactions | each is atomic, their order is not |
| Supervision and execution (`reproduction_work_supervision.py`, `reproduction_work_execution.py`, `reproduction_execution.py`) | a detached process: main thread, thread pool, confined commands | launch, poll, attach, start, spawn, monitor, complete, release, publish, fail | stop requests race every step |
| Recovery and lifecycle commands (`reproduction_work_recovery.py`, `reproduction_process_recovery.py`, `reproduction_jobs.py`) | none of their own | launch, stop, resume, recover | they act on what a dead process left, and may die themselves |
| Publication, saved results, reports (`reproduction_work_publication.py`, `reproduction_saved_storage.py`, `research_log_result_store.py`) | shared result store with generations, Markdown report | commit a run, acknowledge, materialize the report | three commits, other publishers in between |
| Promotion (`reproduction_promotion.py`) | marker file, staged copies | promote the outputs of a reproduced execution | check-then-act against launches; rollback of copies |
| Source reconciliation (`reproduction_reconciliation.py`) | `pyrun.json`, acknowledgment in the job | clear a reproduction requirement | write and acknowledgment are two commits |
| Authoring (`authoring_transactions.py`, `graph_state.py`, `data.py`, `evidence.py`, `retention.py`, command and evidence sync, reorganize) | the registries of an entry | merge, publish several files, roll back | residue markers must survive exactly when repair is needed |
| Operation locks and residues (`validation/operation_state.py`, `storage.py`) | lock files, owner notes, residue markers | lock, mark, finish, refuse | stale owner notes, markers after kills |
| Validation (`validation/controller.py`, `engine.py`, `snapshot_storage.py`) | snapshots in the result store, report | validate log or entry | files change while they are validated |
| Caches (`validation/fingerprint_cache.py`, `validation_cache.py`) | SQLite of fingerprints by file identity | lookup, store, compact | edits between stat and read |
| Mechanical evaluation (`validation/engine.py`, `provenance.py`, `commands.py`, `domain.py`) | surfaces, invocations, checks, caches of walks; nothing durable | open, discover, admit producers, walk, check records, build the attempt | conclusions rest on each other; the entry by itself must see what the log sees; any check may fail |
| Parsing, static analysis, presentation, dispatch, scaffolding, stream capture | none shared | pure or sequential | none a model would show |

How they interact. `pyrun` takes reservations, publishes to `pyrun.json`, and
is the recovery tool for its own crashed launches; authoring transactions ask
the reservations for access before they move files. `log reproduce run` plans
from the entry registries, creates a work job and spawns a supervisor that
inherits its scope locks; the supervisor's threads poll the scheduler, whose
decisions read the jobs of other runs to judge dead permits; `stop` and
`resume` recover a dead supervisor's run before they do anything else. A
finished run reconciles `pyrun.json` and publishes to the result store, from
which promotion, inspection and validation reports read.

What makes each component correct:

- *Reservations*: no two commands whose declared paths clash use them at the
  same time, whatever was killed; abandoned records can be cleared, live ones
  cannot.
- *Ordinary execution*: what is published is what ran on inputs that stayed
  what they were, observed after the last process of the command, never
  overwrites a result its launcher did not see, and is published once.
- *Scheduler*: commands of all runs exclude each other as their claims and
  kinds demand, orphans included; exclusive work is not starved.
- *Job store, supervision, recovery*: a run always closes, closing leaves
  nothing behind, a resume repeats only what was interrupted, a stop is not a
  failure, an interrupted publication can be finished.
- *Publication and results*: a report never shows a generation other than the
  one it is marked with; retrying a publication repeats nothing.
- *Promotion*: outputs, metadata and report change together or not at all, and
  no active run reads an output that is being replaced.
- *Authoring*: half-written registries always leave a residue, and residues
  remain only where repair is needed.
- *Evaluation*: what cannot be judged names why, no producer is overlooked, and an
  entry by itself is concluded as in its log.
- *Caches*: a fingerprint is returned only for the bytes it was computed from.

`PROJECT.json` lists the hazards at their lines, with the properties that
cover them, or why none does yet.

## The modules

| Module | Models |
|---|---|
| `ArtifactAccess` | abstract: using an artifact set, with clashing users excluded. What both the reservations and the scheduler promise |
| `Reservations` | the record and candidate files and every operation on them |
| `OrdinaryExecution` | EXTENDS `Reservations`: launchers, workers, recoverers, operators, authors |
| `WorkJob` | the job store: one operator per transaction |
| `Scheduler` | EXTENDS `WorkJob`: the permit database and its decisions |
| `ReproductionRun` | EXTENDS `Scheduler`: supervisors, pool threads, commands, stop, resume, recovery |
| `ReproductionPlan` | the pure decisions of a reproduction: what is current, what a run selects, accepts and awaits |
| `SavedResults` | EXTENDS `ReproductionPlan`: the reproduction domain of the result store, its indexes, generation and marker |
| `ReproductionHistory` | EXTENDS `SavedResults`: runs of one log over its history, with edits, stops, reconciliation, publication, rendering and promotion |
| `RegistryOps` | registries as slots in files, and what a command makes of them |
| `AtomicRegistries` | EXTENDS `RegistryOps`, abstract: changes appear at once or the entry is damaged |
| `RegistryPublication` | EXTENDS `RegistryOps`: locks, markers, replacement file by file, rollback, repair |
| `FileObservation` | files that are edited at any time, and the caches of fingerprints and selections |
| `ValidationResults` | EXTENDS `FileObservation`: validation of a log or an entry step by step, its snapshots and report |
| `ResearchLog` | a log as its validation reads it: registries, commands, evidence, and the index of producers |
| `MechanicalEvaluation` | EXTENDS `ResearchLog`: the evaluation of a log, then of one of its entries, phase by phase, with the walk through producers and its caches |
| `OrdinaryExecution_proofs`, `RegistryPublication_proofs`, `ReproductionHistory_proofs`, `ValidationResults_proofs`, `MechanicalEvaluation_proofs` | theorems of the module each is named after |
| `ReproductionRun_proofs`, `ReproductionCover_proofs`, `ReproductionClosing_proofs` | theorems of `ReproductionRun`, each module on top of the one before: types and permits, exclusion of commands, closing |
| `MCOrdinaryExecution`, `MCReproductionRun`, `MCReproductionHistory`, `MCRegistryPublication`, `MCValidationResults`, `MCMechanicalEvaluation` | constants of the checked instances |

`WorkJob`, `Scheduler`, `ReproductionPlan`, `SavedResults`, `RegistryOps`,
`FileObservation` and `ResearchLog` are libraries without a next-state relation of their own: their
operators are fired by the module that extends them. Operators marked `Deviation`
are not part of any specification: each is a definition of the model with a
plausible programming error, kept to show that the properties notice it.

`ReproductionRun` and `ReproductionHistory` model the same runs at two grains. The
first has the processes, permits and transactions of a run and takes its
executions as independent; the second has the plan, dependencies, outputs,
comparisons and results of whole runs, each of which is its durable job, and takes
from the first that a job is worked on by one supervisor at a time and can be
stopped at any point.

### Ordinary execution

`record[i]` and `candidate` are the two files of invocation `i`; `launcher[i]`
is the program counter of `pyrun main`, `worker[i]` the process group of its
command (`spawned`, `running`, `lingering` once its leader left descendants,
`gone`), `seen[i]` the launcher's local variables. Files have a `version` that
each change increments, directories are prefixes of path sequences so that
writing a directory's member touches the directory. `authority[c]` is the
version of everything the recipe of command `c` depends on besides its inputs.

What the code does inside the entry lock or the reservation lock is one step;
what it does outside is a step of its own. Every error ends the launcher
through its `finally`: `Abort` stands for all of them, so it can happen at any
point where an exception can. A killed launcher (`LauncherDies`) leaves its
worker running. `Recover*` are the steps of `pyrun recover`, each unlocked check a
separate step, its two observation passes and the interrupted cleanup included.
`Release` is `log command release` and may die between its two unlinks.

### Reproduction

Per run, `control`, `owner` and `journal` are the rows of the job's control
tables, and per execution `checkpoint`, `recorded` and `result` those of its
attempt. `waiter`, `permit` and `nextTicket` are the scheduler's tables and `lock`
its coordinator lock. A supervisor process is named by how many supervisors its
run had so far; `supervisor[r]` says which is the newest and whether it lives.
A permit is named by the supervisor it was granted to (a supervisor is granted
an execution at most once).

`main[r]` is the supervisor's main thread (or the launcher before it),
`thread[e]` the pool thread that executes `e`, `proc[e]` the command's process
tree, `recovery[r]` the recovery of `r` by `stop` or `resume`. Each SQLite
transaction is one step. A grant and its attachment are two, under the
coordinator lock, which the operating system frees when the process dies.
`Crash` ends a supervisor with all its threads between any two steps and leaves
its commands running; `RecovererDies` and `LauncherDies` do that to the
processes of stop, resume and run. `ThreadFault` and `MainFault` are operational errors: an
exception at any step, after which the command may or may not have survived the
attempt to kill it.

### Reproductions over the history of a log

`ReproductionPlan` takes the state of the log, `code` (the effective code of a
command, which may be `Opaque`: it has no fingerprint), `file` (its retained
output), `observed` (what `pyrun.json` records), `requires` and `flagged`, and
gives what `reproduction_planner.py` makes of it. `Prepare` is the acceptance of a
request: which commands are selected, which are reused, blocked or not run, in
what order they wait, and which are the boundary whose outputs are verified as
inputs. `job[r]` is that plan with the results so far; `job` is a partial function, of
the runs that were accepted, and keeps in `log` and `index`, for the properties only,
what the plan was made from. `store` holds the saved runs (`runs`, a partial function
too) with the indexes to the latest observation of every command and artifact.

One step of `ReproductionHistory` is one transaction or one commit: accept, execute,
compare, reconcile `pyrun.json`, acknowledge, freeze, publish to the store,
acknowledge, write the report, mark it, and the steps of a promotion: marker, copy,
reproduction metadata, report, end. Edits of the log, ordinary reruns included, come in
between wherever no lock forbids it. Stops, deaths and failing publications are
bounded by `MaxStops`.

### Registries

A registry file holds slots (declarations, evidence records, references,
executions); a slot has an `authority` (its content as far as a sync prepares it), a
`policy` (fields other commands change) and slots it uses. A command prepares from
the files it read, takes the log lock (shared or exclusive), its entry locks in
order, checks the markers, creates its own, rereads and merges, replaces its files
one at a time, and removes the markers or restores the files. Every file operation
of a `Faulty` command may fail, before or after it has effect, and `Mortal` ones are
killed anywhere. `torn` is a history variable: the files a command replaced while
neither all are nor they are restored.

### Validation

`timeline` is all files at the start and after every edit; the identity of a file is
the number of the edit that wrote it, which is what device, inode, size and times
amount to when every write changes them. `scan` is the memory of the process that
holds the log lock: it reads the documents, then looks at each source (identity,
fingerprint through the cache, identity, selection through the cache or by reading
again, identity) and at the input directory (list, hash each member, list again),
and then verifies: identities of sources, digest of the directory, identities of all
files below the log. Each look at a file is a step, so that edits fall between any
two. `results` is the validation domain of the result store: the snapshot of the log,
those of entries, the generation and the marker of the report.

### Mechanical evaluation

`log` is everything the evaluation reads and never changes. Entries are numbered in
the order of the summary, commands in the order of their documents, which is the
order that decides who can produce what. `scope` says whether the whole log or
`target` alone is evaluated; one behaviour does both, one after the other, and keeps
in `attempts` how each ended. A phase of `_scan` is one step, except that the closure
takes a step for each round of admission (`Reach`, `Discover`) and the walk one for
each material: `stack` holds the producers from the evidence up with what is left of
their inputs, `traces` the invocation traces that the code reuses, `results` what each
evidence material led to, `job` the record that is evaluated. `checks` is the set of
checks with their dependencies, `twice` remembers the identities that were recorded
again, which `ValidationAttempt` refuses.

The order of steps is fixed by the log, as in the code: nothing here is
concurrent. What is chosen is the log.

### What the models leave out

- `ReproductionRun`: readiness by dependencies (it is in `ReproductionHistory`); the
  order among ready executions is any, where the code takes plan order.
- A process between `fork` and `exec`, which does not yet carry the run's
  marker; reuse of process ids; a descendant that leaves its process group
  (ordinary) or clears its environment (reproduction).
- The gate byte between launcher and supervisor: the supervisor's first step
  follows its registration.
- Recovery's request and acknowledgment of a stop are one step: a crash in
  between equals a crash after a user's request.
- Repeated signals to a command that survives: `CommandEnds` may come any time.
- Size limits other than the number of reservations and of selection rows;
  malformed databases and their recreation.
- `OrdinaryExecution`: bytes that change and change back are not seen by the code,
  which compares fingerprints; versions only grow, and no property claims otherwise.
- Claims: the planner gives every execution private write paths, so in practice
  claims of different runs clash by exclusivity only. The instances give one
  execution a read path of another's to exercise the rest of the rule.
- `ReproductionPlan`: several outputs per command, comparison policies other than
  by evidence or by content, inherited outputs and manual inputs.
- `RegistryPublication`: the parsing of declarations, the rewriting of links and the
  renaming of directories in a relocation, which are replacements of files here.
- `ValidationResults`: what the rules conclude from the values (a snapshot is clear
  if every check could be made; see `MechanicalEvaluation`); identity files and file patterns; several
  directories; edits that keep the identity of a file; disabled or corrupt caches;
  explicit clearing of results; an entry validated dry. An edit always changes the content.
- `MechanicalEvaluation`: rejected commands and their candidates, conformance of
  execution records with their commands, orphans and unused inputs, comparisons,
  artifact records, the report context. An entry has one document; declared inputs are
  files; a command writes at most one directory and nothing below it again; a
  directory exists and has some other file in it. The order of owners in a finding is
  not kept, and `lineage.cycle` cannot come up, since producers precede consumers.

## What the runs check

Each run has its own configuration. Deadlock checking is off in all of them
because the programs end: every launcher, supervisor, command and task of a finite
instance may be over. Every property of a passing run is violated when one
definition of the model is replaced by a `Deviation` next to it (`PROJECT.json`,
`mutants`).

### Ordinary execution (`MCOrdinaryExecution`)

| Run | Instance | Shows |
|---|---|---|
| `ordinary_rerun` | two runs of one recipe, two recoverers, one edit of the input or of the recipe's authority | `Sheltered`: whoever uses artifacts has its record. `PublishedInputsHeld`: a published run had the same inputs from before its first look to after its last process. `ReceiptsAreRecovered`: a candidate without a record is left by a published recovery only. `OutputsSettled`: outputs are recorded when no process of the command is left, as they are on disk. `NoLostExecution`: a publication, a retried recovery included, replaces only what its launcher saw at its start. `ImplementsAccess`: the record protocol implements `ArtifactAccess` |

Two invocations are enough for a clash, for two publications of one key and
for a reservation at the bound; two recoverers for a recovery that is
repeated while the first one sleeps. `MaxEdits` and `MaxVersion` bound how often
files change: one change is what an observation can miss, and the versions tell
it apart from what was there before.

### Reproduction processes (`MCReproductionRun`)

| Run | Instance | Shows |
|---|---|---|
| `reproduction_contention` | run `r1` with an exclusive execution and one operational error; run `r2` with two ordinary ones in a pool of two, killed, recovered, resumed | `AccessSpec`: permits implement `ArtifactAccess` for the commands that really run. `LiveCommandsCovered`: a running command is covered in both databases. `AuditHolds`: the scheduler never refuses its own state. `CompletedWorkStays`: results stay and their commands do not run again. `ClosedRunsQuiet`: a closed run has no command, no open attempt and no permit that would block other runs |
| `reproduction_lifecycle` | one run, one execution, three supervisors; stops, an error, kills of launcher, supervisor and recoverer | `ClosingSucceeds`: whoever gave up ownership can finish the stop. `RunsClose`: an active run eventually is not |
| `reproduction_waiting` | exclusive `a` in `r1`, killed and not recovered; exclusive `b` and ordinary `c` in `r2`, stopped | `WaitersServed`: an exclusive waiter gets its permit, or its run stops or its supervisor ends. `SupervisorsEnd`: no supervisor waits forever for another run, dead ones included |
| `reproduction_fault_hang` | exclusive `a` in `r1`; two ordinary executions in `r2`, one of which fails | a failed supervisor never ends (finding) |
| `reproduction_publication` | one run, kills, a stop | a frozen publication that can neither resume nor complete (finding) |

Bounds. `MaxSupervisors` is the number of supervisors a run may have: two show
a resume after a crash, three a resume after a crash of a resumed run. At most
one operational error per run (`faulted`) and one pending stop command per run
(`stopper`) at a time; stop requests repeat with every supervisor. Two runs are
what it takes to compete, two executions of one run what it takes for one thread
to wait while another holds; an exclusive and two ordinary ones show a waiter that
holds up the rest. `RunOf`, `Reads`, `Mutable` are chosen so that both reasons of a
conflict, kind and path, occur. The instances are not symmetric (runs differ in
what may happen to them), so no symmetry is used.

### Reproductions over the history of a log (`MCReproductionHistory`)

| Run | Instance | Shows |
|---|---|---|
| `reproduction_history` | `b` of entry 2 reads the output of `a` of entry 1; a request for the log and a rechecking one for entry 2; two runs, one edit or promotion, one stop or failure | `SettledWork`: after a run that nothing disturbed, an incremental one schedules nothing but what follows from commands the code is known to repeat (those without a fingerprint, those a recheck passed over, and once those whose reconciliation changed what they are compared by). `SavedMatchesBaseline`: saved comparisons, reused ones too, are about what their run accepted. `PrerequisitesHeld`: no command runs on outputs that were not reproduced. `MarkedReportIsCurrent`: a report is marked only for the newest run of the generation. `BoundariesNotPromoted`: no run verifies outputs while they are promoted. `ReconciledWorkIsCurrent`: `pyrun.json` is updated for what it still records. |
| `reproduction_authority` | `a` is not automatic, its script is edited | a command that is not automatic is scheduled without the option for it (finding) |

Two runs are what it takes for one to reuse, replace or overtake the other; one
edit falls before, during or after each, and `Rerun`, `Overwrite`, `EditCode` and `Flag` are
every way in which it changes what the planner reads; one stop leaves every state
a resume can meet. Fingerprints are interchangeable (symmetry).

### Registries (`MCRegistryPublication`)

| Run | Instance | Shows |
|---|---|---|
| `registry_authoring` | a sync that adopts a reference, one across two entries, a rename across both, a change of policy, a `pyrun`; the rename is killed and fails anywhere, the run fails, a sync is interrupted | `TornIsMarked`: half-written registries carry a marker. `MarkedIsUnfinished`: nothing else does. `UsesResolve`: no publication leaves a reference without its declaration. `NoLostUpdate`: nothing is overwritten that a command did not see. `ImplementsAtomic`: it implements `AtomicRegistries`. `CommandsEnd`: the locks do not deadlock |
| `registry_relocation` | a sync and a relocation that fails | a relocation that was undone keeps its marker (finding) |

Five commands over two entries and three files are the smallest set in which
every pair of kinds meets in one file and a publication writes two files of one entry
and one of another.

### Validation (`MCValidationResults`)

| Run | Instance | Shows |
|---|---|---|
| `validation_edits` | two validations of the log (two sources, a directory of two members and a document; the second one without document and second source), one of an entry, a rendering; two edits; the first validation is killed or fails anywhere | `CachesAreTrue`: what the caches hold was so. `SnapshotsAreCuts`: a clear snapshot is of one moment. `MarkedReportIsExact`: what is called current is the rendering of the snapshot. `RenderRecovers`: a rendering makes the report current again |

Two edits change a file back or change one file after another is read, two
validations fill a cache and use it, two members and two sources let an edit fall
between them. Dry runs and launches are in the model; they add no new step to this
instance and are left out of it, but not out of the theorems.
Contents are interchangeable (symmetry). Four million states.

### Mechanical evaluation (`MCMechanicalEvaluation`)

| Run | Instance | Shows |
|---|---|---|
| `evaluation_agreement` | three thousand logs of three entries, each with every entry as the target: every choice of three commands from twelve; five logs with every combination of absent inputs and of missing or broken execution records and registries; origins and declarations that differ | `WalksExact`: walks that reuse traces and results conclude what each would by itself. `FailuresExplained`: what is blocked has a recorded cause that does not pass, the whole log is always concluded, and no producer is overlooked because it failed. `EntryAgrees`: both evaluations end, and the entry is concluded as in the log, unless one of the five conditions of `Plain` fails |

Three entries are what it takes for an entry to be reached through another, and for
two others to disagree with each other. Two files and one in a directory give
producers that write the same, the directory, or a file in it. `MaxDepth = 1`
lets walks end at their bound. Each condition of `Plain` is necessary: without it
one of these logs is a counterexample.

### Fairness

`OrdinaryExecution`, `ReproductionHistory` and `ValidationResults` have no liveness
property: nothing in `pyrun` or in validation retries, and a stopped run waits for a
person.

`SupervisorFairness` is weak fairness of each supervisor's main thread, of each
pool thread and of the end of each command. The operating system schedules living
threads, the threads sleep with timeouts and poll again, and a command ends
because of its execution timeout. Crashes, errors, stops and resumes are never
fair. `RecoveryFairness` is strong fairness of the recovery's steps: it says that
somebody keeps calling `stop` or `resume` on a run whose supervisor died, and is not
killed every time. The code cannot promise that, so only `RunsClose`, which needs
it, is checked with it (`RecoveredSpec`); `WaitersServed`, `SupervisorsEnd` and
`FaultedRunsEnd` are checked with `LiveSpec`, in which a lost run may stay lost. A
scan is fair only when every process of the run is gone, since survivors end the
recovery early.

`Spec` of `MechanicalEvaluation` is weakly fair in its only process: an evaluation
that can go on does.

`FairSpec` of `RegistryPublication` is weak fairness of each command's own steps: a
process that can go on does, and a `flock` that can be granted is.

## What is proved

All theorems hold for every value of the constants that satisfies the
assumptions named in the modules and, where a theorem names one, its hypothesis.
Sets may be infinite.

*Ordinary execution* (`OrdinaryExecution_proofs`). `Sheltered` is inductive
together with the types of the variables it reads (`StoreInv`): a record is
created before the worker it protects, registered before the worker may run, and
removed only by its own finished launcher or when `Abandoned` holds, which reads
both processes. `ShelteredAlways` states it, `ExclusionAlways` derives that
clashing commands are never in use together, and `ReservationsImplementAccess`
that the protocol refines `ArtifactAccess`: one invocation moves per step, and one
that starts using its artifacts already had a record that clashes with no
other.

What is published needs `OrdinaryInv`, which adds to `StoreInv` what each launcher
and each recovery remembers (`Values`), that a command has left before its outputs are
observed (`Walked`), that whoever published has nothing left to run or to
publish (`Published`), where a candidate without record can come from (`Receipts`), and
that versions only grow, so that inputs that were confirmed after the command were the
same all along (`Inputs`).
`PublishedInputsAlwaysHeld`, `ReceiptsAlwaysRecovered` and `TypeAlways` follow, and
`NoExecutionEverLost`, for a publication compares `pyrun.json` with the snapshot in the
step that replaces it. `OutputsAlwaysSettled` has a hypothesis, `OutputsNotEdited`:
nobody but commands writes declared outputs. A reserved output cannot change, but
by somebody who takes no reservation, and the code neither prevents nor claims
to see that. `ReservationsBounded` gives the bound that the code really keeps: it is
compared before the record is added, so `MaxReservations + 1` records can exist.

*Permits* (`ReproductionRun_proofs`). `AuditHolds`, the condition the code
audits, is not inductive: it restricts exclusive permits only, and says nothing
of an ordinary grant. `PermitInv` strengthens it to pairwise compatibility of all
permits, disjointness of waiters and holders and order of tickets. Every
step of the system decides, removes rows or leaves the tables alone; a grant
fits because `Grantable` compares it with exactly the permits that the same
transaction retains. `PermitsCompatibleAlways` and `AuditAlwaysHolds` follow.

*Types* (also `ReproductionRun_proofs`). `TypeAlways`, transaction by transaction.

*Exclusion of reproduced commands* (`ReproductionCover_proofs`).
`LiveCommandsCovered` is inductive only with the facts that explain why nobody
takes a permit away (`CoverInv`): an attempt is attached while the coordinator
lock of its grant is held (`GrantsLocked`), the threads before the spawn have no
command (`SpawnedLast`), threads exist only while their supervisor does
(`ThreadsOwned`, `PidsGiven`), and a recovery works only where neither supervisor
nor command is left (`RecoveriesAlone`). Polls of other runs drop a dead permit
only when its job has none attached, and reconciliation releases only attempts
that are over, so a covered command stays covered whoever dies.
`LiveCommandsAlwaysCovered` states that; with `PermitsCompatible` it gives
`PermitsImplementAccess`: only a spawn makes a command run, the spawned and the
running ones all hold permits, and permits never conflict.

*Closing* (`ReproductionClosing_proofs`). `ClosedRunsQuiet` speaks of runs that nobody
works on any more, and is an accident of the whole history unless it is known of open
runs who will give their work back. `QuietInv` says that: an attempt or a permit that
is open belongs to a pool thread past its grant, or the main thread is failing or
gone, or an error is recorded, and then the run is closed only by who releases it
first. `ClosingSucceeds` is nearly inductive: the transaction that closes is tried by
those who saw its conditions, and nobody else can undo them once the ownership is
given up. `CompletedWorkStays` is proved as an action property from the same facts.
One lemma bears most of the work: a step of one run changes nothing of the others but
for permits that it takes away (`Local`).

*Registries* (`RegistryPublication_proofs`). `TornAlwaysMarked` needs to know
at every position of a command which markers it made, which files it has replaced and
that what is not torn is as it was (`Inv`); a command removes markers only when it
replaced everything, restored everything or touched nothing. It is proved under
`NoDataInterrupt`: no data command is interrupted from the keyboard, because the
handler of that interrupt removes the markers of half-written registries (a listed
hazard; without the hypothesis the theorem is false). `MarkedAlwaysUnfinished`
adds that every marker has one maker, and `NoRelocation`, because of the finding
above it.

`AtomicInv` extends `Inv` to what commands know of each other: who holds which lock
(`Locks`), who made which marker (`Makers`), that the markers a command passed by
are still absent where it holds the lock (`Vetted`), and that the files of a command
that writes are those it merged into (`Contents`, `Apart`). `PublicationsAreAtomic` is
the refinement of `AtomicRegistries`: a publication appears in the step that replaces its
last file, as one change on top of what is visible then. It needs `NoLateRun`: no
`pyrun` publishes into an entry that a sync can leave torn while `pyrun` waits for its
lock, since markers are looked for before the lock is awaited (`storage.py:88`, a listed
hazard). `UpdatesNeverLost` needs `NoDataInterrupt` only. `UsesAlwaysResolve` also
needs that commands state what they use (`UsesStated`), and that no sync they may wait
for leaves torn what they read, which is under the lock they wait for (`WholeReads`, for
the same reason as `NoLateRun`). The checked instance satisfies each of these
hypotheses, so the run shows its properties where the theorems apply.

*Reproductions over the history of a log* (`ReproductionHistory_proofs`). None of the
properties is inductive, since each compares what was saved with what was
planned, possibly runs ago. `IInv` says that plans remain what preparation made of
the log and the index they were made from (`Planned`), how far a job is (`Progress`),
that what ran had its prerequisites and what is blocked has a cause (`Held`), that saved
runs are the completed jobs (`Archived`), that reused comparisons were made by saved
runs on the accepted baseline (`Reused`), and what a promotion holds (`Promotes`); the
two properties about reports and promotions are parts of it. All properties of the run
follow. `WorkAlwaysSettled` compares the plan of a second run with that of the first,
command by command, through what the first run has changed in between. An earlier
form of `SettledWork` held in the checked instance and turned out to be false for larger
ones: a command whose requirement was cleared, or whose source was adopted with
other inputs, is repeated once. The property now excepts exactly those.

*Validation* (`ValidationResults_proofs`). The invariant says what the memory
of an observation knows at each of its stages. A source was first looked at under
an identity; what is hashed or evaluated later was its content under an identity
that is no older, so that it is the content of that identity if the file still has
it (`SettledContent`, from `History`: identities never come back). Between the two listings of a
directory there is a moment (`Between`) that no member had left before the first
listing or will have left at the second, which pins all of them to that moment. When
the verification begins nothing has an older identity than it was seen with
(`Verified`), and each successful comparison pins one more source to that moment, and the
last one all documents. `SnapshotsAlwaysCuts`, `CachesAlwaysTrue`,
`ReportAlwaysExact` and `TypeAlways` follow without any hypothesis.

*Mechanical evaluation* (`MechanicalEvaluation_proofs`), for all logs that are
`WellFormed`. `EvaluationInv` follows the causes. What an input depends on is one of two
kinds of checks, neither of which ever passes, and is settled when the entry is
loaded (`Settled`), so that the commands that were observed keep what they need while
more is recorded. What walks have found and relied on is of commands that were
observed, and a producer that is missing is missing among all of them (`Walked`). In
the whole log every absent input is a failure of its surface (`Whole`), so that no
command that is admitted lacks one and the graph cannot raise.
`FailuresAlwaysExplained` follows. `WalksAlwaysExact` takes `Exactly` besides: each producer
on the stack has concluded of the inputs that it no longer has left what the levels
above them say, the one below awaits the conclusion of the one above, and a trace is the
conclusion about all inputs of a command at its depth, which does not depend on who
asked. That the levels from one material are those from its producer's inputs, one
higher, is an induction over numbers (`LevelsShift`), made from the well-foundedness of
`<` on them.

Only model-checked, because the prover does not reach fairness: the liveness properties
`RunsClose`, `WaitersServed`, `SupervisorsEnd`, `CommandsEnd`, `RenderRecovers` and
`EntryAgrees`. The safety in `EntryAgrees`, that the entry is concluded as in its log, is
not proved either: it compares two evaluations, which would take an invariant that
carries the first along the second. The runs that end in a violation refute their
properties by example. Every other property of a run has a theorem.

## What the models found

Four runs end in a counterexample to something the repository says; `PROJECT.json`
quotes both sides.

1. `FaultedRunsEnd`: a supervisor with a failed thread waits for its other
   threads, which may wait for a waiter of another run that waits for the permit
   the failed thread left for recovery. Recovery leaves live supervisors alone.
2. `FrozenPublicationResumes`: a publication that was frozen and then interrupted,
   stopped or failed can end in a state that no resume accepts.
3. `MarkedIsUnfinished`: a relocation that failed and was undone completely tries to
   remove its marker under the directory it no longer has, and leaves it.
4. `NonautomaticNeedsAuthority`: a command that is not automatic is scheduled
   when it is a prerequisite of one that is, without the option that authorizes it.

More observations are hazards without a run of their own. A stop that arrives
between a thread's check and its next transaction becomes an operational failure.
After an entry was validated, no rendering makes the report of the log current again
until the log is validated: `RenderRecovers` excepts it. Markers are looked
for before the lock of their entry is awaited. A recovery that was interrupted before
it removed its candidate cannot be finished once another run of the recipe is
published. Of several writers of what an entry cites, in one other entry, the
validation of the entry sees the first only; conflicts between entries that are loaded
later are recorded twice and refused; and a producer without execution record whose
input is absent makes the evaluation raise.

## Not modelled, and why

`PROJECT.json` lists every component with its reason. Stream capture, static
analysis, parsing and codecs, presentation and dispatch compute or print without
shared state. Scaffolding creates new directories under names nobody else uses yet.
Repository tooling and the skills that are Markdown only are no part of the program.

What a continuation would add: a proof of the agreement of the two evaluations; the
commands that author entries through the material graph (`log data`, `log evidence`,
retention), which are `RegistryPublication`'s merges here; comparison of artifacts by
evidence rules.
