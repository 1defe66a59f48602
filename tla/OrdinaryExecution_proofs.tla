---------------------- MODULE OrdinaryExecution_proofs ----------------------
(***************************************************************************)
(* Reservations exclude conflicting commands, and what is published is     *)
(* what ran, for any number of invocations, paths, recoverers and authors, *)
(* whatever process dies when.                                             *)
(***************************************************************************)
EXTENDS OrdinaryExecution, FiniteSetTheorems, TLAPS

-----------------------------------------------------------------------------
(* Facts about boundaries *)

\* Clash does not depend on which of the two invocations is asked first.
LEMMA ClashSymmetric ==
    ASSUME NEW i \in Invocation, NEW j \in Invocation, Clash(i, j)
    PROVE  Clash(j, i)
BY DEF Clash, Overlap

\* A reservation that is granted clashes with no reservation on disk.
LEMMA GrantedIsCompatible ==
    ASSUME NEW i \in Invocation, NEW j \in Reserved,
           AccessAllowed(Plan[i].reads, Plan[i].writes, {})
    PROVE  ~Clash(i, j)
BY DEF AccessAllowed, Blocks, Clash

-----------------------------------------------------------------------------
(* The inductive invariant *)

StoreInv == StoreTypeOK /\ Sheltered

LEMMA StoreInvInit == Init => StoreInv
BY DEF Init, StoreInv, StoreTypeOK, Sheltered, Accessing, GroupAlive, Reserved,
       RecordState, LauncherState, WorkerState

\* A step that changes no record and starts no access keeps the invariant.
LEMMA QuietStep ==
    ASSUME StoreInv, UNCHANGED record, StoreTypeOK',
           \A i \in Invocation : Accessing(i)' =>
               Accessing(i) \/ launcher[i] \in {"reserved", "prepared"},
           \A i \in Invocation : GroupAlive(i)' => GroupAlive(i),
           \A i \in Invocation : launcher'[i] \in {"reserved", "prepared"} =>
               launcher[i] \in {"reserved", "prepared"},
           \A i \in Invocation :
               launcher'[i] \in {"idle", "snapshotted", "observed", "reserved",
                                "prepared"} => worker'[i] = "none"
    PROVE  StoreInv'
BY DEF StoreInv, Sheltered, Reserved, Clash, Overlap, Covers

\* A step that removes records of abandoned invocations keeps the invariant.
LEMMA RemovalStep ==
    ASSUME StoreInv, StoreTypeOK', UNCHANGED <<launcher, worker>>,
           \A i \in Invocation :
               record'[i] = record[i] \/ (record'[i] = "absent" /\ Abandoned(i))
    PROVE  StoreInv'
BY DEF StoreInv, StoreTypeOK, Sheltered, Reserved, Abandoned, LauncherAlive,
       RegisteredGroupAlive, Accessing, GroupAlive, Clash, Overlap, Covers,
       LauncherState

\* Steps of one launcher.
LEMMA LauncherKeepsInv ==
    ASSUME StoreInv, NEW i \in Invocation, LauncherStep(i)
    PROVE  StoreInv'
<1> USE DEF StoreInv, StoreTypeOK, LauncherState, WorkerState, RecordState
<1>1. CASE \/ Snapshot(i) \/ ObserveMaterials(i) \/ ConfirmPreparation(i)
           \/ ReapSuccess(i) \/ ReapFailure(i) \/ RetainCandidate(i)
           \/ ConfirmMaterials(i) \/ ObserveOutputs(i) \/ Publish(i)
           \/ Abort(i) \/ LauncherDies(i) \/ RequireWorkerFinished(i)
  <2>1. /\ UNCHANGED <<record, worker>>
        /\ \E to \in LauncherState :
              /\ launcher' = [launcher EXCEPT ![i] = to]
              /\ to \in {"reserved", "prepared"} => launcher[i] = "reserved"
              /\ to \in {"waiting", "checking", "finished", "confirmed",
                         "publishing"} => Accessing(i)
              /\ to \in {"idle", "snapshotted", "observed", "prepared"} =>
                   launcher[i] \in {"idle", "snapshotted", "reserved"}
        /\ candidate' \subseteq Invocation
    BY <1>1 DEF Snapshot, ObserveMaterials, ConfirmPreparation, ReapSuccess,
         ReapFailure, RetainCandidate, ConfirmMaterials, ObserveOutputs,
         Publish, Abort, LauncherDies, RequireWorkerFinished, Step, storeVars,
         Accessing
  <2>2. StoreTypeOK'
    BY <2>1
  <2>3. QED
    BY <2>1, <2>2, QuietStep DEF Accessing, GroupAlive, Sheltered
<1>2. CASE Spawn(i)
  BY <1>2, QuietStep DEF Spawn, Step, Accessing, GroupAlive, storeVars,
     Sheltered
<1>3. CASE Interrupt(i)
  <2>1. /\ UNCHANGED <<record, candidate>>
        /\ launcher' = [launcher EXCEPT ![i] = "exiting"]
        /\ \E after \in WorkerState :
              /\ worker' = [worker EXCEPT ![i] = after]
              /\ after \in {"running", "lingering"} => GroupAlive(i)
    BY <1>3 DEF Interrupt, Step, GroupAlive, storeVars
  <2>2. QED
    BY <2>1, QuietStep DEF Accessing, GroupAlive, Sheltered
<1>4. CASE Reserve(i)
  <2>1. /\ launcher' = [launcher EXCEPT ![i] = "reserved"]
        /\ record' = [record EXCEPT ![i] = "reserved"]
        /\ launcher[i] = "observed"
        /\ UNCHANGED <<candidate, worker>>
    BY <1>4 DEF Reserve, Step, PublishRecord
  <2>2. \A j \in Reserved : ~Clash(i, j)
    BY <1>4, GrantedIsCompatible DEF Reserve, PublishRecord
  <2>3. \A j \in Reserved : ~Clash(j, i)
    BY <2>2, ClashSymmetric DEF Reserved
  <2>4. Reserved' = Reserved \cup {i}
    BY <2>1 DEF Reserved
  <2>5. ~GroupAlive(i)
    BY <1>4 DEF Reserve, Step, Sheltered, GroupAlive
  <2>6. QED
    BY <2>1, <2>2, <2>3, <2>4, <2>5
       DEF Sheltered, Accessing, GroupAlive, Clash, Overlap, Covers
<1>5. CASE Exit(i)
  <2>1. /\ launcher[i] = "exiting"
        /\ launcher' = [launcher EXCEPT ![i] = "gone"]
        /\ UNCHANGED <<candidate, worker>>
        /\ \/ UNCHANGED record
           \/ /\ ~RegisteredGroupAlive(i)
              /\ record' = [record EXCEPT ![i] = "absent"]
    BY <1>5 DEF Exit, Step, ReleaseOwnRecord
  <2>2. StoreTypeOK'
    BY <2>1
  <2>3. QED
    BY <2>1, <2>2 DEF Sheltered, Accessing, GroupAlive, RegisteredGroupAlive,
       Reserved, Clash, Overlap, Covers
<1>6. QED
  BY <1>1, <1>2, <1>3, <1>4, <1>5 DEF LauncherStep

\* Steps of one worker.
LEMMA WorkerKeepsInv ==
    ASSUME StoreInv, NEW i \in Invocation, WorkerStep(i)
    PROVE  StoreInv'
<1> USE DEF StoreInv, StoreTypeOK, LauncherState, WorkerState, RecordState
<1>1. CASE RegisterWorker(i)
  <2>1. /\ worker[i] = "spawned"
        /\ worker' = [worker EXCEPT ![i] = "running"]
        /\ record[i] = "reserved"
        /\ record' = [record EXCEPT ![i] = "registered"]
        /\ UNCHANGED <<candidate, launcher>>
    BY <1>1 DEF RegisterWorker, RegisterRecord
  <2>2. Reserved' = Reserved
    BY <2>1 DEF Reserved
  <2>3. QED
    BY <2>1, <2>2 DEF Sheltered, Accessing, GroupAlive, Clash, Overlap, Covers
<1>2. CASE \/ RegisterFails(i) \/ WorkerWrites(i) \/ LeaderExits(i)
           \/ GroupExits(i)
  <2>1. /\ UNCHANGED <<record, candidate, launcher>>
        /\ \/ UNCHANGED worker
           \/ \E after \in {"lingering", "gone"} :
                 /\ worker' = [worker EXCEPT ![i] = after]
                 /\ worker[i] # "none"
                 /\ after = "lingering" => GroupAlive(i)
    BY <1>2 DEF RegisterFails, WorkerWrites, LeaderExits, GroupExits,
         storeVars, GroupAlive
  <2>2. QED
    BY <2>1, QuietStep DEF Accessing, GroupAlive, Sheltered
<1>3. QED
  BY <1>1, <1>2 DEF WorkerStep

\* Steps of recoverers, operators and authors: they remove records of
\* abandoned invocations, or leave the store alone.
LEMMA OthersKeepInv ==
    ASSUME StoreInv,
           (\E r \in Recoverer : RecovererStep(r)) \/ Release \/ AuthorStep
    PROVE  StoreInv'
<1>1. ASSUME NEW r \in Recoverer, RecovererStep(r)
      PROVE  StoreInv'
  <2>1. CASE RecoverFinish(r) \/ RecoverFinishInterrupted(r)
    <3> DEFINE i == recovery[r].target
    <3>1. /\ Abandoned(i)
          /\ record' = [record EXCEPT ![i] = "absent"]
          /\ candidate' \subseteq candidate
          /\ UNCHANGED <<launcher, worker>>
      BY <2>1 DEF RecoverFinish, RecoverFinishInterrupted, FinishRecovery,
           FinishRecoveryInterrupted
    <3>2. StoreTypeOK'
      BY <3>1 DEF StoreInv, StoreTypeOK, RecordState
    <3>3. \A j \in Invocation :
             record'[j] = record[j] \/ (record'[j] = "absent" /\ Abandoned(j))
      BY <3>1 DEF StoreInv, StoreTypeOK
    <3>4. QED
      BY <3>1, <3>2, <3>3, RemovalStep
  <2>2. CASE ~(RecoverFinish(r) \/ RecoverFinishInterrupted(r))
    <3>1. /\ UNCHANGED <<record, launcher, worker>>
          /\ candidate' \subseteq candidate
      BY <1>1, <2>2 DEF RecovererStep, RecoverLoad, RecoverOrphan,
           FinishOrphanCandidate, RecoverConfirm, RecoverFirstPass,
           RecoverSecondPass, RecoverPublish, RecoverStops, storeVars
    <3>2. StoreTypeOK'
      BY <3>1 DEF StoreInv, StoreTypeOK
    <3>3. QED
      BY <3>1, <3>2, RemovalStep
  <2>3. QED
    BY <2>1, <2>2
<1>2. CASE Release
  <2>1. PICK selected \in SUBSET Reserved :
          \/ ReleaseAbandoned(selected)
          \/ \E done \in SUBSET selected, next \in selected :
                ReleaseInterrupted(selected, done, next)
    BY <1>2 DEF Release
  <2>2. \A i \in Invocation :
           record'[i] = record[i] \/ (record'[i] = "absent" /\ Abandoned(i))
    BY <2>1 DEF ReleaseAbandoned, ReleaseInterrupted
  <2>3. StoreTypeOK'
    BY <1>2, <2>1 DEF StoreInv, StoreTypeOK, RecordState, Release,
         ReleaseAbandoned, ReleaseInterrupted
  <2>4. QED
    BY <1>2, <2>2, <2>3, RemovalStep DEF Release
<1>3. CASE AuthorStep
  <2>1. UNCHANGED <<record, candidate, launcher, worker>>
    BY <1>3 DEF AuthorStep, EditFile, EditMarkdown, AuthoringPublish, storeVars
  <2>2. StoreTypeOK'
    BY <2>1 DEF StoreInv, StoreTypeOK
  <2>3. QED
    BY <2>1, <2>2, RemovalStep
<1>4. QED
  BY <1>1, <1>2, <1>3

LEMMA StoreInvStep == StoreInv /\ [Next]_vars => StoreInv'
<1> SUFFICES ASSUME StoreInv, [Next]_vars PROVE StoreInv'
  OBVIOUS
<1>1. CASE UNCHANGED vars
  <2>1. StoreTypeOK'
    BY <1>1 DEF vars, StoreInv, StoreTypeOK
  <2>2. QED
    BY <1>1, <2>1, RemovalStep DEF vars
<1>2. CASE Next
  BY <1>2, LauncherKeepsInv, WorkerKeepsInv, OthersKeepInv DEF Next
<1>3. QED
  BY <1>1, <1>2

\* Whoever uses its artifacts holds a record, and records never clash.
THEOREM ShelteredAlways == Spec => []Sheltered
<1>1. StoreInv => Sheltered
  BY DEF StoreInv
<1>2. QED
  BY <1>1, StoreInvInit, StoreInvStep, PTL DEF Spec

-----------------------------------------------------------------------------
(* What the invariant is for *)

LEMMA ShelterExcludes == Sheltered => Exclusion
BY DEF Sheltered, Exclusion, Access!Exclusion, Reserved

\* Two commands that use their artifacts at the same time never clash.
THEOREM ExclusionAlways == Spec => []Exclusion
BY ShelteredAlways, ShelterExcludes, PTL

-----------------------------------------------------------------------------
(* What is published: the inductive invariant.                             *)

\* The types, with what the single values are taken from.
SeenType(i, s) ==
    /\ s \in [authority : Nat, state : {s.state},
              inputs : [Plan[i].reads -> Nat], outputs : [Plan[i].writes -> Nat]]
    /\ DOMAIN s.state = KeysOf(Plan[i].cid)

Values ==
    /\ exitCode \in [Invocation -> {"none", "zero", "nonzero"}]
    /\ DOMAIN seen = Invocation
    /\ \A i \in Invocation : SeenType(i, seen[i])
    /\ version \in [Path -> Nat]
    /\ authority \in [Cid -> Nat]
    /\ DOMAIN published = Key
    /\ \A k \in Key : published[k] # NoExecution =>
          \E i \in Invocation : published[k] \in ExecutionOf(i)
    /\ DOMAIN recovery = Recoverer
    /\ \A r \in Recoverer : RecoveryTypeOK(recovery[r])
    /\ edits \in Nat
    /\ disturbed \subseteq Invocation
    /\ completed \subseteq Invocation

Recovering(r) == recovery[r].at # "idle"

\* How far the processes of an invocation are: its command has left when its
\* launcher looks for survivors or kept a candidate, and nothing of it is left
\* when its outputs are observed, by the launcher or by a recovery.
Walked ==
    /\ \A i \in Invocation :
        /\ exitCode[i] = "zero" => worker[i] \in {"lingering", "gone"}
        /\ launcher[i] = "checking" => worker[i] \in {"lingering", "gone"}
        /\ launcher[i] = "retaining" =>
            worker[i] \in {"lingering", "gone"} /\ record[i] # "absent"
        /\ launcher[i] \in {"finished", "confirmed", "publishing"} => worker[i] = "gone"
        /\ i \in candidate =>
            worker[i] \in {"lingering", "gone"} /\ launcher[i] \in {"exiting", "gone"}
    /\ \A r \in Recoverer : Recovering(r) =>
        launcher[recovery[r].target] = "gone" /\ worker[recovery[r].target] = "gone"

\* Who published an execution has nothing left to publish or to run.
Published ==
    \A k \in Key : published[k] # NoExecution /\ published[k].by # Earlier =>
        /\ launcher[published[k].by] \in {"exiting", "gone"}
        /\ worker[published[k].by] = "gone"

Receipts ==
    /\ ReceiptsAreRecovered
    /\ \A r \in Recoverer : recovery[r].at = "published" => recovery[r].target \in completed

\* Versions only grow, so that inputs that are what they were when they were
\* first observed were not disturbed in between.
Inputs ==
    /\ \A i \in Invocation :
        /\ \A p \in Plan[i].reads : seen[i].inputs[p] <= version[p]
        /\ i \in disturbed =>
            /\ launcher[i] \notin {"idle", "snapshotted"}
            /\ \E p \in Plan[i].reads : seen[i].inputs[p] < version[p]
        /\ launcher[i] \in {"confirmed", "publishing"} => i \notin disturbed
    /\ \A r \in Recoverer :
        recovery[r].at \in {"confirmed", "observedOnce", "observedTwice"} =>
            recovery[r].target \notin disturbed
    /\ PublishedInputsHeld

\* What was observed of outputs stays true while they are reserved.
Outputs ==
    /\ \A i \in Invocation :
        launcher[i] = "publishing" => seen[i].outputs = Now(Plan[i].writes)
    /\ \A r \in Recoverer :
        /\ recovery[r].at \in {"observedOnce", "observedTwice"}
        /\ record[recovery[r].target] # "absent"
        => recovery[r].outputs = Now(Plan[recovery[r].target].writes)

OrdinaryInv ==
    StoreInv /\ Values /\ Walked /\ Published /\ Receipts /\ Inputs

LEMMA OrdinaryInvInit == Init => OrdinaryInv /\ Outputs
<1> SUFFICES ASSUME Init PROVE OrdinaryInv /\ Outputs
  OBVIOUS
<1>1. \A i \in Invocation : Plan[i].reads \subseteq Path /\ Plan[i].writes \subseteq Path
  BY PlanAssumption
<1>2. Values
  <2>1. ASSUME NEW i \in Invocation
        PROVE  SeenType(i, seen[i])
    BY <1>1 DEF Init, SeenType, Now, CidState
  <2>2. ASSUME NEW k \in Key, published[k] # NoExecution
        PROVE  \E i \in Invocation : published[k] \in ExecutionOf(i)
    <3>1. PICK i \in Invocation : published[k] =
             [by |-> Earlier, runner |-> "runner", stale |-> FALSE,
              inputs |-> Now(Plan[i].reads), outputs |-> Now(Plan[i].writes)]
      BY <2>2 DEF Init, EarlierExecution
    <3>2. /\ Now(Plan[i].reads) \in [Plan[i].reads -> Nat]
          /\ Now(Plan[i].writes) \in [Plan[i].writes -> Nat]
      BY <1>1 DEF Init, Now
    <3>3. QED
      BY <3>1, <3>2 DEF ExecutionOf
  <2>3. QED
    BY <2>1, <2>2 DEF Init, Values, RecoveryTypeOK
<1>3. \A k \in Key : published[k] # NoExecution => published[k].by = Earlier
  BY DEF Init, EarlierExecution
<1>4. Inputs
  <2>1. ASSUME NEW i \in Invocation, NEW p \in Plan[i].reads
        PROVE  seen[i].inputs[p] <= version[p]
    BY <1>1 DEF Init, Now
  <2>2. QED
    BY <2>1, <1>3 DEF Init, Inputs, PublishedInputsHeld
<1>5. StoreInv
  BY StoreInvInit
<1>6. Walked /\ Published /\ Receipts /\ Outputs
  BY <1>3 DEF Init, Walked, Published, Receipts, Outputs, ReceiptsAreRecovered, Recovering
<1>7. QED
  BY <1>2, <1>4, <1>5, <1>6 DEF OrdinaryInv

\* Recoveries are of invocations, and so is what was published since the start.
LEMMA TargetsAndAuthors ==
    ASSUME Values
    PROVE  /\ \A r \in Recoverer : Recovering(r) => recovery[r].target \in Invocation
           /\ \A k \in Key : published[k] # NoExecution =>
                published[k].by \in Invocation \cup {Earlier}
BY DEF Values, RecoveryTypeOK, ExecutionOf, Recovering

\* A step of a launcher.
LEMMA LauncherKeepsWalked ==
    ASSUME OrdinaryInv, NEW i \in Invocation, LauncherStep(i)
    PROVE  Walked' /\ Published' /\ Receipts'
<1> USE DEF OrdinaryInv, StoreInv, StoreTypeOK
<1>0. UNCHANGED <<recovery, completed, exitCode>>
  BY DEF LauncherStep, Snapshot, ObserveMaterials, ConfirmPreparation, ReapSuccess,
     ReapFailure, RetainCandidate, ConfirmMaterials, ObserveOutputs, Publish, Abort,
     LauncherDies, RequireWorkerFinished, Spawn, Interrupt, Reserve, Exit, history
<1>1. CASE \/ Snapshot(i) \/ ObserveMaterials(i) \/ ConfirmPreparation(i)
           \/ ReapSuccess(i) \/ ReapFailure(i) \/ RetainCandidate(i)
           \/ ConfirmMaterials(i) \/ ObserveOutputs(i)
           \/ Abort(i) \/ LauncherDies(i) \/ RequireWorkerFinished(i)
  <2>1. /\ UNCHANGED <<record, worker, published>>
        /\ \E to \in LauncherState :
              /\ launcher' = [launcher EXCEPT ![i] = to]
              /\ launcher[i] # "gone"
              /\ to = "checking" => worker[i] \in {"lingering", "gone"}
              /\ to = "retaining" =>
                    worker[i] \in {"lingering", "gone"} /\ record[i] # "absent"
              /\ to \in {"finished", "confirmed", "publishing"} => worker[i] = "gone"
              /\ launcher[i] = "exiting" => to = "gone"
              /\ \/ UNCHANGED candidate
                 \/ /\ candidate' = candidate \cup {i}
                    /\ launcher[i] = "retaining" /\ to = "exiting"
    BY <1>1 DEF Snapshot, ObserveMaterials, ConfirmPreparation, ReapSuccess,
         ReapFailure, RetainCandidate, ConfirmMaterials, ObserveOutputs,
         Abort, LauncherDies, RequireWorkerFinished, Step, storeVars,
         LauncherAlive, LauncherState, Walked, RegisteredGroupAlive, GroupAlive,
         Sheltered, WorkerState
  <2>2. Walked'
    BY <1>0, <2>1, TargetsAndAuthors DEF Walked, Recovering
  <2>3. Published'
    BY <1>0, <2>1, TargetsAndAuthors DEF Published
  <2>4. Receipts'
    BY <1>0, <2>1, TargetsAndAuthors DEF Walked, Receipts, ReceiptsAreRecovered
  <2>5. QED
    BY <2>2, <2>3, <2>4
<1>2. CASE Spawn(i)
  BY <1>0, <1>2, TargetsAndAuthors
  DEF Spawn, Step, storeVars, Walked, Published, Receipts, ReceiptsAreRecovered, Recovering,
      Sheltered
<1>3. CASE Interrupt(i)
  <2>1. /\ UNCHANGED <<record, candidate, published>>
        /\ launcher[i] = "waiting" /\ launcher' = [launcher EXCEPT ![i] = "exiting"]
        /\ \E after \in WorkerState :
              /\ worker' = [worker EXCEPT ![i] = after]
              /\ worker[i] = "lingering" => after \in {"lingering", "gone"}
              /\ worker[i] = "gone" => after = "gone"
    BY <1>3 DEF Interrupt, Step, storeVars, WorkerState
  <2>2. Walked'
    BY <1>0, <2>1, TargetsAndAuthors DEF Walked, Recovering, WorkerState
  <2>3. Published'
    BY <1>0, <2>1, TargetsAndAuthors DEF Published
  <2>4. Receipts'
    BY <1>0, <2>1, TargetsAndAuthors DEF Receipts, ReceiptsAreRecovered
  <2>5. QED
    BY <2>2, <2>3, <2>4
<1>4. CASE Reserve(i)
  BY <1>0, <1>4, TargetsAndAuthors
  DEF Reserve, Step, PublishRecord, Walked, Published, Receipts, ReceiptsAreRecovered,
      Recovering
<1>5. CASE Exit(i)
  BY <1>0, <1>5, TargetsAndAuthors
  DEF Exit, Step, ReleaseOwnRecord, Walked, Published, Receipts, ReceiptsAreRecovered,
      Recovering
<1>6. CASE Publish(i)
  <2>1. /\ UNCHANGED <<record, candidate, worker>>
        /\ launcher[i] = "publishing" /\ launcher' = [launcher EXCEPT ![i] = "exiting"]
    BY <1>6 DEF Publish, Step, storeVars
  <2>2. \A k \in Key : published'[k] = published[k] \/ published'[k].by = i
    BY <1>6 DEF Publish, PublishExecution, Values
  <2>3. Walked'
    BY <1>0, <2>1, TargetsAndAuthors DEF Walked, Recovering
  <2>4. Published'
    BY <1>0, <2>1, <2>2, TargetsAndAuthors DEF Published, Walked
  <2>5. Receipts'
    BY <1>0, <2>1, TargetsAndAuthors DEF Receipts, ReceiptsAreRecovered
  <2>6. QED
    BY <2>3, <2>4, <2>5
<1>7. QED
  BY <1>1, <1>2, <1>3, <1>4, <1>5, <1>6 DEF LauncherStep

\* What no step of a launcher changes.
Quiet == <<exitCode, version, authority, recovery, edits, disturbed, completed>>

LEMMA LauncherLeavesWorld ==
    ASSUME NEW i \in Invocation, LauncherStep(i)
    PROVE  UNCHANGED Quiet
BY DEF LauncherStep, Snapshot, ObserveMaterials, ConfirmPreparation, ReapSuccess,
   ReapFailure, RetainCandidate, ConfirmMaterials, ObserveOutputs, Publish, Abort,
   LauncherDies, RequireWorkerFinished, Spawn, Interrupt, Reserve, Exit, history,
   outside, Quiet

\* A launcher changes its own observations only, before its command is
\* reserved and when it is about to publish.
LEMMA LauncherSees ==
    ASSUME OrdinaryInv, NEW i \in Invocation, LauncherStep(i)
    PROVE  /\ DOMAIN seen' = Invocation
           /\ \A j \in Invocation \ {i} : seen'[j] = seen[j]
           /\ SeenType(i, seen'[i])
           /\ \/ UNCHANGED seen
              \/ Snapshot(i) /\ seen'[i].inputs = seen[i].inputs
              \/ ObserveMaterials(i) /\ seen'[i].inputs = Now(Plan[i].reads)
              \/ /\ ObserveOutputs(i) /\ seen'[i].inputs = seen[i].inputs
                 /\ seen'[i].outputs = Now(Plan[i].writes)
<1>0. /\ DOMAIN seen = Invocation /\ SeenType(i, seen[i])
      /\ version \in [Path -> Nat] /\ authority \in [Cid -> Nat]
      /\ Plan[i].reads \subseteq Path /\ Plan[i].writes \subseteq Path /\ Plan[i].cid \in Cid
  BY PlanAssumption, DeclarationAssumption DEF OrdinaryInv, Values
<1>1. CASE Snapshot(i)
  <2>1. seen' = [seen EXCEPT ![i] = [seen[i] EXCEPT !.authority = authority[Plan[i].cid],
                                                   !.state = CidState(Plan[i].cid)]]
    BY <1>1 DEF Snapshot
  <2>2. /\ DOMAIN seen' = Invocation
        /\ \A j \in Invocation \ {i} : seen'[j] = seen[j]
        /\ seen'[i] = [seen[i] EXCEPT !.authority = authority[Plan[i].cid],
                                      !.state = CidState(Plan[i].cid)]
    BY <1>0, <2>1
  <2>3. SeenType(i, seen'[i]) /\ seen'[i].inputs = seen[i].inputs
    BY <1>0, <2>2 DEF SeenType, CidState
  <2>4. QED
    BY <1>1, <2>2, <2>3
<1>2. CASE ObserveMaterials(i)
  <2>1. seen' = [seen EXCEPT ![i] = [seen[i] EXCEPT !.inputs = Now(Plan[i].reads)]]
    BY <1>2 DEF ObserveMaterials
  <2>2. /\ DOMAIN seen' = Invocation
        /\ \A j \in Invocation \ {i} : seen'[j] = seen[j]
        /\ seen'[i] = [seen[i] EXCEPT !.inputs = Now(Plan[i].reads)]
    BY <1>0, <2>1
  <2>3. SeenType(i, seen'[i]) /\ seen'[i].inputs = Now(Plan[i].reads)
    BY <1>0, <2>2 DEF SeenType, Now
  <2>4. QED
    BY <1>2, <2>2, <2>3
<1>3. CASE ObserveOutputs(i)
  <2>1. seen' = [seen EXCEPT ![i] = [seen[i] EXCEPT !.outputs = Now(Plan[i].writes)]]
    BY <1>3 DEF ObserveOutputs
  <2>2. /\ DOMAIN seen' = Invocation
        /\ \A j \in Invocation \ {i} : seen'[j] = seen[j]
        /\ seen'[i] = [seen[i] EXCEPT !.outputs = Now(Plan[i].writes)]
    BY <1>0, <2>1
  <2>3. /\ SeenType(i, seen'[i]) /\ seen'[i].inputs = seen[i].inputs
        /\ seen'[i].outputs = Now(Plan[i].writes)
    BY <1>0, <2>2 DEF SeenType, Now
  <2>4. QED
    BY <1>3, <2>2, <2>3
<1>4. CASE UNCHANGED seen
  BY <1>0, <1>4
<1>5. QED
  BY <1>1, <1>2, <1>3, <1>4
  DEF LauncherStep, ConfirmPreparation, ReapSuccess, ReapFailure, RetainCandidate,
      ConfirmMaterials, Publish, Abort, LauncherDies, RequireWorkerFinished, Spawn,
      Interrupt, Reserve, Exit

\* Only one who could publish did, of what its plan names.
LEMMA PublishedTyped ==
    ASSUME Values, NEW i \in Invocation, NEW runner \in {"runner", "recovery"},
           NEW outputs \in [Plan[i].writes -> Nat], PublishExecution(i, runner, outputs)
    PROVE  /\ DOMAIN published' = Key
           /\ published'[Plan[i].key] \in ExecutionOf(i)
           /\ published'[Plan[i].key] =
                [by |-> i, runner |-> runner, stale |-> FALSE,
                 inputs |-> seen[i].inputs, outputs |-> outputs]
           /\ \A k \in Key \ {Plan[i].key} : published'[k] = published[k]
<1>1. SeenType(i, seen[i]) /\ Plan[i].key \in Key /\ DOMAIN published = Key
  BY DeclarationAssumption DEF Values
<1>2. seen[i].inputs \in [Plan[i].reads -> Nat]
  BY <1>1 DEF SeenType
<1>3. published' = [published EXCEPT ![Plan[i].key] =
                [by |-> i, runner |-> runner, stale |-> FALSE,
                 inputs |-> seen[i].inputs, outputs |-> outputs]]
  BY DEF PublishExecution
<1>4. QED
  BY <1>1, <1>2, <1>3 DEF ExecutionOf

LEMMA LauncherKeepsValues ==
    ASSUME OrdinaryInv, NEW i \in Invocation, LauncherStep(i)
    PROVE  Values'
<1>1. UNCHANGED Quiet
  BY LauncherLeavesWorld
<1>2. \A j \in Invocation : SeenType(j, seen'[j])
  BY LauncherSees DEF OrdinaryInv, Values
<1>3. /\ DOMAIN published' = Key
      /\ \A k \in Key : published'[k] # NoExecution =>
          \E j \in Invocation : published'[k] \in ExecutionOf(j)
  <2>1. CASE Publish(i)
    <3>1. seen[i].outputs \in [Plan[i].writes -> Nat]
      BY DEF OrdinaryInv, Values, SeenType
    <3>2. PublishExecution(i, "runner", seen[i].outputs)
      BY <2>1 DEF Publish
    <3>3. /\ DOMAIN published' = Key
          /\ published'[Plan[i].key] \in ExecutionOf(i)
          /\ \A k \in Key \ {Plan[i].key} : published'[k] = published[k]
      BY <3>1, <3>2, PublishedTyped DEF OrdinaryInv
    <3>4. QED
      BY <3>3 DEF OrdinaryInv, Values
  <2>2. CASE UNCHANGED published
    BY <2>2 DEF OrdinaryInv, Values
  <2>3. QED
    BY <2>1, <2>2
    DEF LauncherStep, Snapshot, ObserveMaterials, ObserveOutputs, ConfirmPreparation,
        ReapSuccess, ReapFailure, RetainCandidate, ConfirmMaterials, Abort,
        LauncherDies, RequireWorkerFinished, Spawn, Interrupt, Reserve, Exit
<1>4. QED
  BY <1>1, <1>2, <1>3, LauncherSees DEF OrdinaryInv, Values, Quiet, SeenType, RecoveryTypeOK

LEMMA LauncherKeepsInputs ==
    ASSUME OrdinaryInv, NEW i \in Invocation, LauncherStep(i)
    PROVE  Inputs'
<1>0. /\ UNCHANGED Quiet
      /\ StoreTypeOK /\ StoreTypeOK'
  BY LauncherLeavesWorld, LauncherKeepsInv DEF OrdinaryInv, StoreInv
<1>1. \A j \in Invocation \ {i} : launcher'[j] = launcher[j] /\ seen'[j] = seen[j]
  BY <1>0, LauncherSees
  DEF StoreTypeOK, LauncherStep, Snapshot, ObserveMaterials, Reserve,
      ConfirmPreparation, Spawn, ReapSuccess, ReapFailure, Interrupt,
      RequireWorkerFinished, RetainCandidate, ConfirmMaterials,
      ObserveOutputs, Publish, Abort, Exit, LauncherDies, Step
<1>2. ASSUME NEW p \in Plan[i].reads
      PROVE  seen'[i].inputs[p] <= version'[p]
  <2>1. p \in Path /\ version[p] \in Nat /\ version' = version
    BY <1>0, PlanAssumption DEF OrdinaryInv, Values, Quiet
  <2>2. seen'[i].inputs[p] \in {seen[i].inputs[p], version[p]}
    BY LauncherSees DEF Now
  <2>3. QED
    BY <2>1, <2>2 DEF OrdinaryInv, Inputs
<1>3. ASSUME i \in disturbed
      PROVE  /\ launcher'[i] \notin {"idle", "snapshotted", "confirmed", "publishing"}
             /\ seen'[i].inputs = seen[i].inputs
  <2>1. /\ launcher[i] \notin {"idle", "snapshotted", "confirmed", "publishing"}
        /\ ~MaterialsUnchanged(i)
    <3>1. PICK p \in Plan[i].reads : seen[i].inputs[p] < version[p]
      BY <1>3 DEF OrdinaryInv, Inputs
    <3>2. seen[i].inputs[p] \in Nat /\ version[p] \in Nat
      BY PlanAssumption DEF OrdinaryInv, Values, SeenType
    <3>3. seen[i].inputs[p] # Now(Plan[i].reads)[p]
      BY <3>1, <3>2 DEF Now
    <3>4. ~MaterialsUnchanged(i)
      BY <3>3 DEF MaterialsUnchanged
    <3>5. QED
      BY <1>3, <3>4 DEF OrdinaryInv, Inputs
  <2>2. ~Snapshot(i) /\ ~ObserveMaterials(i) /\ ~ConfirmMaterials(i) /\ ~ObserveOutputs(i)
    BY <2>1 DEF Snapshot, ObserveMaterials, ConfirmMaterials, ObserveOutputs, Step
  <2>3. launcher'[i] \notin {"idle", "snapshotted", "confirmed", "publishing"}
    BY <1>0, <2>1, <2>2
    DEF StoreTypeOK, LauncherStep, Reserve, ConfirmPreparation, Spawn, ReapSuccess,
        ReapFailure, Interrupt, RequireWorkerFinished, RetainCandidate, Publish, Abort,
        Exit, LauncherDies, Step
  <2>4. QED
    BY <2>2, <2>3, LauncherSees
<1>4. ASSUME NEW k \in Key, published'[k] # NoExecution
      PROVE  published'[k].by \notin disturbed'
  <2>1. CASE published'[k] = published[k]
    BY <1>0, <1>4, <2>1 DEF OrdinaryInv, Inputs, PublishedInputsHeld, Quiet
  <2>2. CASE published'[k] # published[k]
    <3>1. Publish(i)
      BY <2>2
      DEF LauncherStep, Snapshot, ObserveMaterials, ObserveOutputs, ConfirmPreparation,
          ReapSuccess, ReapFailure, RetainCandidate, ConfirmMaterials, Abort,
          LauncherDies, RequireWorkerFinished, Spawn, Interrupt, Reserve, Exit
    <3>2. published'[k].by = i /\ launcher[i] = "publishing"
      BY <2>2, <3>1 DEF Publish, PublishExecution, OrdinaryInv, Values, Step
    <3>3. QED
      BY <1>0, <3>2 DEF OrdinaryInv, Inputs, Quiet
  <2>3. QED
    BY <2>1, <2>2
<1>5. QED
  BY <1>0, <1>1, <1>2, <1>3, <1>4
  DEF OrdinaryInv, Inputs, PublishedInputsHeld, Quiet

LEMMA LauncherKeepsOutputs ==
    ASSUME OrdinaryInv, Outputs, NEW i \in Invocation, LauncherStep(i)
    PROVE  Outputs'
<1>0. /\ UNCHANGED Quiet
      /\ StoreTypeOK /\ StoreTypeOK'
  BY LauncherLeavesWorld, LauncherKeepsInv DEF OrdinaryInv, StoreInv
<1>1. \A j \in Invocation \ {i} : launcher'[j] = launcher[j] /\ seen'[j] = seen[j]
  BY <1>0, LauncherSees
  DEF StoreTypeOK, LauncherStep, Snapshot, ObserveMaterials, Reserve,
      ConfirmPreparation, Spawn, ReapSuccess, ReapFailure, Interrupt,
      RequireWorkerFinished, RetainCandidate, ConfirmMaterials,
      ObserveOutputs, Publish, Abort, Exit, LauncherDies, Step
<1>2. launcher'[i] = "publishing" => seen'[i].outputs = Now(Plan[i].writes)
  <2>1. launcher'[i] = "publishing" => ObserveOutputs(i)
    BY <1>0
    DEF StoreTypeOK, LauncherStep, Snapshot, ObserveMaterials, Reserve,
        ConfirmPreparation, Spawn, ReapSuccess, ReapFailure, Interrupt,
        RequireWorkerFinished, RetainCandidate, ConfirmMaterials, Publish, Abort,
        Exit, LauncherDies, Step
  <2>2. ObserveOutputs(i) => seen'[i].outputs = Now(Plan[i].writes)
    BY <1>0 DEF ObserveOutputs, OrdinaryInv, Values
  <2>3. QED
    BY <2>1, <2>2
<1>3. ASSUME NEW j \in Invocation, launcher[j] = "gone", record'[j] # "absent"
      PROVE  record[j] # "absent"
  BY <1>0, <1>3
  DEF StoreTypeOK, LauncherStep, Snapshot, ObserveMaterials, Reserve, PublishRecord,
      ConfirmPreparation, Spawn, ReapSuccess, ReapFailure, Interrupt, storeVars,
      RequireWorkerFinished, RetainCandidate, ConfirmMaterials, ReleaseOwnRecord,
      ObserveOutputs, Publish, Abort, Exit, LauncherDies, Step
<1>4. \A r \in Recoverer : Recovering(r) =>
          recovery[r].target \in Invocation /\ launcher[recovery[r].target] = "gone"
  BY TargetsAndAuthors DEF OrdinaryInv, Walked
<1>5. QED
  BY <1>0, <1>1, <1>2, <1>3, <1>4 DEF Outputs, Quiet, Now, Recovering

LEMMA TouchFacts ==
    ASSUME Values, NEW paths, Touch(paths)
    PROVE  /\ version' \in [Path -> Nat]
           /\ \A q \in Path : version[q] <= version'[q]
           /\ \A q \in Path : q \in Touched(paths) => version[q] < version'[q]
           /\ \A q \in Path : q \notin Touched(paths) => version'[q] = version[q]
           /\ disturbed' \subseteq Invocation
BY DEF Values, Touch

\* Bytes that change disturb nobody whose inputs were confirmed for good.
LEMMA TouchKeepsInputs ==
    ASSUME OrdinaryInv, NEW paths, Touch(paths), UNCHANGED <<launcher, worker, seen, recovery>>,
           \A k \in Key : published'[k] # NoExecution =>
               published[k] # NoExecution /\ published'[k].by = published[k].by
    PROVE  Inputs'
<1>1. ASSUME NEW i \in Invocation, i \in disturbed', i \notin disturbed
      PROVE  /\ InputsMatter(i)
             /\ \E p \in Plan[i].reads : p \in Touched(paths)
  BY <1>1 DEF Touch
<1>2. ASSUME NEW i \in Invocation, NEW p \in Plan[i].reads
      PROVE  /\ seen[i].inputs[p] <= version'[p]
             /\ p \in Touched(paths) => seen[i].inputs[p] < version'[p]
             /\ seen[i].inputs[p] < version[p] => seen[i].inputs[p] < version'[p]
  <2>1. p \in Path /\ seen[i].inputs[p] \in Nat /\ version[p] \in Nat /\ version'[p] \in Nat
    BY TouchFacts, PlanAssumption DEF OrdinaryInv, Values, SeenType
  <2>2. seen[i].inputs[p] <= version[p]
    BY DEF OrdinaryInv, Inputs
  <2>3. QED
    BY <2>1, <2>2, TouchFacts DEF OrdinaryInv
<1>3. ASSUME NEW i \in Invocation, InputsMatter(i)
      PROVE  /\ launcher[i] \notin {"idle", "snapshotted", "confirmed", "publishing"}
             /\ ~ (launcher[i] \in {"exiting", "gone"} /\ worker[i] = "gone")
  BY <1>3 DEF InputsMatter, GroupAlive, OrdinaryInv, StoreInv, Sheltered, Walked
<1>4. ASSUME NEW i \in Invocation
      PROVE  /\ i \in disturbed' =>
                  /\ launcher[i] \notin {"idle", "snapshotted"}
                  /\ \E p \in Plan[i].reads : seen[i].inputs[p] < version'[p]
             /\ launcher[i] \in {"confirmed", "publishing"} => i \notin disturbed'
  <2>1. CASE i \in disturbed
    BY <1>2, <2>1 DEF OrdinaryInv, Inputs
  <2>2. CASE i \notin disturbed
    BY <1>1, <1>2, <1>3, <2>2
  <2>3. QED
    BY <2>1, <2>2
<1>5. ASSUME NEW r \in Recoverer,
             recovery[r].at \in {"confirmed", "observedOnce", "observedTwice"}
      PROVE  recovery[r].target \notin disturbed'
  <2>1. recovery[r].target \in Invocation /\ recovery[r].target \notin disturbed
    BY <1>5, TargetsAndAuthors DEF OrdinaryInv, Inputs, Recovering
  <2>2. launcher[recovery[r].target] = "gone" /\ worker[recovery[r].target] = "gone"
    BY <1>5 DEF OrdinaryInv, Walked, Recovering
  <2>3. QED
    BY <1>1, <1>3, <2>1, <2>2
<1>6. ASSUME NEW k \in Key, published'[k] # NoExecution
      PROVE  published'[k].by \notin disturbed'
  <2>1. /\ published[k] # NoExecution /\ published'[k].by = published[k].by
        /\ published[k].by \notin disturbed
        /\ published[k].by \in Invocation \cup {Earlier}
    BY <1>6, TargetsAndAuthors DEF OrdinaryInv, Inputs, PublishedInputsHeld
  <2>2. CASE published[k].by = Earlier
    BY <2>1, <2>2, TouchFacts, EarlierAssumption DEF OrdinaryInv
  <2>3. CASE published[k].by # Earlier
    BY <1>1, <1>3, <2>1, <2>3 DEF OrdinaryInv, Published
  <2>4. QED
    BY <2>2, <2>3
<1>7. QED
  BY <1>2, <1>4, <1>5, <1>6 DEF Inputs, PublishedInputsHeld

LEMMA TouchKeepsOutputs ==
    ASSUME OrdinaryInv, Outputs, NEW paths, Touch(paths),
           UNCHANGED <<record, launcher, seen, recovery>>,
           \A i \in Reserved : worker[i] = "gone" => Plan[i].writes \cap Touched(paths) = {}
    PROVE  Outputs'
<1>1. ASSUME NEW i \in Reserved, worker[i] = "gone"
      PROVE  Now(Plan[i].writes)' = Now(Plan[i].writes)
  <2>1. Plan[i].writes \subseteq Path /\ Plan[i].writes \cap Touched(paths) = {}
    BY <1>1, PlanAssumption DEF Reserved
  <2>2. QED
    BY <2>1, TouchFacts DEF Now, OrdinaryInv
<1>2. ASSUME NEW i \in Invocation, launcher[i] = "publishing"
      PROVE  seen[i].outputs = Now(Plan[i].writes)'
  <2>1. i \in Reserved /\ worker[i] = "gone"
    BY <1>2 DEF OrdinaryInv, StoreInv, Sheltered, Accessing, Walked, Reserved
  <2>2. QED
    BY <1>1, <1>2, <2>1 DEF Outputs
<1>3. ASSUME NEW r \in Recoverer,
             recovery[r].at \in {"observedOnce", "observedTwice"},
             record[recovery[r].target] # "absent"
      PROVE  recovery[r].outputs = Now(Plan[recovery[r].target].writes)'
  <2>1. recovery[r].target \in Reserved /\ worker[recovery[r].target] = "gone"
    BY <1>3, TargetsAndAuthors DEF OrdinaryInv, Walked, Recovering, Reserved
  <2>2. QED
    BY <1>1, <1>3, <2>1 DEF Outputs
<1>4. QED
  BY <1>2, <1>3 DEF Outputs

\* A command that runs writes no output of another reservation.
LEMMA WritesAreOwn ==
    ASSUME StoreInv, NEW i \in Invocation, GroupAlive(i), NEW p \in Plan[i].writes,
           NEW j \in Reserved, j # i
    PROVE  Plan[j].writes \cap Touched({p}) = {}
<1>1. i \in Reserved
  BY DEF StoreInv, Sheltered, Reserved
<1>2. ~Clash(i, j)
  BY <1>1 DEF StoreInv, Sheltered
<1>3. QED
  BY <1>2 DEF Clash, Touched

\* A step of a command.
LEMMA WorkerKeeps ==
    ASSUME OrdinaryInv, NEW i \in Invocation, WorkerStep(i)
    PROVE  Values' /\ Walked' /\ Published' /\ Receipts' /\ Inputs'
<1>1. CASE WorkerWrites(i)
  <2>1. PICK p \in Plan[i].writes : Touch({p})
    BY <1>1 DEF WorkerWrites
  <2>2. UNCHANGED <<record, candidate, launcher, worker, exitCode, seen, authority,
                    edits, published, recovery, completed>>
    BY <1>1 DEF WorkerWrites, storeVars
  <2>3. Values'
    <3>1. \A r \in Recoverer : RecoveryTypeOK(recovery'[r])
      BY <2>2 DEF OrdinaryInv, Values
    <3>2. QED
      BY <2>1, <2>2, <3>1, TouchFacts DEF OrdinaryInv, Values
  <2>4. Inputs'
    BY <2>1, <2>2, TouchKeepsInputs
  <2>5. QED
    BY <2>2, <2>3, <2>4
    DEF OrdinaryInv, Walked, Published, Receipts, ReceiptsAreRecovered, Recovering
<1>2. CASE RegisterWorker(i) \/ RegisterFails(i) \/ LeaderExits(i) \/ GroupExits(i)
  <2>1. /\ UNCHANGED <<candidate, launcher, seen, version, authority, edits, published,
                       recovery, disturbed, completed>>
        /\ \E after \in WorkerState :
            /\ worker[i] \in {"spawned", "running", "lingering"}
            /\ worker' = [worker EXCEPT ![i] = after]
            /\ worker[i] = "lingering" => after = "gone"
            /\ \/ UNCHANGED exitCode
               \/ /\ \E code \in {"zero", "nonzero"} : exitCode' = [exitCode EXCEPT ![i] = code]
                  /\ after \in {"lingering", "gone"}
        /\ \A j \in Invocation : record'[j] = "absent" <=> record[j] = "absent"
    BY <1>2
    DEF RegisterWorker, RegisterFails, LeaderExits, GroupExits, RegisterRecord, storeVars,
        outside, history, WorkerState, OrdinaryInv, StoreInv, StoreTypeOK
  <2>2. Walked'
    BY <2>1, TargetsAndAuthors
    DEF OrdinaryInv, StoreInv, StoreTypeOK, Values, Walked, Recovering
  <2>3. Published' /\ Receipts'
    BY <2>1, TargetsAndAuthors
    DEF OrdinaryInv, StoreInv, StoreTypeOK, Published, Receipts, ReceiptsAreRecovered
  <2>4. Inputs'
    BY <2>1 DEF OrdinaryInv, Inputs, PublishedInputsHeld
  <2>5. Values'
    <3>1. \A r \in Recoverer : RecoveryTypeOK(recovery'[r])
      BY <2>1 DEF OrdinaryInv, Values
    <3>2. \A j \in Invocation : SeenType(j, seen'[j])
      BY <2>1 DEF OrdinaryInv, Values
    <3>3. QED
      BY <2>1, <3>1, <3>2 DEF OrdinaryInv, Values
  <2>6. QED
    BY <2>2, <2>3, <2>4, <2>5
<1>3. QED
  BY <1>1, <1>2 DEF WorkerStep

LEMMA WorkerKeepsOutputs ==
    ASSUME OrdinaryInv, Outputs, NEW i \in Invocation, WorkerStep(i)
    PROVE  Outputs'
<1>1. CASE WorkerWrites(i)
  <2>1. PICK p \in Plan[i].writes : Touch({p})
    BY <1>1 DEF WorkerWrites
  <2>2. UNCHANGED <<record, launcher, seen, recovery>> /\ worker[i] # "gone" /\ GroupAlive(i)
    BY <1>1 DEF WorkerWrites, storeVars, GroupAlive
  <2>3. QED
    BY <2>1, <2>2, TouchKeepsOutputs, WritesAreOwn DEF OrdinaryInv
<1>2. CASE RegisterWorker(i) \/ RegisterFails(i) \/ LeaderExits(i) \/ GroupExits(i)
  <2>1. /\ UNCHANGED <<launcher, seen, version, recovery>>
        /\ \A j \in Invocation : record'[j] = "absent" <=> record[j] = "absent"
    BY <1>2
    DEF RegisterWorker, RegisterFails, LeaderExits, GroupExits, RegisterRecord, storeVars,
        outside, OrdinaryInv, StoreInv, StoreTypeOK
  <2>2. QED
    BY <2>1, TargetsAndAuthors DEF Outputs, Now, OrdinaryInv, Recovering
<1>3. QED
  BY <1>1, <1>2 DEF WorkerStep

\* What an abandoned candidate is: the launcher and all of the command are gone.
LEMMA CandidateIsOver ==
    ASSUME OrdinaryInv, NEW i \in candidate, Abandoned(i)
    PROVE  launcher[i] = "gone" /\ worker[i] = "gone" /\ i \in Invocation
<1>1. i \in Invocation
  BY DEF OrdinaryInv, StoreInv, StoreTypeOK
<1>2. QED
  BY <1>1 DEF OrdinaryInv, StoreInv, Sheltered, Walked, Abandoned, LauncherAlive,
     RegisteredGroupAlive, GroupAlive

\* A recovery that starts, looks or stops.
LEMMA RecoveryLooks ==
    ASSUME OrdinaryInv, NEW r \in Recoverer,
           \/ \E i \in Invocation : RecoverLoad(r, i)
           \/ RecoverConfirm(r) \/ RecoverFirstPass(r) \/ RecoverSecondPass(r)
           \/ RecoverStops(r)
    PROVE  OrdinaryInv' /\ (Outputs => Outputs')
<1> DEFINE i == recovery[r].target
           Same == UNCHANGED <<record, candidate, launcher, worker, exitCode, seen, version,
                               authority, edits, published, disturbed, completed>>
<1>0. /\ Same
      /\ \E next : recovery' = [recovery EXCEPT ![r] = next]
  BY DEF RecoverLoad, RecoverConfirm, RecoverFirstPass, RecoverSecondPass, RecoverStops,
     Recover, storeVars, outside, history
<1>1. /\ DOMAIN recovery' = Recoverer
      /\ \A s \in Recoverer \ {r} : recovery'[s] = recovery[s]
  BY <1>0 DEF OrdinaryInv, Values
<1> DEFINE Good ==
        /\ RecoveryTypeOK(recovery'[r])
        /\ recovery'[r].at # "published"
        /\ recovery'[r].at # "idle" =>
            launcher[recovery'[r].target] = "gone" /\ worker[recovery'[r].target] = "gone"
        /\ recovery'[r].at \in {"confirmed", "observedOnce", "observedTwice"} =>
            recovery'[r].target \notin disturbed
        /\ /\ Outputs
           /\ recovery'[r].at \in {"observedOnce", "observedTwice"}
           /\ record[recovery'[r].target] # "absent"
           => recovery'[r].outputs = Now(Plan[recovery'[r].target].writes)
<1>2. Good
  <2>1. ASSUME NEW j \in Invocation, RecoverLoad(r, j)
        PROVE  Good
    <3>1. recovery'[r] = [at |-> "loaded", target |-> j]
      BY <2>1 DEF RecoverLoad, Recover, OrdinaryInv, Values
    <3>2. launcher[j] = "gone" /\ worker[j] = "gone"
      BY <2>1, CandidateIsOver DEF RecoverLoad
    <3>3. QED
      BY <3>1, <3>2 DEF RecoveryTypeOK
  <2>2. CASE RecoverConfirm(r)
    <3>1. recovery'[r] = [at |-> "confirmed", target |-> i] /\ recovery[r].at = "loaded"
          /\ MaterialsUnchanged(i)
      BY <2>2 DEF RecoverConfirm, Recover, OrdinaryInv, Values
    <3>2. /\ i \in Invocation
          /\ launcher[i] = "gone" /\ worker[i] = "gone"
      BY <3>1, TargetsAndAuthors DEF OrdinaryInv, Walked, Recovering
    <3>3. i \notin disturbed
      <4>1. \A p \in Plan[i].reads : seen[i].inputs[p] = version[p] /\ version[p] \in Nat
        BY <3>1, <3>2, PlanAssumption DEF MaterialsUnchanged, Now, OrdinaryInv, Values
      <4>2. QED
        BY <3>2, <4>1 DEF OrdinaryInv, Inputs
    <3>4. QED
      BY <3>1, <3>2, <3>3 DEF RecoveryTypeOK
  <2>3. CASE RecoverFirstPass(r)
    <3>1. /\ recovery'[r] = [at |-> "observedOnce", target |-> i, outputs |-> Now(Plan[i].writes)]
          /\ recovery[r].at = "confirmed"
      BY <2>3 DEF RecoverFirstPass, Recover, OrdinaryInv, Values
    <3>2. /\ i \in Invocation /\ i \notin disturbed
          /\ launcher[i] = "gone" /\ worker[i] = "gone"
      BY <3>1, TargetsAndAuthors DEF OrdinaryInv, Walked, Recovering, Inputs
    <3>3. Now(Plan[i].writes) \in [Plan[i].writes -> Nat]
      BY <3>2, PlanAssumption DEF Now, OrdinaryInv, Values
    <3>4. QED
      BY <3>1, <3>2, <3>3 DEF RecoveryTypeOK
  <2>4. CASE RecoverSecondPass(r)
    <3>1. /\ recovery'[r] = [recovery[r] EXCEPT !.at = "observedTwice"]
          /\ recovery[r].at = "observedOnce"
      BY <2>4 DEF RecoverSecondPass, Recover, OrdinaryInv, Values
    <3>2. PICK j \in Invocation :
            recovery[r] \in [at : {"observedOnce", "observedTwice"}, target : {j},
                             outputs : [Plan[j].writes -> Nat]]
      BY <3>1 DEF RecoveryTypeOK, OrdinaryInv, Values
    <3>3. /\ recovery'[r] \in [at : {"observedOnce", "observedTwice"}, target : {j},
                               outputs : [Plan[j].writes -> Nat]]
          /\ recovery'[r].target = i /\ recovery'[r].outputs = recovery[r].outputs
          /\ recovery'[r].at = "observedTwice"
      BY <3>1, <3>2
    <3>4. /\ i \notin disturbed /\ launcher[i] = "gone" /\ worker[i] = "gone"
          /\ Outputs /\ record[i] # "absent" => recovery[r].outputs = Now(Plan[i].writes)
      BY <3>1 DEF OrdinaryInv, Walked, Recovering, Inputs, Outputs
    <3>5. QED
      BY <3>3, <3>4 DEF RecoveryTypeOK
  <2>5. CASE RecoverStops(r)
    <3>1. recovery'[r] = [at |-> "idle"]
      BY <2>5 DEF RecoverStops, OrdinaryInv, Values
    <3>2. QED
      BY <3>1 DEF RecoveryTypeOK
  <2>6. QED
    BY <2>1, <2>2, <2>3, <2>4, <2>5
<1> HIDE DEF i
<1>3. StoreInv'
  BY OthersKeepInv DEF RecovererStep, OrdinaryInv
<1>4. Values'
  BY <1>0, <1>1, <1>2 DEF OrdinaryInv, Values, SeenType
<1>5. Walked' /\ Published' /\ Receipts'
  BY <1>0, <1>1, <1>2
  DEF OrdinaryInv, Walked, Published, Receipts, ReceiptsAreRecovered, Recovering
<1>6. Inputs'
  BY <1>0, <1>1, <1>2 DEF OrdinaryInv, Inputs, PublishedInputsHeld
<1>7. Outputs => Outputs'
  BY <1>0, <1>1, <1>2 DEF Outputs, Now
<1>8. QED
  BY <1>3, <1>4, <1>5, <1>6, <1>7 DEF OrdinaryInv

\* A recovery that publishes what it observed.
LEMMA RecoveryPublishes ==
    ASSUME OrdinaryInv, NEW r \in Recoverer, RecoverPublish(r)
    PROVE  OrdinaryInv' /\ (Outputs => Outputs')
<1> DEFINE i == recovery[r].target
<1>1. /\ UNCHANGED <<record, candidate, launcher, worker, exitCode, seen, version,
                     authority, edits, disturbed>>
      /\ completed' = completed \cup {i}
      /\ recovery[r].at = "observedTwice"
      /\ recovery' = [recovery EXCEPT ![r] = [at |-> "published", target |-> i]]
      /\ UNCHANGED published \/ PublishExecution(i, "recovery", recovery[r].outputs)
  BY DEF RecoverPublish, Recover, storeVars, outside
<1>2. /\ i \in Invocation /\ i \notin disturbed
      /\ launcher[i] = "gone" /\ worker[i] = "gone"
  BY <1>1, TargetsAndAuthors DEF OrdinaryInv, Walked, Inputs, Recovering
<1>3. recovery[r].outputs \in [Plan[i].writes -> Nat]
  BY <1>1 DEF OrdinaryInv, Values, RecoveryTypeOK
<1> HIDE DEF i
<1>4. /\ recovery'[r] = [at |-> "published", target |-> i]
      /\ DOMAIN recovery' = Recoverer
      /\ \A s \in Recoverer \ {r} : recovery'[s] = recovery[s]
  BY <1>1 DEF OrdinaryInv, Values
<1>5. /\ DOMAIN published' = Key
      /\ \A k \in Key : \/ published'[k] = published[k]
                        \/ published'[k] \in ExecutionOf(i) /\ published'[k].by = i
  <2>1. CASE UNCHANGED published
    BY <2>1 DEF OrdinaryInv, Values
  <2>2. CASE PublishExecution(i, "recovery", recovery[r].outputs)
    <3>1. /\ DOMAIN published' = Key
          /\ published'[Plan[i].key] \in ExecutionOf(i)
          /\ published'[Plan[i].key] =
                [by |-> i, runner |-> "recovery", stale |-> FALSE,
                 inputs |-> seen[i].inputs, outputs |-> recovery[r].outputs]
          /\ \A k \in Key \ {Plan[i].key} : published'[k] = published[k]
      BY <1>2, <1>3, <2>2, PublishedTyped DEF OrdinaryInv
    <3>2. QED
      BY <3>1
  <2>3. QED
    BY <1>1, <2>1, <2>2
<1>6. StoreInv'
  BY OthersKeepInv DEF RecovererStep, OrdinaryInv
<1>7. Values'
  <2>1. RecoveryTypeOK(recovery'[r])
    BY <1>2, <1>4 DEF RecoveryTypeOK
  <2>2. \A k \in Key : published'[k] # NoExecution =>
          \E j \in Invocation : published'[k] \in ExecutionOf(j)
    BY <1>2, <1>5 DEF OrdinaryInv, Values
  <2>3. QED
    BY <1>1, <1>2, <1>4, <1>5, <2>1, <2>2 DEF OrdinaryInv, Values, SeenType
<1>8. Walked' /\ Receipts'
  BY <1>1, <1>2, <1>4 DEF OrdinaryInv, Walked, Receipts, ReceiptsAreRecovered, Recovering
<1>9. Published'
  BY <1>1, <1>2, <1>5 DEF OrdinaryInv, Published
<1>10. Inputs'
  BY <1>1, <1>2, <1>4, <1>5 DEF OrdinaryInv, Inputs, PublishedInputsHeld
<1>11. Outputs => Outputs'
  BY <1>1, <1>4 DEF Outputs, Now
<1>12. QED
  BY <1>6, <1>7, <1>8, <1>9, <1>10, <1>11 DEF OrdinaryInv

\* A recovery that cleans up.
LEMMA RecoveryFinishes ==
    ASSUME OrdinaryInv, NEW r \in Recoverer,
           \/ RecoverFinish(r) \/ RecoverFinishInterrupted(r)
           \/ \E i \in Invocation : RecoverOrphan(r, i)
    PROVE  OrdinaryInv' /\ (Outputs => Outputs')
<1>1. /\ UNCHANGED <<launcher, worker, exitCode, seen, version, authority, edits,
                     published, disturbed, completed>>
      /\ DOMAIN recovery' = Recoverer
      /\ \A s \in Recoverer \ {r} : recovery'[s] = recovery[s]
      /\ recovery'[r] = [at |-> "idle"]  \/ recovery'[r] = recovery[r]
      /\ candidate' \subseteq candidate
      /\ \A i \in Invocation : record'[i] # record[i] =>
            record'[i] = "absent" /\ i \in completed /\ Abandoned(i)
  BY DEF RecoverFinish, RecoverFinishInterrupted, RecoverOrphan, FinishRecovery,
     FinishRecoveryInterrupted, FinishOrphanCandidate, Recover, outside, history,
     OrdinaryInv, Values, Receipts, StoreInv, StoreTypeOK
<1>2. StoreInv'
  BY OthersKeepInv DEF RecovererStep, OrdinaryInv
<1>3. \A s \in Recoverer : RecoveryTypeOK(recovery'[s])
  BY <1>1 DEF OrdinaryInv, Values, RecoveryTypeOK
<1>4. \A i \in Invocation : SeenType(i, seen'[i])
  BY <1>1 DEF OrdinaryInv, Values
<1>5. Values'
  BY <1>1, <1>3, <1>4 DEF OrdinaryInv, Values
<1>6. Walked' /\ Published'
  BY <1>1 DEF OrdinaryInv, Walked, Published, Recovering, Abandoned, LauncherAlive
<1>7. Receipts'
  BY <1>1 DEF OrdinaryInv, Receipts, ReceiptsAreRecovered, StoreInv, StoreTypeOK
<1>8. Inputs'
  BY <1>1 DEF OrdinaryInv, Inputs, PublishedInputsHeld
<1>9. Outputs => Outputs'
  BY <1>1, TargetsAndAuthors DEF Outputs, Now, OrdinaryInv, Recovering
<1>10. QED
  BY <1>2, <1>5, <1>6, <1>7, <1>8, <1>9 DEF OrdinaryInv

LEMMA ReleaseKeeps ==
    ASSUME OrdinaryInv, Release
    PROVE  OrdinaryInv' /\ (Outputs => Outputs')
<1>1. /\ UNCHANGED <<launcher, worker, exitCode, seen, version, authority, edits,
                     published, recovery, disturbed, completed>>
      /\ candidate' \subseteq candidate
      /\ \A i \in Invocation : record'[i] # record[i] =>
            record'[i] = "absent" /\ i \notin candidate' /\ Abandoned(i)
  BY DEF Release, ReleaseAbandoned, ReleaseInterrupted, outside, history
<1>2. StoreInv'
  BY OthersKeepInv DEF OrdinaryInv
<1>3. \A s \in Recoverer : RecoveryTypeOK(recovery'[s])
  BY <1>1 DEF OrdinaryInv, Values
<1>4. \A i \in Invocation : SeenType(i, seen'[i])
  BY <1>1 DEF OrdinaryInv, Values
<1>5. Values'
  BY <1>1, <1>3, <1>4 DEF OrdinaryInv, Values
<1>6. Walked' /\ Published'
  BY <1>1 DEF OrdinaryInv, Walked, Published, Recovering, Abandoned, LauncherAlive
<1>7. Receipts'
  BY <1>1 DEF OrdinaryInv, Receipts, ReceiptsAreRecovered, StoreInv, StoreTypeOK
<1>8. Inputs'
  BY <1>1 DEF OrdinaryInv, Inputs, PublishedInputsHeld
<1>9. Outputs => Outputs'
  BY <1>1, TargetsAndAuthors DEF Outputs, Now, OrdinaryInv, Recovering
<1>10. QED
  BY <1>2, <1>5, <1>6, <1>7, <1>8, <1>9 DEF OrdinaryInv

\* People do not edit declared outputs by hand.
OutputsNotEdited ==
    \A p \in Editable, i \in Invocation : \A q \in Plan[i].writes : ~Overlap(p, q)

LEMMA AuthorKeeps ==
    ASSUME OrdinaryInv, AuthorStep
    PROVE  /\ OrdinaryInv'
           /\ OutputsNotEdited /\ Outputs => Outputs'
           /\ \A k \in Key : published'[k] # published[k] => published'[k].stale
<1>1. UNCHANGED <<record, candidate, launcher, worker, exitCode, seen, recovery, completed>>
  BY DEF AuthorStep, EditFile, EditMarkdown, AuthoringPublish, storeVars, history
<1>2. /\ DOMAIN published' = Key
      /\ \A k \in Key :
          \/ published'[k] = published[k]
          \/ published[k] # NoExecution /\ published'[k] = [published[k] EXCEPT !.stale = TRUE]
  BY DEF AuthorStep, EditFile, EditMarkdown, AuthoringPublish, OrdinaryInv, Values
<1>3. \A k \in Key : \A i \in Invocation :
         published[k] \in ExecutionOf(i) =>
            LET e == [published[k] EXCEPT !.stale = TRUE]
            IN  e \in ExecutionOf(i) /\ e.by = published[k].by /\ e.stale
  BY DEF ExecutionOf
<1>4. \A k \in Key : published'[k] # NoExecution =>
         /\ published[k] # NoExecution
         /\ published'[k].by = published[k].by
         /\ published'[k] # published[k] => published'[k].stale
         /\ \E i \in Invocation : published'[k] \in ExecutionOf(i)
  <2> SUFFICES ASSUME NEW k \in Key, published'[k] # NoExecution
               PROVE  /\ published[k] # NoExecution
                      /\ published'[k].by = published[k].by
                      /\ published'[k] # published[k] => published'[k].stale
                      /\ \E i \in Invocation : published'[k] \in ExecutionOf(i)
    OBVIOUS
  <2>1. published[k] # NoExecution
    BY <1>2
  <2>2. PICK i \in Invocation : published[k] \in ExecutionOf(i)
    BY <2>1 DEF OrdinaryInv, Values
  <2>3. QED
    BY <1>2, <1>3, <2>1, <2>2
<1>5. /\ authority' \in [Cid -> Nat] /\ edits' \in Nat
      /\ \/ UNCHANGED <<version, disturbed>>
         \/ \E p \in Editable : Touch({p})
         \/ \E boundary \in AuthoringWrites :
                AccessAllowed({}, boundary, {}) /\ Touch(boundary)
  <2>1. authority \in [Cid -> Nat] /\ edits \in Nat
    BY DEF OrdinaryInv, Values
  <2>2. ASSUME NEW p \in Editable, EditFile(p)
        PROVE  authority' = authority /\ edits' = edits + 1 /\ Touch({p})
    BY <2>2 DEF EditFile
  <2>3. ASSUME NEW c \in Cid, EditMarkdown(c)
        PROVE  /\ authority' = [authority EXCEPT ![c] = @ + 1] /\ edits' = edits + 1
               /\ UNCHANGED <<version, disturbed>>
    BY <2>3 DEF EditMarkdown, history
  <2>4. ASSUME NEW c \in Cid, NEW boundary \in AuthoringWrites, AuthoringPublish(c, boundary)
        PROVE  /\ authority' = [authority EXCEPT ![c] = @ + 1] /\ edits' = edits + 1
               /\ AccessAllowed({}, boundary, {}) /\ Touch(boundary)
    BY <2>4 DEF AuthoringPublish
  <2>5. \A c \in Cid : [authority EXCEPT ![c] = @ + 1] \in [Cid -> Nat]
    BY <2>1
  <2>6. CASE \E p \in Editable : EditFile(p)
    <3>1. PICK p \in Editable : EditFile(p)
      BY <2>6
    <3>2. authority' = authority /\ edits' = edits + 1 /\ Touch({p})
      BY <2>2, <3>1
    <3>3. authority' \in [Cid -> Nat] /\ edits' \in Nat
      BY <2>1, <3>2
    <3>4. QED
      BY <3>2, <3>3
  <2>7. CASE \E c \in Cid : EditMarkdown(c)
    BY <2>1, <2>3, <2>5, <2>7
  <2>8. CASE \E c \in Cid, boundary \in AuthoringWrites : AuthoringPublish(c, boundary)
    BY <2>1, <2>4, <2>5, <2>8
  <2>9. QED
    BY <2>6, <2>7, <2>8 DEF AuthorStep
<1>6. \A s \in Recoverer : RecoveryTypeOK(recovery'[s])
  BY <1>1 DEF OrdinaryInv, Values
<1>7. \A i \in Invocation : SeenType(i, seen'[i])
  BY <1>1 DEF OrdinaryInv, Values
<1>8. Values'
  <2>1. version' \in [Path -> Nat] /\ disturbed' \subseteq Invocation
    BY <1>5, TouchFacts DEF OrdinaryInv, Values
  <2>2. QED
    BY <1>1, <1>2, <1>4, <1>5, <1>6, <1>7, <2>1 DEF OrdinaryInv, Values
<1>9. Walked' /\ Published' /\ Receipts'
  BY <1>1, <1>4
  DEF OrdinaryInv, Walked, Published, Receipts, ReceiptsAreRecovered, Recovering
<1>10. Inputs'
  <2>1. CASE UNCHANGED <<version, disturbed>>
    BY <1>1, <1>4, <2>1 DEF OrdinaryInv, Inputs, PublishedInputsHeld
  <2>2. ASSUME NEW paths, Touch(paths) PROVE Inputs'
    BY <1>1, <1>4, <2>2, TouchKeepsInputs
  <2>3. QED
    BY <1>5, <2>1, <2>2
<1>11. ASSUME OutputsNotEdited, Outputs PROVE Outputs'
  <2>1. CASE UNCHANGED version
    BY <1>1, <1>11, <2>1 DEF Outputs, Now
  <2>2. ASSUME NEW p \in Editable, Touch({p}) PROVE Outputs'
    <3>1. \A i \in Reserved : Plan[i].writes \cap Touched({p}) = {}
      BY <1>11 DEF OutputsNotEdited, Touched, Reserved
    <3>2. QED
      BY <1>1, <1>11, <2>2, <3>1, TouchKeepsOutputs
  <2>3. ASSUME NEW boundary \in AuthoringWrites, AccessAllowed({}, boundary, {}), Touch(boundary)
        PROVE  Outputs'
    <3>1. \A i \in Reserved : Plan[i].writes \cap Touched(boundary) = {}
      BY <2>3 DEF AccessAllowed, Blocks, Touched
    <3>2. QED
      BY <1>1, <1>11, <2>3, <3>1, TouchKeepsOutputs
  <2>4. QED
    BY <1>5, <2>1, <2>2, <2>3
<1>12. StoreInv'
  BY OthersKeepInv DEF OrdinaryInv
<1>13. \A k \in Key : published'[k] # published[k] => published'[k].stale
  BY <1>2, <1>3 DEF OrdinaryInv, Values
<1>14. QED
  BY <1>8, <1>9, <1>10, <1>11, <1>12, <1>13 DEF OrdinaryInv

LEMMA OrdinaryInvStep ==
    ASSUME OrdinaryInv, [Next]_vars
    PROVE  /\ OrdinaryInv'
           /\ OutputsNotEdited /\ Outputs => Outputs'
<1>1. ASSUME NEW i \in Invocation, LauncherStep(i)
      PROVE  OrdinaryInv' /\ (Outputs => Outputs')
  BY <1>1, LauncherKeepsInv, LauncherKeepsValues, LauncherKeepsWalked, LauncherKeepsInputs,
     LauncherKeepsOutputs DEF OrdinaryInv
<1>2. ASSUME NEW i \in Invocation, WorkerStep(i)
      PROVE  OrdinaryInv' /\ (Outputs => Outputs')
  BY <1>2, WorkerKeepsInv, WorkerKeeps, WorkerKeepsOutputs DEF OrdinaryInv
<1>3. ASSUME NEW r \in Recoverer, RecovererStep(r)
      PROVE  OrdinaryInv' /\ (Outputs => Outputs')
  BY <1>3, RecoveryLooks, RecoveryPublishes, RecoveryFinishes DEF RecovererStep
<1>4. CASE Release
  BY <1>4, ReleaseKeeps
<1>5. CASE AuthorStep
  BY <1>5, AuthorKeeps
<1>6. CASE UNCHANGED vars
  <2>1. StoreInv'
    BY <1>6, StoreInvStep DEF OrdinaryInv
  <2>2. Values'
    <3>1. \A s \in Recoverer : RecoveryTypeOK(recovery'[s])
      BY <1>6 DEF OrdinaryInv, Values, vars
    <3>2. \A i \in Invocation : SeenType(i, seen'[i])
      BY <1>6 DEF OrdinaryInv, Values, vars
    <3>3. QED
      BY <1>6, <3>1, <3>2 DEF OrdinaryInv, Values, vars, outside
  <2>3. QED
    BY <1>6, <2>1, <2>2
    DEF OrdinaryInv, Walked, Published, Receipts, ReceiptsAreRecovered, Recovering, Inputs,
        PublishedInputsHeld, Outputs, Now, vars, outside
<1>7. QED
  BY <1>1, <1>2, <1>3, <1>4, <1>5, <1>6 DEF Next

\* The types, and what is published when: observations cover the declared
\* boundaries they were made for, for any plans, recoverers and authors.
THEOREM TypeAlways == Spec => []TypeOK
<1>1. OrdinaryInv => TypeOK
  BY DEF OrdinaryInv, StoreInv, Values, SeenType, TypeOK
<1>2. QED
  BY <1>1, OrdinaryInvInit, OrdinaryInvStep, PTL DEF Spec

\* A published execution, by its launcher or by a recovery, records inputs that
\* nobody changed while it mattered, whoever edits, writes, dies and recovers.
THEOREM PublishedInputsAlwaysHeld == Spec => []PublishedInputsHeld
<1>1. OrdinaryInv => PublishedInputsHeld
  BY DEF OrdinaryInv, Inputs
<1>2. QED
  BY <1>1, OrdinaryInvInit, OrdinaryInvStep, PTL DEF Spec

\* A candidate without a record is always left by a published recovery.
THEOREM ReceiptsAlwaysRecovered == Spec => []ReceiptsAreRecovered
<1>1. OrdinaryInv => ReceiptsAreRecovered
  BY DEF OrdinaryInv, Receipts
<1>2. QED
  BY <1>1, OrdinaryInvInit, OrdinaryInvStep, PTL DEF Spec

\* An execution is published by its launcher or by a recovery, from what the
\* one saw before it left or the other while the record was there.
LEMMA PublicationSteps ==
    ASSUME OrdinaryInv, [Next]_vars, NEW k \in Key, NewlyPublished(k)
    PROVE  \E i \in Invocation :
             /\ published'[k].by = i
             /\ worker[i] = "gone"
             /\ published[k] = seen[i].state[k]
             /\ Outputs => published'[k].outputs = Now(Plan[i].writes)
<1> DEFINE Goal == \E i \in Invocation :
             /\ published'[k].by = i
             /\ worker[i] = "gone"
             /\ published[k] = seen[i].state[k]
             /\ Outputs => published'[k].outputs = Now(Plan[i].writes)
<1>1. ASSUME NEW i \in Invocation, LauncherStep(i)
      PROVE  Goal
  <2>1. Publish(i)
    BY <1>1
    DEF NewlyPublished, LauncherStep, Snapshot, ObserveMaterials, ObserveOutputs,
        ConfirmPreparation, ReapSuccess, ReapFailure, RetainCandidate, ConfirmMaterials,
        Abort, LauncherDies, RequireWorkerFinished, Spawn, Interrupt, Reserve, Exit
  <2>2. /\ seen[i].outputs \in [Plan[i].writes -> Nat]
        /\ PublishExecution(i, "runner", seen[i].outputs)
        /\ published[Plan[i].key] = seen[i].state[Plan[i].key]
        /\ launcher[i] = "publishing"
    BY <2>1 DEF Publish, Step, OrdinaryInv, Values, SeenType
  <2>3. /\ published'[Plan[i].key] =
              [by |-> i, runner |-> "runner", stale |-> FALSE,
               inputs |-> seen[i].inputs, outputs |-> seen[i].outputs]
        /\ \A n \in Key \ {Plan[i].key} : published'[n] = published[n]
    BY <2>2, PublishedTyped DEF OrdinaryInv
  <2>4. k = Plan[i].key
    BY <2>3 DEF NewlyPublished
  <2>5. worker[i] = "gone" /\ (Outputs => seen[i].outputs = Now(Plan[i].writes))
    BY <2>2 DEF OrdinaryInv, Walked, Outputs
  <2>6. QED
    BY <2>2, <2>3, <2>4, <2>5
<1>2. ASSUME NEW r \in Recoverer, RecovererStep(r)
      PROVE  Goal
  <2> DEFINE i == recovery[r].target
  <2>1. RecoverPublish(r) /\ published' # published
    BY <1>2
    DEF NewlyPublished, RecovererStep, RecoverLoad, RecoverOrphan, RecoverConfirm,
        RecoverFirstPass, RecoverSecondPass, RecoverFinish, RecoverFinishInterrupted,
        RecoverStops
  <2>2. /\ recovery[r].at = "observedTwice"
        /\ record[i] # "absent"
        /\ CidState(Plan[i].cid) = seen[i].state
        /\ PublishExecution(i, "recovery", recovery[r].outputs)
    BY <2>1 DEF RecoverPublish
  <2>3. recovery[r].outputs \in [Plan[i].writes -> Nat] /\ i \in Invocation
    BY <2>2 DEF OrdinaryInv, Values, RecoveryTypeOK
  <2>4. /\ worker[i] = "gone"
        /\ Outputs => recovery[r].outputs = Now(Plan[i].writes)
    BY <2>2 DEF OrdinaryInv, Walked, Recovering, Outputs
  <2> HIDE DEF i
  <2>5. /\ published'[Plan[i].key] =
              [by |-> i, runner |-> "recovery", stale |-> FALSE,
               inputs |-> seen[i].inputs, outputs |-> recovery[r].outputs]
        /\ \A n \in Key \ {Plan[i].key} : published'[n] = published[n]
    BY <2>2, <2>3, PublishedTyped DEF OrdinaryInv
  <2>6. k = Plan[i].key
    BY <2>5 DEF NewlyPublished
  <2>7. k \in KeysOf(Plan[i].cid)
    BY <2>3, <2>6 DEF KeysOf
  <2>8. published[k] = seen[i].state[k]
    BY <2>2, <2>7 DEF CidState
  <2>9. QED
    BY <2>3, <2>4, <2>5, <2>6, <2>8
<1>3. ASSUME NEW i \in Invocation, WorkerStep(i)
      PROVE  FALSE
  BY <1>3
  DEF NewlyPublished, WorkerStep, RegisterWorker, RegisterFails, WorkerWrites, LeaderExits,
      GroupExits
<1>4. ~Release /\ ~UNCHANGED vars
  BY DEF NewlyPublished, Release, vars
<1>5. ~AuthorStep
  BY AuthorKeeps DEF NewlyPublished
<1>6. QED
  BY <1>1, <1>2, <1>3, <1>4, <1>5 DEF Next

\* No publication, a retried recovery included, replaces an execution its
\* launcher had not seen at its start.
THEOREM NoExecutionEverLost == Spec => NoLostExecution
<1>1. OrdinaryInv /\ [Next]_vars =>
        [\A k \in Key : NewlyPublished(k) =>
            published[k] = seen[published'[k].by].state[k]]_vars
  BY PublicationSteps
<1>2. QED
  BY <1>1, OrdinaryInvInit, OrdinaryInvStep, PTL DEF Spec, NoLostExecution

\* Provided people leave declared outputs alone, outputs are recorded as they
\* are on disk, with nothing left of the command that wrote them.
THEOREM OutputsAlwaysSettled == OutputsNotEdited => (Spec => OutputsSettled)
<1> SUFFICES ASSUME OutputsNotEdited PROVE Spec => OutputsSettled
  OBVIOUS
<1>1. ASSUME OrdinaryInv, Outputs, [Next]_vars
      PROVE  [\A k \in Key : NewlyPublished(k) =>
                LET i == published'[k].by IN
                /\ ~GroupAlive(i)
                /\ published'[k].outputs = Now(Plan[i].writes)]_vars
  BY <1>1, PublicationSteps DEF GroupAlive
<1>2. OrdinaryInv /\ Outputs /\ [Next]_vars => OrdinaryInv' /\ Outputs'
  BY OrdinaryInvStep
<1>3. QED
  BY <1>1, <1>2, OrdinaryInvInit, PTL DEF Spec, OutputsSettled

-----------------------------------------------------------------------------
(* The bound on reservations.                                              *)

\* The check before a reservation admits one record more than it means to.
Bounded ==
    IsFiniteSet(Reserved) /\ Cardinality(Reserved) <= MaxReservations + 1

LEMMA FewerAreBounded ==
    ASSUME Bounded, Reserved' \subseteq Reserved
    PROVE  Bounded'
<1>1. /\ IsFiniteSet(Reserved') /\ Cardinality(Reserved') <= Cardinality(Reserved)
      /\ Cardinality(Reserved') \in Nat /\ Cardinality(Reserved) \in Nat
  BY FS_Subset, FS_CardinalityType DEF Bounded
<1>2. QED
  BY <1>1, BoundAssumption DEF Bounded

LEMMA BoundedStep ==
    ASSUME Bounded, StoreInv, StoreInv', [Next]_vars
    PROVE  Bounded'
<1>1. CASE \E i \in Invocation : Reserve(i)
  <2>1. PICK i \in Invocation : Reserve(i)
    BY <1>1
  <2>2. record' = [record EXCEPT ![i] = "reserved"] /\ Cardinality(Reserved) <= MaxReservations
    BY <2>1 DEF Reserve, PublishRecord, AccessAllowed, RecordsReadable
  <2>3. Reserved' = Reserved \cup {i}
    BY <2>2 DEF Reserved, StoreInv, StoreTypeOK
  <2>4. /\ IsFiniteSet(Reserved \cup {i})
        /\ Cardinality(Reserved \cup {i}) <= Cardinality(Reserved) + 1
        /\ Cardinality(Reserved) \in Nat /\ Cardinality(Reserved \cup {i}) \in Nat
    <3>1. IsFiniteSet(Reserved)
      BY DEF Bounded
    <3>2. /\ IsFiniteSet(Reserved \cup {i})
          /\ Cardinality(Reserved \cup {i}) =
                IF i \in Reserved THEN Cardinality(Reserved) ELSE Cardinality(Reserved) + 1
      BY <3>1, FS_AddElement, Zenon
    <3>3. Cardinality(Reserved) \in Nat /\ Cardinality(Reserved \cup {i}) \in Nat
      BY <3>1, <3>2, FS_CardinalityType
    <3>4. QED
      BY <3>2, <3>3
  <2>5. QED
    BY <2>2, <2>3, <2>4, BoundAssumption DEF Bounded
<1>2. CASE ~ \E i \in Invocation : Reserve(i)
  <2>1. ASSUME NEW i \in Invocation, LauncherStep(i) \/ WorkerStep(i)
        PROVE  \A j \in Invocation : record'[j] # "absent" => record[j] # "absent"
    BY <1>2, <2>1
    DEF LauncherStep, Snapshot, ObserveMaterials, ConfirmPreparation, Spawn, ReapSuccess,
        ReapFailure, Interrupt, RequireWorkerFinished, RetainCandidate, ConfirmMaterials,
        ObserveOutputs, Publish, Abort, Exit, LauncherDies, ReleaseOwnRecord, storeVars,
        WorkerStep, RegisterWorker, RegisterRecord, RegisterFails, WorkerWrites,
        LeaderExits, GroupExits, StoreInv, StoreTypeOK
  <2>2. ASSUME NEW r \in Recoverer, RecovererStep(r)
        PROVE  \A j \in Invocation : record'[j] # "absent" => record[j] # "absent"
    BY <2>2
    DEF RecovererStep, RecoverLoad, RecoverOrphan, FinishOrphanCandidate, RecoverConfirm,
        RecoverFirstPass, RecoverSecondPass, RecoverPublish, RecoverStops, RecoverFinish,
        RecoverFinishInterrupted, FinishRecovery, FinishRecoveryInterrupted, storeVars,
        StoreInv, StoreTypeOK
  <2>3. Release => \A j \in Invocation : record'[j] # "absent" => record[j] # "absent"
    BY DEF Release, ReleaseAbandoned, ReleaseInterrupted
  <2>4. AuthorStep \/ UNCHANGED vars => UNCHANGED record
    BY DEF AuthorStep, EditFile, EditMarkdown, AuthoringPublish, storeVars, vars
  <2>5. Reserved' \subseteq Reserved
    BY <2>1, <2>2, <2>3, <2>4 DEF Next, Reserved
  <2>6. QED
    BY <2>5, FewerAreBounded
<1>3. QED
  BY <1>1, <1>2

\* There is never more than one record above the bound, so that what the store
\* refuses to read for having too many records is one record too many.
THEOREM ReservationsBounded == Spec => []Bounded
<1>1. Init => Bounded
  <2>1. Init => Reserved = {}
    BY DEF Init, Reserved
  <2>2. QED
    BY <2>1, FS_EmptySet, BoundAssumption DEF Bounded
<1>2. QED
  BY <1>1, StoreInvInit, StoreInvStep, BoundedStep, PTL DEF Spec

-----------------------------------------------------------------------------
(* Refinement: the commands that really run implement ArtifactAccess *)

\* A step moves the processes of one invocation, or of none.
LEMMA OneInvocationMoves ==
    ASSUME StoreTypeOK, [Next]_vars
    PROVE  \/ UNCHANGED <<launcher, worker>>
           \/ \E i \in Invocation : \A j \in Invocation \ {i} :
                 launcher'[j] = launcher[j] /\ worker'[j] = worker[j]
<1>1. ASSUME NEW i \in Invocation, LauncherStep(i)
      PROVE  \A j \in Invocation \ {i} :
                 launcher'[j] = launcher[j] /\ worker'[j] = worker[j]
  BY <1>1 DEF StoreTypeOK, LauncherStep, Snapshot, ObserveMaterials, Reserve,
       ConfirmPreparation, Spawn, ReapSuccess, ReapFailure, Interrupt,
       RequireWorkerFinished, RetainCandidate, ConfirmMaterials,
       ObserveOutputs, Publish, Abort, Exit, LauncherDies, Step
<1>2. ASSUME NEW i \in Invocation, WorkerStep(i)
      PROVE  \A j \in Invocation \ {i} :
                 launcher'[j] = launcher[j] /\ worker'[j] = worker[j]
  BY <1>2 DEF StoreTypeOK, WorkerStep, RegisterWorker, RegisterFails,
       WorkerWrites, LeaderExits, GroupExits
<1>3. ASSUME NEW r \in Recoverer, RecovererStep(r)
      PROVE  UNCHANGED <<launcher, worker>>
  BY <1>3 DEF RecovererStep, RecoverLoad, RecoverOrphan, RecoverConfirm,
       RecoverFirstPass, RecoverSecondPass, RecoverPublish, RecoverFinish,
       RecoverFinishInterrupted, RecoverStops
<1>4. Release \/ AuthorStep => UNCHANGED <<launcher, worker>>
  BY DEF Release, AuthorStep, EditFile, EditMarkdown, AuthoringPublish
<1>5. QED
  BY <1>1, <1>2, <1>3, <1>4 DEF Next, vars

LEMMA StepImplementsAccess ==
    ASSUME StoreInv, StoreInv', [Next]_vars
    PROVE  [Access!Next]_({i \in Invocation : Accessing(i)})
<1> DEFINE using == {i \in Invocation : Accessing(i)}
<1>1. CASE UNCHANGED <<launcher, worker>>
  BY <1>1 DEF Accessing, GroupAlive
<1>2. ASSUME NEW i \in Invocation,
             \A j \in Invocation \ {i} :
                 launcher'[j] = launcher[j] /\ worker'[j] = worker[j]
      PROVE  [Access!Next]_using
  <2>1. \A j \in Invocation \ {i} : Accessing(j)' <=> Accessing(j)
    BY <1>2 DEF Accessing, GroupAlive
  <2>2. CASE Accessing(i)' /\ ~Accessing(i)
    <3>1. i \notin using /\ using' = using \cup {i}
      BY <2>1, <2>2
    <3>2. \A j \in using : ~Clash(i, j)
      BY <2>1, <2>2, <3>1 DEF StoreInv, Sheltered, Reserved, Clash, Overlap,
         Covers
    <3>3. QED
      BY <3>1, <3>2 DEF Access!Next, Access!Acquire
  <2>3. CASE ~Accessing(i)' /\ Accessing(i)
    <3>1. i \in using /\ using' = using \ {i}
      BY <2>1, <2>3
    <3>2. QED
      BY <3>1 DEF Access!Next, Access!Relinquish
  <2>4. CASE Accessing(i)' <=> Accessing(i)
    BY <2>1, <2>4
  <2>5. QED
    BY <2>2, <2>3, <2>4
<1>3. QED
  BY <1>1, <1>2, OneInvocationMoves DEF StoreInv

\* Reservations implement the abstract exclusion of running commands.
THEOREM ReservationsImplementAccess == Spec => ImplementsAccess
<1>1. Init => Access!Init
  BY DEF Init, Access!Init, Accessing, GroupAlive
<1>2. QED
  BY <1>1, StoreInvInit, StoreInvStep, StepImplementsAccess, PTL
     DEF Spec, ImplementsAccess, Access!Spec
=============================================================================
