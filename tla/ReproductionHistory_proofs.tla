-------------------- MODULE ReproductionHistory_proofs --------------------
(***************************************************************************)
(* Proofs about ReproductionHistory, for any commands, dependencies,       *)
(* requests and runs, and however edits, stops, failed publications and    *)
(* promotions interleave.                                                  *)
(***************************************************************************)
EXTENDS ReproductionHistory, FiniteSetTheorems, WellFoundedInduction, TLAPS

-----------------------------------------------------------------------------
(* Facts about the operators.                                              *)

LEMMA DownstreamContains ==
    ASSUME NEW deps, NEW S \in SUBSET Command
    PROVE  S \subseteq Downstream(deps, S)
BY DEF Downstream

LEMMA DownstreamMonotone ==
    ASSUME NEW deps, NEW S, NEW T, S \subseteq T
    PROVE  Downstream(deps, S) \subseteq Downstream(deps, T)
BY DEF Downstream

LEMMA DownstreamWithin ==
    ASSUME NEW deps, NEW S, NEW T \in SUBSET Command, S \subseteq T, Closed(deps, T)
    PROVE  Downstream(deps, S) \subseteq T
BY DEF Downstream

LEMMA TargetsOfCommands ==
    ASSUME NEW w, NEW q
    PROVE  /\ Target(q) \subseteq Command
           /\ Traced(q) \subseteq Target(q)
           /\ Selected(w, q) \subseteq Target(q)
BY DEF Target, Traced, Selected, Edge

\* What is run is selected: nothing untraced depends on anything.
LEMMA NeedsRunSelected ==
    ASSUME NEW w, NEW q, NEW prior
    PROVE  NeedsRun(w, q, prior) \subseteq Selected(w, q) \ PolicySkipped(w, q)
<1> DEFINE S == Selected(w, q)
<1>1. S \in SUBSET Command
  BY TargetsOfCommands
<1>2. Closed(Dependencies(q), S)
  BY DEF Closed, Dependencies, Selected
<1>3. InitialWork(w, q, prior) \subseteq S
  BY DEF InitialWork
<1>4. Downstream(Dependencies(q), InitialWork(w, q, prior)) \subseteq S
  BY <1>1, <1>2, <1>3, DownstreamWithin
<1>5. QED
  BY <1>4 DEF NeedsRun

\* What is worth running is run unless it is blocked or passed over.
LEMMA InitialWorkRuns ==
    ASSUME NEW w, NEW q, NEW prior
    PROVE  InitialWork(w, q, prior) \subseteq NeedsRun(w, q, prior)
<1>1. InitialWork(w, q, prior) \in SUBSET Command
  BY TargetsOfCommands DEF InitialWork
<1>2. InitialWork(w, q, prior) \subseteq Downstream(Dependencies(q), InitialWork(w, q, prior))
  BY <1>1, DownstreamContains
<1>3. QED
  BY <1>2 DEF NeedsRun, InitialWork

\* The newest of finitely many saved runs exists.
LEMMA NewestIsSaved ==
    ASSUME NEW s, IsFiniteSet(Saved(s)), \A r \in Saved(s) : s.runs[r].finished \in Nat
    PROVE  Newest(s) \in Saved(s) \cup {None}
<1> DEFINE Has(X) == \E r \in X : \A t \in X : s.runs[t].finished <= s.runs[r].finished
           Sizes == {n \in Nat : \E X \in SUBSET Saved(s) :
                        X # {} /\ Cardinality(X) = n /\ ~ Has(X)}
<1>1. Sizes = {}
  <2> SUFFICES ASSUME Sizes # {} PROVE FALSE
    OBVIOUS
  <2>1. PICK n \in Sizes : \A k \in Sizes : ~ (<<k, n>> \in OpToRel(<, Nat))
    <3> HIDE DEF Has
    <3>1. Sizes \in SUBSET Nat /\ Sizes # {}
      OBVIOUS
    <3> HIDE DEF Sizes
    <3>2. QED
      BY <3>1, NatLessThanWellFounded, WFMin
  <2>2. PICK X \in SUBSET Saved(s) : X # {} /\ Cardinality(X) = n /\ ~ Has(X)
    OBVIOUS
  <2>3. PICK x \in X : TRUE
    BY <2>2
  <2> DEFINE Y == X \ {x}
  <2>4. /\ IsFiniteSet(X) /\ IsFiniteSet(Y)
        /\ Cardinality(Y) = n - 1 /\ Cardinality(Y) \in Nat
    BY <2>2, <2>3, FS_Subset, FS_RemoveElement, FS_CardinalityType
  <2>5. Y # {}
    <3> SUFFICES ASSUME Y = {} PROVE FALSE
      OBVIOUS
    <3>1. X = {x}
      BY <2>3
    <3>2. s.runs[x].finished <= s.runs[x].finished
      BY <2>2, <2>3
    <3>3. QED
      BY <2>2, <3>1, <3>2
  <2>6. Cardinality(Y) \notin Sizes
    <3>0. n \in Nat
      OBVIOUS
    <3> HIDE DEF Y, Sizes
    <3>1. Cardinality(Y) < n
      BY <2>4, <3>0
    <3>2. <<Cardinality(Y), n>> \in OpToRel(<, Nat)
      BY <2>4, <3>0, <3>1 DEF OpToRel
    <3>3. QED
      BY <2>1, <3>2
  <2>7. PICK m \in Y : \A t \in Y : s.runs[t].finished <= s.runs[m].finished
    BY <2>4, <2>5, <2>6
  <2>8. s.runs[x].finished \in Nat /\ s.runs[m].finished \in Nat
    BY <2>2, <2>3, <2>7
  <2>9. CASE s.runs[x].finished <= s.runs[m].finished
    BY <2>2, <2>7, <2>9
  <2>10. CASE s.runs[m].finished <= s.runs[x].finished
    <3>1. ASSUME NEW t \in X PROVE s.runs[t].finished <= s.runs[x].finished
      BY <2>2, <2>7, <2>8, <2>10
    <3>2. QED
      BY <2>2, <2>3, <3>1
  <2>11. QED
    BY <2>8, <2>9, <2>10
<1>2. CASE Saved(s) = {}
  BY <1>2 DEF Newest
<1>3. CASE Saved(s) # {}
  <2>1. Cardinality(Saved(s)) \in Nat
    BY FS_CardinalityType
  <2>2. Has(Saved(s))
    BY <1>1, <1>3, <2>1
  <2>3. Newest(s) \in Saved(s)
    BY <1>3, <2>2 DEF Newest
  <2>4. QED
    BY <2>3
<1>4. QED
  BY <1>2, <1>3

\* The newest run is read from the saved runs alone.
LEMMA NewestOfMarked ==
    ASSUME NEW s, NEW t, s.runs = t.runs
    PROVE  Newest(s) = Newest(t) /\ Saved(s) = Saved(t)
BY DEF Newest, Saved

-----------------------------------------------------------------------------
(* The inductive invariant.                                                *)

\* The shape of a durable job.
JobType(j) ==
    j \in [plan       : {j.plan},
           phase      : Phase,
           result     : [Command -> Outcome \cup {None}],
           made       : [Command -> Content \cup {None}],
           compared   : [Command -> Comparison \cup {None}],
           reconciled : SUBSET Command,
           finished   : Nat,
           log        : {j.log},
           index      : {j.index}]

StoreType ==
    /\ store \in [runs           : {store.runs},
                  latestCommand  : [Command -> Saved(store) \cup {None}],
                  latestArtifact : [Command -> Saved(store) \cup {None}],
                  generation     : Nat,
                  marker         : Nat]
    /\ Saved(store) \subseteq DOMAIN job
    /\ store.generation = Cardinality(Saved(store))
    /\ store.marker <= store.generation

Types ==
    /\ IsLogState(log)
    /\ DOMAIN job \subseteq RunId /\ IsFiniteSet(DOMAIN job)
    /\ \A r \in DOMAIN job : JobType(job[r])
    /\ StoreType
    /\ report \in Saved(store) \cup {None}
    /\ edits \in 0 .. MaxEdits /\ stops \in 0 .. MaxStops

\* A plan is what preparation makes of a log and of what the saved runs say of
\* each command through an index.
PlannedFrom(p, w, index, runs) ==
    LET q == p.request
        prior == PriorResults([runs |-> runs, latestCommand |-> index])
    IN  /\ IsLogState(w)
        /\ index \in [Command -> DOMAIN runs \cup {None}]
        /\ q \in Requests
        /\ p.select = [c \in Target(q) |-> SelectionOf(w, q, prior, c)]
        /\ p.digest = [c \in Selected(w, q) \ PolicySkipped(w, q) |-> SourceDigest(w, q, c)]
        /\ p.accepted = [c \in Selected(w, q) |-> w.observed[c]]
        /\ p.source = [c \in Selected(w, q) |-> Fingerprint(w.code[c])]

Planned ==
    \A r \in DOMAIN job : PlannedFrom(job[r].plan, job[r].log, job[r].index, store.runs)

\* How far a job is: what is made was executed, what is compared was made, what
\* is reconciled was compared; and a run that has frozen its completion did it
\* all.
CommandDone(r, j, c) ==
    /\ j.result[c] # None => c \in Scheduled(j.plan)
    /\ j.made[c] # None <=> j.result[c] = "succeeded"
    /\ j.compared[c] # None =>
        /\ j.result[c] = "succeeded"
        /\ j.compared[c].origin = r
        /\ j.compared[c].baseline = j.plan.accepted[c].out
        /\ j.compared[c].outcome \in {"matched", "not_matched", "comparison_failed"}
        /\ j.compared[c].outcome \in {"matched", "not_matched"} =>
            (j.compared[c].outcome = "matched" <=> j.made[c] = j.plan.accepted[c].out)
    /\ c \in j.reconciled => j.compared[c] # None

Done(j, c) ==
    /\ j.result[c] # None
    /\ j.result[c] = "succeeded" => j.compared[c] # None /\ c \in j.reconciled

Frozen(j) ==
    /\ j.phase \in {"publishing", "complete"} => j.finished # 0
    /\ j.finished # 0 =>
        /\ j.phase \in {"publishing", "failed", "complete"}
        /\ \A c \in Scheduled(j.plan) : Done(j, c)

Progress ==
    \A r \in DOMAIN job :
        /\ \A c \in Command : CommandDone(r, job[r], c)
        /\ Frozen(job[r])

\* A command runs after the ones it awaits have matched, and is blocked after
\* one of them cannot match any more.
Awaits(p, c) == Dependencies(p.request)[c] \cap Scheduled(p)
Matched(j, d) == j.compared[d] # None /\ j.compared[d].outcome = "matched"
Hopeless(j, d) ==
    \/ j.result[d] \in {"failed", "blocked"}
    \/ j.compared[d] # None /\ j.compared[d].outcome # "matched"

Held ==
    \A r \in DOMAIN job : \A c \in Scheduled(job[r].plan) :
        /\ job[r].result[c] \in {"succeeded", "failed"} =>
            \A d \in Awaits(job[r].plan, c) : Matched(job[r], d)
        /\ job[r].result[c] = "blocked" =>
            \E d \in Awaits(job[r].plan, c) : Hopeless(job[r], d)

\* A saved run is the completed job, and the indexes point to what is saved.
SavedRunOf(r) ==
    SavedRun(r, job[r].plan, job[r].finished, job[r].result, job[r].compared)

Archived ==
    /\ \A r \in Saved(store) : job[r].finished # 0 /\ store.runs[r] = SavedRunOf(r)
    /\ \A r \in DOMAIN job : job[r].phase = "complete" => r \in Saved(store)
    /\ \A c \in Command :
        store.latestArtifact[c] # None =>
            c \in DOMAIN store.runs[store.latestArtifact[c]].compared

\* A reused comparison was made with the accepted baseline, by a saved run.
GoodComparison(kept, c) ==
    /\ kept \in Comparison
    /\ kept.outcome \in {"matched", "not_matched"} =>
        /\ kept.origin \in Saved(store)
        /\ kept.outcome = "matched" <=> job[kept.origin].made[c] = kept.baseline

Reused ==
    \A r \in DOMAIN job : \A c \in DOMAIN job[r].plan.reused :
        /\ c \notin Scheduled(job[r].plan)
        /\ job[r].plan.reused[c].baseline = job[r].plan.accepted[c].out
        /\ GoodComparison(job[r].plan.reused[c], c)

\* What a promotion holds, and that the report it composed is the newest while
\* the generation it was composed for lasts.
PromotionPhase ==
    {"marked", "installed", "recorded", "composed", "failed", "ended", "done", "killed"}

Promotes ==
    promotion # None =>
        /\ promotion \in
             [run        : DOMAIN job,
              command    : Command,
              phase      : PromotionPhase,
              generation : Nat,
              report     : Saved(store) \cup {None},
              observed   : {promotion.observed},
              requires   : BOOLEAN]
        /\ promotion.observed \in Observations(promotion.command)
        /\ job[promotion.run].result[promotion.command] = "succeeded"
        /\ promotion.phase = "composed" =>
            /\ promotion.generation <= store.generation
            /\ promotion.generation = store.generation => promotion.report = Newest(store)

IInv ==
    /\ Types /\ Planned /\ Progress /\ Held /\ Archived /\ Reused /\ Promotes
    /\ MarkedReportIsCurrent /\ BoundariesNotPromoted

-----------------------------------------------------------------------------
(* What the parts say together.                                            *)

\* What the saved runs say through an index does not change when runs are added.
LEMMA PriorsKept ==
    ASSUME NEW runs, NEW more, NEW index \in [Command -> DOMAIN runs \cup {None}],
           DOMAIN runs \subseteq DOMAIN more,
           \A s \in DOMAIN runs : more[s] = runs[s]
    PROVE  PriorResults([runs |-> more, latestCommand |-> index])
             = PriorResults([runs |-> runs, latestCommand |-> index])
<1>1. \A c \in Command : index[c] # None => more[index[c]] = runs[index[c]]
  OBVIOUS
<1>2. QED
  BY <1>1 DEF PriorResults

LEMMA PlannedKept ==
    ASSUME NEW p, NEW w, NEW index, NEW runs, NEW more,
           PlannedFrom(p, w, index, runs),
           DOMAIN runs \subseteq DOMAIN more,
           \A s \in DOMAIN runs : more[s] = runs[s]
    PROVE  PlannedFrom(p, w, index, more)
<1>1. index \in [Command -> DOMAIN runs \cup {None}]
  BY DEF PlannedFrom
<1>2. index \in [Command -> DOMAIN more \cup {None}]
  BY <1>1
<1>3. PriorResults([runs |-> more, latestCommand |-> index])
        = PriorResults([runs |-> runs, latestCommand |-> index])
  BY <1>1, PriorsKept
<1>4. QED
  BY <1>2, <1>3 DEF PlannedFrom

LEMMA PlanFacts ==
    ASSUME NEW p, NEW w, NEW index, NEW runs, PlannedFrom(p, w, index, runs)
    PROVE  /\ DOMAIN p.accepted \subseteq DOMAIN p.select
           /\ DOMAIN p.select = Target(p.request) /\ DOMAIN p.select \subseteq Command
           /\ DOMAIN p.source = DOMAIN p.accepted
           /\ DOMAIN p.digest \subseteq DOMAIN p.accepted
           /\ Scheduled(p) \subseteq DOMAIN p.digest
           /\ \A c \in DOMAIN p.select : p.select[c] \in Selection
           /\ \A c \in DOMAIN p.accepted :
                /\ p.accepted[c] \in Observations(c)
                /\ p.source[c] \in Version \cup {None}
<1> DEFINE q == p.request
           prior == PriorResults([runs |-> runs, latestCommand |-> index])
<1>1. /\ IsLogState(w)
      /\ p.select = [c \in Target(q) |-> SelectionOf(w, q, prior, c)]
      /\ p.digest = [c \in Selected(w, q) \ PolicySkipped(w, q) |-> SourceDigest(w, q, c)]
      /\ p.accepted = [c \in Selected(w, q) |-> w.observed[c]]
      /\ p.source = [c \in Selected(w, q) |-> Fingerprint(w.code[c])]
  BY DEF PlannedFrom
<1>2. /\ Target(q) \subseteq Command
      /\ Selected(w, q) \subseteq Target(q)
  BY TargetsOfCommands
<1>3. DOMAIN p.select = Target(q)
  BY <1>1
<1>4. \A c \in Target(q) : p.select[c] = SelectionOf(w, q, prior, c)
  BY <1>1
<1>5. /\ DOMAIN p.accepted = Selected(w, q) /\ DOMAIN p.source = Selected(w, q)
      /\ DOMAIN p.digest = Selected(w, q) \ PolicySkipped(w, q)
  BY <1>1
<1>6. ASSUME NEW c \in Scheduled(p)
      PROVE  c \in DOMAIN p.digest
  <2>1. c \in Target(q) /\ SelectionOf(w, q, prior, c) = "run"
    BY <1>3, <1>4 DEF Scheduled
  <2>2. c \in NeedsRun(w, q, prior)
    BY <2>1 DEF SelectionOf
  <2>3. QED
    BY <1>5, <2>2, NeedsRunSelected
<1>7. \A c \in Target(q) : SelectionOf(w, q, prior, c) \in Selection
  BY DEF SelectionOf, Selection
<1>8. ASSUME NEW c \in Selected(w, q)
      PROVE  p.accepted[c] \in Observations(c) /\ p.source[c] \in Version \cup {None}
  <2>1. c \in Command
    BY <1>2
  <2>2. w.observed[c] \in Observations(c) /\ w.code[c] \in Version \cup {Opaque}
    BY <1>1, <2>1 DEF IsLogState
  <2>3. p.accepted[c] = w.observed[c] /\ p.source[c] = Fingerprint(w.code[c])
    BY <1>1
  <2>4. QED
    BY <2>2, <2>3 DEF Fingerprint
<1>9. QED
  BY <1>2, <1>3, <1>4, <1>5, <1>6, <1>7, <1>8

\* A step of one run that keeps its plan, and what it froze.
LEMMA JobStep ==
    ASSUME IInv, NEW r \in DOMAIN job, NEW j,
           job' = [job EXCEPT ![r] = j],
           UNCHANGED <<store, report, promotion, edits>>,
           stops' \in 0 .. MaxStops, IsLogState(log)',
           JobType(j),
           j.plan = job[r].plan /\ j.log = job[r].log /\ j.index = job[r].index,
           job[r].finished # 0 =>
            /\ j.finished = job[r].finished
            /\ j.result = job[r].result /\ j.made = job[r].made
            /\ j.compared = job[r].compared,
           \A c \in Command : job[r].result[c] = "succeeded" => j.result[c] = "succeeded",
           \A c \in Command : CommandDone(r, j, c),
           Frozen(j),
           \A c \in Scheduled(j.plan) :
            /\ j.result[c] \in {"succeeded", "failed"} =>
                \A d \in Awaits(j.plan, c) : Matched(j, d)
            /\ j.result[c] = "blocked" => \E d \in Awaits(j.plan, c) : Hopeless(j, d),
           j.phase = "complete" => job[r].phase = "complete",
           j.phase \in {"running", "publishing"} => Active(r) \/ NoConflict(Plan(r))
    PROVE  IInv'
<1>1. DOMAIN job' = DOMAIN job /\ job'[r] = j
  OBVIOUS
<1>2. \A s \in DOMAIN job : s # r => job'[s] = job[s]
  OBVIOUS
<1>3. store' = store /\ report' = report /\ promotion' = promotion /\ edits' = edits
  OBVIOUS
<1>4. Types'
  <2>1. StoreType'
    BY <1>1, <1>3 DEF IInv, Types, StoreType, Saved
  <2>2. \A s \in DOMAIN job' : JobType(job'[s])
    BY <1>1, <1>2 DEF IInv, Types
  <2>3. report' \in Saved(store)' \cup {None}
    BY <1>3 DEF IInv, Types, Saved
  <2>4. QED
    BY <1>1, <1>3, <2>1, <2>2, <2>3 DEF IInv, Types
<1>5. Planned'
  <2>1. ASSUME NEW s \in DOMAIN job
        PROVE  /\ job'[s].plan = job[s].plan
               /\ job'[s].log = job[s].log /\ job'[s].index = job[s].index
    BY <1>1, <1>2
  <2>2. QED
    BY <1>1, <1>3, <2>1 DEF IInv, Planned
<1>6. Progress'
  BY <1>1, <1>2 DEF IInv, Progress
<1>7. Held'
  BY <1>1, <1>2 DEF IInv, Held
<1>8. Archived'
  <2>1. ASSUME NEW s \in Saved(store)
        PROVE  job'[s].finished # 0 /\ store.runs[s] = SavedRunOf(s)'
    <3>1. s \in DOMAIN job /\ job[s].finished # 0 /\ store.runs[s] = SavedRunOf(s)
      BY DEF IInv, Archived, Types, StoreType
    <3>2. CASE s # r
      BY <1>2, <3>1, <3>2 DEF SavedRunOf
    <3>3. CASE s = r
      <4>1. /\ j.finished = job[r].finished /\ j.result = job[r].result
            /\ j.compared = job[r].compared /\ j.plan = job[r].plan
        BY <3>1, <3>3
      <4>2. SavedRunOf(s)' = SavedRunOf(s)
        BY <1>1, <3>3, <4>1 DEF SavedRunOf
      <4>3. QED
        BY <1>1, <3>1, <3>3, <4>1, <4>2
    <3>4. QED
      BY <3>2, <3>3
  <2>2. \A s \in DOMAIN job : job'[s].phase = "complete" => s \in Saved(store)
    BY <1>1, <1>2 DEF IInv, Archived
  <2>3. QED
    BY <1>1, <1>3, <2>1, <2>2 DEF IInv, Archived, Saved
<1>9. Reused'
  <2>1. ASSUME NEW s \in DOMAIN job PROVE job'[s].plan = job[s].plan
    BY <1>1, <1>2
  <2>2. ASSUME NEW s \in Saved(store) PROVE job'[s].made = job[s].made
    <3>1. s \in DOMAIN job /\ job[s].finished # 0
      BY DEF IInv, Archived, Types, StoreType
    <3>2. QED
      BY <1>1, <1>2, <3>1
  <2>3. QED
    BY <1>1, <1>3, <2>1, <2>2 DEF IInv, Reused, GoodComparison, Saved
<1>10. Promotes'
  <2>1. SUFFICES ASSUME promotion # None PROVE Promotes'
    BY <1>3 DEF Promotes
  <2>2. promotion.run \in DOMAIN job /\ promotion.command \in Command
    BY <2>1 DEF IInv, Promotes
  <2>3. job'[promotion.run].result[promotion.command] = "succeeded"
    BY <1>1, <1>2, <2>1, <2>2 DEF IInv, Promotes
  <2>4. QED
    BY <1>1, <1>3, <2>1, <2>3 DEF IInv, Promotes, Newest, Saved
<1>11. MarkedReportIsCurrent'
  BY <1>3 DEF IInv, MarkedReportIsCurrent, Newest, Saved
<1>12. BoundariesNotPromoted'
  <2>1. SUFFICES ASSUME PromotionMarked, NEW s \in Overlapping(promotion.command)'
                 PROVE  FALSE
    BY <1>3 DEF BoundariesNotPromoted, PromotionMarked
  <2>2. Overlapping(promotion.command) = {}
    BY <2>1 DEF IInv, BoundariesNotPromoted
  <2>3. /\ s \in RunId /\ s \in DOMAIN job
        /\ job'[s].phase \in {"running", "publishing"}
        /\ promotion.command \in job'[s].plan.boundary
    BY <1>1, <1>3, <2>1 DEF Overlapping, Active, Accepted, Plan
  <2>4. CASE s # r
    BY <1>2, <2>2, <2>3, <2>4 DEF Overlapping, Active, Accepted, Plan
  <2>5. CASE s = r
    <3>1. promotion.command \in Plan(r).boundary
      BY <1>1, <2>3, <2>5 DEF Plan
    <3>2. ~ Active(r)
      BY <2>2, <2>3, <2>5, <3>1 DEF Overlapping
    <3>3. NoConflict(Plan(r))
      BY <1>1, <2>3, <2>5, <3>2
    <3>4. QED
      BY <2>1, <3>1, <3>3 DEF NoConflict
  <2>6. QED
    BY <2>4, <2>5
<1>13. QED
  BY <1>4, <1>5, <1>6, <1>7, <1>8, <1>9, <1>10, <1>11, <1>12 DEF IInv

-----------------------------------------------------------------------------
(* The steps of a run.                                                     *)

\* What the invariant says of one job.
JobFacts(r) ==
    /\ JobType(job[r]) /\ r \in RunId
    /\ \A c \in Command : CommandDone(r, job[r], c)
    /\ Frozen(job[r])
    /\ \A c \in Scheduled(job[r].plan) :
        /\ job[r].result[c] \in {"succeeded", "failed"} =>
            \A d \in Awaits(job[r].plan, c) : Matched(job[r], d)
        /\ job[r].result[c] = "blocked" =>
            \E d \in Awaits(job[r].plan, c) : Hopeless(job[r], d)
    /\ Scheduled(Plan(r)) \subseteq Command
    /\ Scheduled(Plan(r)) \subseteq DOMAIN Plan(r).accepted
    /\ \A c \in Scheduled(Plan(r)) : Plan(r).accepted[c] \in Observations(c)
    /\ \A c \in Command : Awaits(Plan(r), c) \subseteq Scheduled(Plan(r))
    /\ stops \in 0 .. MaxStops /\ IsLogState(log)

LEMMA FactsOfJob ==
    ASSUME IInv, NEW r \in DOMAIN job
    PROVE  JobFacts(r)
<1>1. PlannedFrom(job[r].plan, job[r].log, job[r].index, store.runs)
  BY DEF IInv, Planned
<1>2. /\ Scheduled(Plan(r)) \subseteq DOMAIN Plan(r).accepted
      /\ Scheduled(Plan(r)) \subseteq Command
      /\ \A c \in DOMAIN Plan(r).accepted : Plan(r).accepted[c] \in Observations(c)
  BY <1>1, PlanFacts DEF Plan
<1>3. JobType(job[r]) /\ r \in RunId /\ stops \in 0 .. MaxStops /\ IsLogState(log)
  BY DEF IInv, Types
<1>4. Frozen(job[r]) /\ \A c \in Command : CommandDone(r, job[r], c)
  BY DEF IInv, Progress
<1>5. QED
  BY <1>2, <1>3, <1>4 DEF IInv, Held, JobFacts, Awaits

\* A step that only changes the phase of a job.
LEMMA PhaseStep ==
    ASSUME IInv, NEW r \in DOMAIN job, NEW phase \in Phase,
           job' = [job EXCEPT ![r].phase = phase],
           UNCHANGED <<store, report, promotion, edits>>,
           stops' \in 0 .. MaxStops, IsLogState(log)',
           job[r].finished # 0 => phase \in {"publishing", "failed", "complete"},
           phase = "publishing" => job[r].finished # 0,
           phase # "complete",
           phase \in {"running", "publishing"} => Active(r) \/ NoConflict(Plan(r))
    PROVE  IInv'
<1> DEFINE j == [job[r] EXCEPT !.phase = phase]
<1>1. JobFacts(r)
  BY FactsOfJob
<1>2. /\ j.plan = job[r].plan /\ j.log = job[r].log /\ j.index = job[r].index
      /\ j.phase = phase /\ j.result = job[r].result /\ j.made = job[r].made
      /\ j.compared = job[r].compared /\ j.reconciled = job[r].reconciled
      /\ j.finished = job[r].finished
      /\ JobType(j)
  BY <1>1 DEF JobFacts, JobType
<1>3. job' = [job EXCEPT ![r] = j]
  OBVIOUS
<1> HIDE DEF j
<1>4. \A c \in Command : CommandDone(r, j, c)
  BY <1>1, <1>2 DEF JobFacts, CommandDone
<1>5. Frozen(j)
  BY <1>1, <1>2 DEF JobFacts, Frozen, Done
<1>6. \A c \in Scheduled(j.plan) :
            /\ j.result[c] \in {"succeeded", "failed"} =>
                \A d \in Awaits(j.plan, c) : Matched(j, d)
            /\ j.result[c] = "blocked" => \E d \in Awaits(j.plan, c) : Hopeless(j, d)
  BY <1>1, <1>2 DEF JobFacts, Matched, Hopeless
<1>7. QED
  BY <1>2, <1>3, <1>4, <1>5, <1>6, JobStep

LEMMA AttemptKeeps ==
    ASSUME IInv, NEW r \in RunId, NEW c \in Command, Attempt(r, c)
    PROVE  IInv'
<1>1. /\ r \in DOMAIN job /\ job[r].phase = "running"
      /\ c \in Scheduled(Plan(r)) /\ job[r].result[c] = None
  BY DEF Attempt, Pending, Running, Accepted
<1>2. JobFacts(r)
  BY <1>1, FactsOfJob
<1>3. PICK result \in {"failed", "succeeded"}, content \in Content \cup {None} :
        /\ job' = [job EXCEPT ![r] = [job[r] EXCEPT !.result = [@ EXCEPT ![c] = result],
                                                   !.made = [@ EXCEPT ![c] = content]]]
        /\ result = "succeeded" <=> content # None
  <2>1. CASE job' = [job EXCEPT ![r].result[c] = "failed"]
    <3>1. job[r].made[c] = None
      BY <1>1, <1>2, ResultAssumption DEF JobFacts, CommandDone, Outcome
    <3>2. [job[r] EXCEPT !.result[c] = "failed"]
            = [job[r] EXCEPT !.result = [@ EXCEPT ![c] = "failed"],
                             !.made = [@ EXCEPT ![c] = None]]
      BY <1>2, <3>1 DEF JobFacts, JobType
    <3>3. QED
      BY <2>1, <3>2
  <2>2. CASE \E content \in Content :
               job' = [job EXCEPT ![r].result[c] = "succeeded", ![r].made[c] = content]
    <3>1. PICK content \in Content :
            job' = [job EXCEPT ![r].result[c] = "succeeded", ![r].made[c] = content]
      BY <2>2
    <3>2. job' = [job EXCEPT ![r] = [job[r] EXCEPT !.result = [@ EXCEPT ![c] = "succeeded"],
                                                   !.made = [@ EXCEPT ![c] = content]]]
      BY <1>1, <1>2, <3>1 DEF JobFacts, JobType
    <3>3. content # None
      BY PlanAssumption
    <3>4. QED
      BY <3>2, <3>3
  <2>3. QED
    BY <2>1, <2>2 DEF Attempt
<1> DEFINE j == [job[r] EXCEPT !.result = [@ EXCEPT ![c] = result],
                              !.made = [@ EXCEPT ![c] = content]]
<1>4. /\ j.plan = job[r].plan /\ j.log = job[r].log /\ j.index = job[r].index
      /\ j.phase = "running"
      /\ j.result = [job[r].result EXCEPT ![c] = result]
      /\ j.made = [job[r].made EXCEPT ![c] = content]
      /\ j.compared = job[r].compared /\ j.reconciled = job[r].reconciled
      /\ j.finished = job[r].finished
      /\ JobType(j)
  BY <1>1, <1>2 DEF JobFacts, JobType, Outcome
<1> HIDE DEF j
<1>5. job[r].finished = 0
  BY <1>1, <1>2 DEF JobFacts, Frozen
<1>6. \A d \in Command : d # c => j.result[d] = job[r].result[d] /\ j.made[d] = job[r].made[d]
  BY <1>2, <1>4 DEF JobFacts, JobType
<1>7. j.result[c] = result /\ j.made[c] = content
  BY <1>2, <1>4 DEF JobFacts, JobType
<1>8. \A d \in Command : CommandDone(r, j, d)
  <2>1. job[r].compared[c] = None
    BY <1>1, <1>2, ResultAssumption DEF JobFacts, CommandDone, Outcome
  <2>2. CommandDone(r, j, c)
    BY <1>1, <1>2, <1>3, <1>4, <1>7, <2>1 DEF JobFacts, CommandDone, Plan
  <2>3. \A d \in Command : d # c => CommandDone(r, j, d)
    BY <1>2, <1>4, <1>6 DEF JobFacts, CommandDone
  <2>4. QED
    BY <2>2, <2>3
<1>9. Frozen(j)
  BY <1>4, <1>5 DEF Frozen
<1>10. ASSUME NEW d \in Scheduled(j.plan)
       PROVE  /\ j.result[d] \in {"succeeded", "failed"} =>
                    \A e \in Awaits(j.plan, d) : Matched(j, e)
              /\ j.result[d] = "blocked" => \E e \in Awaits(j.plan, d) : Hopeless(j, e)
  <2>1. d \in Command /\ Awaits(j.plan, d) \subseteq Command
    BY <1>2, <1>4 DEF JobFacts, Plan
  <2>2. \A e \in Command : Matched(job[r], e) => Matched(j, e)
    BY <1>4 DEF Matched
  <2>3. \A e \in Command : Hopeless(job[r], e) => Hopeless(j, e)
    BY <1>1, <1>4, <1>6, ResultAssumption DEF Hopeless, Outcome
  <2>4. CASE d = c
    <3>1. \A e \in Awaits(j.plan, c) : Matched(j, e)
      BY <1>4 DEF Attempt, Ready, Awaited, Awaits, Matched, Plan
    <3>2. QED
      BY <2>4, <1>3, <1>7, <3>1
  <2>5. CASE d # c
    <3>1. j.result[d] = job[r].result[d] /\ j.plan = job[r].plan
      BY <1>4, <1>6, <2>1, <2>5
    <3>2. QED
      BY <1>2, <2>1, <2>2, <2>3, <3>1 DEF JobFacts
  <2>6. QED
    BY <2>4, <2>5
<1>11. \A d \in Command : job[r].result[d] = "succeeded" => j.result[d] = "succeeded"
  BY <1>1, <1>6, ResultAssumption DEF Outcome
<1>12. /\ UNCHANGED <<store, report, promotion, edits>>
       /\ stops' \in 0 .. MaxStops /\ IsLogState(log)'
       /\ job' = [job EXCEPT ![r] = j] /\ Active(r)
  BY <1>1, <1>2, <1>3 DEF Attempt, JobFacts, IsLogState, Active, Accepted, j
<1>13. QED
  BY <1>1, <1>4, <1>5, <1>8, <1>9, <1>10, <1>11, <1>12, JobStep

LEMMA BlockKeeps ==
    ASSUME IInv, NEW r \in RunId, NEW c \in Command, Block(r, c)
    PROVE  IInv'
<1>1. /\ r \in DOMAIN job /\ job[r].phase = "running"
      /\ c \in Scheduled(Plan(r)) /\ job[r].result[c] = None
  BY DEF Block, Pending, Running, Accepted
<1>2. JobFacts(r)
  BY <1>1, FactsOfJob
<1> DEFINE j == [job[r] EXCEPT !.result = [@ EXCEPT ![c] = "blocked"]]
<1>3. job' = [job EXCEPT ![r] = j]
  BY DEF Block
<1>4. /\ j.plan = job[r].plan /\ j.log = job[r].log /\ j.index = job[r].index
      /\ j.phase = "running"
      /\ j.result = [job[r].result EXCEPT ![c] = "blocked"]
      /\ j.made = job[r].made
      /\ j.compared = job[r].compared /\ j.reconciled = job[r].reconciled
      /\ j.finished = job[r].finished
      /\ JobType(j)
  BY <1>1, <1>2 DEF JobFacts, JobType, Outcome
<1> HIDE DEF j
<1>5. job[r].finished = 0
  BY <1>1, <1>2 DEF JobFacts, Frozen
<1>6. /\ \A d \in Command : d # c => j.result[d] = job[r].result[d]
      /\ j.result[c] = "blocked"
  BY <1>2, <1>4 DEF JobFacts, JobType
<1>7. /\ job[r].compared[c] = None /\ job[r].made[c] = None
      /\ c \notin job[r].reconciled
  BY <1>1, <1>2, ResultAssumption DEF JobFacts, CommandDone, Outcome
<1>8. \A d \in Command : CommandDone(r, j, d)
  <2>2. CommandDone(r, j, c)
    BY <1>1, <1>4, <1>6, <1>7 DEF CommandDone, Plan
  <2>3. \A d \in Command : d # c => CommandDone(r, j, d)
    BY <1>2, <1>4, <1>6 DEF JobFacts, CommandDone
  <2>4. QED
    BY <2>2, <2>3
<1>9. Frozen(j)
  BY <1>4, <1>5 DEF Frozen
<1>10. ASSUME NEW d \in Scheduled(j.plan)
       PROVE  /\ j.result[d] \in {"succeeded", "failed"} =>
                    \A e \in Awaits(j.plan, d) : Matched(j, e)
              /\ j.result[d] = "blocked" => \E e \in Awaits(j.plan, d) : Hopeless(j, e)
  <2>1. d \in Command /\ Awaits(j.plan, d) \subseteq Command /\ j.plan = Plan(r)
    BY <1>2, <1>4 DEF JobFacts, Plan
  <2>2. \A e \in Command : Matched(job[r], e) => Matched(j, e)
    BY <1>4 DEF Matched
  <2>3. \A e \in Command : Hopeless(job[r], e) => Hopeless(j, e)
    BY <1>4, <1>6 DEF Hopeless
  <2>4. CASE d = c
    <3>1. PICK e \in Awaited(r, c) : Hopeless(job[r], e)
      BY DEF Block, Unsatisfied, Hopeless
    <3>2. e \in Awaits(j.plan, c)
      BY <2>1 DEF Awaited, Awaits
    <3>3. QED
      BY <1>6, <2>1, <2>3, <2>4, <3>1, <3>2
  <2>5. CASE d # c
    <3>1. j.result[d] = job[r].result[d] /\ j.plan = job[r].plan
      BY <1>4, <1>6, <2>1, <2>5
    <3>2. QED
      BY <1>2, <2>1, <2>2, <2>3, <3>1 DEF JobFacts
  <2>6. QED
    BY <2>4, <2>5
<1>11. \A d \in Command : job[r].result[d] = "succeeded" => j.result[d] = "succeeded"
  BY <1>1, <1>6, ResultAssumption DEF Outcome
<1>12. /\ UNCHANGED <<store, report, promotion, edits>>
       /\ stops' \in 0 .. MaxStops /\ IsLogState(log)' /\ Active(r)
  BY <1>1, <1>2 DEF Block, JobFacts, IsLogState, Active, Accepted
<1>13. QED
  BY <1>1, <1>3, <1>4, <1>5, <1>8, <1>9, <1>10, <1>11, <1>12, JobStep

LEMMA CompareKeeps ==
    ASSUME IInv, NEW r \in RunId, NEW c \in Command, Compare(r, c)
    PROVE  IInv'
<1>1. /\ r \in DOMAIN job /\ job[r].phase = "running"
      /\ job[r].result[c] = "succeeded" /\ job[r].compared[c] = None
  BY DEF Compare, Running, Accepted
<1>2. JobFacts(r)
  BY <1>1, FactsOfJob
<1>3. c \in Scheduled(Plan(r)) /\ Plan(r).accepted[c].out \in Content
  <2>1. c \in Scheduled(Plan(r))
    BY <1>1, <1>2, ResultAssumption DEF JobFacts, CommandDone, Outcome, Plan
  <2>2. QED
    BY <1>2, <2>1 DEF JobFacts, Observations
<1>4. PICK kept \in Comparison :
        /\ job' = [job EXCEPT ![r].compared[c] = kept]
        /\ kept.origin = r /\ kept.baseline = Plan(r).accepted[c].out
        /\ kept.outcome \in {"comparison_failed", "matched", "not_matched"}
        /\ kept.outcome \in {"matched", "not_matched"} =>
            (kept.outcome = "matched" <=> job[r].made[c] = kept.baseline)
  <2> DEFINE baseline == Plan(r).accepted[c].out
             outcomes == {"comparison_failed",
                           IF log.file[c] # baseline THEN "comparison_failed"
                           ELSE IF job[r].made[c] = baseline THEN "matched"
                           ELSE "not_matched"}
  <2>1. PICK outcome \in outcomes :
            job' = [job EXCEPT ![r].compared[c] =
                        [outcome |-> outcome, baseline |-> baseline,
                         expected |-> log.file[c], origin |-> r]]
    BY DEF Compare
  <2> DEFINE kept == [outcome |-> outcome, baseline |-> baseline,
                      expected |-> log.file[c], origin |-> r]
  <2>2. log.file[c] \in Content
    BY <1>2 DEF JobFacts, IsLogState
  <2>3. /\ outcome \in {"comparison_failed", "matched", "not_matched"}
        /\ outcome \in {"matched", "not_matched"} =>
            (outcome = "matched" <=> job[r].made[c] = baseline)
    BY <2>1
  <2>4. kept \in Comparison
    BY <1>3, <2>2, <2>3 DEF Comparison
  <2>5. QED
    BY <2>1, <2>3, <2>4
<1> DEFINE j == [job[r] EXCEPT !.compared = [@ EXCEPT ![c] = kept]]
<1>5. job' = [job EXCEPT ![r] = j]
  BY <1>4
<1>6. kept # None
  BY ResultAssumption
<1>7. /\ j.plan = job[r].plan /\ j.log = job[r].log /\ j.index = job[r].index
      /\ j.phase = "running" /\ j.result = job[r].result /\ j.made = job[r].made
      /\ j.compared = [job[r].compared EXCEPT ![c] = kept]
      /\ j.reconciled = job[r].reconciled
      /\ j.finished = job[r].finished
      /\ JobType(j)
  BY <1>1, <1>2 DEF JobFacts, JobType
<1> HIDE DEF j
<1>8. job[r].finished = 0
  BY <1>1, <1>2 DEF JobFacts, Frozen
<1>9. /\ \A d \in Command : d # c => j.compared[d] = job[r].compared[d]
      /\ j.compared[c] = kept
  BY <1>2, <1>7 DEF JobFacts, JobType
<1>10. \A d \in Command : CommandDone(r, j, d)
  <2>1. CommandDone(r, j, c)
    BY <1>1, <1>2, <1>4, <1>6, <1>7, <1>9 DEF JobFacts, CommandDone, Plan
  <2>2. \A d \in Command : d # c => CommandDone(r, j, d)
    BY <1>2, <1>7, <1>9 DEF JobFacts, CommandDone
  <2>3. QED
    BY <2>1, <2>2
<1>11. Frozen(j)
  BY <1>7, <1>8 DEF Frozen
<1>12. ASSUME NEW d \in Scheduled(j.plan)
       PROVE  /\ j.result[d] \in {"succeeded", "failed"} =>
                    \A e \in Awaits(j.plan, d) : Matched(j, e)
              /\ j.result[d] = "blocked" => \E e \in Awaits(j.plan, d) : Hopeless(j, e)
  <2>1. d \in Command /\ Awaits(j.plan, d) \subseteq Command /\ j.plan = Plan(r)
    BY <1>2, <1>7 DEF JobFacts, Plan
  <2>2. \A e \in Command : Matched(job[r], e) => Matched(j, e)
    BY <1>1, <1>9 DEF Matched
  <2>3. \A e \in Command : Hopeless(job[r], e) => Hopeless(j, e)
    BY <1>1, <1>7, <1>9 DEF Hopeless
  <2>4. QED
    BY <1>2, <1>7, <2>1, <2>2, <2>3 DEF JobFacts
<1>13. /\ UNCHANGED <<store, report, promotion, edits>>
       /\ stops' \in 0 .. MaxStops /\ IsLogState(log)' /\ Active(r)
  BY <1>1, <1>2 DEF Compare, JobFacts, IsLogState, Active, Accepted
<1>14. QED
  BY <1>1, <1>5, <1>7, <1>8, <1>10, <1>11, <1>12, <1>13, JobStep

\* What may be reconciled was compared, and is a part of the accepted plan.
LEMMA ReconcilingFacts ==
    ASSUME IInv, NEW r \in RunId, NEW c \in Command, Reconciling(r, c)
    PROVE  /\ r \in DOMAIN job /\ job[r].phase = "running"
           /\ c \in DOMAIN Plan(r).accepted
           /\ job[r].result[c] = "succeeded" /\ job[r].compared[c] # None
           /\ Plan(r).accepted[c] \in Observations(c)
           /\ Plan(r).source[c] \in Version \cup {None}
           /\ Reconciled(r, c) \in Observations(c)
           /\ Reconciled(r, c).out = Plan(r).accepted[c].out
           /\ Reconciled(r, c).seen = Plan(r).accepted[c].seen
<1>1. /\ r \in DOMAIN job /\ job[r].phase = "running"
      /\ c \in Scheduled(Plan(r)) /\ job[r].result[c] = "succeeded"
      /\ job[r].compared[c] # None
  BY DEF Reconciling, Running, Accepted, Produced, Worked
<1>2. JobFacts(r)
  BY <1>1, FactsOfJob
<1>3. c \in DOMAIN Plan(r).accepted /\ Plan(r).accepted[c] \in Observations(c)
  BY <1>1, <1>2 DEF JobFacts
<1>4. PlannedFrom(job[r].plan, job[r].log, job[r].index, store.runs)
  BY <1>1 DEF IInv, Planned
<1>5. Plan(r).source[c] \in Version \cup {None}
  BY <1>3, <1>4, PlanFacts DEF Plan
<1>6. /\ Reconciled(r, c) \in Observations(c)
      /\ Reconciled(r, c).out = Plan(r).accepted[c].out
      /\ Reconciled(r, c).seen = Plan(r).accepted[c].seen
  BY <1>3, <1>5 DEF Reconciled, Observations
<1>7. QED
  BY <1>1, <1>3, <1>5, <1>6

\* A log stays one when the observation of a command is replaced by another.
LEMMA LogWithObservation ==
    ASSUME IsLogState(log), NEW c \in Command, NEW seen \in Observations(c),
           NEW needed \in BOOLEAN,
           log' = [log EXCEPT !.observed[c] = seen, !.requires[c] = needed]
    PROVE  /\ IsLogState(log')
           /\ log'.code = log.code /\ log'.file = log.file /\ log'.flagged = log.flagged
           /\ log'.observed = [log.observed EXCEPT ![c] = seen]
           /\ log'.requires = [log.requires EXCEPT ![c] = needed]
<1>1. /\ DOMAIN log' = DOMAIN log
      /\ log'.code = log.code /\ log'.file = log.file /\ log'.flagged = log.flagged
      /\ log'.observed = [log.observed EXCEPT ![c] = seen]
      /\ log'.requires = [log.requires EXCEPT ![c] = needed]
  BY DEF IsLogState
<1>2. \A d \in Command : log'.observed[d] \in Observations(d)
  BY <1>1 DEF IsLogState
<1>3. DOMAIN log'.observed = Command
  BY <1>1 DEF IsLogState
<1>4. log'.requires \in [Command -> BOOLEAN]
  BY <1>1 DEF IsLogState
<1>5. QED
  BY <1>1, <1>2, <1>3, <1>4 DEF IsLogState

LEMMA ReconcileKeeps ==
    ASSUME IInv, NEW r \in RunId, NEW c \in Command, Reconcile(r, c)
    PROVE  IInv'
<1>1. /\ r \in DOMAIN job /\ job[r].phase = "running"
      /\ job[r].compared[c] # None /\ Reconciled(r, c) \in Observations(c)
  BY ReconcilingFacts DEF Reconcile
<1>2. JobFacts(r)
  BY <1>1, FactsOfJob
<1>3. IsLogState(log)'
  BY <1>1, <1>2, LogWithObservation DEF Reconcile, JobFacts
<1>4. job[r].finished = 0 /\ Active(r)
  BY <1>1, <1>2 DEF JobFacts, Frozen, Active, Accepted
<1>5. CASE job' = [job EXCEPT ![r].phase = "stopped"] /\ Interrupted
  <2>1. stops' \in 0 .. MaxStops
    BY <1>2, <1>5, HistoryAssumption DEF Interrupted, JobFacts
  <2>2. QED
    BY <1>1, <1>3, <1>4, <1>5, <2>1, PhaseStep DEF Phase, Reconcile
<1>6. CASE job' = [job EXCEPT ![r].reconciled = @ \cup {c}] /\ UNCHANGED stops
  <2> DEFINE j == [job[r] EXCEPT !.reconciled = @ \cup {c}]
  <2>1. job' = [job EXCEPT ![r] = j]
    BY <1>6
  <2>2. /\ j.plan = job[r].plan /\ j.log = job[r].log /\ j.index = job[r].index
        /\ j.phase = "running" /\ j.result = job[r].result /\ j.made = job[r].made
        /\ j.compared = job[r].compared
        /\ j.reconciled = job[r].reconciled \cup {c}
        /\ j.finished = job[r].finished
        /\ JobType(j)
    BY <1>1, <1>2 DEF JobFacts, JobType
  <2> HIDE DEF j
  <2>3. \A d \in Command : CommandDone(r, j, d)
    BY <1>1, <1>2, <2>2 DEF JobFacts, CommandDone
  <2>4. Frozen(j)
    BY <1>4, <2>2 DEF Frozen
  <2>5. \A d \in Scheduled(j.plan) :
            /\ j.result[d] \in {"succeeded", "failed"} =>
                \A e \in Awaits(j.plan, d) : Matched(j, e)
            /\ j.result[d] = "blocked" => \E e \in Awaits(j.plan, d) : Hopeless(j, e)
    BY <1>2, <2>2 DEF JobFacts, Matched, Hopeless
  <2>6. UNCHANGED <<store, report, promotion, edits>> /\ stops' \in 0 .. MaxStops
    BY <1>2, <1>6 DEF Reconcile, JobFacts
  <2>7. QED
    BY <1>1, <1>3, <1>4, <2>1, <2>2, <2>3, <2>4, <2>5, <2>6, JobStep
<1>7. QED
  BY <1>5, <1>6 DEF Reconcile

LEMMA RefuseKeeps ==
    ASSUME IInv, NEW r \in RunId, NEW c \in Command, Refuse(r, c)
    PROVE  IInv'
<1>1. r \in DOMAIN job
  BY ReconcilingFacts DEF Refuse
<1>2. stops' \in 0 .. MaxStops /\ IsLogState(log)'
  BY DEF Refuse, IInv, Types, IsLogState
<1>3. QED
  BY <1>1, <1>2, PhaseStep DEF Refuse, Phase

LEMMA StopKeeps ==
    ASSUME IInv, NEW r \in RunId, Stop(r)
    PROVE  IInv'
<1>1. r \in DOMAIN job /\ job[r].phase = "running"
  BY DEF Stop, Running, Accepted
<1>2. JobFacts(r)
  BY <1>1, FactsOfJob
<1>3. job[r].finished = 0
  BY <1>1, <1>2 DEF JobFacts, Frozen
<1>4. stops' \in 0 .. MaxStops
  BY <1>2, HistoryAssumption DEF Stop, Interrupted, JobFacts
<1>5. IsLogState(log)'
  BY <1>2 DEF Stop, JobFacts, IsLogState
<1>6. QED
  BY <1>1, <1>3, <1>4, <1>5, PhaseStep DEF Stop, Phase

LEMMA ResumeKeeps ==
    ASSUME IInv, NEW r \in RunId, Resume(r)
    PROVE  IInv'
<1>1. r \in DOMAIN job
  BY DEF Resume, Accepted
<1>2. JobFacts(r)
  BY <1>1, FactsOfJob
<1>3. stops' \in 0 .. MaxStops /\ IsLogState(log)'
  BY <1>2 DEF Resume, JobFacts, IsLogState
<1>4. CASE job[r].phase = "stopped"
  <2>1. job[r].finished = 0
    BY <1>2, <1>4 DEF JobFacts, Frozen
  <2>2. PICK phase \in {"running", "failed"} : job' = [job EXCEPT ![r].phase = phase]
    BY <1>4 DEF Resume
  <2>3. QED
    BY <1>1, <1>3, <2>1, <2>2, PhaseStep DEF Phase, Resume
<1>5. CASE job[r].phase = "failed" /\ job[r].finished # 0
  <2>1. job' = [job EXCEPT ![r].phase = "publishing"]
    BY <1>5 DEF Resume
  <2>2. QED
    BY <1>1, <1>3, <1>5, <2>1, PhaseStep DEF Phase, Resume
<1>6. QED
  BY <1>4, <1>5 DEF Resume

LEMMA FreezeKeeps ==
    ASSUME IInv, NEW r \in RunId, Freeze(r)
    PROVE  IInv'
<1>1. r \in DOMAIN job /\ job[r].phase = "running"
  BY DEF Freeze, Running, Accepted
<1>2. JobFacts(r)
  BY <1>1, FactsOfJob
<1>3. job[r].finished = 0 /\ Active(r)
  BY <1>1, <1>2 DEF JobFacts, Frozen, Active, Accepted
<1> DEFINE n == 1 + Cardinality({s \in DOMAIN job : job[s].finished # 0})
           j == [job[r] EXCEPT !.phase = "publishing", !.finished = n]
<1>4. n \in Nat /\ n # 0
  <2>1. IsFiniteSet({s \in DOMAIN job : job[s].finished # 0})
    BY FS_Subset DEF IInv, Types
  <2>2. QED
    BY <2>1, FS_CardinalityType
<1> HIDE DEF n
<1>5. job' = [job EXCEPT ![r] = j]
  BY DEF Freeze, n
<1>6. /\ j.plan = job[r].plan /\ j.log = job[r].log /\ j.index = job[r].index
      /\ j.phase = "publishing" /\ j.result = job[r].result /\ j.made = job[r].made
      /\ j.compared = job[r].compared /\ j.reconciled = job[r].reconciled
      /\ j.finished = n
      /\ JobType(j)
  BY <1>2, <1>4 DEF JobFacts, JobType, Phase
<1> HIDE DEF j
<1>7. \A d \in Command : CommandDone(r, j, d)
  BY <1>2, <1>6 DEF JobFacts, CommandDone
<1>8. \A d \in Scheduled(j.plan) : Done(j, d)
  BY <1>6 DEF Freeze, Worked, Produced, Done, Plan
<1>9. Frozen(j)
  BY <1>4, <1>6, <1>8 DEF Frozen
<1>10. \A d \in Scheduled(j.plan) :
            /\ j.result[d] \in {"succeeded", "failed"} =>
                \A e \in Awaits(j.plan, d) : Matched(j, e)
            /\ j.result[d] = "blocked" => \E e \in Awaits(j.plan, d) : Hopeless(j, e)
  BY <1>2, <1>6 DEF JobFacts, Matched, Hopeless
<1>11. /\ UNCHANGED <<store, report, promotion, edits>>
       /\ stops' \in 0 .. MaxStops /\ IsLogState(log)'
  BY <1>2 DEF Freeze, JobFacts, IsLogState
<1>12. QED
  BY <1>1, <1>3, <1>5, <1>6, <1>7, <1>9, <1>10, <1>11, JobStep

-----------------------------------------------------------------------------
(* Acceptance and publication.                                             *)

\* What the saved comparisons say of a command is about a saved run.
LEMMA PriorComparisonGood ==
    ASSUME IInv, NEW c \in DOMAIN PriorComparisons(store),
           Reusable(log, PriorComparisons(store), c)
    PROVE  /\ PriorComparisons(store)[c].baseline = log.observed[c].out
           /\ GoodComparison(PriorComparisons(store)[c], c)
<1> DEFINE s == store.latestArtifact[c]
           run == store.runs[s]
           kept == run.compared[c]
<1>1. c \in Command /\ s # None /\ PriorComparisons(store)[c] = kept
  BY DEF PriorComparisons
<1>2. s \in Saved(store) /\ c \in DOMAIN run.compared
  BY <1>1 DEF IInv, Archived, Types, StoreType
<1>3. /\ s \in DOMAIN job /\ s \in RunId /\ job[s].finished # 0
      /\ run = SavedRunOf(s)
  BY <1>2 DEF IInv, Archived, Types, StoreType
<1>4. /\ c \in DOMAIN job[s].plan.accepted
      /\ kept = IF job[s].compared[c] # None THEN job[s].compared[c]
                ELSE IF c \in DOMAIN job[s].plan.reused THEN job[s].plan.reused[c]
                ELSE NotRun(s, job[s].plan.accepted[c].out)
  BY <1>2, <1>3 DEF SavedRunOf, SavedRun
<1>5. /\ kept.outcome \in {"matched", "not_matched", "comparison_failed"}
      /\ kept.baseline = log.observed[c].out
  BY <1>1 DEF Reusable
<1>6. CASE job[s].compared[c] # None
  <2>1. kept = job[s].compared[c]
    BY <1>4, <1>6
  <2>2. JobType(job[s]) /\ CommandDone(s, job[s], c)
    BY <1>1, <1>3 DEF IInv, Types, Progress
  <2>3. kept \in Comparison
    BY <1>1, <1>6, <2>1, <2>2 DEF JobType
  <2>4. kept.origin = s /\ kept.baseline = job[s].plan.accepted[c].out
    BY <1>6, <2>1, <2>2 DEF CommandDone
  <2>5. kept.outcome \in {"matched", "not_matched"} =>
            (kept.outcome = "matched" <=> job[s].made[c] = kept.baseline)
    BY <1>6, <2>1, <2>2 DEF CommandDone
  <2>6. GoodComparison(kept, c)
    BY <1>2, <2>3, <2>4, <2>5 DEF GoodComparison
  <2>7. QED
    BY <1>1, <1>5, <2>6
<1>7. CASE job[s].compared[c] = None /\ c \in DOMAIN job[s].plan.reused
  <2>1. kept = job[s].plan.reused[c]
    BY <1>4, <1>7
  <2>2. GoodComparison(kept, c)
    BY <1>3, <1>7, <2>1 DEF IInv, Reused
  <2>3. QED
    BY <1>1, <1>5, <2>2
<1>8. CASE job[s].compared[c] = None /\ c \notin DOMAIN job[s].plan.reused
  BY <1>4, <1>5, <1>8 DEF NotRun
<1>9. QED
  BY <1>6, <1>7, <1>8

LEMMA LaunchKeeps ==
    ASSUME IInv, NEW r \in RunId, NEW q \in Requests, Launch(r, q)
    PROVE  IInv'
<1> DEFINE p == Prepare(log, q, store)
           prior == PriorResults(store)
           compared == PriorComparisons(store)
           j == Fresh(p)
<1>1. /\ r \notin DOMAIN job
      /\ ~ Promoting /\ NoConflict(p)
      /\ job' = [s \in DOMAIN job \cup {r} |-> IF s = r THEN j ELSE job[s]]
      /\ UNCHANGED <<log, store, report, promotion, edits, stops>>
  BY DEF Launch, Accepted
<1>2. /\ p.request = q
      /\ p.select = [c \in Target(q) |-> SelectionOf(log, q, prior, c)]
      /\ p.digest = [c \in Selected(log, q) \ PolicySkipped(log, q) |-> SourceDigest(log, q, c)]
      /\ p.accepted = [c \in Selected(log, q) |-> log.observed[c]]
      /\ p.source = [c \in Selected(log, q) |-> Fingerprint(log.code[c])]
      /\ p.reused = [c \in {d \in Selected(log, q) :
                                /\ p.select[d] \notin {"run", "blocked"}
                                /\ Reusable(log, compared, d)} |-> compared[c]]
  BY DEF Prepare, PlanOf
<1>3. /\ j.plan = p /\ j.log = log /\ j.index = store.latestCommand
      /\ j.phase = "running" /\ j.finished = 0 /\ j.reconciled = {}
      /\ j.result = [c \in Command |-> None] /\ j.made = [c \in Command |-> None]
      /\ j.compared = [c \in Command |-> None]
      /\ JobType(j)
  BY DEF Fresh, JobType, Phase
<1> HIDE DEF p, prior, compared, j
<1>4. DOMAIN job' = DOMAIN job \cup {r} /\ job'[r] = j
  BY <1>1
<1>5. \A s \in DOMAIN job : job'[s] = job[s] /\ s # r
  BY <1>1
<1>6. Types'
  <2>1. IsFiniteSet(DOMAIN job')
    BY <1>4, FS_AddElement DEF IInv, Types
  <2>2. \A s \in DOMAIN job' : JobType(job'[s])
    BY <1>3, <1>4, <1>5 DEF IInv, Types
  <2>3. StoreType'
    BY <1>1, <1>4 DEF IInv, Types, StoreType, Saved
  <2>4. IsLogState(log)' /\ report' \in Saved(store)' \cup {None}
    BY <1>1 DEF IInv, Types, IsLogState, Saved
  <2>5. QED
    BY <1>1, <1>4, <2>1, <2>2, <2>3, <2>4 DEF IInv, Types
<1>7. PlannedFrom(p, log, store.latestCommand, store.runs)
  <2>1. PriorResults([runs |-> store.runs, latestCommand |-> store.latestCommand]) = prior
    BY DEF PriorResults, prior
  <2>2. store.latestCommand \in [Command -> DOMAIN store.runs \cup {None}]
    BY DEF IInv, Types, StoreType, Saved
  <2>3. IsLogState(log)
    BY DEF IInv, Types
  <2>4. QED
    BY <1>2, <2>1, <2>2, <2>3 DEF PlannedFrom
<1>8. Planned'
  BY <1>1, <1>3, <1>4, <1>5, <1>7 DEF IInv, Planned
<1>9. \A c \in Scheduled(p) : c \in Command /\ c \in DOMAIN p.select /\ p.select[c] = "run"
  BY <1>7, PlanFacts DEF Scheduled
<1>10. Progress'
  <2>1. Frozen(j) /\ \A c \in Command : CommandDone(r, j, c)
    BY <1>3, ResultAssumption DEF Frozen, CommandDone, Outcome
  <2>2. QED
    BY <1>4, <1>5, <2>1 DEF IInv, Progress
<1>11. Held'
  <2>1. \A c \in Scheduled(j.plan) : j.result[c] = None
    BY <1>3, <1>9
  <2>2. QED
    BY <1>4, <1>5, <2>1, ResultAssumption DEF IInv, Held, Outcome
<1>12. Archived'
  <2>1. \A s \in Saved(store) : s \in DOMAIN job
    BY DEF IInv, Types, StoreType
  <2>2. \A s \in Saved(store) : job'[s].finished # 0 /\ store.runs[s] = SavedRunOf(s)'
    BY <1>5, <2>1 DEF IInv, Archived, SavedRunOf
  <2>3. \A s \in DOMAIN job' : job'[s].phase = "complete" => s \in Saved(store)
    BY <1>3, <1>4, <1>5 DEF IInv, Archived
  <2>4. QED
    BY <1>1, <2>2, <2>3 DEF IInv, Archived, Saved
<1>13. Reused'
  <2>1. \A kept, c : GoodComparison(kept, c) => GoodComparison(kept, c)'
    <3>1. \A s \in Saved(store) : s \in DOMAIN job
      BY DEF IInv, Types, StoreType
    <3>2. QED
      BY <1>1, <1>5, <3>1 DEF GoodComparison, Saved
  <2>2. ASSUME NEW c \in DOMAIN p.reused
        PROVE  /\ c \notin Scheduled(p)
               /\ p.reused[c].baseline = p.accepted[c].out
               /\ GoodComparison(p.reused[c], c)
    <3>1. /\ c \in Selected(log, q) /\ p.select[c] # "run" /\ Reusable(log, compared, c)
          /\ p.reused[c] = compared[c]
      BY <1>2
    <3>2. c \in DOMAIN compared
      BY <3>1 DEF Reusable
    <3>3. compared[c].baseline = log.observed[c].out /\ GoodComparison(compared[c], c)
      BY <3>1, <3>2, PriorComparisonGood DEF compared
    <3>4. p.accepted[c] = log.observed[c]
      BY <1>2, <3>1
    <3>5. QED
      BY <1>9, <3>1, <3>3, <3>4
  <2>3. QED
    BY <1>3, <1>4, <1>5, <2>1, <2>2 DEF IInv, Reused
<1>14. Promotes'
  <2>1. SUFFICES ASSUME promotion # None PROVE Promotes'
    BY <1>1 DEF Promotes
  <2>2. promotion.run \in DOMAIN job /\ promotion.command \in Command
    BY <2>1 DEF IInv, Promotes
  <2>3. job'[promotion.run] = job[promotion.run]
    BY <1>5, <2>2
  <2>4. QED
    BY <1>1, <1>4, <2>1, <2>3 DEF IInv, Promotes, Newest, Saved
<1>15. MarkedReportIsCurrent'
  BY <1>1 DEF IInv, MarkedReportIsCurrent, Newest, Saved
<1>16. BoundariesNotPromoted'
  <2>1. SUFFICES ASSUME PromotionMarked, NEW s \in Overlapping(promotion.command)'
                 PROVE  FALSE
    BY <1>1 DEF BoundariesNotPromoted, PromotionMarked
  <2>2. Overlapping(promotion.command) = {}
    BY <2>1 DEF IInv, BoundariesNotPromoted
  <2>3. /\ s \in RunId /\ s \in DOMAIN job'
        /\ job'[s].phase \in {"running", "publishing"}
        /\ promotion.command \in job'[s].plan.boundary
    BY <1>1, <2>1 DEF Overlapping, Active, Accepted, Plan
  <2>4. CASE s # r
    BY <1>4, <1>5, <2>2, <2>3, <2>4 DEF Overlapping, Active, Accepted, Plan
  <2>5. CASE s = r
    BY <1>1, <1>3, <1>4, <2>1, <2>3, <2>5 DEF NoConflict
  <2>6. QED
    BY <2>4, <2>5
<1>17. QED
  BY <1>6, <1>8, <1>10, <1>11, <1>12, <1>13, <1>14, <1>15, <1>16 DEF IInv

\* What a step may make of the store: nothing saved is lost or changed, and what
\* is added is the run of a job that has frozen its completion.
GoodStore(t) ==
    /\ t \in [runs           : {t.runs},
              latestCommand  : [Command -> Saved(t) \cup {None}],
              latestArtifact : [Command -> Saved(t) \cup {None}],
              generation     : Nat,
              marker         : Nat]
    /\ Saved(store) \subseteq Saved(t) /\ Saved(t) \subseteq DOMAIN job
    /\ \A s \in Saved(store) : t.runs[s] = store.runs[s]
    /\ \A s \in Saved(t) : job[s].finished # 0 /\ t.runs[s] = SavedRunOf(s)
    /\ \A c \in Command :
        t.latestArtifact[c] # None => c \in DOMAIN t.runs[t.latestArtifact[c]].compared
    /\ t.generation = Cardinality(Saved(t))
    /\ store.generation <= t.generation
    /\ t.marker <= t.generation
    /\ t.runs = store.runs \/ store.generation < t.generation

LEMMA StoreIsGood ==
    ASSUME IInv
    PROVE  GoodStore(store)
<1>1. store.generation \in Nat
  BY DEF IInv, Types, StoreType
<1>2. QED
  BY <1>1 DEF IInv, Types, StoreType, Archived, GoodStore

LEMMA MarkedIsGood ==
    ASSUME NEW t, GoodStore(t), NEW marker \in Nat, marker <= t.generation
    PROVE  /\ GoodStore([t EXCEPT !.marker = marker])
           /\ [t EXCEPT !.marker = marker].runs = t.runs
           /\ [t EXCEPT !.marker = marker].marker = marker
           /\ [t EXCEPT !.marker = marker].generation = t.generation
BY DEF GoodStore, Saved

LEMMA GoodStoreIsFinite ==
    ASSUME IInv, NEW t, GoodStore(t)
    PROVE  /\ IsFiniteSet(Saved(t))
           /\ Newest(t) \in Saved(t) \cup {None}
<1>1. IsFiniteSet(Saved(t))
  BY FS_Subset DEF IInv, Types, GoodStore
<1>2. ASSUME NEW s \in Saved(t)
      PROVE  t.runs[s].finished \in Nat
  <2>1. s \in DOMAIN job /\ t.runs[s] = SavedRunOf(s)
    BY DEF GoodStore
  <2>2. job[s].finished \in Nat
    BY <2>1 DEF IInv, Types, JobType
  <2>3. QED
    BY <2>1, <2>2 DEF SavedRunOf, SavedRun
<1>3. QED
  BY <1>1, <1>2, NewestIsSaved

LEMMA PublishedIsGood ==
    ASSUME IInv, NEW r \in DOMAIN job, job[r].finished # 0
    PROVE  LET kept == Publish(store, r, SavedRunOf(r))
           IN  /\ GoodStore(kept)
               /\ r \in Saved(kept)
               /\ kept = store \/ kept.marker = 0
<1> DEFINE run == SavedRunOf(r)
           kept == Publish(store, r, run)
           own == {c \in DOMAIN run.select : run.select[c] \in {"run", "blocked"}}
<1>1. CASE r \in Saved(store)
  BY <1>1, StoreIsGood DEF Publish
<1>2. CASE r \notin Saved(store)
  <2>1. kept =
         [runs |-> [s \in Saved(store) \cup {r} |-> IF s = r THEN run ELSE store.runs[s]],
          latestCommand |->
            [c \in Command |-> IF c \in own THEN r ELSE store.latestCommand[c]],
          latestArtifact |->
            [c \in Command |->
                IF c \in DOMAIN run.compared THEN r ELSE store.latestArtifact[c]],
          generation |-> store.generation + 1,
          marker |-> 0]
    BY <1>2 DEF Publish, Added
  <2> HIDE DEF kept, run, own
  <2>2. Saved(kept) = Saved(store) \cup {r}
    BY <2>1 DEF Saved
  <2>3. /\ kept.runs[r] = run
        /\ \A s \in Saved(store) : kept.runs[s] = store.runs[s]
    BY <1>2, <2>1
  <2>4. /\ Saved(store) \subseteq DOMAIN job /\ IsFiniteSet(Saved(store))
        /\ store.generation = Cardinality(Saved(store)) /\ store.generation \in Nat
    BY FS_Subset DEF IInv, Types, StoreType
  <2>5. Cardinality(Saved(kept)) = store.generation + 1
    BY <1>2, <2>2, <2>4, FS_AddElement
  <2>6. \A s \in Saved(kept) : job[s].finished # 0 /\ kept.runs[s] = SavedRunOf(s)
    BY <2>2, <2>3 DEF IInv, Archived, run
  <2>7. /\ kept.latestCommand \in [Command -> Saved(kept) \cup {None}]
        /\ kept.latestArtifact \in [Command -> Saved(kept) \cup {None}]
    BY <2>1, <2>2 DEF IInv, Types, StoreType
  <2>8. ASSUME NEW c \in Command, kept.latestArtifact[c] # None
        PROVE  c \in DOMAIN kept.runs[kept.latestArtifact[c]].compared
    <3>1. CASE c \in DOMAIN run.compared
      BY <2>1, <2>3, <3>1
    <3>2. CASE c \notin DOMAIN run.compared
      <4>1. kept.latestArtifact[c] = store.latestArtifact[c]
        BY <2>1, <3>2
      <4>2. store.latestArtifact[c] \in Saved(store)
        BY <2>8, <4>1 DEF IInv, Types, StoreType
      <4>3. QED
        BY <2>3, <2>8, <4>1, <4>2 DEF IInv, Archived
    <3>3. QED
      BY <3>1, <3>2
  <2>9. /\ kept \in [runs           : {kept.runs},
                     latestCommand  : [Command -> Saved(kept) \cup {None}],
                     latestArtifact : [Command -> Saved(kept) \cup {None}],
                     generation     : Nat,
                     marker         : Nat]
        /\ kept.generation = store.generation + 1 /\ kept.marker = 0
    BY <2>1, <2>4, <2>7
  <2>10. GoodStore(kept)
    BY <2>2, <2>3, <2>4, <2>5, <2>6, <2>8, <2>9 DEF GoodStore
  <2>11. QED
    BY <2>2, <2>9, <2>10 DEF kept, run
<1>3. QED
  BY <1>1, <1>2

\* What the store and the phases change of the other parts.
LEMMA StoreParts ==
    ASSUME IInv, GoodStore(store'),
           DOMAIN job' = DOMAIN job,
           \A s \in DOMAIN job :
            /\ JobType(job'[s]) /\ Frozen(job'[s])
            /\ job'[s].plan = job[s].plan /\ job'[s].log = job[s].log
            /\ job'[s].index = job[s].index /\ job'[s].result = job[s].result
            /\ job'[s].made = job[s].made /\ job'[s].compared = job[s].compared
            /\ job'[s].reconciled = job[s].reconciled
            /\ job'[s].finished = job[s].finished
            /\ job'[s].phase = "complete" => s \in Saved(store')
    PROVE  /\ StoreType' /\ Planned' /\ Progress' /\ Held' /\ Archived' /\ Reused'
           /\ \A s \in DOMAIN job' : JobType(job'[s])
<1>1. StoreType'
  BY DEF GoodStore, StoreType, Saved
<1>2. Planned'
  <2>1. ASSUME NEW s \in DOMAIN job
        PROVE  PlannedFrom(job[s].plan, job[s].log, job[s].index, store'.runs)
    <3>1. PlannedFrom(job[s].plan, job[s].log, job[s].index, store.runs)
      BY DEF IInv, Planned
    <3>2. DOMAIN store.runs \subseteq DOMAIN store'.runs
      BY DEF GoodStore, Saved
    <3>3. \A t \in DOMAIN store.runs : store'.runs[t] = store.runs[t]
      BY DEF GoodStore, Saved
    <3>4. QED
      BY <3>1, <3>2, <3>3, PlannedKept
  <2>2. QED
    BY <2>1 DEF Planned
<1>3. Progress'
  BY DEF IInv, Progress, CommandDone
<1>4. Held'
  BY DEF IInv, Held, Matched, Hopeless
<1>5. Archived'
  <2>1. \A s \in Saved(store') :
            job'[s].finished # 0 /\ store'.runs[s] = SavedRunOf(s)'
    BY DEF GoodStore, SavedRunOf
  <2>2. QED
    BY <2>1 DEF Archived, GoodStore, Saved
<1>6. Reused'
  <2>1. ASSUME NEW s \in DOMAIN job, NEW c \in DOMAIN job[s].plan.reused
        PROVE  /\ c \notin Scheduled(job[s].plan)
               /\ job[s].plan.reused[c].baseline = job[s].plan.accepted[c].out
               /\ GoodComparison(job[s].plan.reused[c], c)'
    <3>1. /\ c \notin Scheduled(job[s].plan)
          /\ job[s].plan.reused[c].baseline = job[s].plan.accepted[c].out
          /\ GoodComparison(job[s].plan.reused[c], c)
      BY DEF IInv, Reused
    <3>2. /\ Saved(store) \subseteq Saved(store)' /\ Saved(store) \subseteq DOMAIN job
      BY DEF GoodStore, Saved, IInv, Types, StoreType
    <3>3. \A t \in Saved(store) : job'[t].made = job[t].made
      BY <3>2
    <3>4. GoodComparison(job[s].plan.reused[c], c)'
      <4> DEFINE kept == job[s].plan.reused[c]
      <4>1. kept \in Comparison
        BY <3>1 DEF GoodComparison
      <4>2. /\ kept.outcome \in {"matched", "not_matched"} =>
                /\ kept.origin \in Saved(store)
                /\ kept.outcome = "matched" <=> job[kept.origin].made[c] = kept.baseline
        BY <3>1 DEF GoodComparison
      <4>3. job'[s].plan = job[s].plan
        OBVIOUS
      <4>4. kept' = kept
        BY <4>3
      <4>5. QED
        BY <3>2, <3>3, <4>1, <4>2, <4>4 DEF GoodComparison
    <3>5. QED
      BY <3>1, <3>4
  <2>2. QED
    BY <2>1 DEF Reused
<1>7. QED
  BY <1>1, <1>2, <1>3, <1>4, <1>5, <1>6

LEMMA PublicationStep ==
    ASSUME IInv, GoodStore(store'),
           DOMAIN job' = DOMAIN job,
           \A s \in DOMAIN job :
            /\ JobType(job'[s]) /\ Frozen(job'[s])
            /\ job'[s].plan = job[s].plan /\ job'[s].log = job[s].log
            /\ job'[s].index = job[s].index /\ job'[s].result = job[s].result
            /\ job'[s].made = job[s].made /\ job'[s].compared = job[s].compared
            /\ job'[s].reconciled = job[s].reconciled
            /\ job'[s].finished = job[s].finished
            /\ job'[s].phase = "complete" => s \in Saved(store')
            /\ job'[s].phase \in {"running", "publishing"} => Active(s),
           UNCHANGED <<log, promotion, edits>>, stops' \in 0 .. MaxStops,
           report' \in Saved(store') \cup {None},
           store'.marker # 0 =>
            store'.marker = store'.generation /\ report' = Newest(store')
    PROVE  IInv'
<1>1. /\ StoreType' /\ Planned' /\ Progress' /\ Held' /\ Archived' /\ Reused'
      /\ \A s \in DOMAIN job' : JobType(job'[s])
  BY StoreParts
<1>2. Types'
  BY <1>1 DEF IInv, Types, IsLogState, Saved
<1>3. Promotes'
  <2>1. SUFFICES ASSUME promotion # None PROVE Promotes'
    BY DEF Promotes
  <2>2. /\ promotion.run \in DOMAIN job /\ promotion.command \in Command
        /\ promotion.report \in Saved(store) \cup {None}
        /\ promotion.generation \in Nat
        /\ job[promotion.run].result[promotion.command] = "succeeded"
        /\ promotion.phase = "composed" =>
            /\ promotion.generation <= store.generation
            /\ promotion.generation = store.generation => promotion.report = Newest(store)
    BY <2>1 DEF IInv, Promotes
  <2>3. promotion.report \in Saved(store') \cup {None}
    BY <2>2 DEF GoodStore
  <2>4. job'[promotion.run].result = job[promotion.run].result
    BY <2>2
  <2>5. ASSUME promotion.phase = "composed"
        PROVE  /\ promotion.generation <= store'.generation
               /\ promotion.generation = store'.generation => promotion.report = Newest(store')
    <3>1. store.generation \in Nat /\ store'.generation \in Nat
      BY DEF IInv, Types, StoreType, GoodStore
    <3>2. /\ store.generation <= store'.generation
          /\ store'.runs = store.runs \/ store.generation < store'.generation
      BY DEF GoodStore
    <3>3. CASE store'.runs = store.runs
      <4>1. store'.generation = store.generation
        BY <3>3 DEF GoodStore, Saved, IInv, Types, StoreType
      <4>2. QED
        BY <2>2, <2>5, <3>3, <4>1, NewestOfMarked
    <3>4. CASE store.generation < store'.generation
      BY <2>2, <2>5, <3>1, <3>4
    <3>5. QED
      BY <3>2, <3>3, <3>4
  <2>6. promotion' = promotion
    OBVIOUS
  <2>7. Newest(store') = Newest(store)' /\ Saved(store') = Saved(store)'
    BY DEF Newest, Saved
  <2>8. QED
    BY <2>1, <2>2, <2>3, <2>4, <2>5, <2>6, <2>7 DEF IInv, Promotes
<1>4. MarkedReportIsCurrent'
  BY DEF MarkedReportIsCurrent, Newest, Saved
<1>5. BoundariesNotPromoted'
  <2>1. Overlapping(promotion.command)' \subseteq Overlapping(promotion.command)
    BY DEF Overlapping, Active, Accepted, Plan
  <2>2. QED
    BY <2>1 DEF IInv, BoundariesNotPromoted, PromotionMarked
<1>6. QED
  BY <1>1, <1>2, <1>3, <1>4, <1>5 DEF IInv

LEMMA PublishRunKeeps ==
    ASSUME IInv, NEW r \in RunId, PublishRun(r)
    PROVE  IInv'
<1> DEFINE kept == Publish(store, r, SavedRunOf(r))
<1>1. /\ r \in DOMAIN job /\ job[r].phase = "publishing"
      /\ UNCHANGED <<log, promotion, edits>>
      /\ \/ /\ job' = [job EXCEPT ![r].phase = "complete"]
            /\ store' = Marked(kept) /\ report' = Newest(kept) /\ UNCHANGED stops
         \/ /\ job' = [job EXCEPT ![r].phase = "failed"] /\ Interrupted
            /\ \/ store' \in {store, kept} /\ UNCHANGED report
               \/ store' \in {kept, Marked(kept)} /\ report' = Newest(kept)
  BY DEF PublishRun, Accepted, Write, SavedRunOf
<1>2. JobFacts(r)
  BY <1>1, FactsOfJob
<1>3. job[r].finished # 0 /\ Active(r)
  BY <1>1, <1>2 DEF JobFacts, Frozen, Active, Accepted
<1>4. GoodStore(kept) /\ r \in Saved(kept) /\ (kept = store \/ kept.marker = 0)
  BY <1>1, <1>3, PublishedIsGood
<1> HIDE DEF kept
<1>5. /\ GoodStore(Marked(kept)) /\ Marked(kept).runs = kept.runs
      /\ Marked(kept).marker = kept.generation /\ Marked(kept).generation = kept.generation
      /\ Newest(Marked(kept)) = Newest(kept) /\ Saved(Marked(kept)) = Saved(kept)
  <2>1. kept.generation \in Nat /\ kept.generation <= kept.generation
    BY <1>4 DEF GoodStore
  <2>2. QED
    BY <1>4, <2>1, MarkedIsGood, NewestOfMarked DEF Marked
<1>6. Newest(kept) \in Saved(kept) \cup {None}
  BY <1>4, GoodStoreIsFinite
<1>7. stops' \in 0 .. MaxStops
  BY <1>1, <1>2, HistoryAssumption DEF Interrupted, JobFacts
<1>8. GoodStore(store')
  BY <1>1, <1>4, <1>5, StoreIsGood
<1>9. report' \in Saved(store') \cup {None}
  <2>1. report \in Saved(store) \cup {None} /\ Saved(store) \subseteq Saved(kept)
    BY <1>4 DEF IInv, Types, GoodStore
  <2>2. QED
    BY <1>1, <1>5, <1>6, <2>1
<1>10. store'.marker # 0 => store'.marker = store'.generation /\ report' = Newest(store')
  <2>1. store.marker # 0 => store.marker = store.generation /\ report = Newest(store)
    BY DEF IInv, MarkedReportIsCurrent
  <2>2. QED
    BY <1>1, <1>4, <1>5, <2>1
<1>11. PICK phase \in {"complete", "failed"} :
        /\ job' = [job EXCEPT ![r].phase = phase]
        /\ phase = "complete" => r \in Saved(store')
  BY <1>1, <1>4, <1>5
<1>12. /\ DOMAIN job' = DOMAIN job
       /\ \A s \in DOMAIN job : s # r => job'[s] = job[s]
       /\ job'[r] = [job[r] EXCEPT !.phase = phase]
  BY <1>1, <1>11
<1>13. ASSUME NEW s \in DOMAIN job
       PROVE
            /\ JobType(job'[s]) /\ Frozen(job'[s])
            /\ job'[s].plan = job[s].plan /\ job'[s].log = job[s].log
            /\ job'[s].index = job[s].index /\ job'[s].result = job[s].result
            /\ job'[s].made = job[s].made /\ job'[s].compared = job[s].compared
            /\ job'[s].reconciled = job[s].reconciled
            /\ job'[s].finished = job[s].finished
            /\ job'[s].phase = "complete" => s \in Saved(store')
            /\ job'[s].phase \in {"running", "publishing"} => Active(s)
  <2>1. CASE s # r
    <3>1. JobFacts(s)
      BY FactsOfJob
    <3>2. job[s].phase = "complete" => s \in Saved(store')
      BY <1>8 DEF IInv, Archived, GoodStore
    <3>3. QED
      BY <1>12, <2>1, <3>1, <3>2 DEF JobFacts, Active, Accepted
  <2>2. CASE s = r
    <3>1. /\ job'[r].phase = phase /\ JobType(job'[r])
          /\ job'[r].plan = job[r].plan /\ job'[r].log = job[r].log
          /\ job'[r].index = job[r].index /\ job'[r].result = job[r].result
          /\ job'[r].made = job[r].made /\ job'[r].compared = job[r].compared
          /\ job'[r].reconciled = job[r].reconciled
          /\ job'[r].finished = job[r].finished
      BY <1>2, <1>12 DEF JobFacts, JobType, Phase
    <3>2. Frozen(job'[r])
      BY <1>2, <1>3, <3>1 DEF JobFacts, Frozen, Done
    <3>3. QED
      BY <1>3, <1>11, <2>2, <3>1, <3>2
  <2>3. QED
    BY <2>1, <2>2
<1>14. QED
  BY <1>1, <1>7, <1>8, <1>9, <1>10, <1>12, <1>13, PublicationStep

LEMMA RenderKeeps ==
    ASSUME IInv, Render
    PROVE  IInv'
<1>1. /\ store' \in {store, Marked(store)} /\ report' = Newest(store)
      /\ UNCHANGED <<log, job, promotion, edits, stops>>
  BY DEF Render, Write
<1>2. /\ GoodStore(Marked(store)) /\ Marked(store).runs = store.runs
      /\ Marked(store).marker = store.generation
      /\ Marked(store).generation = store.generation
      /\ Newest(Marked(store)) = Newest(store) /\ Saved(Marked(store)) = Saved(store)
  <2>1. store.generation \in Nat /\ store.generation <= store.generation
    BY DEF IInv, Types, StoreType
  <2>2. QED
    BY <2>1, StoreIsGood, MarkedIsGood, NewestOfMarked DEF Marked
<1>3. GoodStore(store') /\ report' \in Saved(store') \cup {None}
  BY <1>1, <1>2, StoreIsGood, GoodStoreIsFinite
<1>4. store'.marker # 0 => store'.marker = store'.generation /\ report' = Newest(store')
  BY <1>1, <1>2 DEF IInv, MarkedReportIsCurrent
<1>5. ASSUME NEW s \in DOMAIN job
      PROVE  /\ JobType(job'[s]) /\ Frozen(job'[s]) /\ job'[s] = job[s]
             /\ job'[s].phase = "complete" => s \in Saved(store')
             /\ job'[s].phase \in {"running", "publishing"} => Active(s)
  <2>1. JobFacts(s)
    BY FactsOfJob
  <2>2. QED
    BY <1>1, <1>3, <2>1 DEF JobFacts, Active, Accepted, IInv, Archived, GoodStore
<1>6. stops' \in 0 .. MaxStops
  BY <1>1 DEF IInv, Types
<1>7. QED
  BY <1>1, <1>3, <1>4, <1>5, <1>6, PublicationStep

-----------------------------------------------------------------------------
(* The author and the promotion.                                           *)

LEMMA LogStep ==
    ASSUME IInv, IsLogState(log'), UNCHANGED <<job, store, report, stops>>,
           edits' \in 0 .. MaxEdits, Promotes', BoundariesNotPromoted'
    PROVE  IInv'
<1>1. Types'
  BY DEF IInv, Types, StoreType, Saved, IsLogState
<1>2. Planned' /\ Progress' /\ Held'
  BY DEF IInv, Planned, Progress, Held
<1>3. Archived' /\ Reused'
  BY DEF IInv, Archived, Reused, GoodComparison, SavedRunOf, Saved
<1>4. MarkedReportIsCurrent'
  BY DEF IInv, MarkedReportIsCurrent, Newest, Saved
<1>5. QED
  BY <1>1, <1>2, <1>3, <1>4 DEF IInv

LEMMA AuthorStep ==
    ASSUME IInv, IsLogState(log'), Edit
    PROVE  IInv'
<1>1. edits' \in 0 .. MaxEdits
  BY HistoryAssumption DEF Edit, IInv, Types
<1>2. Promotes'
  BY DEF Edit, IInv, Promotes, Newest, Saved
<1>3. BoundariesNotPromoted'
  BY DEF Edit, IInv, BoundariesNotPromoted, PromotionMarked, Overlapping, Active, Accepted, Plan
<1>4. QED
  BY <1>1, <1>2, <1>3, LogStep DEF Edit

LEMMA AuthorKeeps ==
    ASSUME IInv, Author
    PROVE  IInv'
<1>0. IsLogState(log)
  BY DEF IInv, Types
<1>1. PICK c \in Edited :
        \/ \E code \in Version \cup {Opaque} : EditCode(c, code)
        \/ \E content \in Content : Overwrite(c, content) \/ Rerun(c, content)
        \/ Flag(c)
  BY DEF Author
<1>2. c \in Command
  BY HistoryAssumption
<1>3. CASE \E code \in Version \cup {Opaque} : EditCode(c, code)
  <2>1. IsLogState(log')
    BY <1>0, <1>2, <1>3 DEF EditCode, IsLogState
  <2>2. QED
    BY <1>3, <2>1, AuthorStep DEF EditCode
<1>4. CASE \E content \in Content : Overwrite(c, content)
  <2>1. IsLogState(log')
    BY <1>0, <1>2, <1>4 DEF Overwrite, IsLogState
  <2>2. QED
    BY <1>4, <2>1, AuthorStep DEF Overwrite
<1>5. CASE Flag(c)
  <2>1. IsLogState(log')
    BY <1>0, <1>2, <1>5 DEF Flag, IsLogState
  <2>2. QED
    BY <1>5, <2>1, AuthorStep DEF Flag
<1>6. ASSUME NEW content \in Content, Rerun(c, content)
      PROVE  IInv'
  <2> DEFINE seen == [rec  |-> Fingerprint(log.code[c]),
                      out  |-> content,
                      seen |-> [p \in Prereqs[c] |-> log.file[p]]]
  <2>1. Prereqs[c] \subseteq Command
    BY <1>2, PlanAssumption
  <2>2. Fingerprint(log.code[c]) \in Version \cup {None}
    BY <1>0, <1>2 DEF Fingerprint, IsLogState
  <2>3. [p \in Prereqs[c] |-> log.file[p]] \in [Prereqs[c] -> Content]
    BY <1>0, <2>1 DEF IsLogState
  <2>4. seen \in Observations(c)
    BY <2>2, <2>3 DEF Observations
  <2> HIDE DEF seen
  <2>5. log' = [log EXCEPT !.file[c] = content, !.observed[c] = seen, !.requires[c] = FALSE]
    BY <1>6 DEF Rerun, seen
  <2>6. /\ DOMAIN log' = DOMAIN log /\ log'.code = log.code /\ log'.flagged = log.flagged
        /\ log'.file = [log.file EXCEPT ![c] = content]
        /\ log'.observed = [log.observed EXCEPT ![c] = seen]
        /\ log'.requires = [log.requires EXCEPT ![c] = FALSE]
    BY <1>0, <2>5 DEF IsLogState
  <2>7. \A d \in Command : log'.observed[d] \in Observations(d)
    BY <1>0, <2>4, <2>6 DEF IsLogState
  <2>8. IsLogState(log')
    <3>1. log'.file \in [Command -> Content] /\ log'.requires \in [Command -> BOOLEAN]
      <4>1. log.file \in [Command -> Content] /\ log.requires \in [Command -> BOOLEAN]
        BY <1>0 DEF IsLogState
      <4>2. QED
        BY <1>2, <2>6, <4>1
    <3>2. DOMAIN log'.observed = Command
      BY <1>0, <2>6 DEF IsLogState
    <3>3. QED
      BY <1>0, <2>6, <2>7, <3>1, <3>2 DEF IsLogState
  <2>9. QED
    BY <1>6, <2>8, AuthorStep DEF Rerun
<1>7. QED
  BY <1>1, <1>3, <1>4, <1>5, <1>6

\* What a promotion works with.
LEMMA PromotionFacts ==
    ASSUME IInv, promotion # None
    PROVE  /\ promotion.run \in DOMAIN job /\ promotion.command \in Command
           /\ Plan(promotion.run).accepted[promotion.command] \in Observations(promotion.command)
           /\ Plan(promotion.run).source[promotion.command] \in Version \cup {None}
           /\ job[promotion.run].made[promotion.command] \in Content
           /\ promotion.observed \in Observations(promotion.command)
           /\ promotion.requires \in BOOLEAN
           /\ \A phase : /\ To(phase).phase = phase
                         /\ To(phase).command = promotion.command
                         /\ phase \in PromotionPhase =>
                              To(phase) \in
                                 [run        : DOMAIN job,
                                  command    : Command,
                                  phase      : PromotionPhase,
                                  generation : Nat,
                                  report     : Saved(store) \cup {None},
                                  observed   : {promotion.observed},
                                  requires   : BOOLEAN]
                         /\ To(phase).run = promotion.run
                         /\ To(phase).observed = promotion.observed
<1> DEFINE r == promotion.run
           c == promotion.command
<1>1. /\ promotion \in
             [run        : DOMAIN job,
              command    : Command,
              phase      : PromotionPhase,
              generation : Nat,
              report     : Saved(store) \cup {None},
              observed   : {promotion.observed},
              requires   : BOOLEAN]
      /\ promotion.observed \in Observations(c)
      /\ job[r].result[c] = "succeeded"
  BY DEF IInv, Promotes
<1>2. JobFacts(r)
  BY <1>1, FactsOfJob
<1>3. c \in Scheduled(Plan(r)) /\ job[r].made[c] \in Content
  BY <1>1, <1>2, ResultAssumption DEF JobFacts, CommandDone, JobType, Outcome, Plan
<1>4. c \in DOMAIN Plan(r).accepted /\ Plan(r).accepted[c] \in Observations(c)
  BY <1>2, <1>3 DEF JobFacts
<1>5. PlannedFrom(job[r].plan, job[r].log, job[r].index, store.runs)
  BY <1>1 DEF IInv, Planned
<1>6. Plan(r).source[c] \in Version \cup {None}
  BY <1>4, <1>5, PlanFacts DEF Plan
<1>7. ASSUME NEW phase
      PROVE  /\ To(phase).phase = phase
             /\ To(phase).command = promotion.command
             /\ phase \in PromotionPhase =>
                  To(phase) \in
                     [run        : DOMAIN job,
                      command    : Command,
                      phase      : PromotionPhase,
                      generation : Nat,
                      report     : Saved(store) \cup {None},
                      observed   : {promotion.observed},
                      requires   : BOOLEAN]
             /\ To(phase).run = promotion.run
             /\ To(phase).observed = promotion.observed
  BY <1>1 DEF To
<1>8. QED
  BY <1>1, <1>3, <1>4, <1>6, <1>7

\* A promotion that goes on, and keeps its marker unless it is done.
LEMMA PromotionStep ==
    ASSUME IInv, promotion # None, NEW phase \in PromotionPhase \ {"composed"},
           promotion' = To(phase), IsLogState(log'),
           UNCHANGED <<job, store, report, edits, stops>>,
           phase # "done" => PromotionMarked
    PROVE  IInv'
<1>1. Promotes'
  <2>1. /\ promotion'.phase = phase /\ promotion'.command = promotion.command
        /\ promotion'.run = promotion.run /\ promotion'.observed = promotion.observed
        /\ promotion' \in
                     [run        : DOMAIN job,
                      command    : Command,
                      phase      : PromotionPhase,
                      generation : Nat,
                      report     : Saved(store) \cup {None},
                      observed   : {promotion.observed},
                      requires   : BOOLEAN]
    BY PromotionFacts
  <2>2. QED
    BY <2>1 DEF IInv, Promotes, Saved
<1>2. BoundariesNotPromoted'
  <2>1. promotion'.phase = phase /\ promotion'.command = promotion.command
    BY PromotionFacts
  <2>2. QED
    BY <2>1 DEF IInv, BoundariesNotPromoted, PromotionMarked, Overlapping, Active, Accepted, Plan
<1>3. edits' \in 0 .. MaxEdits
  BY DEF IInv, Types
<1>4. QED
  BY <1>1, <1>2, <1>3, LogStep

LEMMA BeginPromotionKeeps ==
    ASSUME IInv, NEW r \in RunId, NEW c \in Command, BeginPromotion(r, c)
    PROVE  IInv'
<1>1. /\ r \in DOMAIN job /\ job[r].result[c] = "succeeded" /\ edits < MaxEdits
      /\ Promotable(r, c) /\ Overlapping(c) = {} /\ edits' = edits + 1
      /\ promotion' =
           [run |-> r, command |-> c, phase |-> "marked", generation |-> 0, report |-> None,
            observed |-> log.observed[c], requires |-> log.requires[c]]
      /\ UNCHANGED <<log, job, store, report, stops>>
  BY DEF BeginPromotion, Accepted
<1>2. edits' \in 0 .. MaxEdits
  BY <1>1, HistoryAssumption DEF IInv, Types
<1>3. log.observed[c] \in Observations(c) /\ log.requires[c] \in BOOLEAN
  BY DEF IInv, Types, IsLogState
<1>4. Promotes'
  BY <1>1, <1>3 DEF Promotes, PromotionPhase, Saved
<1>5. BoundariesNotPromoted'
  BY <1>1 DEF BoundariesNotPromoted, PromotionMarked, Overlapping, Active, Accepted, Plan
<1>6. IsLogState(log')
  BY <1>1 DEF IInv, Types
<1>7. QED
  BY <1>1, <1>2, <1>4, <1>5, <1>6, LogStep

LEMMA InstallOutputsKeeps ==
    ASSUME IInv, InstallOutputs
    PROVE  IInv'
<1>1. promotion # None /\ PromotionMarked
  BY DEF InstallOutputs, InPhase, PromotionMarked
<1> DEFINE c == promotion.command
<1>2. c \in Command /\ job[promotion.run].made[c] \in Content
  BY <1>1, PromotionFacts
<1>3. CASE /\ log' = [log EXCEPT !.file[c] = job[promotion.run].made[c]]
           /\ promotion' = To("installed")
  <2>1. IsLogState(log')
    BY <1>2, <1>3 DEF IInv, Types, IsLogState
  <2>2. QED
    BY <1>1, <1>3, <2>1, PromotionStep DEF InstallOutputs, PromotionPhase
<1>4. CASE promotion' = To("ended") /\ UNCHANGED log
  <2>1. IsLogState(log')
    BY <1>4 DEF IInv, Types
  <2>2. QED
    BY <1>1, <1>4, <2>1, PromotionStep DEF InstallOutputs, PromotionPhase
<1>5. QED
  BY <1>3, <1>4 DEF InstallOutputs

LEMMA RecordPromotionKeeps ==
    ASSUME IInv, RecordPromotion
    PROVE  IInv'
<1>1. promotion # None /\ PromotionMarked
  BY DEF RecordPromotion, InPhase, PromotionMarked
<1> DEFINE c == promotion.command
           r == promotion.run
           seen == [log.observed[c] EXCEPT !.rec = Plan(r).source[c], !.out = job[r].made[c]]
<1>2. /\ c \in Command /\ job[r].made[c] \in Content
      /\ Plan(r).source[c] \in Version \cup {None}
  BY <1>1, PromotionFacts
<1>3. IsLogState(log) /\ log.observed[c] \in Observations(c)
  BY <1>2 DEF IInv, Types, IsLogState
<1>4. seen \in Observations(c)
  BY <1>2, <1>3 DEF Observations
<1>5. log' = [log EXCEPT !.observed[c] = seen, !.requires[c] = FALSE]
  BY DEF RecordPromotion
<1> HIDE DEF seen
<1>6. IsLogState(log')
  BY <1>2, <1>3, <1>4, <1>5, LogWithObservation
<1>7. QED
  BY <1>1, <1>6, PromotionStep DEF RecordPromotion, PromotionPhase

LEMMA ComposeReportKeeps ==
    ASSUME IInv, ComposeReport
    PROVE  IInv'
<1>1. /\ promotion # None /\ PromotionMarked
      /\ promotion' = [To("composed") EXCEPT !.generation = store.generation,
                                             !.report = Newest(store)]
      /\ UNCHANGED <<log, job, store, report, edits, stops>>
  BY DEF ComposeReport, InPhase, PromotionMarked
<1>2. /\ Newest(store) \in Saved(store) \cup {None}
      /\ store.generation \in Nat
  BY StoreIsGood, GoodStoreIsFinite DEF IInv, Types, StoreType
<1>3. /\ promotion' \in
             [run        : DOMAIN job,
              command    : Command,
              phase      : PromotionPhase,
              generation : Nat,
              report     : Saved(store) \cup {None},
              observed   : {promotion.observed},
              requires   : BOOLEAN]
      /\ promotion'.command = promotion.command /\ promotion'.run = promotion.run
      /\ promotion'.observed = promotion.observed
      /\ promotion'.generation = store.generation /\ promotion'.report = Newest(store)
      /\ promotion'.phase = "composed"
  <2>1. "composed" \in PromotionPhase
    BY DEF PromotionPhase
  <2>2. /\ To("composed").phase = "composed"
        /\ To("composed").command = promotion.command
        /\ To("composed") \in
                 [run        : DOMAIN job,
                  command    : Command,
                  phase      : PromotionPhase,
                  generation : Nat,
                  report     : Saved(store) \cup {None},
                  observed   : {promotion.observed},
                  requires   : BOOLEAN]
        /\ To("composed").run = promotion.run
        /\ To("composed").observed = promotion.observed
    BY <1>1, <2>1, PromotionFacts
  <2>3. QED
    BY <1>1, <1>2, <2>2
<1>4. Promotes'
  BY <1>1, <1>2, <1>3 DEF IInv, Promotes, Newest, Saved
<1>5. BoundariesNotPromoted'
  BY <1>1, <1>3 DEF IInv, BoundariesNotPromoted, PromotionMarked, Overlapping, Active,
                    Accepted, Plan
<1>6. IsLogState(log') /\ edits' \in 0 .. MaxEdits
  BY <1>1 DEF IInv, Types
<1>7. QED
  BY <1>1, <1>4, <1>5, <1>6, LogStep

LEMMA ReportPromotionKeeps ==
    ASSUME IInv, ReportPromotion
    PROVE  IInv'
<1>1. /\ promotion # None /\ promotion.phase = "composed" /\ PromotionMarked
      /\ store.generation = promotion.generation
      /\ UNCHANGED <<log, job, edits, stops>>
  BY DEF ReportPromotion, InPhase, PromotionMarked
<1>2. promotion.report = Newest(store) /\ promotion.report \in Saved(store) \cup {None}
  BY <1>1 DEF IInv, Promotes
<1>3. PICK marker \in {0, store.generation}, phase \in {"ended", "failed"} :
        /\ store' = [store EXCEPT !.marker = marker]
        /\ promotion' = To(phase)
        /\ report' \in {report, promotion.report}
        /\ marker # 0 => marker = store.generation /\ report' = promotion.report
  BY DEF ReportPromotion, Marked
<1>4. marker \in Nat /\ marker <= store.generation
  BY <1>3 DEF IInv, Types, StoreType
<1>5. /\ GoodStore(store') /\ store'.runs = store.runs /\ store'.marker = marker
      /\ store'.generation = store.generation
      /\ Saved(store') = Saved(store) /\ Newest(store') = Newest(store)
  <2> DEFINE t == [store EXCEPT !.marker = marker]
  <2>1. /\ GoodStore(t) /\ t.runs = store.runs /\ t.marker = marker
        /\ t.generation = store.generation
    BY <1>4, StoreIsGood, MarkedIsGood
  <2> HIDE DEF t
  <2>2. Saved(t) = Saved(store) /\ Newest(t) = Newest(store)
    BY <2>1, NewestOfMarked
  <2>3. store' = t
    BY <1>3 DEF t
  <2>4. QED
    BY <2>1, <2>2, <2>3
<1>6. ASSUME NEW s \in DOMAIN job
      PROVE  /\ JobType(job[s]) /\ Frozen(job[s])
             /\ job[s].phase = "complete" => s \in Saved(store')
  <2>1. JobFacts(s)
    BY FactsOfJob
  <2>2. QED
    BY <1>5, <2>1 DEF JobFacts, IInv, Archived
<1>7. /\ StoreType' /\ Planned' /\ Progress' /\ Held' /\ Archived' /\ Reused'
      /\ \A s \in DOMAIN job' : JobType(job'[s])
  BY <1>1, <1>5, <1>6, StoreParts
<1>8. Saved(store)' = Saved(store) /\ Newest(store)' = Newest(store)
  BY <1>5 DEF Saved, Newest
<1>9. Types'
  BY <1>1, <1>2, <1>3, <1>7, <1>8 DEF IInv, Types, IsLogState
<1>10. /\ promotion'.phase = phase /\ promotion'.command = promotion.command
       /\ promotion'.run = promotion.run /\ promotion'.observed = promotion.observed
       /\ promotion' \in
                     [run        : DOMAIN job,
                      command    : Command,
                      phase      : PromotionPhase,
                      generation : Nat,
                      report     : Saved(store) \cup {None},
                      observed   : {promotion.observed},
                      requires   : BOOLEAN]
  <2>1. phase \in PromotionPhase
    BY DEF PromotionPhase
  <2>2. QED
    BY <1>1, <1>3, <2>1, PromotionFacts
<1>11. Promotes'
  BY <1>1, <1>8, <1>10 DEF IInv, Promotes
<1>12. MarkedReportIsCurrent'
  BY <1>2, <1>3, <1>5, <1>8 DEF MarkedReportIsCurrent
<1>13. BoundariesNotPromoted'
  BY <1>1, <1>10 DEF IInv, BoundariesNotPromoted, PromotionMarked, Overlapping, Active,
                     Accepted, Plan
<1>14. QED
  BY <1>7, <1>9, <1>11, <1>12, <1>13 DEF IInv

LEMMA RollBackKeeps ==
    ASSUME IInv, RollBack
    PROVE  IInv'
<1>1. promotion # None /\ PromotionMarked
  BY DEF RollBack, Promoting, PromotionMarked
<1> DEFINE c == promotion.command
           old == Plan(promotion.run).accepted[c].out
<1>2. /\ c \in Command /\ promotion.observed \in Observations(c)
      /\ promotion.requires \in BOOLEAN /\ old \in Content
  BY <1>1, PromotionFacts DEF Observations
<1>3. IsLogState(log)
  BY DEF IInv, Types
<1>4. log' = [log EXCEPT !.file[c] = old, !.observed[c] = promotion.observed,
                         !.requires[c] = promotion.requires]
  BY DEF RollBack
<1>5. IsLogState(log')
  <2>1. /\ DOMAIN log' = DOMAIN log /\ log'.code = log.code /\ log'.flagged = log.flagged
        /\ log'.file = [log.file EXCEPT ![c] = old]
        /\ log'.observed = [log.observed EXCEPT ![c] = promotion.observed]
        /\ log'.requires = [log.requires EXCEPT ![c] = promotion.requires]
    BY <1>3, <1>4 DEF IsLogState
  <2>2. \A d \in Command : log'.observed[d] \in Observations(d)
    BY <1>2, <1>3, <2>1 DEF IsLogState
  <2>3. log.file \in [Command -> Content] /\ log.requires \in [Command -> BOOLEAN]
    BY <1>3 DEF IsLogState
  <2>4. log'.file \in [Command -> Content] /\ log'.requires \in [Command -> BOOLEAN]
    BY <1>2, <2>1, <2>3
  <2>5. DOMAIN log'.observed = Command
    BY <1>3, <2>1 DEF IsLogState
  <2>6. QED
    BY <1>3, <2>1, <2>2, <2>4, <2>5 DEF IsLogState
<1>6. QED
  BY <1>1, <1>5, PromotionStep DEF RollBack, PromotionPhase

LEMMA FinishKeeps ==
    ASSUME IInv, Finish
    PROVE  IInv'
<1>1. promotion # None /\ IsLogState(log')
  BY DEF Finish, InPhase, IInv, Types
<1>2. QED
  BY <1>1, PromotionStep DEF Finish, PromotionPhase

LEMMA KillKeeps ==
    ASSUME IInv, Kill
    PROVE  IInv'
<1>1. promotion # None /\ PromotionMarked /\ IsLogState(log')
  BY DEF Kill, Promoting, PromotionMarked, IInv, Types
<1>2. QED
  BY <1>1, PromotionStep DEF Kill, PromotionPhase

-----------------------------------------------------------------------------
(* The invariant holds always.                                             *)

LEMMA InvariantAtFirst ==
    ASSUME Init
    PROVE  IInv
<1>1. PICK v \in Version, start \in Content :
        log = [code     |-> [c \in Command |-> v],
               file     |-> [c \in Command |-> start],
               observed |-> [c \in Command |->
                    [rec |-> v, out |-> start, seen |-> [p \in Prereqs[c] |-> start]]],
               requires |-> [c \in Command |-> c \in Required],
               flagged  |-> {}]
  BY DEF Init
<1>2. IsLogState(log)
  <2>1. \A c \in Command :
            [rec |-> v, out |-> start, seen |-> [p \in Prereqs[c] |-> start]] \in Observations(c)
    BY DEF Observations
  <2>2. QED
    BY <1>1, <2>1 DEF IsLogState
<1>3. /\ job = <<>> /\ store = EmptyStore /\ report = None /\ promotion = None
      /\ edits = 0 /\ stops = 0
  BY DEF Init
<1>4. DOMAIN job = {} /\ Saved(store) = {}
  BY <1>3 DEF EmptyStore, Saved
<1>5. Types
  <2>1. Cardinality({}) = 0 /\ IsFiniteSet({})
    BY FS_EmptySet
  <2>2. /\ store \in [runs           : {store.runs},
                      latestCommand  : [Command -> Saved(store) \cup {None}],
                      latestArtifact : [Command -> Saved(store) \cup {None}],
                      generation     : Nat,
                      marker         : Nat]
        /\ store.generation = 0 /\ store.marker = 0
    BY <1>3 DEF EmptyStore
  <2>3. QED
    BY <1>2, <1>3, <1>4, <2>1, <2>2, HistoryAssumption DEF Types, StoreType
<1>6. Planned /\ Progress /\ Held /\ Reused
  BY <1>4 DEF Planned, Progress, Held, Reused
<1>7. Archived
  BY <1>3, <1>4 DEF Archived, EmptyStore
<1>8. Promotes /\ BoundariesNotPromoted
  BY <1>3 DEF Promotes, BoundariesNotPromoted, PromotionMarked
<1>9. MarkedReportIsCurrent
  BY <1>3 DEF MarkedReportIsCurrent, EmptyStore
<1>10. QED
  BY <1>5, <1>6, <1>7, <1>8, <1>9 DEF IInv

LEMMA InvariantKept ==
    ASSUME IInv, [Next]_vars
    PROVE  IInv'
<1>1. CASE UNCHANGED vars
  <2>1. Promotes' /\ BoundariesNotPromoted'
    BY <1>1 DEF vars, IInv, Promotes, BoundariesNotPromoted, PromotionMarked, Overlapping,
                Active, Accepted, Plan, Saved, Newest
  <2>2. IsLogState(log') /\ edits' \in 0 .. MaxEdits
    BY <1>1 DEF vars, IInv, Types
  <2>3. QED
    BY <1>1, <2>1, <2>2, LogStep DEF vars
<1>2. CASE Author
  BY <1>2, AuthorKeeps
<1>3. CASE Render
  BY <1>3, RenderKeeps
<1>4. CASE Promotion
  BY <1>4, BeginPromotionKeeps, InstallOutputsKeeps, RecordPromotionKeeps,
     ComposeReportKeeps, ReportPromotionKeeps, RollBackKeeps, FinishKeeps, KillKeeps
  DEF Promotion
<1>5. ASSUME NEW r \in RunId, Work(r)
      PROVE  IInv'
  BY <1>5, LaunchKeeps, AttemptKeeps, BlockKeeps, CompareKeeps, ReconcileKeeps,
     RefuseKeeps, StopKeeps, ResumeKeeps, FreezeKeeps, PublishRunKeeps
  DEF Work
<1>6. QED
  BY <1>1, <1>2, <1>3, <1>4, <1>5 DEF Next

\* Jobs, saved results, the report and promotions stay consistent: every job keeps
\* the plan it was accepted with, what is executed, compared, reconciled and saved
\* follows from it, and the indexes refer to saved runs.
THEOREM InvariantAlways == Spec => []IInv
<1>1. Init => IInv
  BY InvariantAtFirst
<1>2. IInv /\ [Next]_vars => IInv'
  BY InvariantKept
<1>3. QED
  BY <1>1, <1>2, PTL DEF Spec

-----------------------------------------------------------------------------
(* What follows from the invariant.                                        *)

LEMMA InvariantTypes == IInv => TypeOK
<1> SUFFICES ASSUME IInv PROVE TypeOK
  OBVIOUS
<1>1. ASSUME NEW r \in RunId, Accepted(r)
      PROVE  /\ Plan(r).request \in Requests
             /\ \A c \in DOMAIN Plan(r).select : Plan(r).select[c] \in Selection
             /\ job[r].phase \in Phase
             /\ job[r].result \in [Command -> Outcome \cup {None}]
             /\ job[r].made \in [Command -> Content \cup {None}]
             /\ \A c \in Command : job[r].compared[c] \in Comparison \cup {None}
             /\ job[r].reconciled \subseteq Produced(r)
             /\ job[r].finished \in Nat
  <2>1. r \in DOMAIN job
    BY <1>1 DEF Accepted
  <2>2. JobFacts(r)
    BY <2>1, FactsOfJob
  <2>3. PlannedFrom(job[r].plan, job[r].log, job[r].index, store.runs)
    BY <2>1 DEF IInv, Planned
  <2>4. /\ Plan(r).request \in Requests
        /\ \A c \in DOMAIN Plan(r).select : Plan(r).select[c] \in Selection
    BY <2>3, PlanFacts DEF PlannedFrom, Plan
  <2>5. /\ job[r].phase \in Phase
        /\ job[r].result \in [Command -> Outcome \cup {None}]
        /\ job[r].made \in [Command -> Content \cup {None}]
        /\ \A c \in Command : job[r].compared[c] \in Comparison \cup {None}
        /\ job[r].finished \in Nat /\ job[r].reconciled \subseteq Command
    BY <2>2 DEF JobFacts, JobType
  <2>6. job[r].reconciled \subseteq Produced(r)
    BY <2>2, <2>5, ResultAssumption DEF JobFacts, CommandDone, Produced, Plan, Outcome
  <2>7. QED
    BY <2>4, <2>5, <2>6
<1>2. /\ store.latestCommand \in [Command -> Saved(store) \cup {None}]
      /\ store.latestArtifact \in [Command -> Saved(store) \cup {None}]
      /\ store.marker \in 0 .. store.generation
  BY DEF IInv, Types, StoreType
<1>3. QED
  BY <1>1, <1>2 DEF IInv, Types, StoreType, TypeOK

\* Every state is of its type: logs, jobs, results and the report refer to what
\* exists, whatever runs are planned, stopped, published and promoted.
THEOREM TypeAlways == Spec => []TypeOK
BY InvariantAlways, InvariantTypes, PTL

\* A report that is marked as current is the newest run's, however publications,
\* promotions, renderings and their failures interleave.
THEOREM MarkedReportAlwaysCurrent == Spec => []MarkedReportIsCurrent
<1>1. IInv => MarkedReportIsCurrent
  BY DEF IInv
<1>2. QED
  BY <1>1, InvariantAlways, PTL

\* The check of a promotion for active runs, and that of a launch or resume for
\* promotions, never let both through.
THEOREM BoundariesNeverPromoted == Spec => []BoundariesNotPromoted
<1>1. IInv => BoundariesNotPromoted
  BY DEF IInv
<1>2. QED
  BY <1>1, InvariantAlways, PTL

LEMMA InvariantBaselines == IInv => SavedMatchesBaseline
<1> SUFFICES ASSUME IInv,
                    NEW r \in Saved(store), NEW c \in DOMAIN store.runs[r].compared
             PROVE  LET kept == store.runs[r].compared[c]
                    IN  /\ kept.baseline = Plan(r).accepted[c].out
                        /\ kept.outcome \in {"matched", "not_matched"} =>
                            /\ kept.origin \in Saved(store) \cup {r}
                            /\ kept.outcome = "matched" <=>
                                job[kept.origin].made[c] = kept.baseline
  BY DEF SavedMatchesBaseline
<1> DEFINE kept == store.runs[r].compared[c]
<1>1. r \in DOMAIN job /\ store.runs[r] = SavedRunOf(r)
  BY DEF IInv, Types, StoreType, Archived
<1>2. JobFacts(r)
  BY <1>1, FactsOfJob
<1>3. /\ c \in DOMAIN Plan(r).accepted
      /\ kept = IF job[r].compared[c] # None THEN job[r].compared[c]
                ELSE IF c \in DOMAIN Plan(r).reused THEN Plan(r).reused[c]
                ELSE NotRun(r, Plan(r).accepted[c].out)
  BY <1>1 DEF SavedRunOf, SavedRun, Plan
<1>4. c \in Command
  <2>1. PlannedFrom(job[r].plan, job[r].log, job[r].index, store.runs)
    BY <1>1 DEF IInv, Planned
  <2>2. QED
    BY <1>3, <2>1, PlanFacts DEF Plan
<1>5. CASE job[r].compared[c] # None
  <2>1. kept = job[r].compared[c]
    BY <1>3, <1>5
  <2>2. CommandDone(r, job[r], c)
    BY <1>2, <1>4 DEF JobFacts
  <2>3. QED
    BY <1>5, <2>1, <2>2 DEF CommandDone, Plan
<1>6. CASE job[r].compared[c] = None /\ c \in DOMAIN Plan(r).reused
  <2>1. kept = job[r].plan.reused[c] /\ c \in DOMAIN job[r].plan.reused
    BY <1>3, <1>6 DEF Plan
  <2>2. /\ kept.baseline = job[r].plan.accepted[c].out
        /\ GoodComparison(kept, c)
    BY <1>1, <2>1 DEF IInv, Reused
  <2>3. QED
    BY <2>2 DEF GoodComparison, Plan
<1>7. CASE job[r].compared[c] = None /\ c \notin DOMAIN Plan(r).reused
  BY <1>3, <1>7 DEF NotRun
<1>8. QED
  BY <1>5, <1>6, <1>7

\* A saved comparison, fresh or reused through any number of runs, is about the
\* baseline its run accepted and about what the run of its origin made.
THEOREM SavedAlwaysMatchesBaseline == Spec => []SavedMatchesBaseline
BY InvariantAlways, InvariantBaselines, PTL

LEMMA InvariantPrerequisites == IInv => PrerequisitesHeld
<1> SUFFICES ASSUME IInv, NEW r \in RunId, Accepted(r), NEW c \in Scheduled(Plan(r))
             PROVE
        /\ job[r].result[c] \in {"succeeded", "failed"} =>
            \A d \in Awaited(r, c) : job[r].made[d] = Plan(r).accepted[d].out
        /\ job[r].result[c] = "blocked" =>
            \E d \in Awaited(r, c) : job[r].made[d] # Plan(r).accepted[d].out
                                    \/ job[r].compared[d].outcome # "matched"
  BY DEF PrerequisitesHeld
<1>1. r \in DOMAIN job
  BY DEF Accepted
<1>2. JobFacts(r)
  BY <1>1, FactsOfJob
<1>3. /\ c \in Command /\ Awaited(r, c) = Awaits(Plan(r), c)
      /\ Awaits(Plan(r), c) \subseteq Scheduled(Plan(r))
      /\ Scheduled(Plan(r)) \subseteq Command
  BY <1>2 DEF JobFacts, Awaited, Awaits
<1>4. ASSUME NEW d \in Awaited(r, c), Matched(job[r], d)
      PROVE  job[r].made[d] = Plan(r).accepted[d].out
  BY <1>2, <1>3, <1>4 DEF JobFacts, CommandDone, Matched, Plan
<1>5. ASSUME NEW d \in Awaited(r, c), Hopeless(job[r], d)
      PROVE  \/ job[r].made[d] # Plan(r).accepted[d].out
             \/ job[r].compared[d].outcome # "matched"
  <2>1. d \in Scheduled(Plan(r)) /\ d \in Command
    BY <1>3
  <2>2. Plan(r).accepted[d].out \in Content
    BY <1>2, <2>1 DEF JobFacts, Observations
  <2>3. CASE job[r].result[d] \in {"failed", "blocked"}
    <3>1. job[r].made[d] = None
      BY <1>2, <2>1, <2>3 DEF JobFacts, CommandDone
    <3>2. QED
      BY <2>2, <3>1, PlanAssumption
  <2>4. CASE job[r].compared[d].outcome # "matched"
    BY <2>4
  <2>5. QED
    BY <1>5, <2>3, <2>4 DEF Hopeless
<1>6. QED
  BY <1>2, <1>3, <1>4, <1>5 DEF JobFacts, Plan

\* No command of a run was executed before the commands it awaits had
\* reproduced their outputs, and none is blocked while they all did.
THEOREM PrerequisitesAlwaysHeld == Spec => []PrerequisitesHeld
BY InvariantAlways, InvariantPrerequisites, PTL

-----------------------------------------------------------------------------
(* Reconciliation.                                                         *)

ReconciledStep ==
    \A c \in Command :
        LET old == log.observed[c]
            new == log'.observed[c]
        IN  /\ edits' = edits /\ promotion' = promotion
            /\ new # old \/ log'.requires[c] # log.requires[c]
            => \E r \in RunId :
                /\ Active(r) /\ job[r].result[c] = "succeeded"
                /\ old = Plan(r).accepted[c] \/ old = new
                /\ new = old \/ new = [old EXCEPT !.rec = Plan(r).source[c]]
                /\ new # old => job[r].made[c] = old.out

LEMMA ReconcileStepsRight ==
    ASSUME IInv, NEW r \in RunId, NEW c \in Command, Reconcile(r, c)
    PROVE  ReconciledStep
<1>1. /\ r \in DOMAIN job /\ job[r].phase = "running" /\ Active(r)
      /\ job[r].result[c] = "succeeded" /\ job[r].compared[c] # None
      /\ Reconciled(r, c) \in Observations(c)
  BY ReconcilingFacts DEF Reconcile, Active, Accepted
<1>2. JobFacts(r)
  BY <1>1, FactsOfJob
<1>3. /\ log'.observed = [log.observed EXCEPT ![c] = Reconciled(r, c)]
      /\ log'.requires = [log.requires EXCEPT ![c] = FALSE]
  BY <1>1, <1>2, LogWithObservation DEF Reconcile, JobFacts
<1>4. DOMAIN log.observed = Command /\ DOMAIN log.requires = Command
  BY <1>2 DEF JobFacts, IsLogState
<1>5. ASSUME NEW d \in Command, d # c
      PROVE  log'.observed[d] = log.observed[d] /\ log'.requires[d] = log.requires[d]
  BY <1>3, <1>4, <1>5
<1>6. log'.observed[c] = Reconciled(r, c)
  BY <1>3, <1>4
<1>7. log.observed[c] = Plan(r).accepted[c] \/ log.observed[c] = Reconciled(r, c)
  BY DEF Reconcile, StillAccepted
<1>8. ASSUME Reconciled(r, c) # log.observed[c]
      PROVE  /\ log.observed[c] = Plan(r).accepted[c]
             /\ Reconciled(r, c) = [Plan(r).accepted[c] EXCEPT !.rec = Plan(r).source[c]]
             /\ job[r].made[c] = Plan(r).accepted[c].out
  <2>1. log.observed[c] = Plan(r).accepted[c]
    BY <1>7, <1>8
  <2>2. job[r].compared[c].outcome = "matched"
    BY <1>8, <2>1 DEF Reconciled
  <2>3. job[r].made[c] = Plan(r).accepted[c].out
    BY <1>1, <1>2, <2>2 DEF JobFacts, CommandDone, Plan
  <2>4. QED
    BY <2>1, <2>2, <2>3 DEF Reconciled
<1>9. QED
  BY <1>1, <1>5, <1>6, <1>7, <1>8 DEF ReconciledStep

LEMMA StepsReconcileRight ==
    ASSUME IInv, [Next]_vars
    PROVE  ReconciledStep
<1>0. edits \in Nat
  BY HistoryAssumption DEF IInv, Types
<1>1. CASE UNCHANGED log \/ edits' # edits \/ promotion' # promotion
  BY <1>1 DEF ReconciledStep
<1>2. CASE Author
  <2>1. Edit
    BY <1>2 DEF Author, EditCode, Overwrite, Rerun, Flag
  <2>2. edits' # edits
    BY <1>0, <2>1 DEF Edit
  <2>3. QED
    BY <1>1, <2>2
<1>3. CASE Promotion
  <2>1. CASE InstallOutputs \/ RecordPromotion \/ RollBack
    <3>1. promotion # None /\ promotion.phase \notin {"ended"}
      BY <2>1 DEF InstallOutputs, RecordPromotion, RollBack, InPhase, Promoting
    <3>2. CASE InstallOutputs
      <4>1. promotion.phase = "marked"
        BY <3>2 DEF InstallOutputs, InPhase
      <4>2. promotion'.phase \in {"installed", "ended"}
        BY <3>1, <3>2, PromotionFacts DEF InstallOutputs
      <4>3. QED
        BY <1>1, <4>1, <4>2
    <3>3. CASE RecordPromotion
      <4>1. promotion.phase = "installed"
        BY <3>3 DEF RecordPromotion, InPhase
      <4>2. promotion'.phase = "recorded"
        BY <3>1, <3>3, PromotionFacts DEF RecordPromotion
      <4>3. QED
        BY <1>1, <4>1, <4>2
    <3>4. CASE RollBack
      <4>1. promotion.phase \in {"installed", "recorded", "composed", "failed"}
        BY <3>4 DEF RollBack
      <4>2. promotion'.phase = "ended"
        BY <3>1, <3>4, PromotionFacts DEF RollBack
      <4>3. QED
        BY <1>1, <4>1, <4>2
    <3>5. QED
      BY <2>1, <3>2, <3>3, <3>4
  <2>2. CASE \/ \E r \in RunId, c \in Command : BeginPromotion(r, c)
             \/ ComposeReport \/ ReportPromotion \/ Finish \/ Kill
    BY <1>1, <2>2 DEF BeginPromotion, ComposeReport, ReportPromotion, Finish, Kill
  <2>3. QED
    BY <1>3, <2>1, <2>2 DEF Promotion
<1>4. ASSUME NEW r \in RunId, NEW c \in Command, Reconcile(r, c)
      PROVE  ReconciledStep
  BY <1>4, ReconcileStepsRight
<1>5. ASSUME NEW r \in RunId, Work(r), ~ \E c \in Command : Reconcile(r, c)
      PROVE  ReconciledStep
  BY <1>1, <1>5 DEF Work, Launch, Attempt, Block, Compare, Refuse, Stop, Resume, Freeze,
                    PublishRun
<1>6. QED
  BY <1>1, <1>2, <1>3, <1>4, <1>5 DEF Next, Render, vars

\* Only a run whose accepted execution is the recorded one clears a requirement
\* or adopts its source, whatever else happened to the log since it was planned.
THEOREM ReconciledWorkAlwaysCurrent == Spec => ReconciledWorkIsCurrent
<1>1. IInv /\ [Next]_vars => [ReconciledStep]_vars
  BY StepsReconcileRight
<1>2. Spec => [][ReconciledStep]_vars
  BY <1>1, InvariantAlways, PTL DEF Spec
<1>3. QED
  BY <1>2 DEF ReconciledWorkIsCurrent, ReconciledStep

-----------------------------------------------------------------------------
(* Settled work.                                                           *)

\* The same target and policy trace the same commands.
LEMMA SameTracing ==
    ASSUME NEW q, NEW k, q.entries = k.entries, q.all = k.all
    PROVE  /\ Target(q) = Target(k) /\ Traced(q) = Traced(k)
           /\ Dependencies(q) = Dependencies(k) /\ Cyclic(q) = Cyclic(k)
<1>1. Target(q) = Target(k)
  BY DEF Target
<1>2. Traced(q) = Traced(k)
  BY <1>1 DEF Traced
<1>3. Dependencies(q) = Dependencies(k)
  BY <1>2 DEF Dependencies
<1>4. QED
  BY <1>1, <1>2, <1>3 DEF Cyclic

\* Blocking looks at the code, the files, the recorded outputs and inputs, and
\* at the selection.
LEMMA SameBlocking ==
    ASSUME NEW v, NEW w, NEW q, NEW k, q.entries = k.entries, q.all = k.all,
           v.file = w.file, v.flagged = w.flagged,
           Selected(v, q) = Selected(w, k),
           \A c \in Command :
            /\ v.observed[c].out = w.observed[c].out
            /\ v.observed[c].seen = w.observed[c].seen
    PROVE  Blocked(v, q) = Blocked(w, k)
<1>1. /\ Target(q) = Target(k) /\ Traced(q) = Traced(k)
      /\ Dependencies(q) = Dependencies(k) /\ Cyclic(q) = Cyclic(k)
  BY SameTracing
<1>2. \A c \in Command : \A inputs : ChangedInputs(v, c, inputs) = ChangedInputs(w, c, inputs)
  BY DEF ChangedInputs
<1>3. \A c : Boundary(v, q, c) = Boundary(w, k, c)
  BY <1>1 DEF Boundary
<1>4. Selected(v, q) \subseteq Command
  BY TargetsOfCommands
<1>5. {c \in Selected(v, q) :
            \/ v.file[c] # v.observed[c].out
            \/ ChangedInputs(v, c, Boundary(v, q, c)) # {}
            \/ c \in Cyclic(q)
            \/ c \in v.flagged}
       = {c \in Selected(w, k) :
            \/ w.file[c] # w.observed[c].out
            \/ ChangedInputs(w, c, Boundary(w, k, c)) # {}
            \/ c \in Cyclic(k)
            \/ c \in w.flagged}
  BY <1>1, <1>2, <1>3, <1>4
<1>6. QED
  BY <1>1, <1>5 DEF Blocked

\* The digest of a command whose observation and requirement are the same.
LEMMA SameDigest ==
    ASSUME NEW v, NEW w, NEW q, NEW k, q.entries = k.entries, q.all = k.all,
           v.code = w.code, v.file = w.file, v.flagged = w.flagged,
           Selected(v, q) = Selected(w, k), NEW c,
           v.observed[c] = w.observed[c], v.requires[c] = w.requires[c]
    PROVE  /\ SourceDigest(v, q, c) = SourceDigest(w, k, c)
           /\ Needed(v, c) = Needed(w, c)
<1>1. /\ Target(q) = Target(k) /\ Traced(q) = Traced(k)
      /\ Dependencies(q) = Dependencies(k) /\ Cyclic(q) = Cyclic(k)
  BY SameTracing
<1>2. \A inputs : ChangedInputs(v, c, inputs) = ChangedInputs(w, c, inputs)
  BY DEF ChangedInputs
<1>3. Boundary(v, q, c) = Boundary(w, k, c)
  BY <1>1 DEF Boundary
<1>4. Currentness(v, c) = Currentness(w, c)
  BY <1>2 DEF Currentness
<1>5. SourceSelected(v, c) = SourceSelected(w, c)
  BY DEF SourceSelected
<1>6. Problems(v, q, c) = Problems(w, k, c)
  BY <1>1, <1>2, <1>3, <1>5 DEF Problems
<1>7. SourceDigest(v, q, c) = SourceDigest(w, k, c)
  BY <1>1, <1>4, <1>6 DEF SourceDigest
<1>8. Needed(v, c) = Needed(w, c)
  BY <1>4, <1>5 DEF Needed
<1>9. QED
  BY <1>7, <1>8

\* How the log of an undisturbed run differs from the one it was planned from.
LEMMA UndisturbedLog ==
    ASSUME IInv, NEW r \in RunId, Undisturbed(r)
    PROVE  LET old == job[r].log
               asked == Plan(r).request
               q == [asked EXCEPT !.recheck = FALSE]
           IN  /\ q.entries = asked.entries /\ q.all = asked.all /\ q.recheck = FALSE
               /\ Selected(log, q) = Selected(old, asked)
               /\ Blocked(log, q) = Blocked(old, asked)
               /\ \A c \in job[r].reconciled :
                    /\ c \in DOMAIN Plan(r).accepted
                    /\ Plan(r).accepted[c] = old.observed[c]
                    /\ log.observed[c] = Reconciled(r, c) /\ ~ log.requires[c]
<1> DEFINE old == job[r].log
           asked == Plan(r).request
           q == [asked EXCEPT !.recheck = FALSE]
<1>1. r \in DOMAIN job
  BY DEF Undisturbed, Accepted
<1>2. JobFacts(r)
  BY <1>1, FactsOfJob
<1>3. /\ PlannedFrom(job[r].plan, old, job[r].index, store.runs)
      /\ asked \in Requests /\ IsLogState(old)
      /\ Plan(r).accepted = [c \in Selected(old, asked) |-> old.observed[c]]
  BY <1>1 DEF IInv, Planned, PlannedFrom, Plan
<1>4. asked \in [entries : (SUBSET Entry) \ {{}}, all : BOOLEAN, recheck : BOOLEAN]
  BY <1>3, HistoryAssumption DEF Request
<1>5. q.entries = asked.entries /\ q.all = asked.all /\ q.recheck = FALSE
  BY <1>4
<1> HIDE DEF q, asked, old
<1>6. /\ log.code = old.code /\ log.file = old.file /\ log.flagged = old.flagged
      /\ \A c \in Command :
            IF c \in job[r].reconciled
            THEN log.observed[c] = Reconciled(r, c) /\ ~log.requires[c]
            ELSE log.observed[c] = old.observed[c] /\ log.requires[c] = old.requires[c]
  BY DEF Undisturbed, old
<1>7. ASSUME NEW c \in job[r].reconciled
      PROVE  /\ c \in Command /\ c \in Selected(old, asked)
             /\ c \in DOMAIN Plan(r).accepted
             /\ Plan(r).accepted[c] = old.observed[c]
             /\ log.observed[c] = Reconciled(r, c) /\ ~ log.requires[c]
             /\ log.observed[c].out = old.observed[c].out
             /\ log.observed[c].seen = old.observed[c].seen
  <2>1. c \in Command
    BY <1>2 DEF JobFacts, JobType
  <2>2. c \in Scheduled(Plan(r))
    BY <1>2, <2>1, ResultAssumption DEF JobFacts, CommandDone, Plan, Outcome
  <2>3. c \in DOMAIN Plan(r).accepted /\ Plan(r).accepted[c] \in Observations(c)
    BY <1>2, <2>2 DEF JobFacts
  <2>4. c \in Selected(old, asked) /\ Plan(r).accepted[c] = old.observed[c]
    BY <1>3, <2>3
  <2>5. log.observed[c] = Reconciled(r, c) /\ ~ log.requires[c]
    BY <1>6, <2>1
  <2>6. /\ Reconciled(r, c).out = Plan(r).accepted[c].out
        /\ Reconciled(r, c).seen = Plan(r).accepted[c].seen
    BY <2>3 DEF Reconciled, Observations
  <2>7. QED
    BY <2>1, <2>3, <2>4, <2>5, <2>6
<1>8. /\ Target(q) = Target(asked) /\ Traced(q) = Traced(asked)
  BY <1>5, SameTracing
<1>9. ASSUME NEW c \in Target(asked) \ Traced(asked)
      PROVE  c \in Edge(log, q) <=> c \in Edge(old, asked)
  <2>1. c \in Command
    BY TargetsOfCommands
  <2>2. CASE c \notin job[r].reconciled
    BY <1>6, <1>8, <2>1, <2>2 DEF Edge
  <2>3. CASE c \in job[r].reconciled
    <3>1. c \in Edge(old, asked) /\ ~ log.requires[c]
      BY <1>7, <2>3 DEF Selected
    <3>2. QED
      BY <1>8, <3>1 DEF Edge
  <2>4. QED
    BY <2>2, <2>3
<1>10. Edge(log, q) \subseteq Target(asked) \ Traced(asked)
       /\ Edge(old, asked) \subseteq Target(asked) \ Traced(asked)
  BY <1>8 DEF Edge
<1>11. Selected(log, q) = Selected(old, asked)
  BY <1>8, <1>9, <1>10 DEF Selected
<1>12. \A c \in Command :
            /\ log.observed[c].out = old.observed[c].out
            /\ log.observed[c].seen = old.observed[c].seen
  BY <1>6, <1>7
<1>13. Blocked(log, q) = Blocked(old, asked)
  BY <1>5, <1>6, <1>11, <1>12, SameBlocking
<1>14. QED
  BY <1>5, <1>7, <1>11, <1>13 DEF q, asked, old

\* What a completed run says of the commands of its plan is known afterwards.
LEMMA ResultKnown ==
    ASSUME IInv, NEW r \in RunId, Undisturbed(r), NEW c \in DOMAIN Plan(r).digest,
           Plan(r).select[c] \in {"run", "blocked"}
    PROVE  /\ c \in DOMAIN PriorResults(store)
           /\ PriorResults(store)[c].digest = Plan(r).digest[c]
<1>1. r \in DOMAIN job /\ job[r].phase = "complete"
  BY DEF Undisturbed, Accepted
<1>2. JobFacts(r)
  BY <1>1, FactsOfJob
<1>3. r \in Saved(store) /\ store.runs[r] = SavedRunOf(r)
  BY <1>1 DEF IInv, Archived
<1> DEFINE run == store.runs[r]
<1>4. run.digest = Plan(r).digest /\ run.select = Plan(r).select /\ run.result = job[r].result
  BY <1>3 DEF SavedRunOf, SavedRun, Plan
<1>5. PlannedFrom(job[r].plan, job[r].log, job[r].index, store.runs)
  BY <1>1 DEF IInv, Planned
<1>6. c \in DOMAIN Plan(r).select /\ c \in Command
  BY <1>5, PlanFacts DEF Plan
<1>7. store.latestCommand[c] = r
  BY <1>6 DEF Undisturbed
<1>8. DispositionOf(run, c) # None
  <2>1. CASE run.result[c] # None
    BY <2>1 DEF DispositionOf
  <2>2. CASE run.result[c] = None
    <3>1. job[r].finished # 0
      BY <1>1, <1>2 DEF JobFacts, Frozen
    <3>2. \A d \in Scheduled(Plan(r)) : job[r].result[d] # None
      BY <1>2, <3>1 DEF JobFacts, Frozen, Done, Plan
    <3>3. run.select[c] = "blocked"
      BY <1>4, <1>6, <2>2, <3>2 DEF Scheduled
    <3>4. DispositionOf(run, c) = "blocked"
      BY <2>2, <3>3 DEF DispositionOf
    <3>5. QED
      BY <3>4, ResultAssumption DEF Outcome
  <2>3. QED
    BY <2>1, <2>2
<1>9. r # None
  BY ResultAssumption
<1> HIDE DEF run
<1>10. QED
  BY <1>4, <1>6, <1>7, <1>8, <1>9 DEF PriorResults, run

\* What the plan of a run relied on is known as it was.
LEMMA RelianceKnown ==
    ASSUME NEW runs, NEW index, NEW other, NEW c \in Command, index[c] = other[c],
           c \in DOMAIN PriorResults([runs |-> runs, latestCommand |-> index])
    PROVE  /\ c \in DOMAIN PriorResults([runs |-> runs, latestCommand |-> other])
           /\ PriorResults([runs |-> runs, latestCommand |-> other])[c]
                = PriorResults([runs |-> runs, latestCommand |-> index])[c]
BY DEF PriorResults

LEMMA InitialWorkUnsettled ==
    ASSUME IInv, NEW r \in RunId, Undisturbed(r),
           NEW c \in InitialWork(log, [Plan(r).request EXCEPT !.recheck = FALSE],
                                 PriorResults(store))
    PROVE  c \in Unsettled(r)
<1> DEFINE old == job[r].log
           asked == Plan(r).request
           q == [asked EXCEPT !.recheck = FALSE]
           prior == PriorResults(store)
           known == PriorResults([runs |-> store.runs, latestCommand |-> job[r].index])
<1>1. /\ q.entries = asked.entries /\ q.all = asked.all /\ q.recheck = FALSE
      /\ Selected(log, q) = Selected(old, asked)
      /\ Blocked(log, q) = Blocked(old, asked)
      /\ \A d \in job[r].reconciled :
            /\ d \in DOMAIN Plan(r).accepted
            /\ Plan(r).accepted[d] = old.observed[d]
            /\ log.observed[d] = Reconciled(r, d) /\ ~ log.requires[d]
  BY UndisturbedLog
<1>2. r \in DOMAIN job
  BY DEF Undisturbed, Accepted
<1>3. PlannedFrom(Plan(r), old, job[r].index, store.runs)
  BY <1>2 DEF IInv, Planned, Plan
<1>4. c \in InitialWork(log, q, prior)
  OBVIOUS
<1>5. /\ log.code = old.code /\ log.file = old.file /\ log.flagged = old.flagged
      /\ \A d \in Command :
            IF d \in job[r].reconciled
            THEN log.observed[d] = Reconciled(r, d) /\ ~log.requires[d]
            ELSE log.observed[d] = old.observed[d] /\ log.requires[d] = old.requires[d]
  BY DEF Undisturbed
<1> HIDE DEF q, prior
<1>6. /\ c \in Selected(log, q) /\ c \notin Blocked(log, q)
      /\ log.code[c] = Opaque \/ (Needed(log, c) /\ ~ ResultCurrent(log, q, prior, c))
  BY <1>1, <1>4 DEF InitialWork
<1>7. c \in Command /\ c \in Target(asked)
  BY <1>1, <1>6, TargetsOfCommands
<1>8. SUFFICES ASSUME c \notin Unsettled(r) PROVE FALSE
  OBVIOUS
<1>9. /\ log.code[c] # Opaque
      /\ c \in DOMAIN Plan(r).accepted => c \in DOMAIN Plan(r).digest
      /\ c \in job[r].reconciled =>
            IF log.observed[c] = Plan(r).accepted[c] THEN ~ old.requires[c]
            ELSE ChangedInputs(log, c, Prereqs[c]) = {}
  BY <1>7, <1>8 DEF Unsettled
<1>10. /\ c \in DOMAIN Plan(r).digest /\ Plan(r).digest[c] = SourceDigest(old, asked, c)
       /\ c \notin PolicySkipped(old, asked)
       /\ Plan(r).source[c] = Fingerprint(old.code[c])
       /\ Plan(r).select[c] = SelectionOf(old, asked, known, c)
  BY <1>1, <1>3, <1>6, <1>7, <1>9 DEF PlannedFrom
<1>11. log.observed[c] = old.observed[c] /\ log.requires[c] = old.requires[c]
  <2>1. CASE c \notin job[r].reconciled
    BY <1>5, <1>7, <2>1
  <2>2. CASE c \in job[r].reconciled /\ log.observed[c] = Plan(r).accepted[c]
    <3>1. ~ log.requires[c] /\ ~ old.requires[c] /\ Plan(r).accepted[c] = old.observed[c]
      BY <1>1, <1>9, <2>2
    <3>2. log.requires[c] \in BOOLEAN /\ old.requires[c] \in BOOLEAN
      BY <1>3, <1>7 DEF IInv, Types, IsLogState, PlannedFrom
    <3>3. QED
      BY <2>2, <3>1, <3>2
  <2>3. CASE c \in job[r].reconciled /\ log.observed[c] # Plan(r).accepted[c]
    <3>1. log.observed[c] = Reconciled(r, c) /\ ~ log.requires[c]
      BY <1>1, <2>3
    <3>2. Reconciled(r, c) = [Plan(r).accepted[c] EXCEPT !.rec = Plan(r).source[c]]
      BY <2>3, <3>1 DEF Reconciled
    <3>3. Plan(r).accepted[c] \in Observations(c)
      BY <1>1, <1>3, <2>3, PlanFacts
    <3>4. log.code[c] \in Version /\ log.code[c] # None
      BY <1>7, <1>9, PlanAssumption DEF IInv, Types, IsLogState
    <3>5. log.observed[c].rec = log.code[c] /\ Fingerprint(log.code[c]) = log.code[c]
      BY <1>5, <1>9, <1>10, <3>1, <3>2, <3>3 DEF Observations, Fingerprint
    <3>6. ~ SourceSelected(log, c)
      BY <3>4, <3>5 DEF SourceSelected
    <3>7. log.file[c] = log.observed[c].out
      <4>1. Blocked(log, q) =
              Downstream(Dependencies(q),
                {d \in Selected(log, q) :
                    \/ log.file[d] # log.observed[d].out
                    \/ ChangedInputs(log, d, Boundary(log, q, d)) # {}
                    \/ d \in Cyclic(q)
                    \/ d \in log.flagged})
        BY DEF Blocked
      <4> DEFINE S == {d \in Selected(log, q) :
                    \/ log.file[d] # log.observed[d].out
                    \/ ChangedInputs(log, d, Boundary(log, q, d)) # {}
                    \/ d \in Cyclic(q)
                    \/ d \in log.flagged}
      <4>2. S \in SUBSET Command
        BY TargetsOfCommands
      <4>3. c \notin S
        <5> HIDE DEF S
        <5>1. S \subseteq Downstream(Dependencies(q), S)
          BY <4>2, DownstreamContains
        <5>2. Blocked(log, q) = Downstream(Dependencies(q), S)
          BY <4>1 DEF S
        <5>3. QED
          BY <1>6, <5>1, <5>2
      <4>4. QED
        BY <1>6, <4>3
    <3>8. Currentness(log, c) = {}
      BY <1>9, <2>3, <3>1, <3>7 DEF Currentness
    <3>9. QED
      BY <1>6, <1>9, <3>1, <3>6, <3>8 DEF Needed
  <2>4. QED
    BY <2>1, <2>2, <2>3
<1>12. /\ SourceDigest(log, q, c) = SourceDigest(old, asked, c)
       /\ Needed(log, c) = Needed(old, c)
  BY <1>1, <1>5, <1>11, SameDigest
<1>13. CASE Plan(r).select[c] \in {"run", "blocked"}
  <2>1. c \in DOMAIN prior /\ prior[c].digest = Plan(r).digest[c]
    BY <1>10, <1>13, ResultKnown DEF prior
  <2>2. QED
    BY <1>6, <1>9, <1>10, <1>12, <2>1 DEF ResultCurrent
<1>14. CASE Plan(r).select[c] \notin {"run", "blocked"}
  <2>1. c \notin NeedsRun(old, asked, known)
    <3>1. c \notin (Target(asked) \ Selected(old, asked)) \cup PolicySkipped(old, asked)
      BY <1>1, <1>6, <1>10
    <3>2. QED
      BY <1>10, <1>14, <3>1 DEF SelectionOf
  <2>2. c \notin InitialWork(old, asked, known)
    BY <2>1, InitialWorkRuns
  <2>3. ResultCurrent(old, asked, known, c)
    BY <1>1, <1>6, <1>9, <1>10, <1>12, <2>2 DEF InitialWork
  <2>4. c \in DOMAIN known /\ known[c].digest = SourceDigest(old, asked, c)
    BY <2>3 DEF ResultCurrent
  <2>5. store.latestCommand[c] = job[r].index[c]
    <3>1. c \in DOMAIN Plan(r).select
      BY <1>3, <1>10, PlanFacts
    <3>2. QED
      BY <1>14, <3>1 DEF Undisturbed
  <2>6. prior = PriorResults([runs |-> store.runs, latestCommand |-> store.latestCommand])
    BY DEF prior, PriorResults
  <2>7. c \in DOMAIN prior /\ prior[c] = known[c]
    BY <1>7, <2>4, <2>5, <2>6, RelianceKnown
  <2>8. QED
    BY <1>6, <1>9, <1>12, <2>4, <2>7 DEF ResultCurrent
<1>15. QED
  BY <1>13, <1>14

LEMMA InvariantSettles == IInv => SettledWork
<1> SUFFICES ASSUME IInv, NEW r \in RunId, Undisturbed(r)
             PROVE  LET q == [Plan(r).request EXCEPT !.recheck = FALSE]
                    IN  Scheduled(Prepare(log, q, store)) \subseteq
                            Downstream(Dependencies(q), Unsettled(r))
  BY DEF SettledWork
<1> DEFINE q == [Plan(r).request EXCEPT !.recheck = FALSE]
           prior == PriorResults(store)
           p == Prepare(log, q, store)
<1>1. InitialWork(log, q, prior) \subseteq Unsettled(r)
  BY InitialWorkUnsettled
<1> HIDE DEF q
<1>2. NeedsRun(log, q, prior) \subseteq Downstream(Dependencies(q), InitialWork(log, q, prior))
  BY DEF NeedsRun
<1>3. Downstream(Dependencies(q), InitialWork(log, q, prior))
        \subseteq Downstream(Dependencies(q), Unsettled(r))
  BY <1>1, DownstreamMonotone
<1>4. p.select = [c \in Target(q) |-> SelectionOf(log, q, prior, c)]
  BY DEF Prepare, PlanOf
<1>5. ASSUME NEW c \in Scheduled(p)
      PROVE  c \in NeedsRun(log, q, prior)
  <2>1. SelectionOf(log, q, prior, c) = "run"
    BY <1>4 DEF Scheduled
  <2>2. QED
    BY <2>1 DEF SelectionOf
<1>6. QED
  BY <1>2, <1>3, <1>5 DEF q

\* What a run left behind is settled: an incremental run of the same target finds
\* no work in it but what the code is known to repeat.
THEOREM WorkAlwaysSettled == Spec => []SettledWork
BY InvariantAlways, InvariantSettles, PTL
===========================================================================
