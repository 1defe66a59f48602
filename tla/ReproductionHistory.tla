------------------------ MODULE ReproductionHistory ------------------------
(***************************************************************************)
(* The reproductions of one log over its history: runs are planned from    *)
(* the log and from what earlier runs saved, work through their plans,     *)
(* reconcile pyrun.json, publish their results and mark the report, while  *)
(* the log is edited and outputs are promoted.                             *)
(*                                                                         *)
(* A run is its durable job.  A supervisor that is stopped or dies leaves  *)
(* the job behind for a resume; how it starts, stops and recovers its      *)
(* commands is the subject of ReproductionRun.                             *)
(***************************************************************************)
EXTENDS SavedResults

CONSTANTS
    Requests,   \* the requests that are made
    Required,   \* commands that require reproduction at first
    Edited,     \* commands whose script, outputs or records the author touches
    MaxEdits,   \* bound on the edits of the log
    MaxStops    \* bound on the stops, deaths and failed publications of runs

ASSUME HistoryAssumption ==
    /\ RunId \subseteq Nat \ {0}
    /\ Requests \subseteq Request
    /\ Required \subseteq Command /\ Edited \subseteq Command
    /\ MaxEdits \in Nat /\ MaxStops \in Nat

VARIABLES
    log,        \* IsLogState
    job,        \* the durable jobs of the runs that were accepted
    store,      \* the result store
    report,     \* the run the report file summarises
    promotion,  \* the promotion, None before there is one
    edits,      \* edits and promotions so far
    stops       \* stops, deaths and failed publications so far

vars == <<log, job, store, report, promotion, edits, stops>>

Phase == {"running", "stopped", "publishing", "failed", "complete"}
Accepted(r) == r \in DOMAIN job
Plan(r) == job[r].plan
Active(r) == Accepted(r) /\ job[r].phase \in {"running", "publishing"}
Running(r) == Accepted(r) /\ job[r].phase = "running"

\* The scope locks: a run of the whole log excludes all others.
ScopeFree(entries) ==
    \A r \in RunId : Active(r) => Plan(r).request.entries \cap entries = {}

\* A promotion holds the lock of its entry, and with it a share of the log lock,
\* until it ends; its marker outlives it when it is killed.
Promoting == promotion # None /\ promotion.phase \notin {"done", "killed"}
PromotionMarked == promotion # None /\ promotion.phase # "done"
EntryFree(c) == ~(Promoting /\ EntryOf[promotion.command] = EntryOf[c])
\* Deviation: the markers of promotions are not looked at.
NoConflictUnread(p) == TRUE

NoConflict(p) == ~(PromotionMarked /\ promotion.command \in p.boundary)

Init ==
    /\ \E v \in Version, start \in Content :
        log = [code     |-> [c \in Command |-> v],
               file     |-> [c \in Command |-> start],
               observed |-> [c \in Command |->
                    [rec |-> v, out |-> start, seen |-> [p \in Prereqs[c] |-> start]]],
               requires |-> [c \in Command |-> c \in Required],
               flagged  |-> {}]
    /\ job = <<>>
    /\ store = EmptyStore
    /\ report = None
    /\ promotion = None
    /\ edits = 0
    /\ stops = 0

-----------------------------------------------------------------------------
(* The author of the log.                                                  *)

Edit ==
    /\ edits < MaxEdits
    /\ edits' = edits + 1
    /\ UNCHANGED <<job, store, report, promotion, stops>>

EditCode(c, code) ==
    /\ Edit
    /\ log.code[c] # code
    /\ log' = [log EXCEPT !.code[c] = code]

\* A retained output is replaced by hand.
Overwrite(c, content) ==
    /\ Edit
    /\ log.file[c] # content
    /\ log' = [log EXCEPT !.file[c] = content]

\* A validation finding about the command appears or is repaired.
Flag(c) ==
    /\ Edit
    /\ log' = [log EXCEPT !.flagged = IF c \in @ THEN @ \ {c} ELSE @ \cup {c}]

\* An ordinary run of the command succeeds.
Rerun(c, content) ==
    /\ Edit
    /\ EntryFree(c)
    /\ log' = [log EXCEPT
                !.file[c] = content,
                !.observed[c] = [rec  |-> Fingerprint(log.code[c]),
                                 out  |-> content,
                                 seen |-> [p \in Prereqs[c] |-> log.file[p]]],
                !.requires[c] = FALSE]

-----------------------------------------------------------------------------
(* Planning and execution.                                                 *)

\* log and index are auxiliary: what the plan was made from.
Fresh(p) ==
    [plan       |-> p,
     phase      |-> "running",
     result     |-> [c \in Command |-> None],
     made       |-> [c \in Command |-> None],
     compared   |-> [c \in Command |-> None],
     reconciled |-> {},
     finished   |-> 0,
     log        |-> log,
     index      |-> store.latestCommand]

\* A request with nothing to run accepts no job.
Launch(r, q) ==
    /\ ~Accepted(r) /\ \A s \in RunId : s < r => Accepted(s)
    /\ ScopeFree(q.entries)
    /\ ~Promoting
    /\ LET p == Prepare(log, q, store)
       IN  /\ Scheduled(p) # {}
           /\ NoConflict(p)
           /\ job' = [s \in DOMAIN job \cup {r} |-> IF s = r THEN Fresh(p) ELSE job[s]]
    /\ UNCHANGED <<log, store, report, promotion, edits, stops>>

\* Prerequisites that this run has to produce itself.
Awaited(r, c) == Dependencies(Plan(r).request)[c] \cap Scheduled(Plan(r))

Unsatisfied(r, c) ==
    {d \in Awaited(r, c) :
        \/ job[r].result[d] \in {"failed", "blocked"}
        \/ job[r].compared[d] # None /\ job[r].compared[d].outcome # "matched"}

\* Deviation: any comparison of a prerequisite will do.
ReadyCompared(r, c) == \A d \in Awaited(r, c) : job[r].compared[d] # None

Ready(r, c) ==
    \A d \in Awaited(r, c) :
        job[r].compared[d] # None /\ job[r].compared[d].outcome = "matched"

Pending(r, c) == Running(r) /\ c \in Scheduled(Plan(r)) /\ job[r].result[c] = None

\* The inputs that are not produced by this run and the code must be the ones
\* of the accepted execution, before it starts and after it ends.
InputsStable(r, c) ==
    \A p \in Prereqs[c] \ Scheduled(Plan(r)) : log.file[p] = Plan(r).accepted[c].seen[p]

Stable(r, c) == InputsStable(r, c) /\ Fingerprint(log.code[c]) = Plan(r).source[c]

Attempt(r, c) ==
    /\ Pending(r, c)
    /\ Ready(r, c)
    /\ \/ job' = [job EXCEPT ![r].result[c] = "failed"]
       \/ /\ Stable(r, c)
          /\ \E content \in Content :
                job' = [job EXCEPT ![r].result[c] = "succeeded", ![r].made[c] = content]
    /\ UNCHANGED <<log, store, report, promotion, edits, stops>>

Block(r, c) ==
    /\ Pending(r, c)
    /\ Unsatisfied(r, c) # {}
    /\ job' = [job EXCEPT ![r].result[c] = "blocked"]
    /\ UNCHANGED <<log, store, report, promotion, edits, stops>>

\* The comparator may fail on its own account.
Compare(r, c) ==
    /\ Running(r)
    /\ job[r].result[c] = "succeeded" /\ job[r].compared[c] = None
    /\ LET baseline == Plan(r).accepted[c].out
       IN  \E outcome \in {"comparison_failed",
                           IF log.file[c] # baseline THEN "comparison_failed"
                           ELSE IF job[r].made[c] = baseline THEN "matched"
                           ELSE "not_matched"} :
                job' = [job EXCEPT ![r].compared[c] =
                            [outcome |-> outcome, baseline |-> baseline,
                             expected |-> log.file[c], origin |-> r]]
    /\ UNCHANGED <<log, store, report, promotion, edits, stops>>

Worked(r) ==
    \A c \in Scheduled(Plan(r)) :
        /\ job[r].result[c] # None
        /\ job[r].result[c] = "succeeded" => job[r].compared[c] # None

Produced(r) == {c \in Scheduled(Plan(r)) : job[r].result[c] = "succeeded"}

-----------------------------------------------------------------------------
(* Source reconciliation.                                                  *)

\* The observation that adopts the accepted source, if all outputs matched.
Reconciled(r, c) ==
    IF job[r].compared[c].outcome = "matched"
    THEN [Plan(r).accepted[c] EXCEPT !.rec = Plan(r).source[c]]
    ELSE Plan(r).accepted[c]

\* Deviation: whatever is recorded is reconciled.
StillAcceptedAssumed(r, c) == TRUE

\* The retained execution is the accepted one, or already reconciled.
StillAccepted(r, c) ==
    log.observed[c] \in {Plan(r).accepted[c], Reconciled(r, c)}

Interrupted == stops < MaxStops /\ stops' = stops + 1

Reconciling(r, c) ==
    /\ Running(r)
    /\ Worked(r)
    /\ c \in Produced(r) \ job[r].reconciled

\* pyrun.json is replaced, and then the job acknowledges it. A supervisor that
\* dies in between leaves a job that reconciles again.
Reconcile(r, c) ==
    /\ Reconciling(r, c)
    /\ EntryFree(c)
    /\ StillAccepted(r, c)
    /\ log' = [log EXCEPT !.observed[c] = Reconciled(r, c), !.requires[c] = FALSE]
    /\ \/ job' = [job EXCEPT ![r].reconciled = @ \cup {c}] /\ UNCHANGED stops
       \/ job' = [job EXCEPT ![r].phase = "stopped"] /\ Interrupted
    /\ UNCHANGED <<store, report, promotion, edits>>

\* An execution that changed since it was accepted ends the run, and so does a
\* lock that any other operation holds on the entry or the log at that moment:
\* the reconciliation does not wait for it.
Refuse(r, c) ==
    /\ Reconciling(r, c)
    /\ job' = [job EXCEPT ![r].phase = "failed"]
    /\ UNCHANGED <<log, store, report, promotion, edits, stops>>

Stop(r) ==
    /\ Running(r)
    /\ job' = [job EXCEPT ![r].phase = "stopped"]
    /\ Interrupted
    /\ UNCHANGED <<log, store, report, promotion, edits>>

\* A stopped run goes on if the retained inputs of its completed commands are
\* still the accepted ones, and fails otherwise. A failed publication is tried
\* again.
Resume(r) ==
    /\ Accepted(r)
    /\ ScopeFree(Plan(r).request.entries)
    /\ NoConflict(Plan(r))
    /\ \/ /\ job[r].phase = "stopped"
          /\ job' = [job EXCEPT ![r].phase =
                IF \A c \in Produced(r) : InputsStable(r, c) THEN "running" ELSE "failed"]
       \/ /\ job[r].phase = "failed" /\ job[r].finished # 0
          /\ job' = [job EXCEPT ![r].phase = "publishing"]
    /\ UNCHANGED <<log, store, report, promotion, edits, stops>>

-----------------------------------------------------------------------------
(* Publication.                                                            *)

\* The completion time is frozen before any shared write.
Freeze(r) ==
    /\ Running(r)
    /\ Worked(r)
    /\ Produced(r) \subseteq job[r].reconciled
    /\ job' = [job EXCEPT
                ![r].phase = "publishing",
                ![r].finished =
                    1 + Cardinality({s \in DOMAIN job : job[s].finished # 0})]
    /\ UNCHANGED <<log, store, report, promotion, edits, stops>>

\* The report summarises the newest saved run.
Write(kept) == report' = Newest(kept)

\* The writes of a publication, under the publication and the results locks:
\* the saved run, the report, its marker. It may end before any of them; the
\* acknowledgments of the job are what lets a retry follow.
PublishRun(r) ==
    LET j == job[r]
        kept == Publish(store, r, SavedRun(r, j.plan, j.finished, j.result, j.compared))
    IN  /\ Accepted(r) /\ j.phase = "publishing"
        /\ \/ /\ job' = [job EXCEPT ![r].phase = "complete"]
              /\ store' = Marked(kept)
              /\ Write(kept)
              /\ UNCHANGED stops
           \/ /\ job' = [job EXCEPT ![r].phase = "failed"]
              /\ Interrupted
              /\ \/ store' \in {store, kept} /\ UNCHANGED report
                 \/ store' \in {kept, Marked(kept)} /\ Write(kept)
        /\ UNCHANGED <<log, promotion, edits>>

\* The report is rendered again on request, or only its file is.
Render ==
    /\ store' \in {store, Marked(store)}
    /\ Write(store)
    /\ UNCHANGED <<log, job, promotion, edits, stops>>

-----------------------------------------------------------------------------
(* Promotion of a run's outputs. Its report is composed before the results  *)
(* lock is taken, and its failures restore the outputs and pyrun.json.      *)

\* The execution and its outputs are the accepted ones; a matching source may
\* have been reconciled since.
Promotable(r, c) ==
    /\ log.observed[c] \in
         {Plan(r).accepted[c], [Plan(r).accepted[c] EXCEPT !.rec = Plan(r).source[c]]}
    /\ log.file[c] = Plan(r).accepted[c].out

\* Runs without a final status, whose boundary inputs must not change.
Overlapping(c) ==
    {r \in RunId : Active(r) /\ c \in Plan(r).boundary}

BeginPromotion(r, c) ==
    /\ promotion = None
    /\ edits < MaxEdits
    /\ Accepted(r) /\ job[r].result[c] = "succeeded" /\ job[r].compared[c] # None
    /\ Promotable(r, c)
    /\ Overlapping(c) = {}
    /\ edits' = edits + 1
    /\ promotion' =
         [run |-> r, command |-> c, phase |-> "marked", generation |-> 0, report |-> None,
          observed |-> log.observed[c], requires |-> log.requires[c]]
    /\ UNCHANGED <<log, job, store, report, stops>>

InPhase(phase) == promotion # None /\ promotion.phase = phase

To(phase) == [promotion EXCEPT !.phase = phase]

InstallOutputs ==
    /\ InPhase("marked")
    /\ LET c == promotion.command
       IN  IF Promotable(promotion.run, c)
           THEN /\ log' = [log EXCEPT !.file[c] = job[promotion.run].made[c]]
                /\ promotion' = To("installed")
           ELSE /\ promotion' = To("ended")
                /\ UNCHANGED log
    /\ UNCHANGED <<job, store, report, edits, stops>>

RecordPromotion ==
    /\ InPhase("installed")
    /\ LET c == promotion.command
           r == promotion.run
       IN  log' = [log EXCEPT
                    !.observed[c] = [@ EXCEPT !.rec = Plan(r).source[c], !.out = job[r].made[c]],
                    !.requires[c] = FALSE]
    /\ promotion' = To("recorded")
    /\ UNCHANGED <<job, store, report, edits, stops>>

ComposeReport ==
    /\ InPhase("recorded")
    /\ promotion' = [To("composed") EXCEPT !.generation = store.generation,
                                          !.report = Newest(store)]
    /\ UNCHANGED <<log, job, store, report, edits, stops>>

\* Deviation: the generation is not read again under the results lock.
ReportPromotionBlindly ==
    /\ InPhase("composed")
    /\ store' = Marked(store)
    /\ report' = promotion.report
    /\ promotion' = To("ended")
    /\ UNCHANGED <<log, job, edits, stops>>

\* No report is current while it is replaced; a failure leaves it so.
ReportPromotion ==
    /\ InPhase("composed")
    /\ store.generation = promotion.generation
    /\ \/ /\ store' = Marked(store)
          /\ report' = promotion.report
          /\ promotion' = To("ended")
       \/ /\ store' = [store EXCEPT !.marker = 0]
          /\ report' \in {report, promotion.report}
          /\ promotion' = To("failed")
    /\ UNCHANGED <<log, job, edits, stops>>

\* Any failure after the outputs were installed restores what was there.
RollBack ==
    /\ Promoting /\ promotion.phase \in {"installed", "recorded", "composed", "failed"}
    /\ LET c == promotion.command
       IN  log' = [log EXCEPT !.file[c] = Plan(promotion.run).accepted[c].out,
                              !.observed[c] = promotion.observed,
                              !.requires[c] = promotion.requires]
    /\ promotion' = To("ended")
    /\ UNCHANGED <<job, store, report, edits, stops>>

Finish ==
    /\ InPhase("ended")
    /\ promotion' = To("done")
    /\ UNCHANGED <<log, job, store, report, edits, stops>>

\* The process dies, or does not get the locks it removes its marker under.
Kill ==
    /\ Promoting
    /\ promotion' = To("killed")
    /\ UNCHANGED <<log, job, store, report, edits, stops>>

-----------------------------------------------------------------------------
Author ==
    \E c \in Edited :
        \/ \E code \in Version \cup {Opaque} : EditCode(c, code)
        \/ \E content \in Content : Overwrite(c, content) \/ Rerun(c, content)
        \/ Flag(c)

Work(r) ==
    \/ \E q \in Requests : Launch(r, q)
    \/ \E c \in Command :
        Attempt(r, c) \/ Block(r, c) \/ Compare(r, c) \/ Reconcile(r, c) \/ Refuse(r, c)
    \/ Stop(r) \/ Resume(r) \/ Freeze(r) \/ PublishRun(r)

Promotion ==
    \/ \E r \in RunId, c \in Command : BeginPromotion(r, c)
    \/ InstallOutputs \/ RecordPromotion \/ ComposeReport \/ ReportPromotion
    \/ RollBack \/ Finish \/ Kill

Next == Author \/ Render \/ Promotion \/ \E r \in RunId : Work(r)

Spec == Init /\ [][Next]_vars

-----------------------------------------------------------------------------
(* Properties.                                                             *)

TypeOK ==
    /\ IsLogState(log)
    /\ \A r \in RunId :
        Accepted(r) =>
            /\ Plan(r).request \in Requests
            /\ \A c \in DOMAIN Plan(r).select : Plan(r).select[c] \in Selection
            /\ job[r].phase \in Phase
            /\ job[r].result \in [Command -> Outcome \cup {None}]
            /\ job[r].made \in [Command -> Content \cup {None}]
            /\ \A c \in Command : job[r].compared[c] \in Comparison \cup {None}
            /\ job[r].reconciled \subseteq Produced(r)
            /\ job[r].finished \in Nat
    /\ DOMAIN job \subseteq RunId
    /\ Saved(store) \subseteq DOMAIN job
    /\ store.latestCommand \in [Command -> Saved(store) \cup {None}]
    /\ store.latestArtifact \in [Command -> Saved(store) \cup {None}]
    /\ store.generation = Cardinality(Saved(store))
    /\ store.marker \in 0 .. store.generation
    /\ report \in Saved(store) \cup {None}
    /\ edits \in 0 .. MaxEdits /\ stops \in 0 .. MaxStops

\* What a run left behind is settled: while the log is the one it was planned
\* from, but for what the run itself reconciled, and no other run takes its
\* results or those it relied on over, an incremental run of the same target
\* finds no work in it. Failures, blocks and differences are not retried.
Undisturbed(r) ==
    LET old == job[r].log
    IN  /\ Accepted(r) /\ job[r].phase = "complete"
        /\ log.code = old.code /\ log.file = old.file /\ log.flagged = old.flagged
        /\ \A c \in Command :
            IF c \in job[r].reconciled
            THEN log.observed[c] = Reconciled(r, c) /\ ~log.requires[c]
            ELSE log.observed[c] = old.observed[c] /\ log.requires[c] = old.requires[c]
        /\ \A c \in DOMAIN Plan(r).select :
            store.latestCommand[c] =
                IF Plan(r).select[c] \in {"run", "blocked"} THEN r ELSE job[r].index[c]

\* Excepted are commands whose code cannot be fingerprinted, and the nonautomatic
\* ones that a recheck passes over. What the run reconciles is retried once when
\* it is needed still: the requirement that was cleared, and the source that was
\* adopted, are a part of the digest after all, through the currentness and the
\* problems.
Unsettled(r) ==
    {c \in Command :
        \/ log.code[c] = Opaque
        \/ c \in DOMAIN Plan(r).accepted \ DOMAIN Plan(r).digest
        \/ /\ c \in job[r].reconciled
           /\ IF log.observed[c] = Plan(r).accepted[c] THEN job[r].log.requires[c]
              ELSE ChangedInputs(log, c, Prereqs[c]) # {}}

SettledWork ==
    \A r \in RunId :
        Undisturbed(r) =>
            LET q == [Plan(r).request EXCEPT !.recheck = FALSE]
            IN  Scheduled(Prepare(log, q, store)) \subseteq
                    Downstream(Dependencies(q), Unsettled(r))

\* A saved comparison, fresh or reused, is about the baseline its run accepted,
\* and says of the outputs that the run of its origin made what they were.
SavedMatchesBaseline ==
    \A r \in Saved(store) : \A c \in DOMAIN store.runs[r].compared :
        LET kept == store.runs[r].compared[c]
        IN  /\ kept.baseline = Plan(r).accepted[c].out
            /\ kept.outcome \in {"matched", "not_matched"} =>
                /\ kept.origin \in Saved(store) \cup {r}
                /\ kept.outcome = "matched" <=> job[kept.origin].made[c] = kept.baseline

\* A command of a run was only executed after the commands it awaits had
\* reproduced their outputs, and is only blocked when one of them did not.
PrerequisitesHeld ==
    \A r \in RunId : Accepted(r) => \A c \in Scheduled(Plan(r)) :
        /\ job[r].result[c] \in {"succeeded", "failed"} =>
            \A d \in Awaited(r, c) : job[r].made[d] = Plan(r).accepted[d].out
        /\ job[r].result[c] = "blocked" =>
            \E d \in Awaited(r, c) : job[r].made[d] # Plan(r).accepted[d].out
                                    \/ job[r].compared[d].outcome # "matched"

\* A report marked as current is the summary of the newest run of the current
\* generation, however publications, promotions, renderings and their failures
\* interleave.
MarkedReportIsCurrent ==
    store.marker # 0 => store.marker = store.generation /\ report = Newest(store)

\* While the outputs of a command are promoted, no run that verified them as
\* its inputs is under way.
BoundariesNotPromoted ==
    PromotionMarked => Overlapping(promotion.command) = {}

\* Only a run whose accepted execution is the recorded one clears the
\* requirement of a command or adopts its source, and it adopts the source only
\* with outputs that are the recorded ones.
ReconciledWorkIsCurrent ==
    [][\A c \in Command :
        LET old == log.observed[c]
            new == log'.observed[c]
        IN  /\ edits' = edits /\ promotion' = promotion
            /\ new # old \/ log'.requires[c] # log.requires[c]
            => \E r \in RunId :
                /\ Active(r) /\ job[r].result[c] = "succeeded"
                /\ old = Plan(r).accepted[c] \/ old = new
                /\ new = old \/ new = [old EXCEPT !.rec = Plan(r).source[c]]
                /\ new # old => job[r].made[c] = old.out]_vars

\* Without the option that authorizes them, no command that is not automatic is
\* scheduled (docs/research-logging.md:1027).
NonautomaticNeedsAuthority ==
    \A r \in RunId :
        Accepted(r) => Plan(r).request.all \/ Scheduled(Plan(r)) \subseteq Automatic

=============================================================================
