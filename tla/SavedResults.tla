---------------------------- MODULE SavedResults ----------------------------
(***************************************************************************)
(* The reproduction domain of a log's result store: immutable saved runs,  *)
(* indexes to the last saved observation of every command and of its       *)
(* outputs, a generation, and the marker that says for which generation    *)
(* the report file was written.                                            *)
(***************************************************************************)
EXTENDS ReproductionPlan

CONSTANT RunId

Outcome == {"succeeded", "failed", "blocked"}

\* A comparison of outputs: the accepted baseline, what was found in its place,
\* and the run that made it.
Comparison ==
    [outcome  : {"matched", "not_matched", "comparison_failed", "not_run"},
     baseline : Content,
     expected : Content,
     origin   : RunId]

ASSUME ResultAssumption ==
    None \notin RunId /\ None \notin Outcome /\ None \notin Comparison

NotRun(r, baseline) ==
    [outcome |-> "not_run", baseline |-> baseline, expected |-> baseline, origin |-> r]

\* What a completed run freezes: its own observations, the comparisons its plan
\* reuses, and for the other outputs it reached that nothing was compared.
SavedRun(r, p, finished, result, compared) ==
    [finished |-> finished,
     select   |-> p.select,
     digest   |-> p.digest,
     result   |-> result,
     compared |->
        [c \in DOMAIN p.accepted |->
            IF compared[c] # None THEN compared[c]
            ELSE IF c \in DOMAIN p.reused THEN p.reused[c]
            ELSE NotRun(r, p.accepted[c].out)]]

EmptyStore ==
    [runs           |-> <<>>,
     latestCommand  |-> [c \in Command |-> None],
     latestArtifact |-> [c \in Command |-> None],
     generation     |-> 0,
     marker         |-> 0]

Saved(store) == DOMAIN store.runs

\* A new run takes over the index of every command that it attempted or found
\* blocked and of all outputs it records; it advances the generation, and no
\* report is current.
Added(store, r, run) ==
    LET own == {c \in DOMAIN run.select : run.select[c] \in {"run", "blocked"}}
    IN  [runs |-> [s \in Saved(store) \cup {r} |-> IF s = r THEN run ELSE store.runs[s]],
         latestCommand |->
            [c \in Command |-> IF c \in own THEN r ELSE store.latestCommand[c]],
         latestArtifact |->
            [c \in Command |->
                IF c \in DOMAIN run.compared THEN r ELSE store.latestArtifact[c]],
         generation |-> store.generation + 1,
         marker |-> 0]

\* Deviation: a retry saves the run again.
PublishAgain(store, r, run) == Added(store, r, run)

\* An exact retry of a run that is already saved changes nothing.
Publish(store, r, run) == IF r \in Saved(store) THEN store ELSE Added(store, r, run)

\* The run that inspection shows by default and the report summarises.
Newest(store) ==
    IF Saved(store) = {} THEN None
    ELSE CHOOSE r \in Saved(store) :
            \A s \in Saved(store) : store.runs[s].finished <= store.runs[r].finished

Marked(store) == [store EXCEPT !.marker = store.generation]

-----------------------------------------------------------------------------
(* What preparation learns from the indexes.                               *)

DispositionOf(run, c) ==
    IF run.result[c] # None THEN run.result[c]
    ELSE IF run.select[c] = "previous_failure" THEN "failed"
    ELSE IF run.select[c] \in {"previous_block", "blocked"} THEN "blocked"
    ELSE None

PriorResults(store) ==
    LET Last(c) == store.runs[store.latestCommand[c]]
        Known(c) ==
            /\ store.latestCommand[c] # None
            /\ c \in DOMAIN Last(c).digest /\ DispositionOf(Last(c), c) # None
    IN  [c \in {d \in Command : Known(d)} |->
            [digest |-> Last(c).digest[c], disposition |-> DispositionOf(Last(c), c)]]

PriorComparisons(store) ==
    [c \in {d \in Command : store.latestArtifact[d] # None} |->
        store.runs[store.latestArtifact[c]].compared[c]]

Prepare(w, q, store) == PlanOf(w, q, PriorResults(store), PriorComparisons(store))

=============================================================================
