-------------------------- MODULE ReproductionPlan --------------------------
(***************************************************************************)
(* How a reproduction decides what to run.                                 *)
(*                                                                         *)
(* A command is a recorded execution of the log together with its outputs, *)
(* which it produces, and which are compared, as one set.  The operators   *)
(* take the state w of the log (IsLogState) and what the saved results say   *)
(* of each command, and give the plan that a run accepts and never changes.*)
(***************************************************************************)
EXTENDS Naturals, FiniteSets

CONSTANTS
    Command,
    Entry,
    EntryOf,    \* [Command -> Entry]
    Prereqs,    \* [Command -> SUBSET Command]: whose outputs a command reads
    Automatic,  \* commands recorded with auto_reproduce
    Evidence,   \* commands whose outputs evidence records read
    Version,    \* effective-code fingerprints
    Content,    \* output fingerprints
    Opaque,     \* code whose effective-code fingerprint cannot be computed
    None

ASSUME PlanAssumption ==
    /\ IsFiniteSet(Command)
    /\ EntryOf \in [Command -> Entry]
    /\ Prereqs \in [Command -> SUBSET Command]
    /\ Automatic \subseteq Command
    /\ Evidence \subseteq Command
    /\ Opaque \notin Version
    /\ None \notin Version \cup Content

\* What the log holds of every command: the effective code of its script now,
\* its retained output now, and in pyrun.json the effective code, the outputs
\* and the inputs of its last run and whether it requires reproduction. Findings of the validation
\* exclude the flagged ones.
Observations(c) ==
    [rec : Version \cup {None}, out : Content, seen : [Prereqs[c] -> Content]]

IsLogState(w) ==
    /\ DOMAIN w = {"code", "file", "observed", "requires", "flagged"}
    /\ w.code \in [Command -> Version \cup {Opaque}]
    /\ w.file \in [Command -> Content]
    /\ DOMAIN w.observed = Command
    /\ \A c \in Command : w.observed[c] \in Observations(c)
    /\ w.requires \in [Command -> BOOLEAN]
    /\ w.flagged \subseteq Command

Fingerprint(code) == IF code = Opaque THEN None ELSE code

\* A request names the entries of its target and the two selection options.
Request == [entries : (SUBSET Entry) \ {{}}, all : BOOLEAN, recheck : BOOLEAN]

-----------------------------------------------------------------------------
(* Tracing.                                                                *)

Target(q) == {c \in Command : EntryOf[c] \in q.entries}

\* Commands whose inputs are followed.
Traced(q) == {c \in Target(q) : q.all \/ c \in Automatic}

\* Non-automatic producers that stop the tracing but are planned themselves.
Edge(w, q) ==
    {c \in Target(q) \ Traced(q) :
        /\ ~w.requires[c]
        /\ c \in Evidence \/ \E d \in Traced(q) : c \in Prereqs[d]}

Selected(w, q) == Traced(q) \cup Edge(w, q)

Dependencies(q) ==
    [c \in Command |-> IF c \in Traced(q) THEN Prereqs[c] \cap Traced(q) ELSE {}]

\* Inputs read as they are retained, and therefore verified by the plan.
Boundary(w, q, c) ==
    IF c \in Traced(q) THEN Prereqs[c] \ Selected(w, q) ELSE {}

ChangedInputs(w, c, inputs) == {p \in inputs : w.file[p] # w.observed[c].seen[p]}

\* What depends on nothing outside of it that it does not hold itself.
Closed(deps, T) == \A c \in Command : deps[c] \cap T # {} => c \in T

\* Everything reached from S along the edges of deps.
Downstream(deps, S) ==
    {c \in Command : \A T \in SUBSET Command : S \subseteq T /\ Closed(deps, T) => c \in T}

Cyclic(q) ==
    LET deps == Dependencies(q)
    IN  {c \in Command : c \in Downstream(deps, {d \in Command : c \in deps[d]})}

-----------------------------------------------------------------------------
(* Currentness.                                                            *)

SourceSelected(w, c) == Fingerprint(w.code[c]) = None \/ w.code[c] # w.observed[c].rec

\* The evaluator's conclusion on the outputs of a command; it names the fields
\* that differ and not their values.
Currentness(w, c) ==
    IF w.requires[c] THEN {"required"}
    ELSE {f \in {"output_fingerprint", "inputs"} :
            \/ f = "output_fingerprint" /\ w.file[c] # w.observed[c].out
            \/ f = "inputs" /\ ChangedInputs(w, c, Prereqs[c]) # {}}

\* The causes found while the work is prepared, with the values they quote.
Problems(w, q, c) ==
    [code     |-> IF SourceSelected(w, c) THEN <<w.observed[c].rec, w.code[c]>> ELSE <<>>,
     baseline |-> IF w.file[c] # w.observed[c].out THEN <<w.observed[c].out, w.file[c]>> ELSE <<>>,
     inputs   |-> [p \in ChangedInputs(w, c, Boundary(w, q, c)) |-> w.file[p]],
     cycle    |-> c \in Cyclic(q),
     finding  |-> c \in w.flagged]

\* Commands that cannot run for a cause of their own, and what depends on them.
Blocked(w, q) ==
    Downstream(Dependencies(q),
        {c \in Selected(w, q) :
            \/ w.file[c] # w.observed[c].out
            \/ ChangedInputs(w, c, Boundary(w, q, c)) # {}
            \/ c \in Cyclic(q)
            \/ c \in w.flagged})

\* The closure of what a command's result depends on. The recorded effective
\* code and the mutable requirement are no part of it.
SourceDigest(w, q, c) ==
    [dependencies |-> Dependencies(q)[c],
     baseline     |-> w.observed[c].out,
     seen         |-> w.observed[c].seen,
     currentness  |-> Currentness(w, c),
     source       |-> Fingerprint(w.code[c]),
     problems     |-> Problems(w, q, c)]

-----------------------------------------------------------------------------
(* Selection. prior[c] is the digest and the disposition of the last saved  *)
(* observation of c, if there is one.                                      *)

Disposition == {"failed", "blocked", "succeeded"}
Selection ==
    {"run", "blocked", "not_needed", "previous_failure", "previous_block",
     "skipped_by_policy"}

PolicySkipped(w, q) ==
    {c \in Selected(w, q) : q.recheck /\ ~q.all /\ c \notin Automatic}

\* Deviation: a run that succeeded is no reason not to run again.
ResultCurrentUnlessDone(w, q, prior, c) ==
    /\ c \in DOMAIN prior /\ prior[c].digest = SourceDigest(w, q, c)
    /\ prior[c].disposition # "succeeded"

ResultCurrent(w, q, prior, c) ==
    c \in DOMAIN prior /\ prior[c].digest = SourceDigest(w, q, c)

Needed(w, c) == w.requires[c] \/ Currentness(w, c) # {} \/ SourceSelected(w, c)

InitialWork(w, q, prior) ==
    {c \in Selected(w, q) \ (Blocked(w, q) \cup PolicySkipped(w, q)) :
        \/ q.recheck
        \/ w.code[c] = Opaque
        \/ Needed(w, c) /\ ~ResultCurrent(w, q, prior, c)}

NeedsRun(w, q, prior) ==
    Downstream(Dependencies(q), InitialWork(w, q, prior))
        \ (Blocked(w, q) \cup PolicySkipped(w, q))

SelectionOf(w, q, prior, c) ==
    IF c \in (Target(q) \ Selected(w, q)) \cup PolicySkipped(w, q) THEN "skipped_by_policy"
    ELSE IF c \in NeedsRun(w, q, prior) THEN "run"
    ELSE IF c \in Blocked(w, q) THEN "blocked"
    ELSE IF Needed(w, c) /\ prior[c].disposition = "failed" THEN "previous_failure"
    ELSE IF Needed(w, c) /\ prior[c].disposition = "blocked" THEN "previous_block"
    ELSE "not_needed"

\* Deviation: the last comparison is reused whatever its baseline was.
ReusableAlways(w, compared, c) ==
    c \in DOMAIN compared /\ compared[c].outcome # "not_run"

\* A saved comparison stands for the retained outputs it was made with.
\* compared[c] is the last saved comparison of c's outputs, if there is one.
Reusable(w, compared, c) ==
    /\ c \in DOMAIN compared
    /\ compared[c].outcome \in {"matched", "not_matched", "comparison_failed"}
    /\ compared[c].baseline = w.observed[c].out
    /\ compared[c].expected = w.observed[c].out

\* The accepted plan: what is selected, the observations it was made from and
\* the comparisons it reuses.
PlanOf(w, q, prior, compared) ==
    LET select == [c \in Target(q) |-> SelectionOf(w, q, prior, c)]
    IN  [request  |-> q,
         select   |-> select,
         digest   |-> [c \in Selected(w, q) \ PolicySkipped(w, q) |-> SourceDigest(w, q, c)],
         accepted |-> [c \in Selected(w, q) |-> w.observed[c]],
         source   |-> [c \in Selected(w, q) |-> Fingerprint(w.code[c])],
         boundary |-> UNION {Boundary(w, q, c) : c \in Traced(q)},
         reused   |-> [c \in {d \in Selected(w, q) :
                                /\ select[d] \notin {"run", "blocked"}
                                /\ Reusable(w, compared, d)} |-> compared[c]]]

Scheduled(p) == {c \in DOMAIN p.select : p.select[c] = "run"}

=============================================================================
