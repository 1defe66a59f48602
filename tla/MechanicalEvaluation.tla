------------------------ MODULE MechanicalEvaluation ------------------------
(***************************************************************************)
(* The mechanical evaluation of a log (validation/engine.py): what it      *)
(* loads, the commands it admits, the walk through the producers of the    *)
(* evidence, the checks it records and the attempt that is built from      *)
(* them (validation/domain.py).  The whole log is evaluated, and then one  *)
(* entry with the producers that its materials reach.                      *)
(*                                                                         *)
(* A producer of an entry that was loaded for its declarations alone may   *)
(* read an input that nobody has looked at.                                *)
(***************************************************************************)
EXTENDS ResearchLog

CONSTANT MaxDepth       \* MAX_LINEAGE_DEPTH

ASSUME DepthAssumption == MaxDepth \in Nat

VARIABLES
    target,         \* the entry that is evaluated by itself
    scope,          \* "full", then "entry"
    phase,
    loaded,         \* state.entries
    checks,         \* state.checks
    twice,          \* identities of checks that were recorded again
    prerequisites,  \* checks that the inputs of entries depend on
    pending,        \* commands that are observed next
    materialized,   \* commands that were observed
    job,            \* the record that is evaluated, what it found and relies on
    stack,          \* the walk: producers from the evidence up
    traces,         \* invocation_trace_cache of all contexts
    results,        \* provenance_results
    attempts        \* how each evaluation ended

request == <<log, target, scope, attempts>>
surfaces == <<loaded, prerequisites, pending, materialized>>
walking == <<stack, traces, results>>
vars == <<request, surfaces, phase, checks, twice, job, walking>>

Full == scope = "full"

Check(id, outcome, deps) == [id |-> id, outcome |-> outcome, deps |-> deps]
Failure(id, unavailable) == Check(id, IF unavailable THEN "failed" ELSE "finding", {})
Blocked(id, deps) == Check(id, "blocked", deps)
Ids(some) == {c.id : c \in some}

DataId(e) == <<"data", e>>
InputId(e, m) == <<"input", e, m>>
ConflictId(m) == <<"conflict", m>>
CommandId(p) == <<"command", p>>
PyrunId(e) == <<"pyrun", e>>
FindingId(f) == <<"finding", f>>
EvidenceId(r) == <<"evidence", r>>
ProvenanceId(r) == <<"provenance", r>>

Of(r) == log.records[r].at
Sources(r) == log.records[r].sources

NoJob == [todo |-> {}, left |-> <<>>, found |-> {}, relied |-> {}]
Begin(todo) ==
    [todo |-> todo, left |-> IF todo = {} THEN <<>> ELSE Sources(Min(todo)),
     found |-> {}, relied |-> {}]

Init ==
    /\ log \in Logs
    /\ target \in Entry
    /\ scope = "full"
    /\ phase = "open"
    /\ loaded = {} /\ prerequisites = {} /\ pending = {} /\ materialized = {}
    /\ checks = {} /\ twice = {}
    /\ job = NoJob
    /\ stack = <<>> /\ traces = <<>> /\ results = <<>>
    /\ attempts = [s \in {"full", "entry"} |-> None]

---------------------------------------------------------------------------
(* Entries and commands                                                    *)

\* _record_entry_surface_error keeps one failure of a registry, the first.
SurfaceChecks(e) ==
    IF Readable(e)
    THEN {Failure(InputId(e, m), log.state[m] = "away") : m \in FirstAbsent(log.declared[e])}
    ELSE {Failure(DataId(e), FALSE)}

\* All failing inputs depend on it.
SurfaceNeeds(e) ==
    {<<e, m, id>> : m \in {m \in File : Declares(e, m) /\ ~ Here(m)}, id \in Ids(SurfaceChecks(e))}

\* _record_indexed_data_conflicts: conflicts of the log that the entries take part in.
Indexed(entries) == {m \in Conflicting(Entry) : \E e \in entries : Declares(e, m)}

ConflictNeeds(entries) ==
    UNION {{<<e, m, ConflictId(m)>> : m \in {m \in Indexed(entries) : Declares(e, m)}} : e \in entries}

ConflictChecks(materials) == {Failure(ConflictId(m), FALSE) : m \in materials}

\* The index of an entry evaluation reads every data.json, the surfaces of
\* the evaluated entries are observed.
Open ==
    LET opened == IF Full THEN Entry ELSE {target}
    IN  /\ phase = "open"
        /\ loaded' = opened
        /\ checks' = ConflictChecks(Indexed(opened))
                     \cup UNION {SurfaceChecks(e) : e \in opened \cup log.broken}
        /\ prerequisites' = ConflictNeeds(opened) \cup UNION {SurfaceNeeds(e) : e \in opened}
        /\ pending' = {p \in Commands : At(p) \in opened}
        /\ phase' = "discover"
        /\ UNCHANGED <<request, materialized, twice, job, walking>>

\* Failed checks that the inputs of a command depend on.
Needs(p) == {c \in checks : \E m \in Ins(p) : <<At(p), m, c.id>> \in prerequisites}
Away(p) == {c \in Needs(p) : c.outcome = "failed"}

\* _eligible_discovered_invocations: a command is kept when no more failed
\* than the access to a volume.
Valid(p) == Readable(At(p)) /\ Needs(p) = Away(p)

Invocations == {p \in materialized : Valid(p)}

\* The command itself is blocked by them, or by the registry.
CommandChecks(p) ==
    LET causes == IF Readable(At(p)) THEN Ids(Needs(p)) ELSE {DataId(At(p))}
    IN  IF causes = {} THEN {} ELSE {Blocked(CommandId(p), causes)}

Discover ==
    /\ phase = "discover"
    /\ checks' = checks \cup UNION {CommandChecks(p) : p \in pending}
    /\ materialized' = materialized \cup pending
    /\ pending' = {}
    /\ phase' = IF Full THEN "support" ELSE "close"
    /\ UNCHANGED <<request, loaded, prerequisites, twice, job, walking>>

---------------------------------------------------------------------------
(* The producer closure of an entry                                        *)

\* _selected_material_roots: its origins and the sources of its evidence.
Roots ==
    {m \in File : /\ Declares(target, m)
                  /\ \/ Origin(target, m)
                     \/ \E r \in Records : Of(r) = target /\ m \in ToSet(Sources(r))}

\* Deviation: only the input itself is looked for, and not what contains it.
ExplainsExactly(q) == \E p \in Invocations : q < p /\ Ins(p) \cap Outs(q) # {}

\* _outputs_admitted: the output may explain an input of a later command ...
Explains(q) ==
    \E p \in Invocations : q < p /\ \E m \in Ins(p), o \in Outs(q) : Near(o, m)

\* ... or a root, which has no place in the order.
RootWriters(e) == {q \in Commands : At(q) = e /\ \E m \in Roots, o \in Outs(q) : Near(o, m)}

\* _reached_declaration_admitted: the first of an entry that touches a root.
Admitted(q) == Explains(q) \/ (q \in RootWriters(At(q)) /\ q = Min(RootWriters(At(q))))

Reached == {q \in Commands \ materialized : Readable(At(q)) /\ Admitted(q)}

\* _record_data_conflicts looks at the entries that are loaded together, and
\* not at what is recorded.
Reach ==
    LET batch == {At(q) : q \in Reached}
    IN  /\ phase = "close"
        /\ Reached # {}
        /\ loaded' = loaded \cup batch
        /\ checks' = checks \cup ConflictChecks(Indexed(loaded'))
        /\ twice' = twice \cup (Ids(ConflictChecks(Conflicting(batch))) \cap Ids(checks))
        /\ prerequisites' = prerequisites \cup ConflictNeeds(loaded')
        /\ pending' = Reached
        /\ phase' = "discover"
        /\ UNCHANGED <<request, materialized, job, walking>>

Selected == {r \in Records : Full \/ Of(r) = target}

\* _load_output_support
LoadSupport ==
    /\ phase = "support" \/ (phase = "close" /\ Reached = {})
    /\ checks' = checks \cup {Failure(PyrunId(e), FALSE) : e \in {e \in loaded : log.support[e] = "broken"}}
    /\ job' = Begin(Selected)
    /\ phase' = "records"
    /\ UNCHANGED <<request, surfaces, twice, walking>>

---------------------------------------------------------------------------
(* Support of outputs                                                      *)

\* Checks that stand for the support: no access to an input, or no record.
Withheld(p) ==
    {PyrunId(e) : e \in {e \in {At(p)} : log.support[e] = "broken"}} \cup Ids(Away(p))

\* _validate_output_support, for the output that a material belongs to.
Support(p, m) ==
    LET output == IF Home(p) \cap Above[m] = {} THEN m ELSE CHOOSE d \in Home(p) : TRUE
        absent == FirstAbsent(log.commands[p].ins)
    IN  IF Withheld(p) # {} THEN {}
        ELSE IF absent # {}
        THEN {Finding(IF log.state[i] = "away" THEN "unavailable" ELSE "unobserved", i, {}) : i \in absent}
        ELSE {f \in {Finding("unsupported", output, {p})} : log.support[At(p)] = "none"}

\* _check_producer_ready
Ready(index, m, p) ==
    Sharing(index, p) \cup IF Here(m) THEN Support(p, m) ELSE {Finding("gone", m, {p})}

---------------------------------------------------------------------------
(* The walk through producers                                              *)

Record == Min(job.todo)
Source == Head(job.left)

\* _material_provenance_context: what precedes the commands of the entry that
\* consume the material.
Limit(e, m) ==
    LET consumers == {p \in Invocations : At(p) = e /\ m \in Ins(p)}
    IN  IF consumers = {} THEN None ELSE Min(consumers)

Index(limit) == {p \in Invocations : limit # None => p < limit}

Context == Limit(Of(Record), Source)
Key == <<Source, Context>>

Frame(p, materials) == [command |-> p, left |-> materials, found |-> {}, relied |-> {}]
Top == stack[Len(stack)]
Depth == Len(stack) - 1
Visiting == {stack[i].command : i \in DOMAIN stack} \ {None}

\* Deviation: a trace is used at every depth.
TraceKeyOfCommand(p, depth, visiting) == <<Context, p>>

TraceKey(p, depth, visiting) == <<Context, p, depth, visiting>>

\* The walk is through with the first material of the topmost producer.
Through(found, relied) ==
    LET top == Top
    IN  [stack EXCEPT ![Len(stack)] = [top EXCEPT !.left = Tail(@), !.found = @ \cup found,
                                                   !.relied = @ \cup relied]]

\* The next input of the topmost producer, or the evidence itself.
Facing(m) == stack # <<>> /\ Top.left # <<>> /\ m = Head(Top.left)

IsOrigin(m) == Top.command # None /\ Origin(At(Top.command), m)
Suppliers(m) == Producers(Index(Context), m, Top.command)

MeetOrigin ==
    \E m \in File :
        /\ Facing(m) /\ IsOrigin(m)
        /\ stack' = Through(Boundary(Index(Context), m), {})
        /\ UNCHANGED <<request, surfaces, phase, checks, twice, job, traces, results>>

StopShort ==
    \E m \in File :
        /\ Facing(m) /\ ~ IsOrigin(m)
        /\ \/ /\ Depth > MaxDepth
              /\ stack' = Through({Finding("deep", m, {})}, {})
           \/ /\ Depth <= MaxDepth
              /\ Cardinality(Suppliers(m)) # 1
              /\ stack' = Through({NoProducer(Index(Context), m, Top.command)}, {})
        /\ UNCHANGED <<request, surfaces, phase, checks, twice, job, traces, results>>

\* Deviation: the walk has no bound.
MeetingAnyDepth(m, p) == Facing(m) /\ ~ IsOrigin(m) /\ Suppliers(m) = {p}

\* A producer that was walked at this depth with these above it.
Meeting(m, p) ==
    Facing(m) /\ ~ IsOrigin(m) /\ Depth <= MaxDepth /\ Suppliers(m) = {p}

Replay ==
    \E m \in File, p \in Commands :
        LET key == TraceKey(p, Depth, Visiting \cup {p})
        IN  /\ Meeting(m, p)
            /\ key \in DOMAIN traces
            /\ stack' = Through(Ready(Index(Context), m, p) \cup traces[key].found,
                                {p} \cup traces[key].relied)
            /\ UNCHANGED <<request, surfaces, phase, checks, twice, job, traces, results>>

Descend ==
    \E m \in File, p \in Commands :
        /\ Meeting(m, p)
        /\ TraceKey(p, Depth, Visiting \cup {p}) \notin DOMAIN traces
        /\ stack' = Append(Through(Ready(Index(Context), m, p), {p}), Frame(p, log.commands[p].ins))
        /\ UNCHANGED <<request, surfaces, phase, checks, twice, job, traces, results>>

Conclusion(frame) == [found |-> frame.found, relied |-> frame.relied]

Cached(cache, key, value) ==
    [k \in DOMAIN cache \cup {key} |-> IF k = key THEN value ELSE cache[k]]

\* All inputs are followed: the trace is kept and counts for the consumer.
Ascend ==
    LET below == stack[Len(stack) - 1]
    IN  /\ Len(stack) > 1 /\ Top.left = <<>>
        /\ traces' = Cached(traces, TraceKey(Top.command, Depth - 1, Visiting), Conclusion(Top))
        /\ stack' = [Front(stack) EXCEPT ![Len(stack) - 1] =
                        [below EXCEPT !.found = @ \cup Top.found, !.relied = @ \cup Top.relied]]
        /\ UNCHANGED <<request, surfaces, phase, checks, twice, job, results>>

---------------------------------------------------------------------------
(* Records of evidence                                                     *)

Evaluating == phase = "records" /\ job.todo # {} /\ stack = <<>>

RecordBlocked ==
    /\ Evaluating
    /\ ~ Readable(Of(Record))
    /\ checks' = checks \cup {Blocked(id, {DataId(Of(Record))}) :
                                 id \in {EvidenceId(Record), ProvenanceId(Record)}}
    /\ job' = Begin(job.todo \ {Record})
    /\ UNCHANGED <<request, surfaces, phase, twice, walking>>

Counted(found, relied) ==
    [job EXCEPT !.left = Tail(@), !.found = @ \cup found, !.relied = @ \cup relied]

Sourcing == Evaluating /\ Readable(Of(Record)) /\ job.left # <<>>

TakeOrigin ==
    /\ Sourcing
    /\ Origin(Of(Record), Source)
    /\ job' = Counted(Boundary(Invocations, Source), {})
    /\ UNCHANGED <<request, surfaces, phase, checks, twice, walking>>

TakeResult ==
    /\ Sourcing
    /\ ~ Origin(Of(Record), Source)
    /\ Key \in DOMAIN results
    /\ job' = Counted(results[Key].found, results[Key].relied)
    /\ UNCHANGED <<request, surfaces, phase, checks, twice, walking>>

BeginWalk ==
    /\ Sourcing
    /\ ~ Origin(Of(Record), Source)
    /\ Key \notin DOMAIN results
    /\ stack' = <<Frame(None, <<Source>>)>>
    /\ UNCHANGED <<request, surfaces, phase, checks, twice, job, traces, results>>

EndWalk ==
    /\ Len(stack) = 1 /\ Top.left = <<>>
    /\ results' = Cached(results, Key, Conclusion(Top))
    /\ job' = Counted(Top.found, Top.relied)
    /\ stack' = <<>>
    /\ UNCHANGED <<request, surfaces, phase, checks, twice, traces>>

\* Deviation: commands with nothing against them block, too.
BlockersAny(m) ==
    {CommandId(p) : p \in {p \in materialized : \E o \in Outs(p) : o = m \/ o \in Above[m]}}

\* _command_blockers: commands with failed inputs that may have produced it.
Blockers(m) ==
    {CommandId(p) : p \in {p \in materialized : /\ Readable(At(p)) /\ Needs(p) # {}
                                                /\ \E o \in Outs(p) : o = m \/ o \in Above[m]}}

FindingCheck(f) ==
    IF f.code = "missing" /\ Blockers(f.subject) # {}
    THEN Blocked(FindingId(f), Blockers(f.subject))
    ELSE Failure(FindingId(f), f.code = "unavailable")

\* _evaluate_record, _record_provenance
ConcludeRecord ==
    LET e == Of(Record)
        named == {c \in checks : \E m \in ToSet(Sources(Record)) : <<e, m, c.id>> \in prerequisites}
        causes == {FindingId(f) : f \in job.found} \cup UNION {Withheld(p) : p \in job.relied}
        verdict(id, causing, otherwise) ==
            IF causing = {} THEN Check(id, otherwise, {}) ELSE Blocked(id, causing)
    IN  /\ Evaluating /\ Readable(e) /\ job.left = <<>>
        /\ checks' = checks
              \cup {FindingCheck(f) : f \in job.found}
              \cup {verdict(EvidenceId(Record), Ids(named), IF log.records[Record].right THEN "pass" ELSE "finding"),
                    verdict(ProvenanceId(Record), IF causes = {} THEN Ids(named) ELSE causes, "pass")}
        /\ job' = Begin(job.todo \ {Record})
        /\ UNCHANGED <<request, surfaces, phase, twice, walking>>

OutcomeOf(id) == (CHOOSE c \in checks : c.id = id).outcome

\* _evaluate_summary
ConcludeSummary ==
    /\ phase = "records" /\ job.todo = {}
    /\ checks' = checks \cup
          {IF OutcomeOf(id) = "pass" THEN Check(<<"summary", id>>, "pass", {}) ELSE Blocked(<<"summary", id>>, {id}) :
              id \in UNION {{EvidenceId(r), ProvenanceId(r)} : r \in {r \in log.cited : Full}}}
    /\ phase' = "graph"
    /\ UNCHANGED <<request, surfaces, twice, job, walking>>

---------------------------------------------------------------------------
(* The attempt                                                             *)

\* _supported_output_directories asks for the inputs of commands without an
\* execution record.
GraphFails ==
    \E p \in Invocations :
        log.support[At(p)] = "none" /\ Away(p) = {} /\ FirstAbsent(log.commands[p].ins) # {}

\* _root_blockers: the checks that block must be recorded and must not pass.
Unexplained ==
    {c \in checks : c.outcome = "blocked" /\ ~ \E d \in checks : d.id \in c.deps /\ d.outcome # "pass"}

\* An identity that is recorded twice is refused, too.
Refused == twice # {} \/ Unexplained # {}

Verdict == IF GraphFails THEN "raised" ELSE IF Refused THEN "refused" ELSE "built"

Concluded == {c \in checks : \E r \in Records : Of(r) = target /\ c.id \in {EvidenceId(r), ProvenanceId(r)}}

Finish ==
    /\ phase = "graph"
    /\ attempts' = [attempts EXCEPT ![scope] = [verdict |-> Verdict, records |-> Concluded]]
    /\ IF Full THEN scope' = "entry" /\ phase' = "open" ELSE phase' = "over" /\ UNCHANGED scope
    /\ loaded' = {} /\ prerequisites' = {} /\ materialized' = {}
    /\ checks' = {} /\ twice' = {}
    /\ stack' = <<>> /\ traces' = <<>> /\ results' = <<>>
    /\ UNCHANGED <<log, target, pending, job>>

Next ==
    \/ Open \/ Discover \/ Reach \/ LoadSupport
    \/ RecordBlocked \/ TakeOrigin \/ TakeResult \/ BeginWalk \/ EndWalk \/ ConcludeRecord
    \/ MeetOrigin \/ StopShort \/ Replay \/ Descend \/ Ascend
    \/ ConcludeSummary \/ Finish

Spec == Init /\ [][Next]_vars /\ WF_vars(Next)

---------------------------------------------------------------------------
(* Properties                                                              *)

Findings ==
    [code : {"missing", "shared", "producer", "lineage", "origin", "gone", "deep",
             "unavailable", "unobserved", "unsupported"},
     subject : Path, about : SUBSET (Commands \cup {None})]

Frames == [command : Commands \cup {None}, left : Seq(File),
           found : SUBSET Findings, relied : SUBSET Commands]

Conclusions == [found : SUBSET Findings, relied : SUBSET Commands]

\* Phases follow each other, checks have an outcome, and what is cached or
\* under way speaks of commands, records and materials of the log.
TypeOK ==
    /\ log \in Log /\ target \in Entry /\ scope \in {"full", "entry"}
    /\ phase \in {"open", "discover", "close", "support", "records", "graph", "over"}
    /\ loaded \subseteq Entry /\ pending \subseteq Commands /\ materialized \subseteq Commands
    /\ \A c \in checks : c.outcome \in {"pass", "finding", "failed", "blocked"}
    /\ job \in [todo : SUBSET Records, left : Seq(File), found : SUBSET Findings, relied : SUBSET Commands]
    /\ stack \in Seq(Frames) /\ Len(stack) <= MaxDepth + 2
    /\ \A key \in DOMAIN traces : traces[key] \in Conclusions
    /\ \A key \in DOMAIN results : results[key] \in Conclusions

\* A walk that uses what other walks have left concludes what it would by
\* itself: the findings and the producers of every level of inputs above the
\* evidence, and of nothing else (_walk_invocation, _record_provenance).
Sole(index, pair) ==
    LET found == Producers(index, pair[1], pair[2]) IN IF Cardinality(found) = 1 THEN found ELSE {}

Pairs == File \X (Commands \cup {None})

Further(index) ==
    [pair \in Pairs |->
        UNION {{<<i, p>> : i \in {i \in Ins(p) : ~ Origin(At(p), i)}} : p \in Sole(index, pair)}]

Levels(further, start) ==
    LET level[n \in 0..MaxDepth + 1] ==
            IF n = 0 THEN {start} ELSE UNION {further[pair] : pair \in level[n - 1]}
    IN  level

FoundAt(index, pair) ==
    IF Sole(index, pair) = {} THEN {NoProducer(index, pair[1], pair[2])}
    ELSE UNION {Ready(index, pair[1], p)
                \cup UNION {Boundary(index, i) : i \in {i \in Ins(p) : Origin(At(p), i)}} :
                    p \in Sole(index, pair)}

WalksExact ==
    phase = "graph" =>
        \A key \in DOMAIN results :
            LET index == Index(key[2])
                level == Levels(Further(index), <<key[1], None>>)
                faced == UNION {level[n] : n \in 0..MaxDepth}
            IN  /\ results[key].found =
                       {Finding("deep", pair[1], {}) : pair \in level[MaxDepth + 1]}
                       \cup UNION {FoundAt(index, pair) : pair \in faced}
                /\ results[key].relied = UNION {Sole(index, pair) : pair \in faced}

\* What is blocked has a recorded cause that does not pass, and the whole log
\* can always be concluded: no evaluation of it raises or is refused
\* (ValidationAttempt.build, _root_blockers).
AttemptsBuild ==
    /\ phase = "graph" => Unexplained = {}
    /\ phase = "graph" /\ Full => Verdict = "built"

\* That an input has no producer is a finding of its own only when no earlier
\* command writes it.  One that cannot be admitted blocks the finding
\* (_command_blockers).
NoProducerOverlooked ==
    phase = "graph" /\ Full =>
        \A p, q \in Commands :
            \A m \in Outs(p) :
                p < q /\ Readable(At(p)) =>
                    Failure(FindingId(Finding("missing", m, {q})), FALSE) \notin checks

\* Whatever fails, surfaces, commands, support or lineage, each check names
\* what is the matter and the attempt can be built.
FailuresExplained == AttemptsBuild /\ NoProducerOverlooked

\* Both evaluations come to an end, the closure and the walks with them, and
\* the entry by itself is concluded as the whole log concludes it, when the
\* other entries have one command at most that touches its roots, agree on
\* their declarations, have the inputs of what was not recorded, and neither
\* produce their origins later nor share a directory.
RootsOnce == \A e \in Entry \ {target} : Cardinality(RootWriters(e)) <= 1
OthersAgree == Conflicting(Entry \ {target}) = {}
Outside == {p \in Commands : At(p) # target}
InputsHeld ==
    \A p \in Outside : log.support[At(p)] = "none" => \A i \in Ins(p) : Here(i)
OriginsFirst ==
    \A p \in Outside : \A i \in Ins(p) :
        Origin(At(p), i) => Writers({q \in Commands : q >= p}, i) = {}
DirectoriesOwned ==
    \A p, q \in Commands : p # q /\ {p, q} \cap Outside # {} => Apart(Home(p), Outs(q))

Plain == RootsOnce /\ OthersAgree /\ InputsHeld /\ OriginsFirst /\ DirectoriesOwned

Outcomes(s) == {<<c.id, c.outcome>> : c \in attempts[s].records}

Agreement ==
    /\ attempts["entry"].verdict = "built"
    /\ Outcomes("entry") = Outcomes("full")
    /\ (\A p \in Commands : \A i \in Ins(p) : Here(i)) =>
           attempts["entry"].records = attempts["full"].records

EntryAgrees == <>(phase = "over" /\ (Plain => Agreement))

=============================================================================
