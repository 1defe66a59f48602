---------------------------- MODULE ResearchLog ----------------------------
(***************************************************************************)
(* A research log as its validation reads it: the registries of its        *)
(* entries (research_log_data.py), their commands in the order of the      *)
(* summary (validation/commands.py), the records of evidence, and the      *)
(* index of producers over the commands (validation/provenance.py).        *)
(*                                                                         *)
(* An entry has one document.  Declared inputs are files, and a directory  *)
(* always has some other file in it.  Commands that cannot be parsed are   *)
(* left out.                                                               *)
(***************************************************************************)
EXTENDS Naturals, FiniteSets, Sequences, SequencesExt, FiniteSetsExt, TLC

CONSTANTS
    Entry,      \* entries, numbered in the order of the summary
    Path,       \* files and directories of the project
    Directory,
    Above,      \* Above[p]: the directories that p is in
    Logs,       \* logs to evaluate
    None

File == Path \ Directory

Log ==
    [declared : [Entry -> Seq(File)],                \* inputs of data.json, in order
     origin : [Entry -> SUBSET File],                \* those declared as origins
     broken : SUBSET Entry,                          \* data.json cannot be read
     commands : Seq([at : Entry, ins : Seq(File), outs : SUBSET Path]),
     records : Seq([at : Entry, sources : Seq(File), right : BOOLEAN]),
     cited : SUBSET Nat,                             \* records the summary refers to
     state : [Path -> {"here", "gone", "away"}],     \* away: on a volume that is not mounted
     support : [Entry -> {"current", "none", "broken"}]]  \* the execution record

\* _declaration_reaches: the same path, or one in the other.
Near(m, n) == m = n \/ m \in Above[n] \/ n \in Above[m]

Apart(some, others) == \A m \in some, n \in others : ~ Near(m, n)

\* Commands are numbered as their documents are and name what their entry
\* declares.  An execution record has one owner for an output.
WellFormed(L) ==
    /\ \A e \in Entry : L.origin[e] \subseteq ToSet(L.declared[e])
    /\ \A p \in DOMAIN L.commands :
          LET command == L.commands[p]
          IN  /\ ToSet(command.ins) \subseteq ToSet(L.declared[command.at])
              /\ command.outs \cap File \subseteq ToSet(L.declared[command.at]) \ L.origin[command.at]
              /\ \A o \in command.outs : Apart({o}, ToSet(command.ins) \cup (command.outs \ {o}))
              /\ Cardinality(command.outs \cap Directory) <= 1
              /\ \A q \in 1..(p - 1) :
                    /\ L.commands[q].at <= command.at
                    /\ L.commands[q].at = command.at /\ L.support[command.at] = "current"
                          => Apart(L.commands[q].outs, command.outs)
    /\ \A r \in DOMAIN L.records :
          ToSet(L.records[r].sources) \subseteq ToSet(L.declared[L.records[r].at])
    /\ L.cited \subseteq DOMAIN L.records
    /\ \A d \in Directory : L.state[d] = "here"

ASSUME LogAssumption ==
    /\ Entry \subseteq Nat
    /\ Directory \subseteq Path
    /\ Above \in [Path -> SUBSET Directory]
    /\ \A p, q \in Path : q \in Above[p] => Above[q] \subseteq Above[p] \ {q}
    /\ None \notin Path \cup Nat
    /\ \A L \in Logs : L \in Log /\ WellFormed(L)

VARIABLE log

---------------------------------------------------------------------------
(* Registries and commands                                                 *)

Commands == DOMAIN log.commands
Records == DOMAIN log.records
At(p) == log.commands[p].at
Ins(p) == ToSet(log.commands[p].ins)
Outs(p) == log.commands[p].outs
Home(p) == Outs(p) \cap Directory   \* the directory it writes, if any

Readable(e) == e \notin log.broken
Here(m) == log.state[m] = "here"
Declares(e, m) == Readable(e) /\ m \in ToSet(log.declared[e])
Origin(e, m) == m \in log.origin[e]

\* The first that cannot be observed, where the code stops.
FirstAbsent(materials) ==
    {materials[i] : i \in {i \in DOMAIN materials :
        ~ Here(materials[i]) /\ \A j \in 1..(i - 1) : Here(materials[j])}}

\* find_log_consistency_conflicts: files that some entries declare differently.
Conflicting(entries) ==
    {m \in File : \E e, f \in entries : Declares(e, m) /\ Declares(f, m)
                                        /\ Origin(e, m) # Origin(f, m)}

---------------------------------------------------------------------------
(* The index of producers                                                  *)

\* A directory stands for the files that are in it.
Scalars(p) == {f \in File : f \in Outs(p) \/ (Here(f) /\ Above[f] \cap Outs(p) # {})}

Writers(index, m) == {p \in index : m \in Scalars(p)}

\* ProducerIndex.lookup: producers of a directory that a file is in.
Owners(index, m) == {p \in index : Home(p) \cap Above[m] # {}}

\* _starting_producer of evidence, _unique_producer of an input.
Producers(index, m, consumer) ==
    IF consumer = None
    THEN IF Writers(index, m) = {} THEN Owners(index, m) ELSE Writers(index, m)
    ELSE {p \in Writers(index, m) : p < consumer}

Finding(code, subject, about) == [code |-> code, subject |-> subject, about |-> about]

\* What is found where there is not exactly one producer.
NoProducer(index, m, consumer) ==
    LET found == Producers(index, m, consumer)
        sharers == {p \in found \cap Writers(index, m) : Home(p) \cap Above[m] # {}}
    IN  IF found = {} THEN Finding("missing", m, {consumer})
        ELSE IF sharers # {} THEN Finding("shared", CHOOSE d \in Home(Min(sharers)) : TRUE, found)
        ELSE Finding(IF consumer = None THEN "producer" ELSE "lineage", m, found)

\* _validate_output_directories: others that write to the directory of p.
Sharing(index, p) ==
    LET sharers(d) == {q \in index \ {p} : ~ Apart({d}, Scalars(q) \cup Home(q))}
    IN  {Finding("shared", d, {p} \cup sharers(d)) : d \in {d \in Home(p) : sharers(d) # {}}}

\* require_origin_boundary: an origin that the log is recorded to have produced.
Boundary(index, m) ==
    LET confirmed == {p \in Writers(index, m) : log.support[At(p)] = "current"}
    IN  IF confirmed = {} THEN {}
        ELSE {Finding(IF Cardinality(confirmed) = 1 THEN "origin" ELSE "lineage", m, confirmed)}

=============================================================================
