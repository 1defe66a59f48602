---------------------------- MODULE RegistryOps ----------------------------
(***************************************************************************)
(* What authoring commands change in the registries of a research log.     *)
(*                                                                         *)
(* A slot is one thing a registry can hold: a declaration of data.json, a  *)
(* record of evidence.json, the executions of one command in pyrun.json.   *)
(* Its value is an authority (what it declares or records; None when it is *)
(* absent) and a comparison policy, which data declarations carry besides  *)
(* and which is no part of their authority.                                *)
(***************************************************************************)
EXTENDS Naturals

CONSTANTS
    Command,    \* invocations of authoring commands and of pyrun
    Slot,
    File,       \* registry files, numbered in the order of their paths
    Entry,      \* entries, numbered in the order of their ids
    FileOf,     \* [Slot -> File]
    EntryOf,    \* [File -> Entry]
    Requires,   \* [Slot -> Slot \cup {None}]: the declaration a slot uses
    Authority,
    None,
    Op          \* what each command does, see IsOperation

\* The marker REORGANIZE_RESIDUE stands for the whole log, the others for one
\* entry.
WholeLog == 0
Marker == Entry \cup {WholeLog}

Policy == {"exact", "evidence"}
Value == [authority : Authority \cup {None}, policy : Policy]
Absent == [authority |-> None, policy |-> "exact"]
Registry == [Slot -> Value]

\* A command of kind sync prepares outside the locks and merges when it
\* publishes; run is the publication of an execution by pyrun; data stands for
\* the commands on data and retention, which work under the exclusive log lock,
\* reorganize for transfer, reorder and update-entry, relocate for relocate-log.
\*
\*   reads   entries locked while the registries are read for preparation
\*   locks   entries locked for the publication
\*   marks   markers created before the first file is replaced
\*   sets    new authority of the slots the command defines or deletes
\*   moves   slot -> slot it is renamed from
\*   policy  slot -> new comparison policy
\*   uses    slots whose authority the command relies on
IsOperation(o) ==
    /\ o.kind \in {"sync", "run", "data", "reorganize", "relocate"}
    /\ o.reads \subseteq Entry
    /\ o.locks \subseteq Entry
    /\ o.marks \subseteq Marker
    /\ DOMAIN o.sets \subseteq Slot
    /\ \A s \in DOMAIN o.sets : o.sets[s] \in Authority \cup {None}
    /\ DOMAIN o.moves \subseteq Slot
    /\ \A s \in DOMAIN o.moves : o.moves[s] \in Slot
    /\ DOMAIN o.policy \subseteq Slot
    /\ \A s \in DOMAIN o.policy : o.policy[s] \in Policy
    /\ o.uses \subseteq Slot

Owns(c) ==
    DOMAIN Op[c].sets \cup DOMAIN Op[c].policy
        \cup {s \in Slot : \E t \in DOMAIN Op[c].moves : s \in {t, Op[c].moves[t]}}

\* Every command but pyrun, whose publication is one file, marks what it writes.
Marked(c) ==
    \A s \in Owns(c) : EntryOf[FileOf[s]] \in Op[c].marks \/ WholeLog \in Op[c].marks

ASSUME RegistryAssumption ==
    /\ File \subseteq Nat
    /\ Entry \subseteq Nat \ {WholeLog}
    /\ FileOf \in [Slot -> File]
    /\ EntryOf \in [File -> Entry]
    /\ Requires \in [Slot -> Slot \cup {None}]
    /\ None \notin Authority \cup Slot \cup Command
    /\ \A c \in Command : IsOperation(Op[c])
    /\ \A c \in Command : Op[c].kind = "run" =>
        /\ Op[c].marks = {}
        /\ \A s, t \in Owns(c) : FileOf[s] = FileOf[t]
    /\ \A c \in Command : Op[c].kind # "run" => Marked(c)

\* What works under the shared log lock replaces files of entries it locks, and
\* neither renames nor marks the log as a whole.
ASSUME SharedAssumption ==
    \A c \in Command : Op[c].kind \in {"sync", "run"} =>
        /\ DOMAIN Op[c].moves = {} /\ DOMAIN Op[c].policy = {}
        /\ WholeLog \notin Op[c].marks
        /\ \A s \in Owns(c) : EntryOf[FileOf[s]] \in Op[c].locks

Present(registry, s) == registry[s].authority # None

\* Deviation: a new declaration is written over its comparison policy.
ApplyToPolicy(c, registry) ==
    [s \in Slot |->
        IF s \in DOMAIN Op[c].sets /\ Op[c].sets[s] # None
        THEN [registry[s] EXCEPT !.policy = Op[c].sets[s]]
        ELSE registry[s]]

\* The registry a command makes of the one it finds: a deleted slot loses its
\* policy, a defined one keeps the policy it finds, a renamed one takes the
\* whole value along.
Apply(c, registry) ==
    [s \in Slot |->
        IF s \in DOMAIN Op[c].moves THEN registry[Op[c].moves[s]]
        ELSE IF \E t \in DOMAIN Op[c].moves : Op[c].moves[t] = s THEN Absent
        ELSE IF s \in DOMAIN Op[c].sets
             THEN IF Op[c].sets[s] = None THEN Absent
                  ELSE [registry[s] EXCEPT !.authority = Op[c].sets[s]]
        ELSE IF s \in DOMAIN Op[c].policy
             THEN [registry[s] EXCEPT !.policy = Op[c].policy[s]]
        ELSE registry[s]]

\* Nothing that the command's deletions and renames take away is still used.
NothingLost(c, registry) ==
    LET after == Apply(c, registry) IN
    \A s \in Slot :
        /\ Requires[s] \in Owns(c)
        /\ Present(after, s)
        => Present(after, Requires[s])

Resolved(registry) ==
    \A s \in Slot :
        Requires[s] # None /\ Present(registry, s) => Present(registry, Requires[s])
=============================================================================
