--------------------------- MODULE ArtifactAccess ---------------------------
(***************************************************************************)
(* What the reservations of ordinary commands and the permits of           *)
(* reproduction runs both promise, with neither in sight: a research       *)
(* command that is using its declared artifacts excludes every command     *)
(* that clashes with it.                                                   *)
(***************************************************************************)
CONSTANTS
    Invocation,     \* the commands that may run
    Clash(_, _)     \* Clash(i, j): i and j may not be in use together

VARIABLE using      \* the invocations whose command is using its artifacts

AccessTypeOK == using \subseteq Invocation

Init == using = {}

(***************************************************************************)
(* An invocation may start using its artifacts when nobody who clashes     *)
(* with it is using theirs.                                                *)
(***************************************************************************)
Acquire(i) ==
    /\ i \notin using
    /\ \A j \in using : ~Clash(i, j)
    /\ using' = using \cup {i}

(***************************************************************************)
(* One invocation stops at a time; nobody is evicted to admit another.     *)
(***************************************************************************)
Relinquish(i) ==
    /\ i \in using
    /\ using' = using \ {i}

Next == \E i \in Invocation : Acquire(i) \/ Relinquish(i)

Spec == Init /\ [][Next]_using

\* Two invocations using their artifacts at the same time never clash.
Exclusion == \A i, j \in using : i # j => ~Clash(i, j)
=============================================================================
