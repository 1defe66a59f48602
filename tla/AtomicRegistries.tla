-------------------------- MODULE AtomicRegistries --------------------------
(***************************************************************************)
(* What the publication of registries promises: the changes of a command   *)
(* appear all at once, and an entry that cannot keep that promise is       *)
(* damaged, which stops every later change of it until a person repairs it.*)
(***************************************************************************)
EXTENDS RegistryOps

VARIABLES registry, damaged

Init ==
    /\ registry \in Registry
    /\ damaged = {}

Untouched(c) ==
    damaged \cap ({EntryOf[FileOf[s]] : s \in Owns(c)} \cup {WholeLog}) = {}

Commit(c) ==
    /\ Untouched(c)
    /\ registry' = Apply(c, registry)
    /\ UNCHANGED damaged

Damage(c) ==
    /\ \E M \in SUBSET Op[c].marks : damaged' = damaged \cup M
    /\ UNCHANGED registry

Next == \E c \in Command : Commit(c) \/ Damage(c)

Spec == Init /\ [][Next]_<<registry, damaged>>
=============================================================================
