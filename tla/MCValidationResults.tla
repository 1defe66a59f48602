------------------------ MODULE MCValidationResults ------------------------
EXTENDS ValidationResults, TLC

CONSTANTS a, b

Do(kind, entry, reads, reuse) == [kind |-> kind, entry |-> entry, reads |-> reads, reuse |-> reuse]

Ops ==
    ("first" :> Do("full", None, {0, 1, 2, 5}, TRUE))
    @@ ("second" :> Do("full", None, {0, 1}, TRUE))
    @@ ("scoped" :> Do("entry", "e1", {1, 5}, TRUE))
    @@ ("launch" :> Do("launch", None, {1}, FALSE))
    @@ ("dry" :> Do("dry", None, {1}, TRUE))
    @@ ("render" :> Do("render", None, {}, FALSE))

Operations == [t \in Task |-> Ops[t]]

Symmetry == Permutations(Content)

=============================================================================
