-------------------------- MODULE MCReproductionRun --------------------------
(* Small instances of ReproductionRun for TLC. *)
EXTENDS ReproductionRun

CONSTANTS r1, r2, a, b, c

RunOfTwo == [e \in Execution |-> IF e = a THEN r1 ELSE r2]
RunOfOne == [e \in Execution |-> r1]

\* Every execution writes paths of its own; b reads the ones a writes.
OwnPaths == [e \in Execution |-> {e}]
ReadsOfA == [e \in Execution |-> IF e = b THEN {a} ELSE {}]

PoolOfTwo == [r \in Run |-> 2]
=============================================================================
