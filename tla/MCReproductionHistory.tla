----------------------- MODULE MCReproductionHistory -----------------------
\* Command b of entry 2 reads the output of command a of entry 1.
EXTENDS ReproductionHistory, TLC

Commands == {"a", "b"}
Entries == 1..2
EntriesOf == [c \in Commands |-> IF c = "a" THEN 1 ELSE 2]
Reads == [c \in Commands |-> IF c = "b" THEN {"a"} ELSE {}]

Ask(entries, recheck) == [entries |-> entries, all |-> FALSE, recheck |-> recheck]

Targets == {Ask(Entries, FALSE), Ask({2}, TRUE)}

\* Versions and contents are interchangeable.
Alike == Permutations(Version) \cup Permutations(Content)
=============================================================================
