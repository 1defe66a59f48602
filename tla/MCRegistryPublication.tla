----------------------- MODULE MCRegistryPublication -----------------------
\* Two entries. Files 1 and 2 are data.json and evidence.json of entry 1, file 3
\* is data.json of entry 2. Entry 1 declares n, and record k uses it; entry 2
\* declares m. n2, k2, r2 are what a rename of n makes of n, k, r; r is the
\* reference of entry 2 to n, q the reference of entry 1 to m.
EXTENDS RegistryPublication, TLC

Authorities == {"v", "w"}
Files == 1..3
Entries == 1..2
EntriesOf == <<1, 1, 2>>

FilesOf ==
    "n" :> 1 @@ "n2" :> 1 @@ "q" :> 1 @@ "k" :> 2 @@ "k2" :> 2
        @@ "m" :> 3 @@ "r" :> 3 @@ "r2" :> 3
Slots == DOMAIN FilesOf
Uses ==
    "k" :> "n" @@ "r" :> "n" @@ "k2" :> "n2" @@ "r2" :> "n2" @@ "q" :> "m"
        @@ "n" :> None @@ "n2" :> None @@ "m" :> None

Declared == [authority |-> "v", policy |-> "exact"]
Start ==
    "n" :> Declared @@ "k" :> Declared @@ "m" :> Declared
        @@ "n2" :> Absent @@ "k2" :> Absent @@ "q" :> Absent @@ "r" :> Absent @@ "r2" :> Absent

Nothing == [s \in {} |-> None]
Base == [kind |-> "sync", reads |-> {1}, locks |-> {1}, marks |-> {1}, sets |-> Nothing,
         moves |-> Nothing, policy |-> Nothing, uses |-> {}]

Ops ==
    \* evidence or command sync --add-from-entry
    "adopt" :> [Base EXCEPT !.reads = {2}, !.locks = {1, 2}, !.marks = {2},
                            !.sets = "r" :> "v", !.uses = {"n"}]
    \* the same from entry 1, with a change of target
    @@ "cross" :> [Base EXCEPT !.locks = {1, 2}, !.uses = {"m"},
                               !.sets = "q" :> "w" @@ "n" :> "w" @@ "k" :> "w"]
    \* log data rename
    @@ "rename" :> [Base EXCEPT !.kind = "data", !.marks = {1, 2},
                                !.moves = "n2" :> "n" @@ "k2" :> "k" @@ "r2" :> "r"]
    \* log data update --reproduction-comparison
    @@ "policy" :> [Base EXCEPT !.kind = "data", !.policy = "n" :> "evidence"]
    \* relocate-log, which rewrites the locators of the declarations
    @@ "relocate" :> [Base EXCEPT !.kind = "relocate", !.locks = {1, 2}, !.marks = {WholeLog},
                                  !.sets = "n" :> "w" @@ "m" :> "w"]
    \* pyrun
    @@ "run" :> [Base EXCEPT !.kind = "run", !.marks = {}, !.sets = "k" :> "w", !.uses = {"n"}]
=============================================================================
