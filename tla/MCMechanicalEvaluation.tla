----------------------- MODULE MCMechanicalEvaluation -----------------------
(***************************************************************************)
(* Logs of three entries over the files a, b and d/x: every choice of      *)
(* three commands, faults of a few logs, and origins of the same logs.     *)
(***************************************************************************)
EXTENDS MechanicalEvaluation

AboveDef == [p \in Path |-> IF p = "x" THEN {"d"} ELSE {}]

Cmd(e, ins, outs) == [at |-> e, ins |-> ins, outs |-> outs]
Cited(e, sources) == [at |-> e, sources |-> sources, right |-> e # 1]

Base ==
    [declared |-> [e \in Entry |-> <<"a", "b", "x">>],
     origin |-> [e \in Entry |-> {}],
     broken |-> {},
     commands |-> <<>>,
     records |-> <<Cited(1, <<"b">>), Cited(2, <<"x", "b">>), Cited(3, <<"a">>)>>,
     cited |-> {1, 3},
     state |-> [p \in Path |-> "here"],
     support |-> [e \in Entry |-> "none"]]

SomeCommand(e) ==
    [at : {e}, ins : {<<>>, <<"a">>, <<"x", "b">>}, outs : {{"a"}, {"b"}, {"x"}, {"d"}}]

Structures ==
    {[Base EXCEPT !.commands = <<c1, c2, c3>>] :
        c1 \in SomeCommand(1), c2 \in SomeCommand(1), c3 \in SomeCommand(2)}

Samples ==
    {<<Cmd(1, <<"b">>, {"a"}), Cmd(2, <<"a">>, {"d"})>>,
     <<Cmd(1, <<"a", "b">>, {"d"}), Cmd(2, <<"x">>, {"a"})>>,
     <<Cmd(1, <<"x">>, {"a"}), Cmd(2, <<"b">>, {"d"})>>,
     <<Cmd(1, <<>>, {"a", "b"}), Cmd(2, <<"a", "b">>, {"x"})>>,
     <<Cmd(1, <<>>, {"a"}), Cmd(1, <<"a">>, {"b"}), Cmd(2, <<"b", "a">>, {"x"})>>}

Faulty ==
    {[Base EXCEPT !.commands = c, !.state = ("d" :> "here") @@ s, !.support[1] = u[1], !.support[2] = u[2],
                  !.broken = k] :
        c \in Samples, s \in [{"a", "b", "x"} -> {"here", "gone", "away"}],
        u \in [{1, 2} -> {"current", "none", "broken"}], k \in {{}, {1}}}

\* Only the first entry knows of x.
Narrow ==
    [Base EXCEPT !.declared = [e \in Entry |-> IF e = 1 THEN <<"a", "b", "x">> ELSE <<"a", "b">>],
                 !.records = <<Cited(1, <<"b">>), Cited(2, <<"b">>), Cited(3, <<"a">>)>>]

Bounded ==
    {[L EXCEPT !.commands = c, !.origin = o, !.support[2] = "current"] :
        L \in {Base, Narrow}, c \in Samples, o \in [Entry -> {{}, {"a"}, {"b"}, {"x"}}]}

LogsDef == {L \in Structures \cup Faulty \cup Bounded : WellFormed(L)}

=============================================================================
