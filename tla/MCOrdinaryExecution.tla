------------------------ MODULE MCOrdinaryExecution ------------------------
(* Small instances of OrdinaryExecution for TLC. *)
EXTENDS OrdinaryExecution, TLC

Raw     == <<"e1", "raw">>
Fit     == <<"e1", "fit">>

Fitting == [key |-> "fit#1", cid |-> "fit", entry |-> <<"e1">>,
            reads |-> {Raw}, writes |-> {Fit}]

\* Two runs of one recipe.
RerunPlan == [i \in Invocation |-> Fitting]

RerunPath == {Raw, Fit}
RerunKey == {"fit#1"}
RerunCid == {"fit"}

\* A relocation of the input, and of the whole entry.
MCAuthoringWrites == {{Raw}, {<<"e1">>}}
MCEditable == {Raw}
=============================================================================
