---------------------------- MODULE MCRunManager ----------------------------
(* Instances of RunManager for TLC.                                        *)
EXTENDS RunManager, TLC

CONSTANTS alice, bob, d1, d2

OneCaller  == [d \in Requests |-> alice]
TwoCallers == (d1 :> alice) @@ (d2 :> bob)

Call     == [awaits |-> <<"thread">>, cleanup |-> FALSE]        \* arco.stac-item
Validate == [awaits |-> <<"io", "thread">>, cleanup |-> TRUE]   \* stac.validate
Ops      == {Call, Validate}
Calls    == {Call}

=============================================================================
