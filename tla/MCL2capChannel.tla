--------------------------- MODULE MCL2capChannel ---------------------------
(* L2capChannel with a default MTU and another one.                        *)
EXTENDS L2capChannel
CONSTANTS default, large
MCMtus == {default, large}
MCDefault == default
Once == [e \in Ends |-> 1]
TwiceOfOneEnd == [e \in Ends |-> IF e = "outgoing" THEN 2 ELSE 1]
OneClose == [e \in Ends |-> 1]
=============================================================================
