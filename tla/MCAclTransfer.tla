--------------------------- MODULE MCAclTransfer ---------------------------
(* AclTransfer for TLC: one channel besides the signalling one.            *)
EXTENDS AclTransfer, TLC
Data == 64   \* the first dynamic channel id
SmallMtu == SIGNALLING :> 3 @@ Data :> 5
=============================================================================
