----------------------------- MODULE MCAclLink ------------------------------
(* AclLink for TLC.                                                        *)
EXTENDS AclLink
=============================================================================
