----------------------------- MODULE MCAclQueue -----------------------------
(* AclQueue for TLC.  The handles are interchangeable, but liveness is      *)
(* checked in the same run, so no symmetry is declared.                    *)
EXTENDS AclQueue
CONSTANTS h1, h2
TwoHandles == {h1, h2}
AnyDeparture == {"link down", "failed", "freed"}
=============================================================================
