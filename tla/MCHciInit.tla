----------------------------- MODULE MCHciInit ------------------------------
(* HciInit for TLC.  The applications are interchangeable, but liveness is *)
(* checked in the same run, so no symmetry is declared.                    *)
EXTENDS HciInit
=============================================================================
