----------------------------- MODULE MCSdpClient ----------------------------
(* SdpClient has no model values: its bounds are in the configuration.      *)
EXTENDS SdpClient
=============================================================================
