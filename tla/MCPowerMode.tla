---------------------------- MODULE MCPowerMode ----------------------------
(* PowerMode for TLC. *)
EXTENDS PowerMode
=============================================================================
