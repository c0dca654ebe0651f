---------------------------- MODULE MCAppManager ----------------------------
(***************************************************************************)
(* AppManager for TLC: one requester, as in the firmware, where only the   *)
(* device link reader calls app_manager_request_*().                       *)
(***************************************************************************)
EXTENDS AppManager
=============================================================================
