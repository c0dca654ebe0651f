---------------------------- MODULE MCUiControl ----------------------------
(***************************************************************************)
(* UiControl for TLC: tasks compete for a queue shorter than the number of *)
(* requests in flight, and the ids wrap within a behaviour.                *)
(***************************************************************************)
EXTENDS UiControl

\* ESP_OK and ESP_FAIL, which loses its sign in the packed notification.
MCResults == {0, -1}
=============================================================================
