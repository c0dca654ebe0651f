---------------------------- MODULE MCClaudeAgent ----------------------------
(***************************************************************************)
(* ClaudeAgent for TLC: a process that clears its session (1 becomes 2)    *)
(* while a tool call with a permission request is under way, and a session *)
(* without a process.                                                      *)
(***************************************************************************)
EXTENDS ClaudeAgent

CONSTANTS claude, bash, form

Of(hook, session, tool, prompt, pid) ==
  [hook |-> hook, session |-> session, tool |-> tool, prompt |-> prompt, pid |-> pid]

MCEvents == {
  Of("PreToolUse", 1, bash, None, claude),
  Of("PermissionRequest", 1, bash, None, claude),
  Of("PostToolUse", 1, bash, None, None),
  Of("Elicitation", 2, None, form, claude),
  Of("SessionEnd", 2, None, None, claude)}
=============================================================================
