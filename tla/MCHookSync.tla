---------------------------- MODULE MCHookSync ----------------------------
(***************************************************************************)
(* Instances of HookSync for TLC: claude with its two directories, codex   *)
(* with one.                                                               *)
(***************************************************************************)
EXTENDS HookSync, TLC

TwoSources == <<<<"claude", "claude_alt">>, <<"codex">>>>
=============================================================================
