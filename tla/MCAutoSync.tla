---------------------------- MODULE MCAutoSync ----------------------------
(***************************************************************************)
(* Instances of AutoSync for TLC: the hooks and the service share codex,   *)
(* OpenCode's database belongs to the service alone.                       *)
(***************************************************************************)
EXTENDS AutoSync, TLC

Codex == <<<<"codex">>>>
CodexAndOpenCode == <<"codex", "opencode">>
=============================================================================
