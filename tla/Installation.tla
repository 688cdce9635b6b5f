---------------------------- MODULE Installation ----------------------------
(***************************************************************************)
(* What an upgrade of ctx promises: the binary, its install marker and its *)
(* ONNX Runtime change together, in one step, and never to an older        *)
(* release.  Whatever is interrupted in between is not visible: it is      *)
(* either undone or it had already happened.  This holds until the         *)
(* installation is damaged, which it does not recover from.                *)
(***************************************************************************)
EXTENDS Naturals

CONSTANTS
  Artifacts,   \* the paths that make up an installation
  Binary,      \* the one of them whose release counts
  Releases     \* releases, oldest first; 0 stands for a missing path

VARIABLES
  installed,   \* installed[a]: the release that artifact a is from
  damaged      \* nothing is promised any more

Init ==
  /\ installed \in [Artifacts -> Releases \cup {0}]
  /\ installed[Binary] # 0
  /\ damaged = FALSE

Upgrade ==
  /\ \E r \in Releases :
       /\ r >= installed[Binary]
       /\ installed' = [a \in Artifacts |-> r]
  /\ ~damaged'

Damage == damaged' = TRUE

Spec == Init /\ [][Upgrade \/ Damage]_<<installed, damaged>>
=============================================================================
