--------------------------- MODULE MCRemoteImport ---------------------------
(***************************************************************************)
(* Instances of RemoteImport for TLC: four sources, of which the first one *)
(* fails every time and the last one as soon as it has its second file; or *)
(* one tree on two hosts.                                                  *)
(***************************************************************************)
EXTENDS RemoteImport, TLC

FourSources == <<"whole", "codex_tree", "whole", "claude_tree">>
SixFiles == <<{1}, {2, 3}, {4}, {5, 6}>>
SixLengths == <<1, 2, 1, 1, 1, 1>>

OneTree == <<"codex_tree">>
OneFile == <<{1}>>
OneLength == <<1>>

\* The instances of which the README tells.
ClaudeThenWhole == <<"claude_tree", "whole">>
TwoFiles == <<{1}, {2}>>
TwoLengths == <<1, 1>>

\* Every host has its own paths, or all hosts have the same ones.
OwnPaths == [h \in Hosts |-> [s \in Sources |-> <<h, s>>]]
SamePaths == [h \in Hosts |-> [s \in Sources |-> <<"path", s>>]]
=============================================================================
