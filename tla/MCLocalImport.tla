---------------------------- MODULE MCLocalImport ----------------------------
(***************************************************************************)
(* An instance of LocalImport for TLC: two processes and two files, of     *)
(* which the first may grow and is rewritten, and then may keep the second *)
(* from being imported.                                                    *)
(***************************************************************************)
EXTENDS LocalImport

Header == {1}
TwoEach == [f \in Files |-> 2]
ThreeAndTwo == [f \in Files |-> IF f = 1 THEN 3 ELSE 2]
FirstReplaced == [f \in Files |-> IF f = 1 THEN 2 ELSE 1]
=============================================================================
