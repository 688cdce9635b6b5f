--------------------------- MODULE MCSemanticIndex ---------------------------
(***************************************************************************)
(* Instances of SemanticIndex for TLC: five documents, of which the third  *)
(* may be imported later than the others and the second is a long turn     *)
(* that takes two embeddings and ends after the third.  In MCOldReply the  *)
(* oldest message has a reply, too.                                        *)
(***************************************************************************)
EXTENDS SemanticIndex, TLC

MCDocs == {1, 3, 5, 7, 9}
MCInitial == {1, 3, 7, 9}
MCReply == 3 :> 6 @@ [d \in MCDocs |-> d]
MCOldReply == 1 :> 2 @@ MCReply
MCPosition == 1 :> 1 @@ 3 :> 1 @@ 5 :> 3 @@ 7 :> 2 @@ 9 :> 4
MCChunks == 3 :> 2 @@ [d \in MCDocs |-> 1]
=============================================================================
