------------------------ MODULE MCSnapshotProjection ------------------------
(***************************************************************************)
(* Instance of SnapshotProjection for TLC: a Mac that has "b", which is in *)
(* the snapshot, too, and "p", which was written after the snapshot was    *)
(* made, with a UUID that sorts between those of the snapshot; "n" is only *)
(* in the snapshot.                                                        *)
(***************************************************************************)
EXTENDS SnapshotProjection, TLC

MCId == "n" :> 1 @@ "p" :> 2 @@ "b" :> 3
MCKey == "n" :> "null" @@ "p" :> "null" @@ "b" :> "k1"
MCSession == "n" :> "s2" @@ "p" :> "s2" @@ "b" :> "s1"
MCVisibility == "n" :> "local_only" @@ "p" :> "local_only" @@ "b" :> "sync_full"
MCOrigin == "mac1" :> {"b", "p"}
=============================================================================
