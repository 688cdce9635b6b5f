---------------------------- MODULE MCTursoPush ----------------------------
(***************************************************************************)
(* Instance of TursoPush for TLC: two Macs and a handful of events.        *)
(*                                                                         *)
(*   "a", "b"  the same provider event read from two source paths, so with *)
(*             two UUIDs and one canonical key; mac1 has both paths        *)
(*   "r"       an event whose session has no provider id: a raw key        *)
(*   "w"       a withheld event                                            *)
(***************************************************************************)
EXTENDS TursoPush, TLC

\* Copies inside one store and across Macs, a raw key and a withheld event.
StoreEvents == {"a", "b", "r", "w"}
StoreId == "a" :> 1 @@ "b" :> 4 @@ "r" :> 5 @@ "w" :> 6
StoreKey == "a" :> "k1" @@ "b" :> "k1" @@ "r" :> "k2" @@ "w" :> "k3"
StoreSession == [e \in StoreEvents |-> IF e \in {"a", "b"} THEN "s1" ELSE "s2"]
StoreVisibility == "a" :> "local_only" @@ "b" :> "sync_full"
                     @@ "r" :> "local_only" @@ "w" :> "withheld"
StoreOrigin == "mac1" :> {"a", "b", "w"} @@ "mac2" :> {"b", "r"}
=============================================================================
