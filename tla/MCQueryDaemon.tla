---------------------------- MODULE MCQueryDaemon ----------------------------
(***************************************************************************)
(* Instances of QueryDaemon for TLC.                                       *)
(***************************************************************************)
EXTENDS QueryDaemon, TLC
=============================================================================
