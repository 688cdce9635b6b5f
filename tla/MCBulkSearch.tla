----------------------------- MODULE MCBulkSearch -----------------------------
(***************************************************************************)
(* Instance of BulkSearch for TLC: two tables with settings of their own.  *)
(***************************************************************************)
EXTENDS BulkSearch, TLC

MCTables == {"event_search", "event_search_scriptgram"}
MCSettings == {"default", "custom", "suppressed"}
MCOwn == "event_search" :> "custom" @@ "event_search_scriptgram" :> "default"
===============================================================================
