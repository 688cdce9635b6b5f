--------------------------- MODULE SharedTimeline ---------------------------
(***************************************************************************)
(* What ctx-remote promises of the shared database, with no page, key      *)
(* table, transaction or network in sight: every Mac records provider      *)
(* events, and one timeline accumulates them.  An event enters the         *)
(* timeline only if some Mac recorded it and its owner lets it leave the   *)
(* machine; it never leaves the timeline again; and two copies of the same *)
(* provider event never both enter it (README.md, "Storage and merge       *)
(* semantics").                                                            *)
(***************************************************************************)
CONSTANTS
  Macs,        \* the computers that share the database
  Events,      \* event rows a local store can hold
  Identity,    \* Identity[e]: the provider event that e is a copy of
  Shareable    \* the events whose owner did not withhold them

VARIABLES
  history,     \* history[m]: the events recorded on Mac m so far
  timeline     \* the events a search of the shared database can return

tlvars == <<history, timeline>>

Init ==
  /\ history = [m \in Macs |-> {}]
  /\ timeline = {}

\* A coding agent on m writes one more event of its history.
Record(m) ==
  /\ \E e \in Events \ history[m] :
        history' = [history EXCEPT ![m] = @ \cup {e}]
  /\ UNCHANGED timeline

\* T holds at most one copy of a provider event.
NoCopies(T) == \A e, f \in T : Identity[e] = Identity[f] => e = f

\* Some upload adds a set of recorded events at once.
Merge ==
  /\ \E S \in SUBSET ((UNION {history[m] : m \in Macs}) \cap Shareable) :
        /\ NoCopies(timeline \cup S)
        /\ timeline' = timeline \cup S
  /\ UNCHANGED history

Next ==
  \/ \E m \in Macs : Record(m)
  \/ Merge

Spec == Init /\ [][Next]_tlvars
=============================================================================
