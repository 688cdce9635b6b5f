------------------------------ MODULE TursoPush ------------------------------
(***************************************************************************)
(* `push` of crates/ctx-cli/src/commands/turso.rs: several Macs upload the *)
(* events of their stores, page by page, into one libSQL database.  Each   *)
(* page reads the dedupe keys the database already knows, builds one SQL   *)
(* batch from the rest and runs it as one transaction.  The requests of    *)
(* different Macs interleave freely between those steps; an upload may be  *)
(* interrupted at any of them (crash, twenty-minute timeout), and the      *)
(* transaction of a client that gave up may still run later.               *)
(*                                                                         *)
(* An event is a constant: its UUID, dedupe key, session and visibility    *)
(* are fixed functions of it, and its payload is the event itself.         *)
(***************************************************************************)
EXTENDS Naturals, FiniteSets

CONSTANTS
  Macs,             \* computers sharing the database
  Events,           \* event rows a local store can hold
  Origin,           \* Origin[m]: the events agents may write on Mac m
  EventId,          \* EventId[e]: its UUID, as a number >= 1 in UUID order
  Keys, NoKey,      \* dedupe keys, and SQL NULL
  DedupeKey,        \* DedupeKey[e]: the key push derives from e's session
  CanonicalKeys,    \* keys derived from a provider-owned session id
  SessionOf,        \* SessionOf[e]: the session row e belongs to
  Visibility,       \* Visibility[e]: "sync_full", "local_only", "withheld"
  PageSize,         \* --batch-size
  LiveIndex,        \* TRUE: a push opens an index that a writer has open
  MaxInterruptions  \* bound on crashes and timeouts

Ids == {EventId[e] : e \in Events}
Kinds == {"import", "push", "push_all"}
Statement == [ev : Events, key : Keys \cup {NoKey}]

ASSUME EventAssumption ==
  /\ EventId \in [Events -> Nat \ {0}]
  /\ NoKey \notin Keys
  /\ DedupeKey \in [Events -> Keys \cup {NoKey}]
  /\ CanonicalKeys \subseteq Keys
  /\ Visibility \in [Events -> {"sync_full", "local_only", "withheld"}]
  /\ Origin \in [Macs -> SUBSET Events]

ASSUME BoundAssumption ==
  /\ PageSize \in Nat \ {0}
  /\ LiveIndex \in BOOLEAN
  /\ MaxInterruptions \in Nat

VARIABLES
  history,       \* history[m]: events in m's provider history or local index
  keys,          \* ctx_turso_event_keys: the claims [key, id]
  rows,          \* ctx_turso_events: the rows [ev, key]
  search,        \* search[i]: how many ctx_turso_search rows have event_id i
  pc,            \* pc[m]: where m's push is
  kind,          \* kind[m]: which command runs it
  store,         \* store[m]: the events of m's store when its push began
  sessions,      \* sessions[m]: session_identities, read once at the start
  after,         \* after[m]: after_id, the last UUID read (0: none)
  page,          \* page[m]: the events of the current page
  batch,         \* batch[m]: the statements of the current transaction
  late,          \* late[m]: transactions whose client gave up waiting
  interruptions  \* number of interruptions so far

remote == <<keys, rows, search>>
job == <<kind, store, sessions, after, page>>
vars == <<history, remote, pc, job, batch, late, interruptions>>

Init ==
  /\ history = [m \in Macs |-> {}]
  /\ keys = {}
  /\ rows = {}
  /\ search = [i \in Ids |-> 0]
  /\ pc = [m \in Macs |-> "idle"]
  /\ kind = [m \in Macs |-> "import"]
  /\ store = [m \in Macs |-> {}]
  /\ sessions = [m \in Macs |-> {}]
  /\ after = [m \in Macs |-> 0]
  /\ page = [m \in Macs |-> {}]
  /\ batch = [m \in Macs |-> {}]
  /\ late = [m \in Macs |-> {}]
  /\ interruptions = 0

-----------------------------------------------------------------------------
(* The local side. *)

\* An agent writes an event, or a local import adds it to work.sqlite.  A UUID
\* has one row in a store: a provider event with another text is a conflict
\* there, and what an update of the row in place changes is not modelled.
Record(m) ==
  /\ \E e \in Origin[m] :
       /\ \A f \in history[m] : EventId[f] # EventId[e]
       /\ history' = [history EXCEPT ![m] = @ \cup {e}]
  /\ UNCHANGED <<remote, pc, job, batch, late, interruptions>>

\* An import reads a private in-memory store, and a push an immutable
\* snapshot; with live WAL files the pages of a push come from the index as
\* it is when they are read.
Scanned(m) == IF kind[m] # "import" /\ LiveIndex THEN history[m] ELSE store[m]

\* Faulty: --include-local-only overrides a withheld event.
WithheldExportAllowed(e, k) ==
  Visibility[e] = "sync_full" \/ k \in {"import", "push_all"}

\* Faulty: an import exports only sync_full events.
SyncFullExportAllowed(e, k) == Visibility[e] = "sync_full"

RemoteExportAllowed(e, k) ==
  /\ Visibility[e] # "withheld"
  /\ Visibility[e] = "sync_full" \/ k \in {"import", "push_all"}

\* No key for an event whose session the push did not read at its start.
RemoteDedupeKey(e, S) == IF SessionOf[e] \in S THEN DedupeKey[e] ELSE NoKey

\* The page ORDER BY id LIMIT PageSize of the events after UUID a.
PageAfter(S, a) ==
  LET rest == {e \in S : EventId[e] > a}
  IN {e \in rest :
        Cardinality({f \in rest : EventId[f] < EventId[e]}) < PageSize}

\* Faulty: the scan resumes after the last UUID of the previous push.
BeginAfterLast(m) ==
  /\ pc[m] = "idle"
  /\ \E k \in Kinds : kind' = [kind EXCEPT ![m] = k]
  /\ store' = [store EXCEPT ![m] = history[m]]
  /\ sessions' = [sessions EXCEPT ![m] = {SessionOf[e] : e \in history[m]}]
  /\ pc' = [pc EXCEPT ![m] = "read"]
  /\ UNCHANGED <<history, remote, after, page, batch, late, interruptions>>

Begin(m) ==
  /\ pc[m] = "idle"
  /\ \E k \in Kinds : kind' = [kind EXCEPT ![m] = k]
  /\ store' = [store EXCEPT ![m] = history[m]]
  /\ sessions' = [sessions EXCEPT ![m] = {SessionOf[e] : e \in history[m]}]
  /\ after' = [after EXCEPT ![m] = 0]
  /\ pc' = [pc EXCEPT ![m] = "read"]
  /\ UNCHANGED <<history, remote, page, batch, late, interruptions>>

ReadPage(m) ==
  /\ pc[m] = "read"
  /\ LET events == PageAfter(Scanned(m), after[m])
     IN \E last \in events :
          /\ \A e \in events : EventId[e] <= EventId[last]
          /\ page' = [page EXCEPT ![m] = events]
          /\ after' = [after EXCEPT ![m] = EventId[last]]
  /\ pc' = [pc EXCEPT ![m] = "lookup"]
  /\ UNCHANGED <<history, remote, kind, store, sessions, batch, late,
                 interruptions>>

Finish(m) ==
  /\ pc[m] = "read"
  /\ PageAfter(Scanned(m), after[m]) = {}
  /\ pc' = [pc EXCEPT ![m] = "idle"]
  /\ UNCHANGED <<history, remote, job, batch, late, interruptions>>

-----------------------------------------------------------------------------
(* The remote side. *)

\* Only canonical keys are looked up; a raw key is left to INSERT OR IGNORE.
KnownDedupeKeys(m) ==
  {c.key : c \in keys} \cap CanonicalKeys
    \cap {RemoteDedupeKey(e, sessions[m]) : e \in page[m]}

Statements(m) ==
  {[ev |-> e, key |-> RemoteDedupeKey(e, sessions[m])] :
     e \in {f \in page[m] :
              /\ RemoteExportAllowed(f, kind[m])
              /\ RemoteDedupeKey(f, sessions[m]) \notin KnownDedupeKeys(m)}}

Lookup(m) ==
  /\ pc[m] = "lookup"
  /\ batch' = [batch EXCEPT ![m] = Statements(m)]
  /\ IF Statements(m) = {}
     THEN /\ page' = [page EXCEPT ![m] = {}]
          /\ pc' = [pc EXCEPT ![m] = "read"]
     ELSE /\ pc' = [pc EXCEPT ![m] = "commit"]
          /\ UNCHANGED page
  /\ UNCHANGED <<history, remote, kind, store, sessions, after, late,
                 interruptions>>

\* INSERT OR IGNORE: an unclaimed key goes to its first event of the batch.
NewClaims(b) ==
  {[key |-> s.key, id |-> EventId[s.ev]] :
     s \in {t \in b :
              /\ t.key # NoKey
              /\ \A c \in keys : c.key # t.key
              /\ \A u \in b : u.key = t.key => EventId[t.ev] <= EventId[u.ev]}}

\* Faulty: the event statement does not test the owner of its key.
UnguardedRows(b) == {s \in b : \A r \in rows : EventId[r.ev] # EventId[s.ev]}

\* Faulty: the event statements run before the key statements.
RowsBeforeClaims(b) ==
  {s \in b :
     /\ s.key = NoKey \/ [key |-> s.key, id |-> EventId[s.ev]] \in keys
     /\ \A r \in rows : EventId[r.ev] # EventId[s.ev]}

\* INSERT OR IGNORE INTO ctx_turso_events ... WHERE the key's owner is me;
\* the primary key and the unique dedupe_key index drop the conflicts.
NewRows(b) ==
  {s \in b :
     /\ s.key = NoKey
          \/ [key |-> s.key, id |-> EventId[s.ev]] \in keys \cup NewClaims(b)
     /\ \A r \in rows : /\ EventId[r.ev] # EventId[s.ev]
                        /\ s.key = NoKey \/ r.key # s.key}

\* Faulty: the search rows of the batch are not deleted first.
ApplyWithoutDelete(b) ==
  /\ keys' = keys \cup NewClaims(b)
  /\ rows' = rows \cup NewRows(b)
  /\ search' = [i \in Ids |->
                  IF /\ \E s \in b : EventId[s.ev] = i
                     /\ \E r \in rows' : EventId[r.ev] = i
                  THEN search[i] + 1 ELSE search[i]]

\* Faulty: INSERT OR REPLACE lets the last batch take over a key.
ApplyReplacing(b) ==
  /\ keys' = {c \in keys : \A s \in b : s.key # c.key} \cup
               {[key |-> s.key, id |-> EventId[s.ev]] :
                  s \in {t \in b : t.key # NoKey}}
  /\ rows' = rows \cup NewRows(b)
  /\ search' = [i \in Ids |->
                  IF \E r \in rows' : EventId[r.ev] = i THEN 1 ELSE 0]

\* One transaction.  DELETE + INSERT leave one search row per projected id
\* of the batch that has an event row.
Apply(b) ==
  /\ keys' = keys \cup NewClaims(b)
  /\ rows' = rows \cup NewRows(b)
  /\ search' = [i \in Ids |->
                  IF \E s \in b : EventId[s.ev] = i
                  THEN IF \E r \in rows' : EventId[r.ev] = i THEN 1 ELSE 0
                  ELSE search[i]]

\* The server runs the transaction and the client learns of it.
Commit(m) ==
  /\ pc[m] = "commit"
  /\ Apply(batch[m])
  /\ batch' = [batch EXCEPT ![m] = {}]
  /\ page' = [page EXCEPT ![m] = {}]
  /\ pc' = [pc EXCEPT ![m] = "read"]
  /\ UNCHANGED <<history, kind, store, sessions, after, late, interruptions>>

\* A crash, an error or a timeout ends the push.  A batch in flight may be
\* lost or still be executed; the client cannot tell.
Interrupt(m) ==
  /\ pc[m] # "idle"
  /\ interruptions < MaxInterruptions
  /\ interruptions' = interruptions + 1
  /\ late' \in {late, [late EXCEPT ![m] = @ \cup ({batch[m]} \ {{}})]}
  /\ pc' = [pc EXCEPT ![m] = "idle"]
  /\ batch' = [batch EXCEPT ![m] = {}]
  /\ page' = [page EXCEPT ![m] = {}]
  /\ UNCHANGED <<history, remote, kind, store, sessions, after>>

DeliverLate(m) ==
  /\ \E b \in late[m] :
       /\ Apply(b)
       /\ late' = [late EXCEPT ![m] = @ \ {b}]
  /\ UNCHANGED <<history, pc, job, batch, interruptions>>

-----------------------------------------------------------------------------
Step(m) ==
  Begin(m) \/ ReadPage(m) \/ Lookup(m) \/ Commit(m) \/ Finish(m)

Next ==
  \E m \in Macs : Record(m) \/ Step(m) \/ Interrupt(m) \/ DeliverLate(m)

Spec == Init /\ [][Next]_vars

-----------------------------------------------------------------------------
(* What must hold. *)

\* The provider event that e is a copy of: its key, or itself without one.
Identity == [e \in Events |-> IF DedupeKey[e] # NoKey
                              THEN <<"key", DedupeKey[e]>>
                              ELSE <<"id", EventId[e]>>]

\* The provider event of e has a row, e's own or that of a copy.
Merged(e) == \E r \in rows : Identity[r.ev] = Identity[e]

\* Every variable has its type; `page` and `batch` are empty outside the
\* steps of the page loop that use them.
TypeOK ==
  /\ history \in [Macs -> SUBSET Events]
  /\ keys \subseteq [key : Keys, id : Ids]
  /\ rows \subseteq Statement
  /\ search \in [Ids -> Nat]
  /\ pc \in [Macs -> {"idle", "read", "lookup", "commit"}]
  /\ kind \in [Macs -> Kinds]
  /\ store \in [Macs -> SUBSET Events]
  /\ sessions \in [Macs -> SUBSET {SessionOf[e] : e \in Events}]
  /\ after \in [Macs -> Nat]
  /\ page \in [Macs -> SUBSET Events]
  /\ batch \in [Macs -> SUBSET Statement]
  /\ late \in [Macs -> SUBSET SUBSET Statement]
  /\ interruptions \in Nat
  /\ \A m \in Macs : /\ pc[m] \notin {"lookup", "commit"} => page[m] = {}
                     /\ pc[m] # "commit" => batch[m] = {}

\* Copies of one provider event that several Macs upload concurrently, from
\* pages whose lookup did not know each other, end up as one row: the key
\* table is the merge point (turso.rs:1042-1045).
OneRowPerProviderEvent ==
  \A r, s \in rows : Identity[r.ev] = Identity[s.ev] => r = s

\* A claimed key has the row of its provider event, owned by the claimant:
\* later copies are skipped because of the claim, so a claim without that
\* row would hide the event for good (turso.rs:919-926, 1042-1045).
ClaimsBacked ==
  \A c \in keys : \E r \in rows :
     EventId[r.ev] = c.id /\ DedupeKey[r.ev] = c.key

\* The search table, which has no unique constraint, holds exactly one row
\* for each event row after retries, late and concurrent batches.
SearchExact ==
  \A i \in Ids : search[i] = Cardinality({r \in rows : EventId[r.ev] = i})

\* The page loop misses nothing: whatever the store held when the push began
\* and the scan has passed is merged, unless it may not be exported.
ScannedMerged ==
  \A m \in Macs : pc[m] # "idle" =>
    \A e \in store[m] \ page[m] :
       EventId[e] <= after[m] /\ RemoteExportAllowed(e, kind[m]) => Merged(e)

\* No upload changes or removes what an earlier one stored, or makes it
\* impossible to find (INSERT OR IGNORE; DELETE + INSERT in one transaction).
NoRetraction ==
  [][/\ keys \subseteq keys'
     /\ rows \subseteq rows'
     /\ \A i \in Ids : search[i] > 0 => search'[i] > 0]_vars

\* Everything recorded on any Mac that is not withheld gets merged.
EventuallyMerged ==
  \A m \in Macs : \A e \in Events :
     e \in history[m] /\ Visibility[e] # "withheld" ~> Merged(e)

\* The uploads implement the shared timeline.
Timeline == INSTANCE SharedTimeline WITH
  Shareable <- {e \in Events : Visibility[e] # "withheld"},
  timeline <- {r.ev : r \in {s \in rows : search[EventId[s.ev]] = 1}}

ImplementsTimeline == Timeline!Spec
=============================================================================
