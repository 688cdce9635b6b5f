--------------------------- MODULE TursoPushProof ---------------------------
(***************************************************************************)
(* Proofs about TursoPush, for any number of Macs, events, pages and       *)
(* interruptions: every variable keeps its type, a store snapshot pushed   *)
(* by any number of Macs yields one row per provider event, no claim on a  *)
(* key hides an event whose UUID determines its key, the search table      *)
(* mirrors the rows, the page loop leaves nothing behind, and the uploads  *)
(* implement SharedTimeline.  The last section is about SnapshotProjection *)
(* whose projection runs while uploads go on.                              *)
(***************************************************************************)
EXTENDS SnapshotProjection, FiniteSetTheorems, WellFoundedInduction, TLAPS

\* What one statement of a batch may be.
LEMMA StatementType ==
  ASSUME NEW e \in Events, NEW S
  PROVE  [ev |-> e, key |-> RemoteDedupeKey(e, S)] \in Statement
  BY EventAssumption DEF RemoteDedupeKey, Statement

\* A page and the statements made of it hold events of the store only.
LEMMA StatementsType ==
  ASSUME TypeOK, NEW m \in Macs
  PROVE  Statements(m) \subseteq Statement
  BY StatementType DEF Statements, TypeOK

\* Running a transaction keeps the types of the remote tables.
LEMMA ApplyType ==
  ASSUME TypeOK, NEW b \in SUBSET Statement, Apply(b)
  PROVE  /\ (keys \subseteq [key : Keys, id : Ids])'
         /\ (rows \subseteq Statement)'
         /\ (search \in [Ids -> Nat])'
<1>1. NewClaims(b) \subseteq [key : Keys, id : Ids]
  BY DEF NewClaims, Statement, Ids
<1>2. NewRows(b) \subseteq Statement
  BY DEF NewRows
<1> QED
  BY <1>1, <1>2 DEF Apply, TypeOK

LEMMA NextTypeOK == TypeOK /\ [Next]_vars => TypeOK'
<1> SUFFICES ASSUME TypeOK, [Next]_vars PROVE TypeOK'
  OBVIOUS
<1>1. ASSUME NEW m \in Macs, Record(m) PROVE TypeOK'
  <2>1. PICK e \in Origin[m] : history' = [history EXCEPT ![m] = @ \cup {e}]
    BY <1>1 DEF Record
  <2>2. e \in Events
    BY <2>1, EventAssumption
  <2>3. history' \in [Macs -> SUBSET Events]
    BY <2>1, <2>2 DEF TypeOK
  <2> QED
    BY <1>1, <2>3 DEF Record, TypeOK, remote, job
<1>2. ASSUME NEW m \in Macs, Begin(m) PROVE TypeOK'
  BY <1>2 DEF Begin, TypeOK, remote
<1>3. ASSUME NEW m \in Macs, ReadPage(m) PROVE TypeOK'
  <2>1. PageAfter(Scanned(m), after[m]) \subseteq Events
    BY DEF PageAfter, Scanned, TypeOK
  <2> QED
    BY <1>3, <2>1, EventAssumption DEF ReadPage, TypeOK, remote
<1>4. ASSUME NEW m \in Macs, Finish(m) PROVE TypeOK'
  BY <1>4 DEF Finish, TypeOK, remote, job
<1>5. ASSUME NEW m \in Macs, Lookup(m) PROVE TypeOK'
  BY <1>5, StatementsType DEF Lookup, TypeOK, remote
<1>6. ASSUME NEW m \in Macs, Commit(m) PROVE TypeOK'
  <2>1. batch[m] \in SUBSET Statement
    BY DEF TypeOK
  <2> QED
    BY <1>6, <2>1, ApplyType DEF Commit, TypeOK
<1>7. ASSUME NEW m \in Macs, Interrupt(m) PROVE TypeOK'
  <2>1. late[m] \cup ({batch[m]} \ {{}}) \in SUBSET SUBSET Statement
    BY DEF TypeOK
  <2>2. late' \in [Macs -> SUBSET SUBSET Statement]
    BY <1>7, <2>1 DEF Interrupt, TypeOK
  <2>3. /\ pc' = [pc EXCEPT ![m] = "idle"]
        /\ page' = [page EXCEPT ![m] = {}]
        /\ batch' = [batch EXCEPT ![m] = {}]
        /\ interruptions' = interruptions + 1
        /\ UNCHANGED <<history, keys, rows, search, kind, store, sessions,
                       after>>
    BY <1>7 DEF Interrupt, remote
  <2> QED
    BY <2>2, <2>3 DEF TypeOK
<1>8. ASSUME NEW m \in Macs, DeliverLate(m) PROVE TypeOK'
  <2>1. PICK b \in late[m] : /\ Apply(b)
                             /\ late' = [late EXCEPT ![m] = @ \ {b}]
    BY <1>8 DEF DeliverLate
  <2>2. b \in SUBSET Statement
    BY DEF TypeOK
  <2> QED
    BY <1>8, <2>1, <2>2, ApplyType DEF DeliverLate, TypeOK, job
<1>9. CASE UNCHANGED vars
  BY <1>9 DEF TypeOK, vars, remote, job
<1> QED
  BY <1>1, <1>2, <1>3, <1>4, <1>5, <1>6, <1>7, <1>8, <1>9 DEF Next, Step

\* Every reachable state of the pushes is well typed, and page and batch are
\* empty outside the steps of the page loop that use them.
THEOREM TypeCorrect == Spec => []TypeOK
<1>1. Init => TypeOK
  BY BoundAssumption DEF Init, TypeOK, Kinds, Statement
<1> QED
  BY <1>1, NextTypeOK, PTL DEF Spec

-----------------------------------------------------------------------------
(* The inductive invariant.  It assumes SnapshotPush: a push reads a store  *)
(* that nobody writes, so its sessions cover every page.                    *)

SnapshotPush == ~LiveIndex

\* A store keeps one content per UUID, and a page comes from the store.
LocalOK ==
  \A m \in Macs :
    /\ \A e, f \in history[m] : EventId[e] = EventId[f] => e = f
    /\ store[m] \subseteq history[m]
    /\ \A e \in store[m] : SessionOf[e] \in sessions[m]
    /\ page[m] \subseteq store[m]

\* A batch carries its Mac's shareable events, each with its own key.
Prepared(b, m) ==
  \A s \in b : /\ s.ev \in history[m]
              /\ s.key = DedupeKey[s.ev]
              /\ Visibility[s.ev] # "withheld"

BatchesOK ==
  \A m \in Macs : /\ Prepared(batch[m], m)
                 /\ \A b \in late[m] : Prepared(b, m)

\* A key is claimed once.
KeysOK == \A c, d \in keys : c.key = d.key => c = d

\* A row carries the key of its event and, if it has one, the claim on it.
RowsOK ==
  /\ \A r \in rows : /\ r.key = DedupeKey[r.ev]
                     /\ r.key # NoKey =>
                          [key |-> r.key, id |-> EventId[r.ev]] \in keys
                     /\ Visibility[r.ev] # "withheld"
                     /\ \E m \in Macs : r.ev \in history[m]
  /\ \A r, s \in rows : EventId[r.ev] = EventId[s.ev] => r = s

\* A row has one search row; nothing else has.
SearchOK ==
  \A i \in Ids :
    search[i] = IF \E r \in rows : EventId[r.ev] = i THEN 1 ELSE 0

IInv == /\ TypeOK
        /\ LocalOK
        /\ BatchesOK
        /\ KeysOK
        /\ RowsOK
        /\ SearchOK

\* A transaction claims only unclaimed keys, each of them once.
LEMMA ApplyKeys ==
  ASSUME KeysOK, NEW b \in SUBSET Statement, Apply(b)
  PROVE  KeysOK'
<1> SUFFICES ASSUME NEW c \in keys \cup NewClaims(b),
                    NEW d \in keys \cup NewClaims(b), c.key = d.key
             PROVE  c = d
  BY DEF KeysOK, Apply
<1>1. CASE c \in keys /\ d \in keys
  BY <1>1 DEF KeysOK
<1>2. CASE (c \in keys) # (d \in keys)
  BY <1>2 DEF NewClaims
<1>3. CASE c \in NewClaims(b) /\ d \in NewClaims(b)
  <2>1. PICK s \in b :
          /\ c = [key |-> s.key, id |-> EventId[s.ev]]
          /\ \A u \in b : u.key = s.key => EventId[s.ev] <= EventId[u.ev]
    BY <1>3 DEF NewClaims
  <2>2. PICK t \in b :
          /\ d = [key |-> t.key, id |-> EventId[t.ev]]
          /\ \A u \in b : u.key = t.key => EventId[t.ev] <= EventId[u.ev]
    BY <1>3 DEF NewClaims
  <2>3. EventId[s.ev] \in Nat /\ EventId[t.ev] \in Nat
    BY EventAssumption DEF Statement
  <2> QED
    BY <2>1, <2>2, <2>3
<1> QED
  BY <1>1, <1>2, <1>3

\* The rows a transaction adds carry claimed keys and new UUIDs.
LEMMA ApplyRows ==
  ASSUME TypeOK, LocalOK, KeysOK, RowsOK, NEW m \in Macs,
         NEW b \in SUBSET Statement, Prepared(b, m), Apply(b), UNCHANGED history
  PROVE  RowsOK'
<1>1. rows' = rows \cup NewRows(b) /\ keys' = keys \cup NewClaims(b)
  BY DEF Apply
<1>2. ASSUME NEW r \in rows'
      PROVE  /\ r.key = DedupeKey[r.ev]
             /\ r.key # NoKey =>
                  [key |-> r.key, id |-> EventId[r.ev]] \in keys'
             /\ Visibility[r.ev] # "withheld"
             /\ \E n \in Macs : r.ev \in history[n]
  BY <1>1, <1>2 DEF RowsOK, NewRows, Prepared
<1>3. ASSUME NEW r \in rows', NEW s \in rows', EventId[r.ev] = EventId[s.ev]
      PROVE  r = s
  <2>1. CASE r \in rows /\ s \in rows
    BY <2>1, <1>3 DEF RowsOK
  <2>2. CASE (r \in rows) # (s \in rows)
    BY <2>2, <1>1, <1>3 DEF NewRows
  <2>3. CASE r \in NewRows(b) /\ s \in NewRows(b)
    <3>1. r \in b /\ s \in b
      BY <2>3 DEF NewRows
    <3>2. r.ev = s.ev
      BY <3>1, <1>3 DEF Prepared, LocalOK
    <3>3. r.key = s.key
      BY <3>1, <3>2 DEF Prepared
    <3> QED
      BY <3>1, <3>2, <3>3 DEF Statement
  <2> QED
    BY <1>1, <2>1, <2>2, <2>3
<1> QED
  BY <1>2, <1>3 DEF RowsOK

\* A transaction leaves the search table in step with the rows.
LEMMA ApplySearch ==
  ASSUME SearchOK, NEW b \in SUBSET Statement, Apply(b)
  PROVE  SearchOK'
<1> SUFFICES ASSUME NEW i \in Ids
             PROVE  search'[i] = IF \E r \in rows' : EventId[r.ev] = i
                                 THEN 1 ELSE 0
  BY DEF SearchOK
<1>1. CASE \E s \in b : EventId[s.ev] = i
  BY <1>1 DEF Apply
<1>2. CASE ~ \E s \in b : EventId[s.ev] = i
  <2>1. search'[i] = search[i]
    BY <1>2 DEF Apply
  <2>2. (\E r \in rows' : EventId[r.ev] = i) <=> \E r \in rows : EventId[r.ev] = i
    BY <1>2 DEF Apply, NewRows
  <2> QED
    BY <2>1, <2>2 DEF SearchOK
<1> QED
  BY <1>1, <1>2

\* A step that changes neither the database nor a batch keeps the remote half
\* of the invariant; histories only grow.
LEMMA RemoteUnchanged ==
  ASSUME IInv, TypeOK', UNCHANGED <<keys, rows, search>>,
         \A n \in Macs : history[n] \subseteq history'[n]
  PROVE  KeysOK' /\ RowsOK' /\ SearchOK'
<1>1. KeysOK'
  BY DEF IInv, KeysOK
<1>2. RowsOK'
  BY DEF IInv, RowsOK
<1>3. SearchOK'
  BY DEF IInv, SearchOK
<1> QED
  BY <1>1, <1>2, <1>3

\* Every step keeps the invariant.
LEMMA StepInvariance ==
  ASSUME SnapshotPush, IInv, TypeOK', [Next]_vars
  PROVE  IInv'
<1> USE DEF IInv
<1>1. ASSUME NEW m \in Macs, Record(m) PROVE IInv'
  <2>1. PICK e \in Origin[m] :
          /\ \A f \in history[m] : EventId[f] # EventId[e]
          /\ history' = [history EXCEPT ![m] = @ \cup {e}]
    BY <1>1 DEF Record
  <2>2. UNCHANGED <<keys, rows, search, store, sessions, page, batch, late>>
    BY <1>1 DEF Record, remote, job
  <2>3. /\ history'[m] = history[m] \cup {e}
        /\ \A n \in Macs : n # m => history'[n] = history[n]
    BY <2>1 DEF TypeOK
  <2>4. \A n \in Macs : history[n] \subseteq history'[n]
    BY <2>3
  <2>5. LocalOK'
    BY <2>1, <2>2, <2>3, <2>4 DEF LocalOK
  <2>6. BatchesOK'
    BY <2>2, <2>4 DEF BatchesOK, Prepared
  <2> QED
    BY <2>2, <2>4, <2>5, <2>6, RemoteUnchanged
<1>2. ASSUME NEW m \in Macs, Begin(m) PROVE IInv'
  <2>1. /\ UNCHANGED <<history, keys, rows, search, page, batch, late>>
        /\ store' = [store EXCEPT ![m] = history[m]]
        /\ sessions' = [sessions EXCEPT ![m] =
                          {SessionOf[e] : e \in history[m]}]
        /\ pc[m] = "idle"
    BY <1>2 DEF Begin, remote
  <2>2. page[m] = {}
    BY <2>1 DEF TypeOK
  <2>3. LocalOK'
    BY <2>1, <2>2 DEF LocalOK, TypeOK
  <2>4. BatchesOK'
    BY <2>1 DEF BatchesOK, Prepared
  <2> QED
    BY <2>1, <2>3, <2>4, RemoteUnchanged
<1>3. ASSUME NEW m \in Macs, ReadPage(m) PROVE IInv'
  <2>1. /\ UNCHANGED <<history, keys, rows, search, store, sessions, batch,
                       late>>
        /\ page' = [page EXCEPT ![m] = PageAfter(Scanned(m), after[m])]
    BY <1>3 DEF ReadPage, remote
  <2>2. PageAfter(Scanned(m), after[m]) \subseteq store[m]
    BY DEF PageAfter, Scanned, SnapshotPush
  <2>3. LocalOK'
    BY <2>1, <2>2 DEF LocalOK, TypeOK
  <2>4. BatchesOK'
    BY <2>1 DEF BatchesOK, Prepared
  <2> QED
    BY <2>1, <2>3, <2>4, RemoteUnchanged
<1>4. ASSUME NEW m \in Macs, Finish(m) PROVE IInv'
  <2>1. UNCHANGED <<history, keys, rows, search, store, sessions, page, batch,
                    late>>
    BY <1>4 DEF Finish, remote, job
  <2>2. LocalOK' /\ BatchesOK'
    BY <2>1 DEF LocalOK, BatchesOK, Prepared
  <2> QED
    BY <2>1, <2>2, RemoteUnchanged
<1>5. ASSUME NEW m \in Macs, Lookup(m) PROVE IInv'
  <2>1. /\ UNCHANGED <<history, keys, rows, search, store, sessions, late>>
        /\ batch' = [batch EXCEPT ![m] = Statements(m)]
        /\ page' = page \/ page' = [page EXCEPT ![m] = {}]
    BY <1>5 DEF Lookup, remote
  <2>2. Prepared(Statements(m), m)
    <3> SUFFICES ASSUME NEW e \in page[m], RemoteExportAllowed(e, kind[m])
                 PROVE  /\ e \in history[m]
                        /\ RemoteDedupeKey(e, sessions[m]) = DedupeKey[e]
                        /\ Visibility[e] # "withheld"
      BY DEF Prepared, Statements
    <3> QED
      BY DEF LocalOK, RemoteDedupeKey, RemoteExportAllowed
  <2>3. LocalOK'
    BY <2>1 DEF LocalOK, TypeOK
  <2>4. BatchesOK'
    BY <2>1, <2>2 DEF BatchesOK, Prepared, TypeOK
  <2> QED
    BY <2>1, <2>3, <2>4, RemoteUnchanged
<1>6. ASSUME NEW m \in Macs, Commit(m) PROVE IInv'
  <2>1. /\ Apply(batch[m])
        /\ UNCHANGED <<history, store, sessions, late>>
        /\ page' = [page EXCEPT ![m] = {}]
        /\ batch' = [batch EXCEPT ![m] = {}]
    BY <1>6 DEF Commit
  <2>2. batch[m] \in SUBSET Statement /\ Prepared(batch[m], m)
    BY DEF TypeOK, BatchesOK
  <2>3. LocalOK'
    BY <2>1 DEF LocalOK, TypeOK
  <2>4. BatchesOK'
    BY <2>1 DEF BatchesOK, Prepared, TypeOK
  <2> QED
    BY <2>1, <2>2, <2>3, <2>4, ApplyKeys, ApplyRows, ApplySearch
<1>7. ASSUME NEW m \in Macs, Interrupt(m) PROVE IInv'
  <2>1. /\ UNCHANGED <<history, keys, rows, search, store, sessions>>
        /\ page' = [page EXCEPT ![m] = {}]
        /\ batch' = [batch EXCEPT ![m] = {}]
        /\ \A n \in Macs : late'[n] \subseteq late[n] \cup {batch[n]}
    BY <1>7 DEF Interrupt, TypeOK, remote
  <2>2. LocalOK'
    BY <2>1 DEF LocalOK, TypeOK
  <2>3. BatchesOK'
    BY <2>1 DEF BatchesOK, Prepared, TypeOK
  <2> QED
    BY <2>1, <2>2, <2>3, RemoteUnchanged
<1>8. ASSUME NEW m \in Macs, DeliverLate(m) PROVE IInv'
  <2>1. PICK b \in late[m] : /\ Apply(b)
                             /\ late' = [late EXCEPT ![m] = @ \ {b}]
    BY <1>8 DEF DeliverLate
  <2>2. UNCHANGED <<history, store, sessions, page, batch>>
    BY <1>8 DEF DeliverLate, job
  <2>3. b \in SUBSET Statement /\ Prepared(b, m)
    BY DEF TypeOK, BatchesOK
  <2>4. LocalOK'
    BY <2>2 DEF LocalOK
  <2>5. BatchesOK'
    BY <2>1, <2>2 DEF BatchesOK, Prepared, TypeOK
  <2> QED
    BY <2>1, <2>2, <2>3, <2>4, <2>5, ApplyKeys, ApplyRows, ApplySearch
<1>9. CASE UNCHANGED vars
  <2>1. UNCHANGED <<history, keys, rows, search, store, sessions, page, batch,
                    late>>
    BY <1>9 DEF vars, remote, job
  <2>2. LocalOK' /\ BatchesOK'
    BY <2>1 DEF LocalOK, BatchesOK, Prepared
  <2> QED
    BY <2>1, <2>2, RemoteUnchanged
<1> QED
  BY <1>1, <1>2, <1>3, <1>4, <1>5, <1>6, <1>7, <1>8, <1>9 DEF Next, Step

\* When pushes read snapshots, the invariant holds in every reachable state.
THEOREM Invariance == ASSUME SnapshotPush PROVE Spec => []IInv
<1>1. Init => IInv
  <2> SUFFICES ASSUME Init PROVE IInv
    OBVIOUS
  <2>1. TypeOK
    BY BoundAssumption DEF Init, TypeOK, Kinds, Statement
  <2>2. LocalOK /\ BatchesOK /\ KeysOK /\ RowsOK
    BY DEF Init, LocalOK, BatchesOK, Prepared, KeysOK, RowsOK
  <2>3. SearchOK
    BY DEF Init, SearchOK
  <2> QED
    BY <2>1, <2>2, <2>3 DEF IInv
<1>2. IInv /\ TypeOK' /\ [Next]_vars => IInv'
  BY StepInvariance
<1> QED
  BY <1>1, <1>2, TypeCorrect, PTL DEF Spec

-----------------------------------------------------------------------------
(* What the invariant shows. *)

\* Two rows of one provider event are the same row.
LEMMA OneRow ==
  ASSUME TypeOK, KeysOK, RowsOK
  PROVE  OneRowPerProviderEvent
<1> SUFFICES ASSUME NEW r \in rows, NEW s \in rows,
                    Identity[r.ev] = Identity[s.ev]
             PROVE  r = s
  BY DEF OneRowPerProviderEvent
<1>1. r.ev \in Events /\ s.ev \in Events
  BY DEF TypeOK, Statement
<1>2. CASE DedupeKey[r.ev] # NoKey
  <2>1. DedupeKey[s.ev] = DedupeKey[r.ev]
    BY <1>1, <1>2 DEF Identity
  <2>2. /\ [key |-> r.key, id |-> EventId[r.ev]] \in keys
        /\ [key |-> s.key, id |-> EventId[s.ev]] \in keys
        /\ r.key = s.key
    BY <1>2, <2>1 DEF RowsOK
  <2>3. [key |-> r.key, id |-> EventId[r.ev]]
          = [key |-> s.key, id |-> EventId[s.ev]]
    BY <2>2 DEF KeysOK
  <2>4. EventId[r.ev] = EventId[s.ev]
    BY <2>3
  <2> QED
    BY <2>4 DEF RowsOK
<1>3. CASE DedupeKey[r.ev] = NoKey
  <2>1. EventId[r.ev] = EventId[s.ev]
    BY <1>1, <1>3 DEF Identity
  <2> QED
    BY <2>1 DEF RowsOK
<1> QED
  BY <1>2, <1>3

\* However the requests of several Macs interleave, and whatever is lost or
\* runs late, a provider event has one row in the shared database, as long
\* as pushes read snapshots of their stores (turso.rs:1042-1045).
THEOREM Deduplication ==
  ASSUME SnapshotPush PROVE Spec => []OneRowPerProviderEvent
<1>1. IInv => OneRowPerProviderEvent
  BY OneRow DEF IInv
<1> QED
  BY <1>1, Invariance, PTL

\* The search table has exactly one row per event row.
LEMMA SearchMirrorsRows ==
  ASSUME RowsOK, SearchOK
  PROVE  SearchExact
<1> SUFFICES ASSUME NEW i \in Ids
             PROVE search[i] = Cardinality({r \in rows : EventId[r.ev] = i})
  BY DEF SearchExact
<1>1. CASE \E r \in rows : EventId[r.ev] = i
  <2>1. PICK r \in rows : EventId[r.ev] = i
    BY <1>1
  <2>2. {s \in rows : EventId[s.ev] = i} = {r}
    BY <2>1 DEF RowsOK
  <2>3. Cardinality({r}) = 1
    BY FS_Singleton
  <2> QED
    BY <1>1, <2>2, <2>3 DEF SearchOK
<1>2. CASE ~ \E r \in rows : EventId[r.ev] = i
  <2>1. {s \in rows : EventId[s.ev] = i} = {}
    BY <1>2
  <2> QED
    BY <1>2, <2>1, FS_EmptySet DEF SearchOK
<1> QED
  BY <1>1, <1>2

\* Retried, late and concurrent batches leave one search row per event row.
THEOREM SearchConsistency == ASSUME SnapshotPush PROVE Spec => []SearchExact
<1>1. IInv => SearchExact
  BY SearchMirrorsRows DEF IInv
<1> QED
  BY <1>1, Invariance, PTL

-----------------------------------------------------------------------------
(* Claims.  A UUID has to determine its key: two contents of one provider   *)
(* record share the UUID and have different keys, and then a claim can be   *)
(* left without a row.                                                      *)

IdDeterminesKey ==
  \A e, f \in Events : EventId[e] = EventId[f] => DedupeKey[e] = DedupeKey[f]

\* A transaction that claims a key also stores a row for it.
LEMMA ApplyClaims ==
  ASSUME IdDeterminesKey, TypeOK, RowsOK, ClaimsBacked, NEW m \in Macs,
         NEW b \in SUBSET Statement, Prepared(b, m), Apply(b)
  PROVE  ClaimsBacked'
<1> SUFFICES ASSUME NEW c \in keys \cup NewClaims(b)
             PROVE  \E r \in rows \cup NewRows(b) :
                       EventId[r.ev] = c.id /\ DedupeKey[r.ev] = c.key
  BY DEF ClaimsBacked, Apply
<1>1. CASE c \in keys
  BY <1>1 DEF ClaimsBacked
<1>2. CASE c \in NewClaims(b)
  <2>1. PICK s \in b : /\ c = [key |-> s.key, id |-> EventId[s.ev]]
                       /\ s.key # NoKey
                       /\ \A d \in keys : d.key # s.key
    BY <1>2 DEF NewClaims
  <2>2. s.key = DedupeKey[s.ev] /\ s.ev \in Events
    BY DEF Prepared, Statement
  <2>3. CASE \E r \in rows : EventId[r.ev] = EventId[s.ev]
    BY <2>1, <2>2, <2>3 DEF IdDeterminesKey, TypeOK, Statement
  <2>4. CASE ~ \E r \in rows : EventId[r.ev] = EventId[s.ev]
    <3>1. \A r \in rows : r.key # s.key
      BY <2>1 DEF RowsOK
    <3>2. s \in NewRows(b)
      BY <1>2, <2>1, <2>4, <3>1 DEF NewRows
    <3> QED
      BY <2>1, <2>2, <3>2
  <2> QED
    BY <2>3, <2>4
<1> QED
  BY <1>1, <1>2

\* If a UUID determines its dedupe key, a claimed key always has its row, so
\* skipping later copies because of the claim hides nothing.
THEOREM ClaimSafety ==
  ASSUME SnapshotPush, IdDeterminesKey PROVE Spec => []ClaimsBacked
<1>1. Init => ClaimsBacked
  BY DEF Init, ClaimsBacked
<1>2. IInv /\ ClaimsBacked /\ [Next]_vars => ClaimsBacked'
  <2> SUFFICES ASSUME IInv, ClaimsBacked, [Next]_vars PROVE ClaimsBacked'
    OBVIOUS
  <2>1. CASE UNCHANGED <<keys, rows>>
    BY <2>1 DEF ClaimsBacked
  <2>2. ASSUME NEW m \in Macs, Commit(m) PROVE ClaimsBacked'
    <3>1. batch[m] \in SUBSET Statement /\ Prepared(batch[m], m)
      BY DEF IInv, TypeOK, BatchesOK
    <3> QED
      BY <2>2, <3>1, ApplyClaims DEF Commit, IInv
  <2>3. ASSUME NEW m \in Macs, DeliverLate(m) PROVE ClaimsBacked'
    <3>1. PICK b \in late[m] : Apply(b)
      BY <2>3 DEF DeliverLate
    <3>2. b \in SUBSET Statement /\ Prepared(b, m)
      BY DEF IInv, TypeOK, BatchesOK
    <3> QED
      BY <3>1, <3>2, ApplyClaims DEF IInv
  <2> QED
    BY <2>1, <2>2, <2>3
    DEF Next, Step, Record, Begin, ReadPage, Finish, Lookup, Interrupt, vars,
        remote
<1> QED
  BY <1>1, <1>2, Invariance, PTL DEF Spec

-----------------------------------------------------------------------------
(* The page loop.  A page that was read, looked up and sent is accounted    *)
(* for as a whole, although other Macs claim its keys meanwhile.            *)

LEMMA LeastNat ==
  ASSUME NEW S \in SUBSET Nat, S # {}
  PROVE  \E x \in S : \A y \in S : x <= y
<1> DEFINE T == {1 .. x : x \in S}
<1>1. T \subseteq FiniteSubsetsOf(Nat) /\ T # {}
  <2>1. ASSUME NEW x \in S PROVE 1 .. x \in FiniteSubsetsOf(Nat)
    <3>1. x \in Int /\ 1 .. x \subseteq Nat
      OBVIOUS
    <3> QED
      BY <3>1, FS_Interval DEF FiniteSubsetsOf
  <2> QED
    BY <2>1
<1>2. PICK x \in S : \A V \in T : <<V, 1 .. x>> \notin StrictSubsetOrdering(Nat)
  <2> HIDE DEF T
  <2>1. PICK U \in T : \A V \in T : <<V, U>> \notin StrictSubsetOrdering(Nat)
    BY <1>1, FS_StrictSubsetOrderingWellFounded, WFMin
  <2> QED
    BY <2>1 DEF T
<1>3. ASSUME NEW y \in S, y < x PROVE FALSE
  <2>1. x \in 1 .. x /\ x \notin 1 .. y /\ 1 .. y \subseteq 1 .. x
    BY <1>3
  <2>2. 1 .. x \in SUBSET Nat /\ 1 .. y \in SUBSET Nat /\ 1 .. y # 1 .. x
    BY <2>1
  <2>3. <<1 .. y, 1 .. x>> \in StrictSubsetOrdering(Nat)
    BY <2>1, <2>2 DEF StrictSubsetOrdering
  <2> QED
    BY <1>2, <2>3
<1> QED
  BY <1>3

\* Histories are finite, hence a page is a beginning of what is left.
Finite == \A m \in Macs : IsFiniteSet(history[m])

\* What a transaction on its way leaves out of its page was known.
CommitCovers ==
  \A m \in Macs : pc[m] = "commit" =>
    \A e \in page[m] : RemoteExportAllowed(e, kind[m]) =>
      Merged(e) \/ [ev |-> e, key |-> DedupeKey[e]] \in batch[m]

ScanInv == Finite /\ CommitCovers /\ ScannedMerged

\* A page holds all that comes before its last event.
LEMMA PageIsInitial ==
  ASSUME TypeOK, NEW S \in SUBSET Events, IsFiniteSet(S), NEW a \in Nat,
         NEW last \in PageAfter(S, a),
         NEW e \in S, EventId[e] > a, EventId[e] <= EventId[last]
  PROVE  e \in PageAfter(S, a)
<1> DEFINE rest == {f \in S : EventId[f] > a}
           Below(x) == {f \in rest : EventId[f] < EventId[x]}
<1>1. /\ IsFiniteSet(rest) /\ IsFiniteSet(Below(last)) /\ IsFiniteSet(Below(e))
  BY FS_Subset
<1>2. Below(e) \subseteq Below(last)
  BY EventAssumption DEF PageAfter
<1>3. /\ Cardinality(Below(e)) \in Nat /\ Cardinality(Below(last)) \in Nat
      /\ Cardinality(Below(e)) <= Cardinality(Below(last))
  BY <1>1, <1>2, FS_Subset, FS_CardinalityType
<1>4. Cardinality(Below(last)) < PageSize
  BY DEF PageAfter
<1>5. Cardinality(Below(e)) < PageSize
  BY <1>3, <1>4, BoundAssumption
<1> QED
  BY <1>5 DEF PageAfter

\* The event of a statement has a row once its transaction has run, its own
\* or that of a copy that came first.
LEMMA ApplyMergesAll ==
  ASSUME IdDeterminesKey, TypeOK, RowsOK, ClaimsBacked',
         NEW m \in Macs, NEW b \in SUBSET Statement, Prepared(b, m), Apply(b),
         NEW s \in b
  PROVE  Merged(s.ev)'
<1>1. /\ s.ev \in Events /\ s.key = DedupeKey[s.ev]
      /\ \A r \in rows' : r.ev \in Events
      /\ rows' = rows \cup NewRows(b) /\ keys' = keys \cup NewClaims(b)
  BY DEF Prepared, Statement, TypeOK, Apply, NewRows
<1>2. CASE s \in NewRows(b)
  BY <1>1, <1>2 DEF Merged
<1>3. CASE \E r \in rows : EventId[r.ev] = EventId[s.ev]
  <2>1. PICK r \in rows : EventId[r.ev] = EventId[s.ev]
    BY <1>3
  <2>2. Identity[r.ev] = Identity[s.ev]
    BY <1>1, <2>1 DEF Identity, IdDeterminesKey
  <2> QED
    BY <1>1, <2>1, <2>2 DEF Merged
<1>4. ASSUME s.key # NoKey, NEW c \in keys', c.key = s.key
      PROVE  Merged(s.ev)'
  <2>1. PICK r \in rows' : DedupeKey[r.ev] = c.key
    BY <1>4 DEF ClaimsBacked
  <2>2. Identity[r.ev] = Identity[s.ev]
    BY <1>1, <1>4, <2>1 DEF Identity
  <2> QED
    BY <2>1, <2>2 DEF Merged
<1>5. CASE s.key # NoKey /\ \A c \in keys : c.key # s.key
  <2> DEFINE T == {EventId[u.ev] : u \in {t \in b : t.key = s.key}}
  <2>1. T \in SUBSET Nat /\ T # {}
    BY EventAssumption DEF Statement
  <2>2. PICK i \in T : \A j \in T : i <= j
    BY <2>1, LeastNat
  <2>3. PICK u \in b : u.key = s.key /\ i = EventId[u.ev]
    BY <2>2
  <2>4. [key |-> u.key, id |-> EventId[u.ev]] \in NewClaims(b)
    BY <1>5, <2>2, <2>3 DEF NewClaims
  <2> QED
    BY <1>1, <1>4, <1>5, <2>3, <2>4
<1>6. CASE \E c \in keys : c.key = s.key /\ s.key # NoKey
  BY <1>1, <1>4, <1>6
<1>7. CASE s.key = NoKey /\ ~ \E r \in rows : EventId[r.ev] = EventId[s.ev]
  BY <1>2, <1>7 DEF NewRows
<1> QED
  BY <1>3, <1>5, <1>6, <1>7

\* Rows stay, and so what is merged stays merged.
LEMMA MergedStays ==
  ASSUME rows \subseteq rows'
  PROVE  \A e \in Events : Merged(e) => Merged(e)'
  BY DEF Merged

ScanOK(m) ==
  /\ pc[m] = "commit" => \A e \in page[m] :
       RemoteExportAllowed(e, kind[m]) =>
         Merged(e) \/ [ev |-> e, key |-> DedupeKey[e]] \in batch[m]
  /\ pc[m] # "idle" => \A e \in store[m] \ page[m] :
       EventId[e] <= after[m] /\ RemoteExportAllowed(e, kind[m]) => Merged(e)

\* A step elsewhere leaves a Mac's scan as it was, while rows are added.
LEMMA ScanElsewhere ==
  ASSUME TypeOK, rows \subseteq rows', NEW n \in Macs, ScanOK(n),
         pc'[n] = pc[n], page'[n] = page[n], kind'[n] = kind[n],
         batch'[n] = batch[n], store'[n] = store[n], after'[n] = after[n]
  PROVE  ScanOK(n)'
<1>1. page[n] \subseteq Events /\ store[n] \subseteq Events
  BY DEF TypeOK
<1> QED
  BY <1>1, MergedStays DEF ScanOK

\* What a lookup leaves out of the transaction has its row.
LEMMA LookupCovers ==
  ASSUME IInv, ClaimsBacked, NEW m \in Macs, NEW e \in page[m],
         RemoteExportAllowed(e, kind[m])
  PROVE  Merged(e) \/ [ev |-> e, key |-> DedupeKey[e]] \in Statements(m)
<1>1. RemoteDedupeKey(e, sessions[m]) = DedupeKey[e] /\ e \in Events
  BY DEF IInv, LocalOK, TypeOK, RemoteDedupeKey
<1>2. CASE DedupeKey[e] \in KnownDedupeKeys(m)
  <2>1. PICK c \in keys : c.key = DedupeKey[e]
    BY <1>2 DEF KnownDedupeKeys
  <2>2. PICK r \in rows : DedupeKey[r.ev] = c.key
    BY DEF ClaimsBacked
  <2>3. r.ev \in Events /\ DedupeKey[e] # NoKey
    BY <1>2, EventAssumption DEF IInv, TypeOK, Statement, KnownDedupeKeys
  <2>4. Identity[r.ev] = Identity[e]
    BY <1>1, <2>1, <2>2, <2>3 DEF Identity
  <2> QED
    BY <2>4 DEF Merged
<1>3. CASE DedupeKey[e] \notin KnownDedupeKeys(m)
  BY <1>1, <1>3 DEF Statements
<1> QED
  BY <1>2, <1>3

\* Every step keeps what the scans have passed merged.
LEMMA ScanStep ==
  ASSUME SnapshotPush, IdDeterminesKey, IInv, ClaimsBacked, ClaimsBacked', ScanInv, Next
  PROVE  ScanInv'
<1> USE DEF IInv
<1>1. \A n \in Macs : ScanOK(n)
  BY DEF ScanInv, CommitCovers, ScannedMerged, ScanOK
<1>2. SUFFICES Finite' /\ \A n \in Macs : ScanOK(n)'
  BY DEF ScanInv, CommitCovers, ScannedMerged, ScanOK
<1>3. \A m \in Macs : IsFiniteSet(history[m]) /\ IsFiniteSet(store[m])
  BY FS_Subset DEF ScanInv, Finite, LocalOK
<1>4. ASSUME NEW m \in Macs, Record(m) PROVE Finite' /\ \A n \in Macs : ScanOK(n)'
  <2>1. PICK e \in Origin[m] : history' = [history EXCEPT ![m] = @ \cup {e}]
    BY <1>4 DEF Record
  <2>2. Finite'
    BY <1>3, <2>1, FS_AddElement DEF Finite, TypeOK
  <2> QED
    BY <1>1, <1>4, <2>2, ScanElsewhere DEF Record, remote, job
<1>5. ASSUME NEW m \in Macs, UNCHANGED history, \A n \in Macs \ {m} : ScanOK(n)',
             ScanOK(m)'
      PROVE  Finite' /\ \A n \in Macs : ScanOK(n)'
  BY <1>3, <1>5 DEF Finite
<1>6. ASSUME NEW m \in Macs, Step(m) \/ Interrupt(m) \/ DeliverLate(m),
             NEW n \in Macs \ {m}
      PROVE  ScanOK(n)'
  <2>1. rows \subseteq rows'
    BY <1>6 DEF Step, Begin, ReadPage, Lookup, Commit, Finish, Interrupt, DeliverLate,
                Apply, remote
  <2>2. /\ pc'[n] = pc[n] /\ page'[n] = page[n] /\ kind'[n] = kind[n]
        /\ batch'[n] = batch[n] /\ store'[n] = store[n] /\ after'[n] = after[n]
    BY <1>6 DEF Step, Begin, ReadPage, Lookup, Commit, Finish, Interrupt, DeliverLate,
                job, TypeOK
  <2> QED
    BY <1>1, <2>1, <2>2, ScanElsewhere
<1>7. ASSUME NEW m \in Macs, Begin(m) PROVE ScanOK(m)'
  <2>1. /\ pc'[m] = "read" /\ after'[m] = 0 /\ store'[m] = history[m]
        /\ UNCHANGED history
    BY <1>7 DEF Begin, TypeOK
  <2>2. \A e \in history[m] : ~ (EventId[e] <= 0)
    BY EventAssumption DEF TypeOK
  <2> QED
    BY <2>1, <2>2 DEF ScanOK
<1>8. ASSUME NEW m \in Macs, ReadPage(m) PROVE ScanOK(m)'
  <2> DEFINE events == PageAfter(store[m], after[m])
  <2>1. PICK last \in events :
          /\ page' = [page EXCEPT ![m] = events]
          /\ after' = [after EXCEPT ![m] = EventId[last]]
    BY <1>8 DEF ReadPage, Scanned, SnapshotPush
  <2>2. /\ pc[m] = "read" /\ pc'[m] = "lookup"
        /\ UNCHANGED <<store, kind, rows>> /\ page[m] = {}
        /\ page'[m] = events /\ after'[m] = EventId[last]
    BY <1>8, <2>1 DEF ReadPage, remote, TypeOK
  <2>3. ASSUME NEW e \in store[m] \ events, EventId[e] <= EventId[last],
               RemoteExportAllowed(e, kind[m])
        PROVE  Merged(e)
    <3>1. ~ EventId[e] > after[m]
      BY <1>3, <2>3, PageIsInitial DEF TypeOK
    <3>2. EventId[e] <= after[m]
      BY <3>1, EventAssumption DEF TypeOK
    <3> QED
      BY <1>1, <2>2, <2>3, <3>2 DEF ScanOK
  <2> QED
    BY <2>2, <2>3 DEF ScanOK, Merged
<1>9. ASSUME NEW m \in Macs, Lookup(m) PROVE ScanOK(m)'
  <2>1. /\ pc[m] = "lookup" /\ UNCHANGED <<rows, store, kind, after>>
        /\ batch'[m] = Statements(m)
    BY <1>9 DEF Lookup, remote, TypeOK
  <2>2. CASE Statements(m) = {}
    <3>1. pc'[m] = "read" /\ page'[m] = {}
      BY <1>9, <2>2 DEF Lookup, TypeOK
    <3>2. \A e \in page[m] : RemoteExportAllowed(e, kind[m]) => Merged(e)
      BY <2>2, LookupCovers
    <3> QED
      BY <1>1, <2>1, <3>1, <3>2 DEF ScanOK, Merged
  <2>3. CASE Statements(m) # {}
    <3>1. pc'[m] = "commit" /\ page'[m] = page[m]
      BY <1>9, <2>3 DEF Lookup, TypeOK
    <3> QED
      BY <1>1, <2>1, <3>1, LookupCovers DEF ScanOK, Merged
  <2> QED
    BY <2>2, <2>3
<1>10. ASSUME NEW m \in Macs, Commit(m) PROVE ScanOK(m)'
  <2>1. /\ pc[m] = "commit" /\ pc'[m] = "read" /\ page'[m] = {}
        /\ UNCHANGED <<store, kind, after>> /\ Apply(batch[m]) /\ rows \subseteq rows'
    BY <1>10 DEF Commit, TypeOK, Apply
  <2>2. batch[m] \in SUBSET Statement /\ Prepared(batch[m], m)
    BY DEF TypeOK, BatchesOK
  <2>3. ASSUME NEW e \in page[m], RemoteExportAllowed(e, kind[m]) PROVE Merged(e)'
    <3>1. e \in Events
      BY DEF TypeOK
    <3>2. CASE Merged(e)
      BY <2>1, <3>1, <3>2, MergedStays
    <3>3. CASE [ev |-> e, key |-> DedupeKey[e]] \in batch[m]
      <4> DEFINE s == [ev |-> e, key |-> DedupeKey[e]]
      <4>1. s \in batch[m] /\ s.ev = e
        BY <3>3
      <4> HIDE DEF s
      <4>2. Merged(s.ev)'
        BY <2>1, <2>2, <4>1, ApplyMergesAll
      <4> QED
        BY <4>1, <4>2
    <3> QED
      BY <1>1, <2>1, <2>3, <3>2, <3>3 DEF ScanOK
  <2>4. \A e \in store[m] : Merged(e) => Merged(e)'
    BY <2>1, MergedStays DEF TypeOK
  <2> QED
    BY <1>1, <2>1, <2>3, <2>4 DEF ScanOK
<1>11. ASSUME NEW m \in Macs, Finish(m) \/ Interrupt(m) PROVE ScanOK(m)'
  BY <1>11 DEF Finish, Interrupt, TypeOK, ScanOK
<1>12. ASSUME NEW m \in Macs, DeliverLate(m) PROVE ScanOK(m)'
  <2>1. rows \subseteq rows' /\ UNCHANGED <<pc, kind, store, after, page, batch>>
    BY <1>12 DEF DeliverLate, Apply, job
  <2> QED
    BY <1>1, <2>1, ScanElsewhere
<1>13. ASSUME NEW m \in Macs, Step(m) \/ Interrupt(m) \/ DeliverLate(m)
       PROVE  Finite' /\ \A n \in Macs : ScanOK(n)'
  <2>1. UNCHANGED history
    BY <1>13 DEF Step, Begin, ReadPage, Lookup, Commit, Finish, Interrupt, DeliverLate
  <2> QED
    BY <1>5, <1>6, <1>7, <1>8, <1>9, <1>10, <1>11, <1>12, <1>13, <2>1 DEF Step
<1> QED
  BY <1>4, <1>13 DEF Next

\* Whatever the store held when a push began and its scan has passed is in the
\* database, under its own name or a copy's (turso.rs:919-926), if pushes read
\* snapshots and a UUID determines its key.
THEOREM ScanComplete ==
  ASSUME SnapshotPush, IdDeterminesKey PROVE Spec => []ScannedMerged
<1>1. Init => ScanInv
  BY FS_EmptySet DEF Init, ScanInv, Finite, CommitCovers, ScannedMerged
<1>2. /\ IInv /\ ClaimsBacked /\ ClaimsBacked' /\ ScanInv /\ [Next]_vars
      => ScanInv'
  <2>1. ASSUME ScanInv, UNCHANGED vars PROVE ScanInv'
    BY <2>1 DEF vars, remote, job, ScanInv, Finite, CommitCovers, ScannedMerged, Merged
  <2> QED
    BY <2>1, ScanStep
<1>3. ScanInv => ScannedMerged
  BY DEF ScanInv
<1> QED
  BY <1>1, <1>2, <1>3, Invariance, ClaimSafety, PTL DEF Spec

-----------------------------------------------------------------------------
(* No retraction, and the refinement. *)

\* A transaction keeps every claim, row and searchable event.
LEMMA ApplyGrows ==
  ASSUME TypeOK, SearchOK, NEW b \in SUBSET Statement, Apply(b)
  PROVE  /\ keys \subseteq keys'
         /\ rows \subseteq rows'
         /\ \A i \in Ids : search[i] > 0 => search'[i] > 0
<1>1. ASSUME NEW i \in Ids, search[i] > 0 PROVE search'[i] > 0
  <2>1. PICK r \in rows : EventId[r.ev] = i
    BY <1>1 DEF SearchOK
  <2>2. r \in rows'
    BY DEF Apply
  <2> QED
    BY <1>1, <2>1, <2>2, ApplySearch DEF SearchOK
<1> QED
  BY <1>1 DEF Apply

\* No step of any push, retried or late, takes back or hides what an earlier
\* one stored.
THEOREM Retention == ASSUME SnapshotPush PROVE Spec => NoRetraction
<1> DEFINE Grows == /\ keys \subseteq keys'
                    /\ rows \subseteq rows'
                    /\ \A i \in Ids : search[i] > 0 => search'[i] > 0
<1>1. IInv /\ [Next]_vars => [Grows]_vars
  <2> SUFFICES ASSUME IInv, Next PROVE Grows
    OBVIOUS
  <2>1. CASE UNCHANGED <<keys, rows, search>>
    BY <2>1
  <2>2. ASSUME NEW m \in Macs, Commit(m) PROVE Grows
    <3>1. batch[m] \in SUBSET Statement
      BY DEF IInv, TypeOK
    <3> QED
      BY <2>2, <3>1, ApplyGrows DEF Commit, IInv
  <2>3. ASSUME NEW m \in Macs, DeliverLate(m) PROVE Grows
    <3>1. PICK b \in late[m] : Apply(b)
      BY <2>3 DEF DeliverLate
    <3>2. b \in SUBSET Statement
      BY DEF IInv, TypeOK
    <3> QED
      BY <3>1, <3>2, ApplyGrows DEF IInv
  <2> QED
    BY <2>1, <2>2, <2>3
    DEF Next, Step, Record, Begin, ReadPage, Finish, Lookup, Interrupt, remote
<1> QED
  BY <1>1, Invariance, PTL DEF Spec, NoRetraction

\* The timeline of the refinement is the set of stored events.
Stored == {r.ev : r \in rows}

TimelineIsStored ==
  {r.ev : r \in {s \in rows : search[EventId[s.ev]] = 1}} = Stored

\* Every stored event is searchable.
LEMMA StoredIsSearchable ==
  ASSUME TypeOK, SearchOK
  PROVE  TimelineIsStored
<1>1. ASSUME NEW s \in rows PROVE search[EventId[s.ev]] = 1
  <2>1. EventId[s.ev] \in Ids
    BY DEF TypeOK, Statement, Ids
  <2> QED
    BY <2>1 DEF SearchOK
<1> QED
  BY <1>1 DEF TimelineIsStored, Stored

\* A transaction is one Merge of the shared timeline.
LEMMA ApplyMerges ==
  ASSUME TimelineIsStored, TimelineIsStored', OneRowPerProviderEvent',
         NEW m \in Macs, NEW b \in SUBSET Statement, Prepared(b, m), Apply(b),
         UNCHANGED history
  PROVE  Timeline!Merge
<1> DEFINE S == {s.ev : s \in NewRows(b)}
<1>1. Stored' = Stored \cup S
  BY DEF Stored, Apply
<1>2. S \in SUBSET ((UNION {history[n] : n \in Macs})
                     \cap {e \in Events : Visibility[e] # "withheld"})
  <2> SUFFICES ASSUME NEW s \in NewRows(b)
               PROVE  /\ s.ev \in UNION {history[n] : n \in Macs}
                      /\ s.ev \in Events
                      /\ Visibility[s.ev] # "withheld"
    OBVIOUS
  <2>1. s \in b /\ s \in Statement
    BY DEF NewRows
  <2>2. s.ev \in history[m] /\ Visibility[s.ev] # "withheld"
    BY <2>1 DEF Prepared
  <2> QED
    BY <2>1, <2>2 DEF Statement
<1>3. Timeline!NoCopies(Stored')
  BY DEF Timeline!NoCopies, OneRowPerProviderEvent, Stored
<1> HIDE DEF S
<1>4. Timeline!NoCopies(Stored \cup S) /\ Stored' = Stored \cup S
  BY <1>1, <1>3
<1>5. \E T \in SUBSET ((UNION {history[n] : n \in Macs})
                       \cap {e \in Events : Visibility[e] # "withheld"}) :
        Timeline!NoCopies(Stored \cup T) /\ Stored' = Stored \cup T
  BY <1>2, <1>4
<1> QED
  BY <1>5 DEF Timeline!Merge, TimelineIsStored

\* Every step of the pushes is a step of the shared timeline or leaves it alone.
LEMMA StepRefinement ==
  ASSUME IInv, TimelineIsStored, TimelineIsStored', OneRowPerProviderEvent',
         [Next]_vars
  PROVE  [Timeline!Next]_(Timeline!tlvars)
<1>1. ASSUME NEW m \in Macs, Record(m) PROVE Timeline!Record(m)
  <2>1. UNCHANGED <<rows, search>>
    BY <1>1 DEF Record, remote
  <2>2. PICK e \in Origin[m] :
          /\ \A f \in history[m] : EventId[f] # EventId[e]
          /\ history' = [history EXCEPT ![m] = @ \cup {e}]
    BY <1>1 DEF Record
  <2>3. e \in Events \ history[m]
    BY <2>2, EventAssumption
  <2> QED
    BY <2>1, <2>2, <2>3 DEF Timeline!Record
<1>2. ASSUME NEW m \in Macs, Commit(m) PROVE Timeline!Merge
  <2>1. batch[m] \in SUBSET Statement /\ Prepared(batch[m], m)
    BY DEF IInv, TypeOK, BatchesOK
  <2> QED
    BY <1>2, <2>1, ApplyMerges DEF Commit
<1>3. ASSUME NEW m \in Macs, DeliverLate(m) PROVE Timeline!Merge
  <2>1. PICK b \in late[m] : Apply(b)
    BY <1>3 DEF DeliverLate
  <2>2. b \in SUBSET Statement /\ Prepared(b, m)
    BY DEF IInv, TypeOK, BatchesOK
  <2> QED
    BY <1>3, <2>1, <2>2, ApplyMerges DEF DeliverLate
<1>4. CASE UNCHANGED <<history, rows, search>>
  BY <1>4 DEF Timeline!tlvars
<1> QED
  BY <1>1, <1>2, <1>3, <1>4
  DEF Next, Step, Begin, ReadPage, Finish, Lookup, Interrupt, vars, remote,
      Timeline!Next

\* Pages, lookups, transactions, interruptions and late requests of any
\* number of Macs implement one timeline that grows by recorded, shareable
\* events and never holds two copies of one (README.md:110, 210).
THEOREM Refinement == ASSUME SnapshotPush PROVE Spec => ImplementsTimeline
<1>1. Init => Timeline!Init
  BY DEF Init, Timeline!Init
<1>2. IInv => TimelineIsStored /\ OneRowPerProviderEvent
  BY StoredIsSearchable, OneRow DEF IInv
<1>3. /\ IInv /\ TimelineIsStored /\ TimelineIsStored'
      /\ OneRowPerProviderEvent' /\ [Next]_vars
      => [Timeline!Next]_(Timeline!tlvars)
  BY StepRefinement
<1> QED
  BY <1>1, <1>2, <1>3, Invariance, PTL
  DEF Spec, ImplementsTimeline, Timeline!Spec

-----------------------------------------------------------------------------
(* The projection of a snapshot, with uploads at any moment.  First what    *)
(* `LIMIT BatchSize` and the highest event id are.                          *)

LEMMA FiniteImage ==
  ASSUME NEW S, IsFiniteSet(S), NEW f, DOMAIN f = S, f = [x \in S |-> f[x]]
  PROVE  IsFiniteSet({f[x] : x \in S})
<1>1. f \in Surjection(S, {f[x] : x \in S})
  BY DEF Surjection
<1> QED
  BY <1>1, FS_Surjection

\* A finite set of numbers has a greatest one.
LEMMA GreatestNat ==
  ASSUME NEW S \in SUBSET Nat, IsFiniteSet(S), S # {}
  PROVE  \E x \in S : \A y \in S : y <= x
<1> DEFINE Above(x) == {y \in S : y > x}
           T == {Above(x) : x \in S}
<1>1. T \subseteq FiniteSubsetsOf(Nat) /\ T # {}
  <2>1. ASSUME NEW x \in S PROVE Above(x) \in FiniteSubsetsOf(Nat)
    BY FS_Subset DEF FiniteSubsetsOf
  <2> QED
    BY <2>1
<1>2. PICK x \in S : \A V \in T : <<V, Above(x)>> \notin StrictSubsetOrdering(Nat)
  <2> HIDE DEF T
  <2>1. PICK U \in T : \A V \in T : <<V, U>> \notin StrictSubsetOrdering(Nat)
    BY <1>1, FS_StrictSubsetOrderingWellFounded, WFMin
  <2> QED
    BY <2>1 DEF T
<1>3. ASSUME NEW y \in S, y > x PROVE FALSE
  <2>0. x \in Nat /\ y \in Nat /\ \A z \in S : z \in Nat
    OBVIOUS
  <2>1. y \in Above(x) /\ y \notin Above(y) /\ Above(y) \subseteq Above(x)
    <3>1. y > x /\ ~(y > y)
      BY <1>3, <2>0
    <3>2. \A z \in S : z > y => z > x
      BY <1>3, <2>0
    <3> QED
      BY <3>1, <3>2
  <2>2. /\ Above(x) \in SUBSET Nat /\ Above(y) \in SUBSET Nat
        /\ Above(y) # Above(x) /\ Above(y) \in T
    BY <2>1
  <2> HIDE DEF Above, T
  <2>3. <<Above(y), Above(x)>> \in StrictSubsetOrdering(Nat)
    BY <2>1, <2>2 DEF StrictSubsetOrdering
  <2> QED
    BY <1>2, <2>2, <2>3
<1> QED
  BY <1>3

\* A batch of ids is a beginning of what is left, and all of itself.
LEMMA LowestFacts ==
  ASSUME NEW S \in SUBSET Nat, IsFiniteSet(S)
  PROVE  /\ Lowest(S) \subseteq S
         /\ \A i \in Lowest(S), j \in S : j < i => j \in Lowest(S)
         /\ S # {} => Lowest(S) # {}
         /\ Lowest(Lowest(S)) = Lowest(S)
<1> DEFINE Below(U, i) == {j \in U : j < i}
<1>1. Lowest(S) = {i \in S : Cardinality(Below(S, i)) < BatchSize}
  BY DEF Lowest
<1>2. Lowest(S) \subseteq S
  BY <1>1
<1>3. ASSUME NEW U \in SUBSET S, NEW i \in Nat, NEW k \in Nat, i <= k,
             Cardinality(Below(S, k)) < BatchSize
      PROVE  Cardinality(Below(U, i)) < BatchSize
  <2>1. IsFiniteSet(Below(S, k)) /\ Below(U, i) \in SUBSET Below(S, k)
    <3>1. Below(S, k) \in SUBSET S /\ \A z \in S : z \in Nat
      OBVIOUS
    <3>2. Below(U, i) \subseteq Below(S, k)
      <4>1. ASSUME NEW j \in U, j < i PROVE j \in S /\ j < k
        BY <1>3, <3>1, <4>1
      <4> QED
        BY <4>1
    <3> QED
      BY <3>1, <3>2, FS_Subset
  <2> HIDE DEF Below
  <2>2. /\ Cardinality(Below(S, k)) \in Nat /\ Cardinality(Below(U, i)) \in Nat
        /\ Cardinality(Below(U, i)) <= Cardinality(Below(S, k))
    BY <2>1, FS_Subset, FS_CardinalityType
  <2> QED
    BY <1>3, <2>2, SnapshotAssumption DEF SnapshotAssumption
<1>4. ASSUME NEW i \in Lowest(S), NEW j \in S, j < i PROVE j \in Lowest(S)
  <2>1. Cardinality(Below(S, i)) < BatchSize /\ i \in Nat /\ j \in Nat /\ S \in SUBSET S
    BY <1>1
  <2> HIDE DEF Below
  <2>2. j <= i
    BY <1>4, <2>1
  <2> QED
    BY <1>1, <1>3, <2>1, <2>2
<1>5. ASSUME S # {} PROVE Lowest(S) # {}
  <2>1. PICK x \in S : \A y \in S : x <= y
    BY <1>5, LeastNat
  <2>2. Below(S, x) = {}
    <3>1. \A z \in S : z \in Nat
      OBVIOUS
    <3>2. \A z \in S : ~(z < x)
      BY <2>1, <3>1
    <3> QED
      BY <3>2
  <2> QED
    BY <1>1, <2>2, FS_EmptySet, SnapshotAssumption DEF SnapshotAssumption
<1>6. Lowest(Lowest(S)) = Lowest(S)
  <2>1. Lowest(Lowest(S)) =
          {i \in Lowest(S) : Cardinality(Below(Lowest(S), i)) < BatchSize}
    BY DEF Lowest
  <2>2. ASSUME NEW i \in Lowest(S)
        PROVE  Cardinality(Below(Lowest(S), i)) < BatchSize
    <3> HIDE DEF Below
    <3>1. Cardinality(Below(S, i)) < BatchSize /\ i \in Nat
      BY <1>1
    <3> QED
      BY <1>2, <1>3, <3>1
  <2> HIDE DEF Below
  <2> QED
    BY <2>1, <2>2
<1> QED
  BY <1>2, <1>4, <1>5, <1>6

\* Finitely many rows, now or after a step, have a highest id.
LEMMA HighestId ==
  ASSUME NEW R \in SUBSET Statement, IsFiniteSet(R), R # {}
  PROVE  \E x \in {EventId[r.ev] : r \in R} : \A y \in {EventId[r.ev] : r \in R} : y <= x
<1> DEFINE f == [r \in R |-> EventId[r.ev]]
           I == {f[r] : r \in R}
<1>1. DOMAIN f = R /\ f = [r \in R |-> f[r]]
  OBVIOUS
<1>2. I \in SUBSET Nat /\ I # {}
  BY EventAssumption DEF Statement
<1>3. IsFiniteSet(I)
  <2> HIDE DEF f
  <2> QED
    BY <1>1, FiniteImage
<1>4. PICK x \in I : \A y \in I : y <= x
  <2> HIDE DEF I
  <2> QED
    BY <1>2, <1>3, GreatestNat
<1> QED
  BY <1>4

\* Whatever is on its way is finite.
AllFinite ==
  /\ IsFiniteSet(rows)
  /\ \A m \in Macs : /\ IsFiniteSet(history[m]) /\ IsFiniteSet(store[m])
                     /\ IsFiniteSet(page[m]) /\ IsFiniteSet(batch[m])
                     /\ \A b \in late[m] : IsFiniteSet(b)

OwnsKey ==
  \A r \in rows : r.key # NoKey => [key |-> r.key, id |-> EventId[r.ev]] \in keys

\* The projection adds search rows to events of the snapshot and to uploads that
\* crossed a batch only.
OthersOnce ==
  \A i \in Ids \ SnapshotIds :
    IF i \in RowIds THEN search[i] > 0 /\ (i \notin crossed => search[i] = 1)
    ELSE search[i] = 0

CopiedSearchable == crossed = {} => \A i \in SnapshotIds \cap RowIds : search[i] > 0

RemoteInv == OwnsKey /\ OthersOnce /\ CopiedSearchable

\* Events of the snapshot that are still to come, and will, come behind all rows.
CopiedSoFar ==
  \A i \in SnapshotIds \ (RowIds \cup skipped) : \A j \in RowIds : j < i

AllCopied == SnapshotIds \ skipped \subseteq RowIds

\* While a batch is prepared only uploads that cross it get behind its position; a
\* projection that has added nothing there has copied all.
Copying ==
  /\ projector \in {"idle", "prepare", "copy", "compare"}
  /\ behind \in RowIds \cup {0}
  /\ ready \in BOOLEAN
  /\ projector = "copy" => \A j \in RowIds : (j > behind => j \in crossed)
  /\ projector = "compare" /\ (\A j \in RowIds : j <= behind) => AllCopied
  /\ ready => AllCopied

ProjectionInv == CopiedSoFar /\ Copying

DatabaseInv == TypeOK /\ AllFinite /\ RemoteInv /\ ProjectionInv

LEMMA IdTypes ==
  ASSUME TypeOK
  PROVE  /\ RowIds \subseteq Nat \ {0} /\ RowIds \subseteq Ids
         /\ SnapshotIds \subseteq Nat \ {0} /\ SnapshotIds \subseteq Ids
<1>1. rows \in SUBSET Statement BY DEF TypeOK
<1>2. RowIds \subseteq Nat \ {0} /\ RowIds \subseteq Ids
  BY <1>1, EventAssumption DEF Statement, RowIds, Ids
<1>3. SnapshotIds \subseteq Nat \ {0} /\ SnapshotIds \subseteq Ids
  BY SnapshotAssumption, EventAssumption DEF SnapshotAssumption, SnapshotIds, Ids
<1> QED BY <1>2, <1>3

\* The position of the projection is at the last of its rows.
LEMMA MaxFacts ==
  ASSUME TypeOK, AllFinite
  PROVE  MaxEventId \in RowIds \cup {0} /\ \A j \in RowIds : j <= MaxEventId
<1>1. rows \in SUBSET Statement /\ IsFiniteSet(rows) BY DEF TypeOK, AllFinite
<1>2. CASE rows = {} BY <1>2 DEF MaxEventId, RowIds
<1>3. CASE rows # {}
  <2>1. \E x \in RowIds : \A y \in RowIds : y <= x
    BY <1>1, <1>3, HighestId DEF RowIds
  <2> QED BY <1>3, <2>1 DEF MaxEventId
<1> QED BY <1>2, <1>3

\* A transaction of an upload is the search row of each of its ids.
LEMMA ApplyKeepsFound ==
  ASSUME DatabaseInv, NEW b \in SUBSET Statement, IsFiniteSet(b), Apply(b),
         crossed \subseteq crossed'
  PROVE  RemoteInv' /\ IsFiniteSet(rows') /\ RowIds \subseteq RowIds'
<1>1. /\ keys' = keys \cup NewClaims(b) /\ rows' = rows \cup NewRows(b)
      /\ NewRows(b) \subseteq b
      /\ \A i \in Ids : search'[i] = IF \E s \in b : EventId[s.ev] = i
                                     THEN IF i \in RowIds' THEN 1 ELSE 0
                                     ELSE search[i]
  BY DEF Apply, NewRows, RowIds
<1>2. IsFiniteSet(rows')
  <2>1. IsFiniteSet(NewRows(b))
    BY <1>1, FS_Subset
  <2> QED
    BY <1>1, <2>1, FS_Union DEF DatabaseInv, AllFinite
<1>3. OwnsKey'
  BY <1>1 DEF OwnsKey, NewRows, DatabaseInv, RemoteInv
<1>4. ASSUME NEW i \in RowIds', i \notin RowIds PROVE \E s \in b : EventId[s.ev] = i
  BY <1>1, <1>4 DEF RowIds
<1>5. RowIds \subseteq RowIds'
  BY <1>1 DEF RowIds
<1>6. OthersOnce'
  <2> SUFFICES ASSUME NEW i \in Ids \ SnapshotIds
               PROVE  IF i \in RowIds' THEN search'[i] > 0 /\ (i \notin crossed' => search'[i] = 1)
                      ELSE search'[i] = 0
    BY DEF OthersOnce, SnapshotIds
  <2>1. IF i \in RowIds THEN search[i] > 0 /\ (i \notin crossed => search[i] = 1)
        ELSE search[i] = 0
    BY DEF DatabaseInv, RemoteInv, OthersOnce
  <2> QED
    BY <1>1, <1>4, <1>5, <2>1
<1>7. CopiedSearchable'
  <2>1. SnapshotIds \subseteq Ids
    BY IdTypes DEF DatabaseInv
  <2> QED
    BY <1>1, <1>4, <2>1 DEF CopiedSearchable, SnapshotIds, DatabaseInv, RemoteInv
<1> QED
  BY <1>2, <1>3, <1>5, <1>6, <1>7 DEF RemoteInv

\* What an upload makes of the position of the projection is in its marks.
LEMMA MarksKeep ==
  ASSUME DatabaseInv, TypeOK', RowIds \subseteq RowIds', UNCHANGED projection,
         crossed' = crossed \cup {i \in RowIds' \ RowIds : projector = "copy" /\ i > behind},
         skipped' = skipped \cup
           {i \in SnapshotIds \ RowIds' : \E j \in RowIds' \ RowIds : j > i}
  PROVE  ProjectionInv'
<1>1. UNCHANGED <<projector, behind, ready>> BY DEF projection
<1>2. RowIds' \subseteq Nat /\ SnapshotIds \subseteq Nat /\ SnapshotIds' = SnapshotIds
  <2>1. rows' \in SUBSET Statement BY DEF TypeOK
  <2>2. RowIds' \subseteq Nat BY <2>1, EventAssumption DEF Statement, RowIds
  <2> QED BY <2>2, IdTypes DEF DatabaseInv, SnapshotIds
<1>3. CopiedSoFar /\ Copying BY DEF DatabaseInv, ProjectionInv
<1>4. CopiedSoFar'
  <2> SUFFICES ASSUME NEW i \in SnapshotIds, i \notin RowIds', i \notin skipped',
                      NEW j \in RowIds'
               PROVE  j < i
    BY <1>2 DEF CopiedSoFar
  <2>1. CASE j \in RowIds BY <1>3, <2>1 DEF CopiedSoFar
  <2>2. CASE j \notin RowIds
    <3>1. ~ (j > i) /\ j # i BY <2>2
    <3> QED BY <1>2, <3>1
  <2> QED BY <2>1, <2>2
<1>5. AllCopied => AllCopied' BY <1>2 DEF AllCopied
<1>6. Copying' BY <1>1, <1>3, <1>5 DEF Copying
<1> QED BY <1>4, <1>6 DEF ProjectionInv

\* A batch of the projection adds the next ids of the snapshot and a search
\* row for each, unless an upload got between; when all is copied, it adds none.
LEMMA CopyKeepsFound ==
  ASSUME DatabaseInv, CopyBatch, projector = "copy", UNCHANGED <<crossed, skipped, behind>>
  PROVE  /\ RemoteInv' /\ IsFiniteSet(rows') /\ CopiedSoFar'
         /\ (rows \subseteq Statement)' /\ (search \in [Ids -> Nat])'
         /\ RowIds \subseteq RowIds'
         /\ (\A j \in RowIds' : j <= behind) => AllCopied'
<1> USE DEF DatabaseInv, RemoteInv, AllFinite, ProjectionInv
<1> DEFINE left == {i \in SnapshotIds : i > behind}
           ids == Lowest(left)
           news == {[ev |-> e, key |-> NoKey] : e \in {f \in InSnapshot : EventId[f] \in ids \ RowIds}}
           above == NotSearched(rows')
<1>1. /\ rows' = rows \cup news
      /\ search' = [i \in Ids |-> IF i \in Lowest(above) THEN search[i] + 1 ELSE search[i]]
      /\ keys' = keys
  BY DEF CopyBatch
<1>2. /\ behind \in RowIds \cup {0} /\ behind \in Nat
      /\ \A j \in RowIds : j > behind => j \in crossed
      /\ RowIds \subseteq Nat \ {0} /\ SnapshotIds \subseteq Nat \ {0} /\ SnapshotIds \subseteq Ids
  BY IdTypes DEF Copying
<1>3. IsFiniteSet(SnapshotIds)
  <2> DEFINE f == [e \in InSnapshot |-> EventId[e]]
  <2>1. SnapshotIds = {f[e] : e \in InSnapshot}
    BY DEF SnapshotIds
  <2>2. DOMAIN f = InSnapshot /\ f = [e \in InSnapshot |-> f[e]]
    OBVIOUS
  <2> HIDE DEF f
  <2> QED
    BY <2>1, <2>2, FiniteImage, SnapshotAssumption DEF SnapshotAssumption
<1>4. /\ ids \subseteq left
      /\ \A i \in ids, j \in left : j < i => j \in ids
      /\ left # {} => ids # {}
      /\ Lowest(ids) = ids
  <2>1. left \in SUBSET Nat /\ IsFiniteSet(left)
    BY <1>2, <1>3, FS_Subset
  <2> HIDE DEF left
  <2> QED
    BY <2>1, LowestFacts
<1>5. left = {i \in SnapshotIds : i > behind} OBVIOUS
<1> HIDE DEF left, ids
<1>6. ids \subseteq SnapshotIds /\ \A i \in ids : i > behind
  BY <1>4, <1>5
<1>7. RowIds' = RowIds \cup ids
  <2>1. ASSUME NEW i \in ids, i \notin RowIds PROVE i \in RowIds'
    <3>1. PICK e \in InSnapshot : EventId[e] = i
      BY <1>6 DEF SnapshotIds
    <3>2. [ev |-> e, key |-> NoKey] \in rows'
      BY <1>1, <2>1, <3>1
    <3> QED
      BY <3>1, <3>2 DEF RowIds
  <2>2. ASSUME NEW r \in rows' PROVE EventId[r.ev] \in RowIds \cup ids
    BY <1>1 DEF RowIds
  <2> QED
    BY <1>1, <2>1, <2>2 DEF RowIds
<1>8. above = {i \in RowIds' : i > behind}
  BY DEF RowIds, NotSearched
<1>9. Lowest(above) \subseteq above BY DEF Lowest
<1> HIDE DEF above
<1>10. \A i \in Ids : search[i] \in Nat
  BY DEF TypeOK
<1>11. (rows \subseteq Statement)' /\ (search \in [Ids -> Nat])'
  <2>1. news \subseteq Statement
    BY SnapshotAssumption DEF Statement, SnapshotAssumption
  <2>2. search' \in [Ids -> Nat]
    BY <1>1, <1>10
  <2> QED
    BY <1>1, <2>1, <2>2 DEF TypeOK
<1>12. IsFiniteSet(rows')
  <2> DEFINE f == [e \in InSnapshot |-> [ev |-> e, key |-> NoKey]]
             all == {f[e] : e \in InSnapshot}
  <2>1. DOMAIN f = InSnapshot /\ f = [e \in InSnapshot |-> f[e]] /\ news \subseteq all
    OBVIOUS
  <2>2. IsFiniteSet(all)
    <3> HIDE DEF f
    <3> QED
      BY <2>1, FiniteImage, SnapshotAssumption DEF SnapshotAssumption
  <2> HIDE DEF all, news
  <2>3. IsFiniteSet(news)
    BY <2>1, <2>2, FS_Subset
  <2> QED
    BY <1>1, <2>3, FS_Union
<1>13. OwnsKey'
  BY <1>1 DEF OwnsKey
<1>14. OthersOnce'
  <2> SUFFICES ASSUME NEW i \in Ids \ SnapshotIds
               PROVE  IF i \in RowIds' THEN search'[i] > 0 /\ (i \notin crossed => search'[i] = 1)
                      ELSE search'[i] = 0
    BY DEF OthersOnce, SnapshotIds
  <2>1. IF i \in RowIds THEN search[i] > 0 /\ (i \notin crossed => search[i] = 1)
        ELSE search[i] = 0
    BY DEF OthersOnce
  <2>2. i \in RowIds' <=> i \in RowIds BY <1>6, <1>7
  <2>3. search'[i] = search[i] \/ (search'[i] = search[i] + 1 /\ i \in above)
    BY <1>1, <1>9
  <2>4. i \in above => i \in crossed /\ i \in RowIds BY <1>2, <1>8, <2>2
  <2> QED BY <1>10, <2>1, <2>2, <2>3, <2>4
<1>15. CopiedSearchable'
  <2> SUFFICES ASSUME crossed = {}, NEW i \in SnapshotIds, i \in RowIds' PROVE search'[i] > 0
    BY DEF CopiedSearchable, SnapshotIds
  <2>1. above = ids BY <1>2, <1>6, <1>7, <1>8
  <2>2. i \in Ids BY <1>2
  <2>3. search'[i] = IF i \in ids THEN search[i] + 1 ELSE search[i] BY <1>1, <1>4, <2>1, <2>2
  <2>4. i \in RowIds => search[i] > 0 BY DEF CopiedSearchable
  <2> QED BY <1>7, <1>10, <2>2, <2>3, <2>4
<1>16. ASSUME NEW i \in SnapshotIds, i \notin RowIds, i \notin skipped PROVE i \in left
  <2>1. \A j \in RowIds : j < i BY <1>16 DEF CopiedSoFar
  <2>2. i \in Nat \ {0} BY <1>2
  <2>3. behind < i BY <1>2, <2>1, <2>2
  <2> QED BY <1>2, <1>5, <2>2, <2>3
<1>17. CopiedSoFar'
  <2> SUFFICES ASSUME NEW i \in SnapshotIds, i \notin RowIds', i \notin skipped,
                      NEW j \in RowIds'
               PROVE  j < i
    BY DEF CopiedSoFar, SnapshotIds
  <2>1. i \notin RowIds /\ i \notin ids BY <1>7
  <2>2. CASE j \in RowIds BY <2>1, <2>2 DEF CopiedSoFar
  <2>3. CASE j \in ids
    <3>1. i \in left /\ i # j /\ ~ (i < j) BY <1>4, <1>16, <2>1, <2>3
    <3>2. i \in Nat /\ j \in Nat BY <1>2, <1>6, <2>3
    <3> QED BY <3>1, <3>2
  <2> QED BY <1>7, <2>2, <2>3
<1>18. ASSUME \A j \in RowIds' : j <= behind PROVE AllCopied'
  <2>1. ids = {}
    <3>1. \A i \in ids : i \in Nat /\ i > behind /\ i <= behind BY <1>2, <1>6, <1>7, <1>18
    <3> QED BY <1>2, <3>1
  <2>2. left = {} BY <1>4, <2>1
  <2>3. SnapshotIds' = SnapshotIds BY DEF SnapshotIds
  <2> QED BY <1>7, <1>16, <2>2, <2>3 DEF AllCopied
<1> QED
  BY <1>7, <1>11, <1>12, <1>13, <1>14, <1>15, <1>17, <1>18

\* Steps that do not touch the remote tables.
LEMMA RemoteKeepsFound ==
  ASSUME DatabaseInv, UNCHANGED <<keys, rows, search>>, crossed \subseteq crossed'
  PROVE  RemoteInv' /\ IsFiniteSet(rows') /\ RowIds' = RowIds
<1>1. RowIds' = RowIds BY DEF RowIds
<1>2. OthersOnce'
  BY <1>1 DEF DatabaseInv, RemoteInv, OthersOnce, SnapshotIds
<1> QED
  BY <1>1, <1>2 DEF DatabaseInv, AllFinite, RemoteInv, OwnsKey, CopiedSearchable, SnapshotIds

LEMMA PageFinite ==
  ASSUME NEW S, IsFiniteSet(S), NEW a
  PROVE  IsFiniteSet(PageAfter(S, a))
<1>1. PageAfter(S, a) \subseteq S
  BY DEF PageAfter
<1> QED
  BY <1>1, FS_Subset

LEMMA StatementsFinite ==
  ASSUME NEW m \in Macs, IsFiniteSet(page[m])
  PROVE  IsFiniteSet(Statements(m))
<1> DEFINE f == [e \in page[m] |-> [ev |-> e, key |-> RemoteDedupeKey(e, sessions[m])]]
           all == {f[e] : e \in page[m]}
<1>1. DOMAIN f = page[m] /\ f = [e \in page[m] |-> f[e]] /\ Statements(m) \subseteq all
  BY DEF Statements
<1> HIDE DEF f
<1>2. IsFiniteSet(all)
  BY <1>1, FiniteImage
<1> QED
  BY <1>1, <1>2, FS_Subset

LEMMA UploadKeeps ==
  ASSUME DatabaseInv, NEW m \in Macs, Upload(m)
  PROVE  DatabaseInv'
<1> USE DEF DatabaseInv
<1>1. /\ UNCHANGED projection /\ [Next]_vars
      /\ crossed' = crossed \cup {i \in RowIds' \ RowIds : projector = "copy" /\ i > behind}
      /\ skipped' = skipped \cup
           {i \in SnapshotIds \ RowIds' : \E j \in RowIds' \ RowIds : j > i}
  BY DEF Upload, Next
<1>2. TypeOK'
  BY <1>1, NextTypeOK
<1>3. ASSUME AllFinite', RemoteInv', RowIds \subseteq RowIds' PROVE DatabaseInv'
  BY <1>1, <1>2, <1>3, MarksKeep
<1>4. ASSUME AllFinite', UNCHANGED <<keys, rows, search>> PROVE DatabaseInv'
  BY <1>1, <1>3, <1>4, RemoteKeepsFound
<1>5. ASSUME Record(m) PROVE DatabaseInv'
  <2>1. /\ UNCHANGED <<keys, rows, search, pc, store, page, batch, late>>
        /\ \E e : history' = [history EXCEPT ![m] = @ \cup {e}]
    BY <1>5 DEF Record, remote, job
  <2>2. ASSUME NEW n \in Macs PROVE IsFiniteSet(history'[n])
    <3>1. IsFiniteSet(history[n])
      BY DEF AllFinite
    <3>2. history'[n] = history[n] \/ \E e : history'[n] = history[n] \cup {e}
      BY <2>1 DEF TypeOK
    <3> QED
      BY <3>1, <3>2, FS_AddElement
  <2>3. AllFinite'
    BY <2>1, <2>2 DEF AllFinite
  <2> QED
    BY <1>4, <2>1, <2>3
<1>6. ASSUME Begin(m) PROVE DatabaseInv'
  <2>1. AllFinite'
    BY <1>6 DEF Begin, AllFinite, TypeOK, remote
  <2> QED
    BY <1>4, <1>6, <2>1 DEF Begin, remote
<1>7. ASSUME ReadPage(m) PROVE DatabaseInv'
  <2>1. IsFiniteSet(PageAfter(Scanned(m), after[m]))
    BY PageFinite DEF AllFinite, Scanned
  <2>2. AllFinite'
    BY <1>7, <2>1 DEF ReadPage, AllFinite, TypeOK, remote
  <2> QED
    BY <1>4, <1>7, <2>2 DEF ReadPage, remote
<1>8. ASSUME Lookup(m) PROVE DatabaseInv'
  <2>1. IsFiniteSet(Statements(m))
    BY StatementsFinite DEF AllFinite
  <2>2. AllFinite'
    BY <1>8, <2>1, FS_EmptySet DEF Lookup, AllFinite, TypeOK, remote
  <2> QED
    BY <1>4, <1>8, <2>2 DEF Lookup, remote
<1>9. ASSUME Finish(m) PROVE DatabaseInv'
  <2>1. AllFinite'
    BY <1>9 DEF Finish, AllFinite, TypeOK, remote, job
  <2> QED
    BY <1>4, <1>9, <2>1 DEF Finish, remote
<1>10. ASSUME Interrupt(m) PROVE DatabaseInv'
  <2>1. /\ UNCHANGED <<history, keys, rows, search, store>>
        /\ batch' = [batch EXCEPT ![m] = {}] /\ page' = [page EXCEPT ![m] = {}]
        /\ late' \in {late, [late EXCEPT ![m] = @ \cup ({batch[m]} \ {{}})]}
    BY <1>10 DEF Interrupt, remote
  <2>2. \A n \in Macs : \A b \in late'[n] : IsFiniteSet(b)
    BY <2>1 DEF AllFinite, TypeOK
  <2>3. AllFinite'
    BY <2>1, <2>2, FS_EmptySet DEF AllFinite, TypeOK
  <2> QED
    BY <1>4, <2>1, <2>3
<1>11. ASSUME Commit(m) PROVE DatabaseInv'
  <2>1. batch[m] \in SUBSET Statement /\ IsFiniteSet(batch[m]) /\ Apply(batch[m])
    BY <1>11 DEF TypeOK, AllFinite, Commit
  <2>2. RemoteInv' /\ IsFiniteSet(rows') /\ RowIds \subseteq RowIds'
    BY <1>1, <2>1, ApplyKeepsFound
  <2>3. AllFinite'
    BY <1>11, <2>2, FS_EmptySet DEF Commit, AllFinite, TypeOK
  <2> QED
    BY <1>3, <2>2, <2>3
<1>12. ASSUME DeliverLate(m) PROVE DatabaseInv'
  <2>1. PICK b \in late[m] : Apply(b) /\ late' = [late EXCEPT ![m] = @ \ {b}]
    BY <1>12 DEF DeliverLate
  <2>2. b \in SUBSET Statement /\ IsFiniteSet(b)
    BY DEF TypeOK, AllFinite
  <2>3. RemoteInv' /\ IsFiniteSet(rows') /\ RowIds \subseteq RowIds'
    BY <1>1, <2>1, <2>2, ApplyKeepsFound
  <2>4. AllFinite'
    BY <1>12, <2>1, <2>3 DEF DeliverLate, AllFinite, TypeOK, job
  <2> QED
    BY <1>3, <2>3, <2>4
<1> QED
  BY <1>5, <1>6, <1>7, <1>8, <1>9, <1>10, <1>11, <1>12 DEF Upload, Step

LEMMA ProjectionKeeps ==
  ASSUME DatabaseInv, StartProject \/ ProjectStep \/ ProjectFails
  PROVE  DatabaseInv'
<1> USE DEF DatabaseInv, ProjectionInv
<1>1. ASSUME CopyBatch, projector = "copy", UNCHANGED <<behind, ready, marks>>,
             interruptions' \in Nat, projector' \in {"compare", "idle"}
      PROVE  DatabaseInv'
  <2>0. UNCHANGED <<crossed, skipped, behind, ready>> BY <1>1 DEF marks
  <2>1. /\ RemoteInv' /\ IsFiniteSet(rows') /\ CopiedSoFar'
        /\ (rows \subseteq Statement)' /\ (search \in [Ids -> Nat])'
        /\ RowIds \subseteq RowIds'
        /\ (\A j \in RowIds' : j <= behind) => AllCopied'
    BY <1>1, <2>0, CopyKeepsFound
  <2>2. UNCHANGED <<history, keys, pc, kind, store, sessions, after, page, batch, late>>
    BY <1>1 DEF CopyBatch, job
  <2>3. TypeOK'
    BY <1>1, <2>1, <2>2 DEF TypeOK
  <2>4. AllFinite'
    BY <2>1, <2>2 DEF AllFinite
  <2>5. AllCopied => AllCopied' BY <2>0, <2>1 DEF AllCopied, SnapshotIds
  <2>6. Copying'
    BY <1>1, <2>0, <2>1, <2>5 DEF Copying
  <2> QED
    BY <2>1, <2>3, <2>4, <2>6
<1>2. ASSUME UNCHANGED <<history, remote, pc, job, batch, late, marks>>, interruptions' \in Nat,
             Copying'
      PROVE  DatabaseInv'
  <2>1. UNCHANGED <<history, keys, rows, search, pc, kind, store, sessions, after, page,
                    batch, late, crossed, skipped>>
    BY <1>2 DEF remote, job, marks
  <2>2. TypeOK' /\ AllFinite'
    BY <1>2, <2>1 DEF TypeOK, AllFinite
  <2>3. RowIds' = RowIds /\ SnapshotIds' = SnapshotIds
    BY <2>1 DEF RowIds, SnapshotIds
  <2>4. RemoteInv' BY <2>1, RemoteKeepsFound
  <2>5. CopiedSoFar' BY <2>1, <2>3 DEF CopiedSoFar
  <2> QED
    BY <1>2, <2>2, <2>4, <2>5
<1>3. /\ UNCHANGED <<rows, skipped, crossed>> =>
           RowIds' = RowIds /\ AllCopied' = AllCopied
      /\ interruptions \in Nat
  BY DEF RowIds, AllCopied, SnapshotIds, TypeOK
<1>4. Copying OBVIOUS
<1>5. CASE StartProject
  <2>1. /\ UNCHANGED <<history, remote, pc, job, batch, late, interruptions, marks>>
        /\ UNCHANGED <<rows, skipped, crossed, behind, ready>> /\ projector' = "prepare"
    BY <1>5 DEF StartProject, vars, remote, marks
  <2>2. Copying' BY <1>3, <1>4, <2>1 DEF Copying
  <2> QED BY <1>2, <1>3, <2>1, <2>2
<1>6. CASE Prepare
  <2>1. /\ UNCHANGED <<history, remote, pc, job, batch, late, interruptions, marks>>
        /\ UNCHANGED <<rows, skipped, crossed, ready>> /\ projector' = "copy"
        /\ behind' = MaxEventId
    BY <1>6 DEF Prepare, vars, remote, marks
  <2>2. MaxEventId \in RowIds \cup {0} /\ \A j \in RowIds : j <= MaxEventId
    BY MaxFacts
  <2>3. \A j \in RowIds : ~ (j > MaxEventId)
    BY <2>2, IdTypes
  <2>4. Copying' BY <1>3, <1>4, <2>1, <2>2, <2>3 DEF Copying
  <2> QED BY <1>2, <1>3, <2>1, <2>4
<1>7. CASE Copy
  BY <1>1, <1>3, <1>7 DEF Copy
<1>8. CASE Compare
  <2>1. /\ UNCHANGED <<history, remote, pc, job, batch, late, interruptions, marks>>
        /\ UNCHANGED <<rows, skipped, crossed, behind>> /\ projector = "compare"
        /\ projector' \in {"idle", "prepare"}
        /\ ready' \in BOOLEAN /\ (ready' => ready \/ MaxEventId = behind)
    BY <1>4, <1>8 DEF Compare, Copying, vars, remote, marks
  <2>2. MaxEventId = behind => AllCopied
    BY <1>4, <2>1, MaxFacts DEF Copying
  <2>3. RowIds' = RowIds /\ AllCopied' = AllCopied BY <1>3, <2>1
  <2>4. ready' => AllCopied' BY <1>4, <2>1, <2>2, <2>3 DEF Copying
  <2>5. Copying' BY <1>4, <2>1, <2>3, <2>4 DEF Copying
  <2> QED BY <1>2, <1>3, <2>1, <2>5
<1>9. CASE ProjectFails
  <2>1. /\ projector # "idle" /\ projector' = "idle" /\ UNCHANGED <<behind, ready, marks>>
        /\ interruptions' \in Nat
    BY <1>3, <1>9 DEF ProjectFails
  <2>2. CASE UNCHANGED <<history, remote, pc, job, batch, late>>
    <3>1. UNCHANGED <<rows, skipped, crossed>> BY <2>1, <2>2 DEF remote, marks
    <3>2. Copying' BY <1>3, <1>4, <2>1, <3>1 DEF Copying
    <3> QED BY <1>2, <2>1, <2>2, <3>2
  <2>3. CASE projector = "copy" /\ CopyBatch
    BY <1>1, <2>1, <2>3
  <2> QED
    BY <1>9, <2>2, <2>3 DEF ProjectFails
<1> QED
  BY <1>5, <1>6, <1>7, <1>8, <1>9 DEF ProjectStep

\* The inductive invariant of a projection while uploads go on.
THEOREM DatabaseInvariance == DatabaseSpec => []DatabaseInv
<1>1. DatabaseInit => DatabaseInv
  <2> SUFFICES ASSUME DatabaseInit PROVE DatabaseInv
    OBVIOUS
  <2>1. TypeOK
    BY BoundAssumption DEF DatabaseInit, Init, TypeOK, Kinds, Statement
  <2>2. RowIds = {} /\ AllFinite
    BY FS_EmptySet DEF DatabaseInit, Init, RowIds, AllFinite
  <2>3. RemoteInv
    BY <2>2 DEF DatabaseInit, Init, RemoteInv, OwnsKey, OthersOnce, CopiedSearchable
  <2>4. ProjectionInv
    BY <2>2 DEF DatabaseInit, ProjectionInv, CopiedSoFar, Copying
  <2> QED
    BY <2>1, <2>2, <2>3, <2>4 DEF DatabaseInv
<1>2. DatabaseInv /\ [DatabaseNext]_databaseVars => DatabaseInv'
  <2>1. ASSUME DatabaseInv, UNCHANGED databaseVars PROVE DatabaseInv'
    <3>1. TypeOK'
      BY <2>1, NextTypeOK DEF databaseVars, DatabaseInv
    <3>2. /\ UNCHANGED <<keys, rows, search, projector, behind, ready, crossed, skipped>>
          /\ UNCHANGED <<history, store, page, batch, late>>
      BY <2>1 DEF databaseVars, vars, remote, job, projection, marks
    <3>3. AllFinite' BY <2>1, <3>2 DEF DatabaseInv, AllFinite
    <3>4. RemoteInv' /\ RowIds' = RowIds BY <2>1, <3>2, RemoteKeepsFound
    <3>5. ProjectionInv'
      BY <2>1, <3>2, <3>4 DEF DatabaseInv, ProjectionInv, CopiedSoFar, Copying, AllCopied,
         SnapshotIds
    <3> QED
      BY <3>1, <3>3, <3>4, <3>5 DEF DatabaseInv
  <2> QED
    BY <2>1, UploadKeeps, ProjectionKeeps DEF DatabaseNext
<1> QED
  BY <1>1, <1>2, PTL DEF DatabaseSpec

\* Each uploaded event is found (remote_snapshot_search), whatever the projection
\* copies and searches meanwhile, and once unless it crossed one of its batches.
THEOREM AlwaysFoundOnce == DatabaseSpec => []EachFoundOnce
<1>1. DatabaseInv => EachFoundOnce
  <2> SUFFICES ASSUME DatabaseInv, NEW r \in rows, NEW i, i = EventId[r.ev]
               PROVE  Hits(i) >= 1 /\ (i \notin crossed => Hits(i) = 1)
    BY DEF EachFoundOnce
  <2>1. CASE i \in SnapshotIds
    BY <2>1 DEF Hits, ProjectionHits
  <2>2. CASE i \notin SnapshotIds
    <3>1. i \in RowIds /\ i \in Ids
      BY IdTypes DEF RowIds, DatabaseInv
    <3>2. search[i] \in Nat /\ search[i] > 0 /\ (i \notin crossed => search[i] = 1)
      BY <2>2, <3>1 DEF DatabaseInv, TypeOK, RemoteInv, OthersOnce
    <3>3. r.key = NoKey \/ [key |-> r.key, id |-> i] \in keys
      BY DEF DatabaseInv, RemoteInv, OwnsKey
    <3>4. Hits(i) = search[i]
      BY <2>2, <3>2, <3>3 DEF Hits, ProjectionHits
    <3> QED
      BY <3>2, <3>4
  <2> QED
    BY <2>1, <2>2
<1> QED
  BY <1>1, DatabaseInvariance, PTL

\* When the projection says that it is ready, it has copied the whole snapshot
\* (project, remote_max_event_id) but for what uploads of higher ids have made it
\* skip, and given search rows to it if no upload crossed a batch.
THEOREM ReadyIsComplete == DatabaseSpec => []ProjectionReady
<1>1. DatabaseInv => ProjectionReady
  BY DEF DatabaseInv, RemoteInv, ProjectionInv, Copying, AllCopied, CopiedSearchable,
     ProjectionReady
<1> QED
  BY <1>1, DatabaseInvariance, PTL
=============================================================================
