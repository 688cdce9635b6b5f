------------------------- MODULE SnapshotProjection -------------------------
(***************************************************************************)
(* A database that began as an imported ctx SQLite snapshot: `ctx turso    *)
(* project` copies its events into the tables that uploads (TursoPush)     *)
(* write to, and a search reads both (crates/ctx-cli/src/commands/         *)
(* turso.rs).  The projection keeps no state of its own: after every batch *)
(* it goes on behind the highest event id it finds in the table, which     *)
(* uploads may move at any time.                                           *)
(***************************************************************************)
EXTENDS TursoPush

CONSTANTS
  InSnapshot,  \* the events of the snapshot that are not deleted
  BatchSize    \* --batch-size of `ctx turso project`

ASSUME SnapshotAssumption ==
  /\ InSnapshot \subseteq Events /\ IsFiniteSet(InSnapshot)
  /\ BatchSize \in Nat \ {0}

VARIABLES
  projector,  \* where `ctx turso project` is
  behind,     \* the highest event id when its batch was prepared (0: none)
  ready       \* it has reported that the projection is ready

\* History, which no guard reads.
VARIABLES
  crossed,  \* ids uploaded behind the position of a batch that was prepared
  skipped   \* ids of the snapshot that were not copied yet when an upload of
            \* a higher id came

projection == <<projector, behind, ready>>
marks == <<crossed, skipped>>
databaseVars == <<vars, projection, marks>>

DatabaseInit ==
  /\ Init
  /\ projector = "idle"
  /\ behind = 0
  /\ ready = FALSE
  /\ crossed = {} /\ skipped = {}

-----------------------------------------------------------------------------
(* The projection. *)

RowIds == {EventId[r.ev] : r \in rows}
SnapshotIds == {EventId[e] : e \in InSnapshot}

\* remote_max_event_id.
MaxEventId == IF rows = {} THEN 0 ELSE CHOOSE i \in RowIds : \A j \in RowIds : j <= i

\* Faulty: LIMIT without ORDER BY; the snapshot gives its last events first.
Highest(S) == {i \in S : Cardinality({j \in S : j > i}) < BatchSize}

\* ORDER BY id LIMIT BatchSize.
Lowest(S) == {i \in S : Cardinality({j \in S : j < i}) < BatchSize}

\* Faulty: the search rows are added whatever the position is.
Unsearched(R) == {EventId[r.ev] : r \in R}

\* The rows of the table behind the position.
NotSearched(R) == {EventId[r.ev] : r \in {t \in R : EventId[t.ev] > behind}}

StartProject ==
  /\ projector = "idle"
  /\ projector' = "prepare"
  /\ UNCHANGED <<vars, behind, ready, marks>>

Prepare ==
  /\ projector = "prepare"
  /\ behind' = MaxEventId
  /\ projector' = "copy"
  /\ UNCHANGED <<vars, ready, marks>>

\* One transaction: INSERT OR IGNORE the next events of the snapshot, then a
\* search row for each of the next rows of the table, whosever they are.
CopyBatch ==
  LET ids == Lowest({i \in SnapshotIds : i > behind})
  IN
  /\ rows' = rows \cup
       {[ev |-> e, key |-> NoKey] :
          e \in {f \in InSnapshot : EventId[f] \in ids \ RowIds}}
  /\ search' = [i \in Ids |->
                  IF i \in Lowest(NotSearched(rows')) THEN search[i] + 1 ELSE search[i]]
  /\ UNCHANGED <<history, keys, pc, job, batch, late>>

Copy ==
  /\ projector = "copy"
  /\ CopyBatch
  /\ projector' = "compare"
  /\ UNCHANGED <<interruptions, behind, ready, marks>>

\* No higher id than before: the projection is ready.
Compare ==
  /\ projector = "compare"
  /\ IF MaxEventId = behind
     THEN projector' = "idle" /\ ready' = TRUE
     ELSE projector' = "prepare" /\ UNCHANGED ready
  /\ UNCHANGED <<vars, behind, marks>>

\* An error, a kill or the timeout, before or after the transaction has run.
ProjectFails ==
  /\ projector # "idle"
  /\ interruptions < MaxInterruptions
  /\ interruptions' = interruptions + 1
  /\ projector' = "idle"
  /\ \/ UNCHANGED <<history, remote, pc, job, batch, late>>
     \/ projector = "copy" /\ CopyBatch
  /\ UNCHANGED <<behind, ready, marks>>

-----------------------------------------------------------------------------
(* The database with its uploads. *)

\* Uploads go on whatever the projection does.
Upload(m) ==
  /\ Record(m) \/ Step(m) \/ Interrupt(m) \/ DeliverLate(m)
  /\ LET new == RowIds' \ RowIds
     IN /\ crossed' = crossed \cup {i \in new : projector = "copy" /\ i > behind}
        /\ skipped' = skipped \cup
             {i \in SnapshotIds \ RowIds' : \E j \in new : j > i}
  /\ UNCHANGED projection

ProjectStep == Prepare \/ Copy \/ Compare

DatabaseNext ==
  \/ \E m \in Macs : Upload(m)
  \/ StartProject \/ ProjectStep \/ ProjectFails

\* The user runs the projection until it is ready.  The sync service starts
\* an import again and again, whatever pushes a user runs in between, and the
\* database answers; crashes and timeouts are finitely many.
DatabaseFairness ==
  /\ WF_databaseVars(ProjectStep)
  /\ WF_databaseVars(~ready /\ StartProject)
  /\ \A m \in Macs :
       /\ SF_databaseVars(Begin(m) /\ kind'[m] = "import" /\ Upload(m))
       /\ WF_databaseVars((ReadPage(m) \/ Lookup(m) \/ Commit(m) \/ Finish(m)) /\ Upload(m))

DatabaseSpec ==
  DatabaseInit /\ [][DatabaseNext]_databaseVars /\ DatabaseFairness

-----------------------------------------------------------------------------
(* What a search finds. *)

\* The results from the projection that have event id i.  A row is shown if
\* the event is not in the snapshot, and if it owns its key.
ProjectionHits(i) ==
  IF /\ i \notin SnapshotIds
     /\ \E r \in rows : /\ EventId[r.ev] = i
                        /\ r.key = NoKey \/ [key |-> r.key, id |-> i] \in keys
  THEN search[i] ELSE 0

\* remote_snapshot_search, for a term that every event has.
Hits(i) == (IF i \in SnapshotIds THEN 1 ELSE 0) + ProjectionHits(i)

\* Each uploaded event is found, and found once, while the projection copies
\* events, uploads copy them again, and the projection adds search rows for
\* uploaded events and deletes none (turso.rs:784, 1291-1318).  Twice is found only
\* what was uploaded between the reading of the position and the batch.
EachFoundOnce ==
  \A r \in rows : LET hits == Hits(EventId[r.ev])
                 IN hits >= 1 /\ (EventId[r.ev] \notin crossed => hits = 1)

\* When the projection says that it is ready, the whole snapshot is in it, but for
\* what an upload of a higher id has made it skip (turso.rs:770, 798, 807); and it
\* can be searched, unless an upload got between the position and the batch.
ProjectionReady ==
  ready => \A i \in SnapshotIds \ skipped :
             i \in RowIds /\ (crossed = {} => search[i] > 0)
=============================================================================
