---------------------------- MODULE SemanticIndex ----------------------------
(***************************************************************************)
(* The semantic index of crates/ctx-cli/src/semantic: the vectors of the   *)
(* sidecar vectors.sqlite, kept up to date with the documents of the store *)
(* by the daemon's semantic job (daemon.rs, indexing.rs,                   *)
(* vector_store_state.rs).                                                 *)
(*                                                                         *)
(* A document is a user's message with the last reply to it; it is known   *)
(* by the time of the message.  Imports add documents, extend them and     *)
(* take them away at any time.  A pass of the worker prunes, drains the    *)
(* dirty queue, looks at the most recent page and goes on from a stored    *)
(* cursor towards the oldest documents.  Each transaction on the sidecar   *)
(* is a step; the process may be killed between any two.                   *)
(***************************************************************************)
EXTENDS Integers, FiniteSets, Sequences, SequencesExt, FiniteSetsExt

CONSTANTS
  Docs,        \* the documents: the times of the messages
  Initial,     \* those that the store has at first
  Reply,       \* Reply[d]: the time of the last reply, once there is one
  Position,    \* Position[d]: the position of the message in its session
  Chunks,      \* Chunks[d]: embeddings that d takes
  PageSize,    \* documents of a page
  RecentLimit, \* documents looked at when nothing seems to be missing
  PruneLimit,  \* vectors checked by a pass
  MaxChunks,   \* embeddings of a pass
  BatchSize,   \* embeddings of a call of the model
  MaxText,     \* bound on the versions of a document
  MaxChanges,  \* bound on the changes of the documents
  MaxFaults    \* bound on kills and on passes that embed nothing in time

ASSUME IndexAssumption ==
  /\ Docs \subseteq Nat \ {0} /\ IsFiniteSet(Docs) /\ Initial \subseteq Docs
  /\ Reply \in [Docs -> Nat] /\ Position \in [Docs -> Nat]
  /\ \A d \in Docs : Reply[d] >= d /\ Chunks[d] \in 1 .. MaxChunks
  /\ {PageSize, RecentLimit, PruneLimit, MaxChunks, BatchSize} \subseteq Nat \ {0}
  /\ BatchSize <= MaxChunks

VARIABLES
  text,       \* text[d]: version of the document; 0: not searchable
  vec,        \* vec[d]: the version whose vectors the sidecar has, or 0
  dirty,      \* semantic_dirty_events
  cursor,     \* the backfill cursor, or 0
  pruneFrom,  \* <<prune_event_seq_before>>, or <<>>
  pruneTo,    \* its next value
  cached,     \* semantic_index_stats: how many documents have vectors
  ready,      \* {embedded_items} of a "ready" status file, or {}
  pc,         \* where the daemon is
  passes,     \* semantic_bootstrap_passes_since_refresh
  before,     \* the page to read next lies before it, or 0
  probed,     \* recent_probe_done
  further,    \* continue_past_indexed_pages
  left,       \* embeddings that the pass may still make
  again,      \* the backfill has come back to where it was (history)
  late,       \* the deadline of the pass has passed
  batch,      \* the documents that are being indexed, as they were read
  queued,     \* the dirty events that are being indexed
  consumed,   \* how many documents of the batch are dealt with
  added,      \* embeddings made for it
  stale,      \* pruned documents to be queued
  changed,    \* what has changed since the backfill began (history)
  changes, faults

sidecar == <<vec, dirty, cursor, pruneFrom, cached>>
pass == <<before, probed, further, left, again, late>>
work == <<batch, queued, consumed, added>>
pruning == <<stale, pruneTo>>
world == <<text, changes>>
vars == <<text, vec, dirty, cursor, pruneFrom, pruneTo, cached, ready, pc, passes,
          before, probed, further, left, again, late, batch, queued, consumed, added,
          stale, changed, changes, faults>>

\* The locals of the worker are gone when it is not at work.
Forget ==
  /\ before' = 0 /\ probed' = FALSE /\ further' = FALSE
  /\ left' = 0 /\ again' = FALSE /\ late' = FALSE
  /\ batch' = <<>> /\ queued' = {} /\ consumed' = 0 /\ added' = 0
  /\ stale' = {} /\ pruneTo' = <<>>

Fault == faults < MaxFaults /\ faults' = faults + 1

-----------------------------------------------------------------------------
(* The documents of the store. *)

Searchable == {d \in Docs : text[d] # 0}

\* Documents are ordered by the time of the message or by document_activity_at_ms.
Time == [d \in Docs |-> d]
Activity == [d \in Docs |-> IF text[d] > 1 THEN Reply[d] ELSE d]

\* The first n of S in descending order of a key.
First(S, n, key) ==
  LET rank == [d \in S |-> Cardinality(
                 {e \in S : key[e] > key[d] \/ (key[e] = key[d] /\ e >= d)})]
  IN [i \in 1 .. Min({n, Cardinality(S)}) |-> CHOOSE d \in S : rank[d] = i]

Read(d) == [id |-> d, text |-> text[d], at |-> Activity[d]]

\* The page is chosen by the time of the message and put in the order of the
\* last activity.
RecentDocuments(b, n) ==
  LET page == ToSet(First({d \in Searchable : b = 0 \/ d < b}, n, Time))
      s == First(page, n, Activity)
  IN [i \in DOMAIN s |-> Read(s[i])]

DocumentsById(S) ==
  LET s == First(S \cap Searchable, Cardinality(S), Time)
  IN [i \in DOMAIN s |-> Read(s[i])]

Embedded == {d \in Docs : vec[d] # 0}
ExactStats == Cardinality(Embedded)

-----------------------------------------------------------------------------
(* What the documents go through. *)

Change(d, t) ==
  /\ changes < MaxChanges
  /\ changes' = changes + 1
  /\ text' = [text EXCEPT ![d] = t]
  /\ changed' = IF pc = "idle" /\ cursor = 0 THEN {} ELSE changed \cup {d}
  /\ UNCHANGED <<sidecar, ready, pc, passes, pass, work, pruning, faults>>

Add(d) == text[d] = 0 /\ Change(d, 1)
Extend(d) == text[d] \in 1 .. MaxText - 1 /\ Change(d, text[d] + 1)
Withdraw(d) == text[d] # 0 /\ Change(d, 0)

-----------------------------------------------------------------------------
(* An iteration of the daemon. *)

\* Faulty: the cached count is believed.
StatsUnverified == cached

\* The counts of semantic_worker_report: a cached count that says that nothing
\* is missing is verified.
Stats ==
  IF dirty = {} /\ cached >= Cardinality(Searchable) THEN ExactStats ELSE cached

Missing(n) == Max({Cardinality(Searchable) - n, Cardinality(dirty)})

\* semantic_bootstrap_should_run_first
BootstrapFirst ==
  /\ passes < 1
  /\ Searchable # {}
  /\ Missing(Stats) > 0

Bootstrap ==
  /\ pc = "idle"
  /\ BootstrapFirst
  /\ passes' = passes + 1
  /\ pc' = "job"
  /\ UNCHANGED <<world, sidecar, ready, pass, work, pruning, changed, faults>>

\* run_daemon_history_refresh_job; what it imports is a change of its own.
Refresh ==
  /\ pc = "idle"
  /\ ~BootstrapFirst
  /\ passes' = 0
  /\ pc' = "job"
  /\ UNCHANGED <<world, sidecar, ready, pass, work, pruning, changed, faults>>

\* Faulty: documents that have some vector are not looked at.
NeedsQueueingIfNew(d) == vec[d.id] = 0

NeedsQueueing(d) == vec[d.id] # d.text

\* queue_recent_semantic_work, when nothing seems to be missing.
QueueRecent ==
  IF Searchable # {} /\ Stats >= Cardinality(Searchable) /\ dirty = {}
  THEN {d.id : d \in {e \in ToSet(RecentDocuments(0, RecentLimit)) : NeedsQueueing(e)}}
  ELSE {}

Job ==
  /\ pc = "job"
  /\ dirty' = dirty \cup QueueRecent
  /\ pc' = IF Searchable # {} /\ (Missing(Stats) > 0 \/ QueueRecent # {})
           THEN "prune" ELSE "idle"
  /\ UNCHANGED <<world, vec, cursor, pruneFrom, cached, ready, passes, pass,
                 work, pruning, changed, faults>>

-----------------------------------------------------------------------------
(* A pass of the worker: first it prunes. *)

\* prune_candidate_events
Candidates ==
  LET below == {d \in Embedded : pruneFrom = <<>> \/ Position[d] < pruneFrom[1]}
  IN First(IF below = {} THEN Embedded ELSE below, PruneLimit, Position)

\* The vectors of documents that are gone or not as they were are deleted.
Prune ==
  /\ pc = "prune"
  /\ LET checked == ToSet(Candidates)
         wrong == {d \in checked : vec[d] # text[d]}
     IN /\ vec' = [d \in Docs |-> IF d \in wrong THEN 0 ELSE vec[d]]
        /\ stale' = wrong \cap Searchable
        /\ changed' = changed \cup wrong
        /\ pruneTo' = IF checked = {} THEN pruneFrom ELSE <<Position[Last(Candidates)]>>
  /\ pc' = "queue"
  /\ UNCHANGED <<world, dirty, cursor, pruneFrom, cached, ready, passes, pass,
                 work, faults>>

\* enqueue_dirty_documents
QueueStale ==
  /\ pc = "queue"
  /\ dirty' = dirty \cup stale
  /\ stale' = {}
  /\ pc' = "pruned"
  /\ UNCHANGED <<world, vec, cursor, pruneFrom, pruneTo, cached, ready, passes,
                 pass, work, changed, faults>>

\* The next pass goes on behind what this one has checked.
Pruned ==
  /\ pc = "pruned"
  /\ pruneFrom' = pruneTo
  /\ pruneTo' = <<>>
  /\ pc' = "begin"
  /\ UNCHANGED <<world, vec, dirty, cursor, cached, ready, passes, pass, work,
                 stale, changed, faults>>

\* The counts decide whether the pass goes on to older documents; the status
\* file says "running".
Begin ==
  /\ pc = "begin"
  /\ cached' = ExactStats
  /\ further' = (ready # {ExactStats} \/ Missing(ExactStats) > RecentLimit)
  /\ ready' = {}
  /\ left' = MaxChunks
  /\ again' = FALSE
  /\ late' = FALSE
  /\ before' = 0
  /\ probed' = FALSE
  /\ changed' = IF cursor = 0 THEN {} ELSE changed
  /\ pc' = "dirty"
  /\ UNCHANGED <<world, vec, dirty, cursor, pruneFrom, passes, work, pruning, faults>>

\* The time of the pass is over.  A pass that ends before it has embedded or
\* read all it can is a fault.
TimeUp ==
  /\ pc \in {"dirty", "index", "page"}
  /\ ~late
  /\ IF left < MaxChunks \/ again THEN UNCHANGED faults ELSE Fault
  /\ late' = TRUE
  /\ UNCHANGED <<world, sidecar, ready, pc, passes, before, probed, further,
                 left, again, work, pruning, changed>>

-----------------------------------------------------------------------------
(* backfill_semantic_embeddings: the dirty queue, then the pages. *)

ReadDirty ==
  /\ pc = "dirty"
  /\ LET limit == IF left < RecentLimit THEN left ELSE RecentLimit
         ids == ToSet(First(dirty, limit, Position))
     IN IF ids = {}
        THEN pc' = "page" /\ UNCHANGED work
        ELSE /\ queued' = ids
             /\ batch' = DocumentsById(ids)
             /\ pc' = "index"
             /\ consumed' = 0 /\ added' = 0
  /\ UNCHANGED <<world, sidecar, ready, passes, pass, pruning, changed, faults>>

ReadPage ==
  /\ pc = "page"
  /\ queued' = {} /\ consumed' = 0 /\ added' = 0
  /\ LET docs == RecentDocuments(before, PageSize)
     IN IF left > 0 /\ ~late /\ left >= BatchSize /\ docs # <<>>
        THEN batch' = docs /\ pc' = "index" /\ UNCHANGED cursor
        ELSE /\ pc' = "final"
             /\ UNCHANGED batch
             /\ cursor' = IF further /\ left >= BatchSize /\ ~late THEN 0 ELSE cursor
  /\ UNCHANGED <<world, vec, dirty, pruneFrom, cached, ready, passes, pass,
                 pruning, changed, faults>>

-----------------------------------------------------------------------------
(* index_semantic_documents *)

Unchanged(i) == vec[batch[i].id] = batch[i].text

\* The embeddings that the first n documents of the batch take.
Load(n) ==
  MapThenSumSet(LAMBDA i : IF Unchanged(i) THEN 0 ELSE Chunks[batch[i].id], 1 .. n)

\* semantic_deadline_chunk_limit: the nearer the deadline, the fewer.
Limits == IF late THEN {0} ELSE 1 .. left

\* How many documents are considered within the limit.
Considered(limit) ==
  Max({0} \cup {n \in DOMAIN batch : Load(n) <= limit /\ Load(n - 1) < limit})

\* Faulty: all that was considered counts as consumed.
ContiguousOrNot(n, all) == all

\* semantic_contiguous_consumed_event_ids, when the first n of all documents
\* considered are embedded.
Contiguous(n, all) ==
  Max({m \in n .. all : \A i \in n + 1 .. m : Unchanged(i)})

\* The vectors of the complete documents are written.  Unless the deadline
\* passes meanwhile, these are all that were considered.
Index ==
  /\ pc = "index"
  /\ \E limit \in Limits :
       LET all == Considered(limit) IN
       \E n \in 0 .. all :
          /\ late' = (late \/ n < all)
          /\ IF (n < all \/ limit < left) /\ left = MaxChunks /\ Load(n) = 0 /\ ~late
             THEN Fault ELSE UNCHANGED faults
          /\ consumed' = Contiguous(n, all)
          /\ added' = Load(n)
          /\ left' = left - Load(n)
          /\ vec' = [d \in Docs |->
                       IF \E i \in 1 .. n : batch[i].id = d
                       THEN batch[CHOOSE i \in 1 .. n : batch[i].id = d].text
                       ELSE vec[d]]
  /\ pc' = IF queued # {} THEN "dequeue" ELSE "advance"
  /\ UNCHANGED <<world, dirty, cursor, pruneFrom, cached, ready, passes, before,
                 probed, further, again, batch, queued, pruning, changed>>

Done == {batch[i].id : i \in 1 .. consumed}

\* refresh_cached_stats, after an upsert; the process may be killed before it.
Count == cached' = IF added > 0 THEN ExactStats ELSE cached

\* Dirty events without a document are done, too.
Dequeue ==
  /\ pc = "dequeue"
  /\ Count
  /\ dirty' = dirty \ (Done \cup (queued \ {batch[i].id : i \in DOMAIN batch}))
  /\ pc' = IF further THEN "page" ELSE "final"
  /\ UNCHANGED <<world, vec, cursor, pruneFrom, ready, passes, pass, work, pruning,
                 changed, faults>>

\* The first page is that of recent documents; from then on the backfill goes
\* on where the last one has stopped.
Advance ==
  /\ pc = "advance"
  /\ Count
  /\ LET reached == IF consumed = 0 THEN 0 ELSE batch[consumed].at
     IN IF ~further \/ (reached = 0 /\ added = 0)
        THEN pc' = "final" /\ UNCHANGED <<cursor, before, probed, again>>
        ELSE /\ pc' = "page"
             /\ probed' = TRUE
             /\ before' = IF probed \/ cursor = 0 THEN reached ELSE cursor
             /\ cursor' = before'
             /\ again' = (probed /\ reached >= before)
  /\ UNCHANGED <<world, vec, dirty, pruneFrom, ready, passes, further, left, late,
                 work, pruning, changed, faults>>

Final ==
  /\ pc = "final"
  /\ IF Searchable # {} /\ cached >= Cardinality(Searchable) /\ dirty = {}
     THEN cursor' = 0 /\ ready' = {cached}
     ELSE UNCHANGED <<cursor, ready>>
  /\ pc' = "idle"
  /\ Forget
  /\ UNCHANGED <<world, vec, dirty, pruneFrom, cached, passes, changed, faults>>

\* The daemon is killed or ends idle, and a search starts it again.  Its job says
\* "model_acquired" in the status file, unless a query has loaded the model.
Crash ==
  /\ Fault
  /\ pc' = "idle"
  /\ passes' = 0
  /\ ready' \in {ready, {}}
  /\ Forget
  /\ UNCHANGED <<world, sidecar, changed>>

-----------------------------------------------------------------------------
Init ==
  /\ text = [d \in Docs |-> IF d \in Initial THEN 1 ELSE 0]
  /\ vec = [d \in Docs |-> 0]
  /\ dirty = {}
  /\ cursor = 0
  /\ pruneFrom = <<>>
  /\ cached = 0
  /\ ready = {}
  /\ pc = "idle"
  /\ passes = 0
  /\ before = 0 /\ probed = FALSE /\ further = FALSE
  /\ left = 0 /\ again = FALSE /\ late = FALSE
  /\ batch = <<>> /\ queued = {} /\ consumed = 0 /\ added = 0
  /\ stale = {} /\ pruneTo = <<>>
  /\ changed = {}
  /\ changes = 0
  /\ faults = 0

Step ==
  \/ Bootstrap \/ Refresh \/ Job
  \/ Prune \/ QueueStale \/ Pruned \/ Begin
  \/ ReadDirty \/ ReadPage \/ Index \/ Dequeue \/ Advance \/ Final

Next ==
  \/ Step \/ TimeUp \/ Crash
  \/ \E d \in Docs : Add(d) \/ Extend(d) \/ Withdraw(d)

Spec == Init /\ [][Next]_vars

\* The daemon runs (a step of it is always possible) and the time of a pass
\* goes by; documents need not change, and nothing need fail.
FairSpec == Spec /\ []<><<Step>>_vars /\ SF_vars(TimeUp /\ UNCHANGED faults)

-----------------------------------------------------------------------------
(* What must hold. *)

\* What the backfill has passed has the vectors of its text, unless it has
\* changed since the backfill began: the cursor moves past no document that
\* an early end of a batch has left out (indexing.rs:150).
PassedIsEmbedded ==
  \A d \in Searchable : cursor # 0 /\ d >= cursor /\ d \notin changed =>
                          vec[d] = text[d]

\* When nothing changes any more, the most recent documents get the vectors
\* of their text, whatever was changed, withdrawn or interrupted before.
RecentEmbedded ==
  <>[](\A d \in ToSet(RecentDocuments(0, RecentLimit)) : vec[d.id] = d.text)

\* As long as no vector is outdated for good, the others get theirs, too.
AllEmbedded ==
  <>[](\A d \in Docs : vec[d] \in {0, text[d]}) =>
    <>[](\A d \in Docs : vec[d] = text[d])
=============================================================================
