------------------------------ MODULE BulkSearch ------------------------------
(***************************************************************************)
(* How bulk imports keep FTS5 from merging segments inside a row insert    *)
(* (crates/ctx-history-store/src/bulk_search.rs).  An importer takes a     *)
(* lock in a sidecar database, saves the merge settings of the two event   *)
(* search tables, switches merging off and leaves a marker.  At the end    *)
(* the segments are merged in small transactions, each followed by a       *)
(* checkpoint that empties the WAL, and the settings are put back.  Who    *)
(* opens a store with a marker that nobody owns finishes the job.          *)
(*                                                                         *)
(* A connection is a process, or a thread with a store of its own, and     *)
(* later the next one.  Each transaction on the main database is a step.   *)
(***************************************************************************)
EXTENDS Integers, FiniteSets

CONSTANTS
  Conns,      \* connections
  Nobody,     \* not a connection: the lock is free
  Tables,     \* EVENT_SEARCH_FTS_TABLES
  Settings,   \* merge settings (automerge and crisismerge)
  Suppressed, \* the settings with which FTS5 never merges by itself
  NoSetting,  \* a table has no saved settings
  Own,        \* Own[t]: the settings that the user has given to t
  MaxWork,    \* bound on the merges that a table is worth
  MaxWrites,  \* bound on the transactions that add rows
  MaxReaders, \* bound on the readers that pin the WAL
  MaxFailures \* bound on kills and failing statements

ASSUME BulkAssumption ==
  /\ Nobody \notin Conns /\ NoSetting \notin Settings
  /\ Own \in [Tables -> Settings \ {Suppressed}] /\ Suppressed \in Settings
  /\ {MaxWork, MaxWrites, MaxReaders, MaxFailures} \subseteq Nat

VARIABLES
  marker,   \* event_search_bulk_mode_v1 is in search_projection_stats
  saved,    \* the settings saved beside it
  config,   \* the settings in force
  work,     \* work[t]: merges that t is worth
  merged,   \* the WAL holds pages of a merge
  reader,   \* a reader pins the WAL
  lock,     \* who has the write lock of the sidecar database
  pc,       \* where a connection is
  purpose,  \* what it takes the lock for
  depth,    \* event_search_bulk_depth
  quiet,    \* its last pass found nothing to merge
  todo,     \* tables that it has still to optimize
  writes, readers, failures

database == <<marker, saved, config, work>>
locals == <<purpose, depth, quiet, todo>>
bounds == <<writes, readers, failures>>
vars == <<marker, saved, config, work, merged, reader, lock, pc, purpose, depth, quiet,
          todo, writes, readers, failures>>

Jobs == {"recover", "import", "optimize"}
Holding == {"beginning", "importing", "checking", "merging", "truncating", "restoring",
            "closing", "optimizing", "flushing"}

TypeOK ==
  /\ marker \in BOOLEAN /\ merged \in BOOLEAN /\ reader \in BOOLEAN
  /\ saved \in [Tables -> Settings \cup {NoSetting}]
  /\ config \in [Tables -> Settings]
  /\ work \in [Tables -> 0 .. MaxWork]
  /\ lock \in Conns \cup {Nobody}
  /\ pc \in [Conns -> Holding \cup {"closed", "opened", "adopting", "ready", "waiting"}]
  /\ purpose \in [Conns -> Jobs]
  /\ depth \in [Conns -> 0 .. 2]
  /\ quiet \in [Conns -> BOOLEAN]
  /\ todo \in [Conns -> SUBSET Tables]
  /\ writes \in 0 .. MaxWrites
  /\ readers \in 0 .. MaxReaders
  /\ failures \in 0 .. MaxFailures

Init ==
  /\ marker = FALSE /\ saved = [t \in Tables |-> NoSetting] /\ config = Own
  /\ work \in [Tables -> {0, MaxWork}]
  /\ merged = FALSE /\ reader = FALSE /\ lock = Nobody
  /\ pc = [c \in Conns |-> "closed"] /\ purpose = [c \in Conns |-> "recover"]
  /\ depth = [c \in Conns |-> 0] /\ quiet = [c \in Conns |-> FALSE]
  /\ todo = [c \in Conns |-> {}]
  /\ writes = 0 /\ readers = 0 /\ failures = 0

Goto(c, place) == pc' = [pc EXCEPT ![c] = place]

(***************************************************************************)
(* What the transactions do.                                               *)
(***************************************************************************)

\* Faulty: what is in force when bulk mode begins is always taken for the user's.
SaveAlways == saved' = config

Suppress == config' = [t \in Tables |-> Suppressed]

\* save_bulk_mode_config: what is saved already is not saved again.
SaveOnce == saved' = IF marker THEN saved ELSE config

\* One pass over both tables.
MergeBoth ==
  /\ work' = [t \in Tables |-> IF work[t] > 0 THEN work[t] - 1 ELSE 0]
  /\ merged' = (merged \/ \E t \in Tables : work[t] > 0)

Quiescent == \A t \in Tables : work[t] = 0

\* restore_event_search_merge_config and clear_bulk_mode_state
RestoreSettings ==
  /\ config' = saved
  /\ saved' = [t \in Tables |-> NoSetting]
  /\ marker' = FALSE

\* Rows come in; a table that merges by itself may do so now.
AddRows ==
  /\ writes < MaxWrites /\ writes' = writes + 1
  /\ \E n \in [Tables -> 0 .. 1] :
       work' = [t \in Tables |-> IF work[t] + n[t] > MaxWork THEN MaxWork ELSE work[t] + n[t]]
  /\ \/ UNCHANGED merged
     \/ (\E t \in Tables : config[t] # Suppressed) /\ merged' = TRUE

(***************************************************************************)
(* Store::open_with_busy_timeout.                                          *)
(***************************************************************************)

Open(c) ==
  /\ pc[c] = "closed"
  /\ Goto(c, "opened")
  /\ UNCHANGED <<database, merged, reader, lock, locals, bounds>>

\* Faulty: a store that was left in bulk mode is only protected, not recovered.
RecoverLazily(c) ==
  /\ pc[c] = "opened"
  /\ \/ marker /\ Suppress
     \/ ~marker /\ UNCHANGED config
  /\ Goto(c, "ready")
  /\ UNCHANGED <<marker, saved, work, merged, reader, lock, locals, bounds>>

\* recover_event_search_bulk_mode: the marker is read, and merging switched off
\* again, in one transaction.
Recover(c) ==
  /\ pc[c] = "opened"
  /\ \/ marker /\ Suppress /\ Goto(c, "adopting")
     \/ ~marker /\ UNCHANGED config /\ Goto(c, "ready")
  /\ UNCHANGED <<marker, saved, work, merged, reader, lock, locals, bounds>>

\* Faulty: recovery begins whether or not somebody has the lock.
AdoptUnlocked(c) ==
  /\ pc[c] = "adopting"
  /\ purpose' = [purpose EXCEPT ![c] = "recover"] /\ Goto(c, "checking")
  /\ UNCHANGED <<database, merged, reader, lock, depth, quiet, todo, bounds>>

\* A marker whose lock is taken has a living owner.
Adopt(c) ==
  /\ pc[c] = "adopting"
  /\ \/ /\ lock = Nobody /\ lock' = c
        /\ purpose' = [purpose EXCEPT ![c] = "recover"] /\ Goto(c, "checking")
     \/ lock # Nobody /\ Goto(c, "ready") /\ UNCHANGED <<lock, purpose>>
  /\ UNCHANGED <<database, merged, reader, depth, quiet, todo, bounds>>

Close(c) ==
  /\ pc[c] = "ready"
  /\ Goto(c, "closed")
  /\ UNCHANGED <<database, merged, reader, lock, locals, bounds>>

\* Rows that are written outside bulk mode, as by refresh_search_index.
WriteUnguarded(c) ==
  /\ pc[c] = "ready" /\ AddRows
  /\ UNCHANGED <<marker, saved, config, reader, lock, pc, locals, readers, failures>>

(***************************************************************************)
(* The lock.                                                               *)
(***************************************************************************)

Want(c, job) ==
  /\ pc[c] = "ready" /\ job # "recover"
  /\ purpose' = [purpose EXCEPT ![c] = job]
  /\ Goto(c, "waiting")
  /\ UNCHANGED <<database, merged, reader, lock, depth, quiet, todo, bounds>>

Acquire(c) ==
  /\ pc[c] = "waiting" /\ lock = Nobody
  /\ lock' = c
  /\ Goto(c, IF purpose[c] = "import" THEN "beginning" ELSE "checking")
  /\ UNCHANGED <<database, merged, reader, locals, bounds>>

\* BulkSearchImportBusy, after the busy timeout
GiveUp(c) ==
  /\ pc[c] = "waiting" /\ lock # Nobody
  /\ Goto(c, "closed")
  /\ UNCHANGED <<database, merged, reader, lock, locals, bounds>>

\* Drop of the guard; SQLite does the same for a process that dies.
Release(c) == lock' = IF lock = c THEN Nobody ELSE lock

(***************************************************************************)
(* An import.                                                              *)
(***************************************************************************)

\* begin_event_search_bulk_mode, with the lock held
Begin(c) ==
  /\ pc[c] = "beginning"
  /\ SaveOnce /\ Suppress /\ marker' = TRUE
  /\ depth' = [depth EXCEPT ![c] = 1]
  /\ Goto(c, "importing")
  /\ UNCHANGED <<work, merged, reader, lock, purpose, quiet, todo, bounds>>

Write(c) ==
  /\ pc[c] = "importing" /\ AddRows
  /\ UNCHANGED <<marker, saved, config, reader, lock, pc, locals, readers, failures>>

\* A provider's importer called by import_one_source_inner begins bulk mode again.
BeginNested(c) ==
  /\ pc[c] = "importing" /\ depth[c] = 1 /\ AddRows
  /\ depth' = [depth EXCEPT ![c] = 2]
  /\ UNCHANGED <<marker, saved, config, reader, lock, pc, purpose, quiet, todo,
                 readers, failures>>

\* Faulty: the guard of an import counts twice.
FinishTwice(c) ==
  /\ pc[c] = "importing" /\ Goto(c, "checking")
  /\ depth' = [depth EXCEPT ![c] = @ - 2]
  /\ UNCHANGED <<database, merged, reader, lock, purpose, quiet, todo, bounds>>

\* finish_event_search_bulk_mode: the guard of a nested import has no lock.
Finish(c) ==
  /\ pc[c] = "importing"
  /\ \/ /\ depth[c] = 1
        /\ depth' = [depth EXCEPT ![c] = 0] /\ Goto(c, "checking")
     \/ /\ depth[c] = 2
        /\ depth' = [depth EXCEPT ![c] = 1] /\ UNCHANGED pc
  /\ UNCHANGED <<database, merged, reader, lock, purpose, quiet, todo, bounds>>

(***************************************************************************)
(* Merging what has piled up.                                              *)
(***************************************************************************)

\* What follows when bulk mode is over: an optimizer goes on to its own work.
Finished(c) ==
  IF purpose[c] = "optimize"
    THEN /\ todo' = [todo EXCEPT ![c] = Tables] /\ Goto(c, "optimizing")
         /\ UNCHANGED lock
    ELSE /\ Release(c) /\ Goto(c, "ready") /\ UNCHANGED todo

\* The first look at the marker, which is outside any transaction.
Check(c) ==
  /\ pc[c] = "checking"
  /\ \/ marker /\ Goto(c, "merging") /\ UNCHANGED <<lock, todo>>
     \/ ~marker /\ Finished(c)
  /\ UNCHANGED <<database, merged, reader, purpose, depth, quiet, bounds>>

\* The transaction of finish_event_search_bulk_mode_step
Merge(c) ==
  /\ pc[c] = "merging"
  /\ \/ ~marker /\ quiet' = [quiet EXCEPT ![c] = TRUE] /\ UNCHANGED <<work, merged>>
     \/ marker /\ quiet' = [quiet EXCEPT ![c] = Quiescent] /\ MergeBoth
  /\ Goto(c, "truncating")
  /\ UNCHANGED <<marker, saved, config, reader, lock, purpose, depth, todo, bounds>>

\* restore_event_search_bulk_mode_if_quiescent: another look at both tables, and
\* the settings, in one transaction
Restore(c) ==
  /\ pc[c] = "restoring"
  /\ \/ /\ ~marker /\ quiet' = [quiet EXCEPT ![c] = TRUE]
        /\ UNCHANGED <<database, merged>>
     \/ /\ marker /\ Quiescent /\ RestoreSettings
        /\ quiet' = [quiet EXCEPT ![c] = TRUE] /\ UNCHANGED <<work, merged>>
     \/ /\ marker /\ ~Quiescent /\ MergeBoth
        /\ quiet' = [quiet EXCEPT ![c] = FALSE] /\ UNCHANGED <<marker, saved, config>>
  /\ Goto(c, "closing")
  /\ UNCHANGED <<reader, lock, purpose, depth, todo, bounds>>

\* Faulty: checkpoint_wal_truncate, which does not say that a reader was in the way
CheckpointIfPossible == merged' = (merged /\ reader)

\* checkpoint_wal_truncate_required with nobody in the way
Checkpoint == ~reader /\ merged' = FALSE

Truncate(c) ==
  /\ Checkpoint
  /\ \/ /\ pc[c] = "truncating"
        /\ Goto(c, IF quiet[c] THEN "restoring" ELSE "merging") /\ UNCHANGED <<lock, todo>>
     \/ pc[c] = "closing" /\ ~quiet[c] /\ Goto(c, "merging") /\ UNCHANGED <<lock, todo>>
     \/ pc[c] = "closing" /\ quiet[c] /\ Finished(c)
     \/ pc[c] = "flushing" /\ Goto(c, "optimizing") /\ UNCHANGED <<lock, todo>>
  /\ UNCHANGED <<database, reader, purpose, depth, quiet, bounds>>

\* A pinned WAL is an error of the import, the optimization or the opening.
TruncateBusy(c) ==
  /\ pc[c] \in {"truncating", "closing", "flushing"} /\ reader
  /\ Release(c) /\ Goto(c, "closed")
  /\ todo' = [todo EXCEPT ![c] = {}]
  /\ UNCHANGED <<database, merged, reader, purpose, depth, quiet, bounds>>

\* merge_all_fts_tables_bounded: the passes over one table, taken together
OptimizeTable(c) ==
  /\ pc[c] = "optimizing"
  /\ \E t \in todo[c] :
       /\ work' = [work EXCEPT ![t] = 0]
       /\ todo' = [todo EXCEPT ![c] = @ \ {t}]
  /\ merged' = TRUE
  /\ Goto(c, "flushing")
  /\ UNCHANGED <<marker, saved, config, reader, lock, purpose, depth, quiet, bounds>>

Optimized(c) ==
  /\ pc[c] = "optimizing" /\ todo[c] = {}
  /\ Release(c) /\ Goto(c, "ready")
  /\ UNCHANGED <<database, merged, reader, locals, bounds>>

(***************************************************************************)
(* What goes wrong, and readers.                                           *)
(***************************************************************************)

\* A kill, or a statement that fails: its transaction is undone, the guard dropped.
Fail(c) ==
  /\ pc[c] # "closed" /\ failures < MaxFailures
  /\ failures' = failures + 1
  /\ Release(c) /\ Goto(c, "closed")
  /\ depth' = [depth EXCEPT ![c] = 0]
  /\ todo' = [todo EXCEPT ![c] = {}]
  /\ UNCHANGED <<database, merged, reader, purpose, quiet, writes, readers>>

ReaderComes ==
  /\ ~reader /\ readers < MaxReaders
  /\ reader' = TRUE /\ readers' = readers + 1
  /\ UNCHANGED <<database, merged, lock, pc, locals, writes, failures>>

ReaderGoes ==
  /\ reader /\ reader' = FALSE
  /\ UNCHANGED <<database, merged, lock, pc, locals, bounds>>

(***************************************************************************)
(* The specification.                                                      *)
(***************************************************************************)

\* What a connection does once it is there.
Step(c) ==
  \/ Open(c) \/ Recover(c) \/ Adopt(c) \/ Acquire(c) \/ GiveUp(c) \/ Begin(c)
  \/ Finish(c) \/ Check(c) \/ Merge(c) \/ Restore(c) \/ Truncate(c) \/ TruncateBusy(c)
  \/ OptimizeTable(c) \/ Optimized(c)

Next ==
  \/ \E c \in Conns :
       \/ Step(c) \/ Close(c) \/ WriteUnguarded(c) \/ Write(c) \/ BeginNested(c) \/ Fail(c)
       \/ \E job \in Jobs : Want(c, job)
  \/ ReaderComes \/ ReaderGoes

Spec == Init /\ [][Next]_vars

\* Stores are opened again and again, an import ends, readers go away.
Fairness == WF_vars(ReaderGoes) /\ \A c \in Conns : WF_vars(Step(c))

FairSpec == Spec /\ Fairness

(***************************************************************************)
(* Properties.                                                             *)
(***************************************************************************)

\* The user's settings are never lost: without a marker they are in force, with
\* one they are saved, however many imports, recoveries and kills there were
\* (the guard of begin_event_search_bulk_mode, bulk_search.rs:108).
SettingsKept == IF marker THEN saved = Own ELSE config = Own

\* While rows are imported in bulk no table merges by itself, whatever others
\* do that open, recover or optimize the same store at the time (bulk_search.rs:167).
ImportUndisturbed ==
  \A c \in Conns : pc[c] = "importing" =>
    marker /\ \A t \in Tables : config[t] = Suppressed

\* The marker goes only when the pages of the merges have left the WAL: a
\* checkpoint that fails leaves a store that is known to need recovery
\* (the comment at bulk_search.rs:262).
RestoredWhenTruncated == [][marker /\ ~marker' => ~merged]_vars

\* Bulk mode comes to an end, in whatever state it was left by whom.
EventuallyRestored == []<>~marker
===============================================================================
