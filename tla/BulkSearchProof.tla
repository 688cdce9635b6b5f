--------------------------- MODULE BulkSearchProof ---------------------------
(***************************************************************************)
(* SettingsKept, ImportUndisturbed and RestoredWhenTruncated of BulkSearch,*)
(* for any number of connections, tables, writes, readers and failures.    *)
(* They rest on who has the lock of the sidecar database: only the owner   *)
(* sets the marker or clears it, and only the owner merges while it is set.*)
(***************************************************************************)
EXTENDS BulkSearch, TLAPS

\* Whoever begins, imports, merges or optimizes has the lock.
Owned == \A c \in Conns : pc[c] \in Holding => lock = c

\* A store with a marker merges nothing by itself.
Protected == marker => config = [t \in Tables |-> Suppressed]

\* An import has its marker.
Marked == \A c \in Conns : pc[c] = "importing" => marker

\* Whoever is about to restore the settings has emptied the WAL.
Emptied == \A c \in Conns : pc[c] = "restoring" /\ marker => ~merged

BulkInv == TypeOK /\ Owned /\ SettingsKept /\ Protected /\ Marked /\ Emptied

-----------------------------------------------------------------------------
\* The bounds are natural numbers.
LEMMA Bounds ==
  MaxWork \in Nat /\ MaxWrites \in Nat /\ MaxReaders \in Nat /\ MaxFailures \in Nat
  BY BulkAssumption DEF BulkAssumption

\* The initial states satisfy the invariant.
LEMMA InitBulkInv == Init => BulkInv
<1> SUFFICES ASSUME Init PROVE BulkInv OBVIOUS
<1> USE BulkAssumption, Bounds DEF BulkAssumption, Init
<1>1. /\ saved \in [Tables -> Settings \cup {NoSetting}]
      /\ config \in [Tables -> Settings]
  OBVIOUS
<1>4. work \in [Tables -> 0 .. MaxWork]
  <2>1. {0, MaxWork} \subseteq 0 .. MaxWork OBVIOUS
  <2> QED BY <2>1
<1>6. /\ lock \in Conns \cup {Nobody} /\ depth \in [Conns -> 0 .. 2]
      /\ writes \in 0 .. MaxWrites /\ readers \in 0 .. MaxReaders
      /\ failures \in 0 .. MaxFailures
  OBVIOUS
<1>7. /\ pc \in [Conns -> Holding \cup {"closed", "opened", "adopting", "ready", "waiting"}]
      /\ purpose \in [Conns -> Jobs] /\ todo \in [Conns -> SUBSET Tables]
      /\ quiet \in [Conns -> BOOLEAN]
  BY DEF Jobs
<1>5. TypeOK BY <1>1, <1>4, <1>6, <1>7 DEF TypeOK
<1>2. Owned /\ Marked /\ Emptied BY DEF Owned, Marked, Emptied, Holding
<1>3. SettingsKept /\ Protected BY DEF SettingsKept, Protected
<1> QED BY <1>2, <1>3, <1>5 DEF BulkInv

\* Two owners of the lock are the same connection.
LEMMA OneOwner ==
  ASSUME Owned, NEW c \in Conns, NEW d \in Conns,
         pc[c] \in Holding, pc[d] \in Holding
  PROVE  c = d
  BY DEF Owned

\* New rows keep the types, and merge nothing in a store with a marker.
LEMMA AddRowsKeeps ==
  ASSUME BulkInv, AddRows
  PROVE  /\ work' \in [Tables -> 0 .. MaxWork]
         /\ writes' \in 0 .. MaxWrites
         /\ merged' \in BOOLEAN
         /\ marker => merged' = merged
<1> USE BulkAssumption, Bounds DEF BulkAssumption, BulkInv, TypeOK, AddRows
<1>1. work' \in [Tables -> 0 .. MaxWork]
  <2>1. PICK n \in [Tables -> 0 .. 1] :
          work' = [t \in Tables |->
                     IF work[t] + n[t] > MaxWork THEN MaxWork ELSE work[t] + n[t]]
    OBVIOUS
  <2>2. ASSUME NEW t \in Tables
        PROVE  (IF work[t] + n[t] > MaxWork THEN MaxWork ELSE work[t] + n[t]) \in 0 .. MaxWork
    <3>1. work[t] \in 0 .. MaxWork /\ n[t] \in 0 .. 1 BY <2>2
    <3> QED BY <3>1
  <2> QED BY <2>1, <2>2
<1>2. writes' \in 0 .. MaxWrites OBVIOUS
<1>3. merged' \in BOOLEAN OBVIOUS
<1>4. marker => merged' = merged BY DEF Protected
<1> QED BY <1>1, <1>2, <1>3, <1>4

\* Steps that leave the database and the lock alone and move a connection on
\* its side of the lock, or read the marker.
LEMMA MovesPreserve ==
  ASSUME BulkInv, NEW c \in Conns,
         \/ Open(c) \/ Close(c) \/ GiveUp(c) \/ Finish(c)
         \/ \E job \in Jobs : Want(c, job)
  PROVE  BulkInv'
<1> USE DEF Goto, BulkInv, locals, bounds, database
<1>1. UNCHANGED <<marker, saved, config, work, merged, reader, lock, writes, readers, failures>>
  BY DEF Open, Close, GiveUp, Finish, Want
<1>2. /\ pc' \in [Conns -> Holding \cup {"closed", "opened", "adopting", "ready", "waiting"}]
      /\ \A d \in Conns \ {c} : pc'[d] = pc[d]
      /\ pc'[c] \in Holding => pc[c] \in Holding
      /\ pc'[c] \in {"importing", "restoring"} => pc'[c] = pc[c]
  BY DEF Open, Close, GiveUp, Finish, Want, TypeOK, Holding
<1>3. /\ purpose' \in [Conns -> Jobs] /\ depth' \in [Conns -> 0 .. 2]
      /\ quiet' \in [Conns -> BOOLEAN] /\ todo' \in [Conns -> SUBSET Tables]
  BY DEF Open, Close, GiveUp, Finish, Want, TypeOK
<1>4. TypeOK' BY <1>1, <1>2, <1>3 DEF TypeOK
<1>5. Owned' BY <1>1, <1>2 DEF Owned
<1>6. SettingsKept' /\ Protected' BY <1>1 DEF SettingsKept, Protected
<1>7. Marked' /\ Emptied' BY <1>1, <1>2 DEF Marked, Emptied
<1> QED BY <1>4, <1>5, <1>6, <1>7

\* Taking the lock, keeping it and dropping it leave the database alone; who
\* drops it is not at work with it any more.
LEMMA LockPreserves ==
  ASSUME BulkInv, NEW c \in Conns,
         \/ Adopt(c) \/ Acquire(c) \/ Check(c) \/ Truncate(c) \/ TruncateBusy(c)
         \/ Optimized(c) \/ Fail(c)
  PROVE  BulkInv'
<1> USE BulkAssumption, Bounds DEF BulkAssumption, Goto, BulkInv, locals, bounds, database,
        Finished, Release, Checkpoint
<1>1. /\ UNCHANGED <<marker, saved, config, work, reader>>
      /\ merged' \in BOOLEAN /\ (merged' => merged)
  <2>1. CASE Truncate(c) BY <2>1 DEF Truncate
  <2>2. CASE Adopt(c) \/ Acquire(c) \/ Check(c) \/ TruncateBusy(c) \/ Optimized(c) \/ Fail(c)
    <3>1. UNCHANGED <<marker, saved, config, work, reader, merged>>
      BY <2>2 DEF Adopt, Acquire, Check, TruncateBusy, Optimized, Fail
    <3> QED BY <3>1 DEF TypeOK
  <2> QED BY <2>1, <2>2
<1>2. /\ pc' \in [Conns -> Holding \cup {"closed", "opened", "adopting", "ready", "waiting"}]
      /\ \A d \in Conns \ {c} : pc'[d] = pc[d]
      /\ pc'[c] # "importing"
      /\ pc'[c] = "restoring" => ~merged'
  BY DEF Adopt, Acquire, Check, Truncate, TruncateBusy, Optimized, Fail, TypeOK, Holding
<1>3. /\ purpose' \in [Conns -> Jobs] /\ depth' \in [Conns -> 0 .. 2]
      /\ quiet' \in [Conns -> BOOLEAN] /\ todo' \in [Conns -> SUBSET Tables]
      /\ writes' \in 0 .. MaxWrites /\ readers' \in 0 .. MaxReaders
      /\ failures' \in 0 .. MaxFailures
  BY DEF Adopt, Acquire, Check, Truncate, TruncateBusy, Optimized, Fail, TypeOK, Jobs
<1>4. /\ lock' \in Conns \cup {Nobody}
      /\ pc'[c] \in Holding => lock' = c
      /\ \A d \in Conns \ {c} : lock = d => lock' = d
  <2>1. pc[c] \in Holding => lock = c BY DEF Owned
  <2>2. CASE Adopt(c) \/ Acquire(c) BY <2>2 DEF Adopt, Acquire, TypeOK, Holding
  <2>3. CASE Check(c) \/ Truncate(c)
    BY <2>1, <2>3 DEF Check, Truncate, TypeOK, Holding
  <2>4. CASE TruncateBusy(c) \/ Optimized(c) \/ Fail(c)
    BY <2>1, <2>4 DEF TruncateBusy, Optimized, Fail, TypeOK, Holding
  <2> QED BY <2>2, <2>3, <2>4
<1>5. TypeOK' BY <1>1, <1>2, <1>3, <1>4 DEF TypeOK
<1>6. Owned' BY <1>2, <1>4 DEF Owned
<1>7. SettingsKept' /\ Protected' BY <1>1 DEF SettingsKept, Protected
<1>8. Marked' /\ Emptied' BY <1>1, <1>2 DEF Marked, Emptied
<1> QED BY <1>5, <1>6, <1>7, <1>8

\* A recovery that finds the marker asserts what the marker says.
LEMMA RecoverPreserves ==
  ASSUME BulkInv, NEW c \in Conns, Recover(c)
  PROVE  BulkInv'
<1> USE BulkAssumption, Bounds DEF BulkAssumption, Goto, BulkInv, locals, bounds, database, Recover, Suppress
<1>1. TypeOK' BY DEF TypeOK, Holding
<1>2. Owned' BY DEF TypeOK, Owned, Holding
<1>3. SettingsKept' /\ Protected' BY DEF SettingsKept, Protected
<1>4. Marked' /\ Emptied' BY DEF TypeOK, Marked, Emptied
<1> QED BY <1>1, <1>2, <1>3, <1>4

\* Rows that are written.
LEMMA WritePreserves ==
  ASSUME BulkInv, NEW c \in Conns,
         WriteUnguarded(c) \/ Write(c) \/ BeginNested(c)
  PROVE  BulkInv'
<1> USE BulkAssumption, Bounds DEF BulkAssumption, BulkInv, locals, bounds, database
<1>1. AddRows BY DEF WriteUnguarded, Write, BeginNested
<1>2. /\ UNCHANGED <<marker, saved, config, reader, lock, pc, purpose, quiet, todo,
                     readers, failures>>
      /\ depth' \in [Conns -> 0 .. 2]
  BY DEF WriteUnguarded, Write, BeginNested, TypeOK
<1>3. TypeOK' BY <1>1, <1>2, AddRowsKeeps DEF TypeOK
<1>4. Owned' /\ SettingsKept' /\ Protected' /\ Marked'
  BY <1>2 DEF Owned, SettingsKept, Protected, Marked
<1>5. Emptied' BY <1>1, <1>2, AddRowsKeeps DEF Emptied
<1> QED BY <1>3, <1>4, <1>5

\* Bulk mode begins with settings that are the user's, or saved before.
LEMMA BeginPreserves ==
  ASSUME BulkInv, NEW c \in Conns, Begin(c)
  PROVE  BulkInv'
<1> USE BulkAssumption, Bounds DEF BulkAssumption, Goto, BulkInv, locals, bounds, database, Begin, SaveOnce, Suppress
<1>1. TypeOK' BY DEF TypeOK, Holding
<1>2. Owned' BY DEF TypeOK, Owned, Holding
<1>3. SettingsKept' /\ Protected' BY DEF SettingsKept, Protected
<1>4. Marked' BY DEF Marked
<1>5. Emptied'
  <2>1. \A d \in Conns : pc'[d] # "restoring"
    BY OneOwner DEF TypeOK, Holding
  <2> QED BY <2>1 DEF Emptied
<1> QED BY <1>1, <1>2, <1>3, <1>4, <1>5

\* Merging and restoring; nobody else imports or is about to restore.
LEMMA MergePreserves ==
  ASSUME BulkInv, NEW c \in Conns,
         Merge(c) \/ Restore(c) \/ OptimizeTable(c)
  PROVE  BulkInv'
<1> USE BulkAssumption, Bounds DEF BulkAssumption, Goto, BulkInv, locals, bounds, database
<1>1. /\ UNCHANGED <<reader, lock, purpose, depth, writes, readers, failures>>
      /\ pc[c] \in {"merging", "restoring", "optimizing"}
      /\ pc' = [pc EXCEPT ![c] = pc'[c]]
      /\ pc'[c] \in {"truncating", "closing", "flushing"}
  BY DEF Merge, Restore, OptimizeTable, TypeOK
<1>2. /\ work' \in [Tables -> 0 .. MaxWork] /\ merged' \in BOOLEAN
      /\ quiet' \in [Conns -> BOOLEAN] /\ todo' \in [Conns -> SUBSET Tables]
  <2>4. ASSUME MergeBoth
        PROVE  work' \in [Tables -> 0 .. MaxWork] /\ merged' \in BOOLEAN
    <3>1. merged' \in BOOLEAN BY <2>4 DEF MergeBoth, TypeOK
    <3>2. work' \in [Tables -> 0 .. MaxWork] BY <2>4 DEF MergeBoth, TypeOK
    <3> QED BY <3>1, <3>2
  <2>5. Quiescent \in BOOLEAN BY DEF Quiescent
  <2>1. CASE Merge(c) BY <2>1, <2>4, <2>5 DEF Merge, TypeOK
  <2>2. CASE Restore(c) BY <2>2, <2>4 DEF Restore, TypeOK
  <2>3. CASE OptimizeTable(c) BY <2>3 DEF OptimizeTable, TypeOK
  <2> QED BY <2>1, <2>2, <2>3
<1>3. /\ saved' \in [Tables -> Settings \cup {NoSetting}]
      /\ config' \in [Tables -> Settings]
      /\ marker' \in BOOLEAN /\ (marker' => marker)
      /\ SettingsKept' /\ Protected'
  <2>1. CASE UNCHANGED <<marker, saved, config>>
    BY <2>1 DEF TypeOK, SettingsKept, Protected
  <2>2. CASE marker /\ RestoreSettings
    BY <2>2 DEF RestoreSettings, TypeOK, SettingsKept, Protected
  <2> QED BY <2>1, <2>2 DEF Merge, Restore, OptimizeTable
<1>4. TypeOK' BY <1>1, <1>2, <1>3 DEF TypeOK, Holding
<1>5. Owned' BY <1>1 DEF Owned, Holding, TypeOK
<1>6. \A d \in Conns : pc'[d] \notin {"importing", "restoring"}
  BY <1>1, OneOwner DEF TypeOK, Holding
<1>7. Marked' /\ Emptied' BY <1>6 DEF Marked, Emptied
<1> QED BY <1>3, <1>4, <1>5, <1>7

\* Readers come and go.
LEMMA ReaderPreserves ==
  ASSUME BulkInv, ReaderComes \/ ReaderGoes
  PROVE  BulkInv'
<1> USE BulkAssumption, Bounds DEF BulkAssumption, BulkInv, locals, bounds, database,
        ReaderComes, ReaderGoes
<1>1. TypeOK'
  <2>1. readers' \in 0 .. MaxReaders BY DEF TypeOK
  <2>2. reader' \in BOOLEAN OBVIOUS
  <2>3. UNCHANGED <<marker, saved, config, work, merged, lock, pc, purpose, depth, quiet,
                    todo, writes, failures>>
    OBVIOUS
  <2> QED BY <2>1, <2>2, <2>3 DEF TypeOK
<1>2. Owned' /\ SettingsKept' /\ Protected' /\ Marked' /\ Emptied'
  BY DEF Owned, SettingsKept, Protected, Marked, Emptied
<1> QED BY <1>1, <1>2

\* Every step keeps the invariant.
LEMMA StepBulkInv == BulkInv /\ [Next]_vars => BulkInv'
<1> SUFFICES ASSUME BulkInv, [Next]_vars PROVE BulkInv' OBVIOUS
<1>1. CASE UNCHANGED vars
  BY <1>1 DEF BulkInv, vars, TypeOK, Owned, SettingsKept, Protected, Marked, Emptied
<1>2. CASE ReaderComes \/ ReaderGoes BY <1>2, ReaderPreserves
<1>3. ASSUME NEW c \in Conns,
             \/ Step(c) \/ Close(c) \/ WriteUnguarded(c) \/ Write(c) \/ BeginNested(c) \/ Fail(c)
             \/ \E job \in Jobs : Want(c, job)
      PROVE  BulkInv'
  BY <1>3, MovesPreserve, LockPreserves, RecoverPreserves, WritePreserves,
     BeginPreserves, MergePreserves DEF Step
<1> QED BY <1>1, <1>2, <1>3 DEF Next

\* The invariant holds in every state of bulk_search.rs.
THEOREM BulkInvariance == Spec => []BulkInv
<1>1. Init => BulkInv BY InitBulkInv
<1>2. BulkInv /\ [Next]_vars => BulkInv' BY StepBulkInv
<1> QED BY <1>1, <1>2, PTL DEF Spec

\* The user's merge settings survive any imports, recoveries and kills
\* (begin_event_search_bulk_mode, restore_event_search_merge_config).
THEOREM SettingsAlwaysKept == Spec => []SettingsKept
<1>1. BulkInv => SettingsKept BY DEF BulkInv
<1> QED BY <1>1, BulkInvariance, PTL

\* No step of another connection lets a table merge by itself while rows are
\* imported in bulk (recover_event_search_bulk_mode, merge_all_fts_tables_bounded).
THEOREM ImportAlwaysUndisturbed == Spec => []ImportUndisturbed
<1>1. BulkInv => ImportUndisturbed
  BY DEF BulkInv, ImportUndisturbed, Marked, Protected
<1> QED BY <1>1, BulkInvariance, PTL

\* The marker is cleared only with merge pages out of the WAL
\* (restore_event_search_bulk_mode_if_quiescent).
THEOREM RestoredOnlyWhenTruncated == Spec => RestoredWhenTruncated
<1>1. BulkInv /\ [Next]_vars => [marker /\ ~marker' => ~merged]_vars
  <2> SUFFICES ASSUME BulkInv, Next, marker, ~marker' PROVE ~merged OBVIOUS
  <2>1. PICK c \in Conns : Restore(c)
    BY DEF Next, Step, Open, Recover, Adopt, Acquire, GiveUp, Begin, Finish, Check, Merge,
           Truncate, TruncateBusy, OptimizeTable, Optimized, Close, WriteUnguarded, Write,
           BeginNested, Fail, Want, ReaderComes, ReaderGoes, database
  <2> QED BY <2>1 DEF Restore, BulkInv, Emptied
<1> QED BY <1>1, BulkInvariance, PTL DEF Spec, RestoredWhenTruncated
=============================================================================
