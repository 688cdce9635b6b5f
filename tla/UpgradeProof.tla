--------------------------- MODULE UpgradeProof ---------------------------
(***************************************************************************)
(* Upgrades, for any number of processes, releases, kills and errors.  At  *)
(* most one process recovers or publishes, until one removes another's     *)
(* lock in a race for a stale one.  As long as that does not happen and no *)
(* rollback is left half done, there is a binary to run whenever nobody    *)
(* rolls back, and the three paths change together or not at all: Upgrade  *)
(* implements Installation.                                                *)
(***************************************************************************)
EXTENDS Upgrade, TLAPS

OutsideLabels == {"idle", "open", "name", "judge", "takeover"}
InsideLabels == Labels \ OutsideLabels

\* Who is about to remove a lock has seen a dead process's lock, which is
\* still there, or is outrun.
LockInv ==
  /\ pc \in [Processes -> Labels]
  /\ ~raced =>
       /\ \A p \in Processes : Holding(p) => lock = p
       /\ \A p \in Processes : pc[p] = "takeover" => p \in outrun \/ lock = Dead

\* Recovery, publication and rollback happen under the lock and leave it
\* alone.
Inside(p) ==
  /\ Holding(p)
  /\ \E l \in InsideLabels : pc' = [pc EXCEPT ![p] = l]
  /\ UNCHANGED <<lock, outrun, raced>>

LEMMA InitialLock == Init => LockInv
  BY DEF Init, LockInv, Holding, Labels

\* The steps that happen under the lock are those it says.
LEMMA InsideSteps ==
  ASSUME NEW p \in Processes, LockInv,
         \/ Recover(p) \/ Undo(p) \/ Clean(p) \/ Finish(p) \/ Erase(p)
         \/ Stage(p) \/ NoUpdate(p) \/ WriteJournal(p) \/ Backup(p)
         \/ Rename(p) \/ Commit(p) \/ Discard(p) \/ Close(p) \/ Revert(p)
         \/ Forget(p) \/ Sweep(p) \/ PublishFails(p) \/ StepFails(p)
  PROVE  Inside(p)
<1>1. CASE Recover(p)
  BY <1>1 DEF Recover, ReadJournal, Inside, Holding, Goto, kept, inner, InsideLabels, Labels, OutsideLabels
<1>2. CASE Undo(p)
  <2>1. /\ Holding(p)
        /\ UNCHANGED <<lock, outrun, raced>>
    BY <1>2 DEF Undo, Holding, kept, inner
  <2>2. \/ UNCHANGED pc
        \/ \E l \in {"drop", "clean"} : pc' = [pc EXCEPT ![p] = l]
    BY <1>2 DEF Undo, Goto
  <2>3. UNCHANGED pc => pc' = [pc EXCEPT ![p] = "undo"]
    BY <1>2 DEF Undo, LockInv
  <2>. QED
    BY <2>1, <2>2, <2>3 DEF Inside, InsideLabels, Labels, OutsideLabels
<1>3. CASE Clean(p)
  BY <1>3 DEF Clean, Inside, Holding, Goto, kept, inner, InsideLabels, Labels, OutsideLabels
<1>4. CASE Finish(p)
  BY <1>4 DEF Finish, Inside, Holding, Goto, inner, InsideLabels, Labels, OutsideLabels
<1>5. CASE Erase(p) \/ Stage(p) \/ NoUpdate(p)
  BY <1>5 DEF Erase, Stage, NoUpdate, Inside, Holding, Goto, kept, inner,
     InsideLabels, Labels, OutsideLabels
<1>6. CASE WriteJournal(p) \/ Commit(p)
  BY <1>6 DEF WriteJournal, Commit, Inside, Holding, Goto, kept, inner,
     InsideLabels, Labels, OutsideLabels
<1>7. CASE Backup(p) \/ Rename(p) \/ PublishFails(p)
  BY <1>7 DEF Backup, Rename, PublishFails, Inside, Holding, Goto, kept, inner,
     InsideLabels, Labels, OutsideLabels
<1>8. CASE Discard(p)
  BY <1>8 DEF Discard, Inside, Holding, Goto, inner, InsideLabels, Labels, OutsideLabels
<1>9. CASE Close(p) \/ Forget(p) \/ Sweep(p)
  BY <1>9 DEF Close, Forget, Sweep, Inside, Holding, Goto, kept, inner,
     InsideLabels, Labels, OutsideLabels
<1>10. CASE Revert(p)
  <2>1. /\ Holding(p)
        /\ UNCHANGED <<lock, outrun, raced>>
    BY <1>10 DEF Revert, Holding, kept, inner
  <2>2. \/ UNCHANGED pc
        \/ \E l \in {"revert", "forget"} : pc' = [pc EXCEPT ![p] = l]
    BY <1>10 DEF Revert, Goto
  <2>3. UNCHANGED pc => pc' = [pc EXCEPT ![p] = "revert"]
    BY <1>10 DEF Revert, LockInv
  <2>. QED
    BY <2>1, <2>2, <2>3 DEF Inside, InsideLabels, Labels, OutsideLabels
<1>11. CASE StepFails(p)
  BY <1>11 DEF StepFails, Inside, Holding, Goto, kept, inner, InsideLabels, Labels, OutsideLabels
<1>. QED
  BY <1>1, <1>2, <1>3, <1>4, <1>5, <1>6, <1>7, <1>8, <1>9, <1>10, <1>11

\* Every step keeps the invariant; only those of the lock itself can disturb it.
LEMMA LockStep ==
  ASSUME LockInv, [Next]_vars
  PROVE  LockInv'
<1>. USE UpgradeAssumption
<1>1. CASE UNCHANGED <<pc, lock, outrun, raced>>
  BY <1>1 DEF LockInv, Holding
<1>2. ASSUME NEW p \in Processes, Inside(p)
      PROVE  LockInv'
  BY <1>2 DEF LockInv, Inside, Holding, InsideLabels, OutsideLabels, Labels
<1>3. ASSUME NEW p \in Processes, Start(p)
      PROVE  LockInv'
  BY <1>3 DEF LockInv, Start, Goto, Holding, Labels
<1>4. ASSUME NEW p \in Processes, Open(p)
      PROVE  LockInv'
  BY <1>4 DEF LockInv, Open, Goto, Holding, Labels
<1>5. ASSUME NEW p \in Processes, Name(p)
      PROVE  LockInv'
  BY <1>5 DEF LockInv, Name, GiveUp, Goto, Holding, Labels
<1>6. ASSUME NEW p \in Processes, Judge(p)
      PROVE  LockInv'
  <2>1. StaleUpgradeLock => lock = Dead \/ (stamp = "aged" /\ lock # Dead)
    BY DEF StaleUpgradeLock
  <2>. QED
    BY <1>6, <2>1 DEF LockInv, Judge, GiveUp, Goto, Holding, Labels
<1>7. ASSUME NEW p \in Processes, Takeover(p)
      PROVE  LockInv'
  <2>1. raced => raced'
    BY <1>7 DEF Takeover
  <2>2. p \in outrun /\ lock \in Processes => raced'
    BY <1>7 DEF Takeover
  <2>3. pc' \in [Processes -> Labels] /\ (pc'[p] = "open" \/ pc'[p] = "idle")
    BY <1>7 DEF Takeover, GiveUp, Goto, LockInv, Labels
  <2>4. \A q \in Processes \ {p} : pc'[q] = pc[q]
    BY <1>7 DEF Takeover, GiveUp, Goto, LockInv
  <2>5. \A q \in Processes \ {p} : pc[q] = "takeover" => q \in outrun'
    BY <1>7 DEF Takeover
  <2>6. ~raced' => \A q \in Processes : ~Holding(q)
    BY <1>7, <2>1, <2>2 DEF LockInv, Takeover, Holding
  <2>. QED
    BY <2>1, <2>3, <2>4, <2>5, <2>6 DEF LockInv, Holding
<1>8. ASSUME NEW p \in Processes, Drop(p)
      PROVE  LockInv'
  BY <1>8 DEF LockInv, Drop, Ends, Goto, Holding, Labels
<1>9. ASSUME NEW p \in Processes, Crash(p)
      PROVE  LockInv'
  BY <1>9 DEF LockInv, Crash, Ends, Goto, Holding, Labels
<1>10. CASE Publish \/ Age \/ UNCHANGED vars
  BY <1>1, <1>10 DEF Publish, Age, vars, history
<1>11. ASSUME NEW p \in Processes, Step(p)
       PROVE  LockInv'
  BY <1>2, <1>3, <1>4, <1>5, <1>6, <1>7, <1>8, <1>11, InsideSteps DEF Step
<1>12. ASSUME NEW p \in Processes, PublishFails(p) \/ StepFails(p)
       PROVE  LockInv'
  BY <1>2, <1>12, InsideSteps
<1>13. CASE Next
  BY <1>9, <1>10, <1>11, <1>12, <1>13 DEF Next
<1>. QED
  BY <1>10, <1>13

\* Upgrades exclude each other: recovery, publication and rollback of one
\* ctx process never overlap with those of another.  The one way out of it is
\* that a process removes a lock other than the dead one it has seen, or one
\* that is still blank after 30 minutes (UpgradeLock::acquire in state.rs:
\* remove_file does not look at what it removes).
THEOREM Exclusion == Spec => []Exclusive
<1>1. Init => LockInv
  BY InitialLock
<1>2. LockInv /\ [Next]_vars => LockInv'
  BY LockStep
<1>3. LockInv => Exclusive
  BY DEF LockInv, Exclusive
<1>. QED
  BY <1>1, <1>2, <1>3, PTL DEF Spec

-----------------------------------------------------------------------------
(* Types.  What a process does to a path it does to one of the three, and  *)
(* the files that a recovery touches are those of the journal it has read, *)
(* whatever happens to the journal, and to its lock, meanwhile.            *)

AtPath ==
  \A p \in Processes :
    pc[p] \in {"undo", "clean", "finish", "backup", "rename", "discard", "revert"}
      => at[p] \in 1 .. 3

ReadThere ==
  \A p \in Processes : pc[p] \in {"undo", "clean", "finish"} => read[p] \in Records

TypeInv == TypeOK /\ AtPath /\ ReadThere

\* TypeOK in five parts: what is common to all, what happened, the disk, where a
\* process is, and what it remembers.
CommonOK ==
  /\ release \in Releases
  /\ lock \in Processes \cup {NoOne, Dead}
  /\ crashes \in 0 .. MaxCrashes
  /\ faults \in 0 .. MaxFaults

HistoryOK ==
  /\ stamp \in {"written", "blank", "aged"}
  /\ outrun \in SUBSET Processes
  /\ raced \in BOOLEAN
  /\ disturbed \in BOOLEAN

DiskOK ==
  /\ target \in [Artifacts -> Content]
  /\ staged \in [Processes -> [Artifacts -> Content]]
  /\ backup \in [Processes -> [Artifacts -> Content]]
  /\ previous \in Content
  /\ journal \in Journals

PlaceOK ==
  /\ pc \in [Processes -> Labels]
  /\ at \in [Processes -> 0 .. 3]

MemoryOK ==
  /\ tries \in [Processes -> 0 .. 2]
  /\ running \in [Processes -> Content]
  /\ had \in [Processes -> SUBSET Artifacts]
  /\ published \in [Processes -> SUBSET Artifacts]
  /\ failed \in [Processes -> BOOLEAN]
  /\ read \in [Processes -> Journals]

LEMMA TypeParts ==
  /\ TypeOK <=> CommonOK /\ HistoryOK /\ DiskOK /\ PlaceOK /\ MemoryOK
  /\ TypeOK' <=> CommonOK' /\ HistoryOK' /\ DiskOK' /\ PlaceOK' /\ MemoryOK'
  BY DEF TypeOK, CommonOK, HistoryOK, DiskOK, PlaceOK, MemoryOK

\* What changes one file of one process.
LEMMA FileChanged ==
  ASSUME NEW F \in [Processes -> [Artifacts -> Content]],
         NEW p \in Processes, NEW a \in Artifacts, NEW c \in Content
  PROVE  [F EXCEPT ![p][a] = c] \in [Processes -> [Artifacts -> Content]]
  OBVIOUS

LEMMA CommonStill ==
  ASSUME CommonOK, UNCHANGED <<release, lock, crashes, faults>>
  PROVE  CommonOK'
  BY DEF CommonOK

LEMMA DiskStill ==
  ASSUME DiskOK, UNCHANGED <<paths, journal>>
  PROVE  DiskOK'
  BY DEF DiskOK, paths

LEMMA MemoryStill ==
  ASSUME MemoryOK, UNCHANGED <<tries, running, memory>>
  PROVE  MemoryOK'
  BY DEF MemoryOK, memory

LEMMA OrderType ==
  /\ \A i \in 1 .. 3 : Order[i] \in Artifacts /\ DiscardOrder[i] \in Artifacts
  /\ NoJournal \notin Records
  BY DEF Order, DiscardOrder, Artifacts, NoJournal, Records

\* A step that moves p to a legal place leaves every process where it may be.
LEMMA GotoKeeps ==
  ASSUME TypeInv, NEW p \in Processes,
         NEW label \in Labels, NEW i \in 0 .. 3, Goto(p, label, i),
         label \in {"undo", "clean", "finish", "backup", "rename", "discard", "revert"}
           => i \in 1 .. 3,
         label \in {"undo", "clean", "finish"} => read'[p] \in Records,
         \A q \in Processes \ {p} : read'[q] = read[q]
  PROVE  PlaceOK' /\ AtPath' /\ ReadThere'
<1>1. PlaceOK'
  BY DEF TypeInv, TypeOK, Goto, PlaceOK
<1>2. AtPath'
  BY DEF TypeInv, TypeOK, AtPath, Goto
<1>3. ReadThere'
  BY DEF TypeInv, TypeOK, ReadThere, Goto
<1>. QED
  BY <1>1, <1>2, <1>3

\* A process does not touch what another one has read.
LEMMA ReadOfOthers ==
  ASSUME TypeInv, NEW p \in Processes,
         \/ UNCHANGED read
         \/ UNCHANGED memory
         \/ \E j : read' = [read EXCEPT ![p] = j]
  PROVE  \A q \in Processes \ {p} : read'[q] = read[q]
  BY DEF memory, TypeInv, TypeOK

LEMMA InitialTypes == Init => TypeInv
<1> SUFFICES ASSUME Init PROVE TypeInv
  OBVIOUS
<1>1. target \in [Artifacts -> Content] /\ Absent \in [Artifacts -> Content]
  BY UpgradeAssumption DEF Init, Content, Releases, Absent
<1>2. CommonOK /\ PlaceOK
  BY UpgradeAssumption DEF Init, CommonOK, PlaceOK, Releases, Labels
<1>3. DiskOK
  BY <1>1 DEF Init, DiskOK, Content, Journals
<1>4. MemoryOK
  BY DEF Init, MemoryOK, Content, Journals
<1>5. HistoryOK
  BY DEF Init, HistoryOK
<1>. QED
  BY <1>2, <1>3, <1>4, <1>5, TypeParts DEF Init, TypeInv, AtPath, ReadThere

\* Nothing moves and no journal is written.
LEMMA StillKeeps ==
  ASSUME TypeInv, UNCHANGED <<pc, at, read>>
  PROVE  PlaceOK' /\ AtPath' /\ ReadThere'
  BY TypeParts DEF TypeInv, PlaceOK, AtPath, ReadThere

\* What happened is recorded as what it is.
LEMMA HistoryStep ==
  ASSUME TypeInv, [Next]_vars
  PROVE  HistoryOK'
<1>0. HistoryOK
  BY TypeParts DEF TypeInv
<1>1. CASE UNCHANGED <<stamp, outrun, raced, disturbed>>
  BY <1>0, <1>1 DEF HistoryOK
<1>2. ASSUME NEW p \in Processes, Open(p) \/ Name(p) \/ Judge(p) \/ Takeover(p)
      PROVE  HistoryOK'
  BY <1>0, <1>2 DEF HistoryOK, Open, Name, Judge, Takeover, unlocked
<1>3. ASSUME NEW p \in Processes, Drop(p) \/ Crash(p)
      PROVE  HistoryOK'
  BY <1>0, <1>3 DEF HistoryOK, Drop, Crash, Ends
<1>4. ASSUME NEW p \in Processes, Commit(p)
      PROVE  HistoryOK'
  BY <1>0, <1>4 DEF HistoryOK, Commit, inner
<1>5. CASE Age
  BY <1>0, <1>5 DEF HistoryOK, Age, history
<1>6. CASE Publish \/ UNCHANGED vars
  BY <1>1, <1>6 DEF Publish, vars, history
<1>7. ASSUME NEW p \in Processes, Step(p)
      PROVE  HistoryOK'
  <2>1. CASE Start(p)
    BY <1>1, <2>1 DEF Start, unlocked
  <2>2. CASE Recover(p) \/ Undo(p) \/ Clean(p) \/ Finish(p) \/ Erase(p)
    BY <1>1, <2>2 DEF Recover, ReadJournal, Undo, Clean, Finish, Erase, kept, inner
  <2>3. CASE Stage(p) \/ NoUpdate(p) \/ WriteJournal(p) \/ Backup(p) \/ Rename(p)
    BY <1>1, <2>3 DEF Stage, NoUpdate, WriteJournal, Backup, Rename, kept, inner
  <2>4. CASE Discard(p) \/ Close(p) \/ Revert(p) \/ Forget(p) \/ Sweep(p)
    BY <1>1, <2>4 DEF Discard, Close, Revert, Forget, Sweep, kept, inner
  <2>. QED
    BY <1>2, <1>3, <1>4, <1>7, <2>1, <2>2, <2>3, <2>4 DEF Step
<1>8. ASSUME NEW p \in Processes, PublishFails(p) \/ StepFails(p)
      PROVE  HistoryOK'
  BY <1>1, <1>8 DEF PublishFails, StepFails, kept, inner
<1>. QED
  BY <1>3, <1>5, <1>6, <1>7, <1>8 DEF Next

LEMMA TypeStep ==
  ASSUME TypeInv, [Next]_vars
  PROVE  TypeInv'
<1>. USE UpgradeAssumption DEF Outcome
<1>0. CommonOK /\ DiskOK /\ PlaceOK /\ MemoryOK
  BY TypeParts DEF TypeInv
<1>h. HistoryOK'
  BY HistoryStep
<1>1. CASE Publish \/ Age
  <2>1. PlaceOK' /\ AtPath' /\ ReadThere'
    BY <1>1, StillKeeps DEF Publish, Age, memory
  <2>2. CommonOK'
    BY <1>0, <1>1 DEF Publish, Age, CommonOK, Releases
  <2>3. DiskOK'
    BY <1>0, <1>1, DiskStill DEF Publish, Age
  <2>4. MemoryOK'
    BY <1>0, <1>1, MemoryStill DEF Publish, Age
  <2>. QED
    BY <2>1, <2>2, <2>3, <2>4, <1>h, TypeParts DEF TypeInv
<1>2. ASSUME NEW p \in Processes, Start(p)
      PROVE  TypeInv'
  <2>1. PlaceOK' /\ AtPath' /\ ReadThere'
    BY <1>2, GotoKeeps, ReadOfOthers DEF Start, unlocked, Labels
  <2>2. CommonOK'
    BY <1>0, <1>2, CommonStill DEF Start, unlocked
  <2>3. DiskOK'
    BY <1>0, <1>2, DiskStill DEF Start, unlocked
  <2>4. MemoryOK'
    BY <1>0, <1>2 DEF Start, unlocked, memory, MemoryOK, DiskOK, Artifacts
  <2>. QED
    BY <2>1, <2>2, <2>3, <2>4, <1>h, TypeParts DEF TypeInv
<1>3. ASSUME NEW p \in Processes, Open(p)
      PROVE  TypeInv'
  <2>1. PlaceOK' /\ AtPath' /\ ReadThere'
    BY <1>3, GotoKeeps, ReadOfOthers DEF Open, unlocked, Labels
  <2>2. CommonOK'
    BY <1>0, <1>3 DEF Open, unlocked, CommonOK
  <2>3. DiskOK'
    BY <1>0, <1>3, DiskStill DEF Open, unlocked
  <2>4. MemoryOK'
    BY <1>0, <1>3, MemoryStill DEF Open, unlocked
  <2>. QED
    BY <2>1, <2>2, <2>3, <2>4, <1>h, TypeParts DEF TypeInv
<1>26. ASSUME NEW p \in Processes, Name(p)
       PROVE  TypeInv'
  <2>1. PlaceOK' /\ AtPath' /\ ReadThere'
    BY <1>26, GotoKeeps, ReadOfOthers DEF Name, GiveUp, unlocked, Labels
  <2>2. CommonOK'
    BY <1>0, <1>26 DEF Name, unlocked, CommonOK
  <2>3. DiskOK'
    BY <1>0, <1>26, DiskStill DEF Name, unlocked
  <2>4. MemoryOK'
    BY <1>0, <1>26 DEF Name, GiveUp, unlocked, memory, MemoryOK, Content
  <2>. QED
    BY <2>1, <2>2, <2>3, <2>4, <1>h, TypeParts DEF TypeInv
<1>4. ASSUME NEW p \in Processes, Judge(p)
      PROVE  TypeInv'
  <2>1. PlaceOK' /\ AtPath' /\ ReadThere'
    BY <1>4, GotoKeeps, ReadOfOthers DEF Judge, GiveUp, unlocked, Labels
  <2>2. CommonOK'
    BY <1>0, <1>4, CommonStill DEF Judge, unlocked
  <2>3. DiskOK'
    BY <1>0, <1>4, DiskStill DEF Judge, unlocked
  <2>4. MemoryOK'
    BY <1>0, <1>4 DEF Judge, GiveUp, unlocked, memory, MemoryOK, Content
  <2>. QED
    BY <2>1, <2>2, <2>3, <2>4, <1>h, TypeParts DEF TypeInv
<1>5. ASSUME NEW p \in Processes, Takeover(p)
      PROVE  TypeInv'
  <2>1. PlaceOK' /\ AtPath' /\ ReadThere'
    BY <1>5, GotoKeeps, ReadOfOthers DEF Takeover, GiveUp, unlocked, Labels
  <2>2. CommonOK'
    BY <1>0, <1>5 DEF Takeover, unlocked, CommonOK
  <2>3. DiskOK'
    BY <1>0, <1>5, DiskStill DEF Takeover, unlocked
  <2>4. MemoryOK'
    BY <1>0, <1>5 DEF Takeover, GiveUp, unlocked, memory, MemoryOK, Content
  <2>. QED
    BY <2>1, <2>2, <2>3, <2>4, <1>h, TypeParts DEF TypeInv
<1>6. ASSUME NEW p \in Processes, Drop(p)
      PROVE  TypeInv'
  <2>1. PlaceOK' /\ AtPath' /\ ReadThere'
    BY <1>6, GotoKeeps, ReadOfOthers DEF Drop, Ends, Labels
  <2>2. CommonOK'
    BY <1>0, <1>6 DEF Drop, CommonOK
  <2>3. DiskOK'
    BY <1>0, <1>6, DiskStill DEF Drop
  <2>4. MemoryOK'
    BY <1>0, <1>6 DEF Drop, Ends, MemoryOK, Journals, Content
  <2>. QED
    BY <2>1, <2>2, <2>3, <2>4, <1>h, TypeParts DEF TypeInv
<1>7. ASSUME NEW p \in Processes, Recover(p)
      PROVE  TypeInv'
  <2>1. PICK l \in {"plan", "undo", "finish", "drop"}, i \in 0 .. 3 :
          /\ Goto(p, l, i)
          /\ l \in {"undo", "finish"} => i \in 1 .. 3 /\ journal \in Records
    BY <1>0, <1>7 DEF Recover, DiskOK, Journals, NoJournal
  <2>2. read'[p] = journal /\ \A q \in Processes \ {p} : read'[q] = read[q]
    BY <1>0, <1>7 DEF Recover, ReadJournal, MemoryOK
  <2>3. PlaceOK' /\ AtPath' /\ ReadThere'
    BY <2>1, <2>2, GotoKeeps DEF Labels
  <2>4. CommonOK'
    BY <1>0, <1>7, CommonStill DEF Recover, ReadJournal, kept, inner
  <2>5. DiskOK'
    BY <1>0, <1>7, DiskStill DEF Recover, ReadJournal, kept, inner, paths
  <2>6. MemoryOK'
    BY <1>0, <1>7 DEF Recover, ReadJournal, kept, inner, MemoryOK, DiskOK
  <2>. QED
    BY <2>3, <2>4, <2>5, <2>6, <1>h, TypeParts DEF TypeInv
<1>8. ASSUME NEW p \in Processes, Undo(p)
      PROVE  TypeInv'
  <2>1. at[p] \in 1 .. 3 /\ read[p] \in Records /\ read[p].tx \in Processes /\ Path(p) \in Artifacts
    BY <1>8, OrderType DEF Undo, TypeInv, AtPath, ReadThere, Records, Path
  <2>2. UNCHANGED <<pc, at>> => PlaceOK' /\ AtPath' /\ ReadThere'
    BY <1>8, StillKeeps DEF Undo, memory
  <2>3. ASSUME NEW l \in {"drop", "clean"}, NEW i \in 0 .. 3, Goto(p, l, i),
               l = "clean" => i \in 1 .. 3
        PROVE  PlaceOK' /\ AtPath' /\ ReadThere'
    BY <1>8, <2>1, <2>3, GotoKeeps, ReadOfOthers DEF Undo, memory, Labels
  <2>4. backup[read[p].tx][Path(p)] \in Content /\ 0 \in Content
    BY <1>0, <2>1 DEF DiskOK, Content
  <2>5. target' \in [Artifacts -> Content]
    BY <1>0, <1>8, <2>1, <2>4 DEF Undo, DiskOK
  <2>6. backup' \in [Processes -> [Artifacts -> Content]]
    <3>1. \/ UNCHANGED backup
          \/ backup' = [backup EXCEPT ![read[p].tx][Path(p)] = 0]
      BY <1>8 DEF Undo
    <3>2. backup \in [Processes -> [Artifacts -> Content]]
      BY <1>0 DEF DiskOK
    <3>3. [backup EXCEPT ![read[p].tx][Path(p)] = 0]
            \in [Processes -> [Artifacts -> Content]]
      BY <2>1, <2>4, <3>2, FileChanged
    <3>. QED
      BY <3>1, <3>2, <3>3
  <2>7. PlaceOK' /\ AtPath' /\ ReadThere'
    BY <1>8, <2>1, <2>2, <2>3 DEF Undo
  <2>8. CommonOK'
    BY <1>0, <1>8, CommonStill DEF Undo, kept, inner
  <2>9. DiskOK'
    BY <1>0, <1>8, <2>5, <2>6 DEF Undo, kept, inner, DiskOK
  <2>10. MemoryOK'
    BY <1>0, <1>8, MemoryStill DEF Undo, kept, inner
  <2>. QED
    BY <2>7, <2>8, <2>9, <2>10, <1>h, TypeParts DEF TypeInv
<1>9. ASSUME NEW p \in Processes, Clean(p)
      PROVE  TypeInv'
  <2>1. at[p] \in 1 .. 3 /\ read[p] \in Records /\ read[p].tx \in Processes /\ Path(p) \in Artifacts
    BY <1>9, OrderType DEF Clean, TypeInv, AtPath, ReadThere, Records, Path
  <2>2. PlaceOK' /\ AtPath' /\ ReadThere'
    BY <1>9, <2>1, GotoKeeps, ReadOfOthers DEF Clean, memory, Labels
  <2>3. CommonOK'
    BY <1>0, <1>9, CommonStill DEF Clean, kept, inner
  <2>4. DiskOK'
    BY <1>0, <1>9, <2>1 DEF Clean, kept, inner, DiskOK, Content
  <2>5. MemoryOK'
    BY <1>0, <1>9, MemoryStill DEF Clean, kept, inner
  <2>. QED
    BY <2>2, <2>3, <2>4, <2>5, <1>h, TypeParts DEF TypeInv
<1>10. ASSUME NEW tx \in Processes, NEW a \in Artifacts, DiscardBackup(tx, a)
       PROVE  /\ previous' \in Content
              /\ backup' \in [Processes -> [Artifacts -> Content]]
  BY <1>0, <1>10 DEF DiscardBackup, DiskOK, Content
<1>11. ASSUME NEW p \in Processes, Finish(p)
       PROVE  TypeInv'
  <2>1. at[p] \in 1 .. 3 /\ read[p] \in Records /\ read[p].tx \in Processes /\ Path(p) \in Artifacts
    BY <1>11, OrderType DEF Finish, TypeInv, AtPath, ReadThere, Records, Path
  <2>2. PlaceOK' /\ AtPath' /\ ReadThere'
    BY <1>11, <2>1, GotoKeeps, ReadOfOthers DEF Finish, memory, Labels
  <2>3. CommonOK'
    BY <1>0, <1>11, CommonStill DEF Finish, inner
  <2>4. DiskOK'
    BY <1>0, <1>11, <1>10, <2>1 DEF Finish, inner, DiskOK
  <2>5. MemoryOK'
    BY <1>0, <1>11, MemoryStill DEF Finish, inner
  <2>. QED
    BY <2>2, <2>3, <2>4, <2>5, <1>h, TypeParts DEF TypeInv
<1>12. ASSUME NEW p \in Processes, Erase(p) \/ Close(p)
       PROVE  TypeInv'
  <2>1. PlaceOK' /\ AtPath' /\ ReadThere'
    BY <1>12, GotoKeeps, ReadOfOthers DEF Erase, Close, Holding, Labels
  <2>2. CommonOK'
    BY <1>0, <1>12, CommonStill DEF Erase, Close, kept, inner
  <2>3. DiskOK'
    BY <1>0, <1>12 DEF Erase, Close, kept, inner, DiskOK, Journals
  <2>4. MemoryOK'
    BY <1>0, <1>12 DEF Erase, Close, kept, inner, memory, MemoryOK, Journals
  <2>. QED
    BY <2>1, <2>2, <2>3, <2>4, <1>h, TypeParts DEF TypeInv
<1>13. ASSUME NEW p \in Processes, Stage(p)
       PROVE  TypeInv'
  <2>1. Absent \in [Artifacts -> Content] /\ release \in Content
    BY <1>0 DEF Absent, CommonOK, Content
  <2>2. PlaceOK' /\ AtPath' /\ ReadThere'
    BY <1>13, GotoKeeps, ReadOfOthers DEF Stage, Labels
  <2>3. CommonOK'
    BY <1>0, <1>13, CommonStill DEF Stage, kept, inner
  <2>4. DiskOK'
    BY <1>0, <1>13, <2>1 DEF Stage, kept, inner, DiskOK
  <2>5. MemoryOK'
    BY <1>0, <1>13, MemoryStill DEF Stage, kept, inner
  <2>. QED
    BY <2>2, <2>3, <2>4, <2>5, <1>h, TypeParts DEF TypeInv
<1>14. ASSUME NEW p \in Processes, NoUpdate(p)
       PROVE  TypeInv'
  <2>1. PlaceOK' /\ AtPath' /\ ReadThere'
    BY <1>14, GotoKeeps, ReadOfOthers DEF NoUpdate, Labels
  <2>2. CommonOK'
    BY <1>0, <1>14, CommonStill DEF NoUpdate, kept, inner
  <2>3. DiskOK'
    BY <1>0, <1>14, DiskStill DEF NoUpdate, kept, inner, paths
  <2>4. MemoryOK'
    BY <1>0, <1>14, MemoryStill DEF NoUpdate, kept, inner
  <2>. QED
    BY <2>1, <2>2, <2>3, <2>4, <1>h, TypeParts DEF TypeInv
<1>15. ASSUME NEW p \in Processes, WriteJournal(p) \/ Commit(p)
       PROVE  TypeInv'
  <2>1. PICK phase \in {"publishing", "committed"}, ok \in BOOLEAN :
          WriteInstallTransaction(p, phase, ok)
    BY <1>15 DEF WriteJournal, Commit
  <2>2. journal' \in Journals
    BY <1>0, <2>1 DEF WriteInstallTransaction, Journals, Records, DiskOK
  <2>3. PICK l \in {"backup", "sweep", "discard", "revert"}, i \in 0 .. 3 :
          /\ Goto(p, l, i)
          /\ l # "sweep" => i \in 1 .. 3
    BY <1>15 DEF WriteJournal, Commit
  <2>4. Holding(p)
    BY <1>15 DEF WriteJournal, Commit, Holding
  <2>5. faults' \in 0 .. MaxFaults
    BY <1>0, <1>15 DEF WriteJournal, Commit, CommonOK
  <2>6. PlaceOK' /\ AtPath' /\ ReadThere'
    BY <1>15, <2>3, GotoKeeps, ReadOfOthers DEF WriteJournal, Commit, Labels
  <2>7. CommonOK'
    BY <1>0, <1>15, <2>5 DEF WriteJournal, Commit, kept, inner, CommonOK
  <2>8. DiskOK'
    BY <1>0, <1>15, <2>2 DEF WriteJournal, Commit, kept, inner, DiskOK
  <2>9. MemoryOK'
    BY <1>0, <1>15, MemoryStill DEF WriteJournal, Commit, kept, inner
  <2>. QED
    BY <2>6, <2>7, <2>8, <2>9, <1>h, TypeParts DEF TypeInv
<1>16. ASSUME NEW p \in Processes, Backup(p)
       PROVE  TypeInv'
  <2>1. at[p] \in 1 .. 3 /\ Path(p) \in Artifacts
    BY <1>16, OrderType DEF Backup, TypeInv, AtPath, Path
  <2>2. /\ target' \in [Artifacts -> Content]
        /\ backup' \in [Processes -> [Artifacts -> Content]]
    <3>1. target[Path(p)] \in Content /\ 0 \in Content
      BY <1>0, <2>1 DEF DiskOK, Content
    <3>2. CASE InPlace(Path(p))
      <4>1. backup' \in [Processes -> [Artifacts -> Content]]
        <5>1. backup' = [backup EXCEPT ![p][Path(p)] = target[Path(p)]]
          BY <1>16, <3>2 DEF Backup
        <5>. QED
          BY <1>0, <1>16, <2>1, <3>1, <5>1, FileChanged DEF DiskOK
      <4>2. target' \in [Artifacts -> Content]
        BY <1>0, <1>16, <2>1, <3>1, <3>2 DEF Backup, DiskOK
      <4>. QED
        BY <4>1, <4>2
    <3>3. CASE ~InPlace(Path(p))
      BY <1>0, <1>16, <3>3 DEF Backup, DiskOK
    <3>. QED
      BY <3>2, <3>3
  <2>3. PlaceOK' /\ AtPath' /\ ReadThere'
    BY <1>16, <2>1, GotoKeeps, ReadOfOthers DEF Backup, Labels
  <2>4. CommonOK'
    BY <1>0, <1>16, CommonStill DEF Backup, kept, inner
  <2>5. DiskOK'
    BY <1>0, <1>16, <2>2 DEF Backup, kept, inner, DiskOK
  <2>6. MemoryOK'
    BY <1>0, <1>16, <2>1 DEF Backup, kept, inner, MemoryOK
  <2>. QED
    BY <2>3, <2>4, <2>5, <2>6, <1>h, TypeParts DEF TypeInv
<1>17. ASSUME NEW p \in Processes, Rename(p)
       PROVE  TypeInv'
  <2>1. at[p] \in 1 .. 3 /\ Path(p) \in Artifacts
    BY <1>17, OrderType DEF Rename, TypeInv, AtPath, Path
  <2>2. /\ target' \in [Artifacts -> Content]
        /\ staged' \in [Processes -> [Artifacts -> Content]]
    BY <1>0, <1>17, <2>1 DEF Rename, DiskOK, Content
  <2>3. PlaceOK' /\ AtPath' /\ ReadThere'
    BY <1>17, <2>1, GotoKeeps, ReadOfOthers DEF Rename, Labels
  <2>4. CommonOK'
    BY <1>0, <1>17, CommonStill DEF Rename, kept, inner
  <2>5. DiskOK'
    BY <1>0, <1>17, <2>2 DEF Rename, kept, inner, DiskOK
  <2>6. MemoryOK'
    BY <1>0, <1>17, <2>1 DEF Rename, kept, inner, MemoryOK
  <2>. QED
    BY <2>3, <2>4, <2>5, <2>6, <1>h, TypeParts DEF TypeInv
<1>18. ASSUME NEW p \in Processes, PublishFails(p) \/ StepFails(p)
       PROVE  TypeInv'
  <2>1. PlaceOK' /\ AtPath' /\ ReadThere'
    BY <1>18, GotoKeeps, ReadOfOthers DEF PublishFails, StepFails, Labels
  <2>2. CommonOK'
    BY <1>0, <1>18 DEF PublishFails, StepFails, kept, inner, CommonOK
  <2>3. DiskOK'
    BY <1>0, <1>18, DiskStill DEF PublishFails, StepFails, kept, inner, paths
  <2>4. MemoryOK'
    BY <1>0, <1>18 DEF PublishFails, StepFails, kept, inner, memory, MemoryOK
  <2>. QED
    BY <2>1, <2>2, <2>3, <2>4, <1>h, TypeParts DEF TypeInv
<1>19. ASSUME NEW p \in Processes, Discard(p)
       PROVE  TypeInv'
  <2>1. at[p] \in 1 .. 3 /\ DiscardOrder[at[p]] \in Artifacts
    BY <1>19, OrderType DEF Discard, TypeInv, AtPath
  <2>2. PlaceOK' /\ AtPath' /\ ReadThere'
    BY <1>19, <2>1, GotoKeeps, ReadOfOthers DEF Discard, Labels
  <2>3. CommonOK'
    BY <1>0, <1>19, CommonStill DEF Discard, inner
  <2>4. DiskOK'
    BY <1>0, <1>19, <1>10, <2>1 DEF Discard, inner, DiskOK
  <2>5. MemoryOK'
    BY <1>0, <1>19, MemoryStill DEF Discard, inner
  <2>. QED
    BY <2>2, <2>3, <2>4, <2>5, <1>h, TypeParts DEF TypeInv
<1>20. ASSUME NEW p \in Processes, Revert(p)
       PROVE  TypeInv'
  <2>1. at[p] \in 1 .. 3 /\ Path(p) \in Artifacts
    BY <1>20, OrderType DEF Revert, TypeInv, AtPath, Path
  <2>2. UNCHANGED <<pc, at>> => PlaceOK' /\ AtPath' /\ ReadThere'
    BY <1>20, StillKeeps DEF Revert
  <2>3. at[p] > 1 /\ Goto(p, "revert", at[p] - 1) => PlaceOK' /\ AtPath' /\ ReadThere'
    BY <1>20, <2>1, GotoKeeps, ReadOfOthers DEF Revert, Labels
  <2>4. Goto(p, "forget", 0) => PlaceOK' /\ AtPath' /\ ReadThere'
    BY <1>20, GotoKeeps, ReadOfOthers DEF Revert, Labels
  <2>5. backup[p][Path(p)] \in Content /\ 0 \in Content
    BY <1>0, <2>1 DEF DiskOK, Content
  <2>6. target' \in [Artifacts -> Content]
    BY <1>0, <1>20, <2>1, <2>5 DEF Revert, DiskOK
  <2>7. backup' \in [Processes -> [Artifacts -> Content]]
    <3>1. \/ UNCHANGED backup
          \/ backup' = [backup EXCEPT ![p][Path(p)] = 0]
      BY <1>20 DEF Revert
    <3>2. backup \in [Processes -> [Artifacts -> Content]]
      BY <1>0 DEF DiskOK
    <3>3. [backup EXCEPT ![p][Path(p)] = 0] \in [Processes -> [Artifacts -> Content]]
      BY <1>20, <2>1, <2>5, <3>2, FileChanged
    <3>. QED
      BY <3>1, <3>2, <3>3
  <2>8. had' \in [Processes -> SUBSET Artifacts]
    BY <1>0, <1>20, <2>1 DEF Revert, MemoryOK, memory
  <2>9. published' \in [Processes -> SUBSET Artifacts]
    BY <1>0, <1>20, <2>1 DEF Revert, MemoryOK, memory
  <2>10. failed' \in [Processes -> BOOLEAN]
    BY <1>0, <1>20 DEF Revert, MemoryOK, memory
  <2>11. PlaceOK' /\ AtPath' /\ ReadThere'
    BY <1>20, <2>2, <2>3, <2>4 DEF Revert
  <2>12. CommonOK'
    BY <1>0, <1>20 DEF Revert, kept, inner, CommonOK
  <2>13. DiskOK'
    BY <1>0, <1>20, <2>6, <2>7 DEF Revert, kept, inner, DiskOK
  <2>14. MemoryOK'
    BY <1>0, <1>20, <2>8, <2>9, <2>10 DEF Revert, kept, inner, MemoryOK
  <2>. QED
    BY <2>11, <2>12, <2>13, <2>14, <1>h, TypeParts DEF TypeInv
<1>21. ASSUME NEW p \in Processes, Forget(p)
       PROVE  TypeInv'
  <2>1. PlaceOK' /\ AtPath' /\ ReadThere'
    BY <1>21, GotoKeeps, ReadOfOthers DEF Forget, Holding, Labels
  <2>2. CommonOK'
    BY <1>0, <1>21 DEF Forget, kept, inner, CommonOK
  <2>3. DiskOK'
    BY <1>0, <1>21 DEF Forget, kept, inner, DiskOK, Journals
  <2>4. MemoryOK'
    BY <1>0, <1>21, MemoryStill DEF Forget, kept, inner
  <2>. QED
    BY <2>1, <2>2, <2>3, <2>4, <1>h, TypeParts DEF TypeInv
<1>22. ASSUME NEW p \in Processes, Sweep(p)
       PROVE  TypeInv'
  <2>1. Absent \in [Artifacts -> Content]
    BY DEF Absent, Content
  <2>2. PlaceOK' /\ AtPath' /\ ReadThere'
    BY <1>22, GotoKeeps, ReadOfOthers DEF Sweep, Labels
  <2>3. CommonOK'
    BY <1>0, <1>22, CommonStill DEF Sweep, kept, inner
  <2>4. DiskOK'
    BY <1>0, <1>22, <2>1 DEF Sweep, kept, inner, DiskOK
  <2>5. MemoryOK'
    BY <1>0, <1>22, MemoryStill DEF Sweep, kept, inner
  <2>. QED
    BY <2>2, <2>3, <2>4, <2>5, <1>h, TypeParts DEF TypeInv
<1>23. ASSUME NEW p \in Processes, Crash(p)
       PROVE  TypeInv'
  <2>1. PlaceOK' /\ AtPath' /\ ReadThere'
    BY <1>23, GotoKeeps, ReadOfOthers DEF Crash, Ends, Labels
  <2>2. CommonOK'
    BY <1>0, <1>23 DEF Crash, CommonOK
  <2>3. DiskOK'
    BY <1>0, <1>23, DiskStill DEF Crash
  <2>4. MemoryOK'
    BY <1>0, <1>23 DEF Crash, Ends, MemoryOK, Journals, Content
  <2>. QED
    BY <2>1, <2>2, <2>3, <2>4, <1>h, TypeParts DEF TypeInv
<1>24. CASE UNCHANGED vars
  <2>1. PlaceOK' /\ AtPath' /\ ReadThere'
    BY <1>24, StillKeeps DEF vars, memory
  <2>2. CommonOK'
    BY <1>0, <1>24, CommonStill DEF vars
  <2>3. DiskOK'
    BY <1>0, <1>24, DiskStill DEF vars
  <2>4. MemoryOK'
    BY <1>0, <1>24, MemoryStill DEF vars
  <2>. QED
    BY <2>1, <2>2, <2>3, <2>4, <1>h, TypeParts DEF TypeInv
<1>25. ASSUME NEW p \in Processes, Step(p)
       PROVE  TypeInv'
  BY <1>2, <1>3, <1>4, <1>26, <1>5, <1>6, <1>7, <1>8, <1>9, <1>11, <1>12, <1>13,
     <1>14, <1>15, <1>16, <1>17, <1>19, <1>20, <1>21, <1>22, <1>25 DEF Step
<1>. QED
  BY <1>1, <1>18, <1>23, <1>24, <1>25 DEF Next

\* Every variable of an upgrade keeps its type, among them the memory of a
\* process about paths that others may have changed, also after a race for
\* the lock (install.rs).
THEOREM TypesKept == Spec => []TypeOK
<1>1. Init => TypeInv
  BY InitialTypes
<1>2. TypeInv /\ [Next]_vars => TypeInv'
  BY TypeStep
<1>3. TypeInv => TypeOK
  BY DEF TypeInv
<1>. QED
  BY <1>1, <1>2, <1>3, PTL DEF Spec

-----------------------------------------------------------------------------
(* The disk.  During a publication each path is in one of the states from  *)
(* which its old content can be restored, and a rollback restores them one *)
(* after the other.  What a rollback that fails leaves is Loose, and can   *)
(* be recovered if it is not half undone.                                  *)

Publishing == journal.phase = "publishing"
Tx == journal.tx
Old(a) == journal.old[a]

\* The stages of the publication of a path.
Untouched(a) == target[a] = Old(a) /\ ~BackedUp(Tx, a) /\ Staged(Tx, a)
Saved(a) ==
  /\ InPlace(a) => a # "runtime" /\ target[a] = Old(a)
  /\ a # "runtime" => InPlace(a)
  /\ Old(a) # 0 /\ backup[Tx][a] = Old(a) /\ Staged(Tx, a)
Placed(a) == InPlace(a) /\ ~Staged(Tx, a) /\ backup[Tx][a] = Old(a)

\* What a rollback makes of it.  A path that was absent is restored when it is
\* absent again.
Removed(a) ==
  ~InPlace(a) /\ ~Staged(Tx, a) /\ BackedUp(Tx, a) /\ backup[Tx][a] = Old(a)
Restored(a) == target[a] = Old(a) /\ ~BackedUp(Tx, a)
Gone(a) == Restored(a) /\ ~Staged(Tx, a) /\ Old(a) = 0

\* A recovery restores it, and one that is on its way can go on.
Recoverable(a) ==
  \/ Untouched(a) \/ Saved(a) \/ Placed(a) \/ Gone(a)
  \/ a # "binary" /\ Removed(a)
Loose(a) == Recoverable(a) \/ Removed(a) \/ Restored(a)

\* What p remembers of a path is how far its publication has come.
Remembered(p, a) ==
  /\ a \in published[p] => Placed(a) /\ (a \in had[p] <=> Old(a) # 0)
  /\ a \notin published[p] /\ a \in had[p] => Saved(a)
  /\ a \notin published[p] /\ a \notin had[p] => Untouched(a)

\* A path that is being reverted, and one that is, unless that has failed.
Reverting(p, a) ==
  /\ a \in published[p] => Placed(a) /\ (a \in had[p] <=> Old(a) # 0)
  /\ a \notin published[p] /\ a \in had[p] => Saved(a) \/ Removed(a)
  /\ a \notin published[p] /\ a \notin had[p] => Restored(a)
Reverted(p, a) == Restored(a) \/ (failed[p] /\ Loose(a))

\* The new content of a path, staged or in place.
Fresh(p, a) == IF staged[p][a] # 0 THEN staged[p][a] ELSE target[a]

Forward == {"backup", "rename", "commit"}
Backward == {"undo", "clean", "erase", "revert", "forget", "sweep", "drop"}

\* p publishes: its paths are as it remembers them, those up to the one it
\* is at are in place, and all are to be of one release, no older than the
\* old one.
Publishes(p) ==
  /\ Publishing /\ Tx = p
  /\ \A a \in Artifacts : Remembered(p, a)
  /\ \A i \in 1 .. 3 :
       /\ Order[i] \in published[p] <=> pc[p] = "commit" \/ i < at[p]
       /\ pc[p] = "backup" /\ i >= at[p] => Order[i] \notin had[p]
       /\ pc[p] = "rename" /\ i > at[p] => Order[i] \notin had[p]
  /\ pc[p] = "rename" => (Path(p) \in had[p] <=> Old(Path(p)) # 0)
  /\ \E r \in Releases :
       /\ Old("binary") <= r /\ r <= release
       /\ \A a \in Artifacts : Fresh(p, a) = r

\* p recovers: it has restored the paths after the one it is at.
Undoes(p) ==
  /\ Publishing /\ read[p] = journal
  /\ \A i \in 1 .. 3 :
       /\ i < at[p] => Recoverable(Order[i])
       /\ i > at[p] => Restored(Order[i])
  /\ pc[p] = "undo" => Recoverable(Path(p)) \/ Removed(Path(p))
  /\ pc[p] = "clean" => Restored(Path(p))

Reverts(p) ==
  /\ Publishing /\ Tx = p
  /\ \A i \in 1 .. 3 :
       /\ i < at[p] => Remembered(p, Order[i])
       /\ i > at[p] => Reverted(p, Order[i])
  /\ Reverting(p, Path(p))

Doing(p) ==
  /\ pc[p] \in {"plan", "prepared"} => journal = NoJournal
  /\ pc[p] = "prepared" =>
       \E r \in Releases :
         /\ target["binary"] <= r /\ r <= release
         /\ \A a \in Artifacts : staged[p][a] = r /\ backup[p][a] = 0
  /\ pc[p] \in {"finish", "discard", "close"} => ~Publishing
  /\ pc[p] \in Forward => Publishes(p)
  /\ pc[p] \in {"undo", "clean"} => Undoes(p)
  /\ pc[p] = "revert" => Reverts(p)
  /\ pc[p] = "forget" => Publishing
  /\ pc[p] \in {"forget", "sweep", "drop"} /\ Publishing
       => \A a \in Artifacts : Reverted(p, a)
  /\ pc[p] \in {"forget", "sweep"} /\ Publishing => Tx = p
  /\ pc[p] = "erase" /\ Publishing => \A a \in Artifacts : Restored(a)

\* Before it publishes a process remembers nothing.
Fits(p) ==
  pc[p] \in OutsideLabels \cup {"recover", "undo", "clean", "finish", "erase",
                                "plan", "prepared"}
    => had[p] = {} /\ published[p] = {}

DiskInv ==
  /\ 0 < Installed["binary"] /\ Installed["binary"] <= release
  /\ \A p \in Processes : Doing(p) /\ Fits(p)
  /\ Publishing /\ (\A p \in Processes : pc[p] \notin Forward \cup Backward)
       => \A a \in Artifacts : Recoverable(a)

\* What is known of a path depends on its files and the journal only.
LEMMA PathStill ==
  ASSUME NEW a \in Artifacts, UNCHANGED journal, target'[a] = target[a],
         staged'[Tx][a] = staged[Tx][a], backup'[Tx][a] = backup[Tx][a]
  PROVE  /\ Untouched(a)' <=> Untouched(a)
         /\ Saved(a)' <=> Saved(a)
         /\ Placed(a)' <=> Placed(a)
         /\ Recoverable(a)' <=> Recoverable(a)
         /\ Removed(a)' <=> Removed(a)
         /\ Restored(a)' <=> Restored(a)
         /\ Loose(a)' <=> Loose(a)
<1>1. Tx' = Tx /\ Old(a)' = Old(a)
  BY DEF Tx, Old
<1>2. /\ InPlace(a)' <=> InPlace(a)
      /\ Staged(Tx, a)' <=> Staged(Tx, a)
      /\ BackedUp(Tx, a)' <=> BackedUp(Tx, a)
  BY <1>1 DEF InPlace, Staged, BackedUp
<1>3. /\ Untouched(a)' <=> Untouched(a)
      /\ Saved(a)' <=> Saved(a)
      /\ Placed(a)' <=> Placed(a)
  BY <1>1, <1>2 DEF Untouched, Saved, Placed
<1>4. /\ Removed(a)' <=> Removed(a)
      /\ Restored(a)' <=> Restored(a)
      /\ Gone(a)' <=> Gone(a)
  BY <1>1, <1>2 DEF Removed, Restored, Gone
<1>5. Recoverable(a)' <=> Recoverable(a)
  BY <1>3, <1>4 DEF Recoverable
<1>. QED
  BY <1>3, <1>4, <1>5 DEF Loose

LEMMA FileWritten ==
  ASSUME NEW F \in [Processes -> [Artifacts -> Content]],
         NEW p \in Processes, NEW a \in Artifacts, NEW c
  PROVE  \A q \in Processes, b \in Artifacts :
           [F EXCEPT ![p][a] = c][q][b] = IF q = p /\ b = a THEN c ELSE F[q][b]
  OBVIOUS

LEMMA OrderFacts ==
  /\ \A i \in 1 .. 3 : Order[i] \in Artifacts
  /\ \A a \in Artifacts : \E i \in 1 .. 3 : Order[i] = a
  /\ \A i, j \in 1 .. 3 : Order[i] = Order[j] => i = j
  /\ Order[1] = "runtime" /\ Order[2] = "binary" /\ Order[3] = "marker"
  BY DEF Order, Artifacts

\* Steps that leave the disk, its journal and the memory alone.
LEMMA RememberedStill ==
  ASSUME NEW p \in Processes, NEW a \in Artifacts,
         UNCHANGED <<target, staged, backup, journal, had, published>>
  PROVE  /\ Remembered(p, a)' <=> Remembered(p, a)
         /\ Reverting(p, a)' <=> Reverting(p, a)
<1>1. Old(a)' = Old(a)
  BY DEF Old
<1>. QED
  BY <1>1, PathStill DEF Remembered, Reverting

LEMMA DoingStill ==
  ASSUME NEW p \in Processes, Doing(p), pc'[p] = pc[p], at'[p] = at[p],
         at[p] \in 0 .. 3, pc[p] \in {"undo", "clean", "revert", "backup", "rename"} => at[p] \in 1 .. 3,
         release \in Nat, release' \in Nat, release <= release',
         target["binary"] \in Nat,
         UNCHANGED <<target, staged, backup, journal, had, published>>,
         failed'[p] = failed[p], read'[p] = read[p]
  PROVE  Doing(p)'
<1>. USE OrderFacts
<1>1. /\ Publishing' <=> Publishing
      /\ Tx' = Tx
      /\ at[p] \in 1 .. 3 => Path(p)' = Path(p) /\ Path(p) \in Artifacts
  BY DEF Publishing, Tx, Path
<1>2. \A a \in Artifacts : /\ Recoverable(a)' <=> Recoverable(a)
                           /\ Removed(a)' <=> Removed(a)
                           /\ Restored(a)' <=> Restored(a)
                           /\ Reverted(p, a)' <=> Reverted(p, a)
                           /\ Old(a)' = Old(a)
                           /\ Fresh(p, a)' = Fresh(p, a)
  BY PathStill DEF Old, Fresh, Reverted
<1>3. Publishes(p) /\ pc[p] \in Forward => Publishes(p)'
  <2> SUFFICES ASSUME Publishes(p), pc[p] \in Forward PROVE Publishes(p)'
    OBVIOUS
  <2>1. \A a \in Artifacts : Remembered(p, a)'
    BY RememberedStill DEF Publishes
  <2>2. \E r \in Releases :
          /\ Old("binary")' <= r /\ r <= release'
          /\ \A a \in Artifacts : Fresh(p, a)' = r
    BY <1>2, "binary" \in Artifacts DEF Publishes, Releases
  <2> QED
    BY <1>1, <1>2, <2>1, <2>2 DEF Publishes
<1>4. pc[p] \in {"undo", "clean"} /\ Undoes(p) => Undoes(p)'
  BY <1>1, <1>2 DEF Undoes
<1>5. pc[p] = "revert" /\ Reverts(p) => Reverts(p)'
  BY <1>1, <1>2, RememberedStill DEF Reverts
<1>6. pc[p] = "prepared" =>
        \E r \in Releases :
          /\ target'["binary"] <= r /\ r <= release'
          /\ \A a \in Artifacts : staged'[p][a] = r /\ backup'[p][a] = 0
  BY DEF Doing, Releases
<1>. QED
  BY <1>1, <1>2, <1>3, <1>4, <1>5, <1>6 DEF Doing

\* What a process outside the lock does to the invariant: nothing.
LEMMA OutsideKeeps ==
  ASSUME DiskInv, TypeInv, release' \in Nat, release <= release',
         UNCHANGED <<paths, journal, had, published>>,
         \A q \in Processes :
           \/ /\ pc'[q] = pc[q] /\ at'[q] = at[q]
              /\ failed'[q] = failed[q] /\ read'[q] = read[q]
           \/ pc[q] \in OutsideLabels /\ pc'[q] \in OutsideLabels \cup {"recover"}
  PROVE  DiskInv'
<1>. USE DEF paths, memory
<1>1. /\ Installed' = Installed
      /\ Publishing' <=> Publishing
  BY DEF Installed, Publishing
<1>2. 0 < Installed'["binary"] /\ Installed'["binary"] <= release'
  <2>1. Installed["binary"] \in Nat /\ release \in Nat
    BY UpgradeAssumption DEF TypeInv, TypeOK, Installed, Journals, Records, NoJournal, Content, Releases, Artifacts
  <2>. QED
    BY <1>1, <2>1 DEF DiskInv
<1>3. ASSUME NEW q \in Processes
      PROVE  Doing(q)' /\ Fits(q)'
  <2>1. CASE /\ pc'[q] = pc[q] /\ at'[q] = at[q]
             /\ failed'[q] = failed[q] /\ read'[q] = read[q]
    <3>1. /\ at[q] \in 0 .. 3
          /\ pc[q] \in {"undo", "clean", "revert", "backup", "rename"} => at[q] \in 1 .. 3
          /\ release \in Nat /\ target["binary"] \in Nat
      BY UpgradeAssumption DEF TypeInv, TypeOK, AtPath, Content, Releases, Artifacts
    <3>2. Doing(q)'
      BY <2>1, <3>1, DoingStill DEF DiskInv
    <3>. QED
      BY <2>1, <3>2 DEF Fits, DiskInv
  <2>2. CASE pc[q] \in OutsideLabels /\ pc'[q] \in OutsideLabels \cup {"recover"}
    BY <2>2 DEF Doing, Fits, DiskInv, OutsideLabels, Forward
  <2>. QED
    BY <2>1, <2>2
<1>4. Publishing' /\ (\A q \in Processes : pc'[q] \notin Forward \cup Backward)
        => \A a \in Artifacts : Recoverable(a)'
  <2>1. ASSUME \A q \in Processes : pc'[q] \notin Forward \cup Backward
        PROVE  \A q \in Processes : pc[q] \notin Forward \cup Backward
    BY <2>1 DEF OutsideLabels, Forward, Backward
  <2>. QED
    BY <1>1, <2>1, PathStill DEF DiskInv
<1>. QED
  BY <1>2, <1>3, <1>4 DEF DiskInv

\* What has to be shown of a step of the process p that has the lock.
LEMMA HolderKeeps ==
  ASSUME DiskInv, LockInv, Calm, TypeInv, NEW p \in Processes, Holding(p),
         NEW l \in Labels, pc' = [pc EXCEPT ![p] = l],
         \A q \in Processes \ {p} :
           had'[q] = had[q] /\ published'[q] = published[q],
         0 < Installed'["binary"], Installed'["binary"] <= release',
         Doing(p)', Fits(p)',
         Publishing' /\ l \notin Forward \cup Backward
           => \A a \in Artifacts : Recoverable(a)'
  PROVE  DiskInv'
<1>1. pc \in [Processes -> Labels] /\ pc'[p] = l
  BY DEF LockInv
<1>2. ASSUME NEW q \in Processes \ {p}
      PROVE  pc'[q] = pc[q] /\ pc[q] \in OutsideLabels
  <2>1. ~Holding(q)
    BY UpgradeAssumption DEF LockInv, Calm
  <2>. QED
    BY <1>1, <2>1 DEF Holding, OutsideLabels
<1>3. ASSUME NEW q \in Processes
      PROVE  Doing(q)' /\ Fits(q)'
  <2>1. CASE q = p
    BY <2>1
  <2>2. CASE q # p
    BY <1>2, <2>2 DEF Doing, Fits, DiskInv, OutsideLabels, Forward
  <2>. QED
    BY <2>1, <2>2
<1>. QED
  BY <1>1, <1>3 DEF DiskInv

\* What a process that has the lock knows.
LEMMA HolderKnows ==
  ASSUME DiskInv, LockInv, Calm, TypeInv, NEW p \in Processes, Holding(p)
  PROVE  /\ Doing(p) /\ Fits(p)
         /\ Publishing /\ pc[p] \notin Forward \cup Backward
              => \A a \in Artifacts : Recoverable(a)
         /\ Installed["binary"] \in Nat /\ release \in Nat
         /\ journal = NoJournal \/ journal \in Records
         /\ target \in [Artifacts -> Content]
         /\ staged \in [Processes -> [Artifacts -> Content]]
         /\ backup \in [Processes -> [Artifacts -> Content]]
         /\ journal.phase # "none" => Tx \in Processes
         /\ journal.phase # "none" => journal.old \in [Artifacts -> Content]
<1>1. \A q \in Processes \ {p} : pc[q] \notin Forward \cup Backward
  <2> SUFFICES ASSUME NEW q \in Processes \ {p} PROVE pc[q] \notin Forward \cup Backward
    OBVIOUS
  <2>1. ~Holding(q)
    BY UpgradeAssumption DEF LockInv, Calm
  <2>. QED
    BY <2>1 DEF Holding, Forward, Backward
<1>2. Installed["binary"] \in Nat /\ release \in Nat
  BY UpgradeAssumption DEF TypeInv, TypeOK, Installed, Journals, Records, NoJournal, Content, Releases, Artifacts
<1>. QED
  BY <1>1, <1>2 DEF DiskInv, TypeInv, TypeOK, Journals, Records, NoJournal, Tx

\* The steps of the process that has the lock, one by one.
LEMMA RecoverKeeps ==
  ASSUME DiskInv, LockInv, Calm, TypeInv, NEW p \in Processes, Recover(p)
  PROVE  DiskInv'
<1>. USE DEF paths, memory, kept, inner
<1>1. Holding(p)
  BY DEF Recover, Holding
<1>2. /\ Installed' = Installed
      /\ Publishing' <=> Publishing
  BY DEF Recover, ReadJournal, Installed, Publishing
<1>3. \A a \in Artifacts : Recoverable(a)' <=> Recoverable(a)
  BY PathStill DEF Recover, ReadJournal
<1>4. Publishing => \A a \in Artifacts : Recoverable(a)
  BY <1>1, HolderKnows DEF Recover, Forward, Backward
<1>5. 0 < Installed'["binary"] /\ Installed'["binary"] <= release'
  BY <1>2 DEF DiskInv, Recover, ReadJournal
<1>6. PICK l \in {"plan", "undo", "finish", "drop"}, i \in 0 .. 3 :
        /\ Goto(p, l, i)
        /\ l = "plan" => journal = NoJournal
        /\ l = "undo" => Publishing /\ i = 3
        /\ l \in {"finish", "drop"} => ~Publishing
  BY <1>1, HolderKnows DEF Recover, Publishing, Records, NoJournal
<1>7. pc'[p] = l /\ at'[p] = i
  BY <1>6 DEF Goto, TypeInv, TypeOK
<1>8. Doing(p)'
  <2>1. CASE l = "undo"
    <3>1. Path(p)' = Order[3] /\ journal' = journal /\ read'[p] = journal'
      BY <1>6, <1>7, <2>1 DEF Path, Recover, ReadJournal, TypeInv, TypeOK
    <3>. QED
      BY <1>2, <1>3, <1>4, <1>6, <1>7, <2>1, <3>1, OrderFacts DEF Doing, Undoes, Forward
  <2>2. CASE l # "undo"
    BY <1>2, <1>6, <1>7, <2>2 DEF Doing, Forward, Recover, ReadJournal
  <2>. QED
    BY <2>1, <2>2
<1>9. Fits(p)'
  BY <1>1, <1>7, HolderKnows DEF Fits, Recover, ReadJournal, OutsideLabels
<1>. QED
  BY <1>1, <1>2, <1>3, <1>4, <1>5, <1>6, <1>8, <1>9, HolderKeeps
     DEF Recover, ReadJournal, Goto, Labels, Backward, Forward

\* The steps that do not touch what the invariant says of the disk.
LEMMA QuietKeeps ==
  ASSUME DiskInv, LockInv, Calm, TypeInv, NEW p \in Processes, Holding(p),
         UNCHANGED <<release, target, journal, memory>>,
         NEW l \in Labels, NEW i \in 0 .. 3, Goto(p, l, i),
         ~Publishing, Doing(p)',
         l \in OutsideLabels \cup {"recover", "undo", "clean", "finish", "erase", "plan", "prepared"}
           => had[p] = {} /\ published[p] = {}
  PROVE  DiskInv'
<1>. USE DEF memory
<1>1. /\ Installed' = Installed
      /\ ~Publishing'
  BY DEF Installed, Publishing
<1>2. 0 < Installed'["binary"] /\ Installed'["binary"] <= release'
  BY <1>1 DEF DiskInv
<1>3. pc'[p] = l
  BY DEF Goto, TypeInv, TypeOK
<1>4. Fits(p)'
  BY <1>3, HolderKnows DEF Fits
<1>. QED
  BY <1>1, <1>2, <1>4, HolderKeeps DEF Goto

LEMMA FinishKeeps ==
  ASSUME DiskInv, LockInv, Calm, TypeInv, NEW p \in Processes, Finish(p) \/ Discard(p)
  PROVE  DiskInv'
<1>. USE DEF inner, memory
<1>1. Holding(p) /\ at[p] \in 1 .. 3
  BY DEF Finish, Discard, Holding, TypeInv, AtPath
<1>2. ~Publishing /\ ~Publishing'
  BY <1>1, HolderKnows DEF Doing, Finish, Discard, Publishing
<1>3. PICK l \in {"finish", "erase", "discard", "close"}, i \in 0 .. 3 :
        /\ Goto(p, l, i)
        /\ l \in {"finish", "erase"} => pc[p] = "finish"
  BY <1>1 DEF Finish, Discard
<1>4. pc'[p] = l
  BY <1>3 DEF Goto, TypeInv, TypeOK
<1>5. Doing(p)'
  BY <1>2, <1>4 DEF Doing, Forward
<1>6. UNCHANGED <<release, target, journal, memory>>
  BY DEF Finish, Discard
<1>. QED
  BY <1>1, <1>2, <1>3, <1>5, <1>6, QuietKeeps, HolderKnows DEF Labels, Fits, OutsideLabels

\* An old journal goes when the installation is the old one again.
LEMMA EraseKeeps ==
  ASSUME DiskInv, LockInv, Calm, TypeInv, NEW p \in Processes, Erase(p) \/ Close(p)
  PROVE  DiskInv'
<1>. USE DEF kept, inner, memory
<1>1. Holding(p)
  BY DEF Erase, Close, Holding
<1>2. journal' = NoJournal /\ ~Publishing'
  BY DEF Erase, Close, Publishing, NoJournal
<1>3. Installed'["binary"] = Installed["binary"]
  <2>1. Installed' = target
    BY <1>2 DEF Installed, Publishing, Erase, Close
  <2>2. Publishing => target["binary"] = journal.old["binary"]
    BY <1>1, HolderKnows DEF Doing, Erase, Close, Restored, Old, Artifacts
  <2>. QED
    BY <2>1, <2>2 DEF Installed, Publishing
<1>4. PICK l \in {"plan", "drop"} : Goto(p, l, 0) /\ (l = "plan" => pc[p] = "erase")
  BY DEF Erase, Close
<1>5. pc'[p] = l
  BY <1>4 DEF Goto, TypeInv, TypeOK
<1>6. Doing(p)'
  BY <1>2, <1>5 DEF Doing, Forward
<1>7. Fits(p)'
  BY <1>1, <1>4, <1>5, HolderKnows DEF Fits, Erase, Close, OutsideLabels
<1>8. 0 < Installed'["binary"] /\ Installed'["binary"] <= release'
  BY <1>3 DEF DiskInv, Erase, Close
<1>. QED
  BY <1>1, <1>2, <1>4, <1>6, <1>7, <1>8, HolderKeeps DEF Goto, Labels, Erase, Close

LEMMA StageKeeps ==
  ASSUME DiskInv, LockInv, Calm, TypeInv, NEW p \in Processes, Stage(p) \/ NoUpdate(p)
  PROVE  DiskInv'
<1>. USE DEF kept, inner, memory
<1>1. Holding(p)
  BY DEF Stage, NoUpdate, Holding
<1>2. journal = NoJournal /\ ~Publishing /\ ~Publishing'
  BY <1>1, HolderKnows DEF Doing, Stage, NoUpdate, Publishing, NoJournal
<1>3. PICK l \in {"prepared", "drop"} :
        Goto(p, l, 0) /\ (l = "prepared" => Stage(p))
  BY DEF Stage, NoUpdate
<1>4. pc'[p] = l
  BY <1>3 DEF Goto, TypeInv, TypeOK
<1>5. UNCHANGED <<release, target, journal, memory>>
  BY DEF Stage, NoUpdate
<1>6. Doing(p)'
  <2>1. ASSUME l = "prepared"
        PROVE  \E r \in Releases :
                 /\ target'["binary"] <= r /\ r <= release'
                 /\ \A a \in Artifacts : staged'[p][a] = r /\ backup'[p][a] = 0
    <3>1. staged'[p] = [a \in Artifacts |-> release] /\ backup'[p] = Absent
      BY <1>1, <1>3, <2>1, HolderKnows DEF Stage
    <3>2. target["binary"] <= release
      BY <1>2 DEF DiskInv, Installed, Publishing
    <3>3. release \in Releases /\ release <= release
      BY UpgradeAssumption DEF TypeInv, TypeOK, Releases
    <3>. QED
      BY <1>5, <3>1, <3>2, <3>3 DEF Absent
  <2>. QED
    BY <1>2, <1>4, <1>5, <2>1 DEF Doing, Forward
<1>. QED
  BY <1>1, <1>2, <1>3, <1>5, <1>6, QuietKeeps, HolderKnows
     DEF Labels, Fits, Stage, NoUpdate, OutsideLabels

\* Whatever the process that has the lock does, no path is lost.
LEMMA AllLoose ==
  ASSUME DiskInv, LockInv, Calm, TypeInv, NEW p \in Processes, Holding(p), Publishing
  PROVE  \A a \in Artifacts : Loose(a)
<1>. USE OrderFacts DEF Loose
<1>1. Doing(p) /\ at[p] \in 0 .. 3
  BY HolderKnows DEF TypeInv, TypeOK
<1>2. CASE pc[p] \notin Forward \cup Backward
  BY <1>2, HolderKnows
<1>3. CASE pc[p] \in Forward
  BY <1>1, <1>3 DEF Doing, Publishes, Remembered, Recoverable
<1>4. CASE pc[p] \in {"undo", "clean", "revert"}
  <2>1. at[p] \in 1 .. 3 /\ Path(p) = Order[at[p]]
    BY <1>4 DEF TypeInv, AtPath, Path
  <2>2. ASSUME NEW i \in 1 .. 3
        PROVE  Loose(Order[i])
    <3>1. i < at[p] \/ i = at[p] \/ i > at[p]
      BY <2>1
    <3>2. CASE pc[p] \in {"undo", "clean"}
      <4>. HIDE DEF Loose
      <4>1. Undoes(p)
        BY <1>1, <3>2 DEF Doing
      <4>2. Recoverable(Order[i]) \/ Removed(Order[i]) \/ Restored(Order[i])
        BY <2>1, <3>1, <3>2, <4>1 DEF Undoes
      <4>. QED
        BY <4>2 DEF Loose
    <3>3. CASE pc[p] = "revert"
      <4>1. Reverts(p)
        BY <1>1, <3>3 DEF Doing
      <4>2. i < at[p] => Remembered(p, Order[i])
        BY <4>1 DEF Reverts
      <4>3. i > at[p] => Reverted(p, Order[i])
        BY <4>1 DEF Reverts
      <4>4. i = at[p] => Reverting(p, Order[i])
        BY <2>1, <4>1 DEF Reverts
      <4>. QED
        BY <3>1, <4>2, <4>3, <4>4 DEF Remembered, Reverted, Reverting, Recoverable
    <3>. QED
      BY <1>4, <3>2, <3>3
  <2>. QED
    BY <2>2
<1>5. CASE pc[p] \in {"erase", "forget", "sweep", "drop"}
  BY <1>1, <1>5 DEF Doing, Reverted
<1>. QED
  BY <1>2, <1>3, <1>4, <1>5 DEF Backward

\* And if the publication is not half undone, the next one can recover it.
LEMMA LooseRecoverable ==
  ASSUME NEW a \in Artifacts, Publishing, Loose(a), ~HalfUndone
  PROVE  Recoverable(a)
<1>1. Staged(Tx, a) \/ ((BackedUp(Tx, a) \/ Old(a) = 0) /\ (a = "binary" => InPlace(a)))
  BY DEF HalfUndone, Publishing, Tx, Old
<1>2. Removed(a) => a # "binary"
  BY <1>1 DEF Removed
<1>3. Restored(a) => Untouched(a) \/ Gone(a)
  BY <1>1 DEF Restored, Untouched, Gone
<1>. QED
  BY <1>2, <1>3 DEF Loose, Recoverable

\* A process with the lock ends, by itself or killed.
LEMMA EndsKeeps ==
  ASSUME DiskInv, LockInv, Calm, TypeInv, NEW p \in Processes, Holding(p),
         Ends(p), Calm', UNCHANGED <<release, paths, journal>>
  PROVE  DiskInv'
<1>. USE DEF paths
<1>1. ~HalfUndone
  BY DEF Ends, Calm
<1>2. Publishing => \A a \in Artifacts : Recoverable(a)
  BY <1>1, AllLoose, LooseRecoverable
<1>3. Publishing' => \A a \in Artifacts : Recoverable(a)'
  BY <1>2, PathStill DEF Publishing
<1>4. pc' = [pc EXCEPT ![p] = "idle"] /\ pc'[p] = "idle"
  BY DEF Ends, Goto, TypeInv, TypeOK
<1>5. had'[p] = {} /\ published'[p] = {}
  BY DEF Ends, TypeInv, TypeOK
<1>6. \A q \in Processes \ {p} : had'[q] = had[q] /\ published'[q] = published[q]
  BY DEF Ends, TypeInv, TypeOK
<1>7. Doing(p)' /\ Fits(p)'
  BY <1>4, <1>5 DEF Doing, Fits, Forward
<1>8. 0 < Installed'["binary"] /\ Installed'["binary"] <= release'
  BY DEF DiskInv, Installed
<1>. QED
  BY <1>3, <1>4, <1>6, <1>7, <1>8, HolderKeeps DEF Labels

LEMMA DropKeeps ==
  ASSUME DiskInv, LockInv, Calm, TypeInv, NEW p \in Processes, Drop(p), Calm'
  PROVE  DiskInv'
  BY EndsKeeps DEF Drop, Holding

\* The staged contents go, and what is restored stays so.
LEMMA SweepKeeps ==
  ASSUME DiskInv, LockInv, Calm, TypeInv, NEW p \in Processes, Sweep(p)
  PROVE  DiskInv'
<1>. USE DEF kept, inner, memory
<1>1. Holding(p)
  BY DEF Sweep, Holding
<1>2. UNCHANGED <<release, target, backup, journal, memory>>
  BY DEF Sweep
<1>3. pc' = [pc EXCEPT ![p] = "drop"] /\ pc'[p] = "drop"
  BY DEF Sweep, Goto, TypeInv, TypeOK
<1>4. (Publishing' <=> Publishing) /\ Tx' = Tx
  BY <1>2 DEF Publishing, Tx
<1>5. ASSUME Publishing, NEW a \in Artifacts
      PROVE  Reverted(p, a)'
  <2>1. Tx = p /\ Reverted(p, a)
    BY <1>1, <1>5, HolderKnows DEF Doing, Sweep
  <2>2. Old(a)' = Old(a) /\ (BackedUp(Tx, a)' <=> BackedUp(Tx, a)) /\ (InPlace(a)' <=> InPlace(a))
    BY <1>2, <1>4 DEF Old, BackedUp, InPlace
  <2>3. ~Staged(Tx, a)'
    BY <1>1, <1>4, <2>1, HolderKnows DEF Sweep, Staged, Absent
  <2>4. Restored(a) => Restored(a)'
    BY <1>2, <2>2 DEF Restored
  <2>5. Untouched(a) \/ Gone(a) => Restored(a)
    BY DEF Untouched, Gone, Restored
  <2>6. Saved(a) => Placed(a)' \/ Removed(a)'
    BY <1>2, <1>4, <2>2, <2>3 DEF Saved, Placed, Removed, BackedUp
  <2>7. Placed(a) => Placed(a)'
    BY <1>2, <1>4, <2>2, <2>3 DEF Placed
  <2>8. Removed(a) => Removed(a)'
    BY <1>2, <1>4, <2>2, <2>3 DEF Removed
  <2>9. Loose(a) => Loose(a)'
    BY <2>4, <2>5, <2>6, <2>7, <2>8 DEF Loose, Recoverable
  <2>. QED
    BY <1>2, <2>1, <2>4, <2>9 DEF Reverted
<1>6. Doing(p)' /\ Fits(p)'
  BY <1>3, <1>4, <1>5 DEF Doing, Fits, Forward, OutsideLabels
<1>7. 0 < Installed'["binary"] /\ Installed'["binary"] <= release'
  BY <1>2 DEF DiskInv, Installed
<1>. QED
  BY <1>1, <1>2, <1>3, <1>6, <1>7, HolderKeeps DEF Labels, Backward

LEMMA WriteJournalKeeps ==
  ASSUME DiskInv, LockInv, Calm, TypeInv, NEW p \in Processes, WriteJournal(p)
  PROVE  DiskInv'
<1>. USE DEF kept, inner, memory
<1>1. Holding(p) /\ journal = NoJournal /\ ~Publishing
  <2>1. Holding(p)
    BY DEF WriteJournal, Holding
  <2>. QED
    BY <2>1, HolderKnows DEF Doing, WriteJournal, Publishing, NoJournal
<1>2. UNCHANGED <<release, target, staged, backup, memory>>
  BY DEF WriteJournal
<1>3. PICK ok \in BOOLEAN, renamed \in BOOLEAN :
        /\ journal' = IF ok \/ renamed
                      THEN [tx |-> p, phase |-> "publishing", old |-> target]
                      ELSE journal
        /\ IF ok THEN Goto(p, "backup", 1) ELSE Goto(p, "sweep", 0)
  BY DEF WriteJournal, WriteInstallTransaction
<1>4. PICK r \in Releases :
        /\ target["binary"] <= r /\ r <= release
        /\ \A a \in Artifacts : staged[p][a] = r /\ backup[p][a] = 0
  BY <1>1, HolderKnows DEF Doing, WriteJournal
<1>5. ASSUME ok \/ renamed
      PROVE  /\ Publishing' /\ Tx' = p /\ (\A a \in Artifacts : Old(a)' = target[a])
             /\ Installed' = target /\ Installed = target
             /\ \A a \in Artifacts : Untouched(a)'
  <2>1. journal' = [tx |-> p, phase |-> "publishing", old |-> target]
    BY <1>3, <1>5
  <2>2. Publishing' /\ Tx' = p /\ \A a \in Artifacts : Old(a)' = target[a]
    BY <2>1 DEF Publishing, Tx, Old
  <2>3. Installed' = target /\ Installed = target
    BY <1>1, <2>1 DEF Installed, Publishing
  <2>4. \A a \in Artifacts : Untouched(a)'
    BY <1>2, <1>4, <2>2 DEF Untouched, BackedUp, Staged, Releases
  <2>. QED
    BY <2>2, <2>3, <2>4
<1>6. CASE ~ok
  <2>1. pc' = [pc EXCEPT ![p] = "sweep"] /\ pc'[p] = "sweep"
    BY <1>3, <1>6 DEF Goto, TypeInv, TypeOK
  <2>2. Publishing' => Tx' = p /\ \A a \in Artifacts : Reverted(p, a)'
    <3>1. CASE renamed
      BY <1>5, <3>1 DEF Untouched, Restored, Reverted
    <3>2. CASE ~renamed
      BY <1>1, <1>3, <1>6, <3>2 DEF Publishing
    <3>. QED
      BY <3>1, <3>2
  <2>3. Doing(p)' /\ Fits(p)'
    BY <2>1, <2>2 DEF Doing, Fits, Forward, OutsideLabels
  <2>4. Installed' = Installed
    <3>1. CASE renamed
      BY <1>5, <3>1
    <3>2. CASE ~renamed
      BY <1>2, <1>3, <1>6, <3>2 DEF Installed
    <3>. QED
      BY <3>1, <3>2
  <2>5. 0 < Installed'["binary"] /\ Installed'["binary"] <= release'
    BY <1>2, <2>4 DEF DiskInv
  <2>. QED
    BY <1>1, <1>2, <2>1, <2>3, <2>5, HolderKeeps DEF Labels, Backward
<1>7. CASE ok
  <2>1. pc' = [pc EXCEPT ![p] = "backup"] /\ pc'[p] = "backup" /\ at'[p] = 1
    BY <1>3, <1>7 DEF Goto, TypeInv, TypeOK
  <2>2. had[p] = {} /\ published[p] = {}
    BY <1>1, HolderKnows DEF Fits, WriteJournal
  <2>3. \A a \in Artifacts : Remembered(p, a)'
    BY <1>2, <1>5, <1>7, <2>2 DEF Remembered
  <2>4. \A a \in Artifacts : Fresh(p, a)' = r
    BY <1>2, <1>4 DEF Fresh, Releases
  <2>5. Publishes(p)'
    <3>1. Old("binary")' <= r /\ r <= release'
      BY <1>2, <1>4, <1>5, <1>7 DEF Artifacts
    <3>2. \A i \in 1 .. 3 : Order[i] \notin published'[p] /\ Order[i] \notin had'[p]
                            /\ ~(i < at'[p])
      BY <1>2, <2>1, <2>2
    <3>. QED
      BY <1>5, <1>7, <2>1, <2>3, <2>4, <3>1, <3>2 DEF Publishes
  <2>6. Doing(p)' /\ Fits(p)'
    BY <1>2, <2>1, <2>2, <2>5 DEF Doing, Fits, OutsideLabels
  <2>7. 0 < Installed'["binary"] /\ Installed'["binary"] <= release'
    BY <1>2, <1>5, <1>7 DEF DiskInv
  <2>. QED
    BY <1>1, <1>2, <2>1, <2>6, <2>7, HolderKeeps DEF Labels, Forward
<1>. QED
  BY <1>6, <1>7

\* What is in place when a publication is committed is one release.
LEMMA AllPlaced ==
  ASSUME TypeInv, NEW p \in Processes, Publishes(p), pc[p] = "commit"
  PROVE  \E r \in Releases :
           Old("binary") <= r /\ r <= release /\ target = [a \in Artifacts |-> r]
<1>1. PICK r \in Releases : /\ Old("binary") <= r /\ r <= release
                            /\ \A a \in Artifacts : Fresh(p, a) = r
  BY DEF Publishes
<1>2. \A a \in Artifacts : a \in published[p]
  BY OrderFacts DEF Publishes
<1>3. \A a \in Artifacts : staged[p][a] = 0
  BY <1>2 DEF Publishes, Remembered, Placed, Staged
<1>4. \A a \in Artifacts : target[a] = r
  BY <1>1, <1>3 DEF Fresh
<1>. QED
  BY <1>1, <1>4 DEF TypeInv, TypeOK

\* A publication that fails is reverted from where it is.
LEMMA RevertBegins ==
  ASSUME DiskInv, LockInv, Calm, TypeInv, NEW p \in Processes,
         pc[p] \in Forward, Goto(p, "revert", 3),
         UNCHANGED <<release, target, staged, backup, journal, memory>>
  PROVE  DiskInv'
<1>. USE DEF memory
<1>1. Holding(p)
  BY DEF Forward, Holding
<1>2. Publishes(p)
  BY <1>1, HolderKnows DEF Doing, Fits
<1>3. pc' = [pc EXCEPT ![p] = "revert"] /\ pc'[p] = "revert" /\ at'[p] = 3
  BY DEF Goto, TypeInv, TypeOK
<1>4. Publishing' /\ Tx' = p /\ Installed' = Installed
  BY <1>2 DEF Publishes, Publishing, Tx, Installed
<1>5. \A a \in Artifacts : Remembered(p, a) /\ Remembered(p, a)'
  BY <1>2, RememberedStill DEF Publishes
<1>6. Path(p)' = Order[3]
  BY <1>3 DEF Path
<1>7. Reverting(p, Path(p))'
  <2>1. Reverting(p, Order[3])
    BY <1>2, <1>5, OrderFacts DEF Publishes, Remembered, Reverting, Saved, Untouched, Restored
  <2>. QED
    BY <1>6, <2>1, RememberedStill, OrderFacts DEF Reverting
<1>8. Doing(p)'
  BY <1>3, <1>4, <1>5, <1>7, OrderFacts DEF Doing, Reverts, Forward
<1>9. Fits(p)'
  BY <1>2, <1>3 DEF Fits, OutsideLabels
<1>10. 0 < Installed'["binary"] /\ Installed'["binary"] <= release'
  BY <1>4 DEF DiskInv
<1>. QED
  BY <1>1, <1>3, <1>8, <1>9, <1>10, HolderKeeps DEF Labels, Backward

LEMMA CommitKeeps ==
  ASSUME DiskInv, LockInv, Calm, TypeInv, NEW p \in Processes, Commit(p), Calm'
  PROVE  DiskInv'
<1>. USE DEF inner, memory
<1>1. Holding(p) /\ Publishes(p)
  <2>1. Holding(p)
    BY DEF Commit, Holding
  <2>. QED
    BY <2>1, HolderKnows DEF Doing, Fits, Commit, Forward
<1>2. UNCHANGED <<release, target, staged, backup, memory>>
  BY DEF Commit
<1>3. PICK ok \in BOOLEAN :
        /\ journal' = IF ok THEN [tx |-> p, phase |-> "committed", old |-> target]
                            ELSE journal
        /\ IF ok THEN Goto(p, "discard", 1) ELSE Goto(p, "revert", 3)
  <2>1. PICK ok \in BOOLEAN, renamed \in BOOLEAN :
          /\ WriteInstallTransaction(p, "committed", ok \/ renamed)
          /\ disturbed' = (disturbed \/ (~ok /\ renamed))
          /\ IF ok THEN Goto(p, "discard", 1) ELSE Goto(p, "revert", 3)
    BY DEF Commit
  <2>2. ok \/ ~renamed
    BY <2>1 DEF Calm
  <2>. QED
    BY <2>1, <2>2 DEF WriteInstallTransaction
<1>4. CASE ~ok
  BY <1>2, <1>3, <1>4, RevertBegins DEF Commit, Forward
<1>5. CASE ok
  <2>1. /\ pc' = [pc EXCEPT ![p] = "discard"] /\ pc'[p] = "discard"
        /\ journal' = [tx |-> p, phase |-> "committed", old |-> target]
    BY <1>3, <1>5 DEF Goto, TypeInv, TypeOK
  <2>2. ~Publishing' /\ Installed' = target
    BY <1>2, <2>1 DEF Publishing, Installed
  <2>3. target["binary"] \in Releases /\ target["binary"] <= release
    BY <1>1, AllPlaced DEF Commit, Artifacts
  <2>4. Doing(p)'
    BY <2>1, <2>2 DEF Doing, Forward
  <2>5. Fits(p)'
    BY <1>1, <1>2, <2>1 DEF Fits, OutsideLabels
  <2>6. 0 < Installed'["binary"] /\ Installed'["binary"] <= release'
    BY <1>2, <2>2, <2>3 DEF Releases
  <2>. QED
    BY <1>1, <1>2, <2>1, <2>2, <2>4, <2>5, <2>6, HolderKeeps DEF Labels
<1>. QED
  BY <1>4, <1>5

LEMMA BackupKeeps ==
  ASSUME DiskInv, LockInv, Calm, TypeInv, NEW p \in Processes, Backup(p)
  PROVE  DiskInv'
<1>. USE DEF kept, inner
<1>0. PICK a \in Artifacts : Path(p) = a
  BY OrderFacts DEF Backup, TypeInv, AtPath, Path
<1>1. Holding(p) /\ Publishes(p) /\ at[p] \in 1 .. 3 /\ Order[at[p]] = a
  <2>1. Holding(p) /\ at[p] \in 1 .. 3
    BY DEF Backup, Holding, TypeInv, AtPath
  <2>. QED
    BY <1>0, <2>1, HolderKnows DEF Doing, Fits, Backup, Forward, Path
<1>2. Tx = p /\ Publishing /\ Publishing' /\ Tx' = p
  BY <1>1 DEF Publishes, Backup, Publishing, Tx
<1>3. a \notin published[p] /\ a \notin had[p] /\ Untouched(a)
  <2>1. a \notin published[p] /\ a \notin had[p]
    BY <1>1 DEF Publishes, Backup
  <2>. QED
    BY <1>1, <2>1 DEF Publishes, Remembered
<1>4. pc' = [pc EXCEPT ![p] = "rename"] /\ pc'[p] = "rename" /\ at'[p] = at[p] /\ Path(p)' = a
  BY <1>0 DEF Backup, Goto, TypeInv, TypeOK, Path
<1>5. UNCHANGED <<release, staged, journal, published>>
  BY DEF Backup
<1>6. Old(a)' = Old(a) /\ Old(a) = target[a] /\ staged[p][a] # 0
  BY <1>2, <1>3, <1>5 DEF Old, Untouched, Staged
<1>7. \A b \in Artifacts \ {a} :
        target'[b] = target[b] /\ backup'[p][b] = backup[p][b]
  BY <1>0, <1>1 DEF Backup, TypeInv, TypeOK
<1>8. /\ had'[p] = IF InPlace(a) THEN had[p] \cup {a} ELSE had[p]
      /\ \A q \in Processes \ {p} : had'[q] = had[q]
  BY <1>0 DEF Backup, TypeInv, TypeOK
<1>9. Remembered(p, a)'
  <2>1. CASE InPlace(a)
    <3>1. backup'[p][a] = Old(a) /\ target'[a] = IF a = "runtime" THEN 0 ELSE Old(a)
      <4>1. /\ backup' = [backup EXCEPT ![p][a] = target[a]]
            /\ target' = [target EXCEPT ![a] = IF a = "runtime" THEN 0 ELSE @]
        BY <1>0, <2>1 DEF Backup
      <4>. QED
        BY <1>1, <1>6, <4>1, HolderKnows, FileWritten
    <3>2. Saved(a)'
      BY <1>2, <1>5, <1>6, <2>1, <3>1 DEF Saved, InPlace, Staged
    <3>. QED
      BY <1>3, <1>5, <1>8, <2>1, <3>2 DEF Remembered
  <2>2. CASE ~InPlace(a)
    <3>1. UNCHANGED <<backup, target>>
      BY <1>0, <2>2 DEF Backup
    <3>2. Untouched(a)'
      BY <1>1, <1>3, <1>5, <3>1, PathStill
    <3>. QED
      BY <1>3, <1>5, <1>8, <2>2, <3>2 DEF Remembered
  <2>. QED
    BY <2>1, <2>2
<1>10. \A b \in Artifacts : Remembered(p, b)'
  <2> SUFFICES ASSUME NEW b \in Artifacts \ {a} PROVE Remembered(p, b)'
    BY <1>9
  <2>1. /\ Untouched(b)' <=> Untouched(b)
        /\ Saved(b)' <=> Saved(b)
        /\ Placed(b)' <=> Placed(b)
    BY <1>2, <1>5, <1>7, PathStill
  <2>2. Remembered(p, b) /\ Old(b)' = Old(b)
    BY <1>1, <1>5 DEF Publishes, Old
  <2>. QED
    BY <1>5, <1>8, <2>1, <2>2 DEF Remembered
<1>11. \A b \in Artifacts : Fresh(p, b)' = Fresh(p, b)
  BY <1>5, <1>6, <1>7 DEF Fresh
<1>12. Publishes(p)'
  <2>1. \E r \in Releases :
          /\ Old("binary")' <= r /\ r <= release'
          /\ \A b \in Artifacts : Fresh(p, b)' = r
    BY <1>1, <1>5, <1>11 DEF Publishes, Old
  <2>2. \A i \in 1 .. 3 :
          /\ Order[i] \in published'[p] <=> i < at'[p]
          /\ i > at'[p] => Order[i] \notin had'[p]
    BY <1>1, <1>4, <1>5, <1>8, OrderFacts DEF Publishes, Backup, Path
  <2>3. Path(p)' \in had'[p] <=> Old(Path(p))' # 0
    BY <1>3, <1>4, <1>6, <1>8 DEF InPlace, Old
  <2>. QED
    BY <1>2, <1>4, <1>10, <2>1, <2>2, <2>3 DEF Publishes
<1>13. Doing(p)' /\ Fits(p)'
  BY <1>1, <1>4, <1>5, <1>12 DEF Doing, Fits, OutsideLabels
<1>14. 0 < Installed'["binary"] /\ Installed'["binary"] <= release'
  BY <1>2, <1>5 DEF DiskInv, Installed, Publishing
<1>. QED
  BY <1>1, <1>4, <1>5, <1>8, <1>13, <1>14, HolderKeeps DEF Labels, Forward

LEMMA RenameKeeps ==
  ASSUME DiskInv, LockInv, Calm, TypeInv, NEW p \in Processes, Rename(p)
  PROVE  DiskInv'
<1>. USE DEF kept, inner
<1>0. PICK a \in Artifacts : Path(p) = a
  BY OrderFacts DEF Rename, TypeInv, AtPath, Path
<1>1. Holding(p) /\ Publishes(p) /\ at[p] \in 1 .. 3 /\ Order[at[p]] = a
  <2>1. Holding(p) /\ at[p] \in 1 .. 3
    BY DEF Rename, Holding, TypeInv, AtPath
  <2>. QED
    BY <1>0, <2>1, HolderKnows DEF Doing, Fits, Rename, Forward, Path
<1>2. Tx = p /\ Publishing /\ Publishing' /\ Tx' = p
  BY <1>1 DEF Publishes, Rename, Publishing, Tx
<1>3. a \notin published[p] /\ (a \in had[p] <=> Old(a) # 0) /\ Remembered(p, a)
  BY <1>0, <1>1 DEF Publishes, Rename
<1>4. staged[p][a] # 0 /\ backup[p][a] = Old(a)
  BY <1>2, <1>3 DEF Remembered, Saved, Untouched, Staged, BackedUp
<1>5. UNCHANGED <<release, backup, journal, had>>
  BY DEF Rename
<1>6. /\ target'[a] = staged[p][a] /\ staged'[p][a] = 0
      /\ \A b \in Artifacts \ {a} : target'[b] = target[b] /\ staged'[p][b] = staged[p][b]
  BY <1>0, <1>1 DEF Rename, TypeInv, TypeOK
<1>7. /\ published'[p] = published[p] \cup {a}
      /\ \A q \in Processes \ {p} : published'[q] = published[q]
  BY <1>0 DEF Rename, TypeInv, TypeOK
<1>8. Placed(a)' /\ Old(a)' = Old(a)
  BY <1>2, <1>4, <1>5, <1>6 DEF Placed, InPlace, Staged, Old
<1>9. \A b \in Artifacts : Remembered(p, b)'
  <2>1. Remembered(p, a)'
    BY <1>3, <1>5, <1>7, <1>8 DEF Remembered
  <2> SUFFICES ASSUME NEW b \in Artifacts \ {a} PROVE Remembered(p, b)'
    BY <2>1
  <2>2. /\ Untouched(b)' <=> Untouched(b)
        /\ Saved(b)' <=> Saved(b)
        /\ Placed(b)' <=> Placed(b)
    BY <1>2, <1>5, <1>6, PathStill
  <2>3. Remembered(p, b) /\ Old(b)' = Old(b)
    BY <1>1, <1>5 DEF Publishes, Old
  <2>. QED
    BY <1>5, <1>7, <2>2, <2>3 DEF Remembered
<1>10. \A b \in Artifacts : Fresh(p, b)' = Fresh(p, b)
  BY <1>4, <1>6 DEF Fresh
<1>11. \/ /\ at[p] < 3 /\ Goto(p, "backup", at[p] + 1)
       \/ /\ at[p] = 3 /\ Goto(p, "commit", 0)
  BY <1>1 DEF Rename
<1>12. \/ /\ at[p] < 3 /\ pc'[p] = "backup" /\ at'[p] = at[p] + 1
          /\ pc' = [pc EXCEPT ![p] = "backup"]
       \/ /\ at[p] = 3 /\ pc'[p] = "commit"
          /\ pc' = [pc EXCEPT ![p] = "commit"]
  BY <1>11 DEF Goto, TypeInv, TypeOK
<1>13. Publishes(p)'
  <2>1. \E r \in Releases :
          /\ Old("binary")' <= r /\ r <= release'
          /\ \A b \in Artifacts : Fresh(p, b)' = r
    BY <1>1, <1>5, <1>10 DEF Publishes, Old
  <2>2. \A i \in 1 .. 3 : Order[i] \in published'[p] <=> i <= at[p]
    BY <1>1, <1>7, OrderFacts DEF Publishes, Rename, Path
  <2>3. \A i \in 1 .. 3 : i > at[p] => Order[i] \notin had'[p]
    BY <1>1, <1>5 DEF Publishes, Rename
  <2>4. \A i \in 1 .. 3 :
          /\ Order[i] \in published'[p] <=> pc'[p] = "commit" \/ i < at'[p]
          /\ pc'[p] = "backup" /\ i >= at'[p] => Order[i] \notin had'[p]
    BY <1>1, <1>12, <2>2, <2>3
  <2>. QED
    BY <1>2, <1>9, <1>12, <2>1, <2>4 DEF Publishes
<1>14. Doing(p)' /\ Fits(p)'
  BY <1>1, <1>5, <1>12, <1>13 DEF Doing, Fits, OutsideLabels
<1>15. 0 < Installed'["binary"] /\ Installed'["binary"] <= release'
  BY <1>2, <1>5 DEF DiskInv, Installed, Publishing
<1>. QED
  BY <1>1, <1>5, <1>7, <1>12, <1>14, <1>15, HolderKeeps DEF Labels, Forward

LEMMA FailureKeeps ==
  ASSUME DiskInv, LockInv, Calm, TypeInv, NEW p \in Processes,
         PublishFails(p) \/ StepFails(p)
  PROVE  DiskInv'
<1>. USE DEF kept, inner
<1>1. CASE PublishFails(p)
  BY <1>1, RevertBegins DEF PublishFails, Forward, memory
<1>2. CASE StepFails(p)
  <2>1. Holding(p) /\ UNCHANGED <<release, target, staged, backup, journal, had, published>>
    BY <1>2 DEF StepFails, Holding
  <2>2. pc' = [pc EXCEPT ![p] = "drop"] /\ pc'[p] = "drop" /\ failed'[p]
    BY <1>2 DEF StepFails, Goto, TypeInv, TypeOK
  <2>3. Publishing' => \A a \in Artifacts : Loose(a)'
    BY <2>1, AllLoose, PathStill DEF Publishing
  <2>4. Doing(p)' /\ Fits(p)'
    BY <2>2, <2>3 DEF Doing, Fits, Forward, OutsideLabels, Reverted
  <2>5. 0 < Installed'["binary"] /\ Installed'["binary"] <= release'
    BY <2>1 DEF DiskInv, Installed
  <2>. QED
    BY <2>1, <2>2, <2>4, <2>5, HolderKeeps DEF Labels, Backward
<1>. QED
  BY <1>1, <1>2

\* A recovery touches one path at a time, and leaves it removed or restored.
LEMMA UndoOne ==
  ASSUME TypeInv, NEW p \in Processes, Undo(p), read[p] = journal,
         NEW a \in Artifacts, Path(p) = a, Tx \in Processes,
         backup \in [Processes -> [Artifacts -> Content]],
         target \in [Artifacts -> Content],
         Recoverable(a) \/ Removed(a)
  PROVE  /\ \/ UNCHANGED <<pc, at>> /\ Removed(a)'
            \/ Goto(p, "clean", at[p]) /\ Restored(a)'
         /\ \A b \in Artifacts \ {a} :
              target'[b] = target[b] /\ backup'[Tx][b] = backup[Tx][b]
<1>1. UNCHANGED <<journal, staged>> /\ Tx' = Tx /\ Old(a)' = Old(a) /\ read[p].tx = Tx
  BY DEF Undo, Tx, Old
<1>2. CASE BackedUp(Tx, a) /\ Staged(Tx, a) /\ InPlace(a)
  <2>1. Saved(a)
    BY <1>2 DEF Recoverable, Untouched, Placed, Removed, Gone, Restored
  <2>2. a # "runtime" /\ target[a] = Old(a)
    BY <1>2, <2>1 DEF Saved
  <2>3. /\ target' = target /\ Goto(p, "clean", at[p])
        /\ backup' = [backup EXCEPT ![Tx][a] = 0]
    BY <1>1, <1>2, <2>2 DEF Undo
  <2>4. ~BackedUp(Tx, a)'
    BY <1>1, <2>3 DEF BackedUp
  <2>. QED
    BY <1>1, <2>2, <2>3, <2>4, FileWritten DEF Restored
<1>3. CASE BackedUp(Tx, a) /\ ~Staged(Tx, a) /\ InPlace(a)
  <2>1. backup[Tx][a] = Old(a)
    BY <1>3 DEF Recoverable, Untouched, Saved, Placed, Removed, Gone, Restored
  <2>2. target' = [target EXCEPT ![a] = 0] /\ UNCHANGED <<backup, pc, at>>
    BY <1>1, <1>3 DEF Undo
  <2>. QED
    BY <1>1, <1>3, <2>1, <2>2 DEF Removed, InPlace, BackedUp, Staged
<1>4. CASE BackedUp(Tx, a) /\ ~InPlace(a)
  <2>1. backup[Tx][a] = Old(a)
    BY <1>4 DEF Recoverable, Untouched, Saved, Placed, Removed, Gone, Restored
  <2>2. /\ target' = [target EXCEPT ![a] = backup[Tx][a]]
        /\ backup' = [backup EXCEPT ![Tx][a] = 0]
        /\ Goto(p, "clean", at[p])
    BY <1>1, <1>4 DEF Undo
  <2>3. ~BackedUp(Tx, a)'
    BY <1>1, <2>2 DEF BackedUp
  <2>. QED
    BY <1>1, <2>1, <2>2, <2>3, FileWritten DEF Restored
<1>5. CASE ~BackedUp(Tx, a)
  <2>1. IF Staged(Tx, a) THEN target[a] = Old(a) ELSE Old(a) = 0
    BY <1>5 DEF Recoverable, Untouched, Saved, Placed, Removed, Gone, BackedUp, Staged
  <2>2. /\ target' = [target EXCEPT ![a] = IF Staged(Tx, a) THEN @ ELSE 0]
        /\ UNCHANGED backup /\ Goto(p, "clean", at[p])
    BY <1>1, <1>5 DEF Undo
  <2>3. ~BackedUp(Tx, a)'
    BY <1>1, <1>5, <2>2 DEF BackedUp
  <2>. QED
    BY <1>1, <2>1, <2>2, <2>3 DEF Restored
<1>. QED
  BY <1>2, <1>3, <1>4, <1>5

LEMMA UndoKeeps ==
  ASSUME DiskInv, LockInv, Calm, TypeInv, NEW p \in Processes, Undo(p)
  PROVE  DiskInv'
<1>. USE DEF kept, inner, memory
<1>0. PICK a \in Artifacts : Path(p) = a
  BY OrderFacts DEF Undo, TypeInv, AtPath, Path
<1>1. Holding(p) /\ Undoes(p) /\ Fits(p) /\ at[p] \in 1 .. 3 /\ Order[at[p]] = a
  <2>1. Holding(p) /\ at[p] \in 1 .. 3
    BY DEF Undo, Holding, TypeInv, AtPath
  <2>. QED
    BY <1>0, <2>1, HolderKnows DEF Doing, Undo, Path
<1>2. Publishing /\ read[p] = journal /\ (Recoverable(a) \/ Removed(a))
  BY <1>0, <1>1 DEF Undoes, Undo
<1>3. Tx \in Processes /\ pc \in [Processes -> Labels]
  BY <1>1, <1>2, HolderKnows DEF Publishing, TypeInv, TypeOK
<1>4. /\ \/ UNCHANGED <<pc, at>> /\ Removed(a)'
         \/ Goto(p, "clean", at[p]) /\ Restored(a)'
      /\ \A b \in Artifacts \ {a} :
           target'[b] = target[b] /\ backup'[Tx][b] = backup[Tx][b]
  BY <1>0, <1>1, <1>2, <1>3, UndoOne, HolderKnows
<1>5. UNCHANGED <<release, staged, journal, memory>>
  BY DEF Undo
<1>6. Publishing' /\ 0 < Installed'["binary"] /\ Installed'["binary"] <= release'
  BY <1>2, <1>5 DEF Publishing, Installed, DiskInv
<1>7. PICK l \in {"undo", "clean"} :
        /\ pc' = [pc EXCEPT ![p] = l] /\ pc'[p] = l /\ at'[p] = at[p] /\ Path(p)' = a
        /\ IF l = "undo" THEN Removed(a)' ELSE Restored(a)'
  <2>1. CASE UNCHANGED <<pc, at>> /\ Removed(a)'
    <3>1. /\ pc' = [pc EXCEPT ![p] = "undo"] /\ pc'[p] = "undo"
          /\ at'[p] = at[p] /\ Path(p)' = a
      BY <1>0, <1>3, <2>1 DEF Undo, Path
    <3>. QED
      BY <2>1, <3>1
  <2>2. CASE Goto(p, "clean", at[p]) /\ Restored(a)'
    <3>1. /\ pc' = [pc EXCEPT ![p] = "clean"] /\ pc'[p] = "clean"
          /\ at'[p] = at[p] /\ Path(p)' = a
      BY <1>0, <1>3, <2>2 DEF Goto, Path, TypeInv, TypeOK
    <3>. QED
      BY <2>2, <3>1
  <2>. QED
    BY <1>4, <2>1, <2>2
<1>8. \A i \in 1 .. 3 : i # at[p] =>
        /\ Recoverable(Order[i])' <=> Recoverable(Order[i])
        /\ Restored(Order[i])' <=> Restored(Order[i])
  <2> SUFFICES ASSUME NEW i \in 1 .. 3, i # at[p], NEW b \in Artifacts, Order[i] = b
               PROVE  /\ Recoverable(b)' <=> Recoverable(b)
                      /\ Restored(b)' <=> Restored(b)
    BY OrderFacts
  <2>1. b # a
    BY <1>1, OrderFacts
  <2>. QED
    BY <1>4, <1>5, <2>1, PathStill
<1>9. Undoes(p)'
  BY <1>1, <1>5, <1>6, <1>7, <1>8 DEF Undoes
<1>10. Doing(p)' /\ Fits(p)'
  BY <1>1, <1>5, <1>7, <1>9 DEF Doing, Fits, Forward, Undo
<1>. QED
  BY <1>1, <1>5, <1>6, <1>7, <1>10, HolderKeeps DEF Labels, Backward

LEMMA CleanKeeps ==
  ASSUME DiskInv, LockInv, Calm, TypeInv, NEW p \in Processes, Clean(p)
  PROVE  DiskInv'
<1>. USE DEF kept, inner, memory
<1>0. PICK a \in Artifacts : Path(p) = a
  BY OrderFacts DEF Clean, TypeInv, AtPath, Path
<1>1. Holding(p) /\ Undoes(p) /\ Fits(p) /\ at[p] \in 1 .. 3 /\ Order[at[p]] = a
  <2>1. Holding(p) /\ at[p] \in 1 .. 3
    BY DEF Clean, Holding, TypeInv, AtPath
  <2>. QED
    BY <1>0, <2>1, HolderKnows DEF Doing, Clean, Path
<1>2. Publishing /\ Tx \in Processes /\ pc \in [Processes -> Labels]
  BY <1>1, HolderKnows DEF Undoes, Publishing, TypeInv, TypeOK
<1>3. UNCHANGED <<release, target, backup, journal, memory>>
  BY DEF Clean
<1>4. \A b \in Artifacts \ {a} : staged'[Tx][b] = staged[Tx][b]
  <2>1. read[p].tx = Tx
    BY <1>1 DEF Undoes, Tx
  <2>. QED
    BY <1>0, <1>1, <1>2, <2>1, HolderKnows, FileWritten DEF Clean
<1>5. \A b \in Artifacts : Restored(b)' <=> Restored(b)
  BY <1>3 DEF Restored, Old, BackedUp, Tx
<1>6. \A i \in 1 .. 3 : i < at[p] => Recoverable(Order[i])'
  <2> SUFFICES ASSUME NEW i \in 1 .. 3, i < at[p], NEW b \in Artifacts, Order[i] = b
               PROVE  Recoverable(b)'
    BY OrderFacts
  <2>1. b # a /\ Recoverable(b)
    BY <1>1, OrderFacts DEF Undoes
  <2>. QED
    BY <1>3, <1>4, <2>1, PathStill
<1>7. \A i \in 1 .. 3 : i >= at[p] => Restored(Order[i])'
  BY <1>0, <1>1, <1>5, OrderFacts DEF Undoes, Clean
<1>8. Publishing' /\ 0 < Installed'["binary"] /\ Installed'["binary"] <= release'
  BY <1>2, <1>3 DEF Publishing, Installed, DiskInv
<1>9. CASE at[p] > 1
  <2>1. /\ pc' = [pc EXCEPT ![p] = "undo"] /\ pc'[p] = "undo"
        /\ at'[p] = at[p] - 1 /\ Path(p)' = Order[at[p] - 1]
    BY <1>2, <1>9 DEF Clean, Goto, Path, TypeInv, TypeOK
  <2>2. Undoes(p)'
    BY <1>1, <1>3, <1>6, <1>7, <1>8, <1>9, <2>1 DEF Undoes
  <2>3. Doing(p)' /\ Fits(p)'
    BY <1>1, <1>3, <2>1, <2>2 DEF Doing, Fits, Forward, Clean
  <2>. QED
    BY <1>1, <1>3, <1>8, <2>1, <2>3, HolderKeeps DEF Labels, Backward
<1>10. CASE at[p] = 1
  <2>1. pc' = [pc EXCEPT ![p] = "erase"] /\ pc'[p] = "erase"
    BY <1>2, <1>10 DEF Clean, Goto
  <2>2. \A b \in Artifacts : Restored(b)'
    BY <1>7, <1>10, OrderFacts
  <2>3. Doing(p)' /\ Fits(p)'
    BY <1>1, <1>3, <2>1, <2>2 DEF Doing, Fits, Forward, Clean
  <2>. QED
    BY <1>1, <1>3, <1>8, <2>1, <2>3, HolderKeeps DEF Labels, Backward
<1>. QED
  BY <1>1, <1>9, <1>10

\* A reversal, too, touches one path, and remembers when it fails.
LEMMA RevertOne ==
  ASSUME TypeInv, NEW p \in Processes, Revert(p),
         NEW a \in Artifacts, Path(p) = a, Tx = p, Reverting(p, a)
  PROVE  /\ \/ UNCHANGED <<pc, at>> /\ Reverting(p, a)'
            \/ /\ IF at[p] > 1 THEN Goto(p, "revert", at[p] - 1)
                               ELSE Goto(p, "forget", 0)
               /\ Reverted(p, a)'
         /\ failed[p] => failed'[p]
         /\ \A b \in Artifacts \ {a} :
              /\ target'[b] = target[b] /\ backup'[p][b] = backup[p][b]
              /\ b \in had'[p] <=> b \in had[p]
              /\ b \in published'[p] <=> b \in published[p]
         /\ \A q \in Processes \ {p} : had'[q] = had[q] /\ published'[q] = published[q]
<1>1. UNCHANGED <<journal, staged>> /\ Old(a)' = Old(a) /\ Tx' = p
  BY DEF Revert, Old, Tx
<1>2. /\ target \in [Artifacts -> Content] /\ backup \in [Processes -> [Artifacts -> Content]]
      /\ had \in [Processes -> SUBSET Artifacts] /\ published \in [Processes -> SUBSET Artifacts]
      /\ failed \in [Processes -> BOOLEAN]
  BY DEF TypeInv, TypeOK
<1>3. a \in published[p] => InPlace(a)
  BY DEF Reverting, Placed
<1>4. CASE /\ a \in published[p]
           /\ target' = [target EXCEPT ![a] = 0]
           /\ published' = [published EXCEPT ![p] = @ \ {a}]
           /\ UNCHANGED <<backup, had, failed, pc, at>>
  <2>1. /\ target'[a] = 0 /\ a \notin published'[p] /\ had'[p] = had[p]
        /\ a \in had[p] <=> Old(a) # 0
        /\ backup'[p][a] = Old(a) /\ ~Staged(p, a)'
    BY <1>1, <1>2, <1>4 DEF Reverting, Placed, Staged
  <2>2. a \in had[p] => Removed(a)'
    BY <1>1, <2>1 DEF Removed, InPlace, BackedUp
  <2>3. a \notin had[p] => Restored(a)'
    BY <1>1, <2>1 DEF Restored, BackedUp
  <2>4. Reverting(p, a)'
    BY <2>1, <2>2, <2>3 DEF Reverting
  <2>. QED
    BY <1>2, <1>4, <2>4
<1>5. CASE /\ a \notin published[p] /\ a \in had[p]
           /\ target' = [target EXCEPT ![a] = backup[p][a]]
           /\ backup' = [backup EXCEPT ![p][a] = 0]
           /\ had' = [had EXCEPT ![p] = @ \ {a}]
           /\ IF at[p] > 1 THEN Goto(p, "revert", at[p] - 1) ELSE Goto(p, "forget", 0)
           /\ UNCHANGED <<published, failed>>
  <2>1. backup[p][a] = Old(a)
    BY <1>5 DEF Reverting, Saved, Removed
  <2>2. target'[a] = Old(a)' /\ backup'[p][a] = 0
    BY <1>1, <1>2, <1>5, <2>1, FileWritten
  <2>3. Restored(a)'
    BY <1>1, <2>2 DEF Restored, BackedUp
  <2>. QED
    BY <1>2, <1>5, <2>3, FileWritten DEF Reverted
<1>6. CASE /\ a \notin published[p] /\ a \notin had[p]
           /\ IF at[p] > 1 THEN Goto(p, "revert", at[p] - 1) ELSE Goto(p, "forget", 0)
           /\ UNCHANGED <<target, backup, had, published, failed>>
  <2>1. Restored(a)'
    BY <1>1, <1>6, PathStill DEF Reverting
  <2>. QED
    BY <1>6, <2>1 DEF Reverted
<1>7. CASE /\ failed' = [failed EXCEPT ![p] = TRUE]
           /\ IF at[p] > 1 THEN Goto(p, "revert", at[p] - 1) ELSE Goto(p, "forget", 0)
           /\ UNCHANGED <<target, backup, had, published>>
  <2>1. Loose(a)
    BY DEF Reverting, Loose, Recoverable
  <2>2. Loose(a)' /\ failed'[p]
    BY <1>1, <1>2, <1>7, <2>1, PathStill
  <2>. QED
    BY <1>7, <2>2 DEF Reverted
<1>. QED
  BY <1>3, <1>4, <1>5, <1>6, <1>7 DEF Revert

LEMMA RevertKeeps ==
  ASSUME DiskInv, LockInv, Calm, TypeInv, NEW p \in Processes, Revert(p)
  PROVE  DiskInv'
<1>. USE DEF kept, inner
<1>0. PICK a \in Artifacts : Path(p) = a
  BY OrderFacts DEF Revert, TypeInv, AtPath, Path
<1>1. Holding(p) /\ Reverts(p) /\ at[p] \in 1 .. 3 /\ Order[at[p]] = a
  <2>1. Holding(p) /\ at[p] \in 1 .. 3
    BY DEF Revert, Holding, TypeInv, AtPath
  <2>. QED
    BY <1>0, <2>1, HolderKnows DEF Doing, Fits, Revert, Path
<1>2. Publishing /\ Tx = p /\ Reverting(p, a) /\ pc \in [Processes -> Labels]
  BY <1>0, <1>1 DEF Reverts, TypeInv, TypeOK
<1>3. /\ \/ UNCHANGED <<pc, at>> /\ Reverting(p, a)'
         \/ /\ IF at[p] > 1 THEN Goto(p, "revert", at[p] - 1)
                            ELSE Goto(p, "forget", 0)
            /\ Reverted(p, a)'
      /\ failed[p] => failed'[p]
      /\ \A b \in Artifacts \ {a} :
           /\ target'[b] = target[b] /\ backup'[p][b] = backup[p][b]
           /\ b \in had'[p] <=> b \in had[p]
           /\ b \in published'[p] <=> b \in published[p]
      /\ \A q \in Processes \ {p} : had'[q] = had[q] /\ published'[q] = published[q]
  BY <1>0, <1>2, RevertOne
<1>4. UNCHANGED <<release, staged, journal>>
  BY DEF Revert
<1>5. /\ Publishing' /\ Tx' = p
      /\ 0 < Installed'["binary"] /\ Installed'["binary"] <= release'
  BY <1>2, <1>4 DEF Publishing, Tx, Installed, DiskInv
<1>6. /\ \A i \in 1 .. 3 : i < at[p] => Remembered(p, Order[i])'
      /\ \A i \in 1 .. 3 : i > at[p] => Reverted(p, Order[i])'
  <2> SUFFICES ASSUME NEW i \in 1 .. 3, i # at[p], NEW b \in Artifacts, Order[i] = b
               PROVE  /\ i < at[p] => Remembered(p, b)'
                      /\ i > at[p] => Reverted(p, b)'
    BY OrderFacts
  <2>1. b # a /\ Old(b)' = Old(b)
    BY <1>1, <1>4, OrderFacts DEF Old
  <2>2. /\ Untouched(b)' <=> Untouched(b)
        /\ Saved(b)' <=> Saved(b)
        /\ Placed(b)' <=> Placed(b)
        /\ Restored(b)' <=> Restored(b)
        /\ Loose(b)' <=> Loose(b)
    BY <1>2, <1>3, <1>4, <2>1, PathStill
  <2>3. /\ i < at[p] => Remembered(p, b)
        /\ i > at[p] => Reverted(p, b)
    BY <1>1 DEF Reverts
  <2>. QED
    BY <1>3, <2>1, <2>2, <2>3 DEF Remembered, Reverted
<1>7. CASE UNCHANGED <<pc, at>> /\ Reverting(p, a)'
  <2>1. /\ pc' = [pc EXCEPT ![p] = "revert"] /\ pc'[p] = "revert"
        /\ at'[p] = at[p] /\ Path(p)' = a
    BY <1>0, <1>2, <1>7 DEF Revert, Path
  <2>2. Reverts(p)'
    BY <1>5, <1>6, <1>7, <2>1 DEF Reverts
  <2>3. Doing(p)' /\ Fits(p)'
    BY <1>1, <1>3, <2>1, <2>2 DEF Doing, Fits, Forward, OutsideLabels
  <2>. QED
    BY <1>1, <1>3, <1>5, <2>1, <2>3, HolderKeeps DEF Labels, Backward
<1>8. CASE at[p] > 1 /\ Goto(p, "revert", at[p] - 1) /\ Reverted(p, a)'
  <2>1. /\ pc' = [pc EXCEPT ![p] = "revert"] /\ pc'[p] = "revert"
        /\ at'[p] = at[p] - 1 /\ Path(p)' = Order[at[p] - 1]
    BY <1>2, <1>8 DEF Goto, Path, TypeInv, TypeOK
  <2>2. PICK b \in Artifacts : Order[at[p] - 1] = b
    BY <1>1, <1>8, OrderFacts
  <2>3. Reverting(p, b)'
    <3>1. Remembered(p, b)'
      BY <1>1, <1>6, <1>8, <2>2
    <3>. QED
      BY <1>5, <3>1 DEF Remembered, Reverting, Saved, Untouched, Restored
  <2>4. Reverting(p, Path(p))'
    BY <2>1, <2>2, <2>3
  <2>5. \A i \in 1 .. 3 : i > at[p] - 1 => Reverted(p, Order[i])'
    BY <1>1, <1>6, <1>8
  <2>6. Reverts(p)'
    BY <1>1, <1>5, <1>6, <1>8, <2>1, <2>4, <2>5 DEF Reverts
  <2>7. Doing(p)' /\ Fits(p)'
    BY <1>1, <1>3, <2>1, <2>6 DEF Doing, Fits, Forward, OutsideLabels
  <2>. QED
    BY <1>1, <1>3, <1>5, <2>1, <2>7, HolderKeeps DEF Labels, Backward
<1>9. CASE at[p] = 1 /\ Goto(p, "forget", 0) /\ Reverted(p, a)'
  <2>1. pc' = [pc EXCEPT ![p] = "forget"] /\ pc'[p] = "forget"
    BY <1>2, <1>9 DEF Goto
  <2>2. \A b \in Artifacts : Reverted(p, b)'
    <3>1. \A i \in 1 .. 3 : Reverted(p, Order[i])'
      BY <1>1, <1>6, <1>9
    <3>. QED
      BY <3>1, OrderFacts
  <2>3. Doing(p)' /\ Fits(p)'
    BY <1>1, <1>3, <1>5, <2>1, <2>2 DEF Doing, Fits, Forward, OutsideLabels
  <2>. QED
    BY <1>1, <1>3, <1>5, <2>1, <2>3, HolderKeeps DEF Labels, Backward
<1>. QED
  BY <1>1, <1>3, <1>7, <1>8, <1>9

LEMMA ForgetKeeps ==
  ASSUME DiskInv, LockInv, Calm, TypeInv, NEW p \in Processes, Forget(p)
  PROVE  DiskInv'
<1>. USE DEF kept, inner, memory
<1>1. Holding(p) /\ UNCHANGED <<release, target, staged, backup, memory>>
  BY DEF Forget, Holding
<1>2. Publishing /\ Tx = p /\ \A a \in Artifacts : Reverted(p, a)
  BY <1>1, HolderKnows DEF Doing, Forget
<1>3. pc' = [pc EXCEPT ![p] = "sweep"] /\ pc'[p] = "sweep"
  BY DEF Forget, Goto, TypeInv, TypeOK
<1>4. CASE journal' = NoJournal /\ ~failed[p]
  <2>1. ~Publishing' /\ Installed' = target
    BY <1>1, <1>4 DEF NoJournal, Publishing, Installed
  <2>2. Installed'["binary"] = Installed["binary"]
    <3>1. Restored("binary")
      BY <1>2, <1>4 DEF Reverted, Artifacts
    <3>. QED
      BY <1>2, <2>1, <3>1 DEF Installed, Publishing, Restored, Old
  <2>3. Doing(p)' /\ Fits(p)'
    BY <1>3, <2>1 DEF Doing, Fits, Forward, OutsideLabels
  <2>4. 0 < Installed'["binary"] /\ Installed'["binary"] <= release'
    BY <1>1, <2>2 DEF DiskInv
  <2>. QED
    BY <1>1, <1>3, <2>1, <2>3, <2>4, HolderKeeps DEF Labels
<1>5. CASE UNCHANGED journal
  <2>1. Publishing' /\ Tx' = p /\ Installed' = Installed
    BY <1>1, <1>2, <1>5 DEF Publishing, Tx, Installed
  <2>2. \A a \in Artifacts : Reverted(p, a)'
    BY <1>1, <1>2, <1>5, PathStill DEF Reverted
  <2>3. Doing(p)' /\ Fits(p)'
    BY <1>3, <2>1, <2>2 DEF Doing, Fits, Forward, OutsideLabels
  <2>4. 0 < Installed'["binary"] /\ Installed'["binary"] <= release'
    BY <1>1, <2>1 DEF DiskInv
  <2>. QED
    BY <1>1, <1>3, <2>3, <2>4, HolderKeeps DEF Labels, Backward
<1>. QED
  BY <1>4, <1>5 DEF Forget

LEMMA CrashKeeps ==
  ASSUME DiskInv, LockInv, Calm, TypeInv, NEW p \in Processes, Crash(p), Calm'
  PROVE  DiskInv'
<1>1. CASE Holding(p)
  BY <1>1, EndsKeeps DEF Crash
<1>2. CASE ~Holding(p)
  <2>1. pc[p] \in OutsideLabels
    BY <1>2 DEF Holding, OutsideLabels
  <2>2. had[p] = {} /\ published[p] = {}
    BY <2>1 DEF DiskInv, Fits
  <2>3. had' = had /\ published' = published
    BY <2>2 DEF Crash, Ends, TypeInv, TypeOK
  <2>4. release' \in Nat /\ release <= release'
    BY UpgradeAssumption DEF Crash, TypeInv, TypeOK, Releases
  <2>5. \A q \in Processes :
          \/ /\ pc'[q] = pc[q] /\ at'[q] = at[q]
             /\ failed'[q] = failed[q] /\ read'[q] = read[q]
          \/ pc[q] \in OutsideLabels /\ pc'[q] \in OutsideLabels \cup {"recover"}
    BY <2>1 DEF Crash, Ends, Goto, TypeInv, TypeOK, OutsideLabels
  <2>. QED
    BY <2>3, <2>4, <2>5, OutsideKeeps DEF Crash
<1>. QED
  BY <1>1, <1>2

LEMMA InitialDisk == Init => DiskInv
<1> SUFFICES ASSUME Init PROVE DiskInv
  OBVIOUS
<1>1. ~Publishing
  BY DEF Init, Publishing, NoJournal
<1>2. target["binary"] = 1 /\ release = 1
  BY DEF Init, Artifacts
<1>3. Installed["binary"] = 1
  BY <1>1, <1>2 DEF Installed, Publishing
<1>4. \A p \in Processes : Doing(p) /\ Fits(p)
  BY DEF Init, Doing, Fits, Forward
<1>. QED
  BY <1>1, <1>2, <1>3, <1>4 DEF DiskInv

\* Lost locks and half-done rollbacks are not forgotten.
LEMMA CalmBefore ==
  ASSUME TypeInv, [Next]_vars, Calm'
  PROVE  Calm
<1>. USE DEF Calm, unlocked, kept, inner, history
<1>1. (raced => raced') /\ (disturbed => disturbed')
  <2>1. CASE Publish \/ Age \/ UNCHANGED vars
    BY <2>1 DEF Publish, Age, vars
  <2>2. ASSUME NEW p \in Processes,
               \/ Start(p) \/ Open(p) \/ Name(p) \/ Judge(p) \/ Takeover(p)
        PROVE  (raced => raced') /\ (disturbed => disturbed')
    <3>1. CASE Start(p) \/ Open(p) \/ Name(p) \/ Judge(p)
      BY <3>1 DEF Start, Open, Name, Judge
    <3>2. CASE Takeover(p)
      <4>1. raced' = (raced \/ (p \in outrun /\ lock \in Processes))
        BY <3>2, Zenon DEF Takeover
      <4>2. disturbed' = disturbed
        BY <3>2 DEF Takeover
      <4>. QED
        BY <4>1, <4>2, Zenon
    <3>. QED
      BY <2>2, <3>1, <3>2
  <2>3. ASSUME NEW p \in Processes, Drop(p) \/ Crash(p)
        PROVE  (raced => raced') /\ (disturbed => disturbed')
    <3>1. raced' = raced
      BY <2>3 DEF Drop, Crash
    <3>2. disturbed' = (disturbed \/ (Holding(p) /\ HalfUndone))
      BY <2>3, Zenon DEF Drop, Crash, Ends
    <3>. QED
      BY <3>1, <3>2, Zenon
  <2>4. ASSUME NEW p \in Processes,
               \/ Recover(p) \/ Undo(p) \/ Clean(p) \/ Finish(p) \/ Erase(p)
               \/ Stage(p) \/ NoUpdate(p) \/ WriteJournal(p) \/ Backup(p)
        PROVE  UNCHANGED <<raced, disturbed>>
    BY <2>4 DEF Recover, ReadJournal, Undo, Clean, Finish, Erase, Stage, NoUpdate,
       WriteJournal, Backup
  <2>5. ASSUME NEW p \in Processes,
               \/ Rename(p) \/ Discard(p) \/ Close(p) \/ Revert(p) \/ Forget(p)
               \/ Sweep(p) \/ PublishFails(p) \/ StepFails(p)
        PROVE  UNCHANGED <<raced, disturbed>>
    BY <2>5 DEF Rename, Discard, Close, Revert, Forget, Sweep, PublishFails, StepFails
  <2>6. ASSUME NEW p \in Processes, Commit(p)
        PROVE  (raced => raced') /\ (disturbed => disturbed')
    <3>1. raced' = raced
      BY <2>6 DEF Commit
    <3>2. \E x : disturbed' = (disturbed \/ x)
      BY <2>6, Zenon DEF Commit
    <3>. QED
      BY <3>1, <3>2, Zenon
  <2>. QED
    BY <2>1, <2>2, <2>3, <2>4, <2>5, <2>6 DEF Next, Step
<1>. QED
  BY <1>1

\* Every step keeps the invariant; a process outside the lock cannot disturb it.
LEMMA DiskStep ==
  ASSUME DiskInv, LockInv, TypeInv, [Next]_vars, Calm'
  PROVE  DiskInv'
<1>. USE DEF unlocked
<1>0. Calm
  BY CalmBefore
<1>1. release \in Nat /\ pc \in [Processes -> Labels] /\ at \in [Processes -> 0 .. 3]
  BY UpgradeAssumption DEF TypeInv, TypeOK, Releases
<1>2. CASE Publish \/ Age \/ UNCHANGED vars
  BY <1>1, <1>2, OutsideKeeps DEF Publish, Age, vars, memory
<1>3. ASSUME NEW p \in Processes, Start(p) \/ Open(p) \/ Judge(p) \/ Takeover(p) \/ Name(p)
      PROVE  DiskInv'
  <2>1. UNCHANGED <<release, paths, journal, memory>>
    BY <1>3 DEF Start, Open, Judge, Takeover, Name
  <2>2. pc[p] \in OutsideLabels
    BY <1>3 DEF Start, Open, Judge, Takeover, Name, OutsideLabels
  <2>3. PICK l \in OutsideLabels \cup {"recover"}, i \in 0 .. 3 : Goto(p, l, i)
    BY <1>3 DEF Start, Open, Judge, Takeover, Name, GiveUp, OutsideLabels
  <2>4. \A q \in Processes :
          \/ pc'[q] = pc[q] /\ at'[q] = at[q]
          \/ pc[q] \in OutsideLabels /\ pc'[q] \in OutsideLabels \cup {"recover"}
    BY <1>1, <2>2, <2>3 DEF Goto
  <2>. QED
    BY <1>1, <2>1, <2>4, OutsideKeeps DEF memory
<1>4. ASSUME NEW p \in Processes, Step(p)
      PROVE  DiskInv'
  BY <1>0, <1>3, <1>4, DropKeeps, RecoverKeeps, UndoKeeps, CleanKeeps, FinishKeeps,
     EraseKeeps, StageKeeps, WriteJournalKeeps, BackupKeeps, RenameKeeps,
     CommitKeeps, RevertKeeps, ForgetKeeps, SweepKeeps DEF Step
<1>. QED
  BY <1>0, <1>2, <1>4, FailureKeeps, CrashKeeps DEF Next

\* Until a lock is lost to a race or a rollback is left half done: whenever an
\* installation is in between, each path can be restored by who comes next or
\* is being restored by who has the lock (install.rs, replace_binary and
\* recover_interrupted_install).
THEOREM DiskInvariance == Spec => [](LockInv /\ TypeInv /\ (Calm => DiskInv))
<1>. DEFINE Inv == LockInv /\ TypeInv /\ (Calm => DiskInv)
<1>1. Init => Inv
  BY InitialLock, InitialTypes, InitialDisk
<1>2. Inv /\ [Next]_vars => Inv'
  <2> SUFFICES ASSUME LockInv, TypeInv, Calm => DiskInv, [Next]_vars
               PROVE  Inv'
    OBVIOUS
  <2>1. LockInv' /\ TypeInv'
    BY LockStep, TypeStep
  <2>2. ASSUME Calm' PROVE DiskInv'
    <3>1. Calm
      BY <2>2, CalmBefore
    <3>. QED
      BY <2>2, <3>1, DiskStep
  <2>. QED
    BY <2>1, <2>2
<1>. QED
  BY <1>1, <1>2, PTL DEF Spec

LEMMA RunnableFromDisk ==
  ASSUME TypeInv, Calm => DiskInv
  PROVE  BinaryRunnable
<1>. USE OrderFacts
<1> SUFFICES ASSUME Calm, ~InPlace("binary")
             PROVE  \E p \in Processes :
                      failed[p] \/ (pc[p] \in {"undo", "revert"} /\ Path(p) = "binary")
  BY DEF BinaryRunnable, InPlace
<1>1. Publishing /\ Old("binary") # 0 /\ "binary" \in Artifacts
  BY DEF DiskInv, Installed, Publishing, InPlace, Old, Artifacts
<1>2. ~Recoverable("binary") /\ ~Restored("binary")
  BY <1>1 DEF Recoverable, Untouched, Saved, Placed, Gone, InPlace, Restored
<1>3. PICK p \in Processes : pc[p] \in Forward \cup Backward
  BY <1>1, <1>2 DEF DiskInv
<1>4. Doing(p)
  BY DEF DiskInv
<1>5. pc[p] \notin Forward
  BY <1>1, <1>2, <1>4 DEF Doing, Publishes, Remembered, Recoverable
<1>6. pc[p] # "erase"
  BY <1>1, <1>2, <1>4 DEF Doing
<1>7. CASE pc[p] \in {"forget", "sweep", "drop"}
  BY <1>1, <1>2, <1>4, <1>7 DEF Doing, Reverted
<1>8. CASE pc[p] \in {"undo", "clean"}
  <2>1. at[p] \in 1 .. 3 /\ Path(p) = Order[at[p]] /\ Undoes(p)
    BY <1>4, <1>8 DEF TypeInv, AtPath, Path, Doing
  <2>2. at[p] = 2
    BY <1>2, <2>1 DEF Undoes
  <2>. QED
    BY <1>2, <1>8, <2>1, <2>2 DEF Undoes
<1>9. CASE pc[p] = "revert"
  <2>1. at[p] \in 1 .. 3 /\ Path(p) = Order[at[p]] /\ Reverts(p)
    BY <1>4, <1>9 DEF TypeInv, AtPath, Path, Doing
  <2>2. CASE at[p] = 2
    BY <1>9, <2>1, <2>2
  <2>3. CASE 2 < at[p]
    BY <1>1, <1>2, <2>1, <2>3 DEF Reverts, Remembered, Recoverable
  <2>4. CASE 2 > at[p]
    BY <1>2, <2>1, <2>4 DEF Reverts, Reverted
  <2>. QED
    BY <2>1, <2>2, <2>3, <2>4
<1>. QED
  BY <1>3, <1>5, <1>6, <1>7, <1>8, <1>9 DEF Backward

\* There is a ctx binary at every moment, but while a rollback puts the old
\* one back or after it has failed to: what a killed publication leaves can be
\* recovered by running it (install.rs, replace_binary, link before rename).
THEOREM AlwaysRunnable == Spec => []BinaryRunnable
<1>1. TypeInv /\ (Calm => DiskInv) => BinaryRunnable
  BY RunnableFromDisk
<1>. QED
  BY <1>1, DiskInvariance, PTL

-----------------------------------------------------------------------------
(* The refinement: a commit is the upgrade, a lost lock and a rollback that *)
(* is left half done are the damage, everything else stutters.              *)

LEMMA InstalledType ==
  ASSUME TypeInv PROVE Installed \in [Artifacts -> Content]
  BY DEF TypeInv, TypeOK, Installed, Journals, Records, NoJournal

\* What changes the journal or a path keeps the installation it stands for.
LEMMA StepPromised ==
  ASSUME LockInv, TypeInv, DiskInv, Calm, Calm', [Next]_vars
  PROVE  Promised!Upgrade \/ UNCHANGED Installed
<1>. USE DEF paths, unlocked, kept, inner
<1>1. CASE UNCHANGED <<target, journal>>
  BY <1>1 DEF Installed
<1>2. ASSUME UNCHANGED journal, Publishing
      PROVE  UNCHANGED Installed
  BY <1>2 DEF Installed, Publishing
<1>3. ASSUME NEW p \in Processes, Undo(p) \/ Backup(p) \/ Rename(p) \/ Revert(p)
      PROVE  UNCHANGED Installed
  <2>1. Holding(p)
    BY <1>3 DEF Undo, Backup, Rename, Revert, Holding
  <2>2. Publishing
    BY <1>3, <2>1, HolderKnows DEF Undo, Backup, Rename, Revert, Doing, Forward,
       Undoes, Publishes, Reverts
  <2>. QED
    BY <1>2, <1>3, <2>2 DEF Undo, Backup, Rename, Revert
<1>4. ASSUME NEW p \in Processes, Erase(p) \/ Close(p) \/ Forget(p),
             ~UNCHANGED journal
      PROVE  UNCHANGED Installed
  <2>1. Holding(p)
    BY <1>4 DEF Erase, Close, Forget, Holding
  <2>2. Publishing => target = journal.old
    <3>1. Publishing => \A a \in Artifacts : target[a] = journal.old[a]
      BY <1>4, <2>1, HolderKnows DEF Erase, Close, Forget, Doing, Reverted, Restored, Old
    <3>2. Publishing => journal.old \in [Artifacts -> Content]
      BY <2>1, HolderKnows DEF Publishing
    <3>3. target \in [Artifacts -> Content]
      BY <2>1, HolderKnows
    <3>. QED
      BY <3>1, <3>2, <3>3
  <2>3. Installed = target
    BY <2>2 DEF Installed, Publishing
  <2>4. UNCHANGED target /\ journal' = NoJournal
    BY <1>4 DEF Erase, Close, Forget
  <2>5. Installed' = target'
    BY <2>4 DEF Installed, NoJournal
  <2>. QED
    BY <2>3, <2>4, <2>5
<1>5. ASSUME NEW p \in Processes, WriteJournal(p)
      PROVE  UNCHANGED Installed
  <2>1. journal = NoJournal
    BY <1>5, HolderKnows DEF WriteJournal, Holding, Doing
  <2>2. Installed = target
    BY <2>1 DEF Installed, NoJournal
  <2>3. UNCHANGED target /\ (UNCHANGED journal \/ journal'.old = target)
    BY <1>5 DEF WriteJournal, WriteInstallTransaction
  <2>. QED
    BY <1>1, <2>2, <2>3 DEF Installed
<1>6. ASSUME NEW p \in Processes, Commit(p)
      PROVE  Promised!Upgrade \/ UNCHANGED Installed
  <2>1. Holding(p) /\ Publishes(p) /\ pc[p] = "commit" /\ UNCHANGED target
    <3>1. Holding(p)
      BY <1>6 DEF Commit, Holding
    <3>. QED
      BY <1>6, <3>1, HolderKnows DEF Commit, Doing, Forward
  <2>2. UNCHANGED journal \/ journal' = [tx |-> p, phase |-> "committed", old |-> target]
    BY <1>6 DEF Commit, WriteInstallTransaction
  <2>3. PICK r \in Releases : Old("binary") <= r /\ target = [a \in Artifacts |-> r]
    BY <2>1, AllPlaced
  <2>4. CASE journal' = [tx |-> p, phase |-> "committed", old |-> target]
    <3>1. Installed' = [a \in Artifacts |-> r]
      BY <2>1, <2>3, <2>4 DEF Installed
    <3>2. Installed["binary"] <= r
      BY <2>1, <2>3 DEF Installed, Publishes, Publishing, Old
    <3>3. r >= Installed["binary"]
      <4>1. Installed["binary"] \in Nat /\ r \in Nat
        BY <2>1, HolderKnows DEF Releases
      <4>. QED
        BY <3>2, <4>1
    <3>4. (~Calm)' = ~Calm
      OBVIOUS
    <3>. QED
      BY <3>1, <3>3, <3>4 DEF Promised!Upgrade
  <2>. QED
    BY <1>1, <2>1, <2>2, <2>4
<1>7. ASSUME NEW p \in Processes,
             \/ Start(p) \/ Open(p) \/ Name(p) \/ Judge(p) \/ Takeover(p) \/ Drop(p)
             \/ Recover(p) \/ Clean(p) \/ Finish(p) \/ Stage(p) \/ NoUpdate(p)
             \/ Discard(p) \/ Sweep(p) \/ PublishFails(p) \/ StepFails(p) \/ Crash(p)
      PROVE  UNCHANGED <<target, journal>>
  BY <1>7 DEF Start, Open, Name, Judge, Takeover, Drop, Recover, ReadJournal, Clean,
     Finish, Stage, NoUpdate, Discard, Sweep, PublishFails, StepFails, Crash
<1>8. CASE Publish \/ Age \/ UNCHANGED vars
  BY <1>1, <1>8 DEF Publish, Age, vars
<1>9. ASSUME NEW p \in Processes, Erase(p) \/ Close(p) \/ Forget(p)
      PROVE  UNCHANGED Installed
  <2>1. UNCHANGED target
    BY <1>9 DEF Erase, Close, Forget
  <2>2. CASE UNCHANGED journal
    BY <2>1, <2>2 DEF Installed
  <2>3. CASE ~UNCHANGED journal
    BY <1>4, <1>9, <2>3
  <2>. QED
    BY <2>2, <2>3
<1>10. ASSUME NEW p \in Processes, Step(p)
      PROVE  Promised!Upgrade \/ UNCHANGED Installed
  BY <1>1, <1>3, <1>5, <1>6, <1>7, <1>9, <1>10 DEF Step
<1>. QED
  BY <1>1, <1>7, <1>8, <1>10 DEF Next

\* Whatever is killed or fails, and whoever recovers, the three paths change
\* together, to a release no older than the one they are of, or not at all,
\* until a lock is lost to a race or a rollback is left half done
\* (replace_binary and recover_interrupted_install, install.rs).
THEOREM Atomicity == Spec => AllOrNothing
<1>. DEFINE Inv == LockInv /\ TypeInv /\ (Calm => DiskInv)
<1>1. Init => Promised!Init
  <2> SUFFICES ASSUME Init PROVE Promised!Init
    OBVIOUS
  <2>1. Installed["binary"] # 0
    BY InitialDisk DEF DiskInv
  <2>2. Installed \in [Artifacts -> Content]
    BY InitialTypes, InstalledType
  <2>3. (~Calm) = FALSE
    BY DEF Init, Calm
  <2>. QED
    BY <2>1, <2>2, <2>3 DEF Promised!Init, Content
<1>2. Inv /\ [Next]_vars => [Promised!Upgrade \/ Promised!Damage]_<<Installed, ~Calm>>
  <2> SUFFICES ASSUME LockInv, TypeInv, Calm => DiskInv, [Next]_vars
               PROVE  \/ Promised!Upgrade \/ Promised!Damage
                      \/ UNCHANGED <<Installed, ~Calm>>
    OBVIOUS
  <2>1. CASE Calm'
    <3>1. Calm
      BY <2>1, CalmBefore
    <3>2. Promised!Upgrade \/ UNCHANGED Installed
      BY <2>1, <3>1, StepPromised
    <3>3. (~Calm)' = ~Calm
      BY <2>1, <3>1
    <3>. QED
      BY <3>2, <3>3
  <2>2. CASE ~Calm'
    BY <2>2 DEF Promised!Damage
  <2>. QED
    BY <2>1, <2>2
<1>. QED
  BY <1>1, <1>2, DiskInvariance, PTL DEF Spec, AllOrNothing, Promised!Spec

=============================================================================
