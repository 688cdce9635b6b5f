------------------------- MODULE RemoteImportProof -------------------------
(***************************************************************************)
(* No checkpoint of `ctx turso import` hides events that are not uploaded: *)
(* NothingLeftBehind for any number of hosts, sources and files, errors,   *)
(* kills and late checkpoint writes.  The code keeps that promise under    *)
(* four conditions, all of which are needed (README, changed constants):   *)
(* a checkpoint row belongs to one source of one host, nobody writes into  *)
(* a source in the moment its checkpoint is stored, files that keep an old *)
(* modification time are moved into no tree, and a snapshot is adopted     *)
(* only by a host that has nothing besides.                                *)
(***************************************************************************)
EXTENDS RemoteImport, TLAPS

OwnKeys ==
  \A h, g \in Hosts : \A s, t \in Sources :
    CheckpointKey[h][s] = CheckpointKey[g][t] => h = g /\ s = t

Honoured ==
  /\ OwnKeys
  /\ QuietWriters
  /\ AdoptsWhole
  /\ \A s \in MovesFiles : Format[s] = "whole"

-----------------------------------------------------------------------------
(* The invariant. *)

\* f has events that are not in the database.
Behind(h, f) == uploaded[h][f] < file[h][f].len

\* A fingerprint of s tells of no more than its files have.
Fits(h, s, print) ==
  \A e \in print : e.path \in FilesOf[s] /\ e.len \in 0 .. file[h][e.path].len

\* A row hides nothing: its fingerprint is not that of a source with events
\* left, and its time is not later than the files that have them.
Honest(h, s, row) ==
  /\ Fits(h, s, row.fingerprint)
  /\ \A f \in FilesOf[s] : Behind(h, f) =>
       /\ row.fingerprint # Fingerprint(h, s)
       /\ Format[s] = "whole" \/ file[h][f].mtime > row.updated

CheckpointsHonest ==
  \A h \in Hosts : \A s \in Sources :
    LET row == checkpoint[CheckpointKey[h][s]]
    IN row # NoCheckpoint => Honest(h, s, row)

\* Also the rows that are still under way.
LateHonest ==
  \A h, g \in Hosts : \A s \in Sources : \A w \in late[h] :
    w.key = CheckpointKey[g][s] => g = h /\ Honest(h, s, w)

\* As long as a source has the fingerprint that the run began with, the files
\* that the previous checkpoint lets the run skip are uploaded.
PendingSafe(h, s) ==
  /\ Fits(h, s, pending[h][s].fingerprint)
  /\ \A f \in FilesOf[s] :
       /\ pending[h][s].fingerprint = Fingerprint(h, s)
       /\ pending[h][s].previous \in 1 .. MaxTime
       /\ Behind(h, f)
       => Format[s] = "whole" \/ file[h][f].mtime > pending[h][s].previous

\* And what is not uploaded is still queued or in the in-memory Store.
RunSafe(h) ==
  LET s == source[h]
      unchanged == pending[h][s].fingerprint = Fingerprint(h, s)
  IN
  /\ pc[h] \in {"files", "persist", "store"} => IsPending(h, s)
  /\ pc[h] = "files" /\ unchanged =>
       \A f \in FilesOf[s] : Behind(h, f) => f \in queue[h]
  /\ pc[h] = "persist" /\ unchanged =>
       \A f \in FilesOf[s] : Behind(h, f) =>
         f \in queue[h] \/ (f \in DOMAIN stored[h] /\ stored[h][f] = file[h][f].len)
  /\ pc[h] = "store" => \A f \in FilesOf[s] : ~Behind(h, f)
  /\ pc[h] \in {"adopt", "baseline"} =>
       \A r \in Sources : \A f \in FilesOf[r] : ~Behind(h, f)

ImportInv ==
  /\ TypeOK
  /\ CheckpointsHonest
  /\ LateHonest
  /\ \A h \in Hosts : \A s \in Sources : PendingSafe(h, s)
  /\ \A h \in Hosts : RunSafe(h)

-----------------------------------------------------------------------------
(* Types.  What a run changes, and what it shares with the world.  *)

WorldOK ==
  /\ clock \in 1 .. MaxTime
  /\ file \in [Hosts -> [Files -> [len : Nat, mtime : 0 .. MaxTime]]]
  /\ uploaded \in [Hosts -> [Files -> Nat]]
  /\ checkpoint \in [CheckpointKeys ->
       {NoCheckpoint} \cup [fingerprint : Fingerprints, updated : 1 .. MaxTime]]
  /\ late \in [Hosts -> SUBSET [key : CheckpointKeys, fingerprint : Fingerprints,
                                updated : 1 .. MaxTime]]
  /\ errors \in 0 .. MaxErrors

States == {"idle", "stopped", "fingerprint", "compare", "next", "files",
           "persist", "store", "adopt", "baseline"}

PlaceOK ==
  /\ pc \in [Hosts -> States]
  /\ source \in [Hosts -> 1 .. NSources + 1]
  /\ failures \in [Hosts -> 0 .. MaxFailures]
  /\ \A h \in Hosts :
       /\ pc[h] # "stopped" => failures[h] < MaxFailures
       /\ pc[h] \in {"compare", "files", "persist", "store", "baseline"} =>
            source[h] \in Sources

LocalsOK ==
  /\ pending \in [Hosts -> [Sources -> [fingerprint : Fingerprints,
                                       previous : 0 .. MaxTime + 1]]]
  /\ queue \in [Hosts -> SUBSET Files]
  /\ DOMAIN stored = Hosts
  /\ \A h \in Hosts : /\ DOMAIN stored[h] \subseteq Files
                      /\ stored[h] \in [DOMAIN stored[h] -> Nat]

LEMMA TypeParts ==
  /\ TypeOK <=> WorldOK /\ PlaceOK /\ LocalsOK
  /\ TypeOK' <=> WorldOK' /\ PlaceOK' /\ LocalsOK'
  BY DEF TypeOK, WorldOK, PlaceOK, LocalsOK, States

LEMMA WorldStill ==
  ASSUME WorldOK, UNCHANGED <<env, uploaded, checkpoint, late, errors>>
  PROVE  WorldOK'
  BY DEF WorldOK, env

LEMMA PlaceStill ==
  ASSUME PlaceOK, UNCHANGED <<pc, source, failures>>
  PROVE  PlaceOK'
  BY DEF PlaceOK

LEMMA LocalsStill ==
  ASSUME LocalsOK, UNCHANGED <<pending, queue, stored>>
  PROVE  LocalsOK'
  BY DEF LocalsOK

LEMMA KeyType ==
  ASSUME NEW h \in Hosts, NEW s \in Sources
  PROVE  /\ CheckpointKey[h][s] \in CheckpointKeys
         /\ FilesOf[s] \subseteq Files
  BY DEF CheckpointKeys, Files

LEMMA PrintType ==
  ASSUME WorldOK, NEW h \in Hosts, NEW s \in Sources
  PROVE  /\ Fingerprint(h, s) \in Fingerprints
         /\ Fits(h, s, Fingerprint(h, s))
<1>1. FilesOf[s] \subseteq Files
  BY KeyType
<1>. QED
  BY <1>1 DEF WorldOK, Fingerprint, Fingerprints, Fits

\* The locals of a run that has ended.
LEMMA DroppedLocals ==
  ASSUME LocalsOK, NEW h \in Hosts, DropRun(h)
  PROVE  LocalsOK'
<1>1. NotPending \in [fingerprint : Fingerprints, previous : 0 .. MaxTime + 1]
  BY ImportAssumption DEF NotPending, Fingerprints
<1>2. NonePending \in [Sources -> [fingerprint : Fingerprints,
                                   previous : 0 .. MaxTime + 1]]
  BY <1>1 DEF NonePending
<1>3. pending' \in [Hosts -> [Sources -> [fingerprint : Fingerprints,
                                       previous : 0 .. MaxTime + 1]]]
  BY <1>2 DEF LocalsOK, DropRun
<1>4. queue' \in [Hosts -> SUBSET Files]
  BY DEF LocalsOK, DropRun
<1>5. DOMAIN Nothing = {} /\ Nothing \in [{} -> Nat]
  BY DEF Nothing
<1>6. /\ DOMAIN stored' = Hosts
      /\ \A g \in Hosts : stored'[g] = IF g = h THEN Nothing ELSE stored[g]
  BY DEF LocalsOK, DropRun
<1>. QED
  BY <1>3, <1>4, <1>5, <1>6 DEF LocalsOK

LEMMA UploadType ==
  ASSUME WorldOK, LocalsOK, NEW h \in Hosts, NEW S \in SUBSET (DOMAIN stored[h]),
         Upload(h, S)
  PROVE  /\ uploaded' \in [Hosts -> [Files -> Nat]]
         /\ \A g \in Hosts : \A f \in Files : uploaded'[g][f] >= uploaded[g][f]
         /\ \A g \in Hosts \ {h} : uploaded'[g] = uploaded[g]
         /\ \A f \in S : uploaded'[h][f] >= stored[h][f]
<1>1. \A f \in DOMAIN stored[h] : f \in Files /\ stored[h][f] \in Nat
  BY DEF LocalsOK
<1>2. \A f \in Files : uploaded[h][f] \in Nat
  BY DEF WorldOK
<1> DEFINE new == [f \in Files |-> IF f \in S /\ stored[h][f] > uploaded[h][f]
                                   THEN stored[h][f] ELSE uploaded[h][f]]
<1>3. uploaded' = [uploaded EXCEPT ![h] = new]
  BY DEF Upload
<1>4. new \in [Files -> Nat]
  BY <1>1, <1>2
<1>5. uploaded' \in [Hosts -> [Files -> Nat]] /\ uploaded'[h] = new
  BY <1>3, <1>4 DEF WorldOK
<1>6. \A g \in Hosts \ {h} : uploaded'[g] = uploaded[g]
  BY <1>3 DEF WorldOK
<1>7. \A f \in Files : new[f] >= uploaded[h][f]
  BY <1>1, <1>2
<1>8. \A f \in S : new[f] >= stored[h][f]
  BY <1>1, <1>2
<1>9. \A g \in Hosts \ {h} : \A f \in Files : uploaded'[g][f] >= uploaded[g][f]
  BY <1>6 DEF WorldOK
<1>. QED
  BY <1>5, <1>6, <1>7, <1>8, <1>9

LEMMA EndRunType ==
  ASSUME PlaceOK, LocalsOK, NEW h \in Hosts, EndRun(h), pc[h] # "stopped"
  PROVE  PlaceOK' /\ LocalsOK'
<1>1. LocalsOK'
  BY DroppedLocals DEF EndRun
<1>2. failures[h] \in 0 .. MaxFailures /\ failures[h] < MaxFailures
  BY DEF PlaceOK
<1>3. failures' \in [Hosts -> 0 .. MaxFailures] /\ failures'[h] = failures[h] + 1
  BY <1>2, ImportAssumption DEF PlaceOK, EndRun
<1>4. source' \in [Hosts -> 1 .. NSources + 1]
  BY ImportAssumption DEF PlaceOK, EndRun, DropRun
<1>5. /\ pc' \in [Hosts -> States]
      /\ pc'[h] \in {"idle", "stopped"}
      /\ pc'[h] # "stopped" => failures'[h] < MaxFailures
  BY <1>3, ImportAssumption DEF PlaceOK, EndRun, States
<1>6. \A g \in Hosts \ {h} : /\ pc'[g] = pc[g]
                             /\ source'[g] = source[g]
                             /\ failures'[g] = failures[g]
  BY DEF PlaceOK, EndRun, DropRun
<1>. QED
  BY <1>1, <1>3, <1>4, <1>5, <1>6 DEF PlaceOK

\* p goes from one place to another, maybe to the next source.
LEMMA PlaceMoves ==
  ASSUME PlaceOK, NEW h \in Hosts, NEW state \in States, NEW s \in 1 .. NSources + 1,
         pc' = [pc EXCEPT ![h] = state], source' = [source EXCEPT ![h] = s],
         \/ UNCHANGED failures
         \/ failures' = [failures EXCEPT ![h] = 0],
         pc[h] # "stopped" \/ failures' = [failures EXCEPT ![h] = 0],
         state # "stopped",
         state \in {"compare", "files", "persist", "store", "baseline"} => s \in Sources
  PROVE  PlaceOK'
<1>1. /\ pc' \in [Hosts -> States]
      /\ source' \in [Hosts -> 1 .. NSources + 1]
      /\ failures' \in [Hosts -> 0 .. MaxFailures]
  BY ImportAssumption DEF PlaceOK
<1>2. failures'[h] < MaxFailures
  BY ImportAssumption DEF PlaceOK
<1>. QED
  BY <1>1, <1>2 DEF PlaceOK

\* A checkpoint write whose client gave up.
LEMMA LateType ==
  ASSUME WorldOK, PlaceOK, LocalsOK, NEW h \in Hosts, MayArriveLate(h)
  PROVE  late' \in [Hosts -> SUBSET [key : CheckpointKeys, fingerprint : Fingerprints,
                                     updated : 1 .. MaxTime]]
<1>1. CASE UNCHANGED late
  BY <1>1 DEF WorldOK
<1>2. CASE ~UNCHANGED late
  <2>1. source[h] \in Sources
    BY <1>2 DEF MayArriveLate, PlaceOK
  <2>2. [key |-> CheckpointKey[h][source[h]],
         fingerprint |-> pending[h][source[h]].fingerprint, updated |-> clock]
          \in [key : CheckpointKeys, fingerprint : Fingerprints, updated : 1 .. MaxTime]
    BY <2>1, KeyType DEF LocalsOK, WorldOK
  <2>3. late' = [late EXCEPT ![h] = @ \cup
          {[key |-> CheckpointKey[h][source[h]],
            fingerprint |-> pending[h][source[h]].fingerprint, updated |-> clock]}]
    BY <1>2 DEF MayArriveLate
  <2>. QED
    BY <2>2, <2>3 DEF WorldOK
<1>. QED
  BY <1>1, <1>2

LEMMA SameSource ==
  ASSUME PlaceOK, NEW h \in Hosts, UNCHANGED source
  PROVE  source' = [source EXCEPT ![h] = source[h]] /\ source[h] \in 1 .. NSources + 1
  BY DEF PlaceOK

LEMMA TypeStep ==
  ASSUME TypeOK, [Next]_vars
  PROVE  TypeOK'
<1>. USE ImportAssumption
<1>0. WorldOK /\ PlaceOK /\ LocalsOK
  BY TypeParts
<1>. USE DEF env, runvars
<1>22. 1 \in 1 .. NSources + 1
  OBVIOUS
<1>1. CASE Tick
  BY <1>0, <1>1, PlaceStill, LocalsStill, TypeParts DEF Tick, WorldOK
<1>2. ASSUME NEW h \in Hosts, Write(h)
      PROVE  TypeOK'
  <2>0. PICK s \in Sources : \E f \in FilesOf[s] :
          file' = [file EXCEPT ![h][f] = [len |-> @.len + 1, mtime |-> clock]]
    BY <1>2 DEF Write
  <2>1. PICK f \in FilesOf[s] :
          file' = [file EXCEPT ![h][f] = [len |-> @.len + 1, mtime |-> clock]]
    BY <2>0
  <2>2. f \in Files /\ file[h][f].len \in Nat
    BY <1>0, <2>1, KeyType DEF WorldOK
  <2>3. [len |-> file[h][f].len + 1, mtime |-> clock] \in [len : Nat, mtime : 0 .. MaxTime]
    BY <1>0, <2>2 DEF WorldOK
  <2>4. file' \in [Hosts -> [Files -> [len : Nat, mtime : 0 .. MaxTime]]]
    BY <1>0, <2>1, <2>2, <2>3 DEF WorldOK
  <2>5. WorldOK'
    BY <1>0, <1>2, <2>4 DEF Write, WorldOK
  <2>. QED
    BY <1>0, <1>2, <2>5, PlaceStill, LocalsStill, TypeParts DEF Write
<1>3. ASSUME NEW h \in Hosts, MoveIn(h)
      PROVE  TypeOK'
  <2>0. PICK s \in MovesFiles : \E f \in FilesOf[s] : \E t \in 0 .. clock :
          file' = [file EXCEPT ![h][f] = [len |-> 1, mtime |-> t]]
    BY <1>3 DEF MoveIn
  <2>1. PICK f \in FilesOf[s] : \E t \in 0 .. clock :
          file' = [file EXCEPT ![h][f] = [len |-> 1, mtime |-> t]]
    BY <2>0
  <2>2. PICK t \in 0 .. clock :
          file' = [file EXCEPT ![h][f] = [len |-> 1, mtime |-> t]]
    BY <2>1
  <2>3. f \in Files
    BY <2>0, KeyType
  <2>6. [len |-> 1, mtime |-> t] \in [len : Nat, mtime : 0 .. MaxTime]
    BY <1>0, <2>2 DEF WorldOK
  <2>4. file' \in [Hosts -> [Files -> [len : Nat, mtime : 0 .. MaxTime]]]
    BY <1>0, <2>2, <2>3, <2>6 DEF WorldOK
  <2>5. WorldOK'
    BY <1>0, <1>3, <2>4 DEF MoveIn, WorldOK
  <2>. QED
    BY <1>0, <1>3, <2>5, PlaceStill, LocalsStill, TypeParts DEF MoveIn
<1>4. ASSUME NEW h \in Hosts, Start(h)
      PROVE  TypeOK'
  <2>1. PlaceOK'
    BY <1>0, <1>4, SameSource, PlaceMoves DEF Start, States
  <2>. QED
    BY <1>0, <1>4, <2>1, WorldStill, LocalsStill, TypeParts DEF Start
<1>5. ASSUME NEW h \in Hosts, TakeFingerprint(h)
      PROVE  TypeOK'
  <2>1. PlaceOK'
    BY <1>0, <1>5, SameSource, PlaceMoves DEF TakeFingerprint, States
  <2>2. [fingerprint |-> Fingerprint(h, source[h]), previous |-> MaxTime + 1] \in
          [fingerprint : Fingerprints, previous : 0 .. MaxTime + 1]
    BY <1>0, <1>5, PrintType DEF TakeFingerprint
  <2>3. LocalsOK'
    BY <1>0, <1>5, <2>2 DEF TakeFingerprint, LocalsOK
  <2>. QED
    BY <1>0, <1>5, <2>1, <2>3, WorldStill, TypeParts DEF TakeFingerprint
<1>6. ASSUME NEW h \in Hosts, Compare(h)
      PROVE  TypeOK'
  <2>1. source[h] \in Sources /\ source[h] + 1 \in 1 .. NSources + 1
    BY <1>0, <1>6 DEF Compare, PlaceOK, Sources
  <2>2. PlaceOK'
    BY <1>0, <1>6, <2>1, PlaceMoves DEF Compare, States
  <2>3. CheckpointKey[h][source[h]] \in CheckpointKeys
    BY <2>1, KeyType
  <2> DEFINE before == checkpoint[CheckpointKey[h][source[h]]]
             now == pending[h][source[h]]
             new == IF before = NoCheckpoint THEN [now EXCEPT !.previous = 0]
                    ELSE IF before.fingerprint = now.fingerprint THEN NotPending
                    ELSE [now EXCEPT !.previous = before.updated]
  <2>4. before = NoCheckpoint \/ before.updated \in 1 .. MaxTime
    BY <1>0, <2>3 DEF WorldOK
  <2>5. now \in [fingerprint : Fingerprints, previous : 0 .. MaxTime + 1]
    BY <1>0, <2>1 DEF LocalsOK
  <2>6. new \in [fingerprint : Fingerprints, previous : 0 .. MaxTime + 1]
    BY <2>4, <2>5 DEF NotPending, Fingerprints
  <2>7. pending' = [pending EXCEPT ![h][source[h]] = new]
    BY <1>6 DEF Compare
  <2>8. LocalsOK'
    BY <1>0, <1>6, <2>1, <2>6, <2>7 DEF Compare, LocalsOK
  <2>. QED
    BY <1>0, <1>6, <2>2, <2>8, WorldStill, TypeParts DEF Compare
<1>7. ASSUME NEW h \in Hosts, Inventory(h)
      PROVE  TypeOK'
  <2>1. PlaceOK'
    BY <1>0, <1>7, <1>22, PlaceMoves DEF Inventory, States
  <2>. QED
    BY <1>0, <1>7, <2>1, WorldStill, LocalsStill, TypeParts DEF Inventory
<1>8. ASSUME NEW h \in Hosts, Skip(h)
      PROVE  TypeOK'
  <2>1. PlaceOK'
    BY <1>0, <1>8 DEF Skip, PlaceOK, Sources
  <2>. QED
    BY <1>0, <1>8, <2>1, WorldStill, LocalsStill, TypeParts DEF Skip
<1>9. ASSUME NEW h \in Hosts, Open(h)
      PROVE  TypeOK'
  <2>1. PlaceOK'
    BY <1>0, <1>9, SameSource, PlaceMoves DEF Open, States
  <2>2. queue' \in [Hosts -> SUBSET Files]
    BY <1>0, <1>9, KeyType DEF Open, LocalsOK
  <2>3. LocalsOK'
    BY <1>0, <1>9, <2>2 DEF Open, LocalsOK
  <2>. QED
    BY <1>0, <1>9, <2>1, <2>3, WorldStill, TypeParts DEF Open
<1>10. ASSUME NEW h \in Hosts, Read(h)
       PROVE  TypeOK'
  <2>1. PlaceOK'
    BY <1>0, <1>10, SameSource, PlaceMoves DEF Read, States, PlaceOK
  <2>2. Wanted(h) \subseteq Files
    BY <1>0 DEF Wanted, NextFiles, FirstFiles, LocalsOK
  <2>3. [f \in Wanted(h) |-> file[h][f].len] \in [Wanted(h) -> Nat]
    BY <1>0, <2>2 DEF WorldOK
  <2>4. queue' \in [Hosts -> SUBSET Files]
    BY <1>0, <1>10 DEF Read, LocalsOK
  <2>5. LocalsOK'
    BY <1>0, <1>10, <2>2, <2>3, <2>4 DEF Read, LocalsOK
  <2>. QED
    BY <1>0, <1>10, <2>1, <2>5, WorldStill, TypeParts DEF Read
<1>11. ASSUME NEW h \in Hosts, Persist(h)
       PROVE  TypeOK'
  <2>1. PlaceOK'
    BY <1>0, <1>11, SameSource, PlaceMoves DEF Persist, States, PlaceOK
  <2>2. LocalsOK'
    BY <1>0, <1>11 DEF Persist, LocalsOK, Nothing
  <2>3. WorldOK'
    BY <1>0, <1>11, UploadType DEF Persist, WorldOK
  <2>. QED
    BY <2>1, <2>2, <2>3, TypeParts
<1>12. NotPending \in [fingerprint : Fingerprints, previous : 0 .. MaxTime + 1]
  BY DEF NotPending, Fingerprints
<1>13. ASSUME NEW h \in Hosts, Complete(h)
       PROVE  TypeOK'
  <2>1. source[h] \in Sources /\ source[h] + 1 \in 1 .. NSources + 1
    BY <1>0, <1>13 DEF Complete, PlaceOK, Sources
  <2>2. PlaceOK'
    BY <1>0, <1>13, <2>1, SameSource, PlaceMoves DEF Complete, States
  <2>3. LocalsOK'
    <3>1. \/ UNCHANGED pending
          \/ pending' = [pending EXCEPT ![h][source[h]] = NotPending]
      BY <1>13 DEF Complete
    <3>2. pending' \in [Hosts -> [Sources -> [fingerprint : Fingerprints,
                                           previous : 0 .. MaxTime + 1]]]
      <4>1. pending \in [Hosts -> [Sources -> [fingerprint : Fingerprints,
                                             previous : 0 .. MaxTime + 1]]]
        BY <1>0 DEF LocalsOK
      <4>2. [pending EXCEPT ![h][source[h]] = NotPending] \in
              [Hosts -> [Sources -> [fingerprint : Fingerprints,
                                     previous : 0 .. MaxTime + 1]]]
        BY <1>12, <1>13, <2>1, <4>1
      <4>. QED
        BY <3>1, <4>1, <4>2
    <3>. QED
      BY <1>0, <1>13, <3>2 DEF Complete, LocalsOK
  <2>. QED
    BY <1>0, <1>13, <2>2, <2>3, WorldStill, TypeParts DEF Complete
<1>14. ASSUME NEW h \in Hosts, Store(h)
       PROVE  TypeOK'
  <2>1. source[h] \in Sources /\ source[h] + 1 \in 1 .. NSources + 1
    BY <1>0, <1>14 DEF Store, PlaceOK, Sources
  <2>2. PlaceOK'
    <3>1. PICK state \in {"next", "adopt"} : pc' = [pc EXCEPT ![h] = state]
      BY <1>14 DEF Store
    <3>. QED
      BY <1>0, <1>14, <2>1, <3>1, PlaceMoves DEF Store, States
  <2>3. LocalsOK'
    BY <1>0, <1>12, <1>14, <2>1 DEF Store, LocalsOK
  <2>4. pending[h][source[h]].fingerprint \in Fingerprints
    BY <1>0, <2>1 DEF LocalsOK
  <2>5. WorldOK'
    BY <1>0, <1>14, <2>1, <2>4, KeyType DEF Store, WorldOK
  <2>. QED
    BY <2>2, <2>3, <2>5, TypeParts
<1>15. ASSUME NEW h \in Hosts, Succeed(h)
       PROVE  TypeOK'
  <2>1. PlaceOK'
    BY <1>0, <1>15, <1>22, PlaceMoves DEF Succeed, DropRun, States
  <2>. QED
    BY <1>0, <1>15, <2>1, DroppedLocals, WorldStill, TypeParts DEF Succeed
<1>16. ASSUME NEW h \in Hosts, SourceFailure(h)
       PROVE  TypeOK'
  <2>1. source[h] \in Sources /\ source[h] + 1 \in 1 .. NSources + 1
    BY <1>0, <1>16 DEF SourceFailure, PlaceOK, Sources
  <2>2. PlaceOK'
    BY <1>0, <1>16, <2>1, PlaceMoves DEF SourceFailure, States
  <2>3. LocalsOK'
    BY <1>0, <1>16 DEF SourceFailure, LocalsOK
  <2>. QED
    BY <1>0, <1>16, <2>2, <2>3, WorldStill, TypeParts DEF SourceFailure
<1>17. ASSUME NEW h \in Hosts, TreeFailure(h)
       PROVE  TypeOK'
  <2>1. EndRun(h) /\ pc[h] # "stopped"
    BY <1>17 DEF TreeFailure
  <2>. QED
    BY <1>0, <1>17, <2>1, EndRunType, WorldStill, TypeParts DEF TreeFailure, EndRun
<1>18. ASSUME NEW h \in Hosts, RemoteFailure(h)
       PROVE  TypeOK'
  <2>1. PlaceOK' /\ LocalsOK'
    BY <1>0, <1>18, EndRunType DEF RemoteFailure
  <2>2. uploaded' \in [Hosts -> [Files -> Nat]]
    BY <1>0, <1>18, UploadType DEF RemoteFailure, WorldOK
  <2>3. late' \in [Hosts -> SUBSET [key : CheckpointKeys, fingerprint : Fingerprints,
                                    updated : 1 .. MaxTime]]
    BY <1>0, <1>18, LateType DEF RemoteFailure
  <2>4. WorldOK'
    BY <1>0, <1>18, <2>2, <2>3 DEF RemoteFailure, EndRun, WorldOK
  <2>. QED
    BY <2>1, <2>4, TypeParts
<1>19. ASSUME NEW h \in Hosts, DeliverLate(h)
       PROVE  TypeOK'
  <2>1. PICK w \in late[h] :
          /\ checkpoint' = [checkpoint EXCEPT ![w.key] =
               [fingerprint |-> w.fingerprint, updated |-> w.updated]]
          /\ late' = [late EXCEPT ![h] = @ \ {w}]
    BY <1>19 DEF DeliverLate
  <2>2. w \in [key : CheckpointKeys, fingerprint : Fingerprints, updated : 1 .. MaxTime]
    BY <1>0, <2>1 DEF WorldOK
  <2>3. WorldOK'
    BY <1>0, <1>19, <2>1, <2>2 DEF DeliverLate, WorldOK
  <2>. QED
    BY <1>0, <1>19, <2>3, PlaceStill, LocalsStill, TypeParts DEF DeliverLate
<1>20. ASSUME NEW h \in Hosts, Restart(h)
       PROVE  TypeOK'
  <2>1. PlaceOK'
    BY <1>0, <1>20, <1>22, PlaceMoves DEF Restart, DropRun, States
  <2>2. WorldOK'
    BY <1>0, <1>20 DEF Restart, WorldOK
  <2>. QED
    BY <1>0, <1>20, <2>1, <2>2, DroppedLocals, TypeParts DEF Restart
<1>23. ASSUME NEW h \in Hosts, Adopt(h)
       PROVE  TypeOK'
  <2>1. PlaceOK'
    BY <1>0, <1>23, SameSource, PlaceMoves DEF Adopt, States
  <2>. QED
    BY <1>0, <1>23, <2>1, WorldStill, LocalsStill, TypeParts DEF Adopt
<1>24. ASSUME NEW h \in Hosts, AdoptSource(h)
       PROVE  TypeOK'
  <2>1. PlaceOK'
    BY <1>0, <1>24, SameSource, PlaceMoves DEF AdoptSource, States
  <2>2. [fingerprint |-> Fingerprint(h, source[h]), previous |-> 0] \in
          [fingerprint : Fingerprints, previous : 0 .. MaxTime + 1]
    BY <1>0, <1>24, PrintType DEF AdoptSource
  <2>3. LocalsOK'
    BY <1>0, <1>24, <2>2 DEF AdoptSource, LocalsOK
  <2>. QED
    BY <1>0, <1>24, <2>1, <2>3, WorldStill, TypeParts DEF AdoptSource
<1>25. ASSUME NEW h \in Hosts, Adopted(h)
       PROVE  TypeOK'
  <2>1. PlaceOK'
    BY <1>0, <1>25, <1>22, PlaceMoves DEF Adopted, DropRun, States
  <2>. QED
    BY <1>0, <1>25, <2>1, DroppedLocals, WorldStill, TypeParts DEF Adopted
<1>26. ASSUME NEW h \in Hosts, AdoptFails(h)
       PROVE  TypeOK'
  <2>1. PlaceOK'
    BY <1>0, <1>26, <1>22, PlaceMoves DEF AdoptFails, DropRun, States
  <2>2. WorldOK'
    BY <1>0, <1>26, LateType DEF AdoptFails, WorldOK
  <2>. QED
    BY <1>0, <1>26, <2>1, <2>2, DroppedLocals, TypeParts DEF AdoptFails
<1>21. CASE UNCHANGED vars
  BY <1>0, <1>21, WorldStill, PlaceStill, LocalsStill, TypeParts DEF vars
<1>. QED
  BY <1>1, <1>2, <1>3, <1>4, <1>5, <1>6, <1>7, <1>8, <1>9, <1>10, <1>11, <1>13,
     <1>14, <1>15, <1>16, <1>17, <1>18, <1>19, <1>20, <1>21, <1>23, <1>24, <1>25, <1>26
  DEF Next, Run

-----------------------------------------------------------------------------
(* What agents do: one file of one source grows. *)

\* f of source s of host h has grown to n events, at time t.
Grown(h, f, n, t) ==
  /\ n \in Nat /\ t \in 0 .. MaxTime
  /\ n > file[h][f].len
  /\ file' = [file EXCEPT ![h][f] = [len |-> n, mtime |-> t]]

LEMMA OneSource ==
  ASSUME NEW s \in Sources, NEW r \in Sources, NEW f \in FilesOf[s], f \in FilesOf[r]
  PROVE  s = r
  BY ImportAssumption

LEMMA GrownFile ==
  ASSUME WorldOK, NEW h \in Hosts, NEW s \in Sources, NEW f \in FilesOf[s],
         NEW n, NEW t, Grown(h, f, n, t)
  PROVE  /\ file'[h][f] = [len |-> n, mtime |-> t]
         /\ \A g \in Hosts : \A e \in Files : g # h \/ e # f => file'[g][e] = file[g][e]
         /\ \A g \in Hosts : \A e \in Files : file'[g][e].len >= file[g][e].len
<1>1. f \in Files
  BY KeyType
<1>2. file'[h][f] = [len |-> n, mtime |-> t]
  BY <1>1 DEF Grown, WorldOK
<1>3. \A g \in Hosts : \A e \in Files : g # h \/ e # f => file'[g][e] = file[g][e]
  BY <1>1 DEF Grown, WorldOK
<1>4. \A g \in Hosts : \A e \in Files : file[g][e].len \in Nat
  BY DEF WorldOK
<1>5. file'[h][f].len >= file[h][f].len
  BY <1>1, <1>2, <1>4 DEF Grown
<1>6. \A g \in Hosts : \A e \in Files : file'[g][e].len >= file[g][e].len
  BY <1>3, <1>4, <1>5
<1>. QED
  BY <1>2, <1>3, <1>6

\* No fingerprint that was taken before is that of the source now.
LEMMA GrownPrints ==
  ASSUME WorldOK, NEW h \in Hosts, NEW s \in Sources, NEW f \in FilesOf[s],
         NEW n, NEW t, Grown(h, f, n, t),
         NEW g \in Hosts, NEW r \in Sources, NEW print, Fits(g, r, print)
  PROVE  /\ Fits(g, r, print)'
         /\ g = h /\ r = s => print # Fingerprint(h, s)'
         /\ g # h \/ r # s => Fingerprint(g, r)' = Fingerprint(g, r)
<1>10. /\ file'[h][f] = [len |-> n, mtime |-> t]
      /\ \A k \in Hosts : \A e \in Files : k # h \/ e # f => file'[k][e] = file[k][e]
      /\ \A j \in Hosts : \A i \in Files : file'[j][i].len >= file[j][i].len
  BY GrownFile
<1>11. \A q \in Sources : f \in FilesOf[q] => q = s
  BY OneSource
<1>1. FilesOf[r] \subseteq Files /\ f \in Files
  BY KeyType
<1>2. Fits(g, r, print)'
  <2> SUFFICES ASSUME NEW e \in print
               PROVE  e.path \in FilesOf[r] /\ e.len \in 0 .. file'[g][e.path].len
    BY DEF Fits
  <2>1. e.path \in FilesOf[r] /\ e.len \in 0 .. file[g][e.path].len
    BY DEF Fits
  <2>2. /\ file[g][e.path].len \in Nat
        /\ file'[g][e.path].len >= file[g][e.path].len
        /\ file'[g][e.path].len \in Nat
    <3>1. e.path \in Files
      BY <1>1, <2>1
    <3>2. CASE g = h /\ e.path = f
      BY <3>1, <3>2, <1>10 DEF WorldOK, Grown
    <3>3. CASE g # h \/ e.path # f
      BY <3>1, <3>3, <1>10 DEF WorldOK
    <3>. QED
      BY <3>2, <3>3
  <2>3. CASE g = h /\ e.path = f
    <3>1. file'[g][e.path].len = n /\ n > file[g][e.path].len /\ n \in Nat
      BY <2>3, <1>10 DEF Grown
    <3>. QED
      BY <2>1, <3>1, <2>2, ImportAssumption
  <2>4. CASE g # h \/ e.path # f
    BY <1>1, <2>1, <2>4, <1>10
  <2>. QED
    BY <2>3, <2>4
<1>3. ASSUME g = h, r = s
      PROVE  print # Fingerprint(h, s)'
  <2> DEFINE e == [path |-> f, len |-> n, mtime |-> t]
  <2>1. e \in Fingerprint(h, s)'
    <3>1. file'[h][f] = [len |-> n, mtime |-> t] /\ n > 0
      BY <1>1, <1>10 DEF Grown, WorldOK
    <3>. QED
      BY <3>1 DEF Fingerprint
  <2>2. e \notin print
    BY <1>1, <1>3 DEF Fits, Grown, WorldOK
  <2>. QED
    BY <2>1, <2>2
<1>4. ASSUME g # h \/ r # s
      PROVE  Fingerprint(g, r)' = Fingerprint(g, r)
  <2>1. \A e \in FilesOf[r] : file'[g][e] = file[g][e]
    BY <1>1, <1>4, <1>11, <1>10
  <2>. QED
    BY <2>1 DEF Fingerprint
<1>. QED
  BY <1>2, <1>3, <1>4

LEMMA GrownHonest ==
  ASSUME WorldOK, UNCHANGED uploaded,
         NEW h \in Hosts, NEW s \in Sources, NEW f \in FilesOf[s],
         NEW n, NEW t, Grown(h, f, n, t),
         NEW g \in Hosts, NEW r \in Sources, NEW row, Honest(g, r, row),
         g = h /\ r = s => Format[s] = "whole" \/ t > row.updated
  PROVE  Honest(g, r, row)'
<1>10. /\ file'[h][f] = [len |-> n, mtime |-> t]
      /\ \A k \in Hosts : \A e \in Files : k # h \/ e # f => file'[k][e] = file[k][e]
      /\ \A j \in Hosts : \A i \in Files : file'[j][i].len >= file[j][i].len
  BY GrownFile
<1>11. \A q \in Sources : f \in FilesOf[q] => q = s
  BY OneSource
<1>1. /\ Fits(g, r, row.fingerprint)'
      /\ g = h /\ r = s => row.fingerprint # Fingerprint(h, s)'
      /\ g # h \/ r # s => Fingerprint(g, r)' = Fingerprint(g, r)
  BY GrownPrints DEF Honest
<1>2. FilesOf[r] \subseteq Files
  BY KeyType
<1>3. ASSUME NEW e \in FilesOf[r], Behind(g, e)'
      PROVE  /\ row.fingerprint # Fingerprint(g, r)'
             /\ Format[r] = "whole" \/ file'[g][e].mtime > row.updated
  <2>1. CASE g = h /\ e = f
    <3>1. r = s
      BY <2>1, <1>11
    <3>. QED
      BY <1>1, <2>1, <3>1, <1>10
  <2>2. CASE g # h \/ e # f
    <3>1. file'[g][e] = file[g][e]
      BY <1>2, <2>2, <1>10
    <3>2. Behind(g, e)
      BY <1>3, <3>1 DEF Behind
    <3>. QED
      BY <1>1, <3>1, <3>2 DEF Honest
  <2>. QED
    BY <2>1, <2>2
<1>. QED
  BY <1>1, <1>3 DEF Honest

LEMMA GrownPending ==
  ASSUME WorldOK, UNCHANGED <<uploaded, pending>>,
         NEW h \in Hosts, NEW s \in Sources, NEW f \in FilesOf[s],
         NEW n, NEW t, Grown(h, f, n, t),
         NEW g \in Hosts, NEW r \in Sources, PendingSafe(g, r)
  PROVE  PendingSafe(g, r)'
<1>10. /\ file'[h][f] = [len |-> n, mtime |-> t]
      /\ \A k \in Hosts : \A e \in Files : k # h \/ e # f => file'[k][e] = file[k][e]
      /\ \A j \in Hosts : \A i \in Files : file'[j][i].len >= file[j][i].len
  BY GrownFile
<1>11. \A q \in Sources : f \in FilesOf[q] => q = s
  BY OneSource
<1>1. /\ Fits(g, r, pending[g][r].fingerprint)'
      /\ g = h /\ r = s => pending[g][r].fingerprint # Fingerprint(h, s)'
      /\ g # h \/ r # s => Fingerprint(g, r)' = Fingerprint(g, r)
  BY GrownPrints DEF PendingSafe
<1>2. g # h \/ r # s => \A e \in FilesOf[r] : file'[g][e] = file[g][e]
  BY <1>10, <1>11, KeyType
<1>3. CASE g = h /\ r = s
  BY <1>1, <1>3 DEF PendingSafe
<1>4. CASE g # h \/ r # s
  BY <1>1, <1>2, <1>4 DEF PendingSafe, Behind
<1>. QED
  BY <1>3, <1>4

LEMMA GrownRun ==
  ASSUME WorldOK, PlaceOK, UNCHANGED <<uploaded, runvars>>,
         NEW h \in Hosts, NEW s \in Sources, NEW f \in FilesOf[s],
         NEW n, NEW t, Grown(h, f, n, t), ~(pc[h] = "store" /\ source[h] = s),
         pc[h] \notin {"adopt", "baseline"},
         NEW g \in Hosts, \A r \in Sources : PendingSafe(g, r), RunSafe(g)
  PROVE  RunSafe(g)'
<1>. USE DEF runvars
<1>10. /\ file'[h][f] = [len |-> n, mtime |-> t]
      /\ \A k \in Hosts : \A e \in Files : k # h \/ e # f => file'[k][e] = file[k][e]
      /\ \A j \in Hosts : \A i \in Files : file'[j][i].len >= file[j][i].len
  BY GrownFile
<1>11. \A q \in Sources : f \in FilesOf[q] => q = s
  BY OneSource
<1>1. CASE pc[g] \notin {"files", "persist", "store"}
  <2>1. CASE pc[g] \in {"adopt", "baseline"}
    <3>1. \A r \in Sources : \A e \in FilesOf[r] : file'[g][e] = file[g][e]
      BY <1>10, <2>1, KeyType
    <3>. QED
      BY <1>1, <2>1, <3>1 DEF RunSafe, Behind
  <2>. QED
    BY <1>1, <2>1 DEF RunSafe
<1>2. CASE pc[g] \in {"files", "persist", "store"}
  <2>1. source[g] \in Sources
    BY <1>2 DEF PlaceOK
  <2>2. /\ g = h /\ source[g] = s => pending[g][source[g]].fingerprint # Fingerprint(h, s)'
        /\ g # h \/ source[g] # s =>
             Fingerprint(g, source[g])' = Fingerprint(g, source[g])
    BY <2>1, GrownPrints DEF PendingSafe
  <2>3. g # h \/ source[g] # s => \A e \in FilesOf[source[g]] : file'[g][e] = file[g][e]
    BY <2>1, <1>10, <1>11, KeyType
  <2>4. CASE g = h /\ source[g] = s
    BY <1>2, <2>2, <2>4 DEF RunSafe, IsPending
  <2>5. CASE g # h \/ source[g] # s
    <3>1. \A e \in FilesOf[source[g]] : Behind(g, e)' <=> Behind(g, e)
      BY <2>3, <2>5 DEF Behind
    <3>. QED
      BY <1>2, <2>2, <2>3, <2>5, <3>1 DEF RunSafe, IsPending
  <2>. QED
    BY <2>4, <2>5
<1>. QED
  BY <1>1, <1>2

LEMMA GrownInv ==
  ASSUME Honoured, ImportInv, TypeOK', UNCHANGED <<uploaded, checkpoint, late, runvars>>,
         NEW h \in Hosts, NEW s \in Sources, NEW f \in FilesOf[s],
         NEW n, NEW t, Grown(h, f, n, t), MayWrite(h, s),
         Format[s] = "whole" \/ t = clock
  PROVE  ImportInv'
<1>0. WorldOK /\ PlaceOK
  BY TypeParts DEF ImportInv
<1>1. /\ ~(pc[h] = "store" /\ source[h] = s)
      /\ pc[h] \notin {"adopt", "baseline"}
      /\ \A u \in StampsOf(h, s) : u < clock
  BY DEF MayWrite, Honoured
<1>2. CheckpointsHonest'
  <2> SUFFICES ASSUME NEW g \in Hosts, NEW r \in Sources,
                      checkpoint[CheckpointKey[g][r]] # NoCheckpoint
               PROVE  Honest(g, r, checkpoint[CheckpointKey[g][r]])'
    BY DEF CheckpointsHonest
  <2> DEFINE row == checkpoint[CheckpointKey[g][r]]
  <2>1. Honest(g, r, row)
    BY DEF ImportInv, CheckpointsHonest
  <2>2. g = h /\ r = s => row.updated < clock
    BY <1>1 DEF StampsOf
  <2>3. row.updated \in 1 .. MaxTime /\ clock \in 1 .. MaxTime
    BY <1>0, KeyType DEF WorldOK
  <2>4. g = h /\ r = s => Format[s] = "whole" \/ t > row.updated
    BY <2>2, <2>3
  <2>5. UNCHANGED row
    OBVIOUS
  <2>. QED
    BY <1>0, <2>1, <2>4, <2>5, GrownHonest
<1>3. LateHonest'
  <2> SUFFICES ASSUME NEW k \in Hosts, NEW g \in Hosts, NEW r \in Sources, NEW w \in late[k],
                      w.key = CheckpointKey[g][r]
               PROVE  g = k /\ Honest(k, r, w)'
    BY DEF LateHonest
  <2>1. g = k /\ Honest(k, r, w)
    BY DEF ImportInv, LateHonest
  <2>2. k = h /\ r = s => w.updated < clock
    BY <1>1, <2>1 DEF StampsOf
  <2>3. w.updated \in 1 .. MaxTime /\ clock \in 1 .. MaxTime
    BY <1>0 DEF WorldOK
  <2>4. k = h /\ r = s => Format[s] = "whole" \/ t > w.updated
    BY <2>2, <2>3
  <2>. QED
    BY <1>0, <2>1, <2>4, GrownHonest
<1>4. \A g \in Hosts : \A r \in Sources : PendingSafe(g, r)'
  BY <1>0, GrownPending DEF ImportInv, runvars
<1>5. \A g \in Hosts : RunSafe(g)'
  BY <1>0, <1>1, GrownRun DEF ImportInv
<1>. QED
  BY <1>2, <1>3, <1>4, <1>5 DEF ImportInv

-----------------------------------------------------------------------------
(* What a run does: files stay as they are, and the database grows. *)

Uploading ==
  /\ UNCHANGED file
  /\ \A g \in Hosts : \A f \in Files : uploaded'[g][f] >= uploaded[g][f]

LEMMA UploadingKeeps ==
  ASSUME WorldOK, WorldOK', Uploading, NEW g \in Hosts, NEW r \in Sources
  PROVE  /\ \A f \in FilesOf[r] : Behind(g, f)' => Behind(g, f)
         /\ Fingerprint(g, r)' = Fingerprint(g, r)
<1>1. FilesOf[r] \subseteq Files
  BY KeyType
<1>2. \A f \in Files : /\ uploaded[g][f] \in Nat /\ uploaded'[g][f] \in Nat
                       /\ file[g][f].len \in Nat
  BY DEF WorldOK
<1>3. ASSUME NEW f \in FilesOf[r], Behind(g, f)'
      PROVE  Behind(g, f)
  BY <1>1, <1>2, <1>3 DEF Behind, Uploading
<1>. QED
  BY <1>3 DEF Fingerprint, Uploading

LEMMA HonestStays ==
  ASSUME WorldOK, WorldOK', Uploading, NEW g \in Hosts, NEW r \in Sources,
         NEW row, Honest(g, r, row)
  PROVE  Honest(g, r, row)'
  BY UploadingKeeps DEF Honest, Fits, Uploading

LEMMA PendingStays ==
  ASSUME WorldOK, WorldOK', Uploading, NEW g \in Hosts, NEW r \in Sources,
         PendingSafe(g, r), pending'[g][r] = pending[g][r]
  PROVE  PendingSafe(g, r)'
  BY UploadingKeeps DEF PendingSafe, Fits, Uploading

LEMMA RunStays ==
  ASSUME WorldOK, WorldOK', PlaceOK, Uploading, NEW g \in Hosts, RunSafe(g),
         pc'[g] = pc[g], source'[g] = source[g], pending'[g] = pending[g],
         queue'[g] = queue[g], stored'[g] = stored[g]
  PROVE  RunSafe(g)'
<1>1. CASE pc[g] \notin {"files", "persist", "store"}
  BY <1>1, UploadingKeeps DEF RunSafe
<1>2. CASE pc[g] \in {"files", "persist", "store"}
  <2>1. source[g] \in Sources
    BY <1>2 DEF PlaceOK
  <2>. QED
    BY <1>2, <2>1, UploadingKeeps DEF RunSafe, IsPending, Uploading
<1>. QED
  BY <1>1, <1>2

\* The invariant survives a step of h that keeps the rows if h's own part does.
LEMMA RunInv ==
  ASSUME ImportInv, TypeOK', Uploading, UNCHANGED <<checkpoint, late>>,
         NEW h \in Hosts,
         \A g \in Hosts \ {h} :
           /\ pc'[g] = pc[g] /\ source'[g] = source[g] /\ pending'[g] = pending[g]
           /\ queue'[g] = queue[g] /\ stored'[g] = stored[g],
         \A s \in Sources : \/ pending'[h][s] = pending[h][s]
                            \/ pending'[h][s] = NotPending
                            \/ PendingSafe(h, s)',
         RunSafe(h)'
  PROVE  ImportInv'
<1>0. WorldOK /\ WorldOK' /\ PlaceOK
  BY TypeParts DEF ImportInv
<1>1. CheckpointsHonest'
  BY <1>0, HonestStays DEF ImportInv, CheckpointsHonest
<1>2. LateHonest'
  BY <1>0, HonestStays DEF ImportInv, LateHonest
<1>3. ASSUME NEW g \in Hosts, NEW s \in Sources
      PROVE  PendingSafe(g, s)'
  <2>1. CASE pending'[g][s] = pending[g][s]
    BY <1>0, <2>1, PendingStays DEF ImportInv
  <2>2. CASE pending'[g][s] = NotPending
    <3>1. MaxTime + 1 \notin 1 .. MaxTime
      BY ImportAssumption
    <3>. QED
      BY <2>2, <3>1 DEF PendingSafe, NotPending, Fits
  <2>. QED
    BY <2>1, <2>2
<1>4. \A g \in Hosts : RunSafe(g)'
  BY <1>0, RunStays DEF ImportInv
<1>. QED
  BY <1>1, <1>2, <1>3, <1>4 DEF ImportInv

LEMMA Outside ==
  ASSUME NEW h \in Hosts, pc'[h] \notin {"files", "persist", "store", "adopt", "baseline"}
  PROVE  RunSafe(h)'
  BY DEF RunSafe

\* The steps of a run that read and write nothing but its own locals.
Local(h) ==
  /\ UNCHANGED <<file, uploaded, checkpoint, late>>
  /\ \A g \in Hosts \ {h} :
       /\ pc'[g] = pc[g] /\ source'[g] = source[g] /\ pending'[g] = pending[g]
       /\ queue'[g] = queue[g] /\ stored'[g] = stored[g]

LEMMA LocalInv ==
  ASSUME ImportInv, TypeOK', NEW h \in Hosts, Local(h),
         \A s \in Sources : \/ pending'[h][s] = pending[h][s]
                            \/ pending'[h][s] = NotPending
                            \/ PendingSafe(h, s)',
         RunSafe(h)'
  PROVE  ImportInv'
<1>1. Uploading
  BY TypeParts DEF ImportInv, WorldOK, Local, Uploading
<1>. QED
  BY <1>1, RunInv DEF Local

LEMMA Dropped ==
  ASSUME LocalsOK, PlaceOK, NEW h \in Hosts, DropRun(h)
  PROVE  /\ \A s \in Sources : pending'[h][s] = NotPending
         /\ \A g \in Hosts \ {h} :
              /\ source'[g] = source[g] /\ pending'[g] = pending[g]
              /\ queue'[g] = queue[g] /\ stored'[g] = stored[g]
  BY DEF DropRun, LocalsOK, PlaceOK, NonePending

LEMMA CompareInv ==
  ASSUME ImportInv, TypeOK', NEW h \in Hosts, Compare(h)
  PROVE  ImportInv'
<1>0. WorldOK /\ PlaceOK /\ LocalsOK
  BY TypeParts DEF ImportInv
<1>1. PICK s \in Sources : s = source[h]
  BY <1>0 DEF Compare, PlaceOK
<1>12. PICK before : before = checkpoint[CheckpointKey[h][s]]
  OBVIOUS
<1>2. Local(h)
  BY <1>0 DEF Compare, Local, env, PlaceOK, LocalsOK
<1>3. pc'[h] = "fingerprint"
  BY <1>0 DEF Compare, PlaceOK
<1>4. \A r \in Sources \ {s} : pending'[h][r] = pending[h][r]
  BY <1>0, <1>1 DEF Compare, LocalsOK
<1>5. \/ pending'[h][s] = [pending[h][s] EXCEPT !.previous = 0]
      \/ pending'[h][s] = NotPending
      \/ /\ before # NoCheckpoint
         /\ pending'[h][s] = [pending[h][s] EXCEPT !.previous = before.updated]
  BY <1>0, <1>1, <1>12 DEF Compare, LocalsOK
<1>6. pending[h][s] \in [fingerprint : Fingerprints, previous : 0 .. MaxTime + 1]
  BY <1>0, <1>1 DEF LocalsOK
<1>7. Fingerprint(h, s)' = Fingerprint(h, s)
  BY <1>2 DEF Local, Fingerprint
<1>8. Fits(h, s, pending[h][s].fingerprint)
  BY <1>1 DEF ImportInv, PendingSafe
<1>9. CASE pending'[h][s] = [pending[h][s] EXCEPT !.previous = 0]
  <2>1. PendingSafe(h, s)'
    BY <1>2, <1>6, <1>8, <1>9 DEF PendingSafe, Fits, Local
  <2>. QED
    BY <1>2, <1>3, <1>4, <2>1, Outside, LocalInv
<1>10. CASE pending'[h][s] = NotPending
  BY <1>2, <1>3, <1>4, <1>10, Outside, LocalInv
<1>11. CASE /\ before # NoCheckpoint
            /\ pending'[h][s] = [pending[h][s] EXCEPT !.previous = before.updated]
  <2>1. Honest(h, s, before)
    BY <1>1, <1>11, <1>12 DEF ImportInv, CheckpointsHonest
  <2>2. /\ pending'[h][s].fingerprint = pending[h][s].fingerprint
        /\ pending'[h][s].previous = before.updated
    BY <1>6, <1>11
  <2>3. \A f \in FilesOf[s] : Behind(h, f)' <=> Behind(h, f)
    BY <1>2 DEF Behind, Local
  <2>4. PendingSafe(h, s)'
    BY <1>2, <1>8, <2>1, <2>2, <2>3 DEF PendingSafe, Fits, Honest, Local
  <2>. QED
    BY <1>2, <1>3, <1>4, <2>4, Outside, LocalInv
<1>. QED
  BY <1>5, <1>9, <1>10, <1>11

\* What is left of a source that can be imported is among the files to import.
LEMMA LeftIsWanted ==
  ASSUME TypeOK, NEW h \in Hosts, NEW s \in Sources, PendingSafe(h, s),
         IsPending(h, s), pending[h][s].fingerprint = Fingerprint(h, s),
         NEW f \in FilesOf[s], Behind(h, f)
  PROVE  Format[s] = "whole" \/ ShouldImportFile(h, s, f)
<1>1. pending[h][s].previous \in 0 .. MaxTime + 1 /\ pending[h][s].previous <= MaxTime
  BY DEF TypeOK, IsPending
<1>2. pending[h][s].previous = 0 \/ pending[h][s].previous \in 1 .. MaxTime
  BY <1>1, ImportAssumption
<1>. QED
  BY <1>2 DEF PendingSafe, ShouldImportFile

LEMMA OpenInv ==
  ASSUME ImportInv, TypeOK', NEW h \in Hosts, Open(h)
  PROVE  ImportInv'
<1>0. WorldOK /\ PlaceOK /\ LocalsOK
  BY TypeParts DEF ImportInv
<1>1. PICK s \in Sources : s = source[h]
  BY DEF Open
<1>2. Local(h) /\ UNCHANGED <<pending, source>> /\ IsPending(h, s)
  BY <1>0, <1>1 DEF Open, Local, env, PlaceOK, LocalsOK
<1>3. pc'[h] = "files"
  BY <1>0 DEF Open, PlaceOK
<1>4. queue'[h] = IF Format[s] = "codex_tree"
                  THEN {f \in FilesOf[s] : file[h][f].len > 0 /\ ShouldImportFile(h, s, f)}
                  ELSE {f \in FilesOf[s] : file[h][f].len > 0}
  BY <1>0, <1>1 DEF Open, LocalsOK
<1>5. ASSUME pending[h][s].fingerprint = Fingerprint(h, s),
             NEW f \in FilesOf[s], Behind(h, f)
      PROVE  f \in queue'[h]
  <2>1. file[h][f].len > 0
    BY <1>0, <1>1, <1>5, KeyType DEF Behind, WorldOK
  <2>2. Format[s] = "whole" \/ ShouldImportFile(h, s, f)
    BY <1>1, <1>2, <1>5, LeftIsWanted DEF ImportInv
  <2>. QED
    BY <1>4, <2>1, <2>2
<1>6. RunSafe(h)'
  <2>1. /\ Fingerprint(h, s)' = Fingerprint(h, s)
        /\ \A f \in FilesOf[s] : Behind(h, f)' <=> Behind(h, f)
        /\ IsPending(h, s)'
    BY <1>2 DEF Local, Fingerprint, Behind, IsPending
  <2>. QED
    BY <1>1, <1>2, <1>3, <1>5, <2>1 DEF RunSafe
<1>. QED
  BY <1>2, <1>6, LocalInv

LEMMA ReadInv ==
  ASSUME ImportInv, TypeOK', NEW h \in Hosts, Read(h)
  PROVE  ImportInv'
<1>0. WorldOK /\ PlaceOK /\ LocalsOK
  BY TypeParts DEF ImportInv
<1>1. PICK s \in Sources : s = source[h]
  BY <1>0 DEF Read, PlaceOK
<1>2. Local(h) /\ UNCHANGED <<pending, source>>
  BY <1>0 DEF Read, Local, env, PlaceOK, LocalsOK
<1>3. IsPending(h, s)
  BY <1>1 DEF ImportInv, RunSafe, Read
<1>4. /\ pc'[h] = IF Wanted(h) = {} THEN "files" ELSE "persist"
      /\ queue'[h] = queue[h] \ NextFiles(h)
      /\ stored'[h] = [f \in Wanted(h) |-> file[h][f].len]
  BY <1>0 DEF Read, PlaceOK, LocalsOK
<1>5. ASSUME pending[h][s].fingerprint = Fingerprint(h, s),
             NEW f \in FilesOf[s], Behind(h, f)
      PROVE  f \in queue'[h] \/ f \in Wanted(h)
  <2>1. f \in queue[h]
    BY <1>1, <1>5 DEF ImportInv, RunSafe, Read
  <2>2. Format[s] = "whole" \/ ShouldImportFile(h, s, f)
    BY <1>1, <1>3, <1>5, LeftIsWanted DEF ImportInv
  <2>. QED
    BY <1>1, <1>4, <2>1, <2>2 DEF Wanted
<1>6. RunSafe(h)'
  <2>1. /\ Fingerprint(h, s)' = Fingerprint(h, s)
        /\ \A f \in FilesOf[s] : Behind(h, f)' <=> Behind(h, f)
        /\ IsPending(h, s)'
        /\ UNCHANGED file
    BY <1>2, <1>3 DEF Local, Fingerprint, Behind, IsPending
  <2>2. \A f \in Wanted(h) : f \in DOMAIN stored'[h] /\ stored'[h][f] = file'[h][f].len
    BY <1>4, <2>1
  <2>3. CASE Wanted(h) = {}
    BY <1>1, <1>2, <1>4, <1>5, <2>1, <2>3 DEF RunSafe
  <2>4. CASE Wanted(h) # {}
    BY <1>1, <1>2, <1>4, <1>5, <2>1, <2>2, <2>4 DEF RunSafe
  <2>. QED
    BY <2>3, <2>4
<1>. QED
  BY <1>2, <1>6, LocalInv

LEMMA PersistInv ==
  ASSUME ImportInv, TypeOK', NEW h \in Hosts, Persist(h)
  PROVE  ImportInv'
<1>0. WorldOK /\ WorldOK' /\ PlaceOK /\ LocalsOK
  BY TypeParts DEF ImportInv
<1>1. PICK s \in Sources : s = source[h]
  BY <1>0 DEF Persist, PlaceOK
<1>2. Uploading /\ \A f \in DOMAIN stored[h] : uploaded'[h][f] >= stored[h][f]
  BY <1>0, UploadType DEF Persist, Uploading, env
<1>3. UNCHANGED <<pending, source, queue, checkpoint, late>> /\ pc'[h] = "files"
  BY <1>0 DEF Persist, PlaceOK
<1>4. ASSUME pending[h][s].fingerprint = Fingerprint(h, s),
             NEW f \in FilesOf[s], Behind(h, f)'
      PROVE  f \in queue[h]
  <2>1. Behind(h, f)
    BY <1>0, <1>2, <1>4, UploadingKeeps
  <2>2. f \in queue[h] \/ (f \in DOMAIN stored[h] /\ stored[h][f] = file[h][f].len)
    BY <1>1, <1>4, <2>1 DEF ImportInv, RunSafe, Persist
  <2>3. /\ f \in Files /\ file[h][f].len \in Nat /\ UNCHANGED file
        /\ uploaded'[h][f] \in Nat
    BY <1>0, <1>1, <1>2, KeyType DEF WorldOK, Uploading
  <2>. QED
    BY <1>2, <1>4, <2>2, <2>3 DEF Behind
<1>5. RunSafe(h)'
  <2>1. Fingerprint(h, s)' = Fingerprint(h, s) /\ IsPending(h, s)'
    BY <1>0, <1>1, <1>2, <1>3, UploadingKeeps DEF ImportInv, RunSafe, Persist, IsPending
  <2>. QED
    BY <1>1, <1>3, <1>4, <2>1 DEF RunSafe
<1>6. \A g \in Hosts \ {h} :
        /\ pc'[g] = pc[g] /\ source'[g] = source[g] /\ pending'[g] = pending[g]
        /\ queue'[g] = queue[g] /\ stored'[g] = stored[g]
  BY <1>0 DEF Persist, PlaceOK, LocalsOK
<1>. QED
  BY <1>2, <1>3, <1>5, <1>6, RunInv

LEMMA CompleteInv ==
  ASSUME ImportInv, TypeOK', NEW h \in Hosts, Complete(h)
  PROVE  ImportInv'
<1>0. WorldOK /\ PlaceOK /\ LocalsOK
  BY TypeParts DEF ImportInv
<1>1. PICK s \in Sources : s = source[h]
  BY <1>0 DEF Complete, PlaceOK
<1>2. Local(h)
  <2>1. /\ \/ pc' = [pc EXCEPT ![h] = "store"]
           \/ pc' = [pc EXCEPT ![h] = "next"]
        /\ UNCHANGED source \/ source' = [source EXCEPT ![h] = @ + 1]
        /\ UNCHANGED pending \/ pending' = [pending EXCEPT ![h][s] = NotPending]
    BY <1>1 DEF Complete
  <2>. QED
    BY <1>0, <2>1 DEF Complete, Local, env, PlaceOK, LocalsOK
<1>3. CASE Fingerprint(h, s) = pending[h][s].fingerprint
  <2>1. pc'[h] = "store" /\ UNCHANGED <<source, pending>>
    BY <1>0, <1>1, <1>3 DEF Complete, PlaceOK
  <2>2. \A f \in FilesOf[s] : ~Behind(h, f)
    BY <1>1, <1>3 DEF ImportInv, RunSafe, Complete
  <2>3. IsPending(h, s)
    BY <1>1 DEF ImportInv, RunSafe, Complete
  <2>4. RunSafe(h)'
    BY <1>1, <1>2, <2>1, <2>2, <2>3 DEF RunSafe, Local, Behind, IsPending
  <2>. QED
    BY <1>2, <2>1, <2>4, LocalInv
<1>4. CASE Fingerprint(h, s) # pending[h][s].fingerprint
  <2>1. pc'[h] = "next" /\ pending' = [pending EXCEPT ![h][s] = NotPending]
    BY <1>0, <1>1, <1>4 DEF Complete, PlaceOK
  <2>2. \A r \in Sources : pending'[h][r] = pending[h][r] \/ pending'[h][r] = NotPending
    BY <1>0, <1>1, <2>1 DEF LocalsOK
  <2>. QED
    BY <1>2, <2>1, <2>2, Outside, LocalInv
<1>. QED
  BY <1>3, <1>4

LEMMA StoreInv ==
  ASSUME OwnKeys, ImportInv, TypeOK', NEW h \in Hosts, Store(h)
  PROVE  ImportInv'
<1>0. WorldOK /\ WorldOK' /\ PlaceOK /\ LocalsOK
  BY TypeParts DEF ImportInv
<1>1. PICK s \in Sources : s = source[h]
  BY <1>0 DEF Store, PlaceOK
<1>2. PICK row : row = [fingerprint |-> pending[h][s].fingerprint, updated |-> clock]
  OBVIOUS
<1>3. checkpoint' = [checkpoint EXCEPT ![CheckpointKey[h][s]] = row]
  BY <1>1, <1>2 DEF Store
<1>4. Uploading
  BY <1>0 DEF Store, env, Uploading, WorldOK
<1>5. Honest(h, s, row)
  <2>1. \A f \in FilesOf[s] : ~Behind(h, f)
    BY <1>1 DEF ImportInv, RunSafe, Store
  <2>2. Fits(h, s, row.fingerprint)
    BY <1>1, <1>2 DEF ImportInv, PendingSafe
  <2>. QED
    BY <2>1, <2>2 DEF Honest
<1>6. CheckpointsHonest'
  <2> SUFFICES ASSUME NEW g \in Hosts, NEW r \in Sources,
                      checkpoint'[CheckpointKey[g][r]] # NoCheckpoint
               PROVE  Honest(g, r, checkpoint[CheckpointKey[g][r]])'
    BY DEF CheckpointsHonest
  <2>1. CheckpointKey[g][r] \in CheckpointKeys /\ CheckpointKey[h][s] \in CheckpointKeys
    BY <1>1, KeyType
  <2>2. CASE g = h /\ r = s
    <3>1. checkpoint'[CheckpointKey[g][r]] = row
      BY <1>0, <1>3, <2>1, <2>2 DEF WorldOK
    <3>. QED
      BY <1>0, <1>4, <1>5, <2>2, <3>1, HonestStays
  <2>3. CASE g # h \/ r # s
    <3>0. PICK old : old = checkpoint[CheckpointKey[g][r]]
      OBVIOUS
    <3>1. checkpoint'[CheckpointKey[g][r]] = old
      BY <1>0, <1>1, <1>3, <2>1, <2>3, <3>0 DEF WorldOK, OwnKeys
    <3>2. Honest(g, r, old)
      BY <3>0, <3>1 DEF ImportInv, CheckpointsHonest
    <3>. QED
      BY <1>0, <1>4, <3>1, <3>2, HonestStays
  <2>. QED
    BY <2>2, <2>3
<1>7. LateHonest'
  BY <1>0, <1>4, HonestStays DEF ImportInv, LateHonest, Store
<1>8. \A g \in Hosts : \A r \in Sources :
        pending'[g][r] = pending[g][r] \/ pending'[g][r] = NotPending
  BY <1>0, <1>1 DEF Store, LocalsOK
<1>9. ASSUME NEW g \in Hosts, NEW r \in Sources
      PROVE  PendingSafe(g, r)'
  <2>1. MaxTime + 1 \notin 1 .. MaxTime
    BY ImportAssumption
  <2>2. CASE pending'[g][r] = pending[g][r]
    BY <1>0, <1>4, <2>2, PendingStays DEF ImportInv
  <2>3. CASE pending'[g][r] = NotPending
    BY <2>1, <2>3 DEF PendingSafe, NotPending, Fits
  <2>. QED
    BY <1>8, <2>2, <2>3
<1>10. ASSUME NEW g \in Hosts
       PROVE  RunSafe(g)'
  <2>1. CASE g = h
    <3>1. pc'[h] = IF pc[h] = "store" THEN "next" ELSE "adopt"
      BY <1>0 DEF Store, PlaceOK
    <3>2. CASE pc[h] = "store"
      BY <2>1, <3>1, <3>2, Outside
    <3>3. CASE pc[h] = "baseline"
      <4>1. \A r \in Sources : \A f \in FilesOf[r] : ~Behind(h, f)'
        BY <1>0, <1>4, <3>3, UploadingKeeps DEF ImportInv, RunSafe
      <4>. QED
        BY <2>1, <3>1, <3>3, <4>1 DEF RunSafe
    <3>. QED
      BY <3>2, <3>3 DEF Store
  <2>2. CASE g # h
    <3>1. /\ pc'[g] = pc[g] /\ source'[g] = source[g] /\ pending'[g] = pending[g]
          /\ queue'[g] = queue[g] /\ stored'[g] = stored[g]
      BY <1>0, <2>2 DEF Store, PlaceOK, LocalsOK
    <3>. QED
      BY <1>0, <1>4, <3>1, RunStays DEF ImportInv
  <2>. QED
    BY <2>1, <2>2
<1>. QED
  BY <1>6, <1>7, <1>9, <1>10 DEF ImportInv

LEMMA DeliverInv ==
  ASSUME OwnKeys, ImportInv, TypeOK', NEW h \in Hosts, DeliverLate(h)
  PROVE  ImportInv'
<1>0. WorldOK /\ WorldOK' /\ PlaceOK /\ LocalsOK
  BY TypeParts DEF ImportInv
<1>1. PICK w \in late[h] :
        /\ checkpoint' = [checkpoint EXCEPT ![w.key] =
             [fingerprint |-> w.fingerprint, updated |-> w.updated]]
        /\ late' = [late EXCEPT ![h] = @ \ {w}]
  BY DEF DeliverLate
<1>2. Uploading
  BY <1>0 DEF DeliverLate, env, Uploading, WorldOK
<1>3. CheckpointsHonest'
  <2> SUFFICES ASSUME NEW g \in Hosts, NEW r \in Sources,
                      checkpoint'[CheckpointKey[g][r]] # NoCheckpoint
               PROVE  Honest(g, r, checkpoint[CheckpointKey[g][r]])'
    BY DEF CheckpointsHonest
  <2>1. CheckpointKey[g][r] \in CheckpointKeys
    BY KeyType
  <2>2. CASE w.key = CheckpointKey[g][r]
    <3>1. Honest(g, r, w)
      BY <1>1, <2>2 DEF ImportInv, LateHonest
    <3>2. PICK row : row = [fingerprint |-> w.fingerprint, updated |-> w.updated]
      OBVIOUS
    <3>3. Honest(g, r, row)
      BY <3>1, <3>2 DEF Honest
    <3>4. checkpoint'[CheckpointKey[g][r]] = row
      BY <1>0, <1>1, <2>1, <2>2, <3>2 DEF WorldOK
    <3>. QED
      BY <1>0, <1>2, <3>3, <3>4, HonestStays
  <2>3. CASE w.key # CheckpointKey[g][r]
    <3>0. PICK old : old = checkpoint[CheckpointKey[g][r]]
      OBVIOUS
    <3>1. checkpoint'[CheckpointKey[g][r]] = old
      BY <1>0, <1>1, <2>1, <2>3, <3>0 DEF WorldOK
    <3>2. Honest(g, r, old)
      BY <3>0, <3>1 DEF ImportInv, CheckpointsHonest
    <3>. QED
      BY <1>0, <1>2, <3>1, <3>2, HonestStays
  <2>. QED
    BY <2>2, <2>3
<1>4. LateHonest'
  <2>1. \A k \in Hosts : late'[k] \subseteq late[k]
    BY <1>0, <1>1 DEF WorldOK
  <2>. QED
    BY <1>0, <1>2, <2>1, HonestStays DEF ImportInv, LateHonest
<1>5. \A g \in Hosts : \A r \in Sources : PendingSafe(g, r)'
  BY <1>0, <1>2, PendingStays DEF ImportInv, DeliverLate, runvars
<1>6. \A g \in Hosts : RunSafe(g)'
  BY <1>0, <1>2, RunStays DEF ImportInv, DeliverLate, runvars
<1>. QED
  BY <1>3, <1>4, <1>5, <1>6 DEF ImportInv

LEMMA FailureInv ==
  ASSUME OwnKeys, ImportInv, TypeOK', NEW h \in Hosts,
         RemoteFailure(h) \/ AdoptFails(h)
  PROVE  ImportInv'
<1>0. WorldOK /\ WorldOK' /\ PlaceOK /\ LocalsOK
  BY TypeParts DEF ImportInv
<1>1. MayArriveLate(h)
  BY DEF RemoteFailure, AdoptFails
<1>2. Uploading
  <2>1. CASE pc[h] = "persist"
    BY <1>0, <2>1, UploadType DEF RemoteFailure, AdoptFails, EndRun, env, Uploading
  <2>2. CASE pc[h] # "persist"
    BY <1>0, <2>2 DEF RemoteFailure, AdoptFails, EndRun, env, Uploading, WorldOK
  <2>. QED
    BY <2>1, <2>2
<1>3. DropRun(h) /\ UNCHANGED checkpoint
  BY DEF RemoteFailure, AdoptFails, EndRun
<1>4. /\ pc'[h] \in {"idle", "stopped"}
      /\ \A g \in Hosts \ {h} : pc'[g] = pc[g]
  BY <1>0 DEF RemoteFailure, AdoptFails, EndRun, PlaceOK
<1>5. CheckpointsHonest'
  BY <1>0, <1>2, <1>3, HonestStays DEF ImportInv, CheckpointsHonest
<1>6. LateHonest'
  <2> SUFFICES ASSUME NEW k \in Hosts, NEW g \in Hosts, NEW r \in Sources,
                      NEW w \in late'[k], w.key = CheckpointKey[g][r]
               PROVE  g = k /\ Honest(k, r, w)'
    BY DEF LateHonest
  <2>1. CASE w \in late[k]
    <3>1. g = k /\ Honest(k, r, w)
      BY <2>1 DEF ImportInv, LateHonest
    <3>. QED
      BY <1>0, <1>2, <3>1, HonestStays
  <2>2. CASE w \notin late[k]
    <3>0. pc[h] \in {"store", "baseline"}
      BY <1>1, <2>2 DEF MayArriveLate
    <3>7. PICK s \in Sources : s = source[h]
      BY <1>0, <3>0 DEF PlaceOK
    <3>1. late' = [late EXCEPT ![h] = @ \cup
               {[key |-> CheckpointKey[h][s],
                 fingerprint |-> pending[h][s].fingerprint, updated |-> clock]}]
      BY <1>1, <2>2, <3>7 DEF MayArriveLate
    <3>2. k = h /\ w = [key |-> CheckpointKey[h][s],
                        fingerprint |-> pending[h][s].fingerprint, updated |-> clock]
      BY <1>0, <2>2, <3>1 DEF WorldOK
    <3>3. g = h /\ r = s
      BY <3>2 DEF OwnKeys
    <3>4. \A f \in FilesOf[s] : ~Behind(h, f)
      BY <3>0, <3>7 DEF ImportInv, RunSafe
    <3>5. Fits(h, s, w.fingerprint)
      BY <3>2 DEF ImportInv, PendingSafe
    <3>6. Honest(h, s, w)
      BY <3>4, <3>5 DEF Honest
    <3>. QED
      BY <1>0, <1>2, <3>2, <3>3, <3>6, HonestStays
  <2>. QED
    BY <2>1, <2>2
<1>7. /\ \A r \in Sources : pending'[h][r] = NotPending
      /\ \A g \in Hosts \ {h} :
           /\ source'[g] = source[g] /\ pending'[g] = pending[g]
           /\ queue'[g] = queue[g] /\ stored'[g] = stored[g]
  BY <1>0, <1>3, Dropped
<1>8. ASSUME NEW g \in Hosts, NEW r \in Sources
      PROVE  PendingSafe(g, r)'
  <2>1. MaxTime + 1 \notin 1 .. MaxTime
    BY ImportAssumption
  <2>2. CASE g # h
    <3>1. pending'[g][r] = pending[g][r]
      BY <1>7, <2>2
    <3>. QED
      BY <1>0, <1>2, <3>1, PendingStays DEF ImportInv
  <2>3. CASE g = h
    BY <1>7, <2>1, <2>3 DEF PendingSafe, NotPending, Fits
  <2>. QED
    BY <2>2, <2>3
<1>9. ASSUME NEW g \in Hosts
      PROVE  RunSafe(g)'
  <2>1. CASE g = h
    BY <1>4, <2>1, Outside
  <2>2. CASE g # h
    BY <1>0, <1>2, <1>4, <1>7, <2>2, RunStays DEF ImportInv
  <2>. QED
    BY <2>1, <2>2
<1>. QED
  BY <1>5, <1>6, <1>8, <1>9 DEF ImportInv

\* Steps after which h is at no source, and has the checkpoints it had.
LEMMA OutsideInv ==
  ASSUME ImportInv, TypeOK', NEW h \in Hosts,
         \/ Start(h) \/ Inventory(h) \/ Skip(h) \/ SourceFailure(h)
         \/ Succeed(h) \/ TreeFailure(h) \/ Restart(h) \/ Adopted(h)
  PROVE  ImportInv'
<1>0. WorldOK /\ PlaceOK /\ LocalsOK
  BY TypeParts DEF ImportInv
<1>. USE DEF env, runvars
<1>1. CASE Start(h) \/ Inventory(h) \/ SourceFailure(h)
  <2>1. /\ Local(h)
        /\ UNCHANGED pending
        /\ pc'[h] \in {"fingerprint", "next"}
    BY <1>0, <1>1 DEF Start, Inventory, SourceFailure, Local, PlaceOK, LocalsOK
  <2>. QED
    BY <2>1, Outside, LocalInv
<1>2. CASE Skip(h)
  <2>1. /\ Local(h)
        /\ UNCHANGED pending
        /\ pc'[h] = "next"
    BY <1>0, <1>2 DEF Skip, Local, PlaceOK, LocalsOK
  <2>. QED
    BY <2>1, Outside, LocalInv
<1>3. CASE Succeed(h) \/ TreeFailure(h) \/ Restart(h) \/ Adopted(h)
  <2>1. DropRun(h) /\ UNCHANGED <<file, uploaded, checkpoint, late>>
    BY <1>3 DEF Succeed, TreeFailure, EndRun, Restart, Adopted
  <2>2. /\ pc'[h] \in {"idle", "stopped"}
        /\ \A g \in Hosts \ {h} : pc'[g] = pc[g]
    BY <1>0, <1>3 DEF Succeed, TreeFailure, EndRun, Restart, Adopted, PlaceOK
  <2>3. Local(h) /\ \A s \in Sources : pending'[h][s] = NotPending
    BY <1>0, <2>1, <2>2, Dropped DEF Local
  <2>. QED
    BY <2>2, <2>3, Outside, LocalInv
<1>. QED
  BY <1>1, <1>2, <1>3

LEMMA FingerprintInv ==
  ASSUME ImportInv, TypeOK', NEW h \in Hosts, TakeFingerprint(h)
  PROVE  ImportInv'
<1>0. WorldOK /\ PlaceOK /\ LocalsOK
  BY TypeParts DEF ImportInv
<1>1. PICK s \in Sources : s = source[h]
  BY DEF TakeFingerprint
<1>2. Local(h) /\ pc'[h] = "compare"
  BY <1>0 DEF TakeFingerprint, Local, env, PlaceOK, LocalsOK
<1>3. \A r \in Sources \ {s} : pending'[h][r] = pending[h][r]
  BY <1>0, <1>1 DEF TakeFingerprint, LocalsOK
<1>4. pending'[h][s] = [fingerprint |-> Fingerprint(h, s), previous |-> MaxTime + 1]
  BY <1>0, <1>1 DEF TakeFingerprint, LocalsOK
<1>5. PendingSafe(h, s)'
  <2>1. Fits(h, s, pending'[h][s].fingerprint)
    BY <1>0, <1>4, PrintType
  <2>2. UNCHANGED file
    BY <1>2 DEF Local
  <2>3. pending'[h][s].previous \notin 1 .. MaxTime
    BY <1>4, ImportAssumption
  <2>. QED
    BY <2>1, <2>2, <2>3 DEF PendingSafe, Fits
<1>. QED
  BY <1>2, <1>3, <1>5, Outside, LocalInv

\* Whoever adopts a snapshot has everything in the database.
LEMMA AdoptInv ==
  ASSUME AdoptsWhole, ImportInv, TypeOK', NEW h \in Hosts, Adopt(h)
  PROVE  ImportInv'
<1>0. WorldOK /\ PlaceOK /\ LocalsOK
  BY TypeParts DEF ImportInv
<1>1. Local(h) /\ UNCHANGED pending /\ pc'[h] = "adopt"
  BY <1>0 DEF Adopt, Local, env, PlaceOK, LocalsOK
<1>2. \A r \in Sources : \A f \in FilesOf[r] : uploaded[h][f] = file[h][f].len
  BY KeyType DEF Adopt
<1>3. \A r \in Sources : \A f \in FilesOf[r] : ~Behind(h, f)'
  BY <1>0, <1>1, <1>2, KeyType DEF Local, Behind, WorldOK
<1>4. RunSafe(h)'
  BY <1>1, <1>3 DEF RunSafe
<1>. QED
  BY <1>1, <1>4, LocalInv

LEMMA AdoptSourceInv ==
  ASSUME ImportInv, TypeOK', NEW h \in Hosts, AdoptSource(h)
  PROVE  ImportInv'
<1>0. WorldOK /\ PlaceOK /\ LocalsOK
  BY TypeParts DEF ImportInv
<1>1. PICK s \in Sources : s = source[h]
  BY DEF AdoptSource
<1>2. Local(h) /\ pc'[h] = "baseline"
  BY <1>0 DEF AdoptSource, Local, env, PlaceOK, LocalsOK
<1>3. \A r \in Sources \ {s} : pending'[h][r] = pending[h][r]
  BY <1>0, <1>1 DEF AdoptSource, LocalsOK
<1>4. pending'[h][s] = [fingerprint |-> Fingerprint(h, s), previous |-> 0]
  BY <1>0, <1>1 DEF AdoptSource, LocalsOK
<1>5. PendingSafe(h, s)'
  <2>1. Fits(h, s, pending'[h][s].fingerprint)
    BY <1>0, <1>4, PrintType
  <2>2. UNCHANGED file
    BY <1>2 DEF Local
  <2>3. pending'[h][s].previous \notin 1 .. MaxTime
    BY <1>4, ImportAssumption
  <2>. QED
    BY <2>1, <2>2, <2>3 DEF PendingSafe, Fits
<1>6. RunSafe(h)'
  <2>1. \A r \in Sources : \A f \in FilesOf[r] : ~Behind(h, f)
    BY DEF ImportInv, RunSafe, AdoptSource
  <2>2. \A r \in Sources : \A f \in FilesOf[r] : ~Behind(h, f)'
    BY <1>2, <2>1 DEF Local, Behind
  <2>. QED
    BY <1>2, <2>2 DEF RunSafe
<1>. QED
  BY <1>2, <1>3, <1>5, <1>6, LocalInv

LEMMA AgentInv ==
  ASSUME Honoured, ImportInv, TypeOK', NEW h \in Hosts, Write(h) \/ MoveIn(h)
  PROVE  ImportInv'
<1>0. WorldOK
  BY TypeParts DEF ImportInv
<1>1. PICK s \in Sources : \E f \in FilesOf[s] : \E n, t :
        /\ Grown(h, f, n, t) /\ MayWrite(h, s)
        /\ Format[s] = "whole" \/ t = clock
  <2>1. CASE Write(h)
    <3>1. PICK s \in Sources : \E f \in FilesOf[s] :
            /\ MayWrite(h, s)
            /\ file' = [file EXCEPT ![h][f] = [len |-> @.len + 1, mtime |-> clock]]
      BY <2>1 DEF Write
    <3>2. PICK f \in FilesOf[s] :
            /\ MayWrite(h, s)
            /\ file' = [file EXCEPT ![h][f] = [len |-> @.len + 1, mtime |-> clock]]
      BY <3>1
    <3>3. file[h][f].len \in Nat /\ clock \in 0 .. MaxTime
      BY <1>0, <3>2, KeyType DEF WorldOK
    <3>4. Grown(h, f, file[h][f].len + 1, clock)
      BY <3>2, <3>3 DEF Grown
    <3>. QED
      BY <3>2, <3>4
  <2>2. CASE MoveIn(h)
    <3>1. PICK s \in MovesFiles : \E f \in FilesOf[s] : \E t \in 0 .. clock :
            /\ MayWrite(h, s) /\ file[h][f].len = 0
            /\ file' = [file EXCEPT ![h][f] = [len |-> 1, mtime |-> t]]
      BY <2>2 DEF MoveIn
    <3>2. PICK f \in FilesOf[s] : \E t \in 0 .. clock :
            /\ MayWrite(h, s) /\ file[h][f].len = 0
            /\ file' = [file EXCEPT ![h][f] = [len |-> 1, mtime |-> t]]
      BY <3>1
    <3>3. PICK t \in 0 .. clock :
            /\ MayWrite(h, s) /\ file[h][f].len = 0
            /\ file' = [file EXCEPT ![h][f] = [len |-> 1, mtime |-> t]]
      BY <3>2
    <3>4. t \in 0 .. MaxTime
      BY <1>0, <3>3, ImportAssumption DEF WorldOK
    <3>5. Grown(h, f, 1, t)
      BY <3>3, <3>4 DEF Grown
    <3>6. s \in Sources /\ Format[s] = "whole"
      BY <3>1, ImportAssumption DEF Honoured
    <3>. QED
      BY <3>3, <3>5, <3>6
  <2>. QED
    BY <2>1, <2>2
<1>2. PICK f \in FilesOf[s] : \E n, t :
        /\ Grown(h, f, n, t) /\ MayWrite(h, s)
        /\ Format[s] = "whole" \/ t = clock
  BY <1>1
<1>3. UNCHANGED <<uploaded, checkpoint, late, runvars>>
  BY DEF Write, MoveIn
<1>. QED
  BY <1>2, <1>3, GrownInv

LEMMA InitialImport == Init => ImportInv
<1> SUFFICES ASSUME Init PROVE ImportInv
  OBVIOUS
<1>1. NotPending \in [fingerprint : Fingerprints, previous : 0 .. MaxTime + 1]
  BY ImportAssumption DEF NotPending, Fingerprints
<1>2. WorldOK
  <2>1. PICK owner \in Hosts, snapshot \in Imported :
          uploaded = [h \in Hosts |-> [f \in Files |->
                        IF h = owner /\ f \in snapshot THEN MaxLen[f] ELSE 0]]
    BY DEF Init
  <2>2. uploaded \in [Hosts -> [Files -> Nat]]
    BY <2>1, ImportAssumption
  <2>. QED
    BY <2>2, ImportAssumption DEF Init, WorldOK
<1>3. PlaceOK
  BY ImportAssumption DEF Init, PlaceOK, States
<1>4. LocalsOK
  BY <1>1 DEF Init, LocalsOK, NonePending, Nothing
<1>5. CheckpointsHonest /\ LateHonest
  BY KeyType DEF Init, CheckpointsHonest, LateHonest
<1>6. ASSUME NEW h \in Hosts, NEW s \in Sources
      PROVE  PendingSafe(h, s)
  <2>1. pending[h][s] = NotPending /\ MaxTime + 1 \notin 1 .. MaxTime
    BY ImportAssumption DEF Init, NonePending
  <2>. QED
    BY <2>1 DEF PendingSafe, NotPending, Fits
<1>7. \A h \in Hosts : RunSafe(h)
  BY DEF Init, RunSafe
<1>. QED
  BY <1>2, <1>3, <1>4, <1>5, <1>6, <1>7, TypeParts DEF ImportInv

LEMMA ImportStep ==
  ASSUME Honoured, ImportInv, [Next]_vars
  PROVE  ImportInv'
<1>0. TypeOK'
  BY TypeStep DEF ImportInv
<1>1. CASE Tick \/ UNCHANGED vars
  <2>1. UNCHANGED <<file, uploaded, checkpoint, late, runvars>>
    BY <1>1 DEF Tick, vars, env
  <2>. QED
    BY <1>0, <2>1 DEF ImportInv, CheckpointsHonest, LateHonest, Honest, Fits, Behind,
       Fingerprint, PendingSafe, RunSafe, IsPending, runvars
<1>2. ASSUME NEW h \in Hosts, Run(h)
      PROVE  ImportInv'
  BY <1>0, <1>2, OutsideInv, FingerprintInv, CompareInv, OpenInv, ReadInv,
     PersistInv, CompleteInv, StoreInv, AdoptSourceInv DEF Run, Honoured
<1>3. ASSUME NEW h \in Hosts,
             \/ Write(h) \/ MoveIn(h) \/ Adopt(h) \/ RemoteFailure(h)
             \/ AdoptFails(h) \/ DeliverLate(h) \/ Restart(h)
      PROVE  ImportInv'
  BY <1>0, <1>3, AgentInv, AdoptInv, FailureInv, DeliverInv, OutsideInv DEF Honoured
<1>. QED
  BY <1>1, <1>2, <1>3 DEF Next

-----------------------------------------------------------------------------
(* The theorems. *)

\* Types, of any import, whatever its keys are and agents do.
THEOREM ImportTypeCorrect == Spec => []TypeOK
<1>1. Init => TypeOK
  BY InitialImport DEF ImportInv
<1>2. TypeOK /\ [Next]_vars => TypeOK'
  BY TypeStep
<1>. QED
  BY <1>1, <1>2, PTL DEF Spec

\* Every row, stored or under way, and every run is honest about what is
\* uploaded (run_turso_import_once, turso.rs).
THEOREM ImportInvariance == Honoured => (Spec => []ImportInv)
<1> SUFFICES ASSUME Honoured PROVE Spec => []ImportInv
  OBVIOUS
<1>1. Init => ImportInv
  BY InitialImport
<1>2. ImportInv /\ [Next]_vars => ImportInv'
  BY ImportStep
<1>. QED
  BY <1>1, <1>2, PTL DEF Spec

\* What is not in the database will be imported by the next run: no checkpoint
\* hides it (turso.rs, import_all_providers_in_memory_by_source).
THEOREM NothingLeftBehindAlways == Honoured => (Spec => []NothingLeftBehind)
<1> SUFFICES ASSUME Honoured PROVE Spec => []NothingLeftBehind
  OBVIOUS
<1>1. ImportInv => NothingLeftBehind
  BY DEF ImportInv, CheckpointsHonest, Honest, Behind, NothingLeftBehind
<1>. QED
  BY <1>1, ImportInvariance, PTL
=============================================================================
