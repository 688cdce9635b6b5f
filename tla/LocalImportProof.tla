-------------------------- MODULE LocalImportProof --------------------------
(***************************************************************************)
(* NothingSkipped and CheckpointHonest of LocalImport, for any number of   *)
(* processes, files and crashes, whatever agents do to the files and       *)
(* whenever they do it.                                                    *)
(***************************************************************************)
EXTENDS LocalImport, WellFoundedInduction, TLAPS

\* The lines of a text that are events.
Real(text) == {l \in text : l[2] \notin Noise}

\* The store has the events of the first bytes of a file.
Held(f, bytes) == Real(Prefix(f, bytes)) \subseteq events[f]

\* A version that was seen is not one to come.
Past(f, s) == s.version <= disk[f].version

RowPast(f) == Past(f, row[f].stat) /\ Past(f, row[f].indexed)

\* The text under a checkpoint is in the store, and it is that of the file as
\* long as the version that was indexed is.
RowHonest(f) ==
  /\ f \notin torn => Real(row[f].last.prefix) \subseteq events[f]
  /\ row[f].status = "indexed" =>
       /\ row[f].last.size = row[f].indexed.size
       /\ row[f].indexed.version = disk[f].version /\ f \in Present =>
            /\ row[f].last.size <= Bytes(disk[f])
            /\ row[f].last.prefix = Prefix(f, row[f].last.size)

ProcPast(p) ==
  /\ \A f \in DOMAIN scan[p].stats : Past(f, scan[p].stats[f])
  /\ \A f \in todo[p] \cup whole[p] : Past(f, listed[p][f])

\* The store has what precedes a size that the file has reached.
Reached(f, size) ==
  f \notin torn => Held(f, size) /\ (f \in Present => size <= Bytes(disk[f]))

\* A tail leaves out only what has been imported.
TailFits(p) == pc[p] = "at tail" => Reached(Hand(p), start[p])

\* What is to be marked has been imported.
MarkFits(p) == pc[p] = "to mark" => Reached(Hand(p), listed[p][Hand(p)].size)

ProcFits(p) == ProcPast(p) /\ TailFits(p) /\ MarkFits(p)

LocalInv ==
  /\ TypeOK
  /\ \A f \in Files : RowPast(f) /\ RowHonest(f)
  /\ \A p \in Procs : ProcFits(p)

-----------------------------------------------------------------------------

\* A set of numbers has a least one.
LEMMA NatMin ==
  ASSUME NEW S \in SUBSET Nat, S # {}
  PROVE  \E n \in S : \A k \in S : n <= k
<1> DEFINE R == OpToRel(<, Nat)
<1>1. IsWellFoundedOn(R, Nat) BY Zenon, NatLessThanWellFounded
<1>2. PICK n \in S : \A k \in S : <<k, n>> \notin R BY Zenon, <1>1, WFMin
<1>3. \A k \in S : ~ (k < n) BY Zenon, <1>2 DEF OpToRel
<1> QED BY <1>3

\* The file in hand is one of those to look at or, when there are none, one of
\* those to import whole.
LEMMA HandIn ==
  ASSUME TypeOK, NEW p \in Procs, todo[p] \cup whole[p] # {}
  PROVE  /\ Hand(p) \in Files
         /\ Hand(p) \in todo[p] \cup whole[p]
         /\ todo[p] # {} => Hand(p) \in todo[p]
         /\ todo[p] = {} => Hand(p) \in whole[p]
<1> DEFINE S == IF todo[p] # {} THEN todo[p] ELSE whole[p]
<1>1. S \in SUBSET Files /\ S # {} BY DEF TypeOK
<1>2. S \in SUBSET Nat BY <1>1, ImportAssumption DEF ImportAssumption
<1>3. \E n \in S : \A k \in S : n <= k BY <1>1, <1>2, NatMin
<1>4. Min(S) \in S BY <1>3 DEF Min
<1>5. Hand(p) = Min(S) BY DEF Hand
<1> QED BY <1>1, <1>4, <1>5

Contents == [version : Nat, lines : Nat, half : Half \cup {"no"}, text : Texts]

\* The facts about files and rows that the proofs need.
LEMMA DiskType ==
  ASSUME TypeOK, NEW f \in Files
  PROVE  /\ disk[f].version \in Nat /\ disk[f].lines \in Nat /\ disk[f].text \in Texts
         /\ Bytes(disk[f]) \in Nat
         /\ 2 * disk[f].lines <= Bytes(disk[f])
         /\ disk[f].half = "no" => Bytes(disk[f]) = 2 * disk[f].lines
         /\ f \in Present <=> Bytes(disk[f]) > 0
<1>1. disk[f] \in [version : Nat, lines : Nat, half : Half \cup {"no"}, text : Texts]
  BY DEF TypeOK
<1> QED BY <1>1 DEF Bytes, Present

LEMMA RowType ==
  ASSUME TypeOK, NEW f \in Files
  PROVE  /\ row[f] \in Rows
         /\ row[f].stat \in States /\ row[f].indexed \in States
         /\ row[f].last.size \in Nat /\ row[f].last.prefix \in Texts
  BY DEF TypeOK, Rows

LEMMA PrefixType ==
  ASSUME TypeOK, NEW f \in Files, NEW b
  PROVE  Prefix(f, b) \in Texts
  BY DiskType DEF Prefix, Texts

-----------------------------------------------------------------------------
(* What a step of a process leaves to the others.  It leaves the files alone. *)

Places == {"idle", "scanned", "cataloged", "at work", "at tail", "to mark"}

\* The part of TypeOK that is about one process.
ProcType(p) ==
  /\ DOMAIN scan[p].stats \cup scan[p].missing \subseteq Files
  /\ \A f \in DOMAIN scan[p].stats : scan[p].stats[f] \in States
  /\ \A f \in todo[p] \cup whole[p] : listed[p][f] \in States
  /\ pc[p] \notin {"at work", "at tail", "to mark"} => todo[p] \cup whole[p] = {}
  /\ pc[p] = "at tail" => todo[p] # {}
  /\ pc[p] = "to mark" => todo[p] \cup whole[p] # {}

\* The rest of it.
RowsType == row \in [Files -> Rows]
StoreType ==
  /\ events \in [Files -> SUBSET (Nat \X (Nat \ Noise))]
  /\ root \in [Files -> {"none", "file", "tree"}]
  /\ torn \subseteq Files
SharedType ==
  /\ disk \in [Files -> [version : Nat, lines : Nat, half : Half \cup {"no"}, text : Texts]]
  /\ RowsType /\ StoreType
  /\ lock \in Procs \cup {0}
  /\ pc \in [Procs -> Places]
  /\ todo \in [Procs -> SUBSET Files] /\ whole \in [Procs -> SUBSET Files]
  /\ start \in [Procs -> Nat]
  /\ DOMAIN scan = Procs /\ DOMAIN listed = Procs

LEMMA TypeParts == TypeOK <=> SharedType /\ \A p \in Procs : ProcType(p)
  BY DEF TypeOK, SharedType, RowsType, StoreType, ProcType, Places

Others(p) ==
  \A q \in Procs \ {p} :
    /\ pc'[q] = pc[q] /\ scan'[q] = scan[q] /\ listed'[q] = listed[q]
    /\ todo'[q] = todo[q] /\ whole'[q] = whole[q] /\ start'[q] = start[q]

\* Events are never taken away, and what is torn remains so.
More == torn \subseteq torn' /\ \A f \in Files : events[f] \subseteq events'[f]

\* A row that was honest remains so.
LEMMA SameRow ==
  ASSUME disk' = disk, More, NEW f \in Files, row'[f] = row[f], RowPast(f), RowHonest(f)
  PROVE  RowPast(f)' /\ RowHonest(f)'
  BY DEF RowPast, Past, RowHonest, More, Prefix, Present

\* A process that is not concerned by a step.
LEMMA OtherFits ==
  ASSUME TypeOK, disk' = disk, More, NEW p \in Procs, Others(p),
         NEW q \in Procs \ {p}, ProcFits(q)
  PROVE  ProcType(q)' /\ ProcFits(q)'
<1>1. /\ pc'[q] = pc[q] /\ scan'[q] = scan[q] /\ listed'[q] = listed[q]
      /\ todo'[q] = todo[q] /\ whole'[q] = whole[q] /\ start'[q] = start[q]
  BY DEF Others
<1>2. Hand(q)' = Hand(q) BY <1>1 DEF Hand
<1>3. ProcType(q) /\ ProcType(q)' BY <1>1, TypeParts DEF ProcType
<1>4. ProcPast(q)' BY <1>1 DEF ProcFits, ProcPast, Past
<1>5. ASSUME pc'[q] \in {"at tail", "to mark"}
      PROVE  Hand(q) \in Files
  BY <1>1, <1>3, <1>5, HandIn DEF ProcType
<1>6. TailFits(q)'
  <2> SUFFICES ASSUME pc'[q] = "at tail" PROVE Reached(Hand(q), start[q])'
    BY DEF TailFits
  <2>1. Reached(Hand(q), start[q]) BY <1>1 DEF ProcFits, TailFits
  <2> QED BY <1>1, <1>2, <1>5, <2>1 DEF Reached, Held, More, Prefix, Present
<1>7. MarkFits(q)'
  <2> SUFFICES ASSUME pc'[q] = "to mark" PROVE Reached(Hand(q), listed[q][Hand(q)].size)'
    BY DEF MarkFits
  <2>1. Reached(Hand(q), listed[q][Hand(q)].size) BY <1>1 DEF ProcFits, MarkFits
  <2> QED BY <1>1, <1>2, <1>5, <2>1 DEF Reached, Held, More, Prefix, Present
<1> QED BY <1>3, <1>4, <1>6, <1>7 DEF ProcFits

\* What is left to show of a step of p.
LEMMA StepKeeps ==
  ASSUME LocalInv, disk' = disk, More, NEW p \in Procs, Others(p),
         SharedType', ProcType(p)', ProcFits(p)',
         \A f \in Files : RowPast(f)' /\ RowHonest(f)'
  PROVE  LocalInv'
<1>1. \A q \in Procs \ {p} : ProcType(q)' /\ ProcFits(q)'
  BY OtherFits DEF LocalInv
<1>2. TypeOK'
  BY <1>1, TypeParts DEF TypeOK, SharedType, RowsType, StoreType, ProcType, Places
<1> QED BY <1>1, <1>2 DEF LocalInv

\* Rows and store that do not change keep what they have.
LEMMA SameRows ==
  ASSUME LocalInv, disk' = disk, More, row' = row
  PROVE  RowsType' /\ \A f \in Files : RowPast(f)' /\ RowHonest(f)'
<1>1. RowsType' BY TypeParts DEF LocalInv, RowsType, SharedType
<1> QED BY <1>1, SameRow DEF LocalInv

LEMMA SameStore ==
  ASSUME LocalInv, UNCHANGED <<events, root, torn>>
  PROVE  More /\ StoreType'
  BY TypeParts DEF LocalInv, SharedType, StoreType, More

-----------------------------------------------------------------------------
(* The end of a run and of a file. *)

\* The end of a run keeps what rows and store keep.
LEMMA EndKeeps ==
  ASSUME LocalInv, disk' = disk, More, RowsType', StoreType', NEW p \in Procs,
         Forget(p), pc' = [pc EXCEPT ![p] = "idle"], lock' \in Procs \cup {0},
         scan' = scan \/ scan' = [scan EXCEPT ![p] = Unseen],
         \A f \in Files : RowPast(f)' /\ RowHonest(f)'
  PROVE  LocalInv'
<1>0. TypeOK /\ SharedType /\ ProcType(p) /\ ProcFits(p) BY TypeParts DEF LocalInv
<1>1. /\ listed' = [listed EXCEPT ![p] = <<>>]
      /\ todo' = [todo EXCEPT ![p] = {}]
      /\ whole' = [whole EXCEPT ![p] = {}]
      /\ start' = [start EXCEPT ![p] = 0]
  BY DEF Forget
<1>2. pc'[p] = "idle" /\ pc' \in [Procs -> Places] BY <1>0 DEF SharedType, Places
<1>3. todo'[p] = {} /\ whole'[p] = {} BY <1>0, <1>1 DEF SharedType
<1>4. SharedType'
  <2>1. /\ todo' \in [Procs -> SUBSET Files] /\ whole' \in [Procs -> SUBSET Files]
        /\ start' \in [Procs -> Nat]
        /\ DOMAIN scan' = Procs /\ DOMAIN listed' = Procs
    BY <1>0, <1>1 DEF SharedType
  <2>2. disk' \in [Files -> [version : Nat, lines : Nat, half : Half \cup {"no"}, text : Texts]]
    BY <1>0 DEF SharedType
  <2> QED BY <1>2, <2>1, <2>2 DEF SharedType
<1>5. Others(p) BY <1>0, <1>1 DEF Others, SharedType
<1>6. \/ scan'[p] = scan[p]
      \/ DOMAIN scan'[p].stats = {} /\ scan'[p].missing = {}
  <2>1. scan'[p] = scan[p] \/ scan'[p] = Unseen BY <1>0 DEF SharedType
  <2> QED BY <2>1 DEF Unseen
<1>7. ProcType(p)' BY <1>0, <1>2, <1>3, <1>6 DEF ProcType
<1>8. ProcFits(p)'
  BY <1>0, <1>2, <1>3, <1>6 DEF ProcFits, ProcPast, Past, TailFits, MarkFits
<1> QED BY <1>4, <1>5, <1>7, <1>8, StepKeeps

\* So does the end of one file.
LEMMA DoneKeeps ==
  ASSUME LocalInv, disk' = disk, More, RowsType', StoreType', NEW p \in Procs,
         todo[p] \cup whole[p] # {}, pc[p] \in {"at work", "at tail", "to mark"},
         Done(p), scan' = scan,
         \A f \in Files : RowPast(f)' /\ RowHonest(f)'
  PROVE  LocalInv'
<1>0. TypeOK /\ SharedType /\ ProcType(p) /\ ProcFits(p) BY TypeParts DEF LocalInv
<1>1. /\ start' = [start EXCEPT ![p] = 0]
      /\ pc' = [pc EXCEPT ![p] = "at work"]
      /\ UNCHANGED <<lock, listed>>
  BY DEF Done, Go
<1>2. pc'[p] = "at work" /\ pc' \in [Procs -> Places] BY <1>0, <1>1 DEF SharedType, Places
<1>3. /\ todo' \in [Procs -> SUBSET Files] /\ whole' \in [Procs -> SUBSET Files]
      /\ todo'[p] \subseteq todo[p] /\ whole'[p] \subseteq whole[p]
      /\ \A q \in Procs \ {p} : todo'[q] = todo[q] /\ whole'[q] = whole[q]
  <2>0. todo \in [Procs -> SUBSET Files] /\ whole \in [Procs -> SUBSET Files]
    BY <1>0 DEF SharedType
  <2>1. CASE todo[p] # {}
    <3>1. todo' = [todo EXCEPT ![p] = @ \ {Hand(p)}] /\ whole' = whole BY <2>1 DEF Done
    <3> QED BY <2>0, <3>1
  <2>2. CASE todo[p] = {}
    <3>1. whole' = [whole EXCEPT ![p] = @ \ {Hand(p)}] /\ todo' = todo BY <2>2 DEF Done
    <3> QED BY <2>0, <3>1
  <2> QED BY <2>1, <2>2
<1>4. SharedType'
  <2>1. /\ disk' \in [Files -> [version : Nat, lines : Nat, half : Half \cup {"no"}, text : Texts]]
        /\ lock' \in Procs \cup {0} /\ start' \in [Procs -> Nat]
        /\ DOMAIN scan' = Procs /\ DOMAIN listed' = Procs
    BY <1>0, <1>1 DEF SharedType
  <2> QED BY <1>2, <1>3, <2>1 DEF SharedType
<1>5. Others(p) BY <1>0, <1>1, <1>3 DEF Others, SharedType
<1>6. ProcType(p)' BY <1>0, <1>1, <1>2, <1>3 DEF ProcType
<1>7. ProcFits(p)'
  BY <1>0, <1>1, <1>2, <1>3 DEF ProcFits, ProcPast, Past, TailFits, MarkFits
<1> QED BY <1>4, <1>5, <1>6, <1>7, StepKeeps

-----------------------------------------------------------------------------
(* What is written to rows and store. *)

\* A row that is marked is still that of the file it was.
LEMMA SetRowKeeps ==
  ASSUME LocalInv, disk' = disk, More, NEW f \in Files, NEW r \in Rows, SetRow(f, r),
         r.stat = row[f].stat, Past(f, r.indexed),
         f \notin torn => Real(r.last.prefix) \subseteq events[f],
         r.status = "indexed" =>
           /\ r.last.size = r.indexed.size
           /\ r.indexed.version = disk[f].version /\ f \in Present =>
                r.last.size <= Bytes(disk[f]) /\ r.last.prefix = Prefix(f, r.last.size)
  PROVE  RowsType' /\ \A g \in Files : RowPast(g)' /\ RowHonest(g)'
<1>1. row \in [Files -> Rows] BY DEF LocalInv, TypeOK
<1>2. row' = row \/ row' = [row EXCEPT ![f] = r] BY DEF SetRow
<1>3. RowsType' BY <1>1, <1>2 DEF RowsType
<1>4. ASSUME NEW g \in Files PROVE RowPast(g)' /\ RowHonest(g)'
  <2>1. CASE row'[g] = row[g] BY <2>1, SameRow DEF LocalInv
  <2>2. CASE g = f /\ row'[g] = r
    <3>1. RowPast(g) BY DEF LocalInv
    <3>2. RowPast(g)' BY <2>2, <3>1 DEF RowPast, Past
    <3>3. RowHonest(g)' BY <2>2 DEF RowHonest, More, Prefix, Present
    <3> QED BY <3>2, <3>3
  <2> QED BY <1>1, <1>2, <2>1, <2>2
<1> QED BY <1>3, <1>4

LEMMA MarkFailedKeeps ==
  ASSUME LocalInv, disk' = disk, More, NEW f \in Files, MarkFailed(f)
  PROVE  RowsType' /\ \A g \in Files : RowPast(g)' /\ RowHonest(g)'
<1> DEFINE r == [row[f] EXCEPT !.status = "failed", !.indexed = None]
<1>1. row[f] \in Rows /\ disk[f].version \in Nat BY RowType, DiskType DEF LocalInv
<1>2. /\ r \in Rows /\ r.stat = row[f].stat /\ r.last = row[f].last
      /\ r.status = "failed" /\ r.indexed = None
  <2>1. None \in States BY DEF None, States
  <2> QED BY <1>1, <2>1 DEF Rows
<1>3. SetRow(f, r) BY DEF MarkFailed
<1>4. Past(f, None) BY <1>1 DEF Past, None
<1>5. RowHonest(f) BY DEF LocalInv
<1> HIDE DEF r
<1>6. f \notin torn => Real(r.last.prefix) \subseteq events[f] BY <1>2, <1>5 DEF RowHonest
<1>7. Past(f, r.indexed) BY <1>2, <1>4
<1> QED BY <1>2, <1>3, <1>6, <1>7, SetRowKeeps

\* What is stored is there unless its place was taken.
LEMMA StoreKeeps ==
  ASSUME LocalInv, NEW f \in Files, NEW b \in Nat, NEW read \in SUBSET EventsFrom(f, b),
         NEW r \in {"file", "tree"}, Store(f, read, r), torn \subseteq torn', torn' \subseteq Files
  PROVE  /\ More /\ StoreType'
         /\ Clash(f, read) = {} => read \subseteq events'[f]
<1>0. /\ events \in [Files -> SUBSET (Nat \X (Nat \ Noise))]
      /\ root \in [Files -> {"none", "file", "tree"}]
      /\ disk[f].text \in Texts
  BY DiskType DEF LocalInv, TypeOK
<1>1. read \subseteq Nat \X (Nat \ Noise) BY <1>0 DEF EventsFrom, Texts
<1> DEFINE new == {l \in read : \A e \in events[f] : e[2] # l[2]}
<1>2. events' = [events EXCEPT ![f] = @ \cup new] BY DEF Store
<1>3. root' \in [Files -> {"none", "file", "tree"}] BY <1>0 DEF Store
<1>4. events' \in [Files -> SUBSET (Nat \X (Nat \ Noise))] BY <1>0, <1>1, <1>2
<1>5. events'[f] = events[f] \cup new /\ More BY <1>0, <1>2 DEF More
<1>6. ASSUME Clash(f, read) = {}, NEW l \in read PROVE l \in events'[f]
  <2>1. CASE l \in new BY <1>5, <2>1
  <2>2. CASE l \notin new
    <3>1. PICK e \in events[f] : e[2] = l[2] BY <2>2
    <3>2. l = e BY <1>6, <3>1 DEF Clash
    <3> QED BY <1>5, <3>1, <3>2
  <2> QED BY <2>1, <2>2
<1> QED BY <1>3, <1>4, <1>5, <1>6 DEF StoreType

LEMMA StorePartKeeps ==
  ASSUME LocalInv, NEW f \in Files, NEW b \in Nat, NEW r \in {"file", "tree"},
         StorePart(f, EventsFrom(f, b), r), torn' = torn
  PROVE  More /\ StoreType'
<1>1. PICK n \in 0 .. MaxLines[f] : Store(f, {l \in EventsFrom(f, b) : l[2] <= n}, r)
  BY DEF StorePart
<1>2. torn \subseteq Files BY DEF LocalInv, TypeOK
<1> DEFINE part == {l \in EventsFrom(f, b) : l[2] <= n}
<1>3. part \in SUBSET EventsFrom(f, b) /\ Store(f, part, r) BY <1>1
<1> HIDE DEF part
<1> QED BY <1>2, <1>3, StoreKeeps

-----------------------------------------------------------------------------
(* The operations. *)

LEMMA ScanKeeps ==
  ASSUME LocalInv, NEW p \in Procs, Scan(p)
  PROVE  LocalInv'
<1>0. TypeOK /\ SharedType /\ ProcType(p) /\ ProcFits(p) BY TypeParts DEF LocalInv
<1> DEFINE cached == {f \in Present : row[f].stat = Stat(f)}
           stale == {f \in Known : row[f].stale}
           seen == IF stale # {} THEN Present ELSE Present \ cached
           gone == IF stale # {} \/ Known \ Present # {} THEN Files \ Present ELSE {}
           view == [stats |-> [f \in seen |-> Stat(f)], missing |-> gone]
<1>1. /\ pc[p] = "idle"
      /\ scan' = [scan EXCEPT ![p] = view]
      /\ pc' = [pc EXCEPT ![p] = IF seen = {} /\ gone = {} THEN "cataloged" ELSE "scanned"]
      /\ UNCHANGED <<disk, row, events, root, lock, listed, todo, whole, start, torn>>
  BY DEF Scan, Go
<1>2. seen \subseteq Files /\ gone \subseteq Files BY DEF Present
<1>3. pc'[p] \in {"cataloged", "scanned"} /\ pc' \in [Procs -> Places]
  BY <1>0, <1>1 DEF SharedType, Places
<1>4. todo[p] \cup whole[p] = {} BY <1>0, <1>1 DEF ProcType
<1>5. \A f \in seen : Stat(f) \in States /\ Past(f, Stat(f))
  BY <1>0, <1>2, DiskType DEF Stat, States, Past
<1>6. scan'[p].stats = [f \in seen |-> Stat(f)] /\ scan'[p].missing = gone
  BY <1>0, <1>1 DEF SharedType
<1>7. DOMAIN scan' = Procs BY <1>0, <1>1 DEF SharedType
<1>8. Others(p) BY <1>0, <1>1 DEF Others, SharedType
<1> HIDE DEF seen, gone, view
<1>9. SharedType' BY <1>0, <1>1, <1>3, <1>7 DEF SharedType, RowsType, StoreType
<1>10. ProcType(p)' BY <1>1, <1>2, <1>3, <1>4, <1>5, <1>6 DEF ProcType
<1>11. ProcPast(p)' BY <1>1, <1>4, <1>5, <1>6 DEF ProcPast, Past
<1>12. ProcFits(p)' BY <1>3, <1>11 DEF ProcFits, TailFits, MarkFits
<1>13. More BY <1>1 DEF More
<1> QED BY <1>1, <1>8, <1>9, <1>10, <1>12, <1>13, SameRows, StepKeeps

\* A row that is brought up to date has the checkpoint that it had, or none.
LEMMA UpsertRow ==
  ASSUME NEW r \in Rows, NEW s \in States
  PROVE  /\ Upsert(r, s) \in Rows
         /\ Upsert(r, s).stat = s
         /\ Upsert(r, s).last \in {r.last, NoCheckpoint}
         /\ Upsert(r, s).indexed \in {r.indexed, None}
         /\ Upsert(r, s).status = "indexed" =>
              r.status = "indexed" /\ Upsert(r, s).indexed = r.indexed /\ Upsert(r, s).last = r.last
<1>1. None \in States /\ NoCheckpoint \in [size : Nat, prefix : Texts]
  BY DEF None, NoCheckpoint, States, Texts
<1>2. CASE r.stat = s
  <2>1. Upsert(r, s) = [r EXCEPT !.stale = FALSE] BY <1>2 DEF Upsert
  <2> QED BY <2>1, <1>2 DEF Rows
<1>3. CASE r.stat # s
  <2>1. PICK l \in {r.last, NoCheckpoint} :
          Upsert(r, s) = [stat |-> s, stale |-> FALSE, status |-> "pending",
                          indexed |-> None, last |-> l]
    BY <1>3 DEF Upsert
  <2> QED BY <2>1, <1>1 DEF Rows
<1> QED BY <1>2, <1>3

LEMMA CatalogKeeps ==
  ASSUME LocalInv, NEW p \in Procs, Catalog(p)
  PROVE  LocalInv'
<1>0. TypeOK /\ SharedType /\ ProcType(p) /\ ProcFits(p) BY TypeParts DEF LocalInv
<1> DEFINE stats == scan[p].stats
           gone == scan[p].missing \cap Known
<1>1. /\ pc[p] = "scanned"
      /\ row' = [f \in Files |-> IF f \in DOMAIN stats THEN Upsert(row[f], stats[f])
                                 ELSE IF f \in gone THEN [row[f] EXCEPT !.stale = TRUE]
                                 ELSE row[f]]
      /\ scan' = [scan EXCEPT ![p] = Unseen]
      /\ pc' = [pc EXCEPT ![p] = "cataloged"]
      /\ UNCHANGED <<disk, events, root, lock, listed, todo, whole, start, torn>>
  BY DEF Catalog, Go
<1>2. \A f \in DOMAIN stats : stats[f] \in States /\ Past(f, stats[f])
  BY <1>0 DEF ProcType, ProcFits, ProcPast
<1>3. pc'[p] = "cataloged" /\ pc' \in [Procs -> Places] BY <1>0, <1>1 DEF SharedType, Places
<1>m. More BY <1>1 DEF More
<1>4. ASSUME NEW f \in Files
      PROVE  row'[f] \in Rows /\ RowPast(f)' /\ RowHonest(f)'
  <2>0. row[f] \in Rows BY <1>0, RowType
  <2>h. RowPast(f) /\ RowHonest(f) /\ disk[f].version \in Nat BY <1>0, DiskType DEF LocalInv
  <2>1. CASE f \in DOMAIN stats
    <3>1. row'[f] = Upsert(row[f], stats[f]) BY <1>1, <2>1
    <3>2. /\ row'[f] \in Rows
          /\ row'[f].stat = stats[f]
          /\ row'[f].last \in {row[f].last, NoCheckpoint}
          /\ row'[f].indexed \in {row[f].indexed, None}
          /\ row'[f].status = "indexed" =>
               row[f].status = "indexed" /\ row'[f].indexed = row[f].indexed
                                         /\ row'[f].last = row[f].last
      BY <1>2, <2>0, <2>1, <3>1, UpsertRow
    <3>3. RowPast(f)' BY <1>1, <1>2, <2>1, <2>h, <3>2 DEF RowPast, Past, None
    <3>4. Real(row'[f].last.prefix) \subseteq Real(row[f].last.prefix)
      BY <3>2 DEF Real, NoCheckpoint
    <3>5. RowHonest(f)' BY <1>1, <2>h, <3>2, <3>4 DEF RowHonest, Prefix, Present, Real
    <3> QED BY <3>2, <3>3, <3>5
  <2>2. CASE f \notin DOMAIN stats /\ f \in gone
    <3>1. row'[f] = [row[f] EXCEPT !.stale = TRUE] BY <1>1, <2>2
    <3>2. /\ row'[f] \in Rows /\ row'[f].stat = row[f].stat /\ row'[f].last = row[f].last
          /\ row'[f].status = row[f].status /\ row'[f].indexed = row[f].indexed
      BY <2>0, <3>1 DEF Rows
    <3>3. RowPast(f)' BY <1>1, <2>h, <3>2 DEF RowPast, Past
    <3>4. RowHonest(f)' BY <1>1, <2>h, <3>2 DEF RowHonest, Prefix, Present
    <3> QED BY <3>2, <3>3, <3>4
  <2>3. CASE f \notin DOMAIN stats /\ f \notin gone
    <3>1. row'[f] = row[f] BY <1>1, <2>3
    <3> QED BY <1>1, <1>m, <2>0, <2>h, <3>1, SameRow
  <2> QED BY <2>1, <2>2, <2>3
<1>5. SharedType'
  <2>1. row' \in [Files -> Rows] BY <1>1, <1>4
  <2>2. DOMAIN scan' = Procs BY <1>0, <1>1 DEF SharedType
  <2> QED BY <1>0, <1>1, <1>3, <2>1, <2>2 DEF SharedType, RowsType, StoreType
<1>6. Others(p) BY <1>0, <1>1 DEF Others, SharedType
<1>7. DOMAIN scan'[p].stats = {} /\ scan'[p].missing = {} BY <1>0, <1>1 DEF SharedType, Unseen
<1>8. todo[p] \cup whole[p] = {} BY <1>0, <1>1 DEF ProcType
<1>9. ProcType(p)' BY <1>1, <1>3, <1>7, <1>8 DEF ProcType
<1>10. ProcFits(p)' BY <1>1, <1>3, <1>7, <1>8 DEF ProcFits, ProcPast, TailFits, MarkFits
<1> QED BY <1>1, <1>m, <1>4, <1>5, <1>6, <1>9, <1>10, StepKeeps

LEMMA TakeKeeps ==
  ASSUME LocalInv, NEW p \in Procs, Take(p)
  PROVE  LocalInv'
<1>0. TypeOK /\ SharedType /\ ProcType(p) /\ ProcFits(p) BY TypeParts DEF LocalInv
<1> DEFINE pending == {f \in Files : Pending(f)}
           stats == [f \in pending |-> row[f].stat]
<1>1. /\ pc[p] = "cataloged" /\ lock' = p
      /\ listed' = [listed EXCEPT ![p] = stats]
      /\ todo' = [todo EXCEPT ![p] = pending]
      /\ pc' = [pc EXCEPT ![p] = "at work"]
      /\ UNCHANGED <<disk, row, events, root, scan, whole, start, torn>>
  BY DEF Take, Go
<1>2. pc'[p] = "at work" /\ pc' \in [Procs -> Places] BY <1>0, <1>1 DEF SharedType, Places
<1>3. todo'[p] = pending /\ whole'[p] = {} /\ listed'[p] = stats
  BY <1>0, <1>1 DEF SharedType, ProcType
<1>4. SharedType'
  <2>1. todo' \in [Procs -> SUBSET Files] /\ DOMAIN listed' = Procs
    BY <1>0, <1>1 DEF SharedType
  <2> QED BY <1>0, <1>1, <1>2, <2>1 DEF SharedType, RowsType, StoreType
<1>5. Others(p) BY <1>0, <1>1 DEF Others, SharedType
<1>6. \A f \in pending : /\ listed'[p][f] = row[f].stat /\ row[f].stat \in States
                         /\ Past(f, row[f].stat)
  BY <1>0, <1>3, RowType DEF LocalInv, RowPast
<1>7. ProcType(p)' BY <1>0, <1>1, <1>2, <1>3, <1>6 DEF ProcType
<1>8. ProcFits(p)'
  <2> HIDE DEF pending, stats
  <2> QED BY <1>0, <1>1, <1>2, <1>3, <1>6 DEF ProcFits, ProcPast, Past, TailFits, MarkFits
<1>9. More BY <1>1 DEF More
<1> QED BY <1>1, <1>4, <1>5, <1>7, <1>8, <1>9, SameRows, StepKeeps

LEMMA GiveUpKeeps ==
  ASSUME LocalInv, NEW p \in Procs, GiveUp(p)
  PROVE  LocalInv'
<1>0. TypeOK /\ SharedType /\ ProcType(p) /\ ProcFits(p) BY TypeParts DEF LocalInv
<1>1. /\ pc[p] = "cataloged" /\ pc' = [pc EXCEPT ![p] = "idle"]
      /\ UNCHANGED <<disk, row, events, root, lock, scan, listed, todo, whole, start, torn>>
  BY DEF GiveUp, Go, mine
<1>2. pc'[p] = "idle" /\ pc' \in [Procs -> Places] BY <1>0, <1>1 DEF SharedType, Places
<1>3. SharedType' BY <1>0, <1>1, <1>2 DEF SharedType, RowsType, StoreType
<1>4. Others(p) BY <1>0, <1>1 DEF Others, SharedType
<1>5. ProcType(p)' BY <1>0, <1>1, <1>2 DEF ProcType
<1>6. ProcFits(p)' BY <1>0, <1>1, <1>2 DEF ProcFits, ProcPast, Past, TailFits, MarkFits
<1> QED BY <1>1, <1>3, <1>4, <1>5, <1>6, SameRows, SameStore, StepKeeps

LEMMA FinishKeeps ==
  ASSUME LocalInv, NEW p \in Procs, Finish(p)
  PROVE  LocalInv'
  BY SameRows, SameStore, EndKeeps DEF Finish, End, Go

LEMMA LookKeeps ==
  ASSUME LocalInv, NEW p \in Procs, Look(p)
  PROVE  LocalInv'
<1> DEFINE f == Hand(p)
           from == TailStart(f, listed[p][f])
<1>0. TypeOK /\ SharedType /\ ProcType(p) /\ ProcFits(p) BY TypeParts DEF LocalInv
<1>1. pc[p] = "at work" /\ todo[p] # {} /\ UNCHANGED <<disk, row, events, root, scan, torn>>
  BY DEF Look
<1>2. f \in Files /\ f \in todo[p] BY <1>0, <1>1, HandIn
<1>3. CASE from > Bytes(disk[f])
  <2>1. End(p) BY <1>3 DEF Look
  <2> QED BY <1>1, <2>1, SameRows, SameStore, EndKeeps DEF End, Go
<1>4. CASE ~ (from > Bytes(disk[f])) /\ from > 0 /\ CheckpointMatches(f)
  <2>1. /\ start' = [start EXCEPT ![p] = from]
        /\ pc' = [pc EXCEPT ![p] = "at tail"]
        /\ UNCHANGED <<todo, whole, lock, listed>>
    BY <1>4 DEF Look, Go
  <2>2. pc'[p] = "at tail" /\ pc' \in [Procs -> Places] BY <1>0, <2>1 DEF SharedType, Places
  <2>3. row[f].last.size \in Nat /\ Bytes(disk[f]) \in Nat BY <1>0, <1>2, RowType, DiskType
  <2>4. from = row[f].last.size /\ from \in Nat /\ from <= Bytes(disk[f])
    BY <1>4, <2>3 DEF TailStart
  <2>5. f \notin torn => Held(f, from)
    <3>1. row[f].last.prefix = Prefix(f, from) BY <1>4, <2>4 DEF CheckpointMatches
    <3> QED BY <1>2, <3>1 DEF LocalInv, RowHonest, Held
  <2> HIDE DEF from
  <2>6. start' \in [Procs -> Nat] BY <1>0, <2>1, <2>4 DEF SharedType
  <2>7. SharedType' BY <1>0, <1>1, <2>1, <2>2, <2>6 DEF SharedType, RowsType, StoreType
  <2>8. Others(p) BY <1>0, <1>1, <2>1 DEF Others, SharedType
  <2>9. ProcType(p)' BY <1>0, <1>1, <2>1, <2>2 DEF ProcType
  <2>10. start'[p] = from /\ Hand(p)' = f BY <1>0, <2>1 DEF SharedType, Hand
  <2>11. TailFits(p)'
    BY <1>1, <2>4, <2>5, <2>10 DEF TailFits, Reached, Held, Prefix, Present
  <2>12. ProcFits(p)' BY <1>0, <1>1, <2>1, <2>2, <2>11 DEF ProcFits, ProcPast, Past, MarkFits
  <2> QED BY <1>1, <2>7, <2>8, <2>9, <2>12, SameRows, SameStore, StepKeeps
<1>5. CASE ~ (from > Bytes(disk[f])) /\ ~ (from > 0 /\ CheckpointMatches(f))
  <2>1. /\ todo' = [todo EXCEPT ![p] = @ \ {f}]
        /\ whole' = [whole EXCEPT ![p] = @ \cup {f}]
        /\ UNCHANGED <<start, pc, lock, listed>>
    BY <1>5 DEF Look
  <2>2. todo' \in [Procs -> SUBSET Files] /\ whole' \in [Procs -> SUBSET Files]
    BY <1>0, <1>2, <2>1 DEF SharedType
  <2>3. SharedType' BY <1>0, <1>1, <2>1, <2>2 DEF SharedType, RowsType, StoreType
  <2>4. Others(p) BY <1>0, <1>1, <2>1 DEF Others, SharedType
  <2>5. todo'[p] \cup whole'[p] = todo[p] \cup whole[p] BY <1>0, <1>2, <2>1 DEF SharedType
  <2>6. ProcType(p)' BY <1>0, <1>1, <2>1, <2>5 DEF ProcType
  <2>7. ProcFits(p)'
    BY <1>0, <1>1, <2>1, <2>5 DEF ProcFits, ProcPast, Past, TailFits, MarkFits
  <2> QED BY <1>1, <2>3, <2>4, <2>6, <2>7, SameRows, SameStore, StepKeeps
<1> QED BY <1>3, <1>4, <1>5

\* The file has been read from a byte on: as far as its complete lines reach,
\* the store has what comes before as well as what was read.
LEMMA ReadReaches ==
  ASSUME LocalInv, disk' = disk, More, NEW f \in Files, NEW b \in Nat, NEW s \in Nat,
         f \notin torn => Held(f, b), EventsFrom(f, b) \subseteq events'[f],
         f \in torn' \/ s <= 2 * disk[f].lines
  PROVE  Reached(f, s)'
<1>0. /\ disk[f].lines \in Nat /\ disk[f].text \in Texts /\ Bytes(disk[f]) \in Nat
      /\ 2 * disk[f].lines <= Bytes(disk[f])
  BY DiskType DEF LocalInv
<1>1. SUFFICES ASSUME f \notin torn' PROVE Held(f, s)' /\ s <= Bytes(disk'[f])
  BY DEF Reached
<1>2. f \notin torn BY <1>1 DEF More
<1>3. s <= 2 * disk[f].lines BY <1>1
<1>4. ASSUME NEW l \in Real(Prefix(f, s)) PROVE l \in events'[f]
  <2>1. l \in disk[f].text /\ l[2] \in Nat /\ l[2] \notin Noise /\ 2 * (l[2] - 1) < s
    BY <1>0, <1>4 DEF Real, Prefix, Texts
  <2>2. l[2] <= disk[f].lines BY <1>0, <1>3, <2>1
  <2>3. CASE 2 * (l[2] - 1) < b
    <3>1. l \in Real(Prefix(f, b)) BY <2>1, <2>3 DEF Real, Prefix
    <3> QED BY <1>2, <3>1 DEF Held, More
  <2>4. CASE ~ (2 * (l[2] - 1) < b)
    <3>1. l \in EventsFrom(f, b) BY <2>1, <2>2, <2>4 DEF EventsFrom
    <3> QED BY <3>1
  <2> QED BY <2>3, <2>4
<1>5. Prefix(f, s)' = Prefix(f, s) BY DEF Prefix
<1>6. s <= Bytes(disk'[f]) BY <1>0, <1>3
<1> QED BY <1>4, <1>5, <1>6 DEF Held, Real

\* What is not short is long enough.
LEMMA NotShort == \A n, m \in Nat : ~ (2 * n < m) => m <= 2 * n
  OBVIOUS

\* What was read is stored and is to be marked, or the import has failed.
LEMMA ImportKeeps ==
  ASSUME LocalInv, NEW p \in Procs, NEW b \in Nat, NEW r \in {"file", "tree"},
         NEW fails \in BOOLEAN, UNCHANGED <<disk, scan>>,
         pc[p] \in {"at work", "at tail"}, todo[p] \cup whole[p] # {},
         Hand(p) \notin torn => Held(Hand(p), b),
         Import(p, Hand(p), EventsFrom(Hand(p), b), r, fails)
  PROVE  LocalInv'
<1> DEFINE f == Hand(p)
           read == EventsFrom(f, b)
<1>0. TypeOK /\ SharedType /\ ProcType(p) /\ ProcFits(p) BY TypeParts DEF LocalInv
<1>1. f \in Files /\ f \in todo[p] \cup whole[p] /\ torn \subseteq Files
  BY <1>0, HandIn DEF TypeOK
<1>2. CASE Clash(f, read) # {}
  <2>1. StorePart(f, read, r) /\ MarkFailed(f) /\ End(p) /\ torn' = torn BY <1>2 DEF Import
  <2>2. More /\ StoreType' BY <1>1, <2>1, StorePartKeeps
  <2>3. RowsType' /\ \A g \in Files : RowPast(g)' /\ RowHonest(g)'
    BY <1>1, <2>1, <2>2, MarkFailedKeeps
  <2> QED BY <2>1, <2>2, <2>3, EndKeeps DEF End, Go
<1>3. CASE Clash(f, read) = {}
  <2>1. /\ Store(f, read, r)
        /\ IF fails THEN MarkFailed(f) /\ Done(p) /\ UNCHANGED torn
           ELSE /\ Go(p, "to mark")
                /\ torn' = IF ReadShort(p, f) THEN torn \cup {f} ELSE torn
                /\ UNCHANGED <<row, lock, listed, todo, whole, start>>
    BY <1>3 DEF Import
  <2>2. torn \subseteq torn' /\ torn' \subseteq Files BY <1>1, <2>1
  <2>3. More /\ StoreType' /\ read \subseteq events'[f]
    BY <1>1, <1>3, <2>1, <2>2, StoreKeeps
  <2>4. CASE fails
    <3>1. MarkFailed(f) /\ Done(p) BY <2>1, <2>4
    <3>2. RowsType' /\ \A g \in Files : RowPast(g)' /\ RowHonest(g)'
      BY <1>1, <2>3, <3>1, MarkFailedKeeps
    <3> QED BY <2>3, <3>1, <3>2, DoneKeeps
  <2>5. CASE ~fails
    <3>1. /\ pc' = [pc EXCEPT ![p] = "to mark"]
          /\ torn' = IF ReadShort(p, f) THEN torn \cup {f} ELSE torn
          /\ UNCHANGED <<row, lock, listed, todo, whole, start>>
      BY <2>1, <2>5 DEF Go
    <3>2. listed[p][f] \in States /\ listed[p][f].size \in Nat /\ disk[f].lines \in Nat
      BY <1>0, <1>1, DiskType DEF ProcType, States
    <3>3. f \in torn' \/ listed[p][f].size <= 2 * disk[f].lines
      <4>1. CASE ReadShort(p, f) BY <3>1, <4>1 DEF ReadShort
      <4>2. CASE ~ReadShort(p, f)
        <5>2. ~ (2 * disk[f].lines < listed[p][f].size) BY <4>2 DEF ReadShort
        <5> QED BY <3>2, <5>2, NotShort
      <4> QED BY <4>1, <4>2
    <3>4. \A g \in Files : \A s \in Nat :
            g = f /\ s = listed[p][f].size => Reached(g, s)'
      BY <2>3, <3>3, ReadReaches
    <3>5. pc'[p] = "to mark" /\ pc' \in [Procs -> Places] BY <1>0, <3>1 DEF SharedType, Places
    <3>6. SharedType' BY <1>0, <2>3, <3>1, <3>5, SameRows DEF SharedType
    <3>7. Others(p) BY <1>0, <3>1 DEF Others, SharedType
    <3>8. ProcType(p)' BY <1>0, <3>1, <3>5 DEF ProcType
    <3>9. MarkFits(p)'
      <4>1. Hand(p)' = f BY <3>1 DEF Hand
      <4>2. PICK g \in Files, s \in Nat :
              g = f /\ s = listed[p][f].size /\ Reached(g, s)'
        BY <1>1, <3>2, <3>4
      <4>3. Hand(p)' = g /\ listed'[p][Hand(p)'].size = s BY <3>1, <4>1, <4>2
      <4> HIDE DEF f
      <4> QED BY <4>2, <4>3 DEF MarkFits, Reached, Held
    <3>10. ProcFits(p)' BY <1>0, <3>1, <3>5, <3>9 DEF ProcFits, ProcPast, Past, TailFits
    <3> QED BY <2>3, <3>1, <3>6, <3>7, <3>8, <3>10, SameRows, StepKeeps
  <2> QED BY <2>4, <2>5
<1> QED BY <1>2, <1>3

LEMMA TailKeeps ==
  ASSUME LocalInv, NEW p \in Procs, Tail(p)
  PROVE  LocalInv'
<1> DEFINE f == Hand(p)
           fails == disk[f].half = "broken" /\ start[p] < Bytes(disk[f])
<1>0. TypeOK /\ SharedType /\ ProcType(p) /\ ProcFits(p) BY TypeParts DEF LocalInv
<1>1. pc[p] = "at tail" /\ todo[p] # {} /\ UNCHANGED <<disk, scan>>
  BY <1>0 DEF Tail, ProcType
<1>2. f \in Files BY <1>0, <1>1, HandIn
<1>3. CASE f \notin Present
  <2>1. MarkFailed(f) /\ End(p) /\ UNCHANGED <<events, root, torn>> BY <1>3 DEF Tail
  <2>2. RowsType' /\ \A g \in Files : RowPast(g)' /\ RowHonest(g)'
    BY <1>1, <1>2, <2>1, SameStore, MarkFailedKeeps
  <2> QED BY <1>1, <2>1, <2>2, SameStore, EndKeeps DEF End, Go
<1>4. CASE f \in Present
  <2>1. Import(p, f, EventsFrom(f, start[p]), "file", fails) BY <1>4 DEF Tail
  <2>2. f \notin torn => Held(f, start[p]) BY <1>0, <1>1 DEF ProcFits, TailFits, Reached
  <2>3. start[p] \in Nat /\ fails \in BOOLEAN BY <1>0 DEF SharedType
  <2> HIDE DEF fails
  <2> QED BY <1>1, <2>1, <2>2, <2>3, ImportKeeps
<1> QED BY <1>3, <1>4

LEMMA WholeKeeps ==
  ASSUME LocalInv, NEW p \in Procs, Whole(p)
  PROVE  LocalInv'
<1> DEFINE f == Hand(p)
           fails == f \notin Present \/ Content(f) = {} \/ disk[f].half = "broken"
<1>0. TypeOK BY DEF LocalInv
<1>1. /\ pc[p] = "at work" /\ todo[p] = {} /\ whole[p] # {} /\ UNCHANGED <<disk, scan>>
      /\ Import(p, f, EventsFrom(f, 0), "tree", fails)
  BY DEF Whole, Content
<1>2. f \in Files BY <1>0, <1>1, HandIn
<1>3. Real(Prefix(f, 0)) = {}
  <2>1. \A l \in disk[f].text : l[2] \in Nat /\ l[2] >= 1 BY <1>0, <1>2, DiskType DEF Texts
  <2> QED BY <2>1 DEF Real, Prefix
<1>4. Held(f, 0) BY <1>3 DEF Held
<1>5. fails \in BOOLEAN OBVIOUS
<1> HIDE DEF fails
<1> QED BY <1>1, <1>4, <1>5, ImportKeeps

LEMMA MarkKeeps ==
  ASSUME LocalInv, NEW p \in Procs, Mark(p)
  PROVE  LocalInv'
<1> DEFINE f == Hand(p)
           s == listed[p][f]
           r == [row[f] EXCEPT !.status = "indexed", !.indexed = s, !.last = Checkpoint(f, s)]
<1>0. TypeOK /\ SharedType /\ ProcType(p) /\ ProcFits(p) BY TypeParts DEF LocalInv
<1>1. pc[p] = "to mark" /\ UNCHANGED <<disk, events, root, scan, torn>> BY DEF Mark
<1>2. todo[p] \cup whole[p] # {} /\ f \in Files /\ f \in todo[p] \cup whole[p]
  BY <1>0, <1>1, HandIn DEF ProcType
<1>3. s \in States /\ s.size \in Nat BY <1>0, <1>2 DEF ProcType, States
<1>4. CASE Bytes(disk[f]) < s.size
  <2>1. End(p) /\ UNCHANGED row BY <1>4 DEF Mark
  <2> QED BY <1>1, <2>1, SameRows, SameStore, EndKeeps DEF End, Go
<1>5. CASE ~ (Bytes(disk[f]) < s.size)
  <2>1. SetRow(f, r) /\ Done(p) BY <1>5 DEF Mark
  <2>2. row[f] \in Rows /\ Bytes(disk[f]) \in Nat BY <1>0, <1>2, RowType, DiskType
  <2>3. Checkpoint(f, s) \in [size : Nat, prefix : Texts]
    BY <1>0, <1>2, <1>3, PrefixType DEF Checkpoint
  <2>4. /\ r \in Rows /\ r.stat = row[f].stat
        /\ r.last = Checkpoint(f, s) /\ r.indexed = s
    BY <1>3, <2>2, <2>3 DEF Rows
  <2>5. r.last.size = s.size /\ r.last.prefix = Prefix(f, s.size)
    BY <2>4 DEF Checkpoint
  <2>6. Past(f, r.indexed) BY <1>0, <1>2, <2>4 DEF ProcFits, ProcPast
  <2>7. f \notin torn => Real(r.last.prefix) \subseteq events[f]
    BY <1>0, <1>1, <2>5 DEF ProcFits, MarkFits, Reached, Held
  <2>8. s.size <= Bytes(disk[f]) BY <1>3, <1>5, <2>2
  <2> HIDE DEF r
  <2>9. r.last.size = r.indexed.size /\ r.last.size <= Bytes(disk[f])
        /\ r.last.prefix = Prefix(f, r.last.size)
    BY <2>4, <2>5, <2>8
  <2>10. More /\ StoreType' BY <1>1, SameStore
  <2>11. RowsType' /\ \A g \in Files : RowPast(g)' /\ RowHonest(g)'
    BY <1>1, <1>2, <2>1, <2>4, <2>6, <2>7, <2>9, <2>10, SetRowKeeps
  <2> QED BY <1>1, <1>2, <2>1, <2>10, <2>11, DoneKeeps
<1> QED BY <1>4, <1>5

LEMMA CrashKeeps ==
  ASSUME LocalInv, NEW p \in Procs, Crash(p)
  PROVE  LocalInv'
<1> DEFINE f == Hand(p)
           Kept == More /\ StoreType'
<1>0. TypeOK /\ SharedType /\ ProcType(p) BY TypeParts DEF LocalInv
<1>1. /\ Forget(p) /\ scan' = [scan EXCEPT ![p] = Unseen]
      /\ pc' = [pc EXCEPT ![p] = "idle"]
      /\ lock' = IF lock = p THEN 0 ELSE lock
      /\ UNCHANGED <<disk, row, torn>>
  BY DEF Crash, Go
<1>2. lock' \in Procs \cup {0} BY <1>0, <1>1 DEF SharedType
<1>3. Kept
  <2>1. CASE UNCHANGED <<events, root>> BY <1>1, <2>1, SameStore
  <2>2. ASSUME pc[p] = "at tail", StorePart(f, EventsFrom(f, start[p]), "file")
        PROVE  Kept
    <3>1. todo[p] # {} BY <1>0, <2>2 DEF ProcType
    <3>2. f \in Files BY <1>0, <3>1, HandIn
    <3>3. start[p] \in Nat BY <1>0 DEF SharedType
    <3> QED BY <1>1, <2>2, <3>2, <3>3, StorePartKeeps
  <2>3. ASSUME whole[p] # {}, StorePart(f, EventsFrom(f, 0), "tree")
        PROVE  Kept
    <3>1. f \in Files BY <1>0, <2>3, HandIn
    <3> QED BY <1>1, <2>3, <3>1, StorePartKeeps
  <2>4. \/ UNCHANGED <<events, root>>
        \/ pc[p] = "at tail" /\ StorePart(f, EventsFrom(f, start[p]), "file")
        \/ whole[p] # {} /\ StorePart(f, EventsFrom(f, 0), "tree")
    BY DEF Crash, Content
  <2> HIDE DEF Kept, f
  <2> QED BY <2>1, <2>2, <2>3, <2>4
<1> QED BY <1>1, <1>2, <1>3, SameRows, EndKeeps

-----------------------------------------------------------------------------
(* What the agents do to the files. *)

\* A file that is not replaced keeps its version and what it had, or is gone.
LEMMA Grows ==
  ASSUME TypeOK, NEW g \in Files, Append(g) \/ BeginLine(g) \/ Remove(g)
  PROVE  /\ UNCHANGED <<row, events, root, lock, pc, scan, listed, todo, whole, start, torn>>
         /\ disk' \in [Files -> Contents]
         /\ \A f \in Files \ {g} : disk'[f] = disk[f]
         /\ disk'[g].version = disk[g].version
         /\ \/ /\ g \in Present
               /\ Bytes(disk[g]) <= Bytes(disk'[g])
               /\ \A b \in Nat : b <= Bytes(disk[g]) => Prefix(g, b)' = Prefix(g, b)
            \/ disk'[g].text = {} /\ g \notin Present'
<1> DEFINE File(v, n, h, t) == [version |-> v, lines |-> n, half |-> h, text |-> t]
           begun == Begun(disk[g])
<1>1. disk \in [Files -> Contents] /\ disk[g] \in Contents BY DEF TypeOK, Contents
<1>2. \A v, n, h, t : Edit(g, v, n, h, t) =>
        /\ disk' = [disk EXCEPT ![g] = File(v, n, h, t)]
        /\ UNCHANGED <<row, events, root, lock, pc, scan, listed, todo, whole, start>>
  BY DEF Edit, mine
<1>3. \A d \in Contents : disk' = [disk EXCEPT ![g] = d] =>
        /\ disk' \in [Files -> Contents] /\ disk'[g] = d
        /\ \A f \in Files \ {g} : disk'[f] = disk[f]
  BY <1>1
<1>4. /\ begun \in Texts
      /\ \A b \in Nat : b <= Bytes(disk[g]) =>
           {l \in begun : 2 * (l[2] - 1) < b} = {l \in disk[g].text : 2 * (l[2] - 1) < b}
  BY <1>1 DEF Begun, Contents, Texts, Bytes
<1>5. ASSUME NEW d \in Contents, disk' = [disk EXCEPT ![g] = d], g \in Present,
             d.version = disk[g].version, Bytes(disk[g]) <= Bytes(d), d.text = begun
      PROVE  /\ disk' \in [Files -> Contents]
             /\ \A f \in Files \ {g} : disk'[f] = disk[f]
             /\ disk'[g].version = disk[g].version
             /\ Bytes(disk[g]) <= Bytes(disk'[g])
             /\ \A b \in Nat : b <= Bytes(disk[g]) => Prefix(g, b)' = Prefix(g, b)
  <2>1. disk'[g] = d /\ disk' \in [Files -> Contents] /\ \A f \in Files \ {g} : disk'[f] = disk[f]
    BY <1>3, <1>5
  <2> HIDE DEF begun
  <2>2. \A b \in Nat : b <= Bytes(disk[g]) => Prefix(g, b)' = Prefix(g, b)
    BY <1>4, <1>5, <2>1 DEF Prefix
  <2> QED BY <1>5, <2>1, <2>2
<1> DEFINE grown(n, h) == File(disk[g].version, n, h, begun)
<1>6. CASE Append(g)
  <2>1. /\ Edit(g, disk[g].version, disk[g].lines + 1, "no", begun)
        /\ torn' = torn /\ g \in Present
    BY <1>6 DEF Append
  <2> DEFINE d == grown(disk[g].lines + 1, "no")
  <2>2. d \in Contents BY <1>1, <1>4 DEF Contents
  <2>3. Bytes(disk[g]) <= Bytes(d) BY <1>1 DEF Bytes, Contents
  <2>4. d.version = disk[g].version /\ d.text = begun OBVIOUS
  <2>5. /\ disk' = [disk EXCEPT ![g] = d]
        /\ UNCHANGED <<row, events, root, lock, pc, scan, listed, todo, whole, start>>
    BY <1>2, <2>1
  <2> HIDE DEF d, begun
  <2> QED BY <1>5, <2>1, <2>2, <2>3, <2>4, <2>5
<1>7. CASE BeginLine(g)
  <2>1. PICK h \in Half : Edit(g, disk[g].version, disk[g].lines, h, begun)
    BY <1>7, ImportAssumption DEF BeginLine, ImportAssumption
  <2>2. torn' = torn /\ g \in Present /\ disk[g].half = "no" BY <1>7 DEF BeginLine
  <2> DEFINE d == grown(disk[g].lines, h)
  <2>3. d \in Contents BY <1>1, <1>4 DEF Contents
  <2>4. Bytes(disk[g]) <= Bytes(d) BY <1>1, <2>2 DEF Bytes, Contents
  <2>5. d.version = disk[g].version /\ d.text = begun OBVIOUS
  <2>6. /\ disk' = [disk EXCEPT ![g] = d]
        /\ UNCHANGED <<row, events, root, lock, pc, scan, listed, todo, whole, start>>
    BY <1>2, <2>1
  <2> HIDE DEF d, begun
  <2> QED BY <1>5, <2>2, <2>3, <2>4, <2>5, <2>6
<1>8. CASE Remove(g)
  <2>1. Edit(g, disk[g].version, 0, "no", {}) /\ torn' = torn BY <1>8 DEF Remove
  <2> DEFINE d == File(disk[g].version, 0, "no", {})
  <2>2. d \in Contents /\ Bytes(d) = 0 /\ d.version = disk[g].version /\ d.text = {}
    BY <1>1 DEF Contents, Texts, Bytes
  <2>3. /\ disk' = [disk EXCEPT ![g] = d]
        /\ UNCHANGED <<row, events, root, lock, pc, scan, listed, todo, whole, start>>
    BY <1>2, <2>1
  <2> HIDE DEF d
  <2>4. disk'[g] = d BY <1>3, <2>2, <2>3
  <2>5. g \notin Present' BY <2>2, <2>4 DEF Present
  <2> QED BY <1>3, <2>1, <2>2, <2>3, <2>4, <2>5
<1> QED BY <1>6, <1>7, <1>8

\* A file that is replaced gets a version that nobody has seen, and is torn if
\* an import depends on what was read of it.
LEMMA Replaced ==
  ASSUME TypeOK, NEW g \in Files, Replace(g)
  PROVE  /\ UNCHANGED <<row, events, root, lock, pc, scan, listed, todo, whole, start>>
         /\ disk' \in [Files -> Contents]
         /\ \A f \in Files \ {g} : disk'[f] = disk[f]
         /\ disk'[g].version = disk[g].version + 1
         /\ torn \subseteq torn' /\ torn' \subseteq Files
         /\ BeingRead(g) => g \in torn'
<1>1. disk \in [Files -> Contents] /\ disk[g] \in Contents /\ torn \subseteq Files
  BY DEF TypeOK, Contents
<1>2. MaxLines[g] \in Nat BY ImportAssumption DEF ImportAssumption
<1>3. PICK n \in 1 .. MaxLines[g], kept \in 0 .. disk[g].lines :
        Edit(g, disk[g].version + 1, n, "no",
             {l \in disk[g].text : l[2] <= kept}
             \cup {<<disk[g].version + 1, i>> : i \in kept + 1 .. n})
  BY DEF Replace
<1> DEFINE text == {l \in disk[g].text : l[2] <= kept}
                   \cup {<<disk[g].version + 1, i>> : i \in kept + 1 .. n}
           d == [version |-> disk[g].version + 1, lines |-> n, half |-> "no", text |-> text]
<1>4. text \in Texts BY <1>1, <1>2 DEF Contents, Texts
<1>5. Edit(g, disk[g].version + 1, n, "no", text) BY <1>3
<1> HIDE DEF text
<1>6. d \in Contents /\ d.version = disk[g].version + 1 BY <1>1, <1>2, <1>4 DEF Contents
<1>7. /\ disk' = [disk EXCEPT ![g] = d]
      /\ UNCHANGED <<row, events, root, lock, pc, scan, listed, todo, whole, start>>
  BY <1>5 DEF Edit, mine
<1>8. torn' = IF BeingRead(g) THEN torn \cup {g} ELSE torn BY DEF Replace
<1> HIDE DEF d
<1> QED BY <1>1, <1>6, <1>7, <1>8

\* The files that are not g do not change, and nothing else does.
OnlyFile(g) ==
  /\ UNCHANGED <<row, events, root, lock, pc, scan, listed, todo, whole, start>>
  /\ disk' \in [Files -> Contents]
  /\ \A f \in Files \ {g} : disk'[f] = disk[f]
  /\ disk[g].version <= disk'[g].version
  /\ torn \subseteq torn' /\ torn' \subseteq Files

LEMMA AtMost ==
  /\ \A n \in Nat : n <= n
  /\ \A k, m, n \in Nat : k <= m /\ m <= n => k <= n
  OBVIOUS

\* What is left to show when a file changes.
LEMMA FileKeeps ==
  ASSUME LocalInv, NEW g \in Files, OnlyFile(g),
         RowHonest(g)',
         \A p \in Procs :
           /\ pc[p] = "at tail" /\ Hand(p) = g => Reached(g, start[p])'
           /\ pc[p] = "to mark" /\ Hand(p) = g => Reached(g, listed[p][g].size)'
  PROVE  LocalInv'
<1>1. UNCHANGED <<row, events, root, lock, pc, scan, listed, todo, whole, start>>
  BY DEF OnlyFile
<1>2. TypeOK /\ TypeOK'
  BY <1>1 DEF LocalInv, OnlyFile, Contents, TypeOK
<1>3. \A f \in Files : disk[f].version \in Nat /\ disk'[f].version \in Nat
  BY <1>2, DiskType DEF OnlyFile, Contents
<1>4. ASSUME NEW f \in Files PROVE disk[f].version <= disk'[f].version
  <2>1. CASE f = g BY <2>1 DEF OnlyFile
  <2>2. CASE f # g
    <3>1. disk'[f] = disk[f] BY <2>2 DEF OnlyFile
    <3> QED BY Zenon, <1>3, <3>1, AtMost
  <2> QED BY <2>1, <2>2
<1>5. \A f \in Files : \A s \in States : s.version <= disk[f].version => s.version <= disk'[f].version
  <2> SUFFICES ASSUME NEW f \in Files, NEW s \in States, s.version <= disk[f].version
               PROVE  s.version <= disk'[f].version
    OBVIOUS
  <2>1. s.version \in Nat BY DEF States
  <2> QED BY Zenon, <1>3, <1>4, <2>1, AtMost
<1>6. ASSUME NEW f \in Files PROVE RowPast(f)' /\ RowHonest(f)'
  <2>1. row[f].stat \in States /\ row[f].indexed \in States BY <1>2, RowType
  <2>2. Past(f, row[f].stat)' /\ Past(f, row[f].indexed)'
    BY <1>1, <1>5, <2>1 DEF LocalInv, RowPast, Past
  <2>3. CASE f = g BY <2>2, <2>3 DEF RowPast
  <2>4. CASE f # g
    <3>1. RowHonest(f) /\ disk'[f] = disk[f] BY <2>4 DEF LocalInv, OnlyFile
    <3>2. RowHonest(f)' BY <1>1, <3>1 DEF RowHonest, OnlyFile, Prefix, Present
    <3> QED BY <2>2, <3>2 DEF RowPast
  <2> QED BY <2>3, <2>4
<1>7. ASSUME NEW p \in Procs PROVE ProcFits(p)'
  <2>0. ProcFits(p) /\ ProcType(p) BY TypeParts DEF LocalInv
  <2>1. ProcPast(p)'
    <3>1. \A f \in DOMAIN scan[p].stats :
            /\ f \in Files /\ scan[p].stats[f] \in States
            /\ scan[p].stats[f].version <= disk[f].version
      BY <2>0 DEF ProcFits, ProcType, ProcPast, Past
    <3>2. \A f \in todo[p] \cup whole[p] :
            /\ f \in Files /\ listed[p][f] \in States
            /\ listed[p][f].version <= disk[f].version
      BY <1>2, <2>0 DEF TypeOK, ProcFits, ProcType, ProcPast, Past
    <3> QED BY <1>1, <1>5, <3>1, <3>2 DEF ProcPast, Past
  <2>2. Hand(p)' = Hand(p) BY <1>1 DEF Hand
  <2>3. ASSUME pc[p] \in {"at tail", "to mark"} PROVE Hand(p) \in Files
    BY <1>2, <2>0, <2>3, HandIn DEF ProcType
  <2>4. ASSUME NEW f \in Files, f # g, NEW b, Reached(f, b) PROVE Reached(f, b)'
    <3>1. disk'[f] = disk[f] /\ events'[f] = events[f] /\ torn \subseteq torn'
      BY <1>1, <2>4 DEF OnlyFile
    <3> QED BY <2>4, <3>1 DEF Reached, Held, Prefix, Present
  <2>5. TailFits(p)'
    <3> SUFFICES ASSUME pc[p] = "at tail" PROVE Reached(Hand(p), start[p])'
      BY <1>1 DEF TailFits
    <3>1. PICK f \in Files : f = Hand(p) BY <2>3
    <3>2. Reached(f, start[p]) BY <2>0, <3>1 DEF ProcFits, TailFits
    <3>3. Reached(f, start[p])'
      <4>1. CASE f = g BY <3>1, <4>1
      <4>2. CASE f # g
        <5>1. \A b : Reached(f, b) => Reached(f, b)' BY <2>4, <4>2
        <5> QED BY <1>1, <3>2, <5>1 DEF Reached, Held, Prefix
      <4> QED BY <4>1, <4>2
    <3> QED BY <1>1, <2>2, <3>1, <3>3
  <2>6. MarkFits(p)'
    <3> SUFFICES ASSUME pc[p] = "to mark" PROVE Reached(Hand(p), listed[p][Hand(p)].size)'
      BY <1>1 DEF MarkFits
    <3>1. PICK f \in Files : f = Hand(p) BY <2>3
    <3>2. Reached(f, listed[p][f].size) BY <2>0, <3>1 DEF ProcFits, MarkFits
    <3>3. Reached(f, listed[p][f].size)'
      <4>1. CASE f = g BY <3>1, <4>1
      <4>2. CASE f # g
        <5>1. \A b : Reached(f, b) => Reached(f, b)' BY <2>4, <4>2
        <5> QED BY <1>1, <3>2, <5>1 DEF Reached, Held, Prefix
      <4> QED BY <4>1, <4>2
    <3> QED BY <1>1, <2>2, <3>1, <3>3
  <2> QED BY <2>1, <2>5, <2>6 DEF ProcFits
<1> QED BY <1>2, <1>6, <1>7 DEF LocalInv

LEMMA GrowthKeeps ==
  ASSUME LocalInv, NEW g \in Files, Append(g) \/ BeginLine(g) \/ Remove(g)
  PROVE  LocalInv'
<1>0. TypeOK BY DEF LocalInv
<1>1. /\ UNCHANGED <<row, events, root, lock, pc, scan, listed, todo, whole, start, torn>>
      /\ disk' \in [Files -> Contents]
      /\ \A f \in Files \ {g} : disk'[f] = disk[f]
      /\ disk'[g].version = disk[g].version
  BY <1>0, Grows
<1>2. \/ /\ g \in Present
         /\ Bytes(disk[g]) <= Bytes(disk'[g])
         /\ \A b \in Nat : b <= Bytes(disk[g]) => Prefix(g, b)' = Prefix(g, b)
      \/ disk'[g].text = {} /\ g \notin Present'
  BY <1>0, Grows
<1>3. Bytes(disk[g]) \in Nat /\ disk[g].version \in Nat BY <1>0, DiskType
<1>4. Bytes(disk'[g]) \in Nat
  <2>1. disk'[g] \in Contents BY <1>1
  <2> QED BY <2>1 DEF Contents, Bytes
<1>5. torn \subseteq Files BY <1>0 DEF TypeOK
<1>6. OnlyFile(g) BY <1>1, <1>3, <1>5 DEF OnlyFile
<1>7. ASSUME NEW b \in Nat, g \notin torn => b <= Bytes(disk[g]) \/ g \notin Present, Held(g, b) \/ g \in torn
      PROVE  g \notin torn => Real({l \in disk'[g].text : 2 * (l[2] - 1) < b}) \subseteq events[g]
  <2>1. CASE g \in Present /\ b <= Bytes(disk[g])
    BY <1>2, <1>7, <2>1 DEF Held, Prefix, Real
  <2>2. CASE g \notin Present BY <1>2, <2>2 DEF Real
  <2> QED BY <1>2, <1>7, <2>1, <2>2
<1>8. ASSUME NEW b \in Nat, Reached(g, b) PROVE \A c : c = b => Reached(g, c)'
  <2>1. CASE g \in Present
    BY <1>1, <1>2, <1>3, <1>4, <1>7, <1>8, <2>1 DEF Reached, Held, Prefix, Present
  <2>2. CASE g \notin Present
    BY <1>1, <1>2, <2>2 DEF Reached, Held, Prefix, Real, Present
  <2> QED BY <2>1, <2>2
<1>9. RowHonest(g)'
  <2>1. RowHonest(g) /\ row[g].last.size \in Nat BY <1>0, RowType DEF LocalInv
  <2>2. CASE g \in Present
    BY <1>1, <1>2, <1>3, <1>4, <2>1, <2>2 DEF RowHonest, Present
  <2>3. CASE g \notin Present
    BY <1>1, <1>2, <2>1, <2>3 DEF RowHonest
  <2> QED BY <2>2, <2>3
<1>10. ASSUME NEW p \in Procs
       PROVE  /\ pc[p] = "at tail" /\ Hand(p) = g => Reached(g, start[p])'
              /\ pc[p] = "to mark" /\ Hand(p) = g => Reached(g, listed[p][g].size)'
  <2>0. ProcFits(p) /\ ProcType(p) BY TypeParts DEF LocalInv
  <2>1. ASSUME pc[p] = "at tail", Hand(p) = g PROVE Reached(g, start[p])'
    <3>1. start[p] \in Nat /\ Reached(g, start[p])
      BY <1>0, <2>0, <2>1 DEF TypeOK, ProcFits, TailFits
    <3> QED BY <1>1, <1>8, <3>1
  <2>2. ASSUME pc[p] = "to mark", Hand(p) = g PROVE Reached(g, listed[p][g].size)'
    <3>1. Reached(g, listed[p][g].size) BY <2>0, <2>2 DEF ProcFits, MarkFits
    <3>2. g \in todo[p] \cup whole[p] BY <1>0, <2>0, <2>2, HandIn DEF ProcType
    <3>3. listed[p][g].size \in Nat BY <2>0, <3>2 DEF ProcType, States
    <3> QED BY <1>1, <1>8, <3>1, <3>3
  <2> QED BY <2>1, <2>2
<1> QED BY <1>6, <1>9, <1>10, FileKeeps

\* The version that was indexed is not the one of a file that was replaced.
LEMMA ReplaceKeeps ==
  ASSUME LocalInv, NEW g \in Files, Replace(g)
  PROVE  LocalInv'
<1>0. TypeOK BY DEF LocalInv
<1>1. /\ UNCHANGED <<row, events, root, lock, pc, scan, listed, todo, whole, start>>
      /\ disk' \in [Files -> Contents]
      /\ \A f \in Files \ {g} : disk'[f] = disk[f]
      /\ disk'[g].version = disk[g].version + 1
      /\ torn \subseteq torn' /\ torn' \subseteq Files
      /\ BeingRead(g) => g \in torn'
  BY <1>0, Replaced
<1>2. disk[g].version \in Nat BY <1>0, DiskType
<1>3. OnlyFile(g) BY <1>1, <1>2 DEF OnlyFile
<1>4. RowHonest(g)'
  <2>1. RowHonest(g) /\ RowPast(g) /\ row[g].indexed \in States
    BY <1>0, RowType DEF LocalInv
  <2>2. row[g].indexed.version # disk'[g].version
    BY <1>1, <1>2, <2>1 DEF RowPast, Past, States
  <2> QED BY <1>1, <2>1, <2>2 DEF RowHonest
<1>5. ASSUME NEW p \in Procs, pc[p] \in {"at tail", "to mark"}, Hand(p) = g
      PROVE  g \in torn'
  BY <1>1, <1>5 DEF BeingRead
<1>7. ASSUME NEW p \in Procs
      PROVE  /\ pc[p] = "at tail" /\ Hand(p) = g => Reached(g, start[p])'
             /\ pc[p] = "to mark" /\ Hand(p) = g => Reached(g, listed[p][g].size)'
  BY <1>5 DEF Reached
<1> QED BY <1>3, <1>4, <1>7, FileKeeps

-----------------------------------------------------------------------------
(* The theorems. *)

LEMMA InitLocalInv == Init => LocalInv
<1> SUFFICES ASSUME Init PROVE LocalInv
  OBVIOUS
<1>1. /\ row = [f \in Files |-> [stat |-> None, stale |-> FALSE, status |-> "pending",
                                 indexed |-> None, last |-> NoCheckpoint]]
      /\ disk = [f \in Files |-> [version |-> 1, lines |-> FirstLines[f], half |-> "no",
                                  text |-> {1} \X (1 .. FirstLines[f])]]
      /\ scan = [p \in Procs |-> Unseen]
      /\ pc = [p \in Procs |-> "idle"]
      /\ todo = [p \in Procs |-> {}] /\ whole = [p \in Procs |-> {}]
      /\ torn = {}
  BY DEF Init
<1>2. \A f \in Files : /\ disk[f] \in Contents
                       /\ disk[f].version = 1
  <2>1. \A f \in Files : FirstLines[f] \in Nat BY ImportAssumption DEF ImportAssumption
  <2>2. \A f \in Files : {1} \X (1 .. FirstLines[f]) \in Texts BY <2>1 DEF Texts
  <2> QED BY <1>1, <2>1, <2>2 DEF Contents
<1>3. disk \in [Files -> Contents] BY <1>1, <1>2
<1>4. row \in [Files -> Rows]
  <2>1. None \in States BY DEF None, States
  <2>2. NoCheckpoint \in [size : Nat, prefix : Texts] BY DEF NoCheckpoint, Texts
  <2> QED BY <1>1, <2>1, <2>2 DEF Rows
<1>5. \A p \in Procs : DOMAIN scan[p].stats = {} /\ scan[p].missing = {}
  BY <1>1 DEF Unseen
<1>6. TypeOK
  <2>1. /\ events \in [Files -> SUBSET (Nat \X (Nat \ Noise))]
        /\ root \in [Files -> {"none", "file", "tree"}]
        /\ lock \in Procs \cup {0}
        /\ pc \in [Procs -> {"idle", "scanned", "cataloged", "at work", "at tail", "to mark"}]
        /\ todo \in [Procs -> SUBSET Files] /\ whole \in [Procs -> SUBSET Files]
        /\ start \in [Procs -> Nat]
        /\ torn \subseteq Files
        /\ DOMAIN scan = Procs /\ DOMAIN listed = Procs
    BY DEF Init
  <2>2. \A p \in Procs : pc[p] = "idle" /\ todo[p] \cup whole[p] = {} BY <1>1
  <2> QED BY <1>3, <1>4, <1>5, <2>1, <2>2 DEF TypeOK, Contents
<1>7. \A f \in Files : /\ row[f].stat = None /\ row[f].indexed = None
                       /\ row[f].status = "pending" /\ row[f].last.prefix = {}
  BY <1>1 DEF NoCheckpoint
<1>8. ASSUME NEW f \in Files PROVE RowPast(f) /\ RowHonest(f)
  <2>1. Past(f, None) BY <1>2 DEF Past, None
  <2> QED BY <1>7, <2>1 DEF RowPast, RowHonest, Real
<1>9. \A p \in Procs : ProcFits(p)
  BY <1>1, <1>5 DEF ProcFits, ProcPast, TailFits, MarkFits
<1> QED BY <1>6, <1>8, <1>9 DEF LocalInv

LEMMA NextLocalInv == LocalInv /\ [Next]_vars => LocalInv'
<1> SUFFICES ASSUME LocalInv, [Next]_vars PROVE LocalInv'
  OBVIOUS
<1>1. ASSUME NEW p \in Procs, Step(p) PROVE LocalInv'
  <2>1. CASE Scan(p) BY <2>1, ScanKeeps
  <2>2. CASE Catalog(p) BY <2>2, CatalogKeeps
  <2>3. CASE Take(p) BY <2>3, TakeKeeps
  <2>4. CASE GiveUp(p) BY <2>4, GiveUpKeeps
  <2>5. CASE Finish(p) BY <2>5, FinishKeeps
  <2>6. CASE Look(p) BY <2>6, LookKeeps
  <2>7. CASE Tail(p) BY <2>7, TailKeeps
  <2>8. CASE Whole(p) BY <2>8, WholeKeeps
  <2>9. CASE Mark(p) BY <2>9, MarkKeeps
  <2> QED BY <1>1, <2>1, <2>2, <2>3, <2>4, <2>5, <2>6, <2>7, <2>8, <2>9 DEF Step
<1>2. ASSUME NEW p \in Procs, Crash(p) PROVE LocalInv' BY <1>2, CrashKeeps
<1>3. ASSUME NEW f \in Files, Agent(f) PROVE LocalInv'
  <2>1. CASE Append(f) \/ BeginLine(f) \/ Remove(f) BY <2>1, GrowthKeeps
  <2>2. CASE Replace(f) BY <2>2, ReplaceKeeps
  <2> QED BY <1>3, <2>1, <2>2 DEF Agent
<1>4. CASE UNCHANGED vars
  <2>1. /\ UNCHANGED <<disk, row, events, root, lock, pc, torn>>
        /\ UNCHANGED <<scan, listed, todo, whole, start>>
    BY <1>4 DEF vars, mine
  <2>2. TypeOK' BY <2>1 DEF LocalInv, TypeOK
  <2>3. \A f \in Files : RowPast(f)' /\ RowHonest(f)'
    BY <2>1 DEF LocalInv, RowPast, Past, RowHonest, Prefix, Present
  <2>4. ASSUME NEW p \in Procs PROVE ProcFits(p)'
    <3>1. ProcFits(p) BY DEF LocalInv
    <3>2. Hand(p)' = Hand(p) BY <2>1 DEF Hand
    <3> QED BY <2>1, <3>1, <3>2
        DEF ProcFits, ProcPast, Past, TailFits, MarkFits, Reached, Held, Prefix, Present
  <2> QED BY <2>2, <2>3, <2>4 DEF LocalInv
<1> QED BY <1>1, <1>2, <1>3, <1>4 DEF Next

\* The inductive invariant: checkpoints, starts of tails and what is to be marked
\* have their events in the store, and a row that is indexed has the checkpoint
\* of the file that it is about.
THEOREM LocalInvariance == Spec => []LocalInv
<1> QED BY InitLocalInv, NextLocalInv, PTL DEF Spec

\* The variables keep their types.
THEOREM LocalTypeCorrect == Spec => []TypeOK
<1>1. LocalInv => TypeOK BY DEF LocalInv
<1> QED BY <1>1, LocalInvariance, PTL

\* A file that the catalog calls imported has all its events in the store
\* (mark_catalog_source_indexed, catalog_pending_import_condition_sql), whatever
\* the agents do: only a file that was torn may be an exception.
THEOREM NothingSkippedAlways == Spec => []NothingSkipped
<1>1. LocalInv => NothingSkipped
  <2> SUFFICES ASSUME LocalInv, NEW f \in Known \cap Present,
                      row[f].stat = Stat(f), ~row[f].stale, ~Pending(f), f \notin torn
               PROVE  Content(f) \subseteq events[f]
    BY DEF NothingSkipped
  <2>1. f \in Files /\ TypeOK BY DEF Known, LocalInv
  <2>2. row[f].status = "indexed" /\ row[f].indexed = Stat(f) BY DEF Pending
  <2>3. Stat(f).size = Bytes(disk[f]) /\ Stat(f).version = disk[f].version BY DEF Stat
  <2>4. row[f].last.size = Bytes(disk[f]) /\ row[f].last.prefix = Prefix(f, Bytes(disk[f]))
    BY <2>1, <2>2, <2>3 DEF LocalInv, RowHonest
  <2>5. Real(Prefix(f, Bytes(disk[f]))) \subseteq events[f]
    BY <2>1, <2>4 DEF LocalInv, RowHonest
  <2>6. Content(f) \subseteq Real(Prefix(f, Bytes(disk[f])))
    <3>1. /\ disk[f].lines \in Nat /\ disk[f].text \in Texts /\ Bytes(disk[f]) \in Nat
          /\ 2 * disk[f].lines <= Bytes(disk[f])
      BY <2>1, DiskType
    <3>2. \A n \in Nat : n <= disk[f].lines => 2 * (n - 1) < Bytes(disk[f]) BY <3>1
    <3>3. \A l \in disk[f].text : l[2] \in Nat BY <3>1 DEF Texts
    <3> QED BY <3>2, <3>3 DEF Content, EventsFrom, Real, Prefix
  <2> QED BY <2>5, <2>6
<1> QED BY <1>1, LocalInvariance, PTL

\* The text under a checkpoint is in the store, so that a tail leaves nothing out
\* (import_incremental_codex_session_tree); unless the file was torn.
THEOREM CheckpointAlwaysHonest == Spec => []CheckpointHonest
<1>1. LocalInv => CheckpointHonest
  BY DEF LocalInv, RowHonest, CheckpointHonest, Real
<1> QED BY <1>1, LocalInvariance, PTL
=============================================================================
