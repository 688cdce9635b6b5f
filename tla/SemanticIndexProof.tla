------------------------- MODULE SemanticIndexProof -------------------------
(***************************************************************************)
(* The backfill of SemanticIndex passes over no document, for any number   *)
(* of documents, any budgets and any number of changes and kills.  First   *)
(* what a page of documents is, then the invariant of the pass.            *)
(***************************************************************************)
EXTENDS SemanticIndex, FiniteSetTheorems, FunctionTheorems, WellFoundedInduction,
        TLAPS

LEMMA LeastOfTwo ==
  ASSUME NEW a \in Nat, NEW b \in Nat
  PROVE  Min({a, b}) = IF a <= b THEN a ELSE b
<1> DEFINE m == IF a <= b THEN a ELSE b
<1>1. m \in {a, b} /\ \A y \in {a, b} : m <= y
  OBVIOUS
<1>2. \A x \in {a, b} : (\A y \in {a, b} : x <= y) => x = m
  OBVIOUS
<1> QED BY <1>1, <1>2 DEF Min

\* A set of numbers with a bound has a greatest one.
LEMMA Greatest ==
  ASSUME NEW b \in Nat, NEW S \in SUBSET (0 .. b), S # {}
  PROVE  /\ Max(S) \in S
         /\ \A y \in S : Max(S) >= y
<1> DEFINE T == {x .. b : x \in S}
<1>1. T \subseteq FiniteSubsetsOf(Nat) /\ T # {}
  <2>1. ASSUME NEW x \in S PROVE x .. b \in FiniteSubsetsOf(Nat)
    <3>1. x \in Int /\ x .. b \subseteq Nat
      OBVIOUS
    <3> QED BY <3>1, FS_Interval DEF FiniteSubsetsOf
  <2> QED BY <2>1
<1>2. PICK x \in S : \A V \in T : <<V, x .. b>> \notin StrictSubsetOrdering(Nat)
  <2> HIDE DEF T
  <2>1. PICK U \in T : \A V \in T : <<V, U>> \notin StrictSubsetOrdering(Nat)
    BY <1>1, FS_StrictSubsetOrderingWellFounded, WFMin
  <2> QED BY <2>1 DEF T
<1>3. ASSUME NEW y \in S, y > x PROVE FALSE
  <2>1. x \in x .. b /\ x \notin y .. b /\ y .. b \subseteq x .. b
    BY <1>3
  <2>2. x .. b \in SUBSET Nat /\ y .. b \in SUBSET Nat /\ y .. b # x .. b
    BY <2>1
  <2>3. <<y .. b, x .. b>> \in StrictSubsetOrdering(Nat)
    BY <2>1, <2>2 DEF StrictSubsetOrdering
  <2> QED BY <1>2, <2>3
<1>4. \E z \in S : \A y \in S : z >= y
  BY <1>3
<1> QED BY <1>4 DEF Max
-----------------------------------------------------------------------------
(* The pages. *)

Precedes(key, d, e) == key[d] > key[e] \/ (key[d] = key[e] /\ d > e)

Rank(S, key) == [d \in S |-> Cardinality(
                  {e \in S : key[e] > key[d] \/ (key[e] = key[d] /\ e >= d)})]

\* The ranks are the numbers from 1 on, the lower the earlier.
LEMMA Ranks ==
  ASSUME NEW S \in SUBSET Docs, NEW key \in [Docs -> Nat]
  PROVE  /\ IsFiniteSet(S)
         /\ Cardinality(S) \in Nat
         /\ Rank(S, key) \in Bijection(S, 1 .. Cardinality(S))
         /\ \A d, e \in S : Precedes(key, d, e) => Rank(S, key)[d] < Rank(S, key)[e]
<1> DEFINE Up(d) == {e \in S : key[e] > key[d] \/ (key[e] = key[d] /\ e >= d)}
           rank == Rank(S, key)
           c == Cardinality(S)
<1>1. S \subseteq Nat /\ IsFiniteSet(S) /\ c \in Nat
  BY IndexAssumption, FS_Subset, FS_CardinalityType DEF IndexAssumption
<1>2. ASSUME NEW d \in S PROVE rank[d] = Cardinality(Up(d)) /\ rank[d] \in 1 .. c
  <2>1. rank[d] = Cardinality(Up(d))
    BY DEF Rank
  <2>2. d \in Up(d) /\ Up(d) \subseteq S
    BY <1>1
  <2> HIDE DEF Up
  <2>3. IsFiniteSet(Up(d)) /\ Cardinality(Up(d)) <= c /\ Cardinality(Up(d)) \in Nat
    BY <1>1, <2>2, FS_Subset, FS_CardinalityType
  <2>4. Cardinality(Up(d)) # 0
    <3>1. Up(d) # {}
      BY <2>2
    <3> QED BY <2>3, <3>1, FS_EmptySet
  <2> QED BY <2>1, <2>3, <2>4, <1>1
<1>3. ASSUME NEW d \in S, NEW e \in S, Precedes(key, d, e)
      PROVE  rank[d] < rank[e]
  <2>0. \A x \in S : x \in Nat /\ key[x] \in Nat
    BY <1>1
  <2>1. Up(d) \subseteq Up(e) /\ e \in Up(e) /\ e \notin Up(d)
    BY <2>0, <1>3 DEF Precedes
  <2>2. Up(e) \subseteq S
    OBVIOUS
  <2> HIDE DEF Up
  <2>3. IsFiniteSet(Up(e)) /\ Up(d) # Up(e)
    BY <1>1, <2>1, <2>2, FS_Subset
  <2>4. /\ Cardinality(Up(d)) <= Cardinality(Up(e))
        /\ Cardinality(Up(e)) # Cardinality(Up(d))
    BY <2>1, <2>3, FS_Subset
  <2>5. /\ rank[d] = Cardinality(Up(d)) /\ rank[d] \in 1 .. c
        /\ rank[e] = Cardinality(Up(e)) /\ rank[e] \in 1 .. c
    BY <1>2
  <2> HIDE DEF rank, c
  <2> QED BY <1>1, <2>4, <2>5
<1>4. rank \in [S -> 1 .. c]
  <2>1. rank = [d \in S |-> rank[d]]
    BY DEF Rank
  <2> QED BY <1>2, <2>1
<1>5. ASSUME NEW d \in S, NEW e \in S, rank[d] = rank[e] PROVE d = e
  <2>1. d # e => Precedes(key, d, e) \/ Precedes(key, e, d)
    BY <1>1 DEF Precedes
  <2>2. rank[d] \in 1 .. c /\ rank[e] \in 1 .. c
    BY <1>2
  <2>3. /\ Precedes(key, d, e) => rank[d] < rank[e]
        /\ Precedes(key, e, d) => rank[e] < rank[d]
    BY <1>3
  <2> HIDE DEF rank, c
  <2> QED BY <1>1, <1>5, <2>1, <2>2, <2>3
<1> HIDE DEF rank
<1>6. rank \in Injection(S, 1 .. c)
  BY <1>4, <1>5 DEF Injection, IsInjective
<1>7. IsFiniteSet(1 .. c) /\ Cardinality(1 .. c) = c
  BY <1>1, FS_Interval
<1>8. rank \in Surjection(S, 1 .. c)
  BY <1>6, <1>7, FS_Injection
<1> QED BY <1>1, <1>3, <1>6, <1>8 DEF Bijection, rank

\* First yields a sequence of elements in the order of the key; what it leaves
\* out comes later than all of them, and it leaves out nothing without need.
LEMMA FirstFacts ==
  ASSUME NEW S \in SUBSET Docs, NEW n \in Nat, NEW key \in [Docs -> Nat],
         NEW f, f = First(S, n, key)
  PROVE  /\ f \in Seq(S)
         /\ Len(f) <= n
         /\ IsFiniteSet(ToSet(f)) /\ ToSet(f) \subseteq S
         /\ Cardinality(ToSet(f)) <= n
         /\ \A i, j \in DOMAIN f : i < j => Precedes(key, f[i], f[j])
         /\ \A d \in S \ ToSet(f) : \A i \in DOMAIN f : Precedes(key, f[i], d)
         /\ Cardinality(S) <= n => ToSet(f) = S
<1> DEFINE c == Cardinality(S)
           rank == Rank(S, key)
           m == IF n <= c THEN n ELSE c
<1>1. /\ IsFiniteSet(S) /\ c \in Nat
      /\ rank \in [S -> 1 .. c]
      /\ \A d, e \in S : rank[d] = rank[e] => d = e
      /\ \A i \in 1 .. c : \E d \in S : rank[d] = i
      /\ \A d, e \in S : Precedes(key, d, e) => rank[d] < rank[e]
  BY Ranks DEF Bijection, Injection, Surjection, IsInjective
<1>2. m \in Nat /\ m <= n /\ m <= c /\ (c <= n => m = c)
  BY <1>1
<1>3. f = [i \in 1 .. m |-> CHOOSE d \in S : rank[d] = i]
  BY <1>1, LeastOfTwo DEF First, Rank
<1> HIDE DEF c, rank, m
<1>4. ASSUME NEW i \in 1 .. m PROVE f[i] \in S /\ rank[f[i]] = i
  <2>1. i \in 1 .. c
    BY <1>1, <1>2
  <2> QED BY <1>1, <1>3, <2>1
<1>5. f \in [1 .. m -> S] /\ DOMAIN f = 1 .. m
  BY <1>3, <1>4
<1>6. f \in Seq(S) /\ Len(f) = m
  BY <1>2, <1>5
<1>7. ToSet(f) \subseteq S /\ \A i \in 1 .. m : f[i] \in ToSet(f)
  BY <1>4, <1>5 DEF ToSet
<1>8. IsFiniteSet(ToSet(f)) /\ Cardinality(ToSet(f)) <= n
  <2>1. f \in Surjection(1 .. m, ToSet(f))
    BY <1>5, <1>7 DEF Surjection, ToSet
  <2>2. IsFiniteSet(1 .. m) /\ Cardinality(1 .. m) = m
    BY <1>2, FS_Interval
  <2>3. IsFiniteSet(ToSet(f)) /\ Cardinality(ToSet(f)) <= m
    BY <2>1, <2>2, FS_Surjection
  <2> QED BY <1>2, <2>3, FS_CardinalityType
<1>9. ASSUME NEW d \in S, NEW e \in S, rank[d] < rank[e]
      PROVE  Precedes(key, d, e)
  <2>1. d \in Nat /\ e \in Nat /\ key[d] \in Nat /\ key[e] \in Nat
    BY IndexAssumption DEF IndexAssumption
  <2>2. rank[d] \in Nat /\ rank[e] \in Nat
    BY <1>1
  <2>3. ~(rank[e] < rank[d]) /\ d # e
    BY <1>9, <2>2
  <2>4. ~Precedes(key, e, d)
    BY <1>1, <2>3
  <2> QED BY <2>1, <2>3, <2>4 DEF Precedes
<1>10. \A i, j \in DOMAIN f : i < j => Precedes(key, f[i], f[j])
  BY <1>4, <1>5, <1>9
<1>11. ASSUME NEW d \in S, d \notin ToSet(f) PROVE rank[d] > m
  <2>1. rank[d] \in 1 .. c
    BY <1>1
  <2>2. ASSUME rank[d] \in 1 .. m PROVE FALSE
    <3>1. f[rank[d]] = d
      BY <1>1, <1>4, <2>2
    <3> QED BY <1>7, <1>11, <2>2, <3>1
  <2> QED BY <1>1, <1>2, <2>1, <2>2
<1>12. ASSUME NEW d \in S \ ToSet(f), NEW i \in DOMAIN f PROVE Precedes(key, f[i], d)
  <2>1. rank[f[i]] = i /\ f[i] \in S /\ i <= m
    BY <1>4, <1>5, <1>2
  <2>2. rank[d] > m /\ rank[d] \in Nat
    BY <1>1, <1>11
  <2> QED BY <1>2, <1>5, <1>9, <2>1, <2>2
<1>13. c <= n => ToSet(f) = S
  <2> SUFFICES ASSUME c <= n, NEW d \in S PROVE d \in ToSet(f)
    BY <1>7
  <2>1. rank[d] \in 1 .. c
    BY <1>1
  <2> QED BY <1>1, <1>2, <1>11, <2>1
<1> QED BY <1>2, <1>6, <1>7, <1>8, <1>10, <1>12, <1>13 DEF c

Document == [id : Docs, text : Nat, at : Nat]

\* The documents of a page are put in the order of their last activity, but
\* none that it leaves out is younger than one of them.
InOrder(B) ==
  \A i, j \in DOMAIN B : i < j => \/ B[i].at > B[j].at
                                  \/ B[i].at = B[j].at /\ B[i].id > B[j].id
PageOf(B, S) ==
  \A d \in S : \/ \E i \in DOMAIN B : B[i].id = d
              \/ \A i \in DOMAIN B : B[i].id > d

LEMMA Keys ==
  ASSUME text \in [Docs -> Nat]
  PROVE  /\ Time \in [Docs -> Nat] /\ Activity \in [Docs -> Nat]
         /\ \A d \in Docs : Time[d] = d /\ Activity[d] >= d
         /\ Docs \subseteq Nat
  BY IndexAssumption DEF IndexAssumption, Time, Activity

LEMMA Pages ==
  ASSUME text \in [Docs -> Nat], NEW b \in Nat, NEW n \in Nat,
         NEW B, B = RecentDocuments(b, n)
  PROVE  /\ B \in Seq(Document)
         /\ \A i \in DOMAIN B : B[i].text = text[B[i].id] /\ B[i].at >= B[i].id
         /\ InOrder(B)
         /\ PageOf(B, {d \in Searchable : b = 0 \/ d < b})
<1> DEFINE S == {d \in Searchable : b = 0 \/ d < b}
           p == First(S, n, Time)
           s == First(ToSet(p), n, Activity)
<1>1. S \in SUBSET Docs
  BY DEF Searchable
<1>2. /\ ToSet(p) \subseteq S /\ Cardinality(ToSet(p)) <= n
      /\ \A d \in S \ ToSet(p) : \A i \in DOMAIN p : Precedes(Time, p[i], d)
  <2>1. p = First(S, n, Time) /\ Time \in [Docs -> Nat]
    BY Keys
  <2> HIDE DEF S, p
  <2> QED BY <1>1, <2>1, FirstFacts
<1>3. ASSUME NEW d \in S \ ToSet(p), NEW e \in ToSet(p) PROVE e > d
  <2> HIDE DEF p
  <2>1. PICK i \in DOMAIN p : e = p[i]
    BY DEF ToSet
  <2>2. e \in Docs /\ d \in Docs
    BY <1>1, <1>2
  <2> QED BY <1>2, <2>1, <2>2, Keys DEF Precedes
<1>4. ToSet(p) \in SUBSET Docs
  BY <1>1, <1>2
<1>5. /\ s \in Seq(ToSet(p)) /\ ToSet(s) = ToSet(p)
      /\ \A i, j \in DOMAIN s : i < j => Precedes(Activity, s[i], s[j])
  <2> HIDE DEF p
  <2> QED BY <1>2, <1>4, Keys, FirstFacts
<1>6. B = [i \in DOMAIN s |-> Read(s[i])]
  BY DEF RecentDocuments
<1> HIDE DEF p, s, S
<1>7. /\ DOMAIN B = DOMAIN s /\ DOMAIN s = 1 .. Len(s) /\ Len(s) \in Nat
      /\ \A i \in DOMAIN s : s[i] \in ToSet(p) /\ s[i] \in Docs
  BY <1>4, <1>5, <1>6
<1>8. ASSUME NEW i \in DOMAIN B
      PROVE  /\ B[i] \in Document /\ B[i].id = s[i] /\ B[i].text = text[s[i]]
             /\ B[i].at = Activity[s[i]] /\ B[i].at >= s[i]
  BY <1>6, <1>7, Keys DEF Read, Document
<1>9. B \in Seq(Document)
  <2>1. B \in [1 .. Len(s) -> Document]
    BY <1>6, <1>7, <1>8
  <2> QED BY <1>7, <2>1
<1>10. InOrder(B)
  BY <1>5, <1>7, <1>8 DEF InOrder, Precedes
<1>11. PageOf(B, S)
  <2> SUFFICES ASSUME NEW d \in S
               PROVE  \/ \E i \in DOMAIN B : B[i].id = d
                      \/ \A i \in DOMAIN B : B[i].id > d
    BY DEF PageOf
  <2>1. CASE d \in ToSet(p)
    <3>1. PICK i \in DOMAIN s : s[i] = d
      BY <1>5, <2>1 DEF ToSet
    <3> QED BY <1>7, <1>8, <3>1
  <2>2. CASE d \notin ToSet(p)
    BY <1>3, <1>7, <1>8, <2>2
  <2> QED BY <2>1, <2>2
<1> QED BY <1>8, <1>9, <1>10, <1>11 DEF S
-----------------------------------------------------------------------------
(* The pass. *)

Typed ==
  /\ text \in [Docs -> Nat]
  /\ dirty \subseteq Docs /\ stale \subseteq Docs
  /\ cursor \in Nat /\ before \in Nat
  /\ batch \in Seq(Document)
  /\ consumed \in 0 .. Len(batch)
  /\ pc = "dirty" => left = MaxChunks

\* After the first page the pages follow the cursor.
Follows ==
  pc \in {"dirty", "index", "dequeue", "page", "advance"} =>
    before = IF probed THEN cursor ELSE 0

\* What has been read is so still, or has changed.
Fresh ==
  pc \in {"index", "dequeue", "advance"} =>
    \A i \in DOMAIN batch : \/ batch[i].id \in changed
                           \/ batch[i].text = text[batch[i].id]

\* A page is one, but for what has changed.
PageRead ==
  pc \in {"index", "advance"} /\ queued = {} =>
    /\ \A i \in DOMAIN batch : batch[i].at >= batch[i].id
    /\ InOrder(batch)
    /\ PageOf(batch, {d \in Searchable \ changed : before = 0 \/ d < before})

\* What counts as consumed has its vectors.
Counted ==
  pc = "advance" =>
    /\ queued = {}
    /\ \A i \in 1 .. consumed : \/ batch[i].id \in changed
                                \/ vec[batch[i].id] = batch[i].text

IndexInv == Typed /\ Follows /\ Fresh /\ PageRead /\ Counted /\ PassedIsEmbedded

LEMMA IdsAreDocs ==
  ASSUME NEW B \in Seq(Document)
  PROVE  \A i \in DOMAIN B : B[i] \in Document /\ B[i].id \in Docs /\ B[i].at \in Nat
<1>1. \A i \in DOMAIN B : B[i] \in Document
  OBVIOUS
<1> QED BY <1>1 DEF Document

\* Documents change: what is passed, read or consumed is marked as changed.
LEMMA ChangeKeeps ==
  ASSUME IndexInv, NEW d \in Docs, NEW t \in Nat, Change(d, t)
  PROVE  IndexInv'
<1>1. /\ text' = [text EXCEPT ![d] = t] /\ text \in [Docs -> Nat]
      /\ UNCHANGED <<vec, dirty, cursor, pc, before, probed, left, batch, queued,
                     consumed, stale>>
      /\ (pc = "idle" /\ cursor = 0) \/ changed' = changed \cup {d}
  BY DEF Change, IndexInv, Typed, sidecar, pass, work, pruning
<1>2. text' \in [Docs -> Nat] /\ \A e \in Docs \ {d} : text'[e] = text[e]
  BY <1>1
<1>3. \A i \in DOMAIN batch : batch[i].id \in Docs
  BY IdsAreDocs DEF IndexInv, Typed
<1>4. Typed' BY <1>1, <1>2 DEF IndexInv, Typed
<1>5. Follows' BY <1>1 DEF IndexInv, Follows
<1>6. pc # "idle" => changed' = changed \cup {d}
  BY <1>1
<1>7. Fresh' BY <1>1, <1>2, <1>3, <1>6 DEF IndexInv, Fresh
<1>8. Counted' BY <1>1, <1>6 DEF IndexInv, Counted
<1>9. PassedIsEmbedded' BY <1>1, <1>2 DEF IndexInv, PassedIsEmbedded, Searchable
<1>10. PageRead'
  <2>1. ASSUME pc # "idle"
        PROVE  (Searchable \ changed)' \subseteq Searchable \ changed
    BY <1>2, <1>6, <2>1 DEF Searchable
  <2> QED BY <1>1, <2>1 DEF IndexInv, PageRead, InOrder, PageOf
<1> QED BY <1>4, <1>5, <1>7, <1>8, <1>9, <1>10 DEF IndexInv

\* The steps between the iterations and the start of the backfill.
LEMMA OutsideKeeps ==
  ASSUME IndexInv,
         \/ Bootstrap \/ Refresh \/ Job \/ Prune \/ QueueStale \/ Pruned \/ Begin
         \/ TimeUp \/ Final \/ Crash
  PROVE  IndexInv'
<1> USE DEF Follows, Fresh, PageRead, Counted
<1>1. CASE Bootstrap \/ Refresh \/ Pruned
  BY <1>1 DEF Bootstrap, Refresh, Pruned, IndexInv, Typed, PassedIsEmbedded,
     Searchable, world, sidecar, pass, work, pruning
<1>2. CASE Job
  <2>1. QueueRecent \subseteq Docs
    <3>1. RecentDocuments(0, RecentLimit) \in Seq(Document)
      BY Pages, IndexAssumption DEF IndexAssumption, IndexInv, Typed
    <3>2. \A e \in ToSet(RecentDocuments(0, RecentLimit)) : e.id \in Docs
      BY <3>1, IdsAreDocs DEF ToSet
    <3> QED BY <3>2 DEF QueueRecent
  <2> QED
    BY <1>2, <2>1 DEF Job, IndexInv, Typed, PassedIsEmbedded, Searchable, world,
       pass, work, pruning
<1>3. CASE Prune
  <2>1. PICK wrong : /\ vec' = [d \in Docs |-> IF d \in wrong THEN 0 ELSE vec[d]]
                     /\ stale' = wrong \cap Searchable
                     /\ changed' = changed \cup wrong
    BY <1>3 DEF Prune
  <2>2. stale' \subseteq Docs
    BY <2>1 DEF Searchable
  <2>3. PassedIsEmbedded'
    BY <1>3, <2>1 DEF Prune, PassedIsEmbedded, Searchable, world, IndexInv
  <2> QED
    BY <1>3, <2>2, <2>3 DEF Prune, IndexInv, Typed, world, pass, work
<1>4. CASE QueueStale
  BY <1>4 DEF QueueStale, IndexInv, Typed, PassedIsEmbedded, Searchable, world,
     pass, work
<1>5. CASE Begin
  <2>1. /\ UNCHANGED <<text, vec, dirty, cursor, stale, batch, queued, consumed>>
        /\ left' = MaxChunks /\ before' = 0 /\ probed' = FALSE /\ pc' = "dirty"
        /\ cursor # 0 => changed' = changed
    BY <1>5 DEF Begin, world, work, pruning
  <2>2. Typed'
    BY <2>1 DEF IndexInv, Typed
  <2> QED
    BY <2>1, <2>2 DEF IndexInv, PassedIsEmbedded, Searchable
<1>6. CASE TimeUp
  BY <1>6 DEF TimeUp, IndexInv, Typed, PassedIsEmbedded, Searchable, InOrder, PageOf,
     world, sidecar, work, pruning
<1>7. CASE Final \/ Crash
  <2>1. /\ UNCHANGED <<text, vec, dirty, changed>> /\ cursor' \in {0, cursor}
        /\ pc' = "idle" /\ Forget
    BY <1>7 DEF Final, Crash, world, sidecar
  <2>2. <<>> \in Seq(Document) /\ 0 \in 0 .. Len(<<>>)
    OBVIOUS
  <2>3. Typed'
    BY <2>1, <2>2 DEF IndexInv, Typed, Forget
  <2> QED
    BY <2>1, <2>3 DEF IndexInv, PassedIsEmbedded, Searchable
<1> QED BY <1>1, <1>2, <1>3, <1>4, <1>5, <1>6, <1>7

\* The queue and the pages are read.
LEMMA ReadKeeps ==
  ASSUME IndexInv, ReadDirty \/ ReadPage
  PROVE  IndexInv'
<1> USE DEF IndexInv, Typed
<1>1. CASE ReadDirty
  <2> DEFINE limit == IF left < RecentLimit THEN left ELSE RecentLimit
             f == First(dirty, limit, Position)
             ids == ToSet(f)
  <2>1. pc = "dirty" /\ limit \in Nat /\ dirty \in SUBSET Docs
        /\ Position \in [Docs -> Nat]
    BY <1>1, IndexAssumption DEF IndexAssumption, ReadDirty
  <2>2. IsFiniteSet(ids) /\ ids \subseteq Docs
    <3> HIDE DEF limit
    <3> QED BY <2>1, FirstFacts
  <2> DEFINE g == First(ids \cap Searchable, Cardinality(ids), Time)
  <2>3. g \in Seq(ids \cap Searchable)
    <3>1. Cardinality(ids) \in Nat /\ ids \cap Searchable \in SUBSET Docs
      BY <2>2, FS_CardinalityType
    <3>2. Time \in [Docs -> Nat]
      BY Keys
    <3> HIDE DEF ids
    <3> QED BY <3>1, <3>2, FirstFacts
  <2>4. /\ DocumentsById(ids) \in Seq(Document)
        /\ \A i \in DOMAIN DocumentsById(ids) :
             DocumentsById(ids)[i].text = text[DocumentsById(ids)[i].id]
    <3>1. DocumentsById(ids) = [i \in DOMAIN g |-> Read(g[i])]
      BY DEF DocumentsById
    <3>2. \A i \in DOMAIN g : g[i] \in Docs
      BY <2>2, <2>3
    <3> HIDE DEF g, ids
    <3>3. \A i \in DOMAIN g : /\ Read(g[i]) \in Document
                              /\ Read(g[i]).text = text[Read(g[i]).id]
      BY <3>2, Keys DEF Read, Document
    <3>4. DocumentsById(ids) \in Seq(Document)
      <4>1. DOMAIN g = 1 .. Len(g) /\ Len(g) \in Nat
        BY <2>3
      <4> QED BY <3>1, <3>3, <4>1
    <3> QED BY <3>1, <3>3, <3>4
  <2> HIDE DEF ids
  <2>5. \/ pc' = "page" /\ UNCHANGED work
        \/ /\ queued' = ids /\ ids # {} /\ batch' = DocumentsById(ids)
           /\ pc' = "index" /\ consumed' = 0
    BY <1>1 DEF ReadDirty, ids
  <2>6. UNCHANGED <<text, vec, dirty, cursor, before, probed, left, stale, changed>>
    BY <1>1 DEF ReadDirty, world, sidecar, pass, pruning
  <2>7. PassedIsEmbedded' /\ Follows'
    BY <2>1, <2>5, <2>6 DEF PassedIsEmbedded, Searchable, Follows
  <2>8. CASE pc' = "page" /\ UNCHANGED work
    BY <2>6, <2>7, <2>8 DEF Fresh, PageRead, Counted, work
  <2>9. CASE /\ queued' = ids /\ ids # {} /\ batch' = DocumentsById(ids)
             /\ pc' = "index" /\ consumed' = 0
    BY <2>4, <2>6, <2>7, <2>9 DEF Fresh, PageRead, Counted
  <2> QED BY <2>5, <2>8, <2>9
<1>2. CASE ReadPage
  <2> DEFINE B == RecentDocuments(before, PageSize)
  <2>1. /\ B \in Seq(Document)
        /\ \A i \in DOMAIN B : B[i].text = text[B[i].id] /\ B[i].at >= B[i].id
        /\ InOrder(B)
        /\ PageOf(B, {d \in Searchable : before = 0 \/ d < before})
    BY Pages, IndexAssumption DEF IndexAssumption
  <2>2. /\ queued' = {} /\ consumed' = 0 /\ pc = "page"
        /\ UNCHANGED <<text, vec, dirty, before, probed, stale, changed>>
        /\ \/ batch' = B /\ pc' = "index" /\ UNCHANGED cursor
           \/ pc' = "final" /\ UNCHANGED batch /\ cursor' \in {0, cursor}
    BY <1>2 DEF ReadPage, world, pass, pruning
  <2> HIDE DEF B
  <2>3. PassedIsEmbedded'
    BY <2>2 DEF PassedIsEmbedded, Searchable
  <2>4. CASE batch' = B /\ pc' = "index" /\ UNCHANGED cursor
    <3>1. PageRead'
      BY <2>1, <2>2, <2>4 DEF PageRead, PageOf, InOrder, Searchable
    <3> QED BY <2>1, <2>2, <2>3, <2>4, <3>1 DEF Fresh, Counted, Follows
  <2>5. CASE pc' = "final" /\ UNCHANGED batch /\ cursor' \in {0, cursor}
    BY <2>2, <2>3, <2>5 DEF Fresh, PageRead, Counted, Follows
  <2> QED BY <2>2, <2>4, <2>5
<1> QED BY <1>1, <1>2

LEMMA ConsideredBound ==
  ASSUME IndexInv, NEW limit
  PROVE  Considered(limit) \in 0 .. Len(batch)
<1> DEFINE fit == {n \in DOMAIN batch : Load(n) <= limit /\ Load(n - 1) < limit}
<1>1. Len(batch) \in Nat /\ DOMAIN batch = 1 .. Len(batch)
  BY DEF IndexInv, Typed
<1>2. {0} \cup fit \in SUBSET (0 .. Len(batch)) /\ {0} \cup fit # {}
  BY <1>1
<1>3. Considered(limit) = Max({0} \cup fit)
  BY DEF Considered
<1> HIDE DEF fit
<1> QED BY <1>1, <1>2, <1>3, Greatest

\* Consumed are the documents that get their vectors now and those behind
\* them that have theirs.
LEMMA ContiguousFacts ==
  ASSUME NEW all \in Nat, NEW n \in 0 .. all
  PROVE  /\ Contiguous(n, all) \in n .. all
         /\ \A i \in n + 1 .. Contiguous(n, all) : Unchanged(i)
<1> DEFINE M == {m \in n .. all : \A i \in n + 1 .. m : Unchanged(i)}
<1>1. M \in SUBSET (0 .. all) /\ M # {}
  <2>1. n \in M
    OBVIOUS
  <2> QED BY <2>1
<1>2. Max(M) \in M
  <2> HIDE DEF M
  <2> QED BY <1>1, Greatest
<1> QED BY <1>2 DEF Contiguous

LEMMA IndexKeeps ==
  ASSUME IndexInv, Index
  PROVE  IndexInv'
<1>1. /\ pc = "index" /\ pc' = IF queued # {} THEN "dequeue" ELSE "advance"
      /\ UNCHANGED <<text, dirty, cursor, before, probed, batch, queued, stale, changed>>
  BY DEF Index, world, pruning
<1>2. PICK limit \in Limits : \E n \in 0 .. Considered(limit) :
        /\ consumed' = Contiguous(n, Considered(limit))
        /\ vec' = [d \in Docs |->
                     IF \E i \in 1 .. n : batch[i].id = d
                     THEN batch[CHOOSE i \in 1 .. n : batch[i].id = d].text
                     ELSE vec[d]]
  BY DEF Index
<1> DEFINE all == Considered(limit)
<1>a. PICK n \in 0 .. all :
        /\ consumed' = Contiguous(n, all)
        /\ vec' = [d \in Docs |->
                     IF \E i \in 1 .. n : batch[i].id = d
                     THEN batch[CHOOSE i \in 1 .. n : batch[i].id = d].text
                     ELSE vec[d]]
  BY <1>2
<1>3. all \in Nat /\ all <= Len(batch)
  BY ConsideredBound DEF IndexInv, Typed
<1> HIDE DEF all
<1>4. /\ consumed' \in n .. all /\ n \in Nat
      /\ \A i \in n + 1 .. consumed' : Unchanged(i)
  BY <1>a, <1>3, ContiguousFacts
<1>5. Len(batch) \in Nat /\ DOMAIN batch = 1 .. Len(batch)
  BY DEF IndexInv, Typed
<1>6. \A i \in DOMAIN batch : batch[i].id \in Docs
  BY IdsAreDocs DEF IndexInv, Typed
<1>7. \A i \in 1 .. all : i \in DOMAIN batch
  BY <1>3, <1>5
\* A document whose vectors are written and that has not changed meanwhile
\* has those of its text.
<1>8. ASSUME NEW d \in Docs, d \notin changed
      PROVE  /\ vec'[d] = text[d] \/ vec'[d] = vec[d]
             /\ \A i \in 1 .. n : batch[i].id = d => vec'[d] = text[d]
  <2>1. ASSUME NEW i \in 1 .. n, batch[i].id = d PROVE vec'[d] = text[d]
    <3>1. PICK j \in 1 .. n : batch[j].id = d /\ vec'[d] = batch[j].text
      BY <1>a, <2>1
    <3>2. j \in DOMAIN batch
      BY <1>3, <1>4, <1>7
    <3> QED BY <1>1, <1>8, <3>1, <3>2 DEF IndexInv, Fresh
  <2> QED BY <1>a, <2>1
<1>9. Typed'
  <2>1. consumed' \in 0 .. Len(batch)
    BY <1>3, <1>4, <1>5
  <2> QED BY <1>1, <2>1 DEF IndexInv, Typed
<1>10. PassedIsEmbedded'
  BY <1>1, <1>8 DEF IndexInv, PassedIsEmbedded, Searchable
<1>11. Counted'
  <2> SUFFICES ASSUME NEW i \in 1 .. consumed', batch[i].id \notin changed
               PROVE  vec'[batch[i].id] = batch[i].text
    BY <1>1 DEF Counted
  <2>1. i \in DOMAIN batch /\ batch[i].id \in Docs /\ batch[i].text = text[batch[i].id]
    BY <1>1, <1>3, <1>4, <1>5, <1>6 DEF IndexInv, Fresh
  <2>2. CASE i \in 1 .. n
    BY <1>8, <2>1, <2>2
  <2>3. CASE i \in n + 1 .. consumed'
    BY <1>4, <1>8, <2>1, <2>3 DEF Unchanged
  <2> QED BY <1>4, <2>2, <2>3
<1>12. Follows' /\ Fresh' /\ PageRead'
  BY <1>1 DEF IndexInv, Follows, Fresh, PageRead, Searchable, InOrder, PageOf
<1> QED BY <1>9, <1>10, <1>11, <1>12 DEF IndexInv

\* The cursor moves to the last document that is consumed: of what lies
\* between there and the last page, all is consumed.
LEMMA AdvanceKeeps ==
  ASSUME IndexInv, Advance
  PROVE  IndexInv'
<1> DEFINE reached == IF consumed = 0 THEN 0 ELSE batch[consumed].at
<1>1. /\ pc = "advance" /\ queued = {}
      /\ UNCHANGED <<text, vec, dirty, batch, queued, consumed, stale, changed>>
  BY DEF Advance, world, work, pruning, IndexInv, Counted
<1>2. \/ pc' = "final" /\ UNCHANGED <<cursor, before, probed>>
      \/ /\ pc' = "page" /\ probed' = TRUE
         /\ before' = IF probed \/ cursor = 0 THEN reached ELSE cursor
         /\ cursor' = before'
  BY DEF Advance
<1>3. /\ Len(batch) \in Nat /\ DOMAIN batch = 1 .. Len(batch)
      /\ consumed \in 0 .. Len(batch) /\ cursor \in Nat /\ before \in Nat
  BY DEF IndexInv, Typed
<1>4. \A i \in DOMAIN batch : /\ batch[i].id \in Docs /\ batch[i].id \in Nat
                              /\ batch[i].at \in Nat /\ batch[i].at >= batch[i].id
  BY <1>1, IdsAreDocs, IndexAssumption DEF IndexAssumption, IndexInv, Typed, PageRead
<1>5. reached \in Nat
  BY <1>3, <1>4
<1>6. ASSUME NEW d \in Searchable \ changed, reached # 0, d >= reached,
             before = 0 \/ d < before
      PROVE  vec[d] = text[d]
  <2>1. consumed \in DOMAIN batch /\ reached = batch[consumed].at
    BY <1>3, <1>6
  <2>2. d \in Docs /\ d \in Nat
    BY IndexAssumption DEF Searchable, IndexAssumption
  <2>3. ~ \A i \in DOMAIN batch : batch[i].id > d
    BY <1>4, <1>6, <2>1, <2>2
  <2>4. PICK i \in DOMAIN batch : batch[i].id = d
    BY <1>1, <1>6, <2>3 DEF IndexInv, PageRead, PageOf
  <2>5. i <= consumed
    <3> SUFFICES ASSUME i > consumed PROVE FALSE
      BY <1>3
    <3>1. \/ batch[consumed].at > batch[i].at
          \/ /\ batch[consumed].at = batch[i].at
             /\ batch[consumed].id > batch[i].id
      BY <1>1, <1>3, <2>1 DEF IndexInv, PageRead, InOrder
    <3> QED BY <1>4, <1>6, <2>1, <2>2, <2>4, <3>1
  <2>6. i \in 1 .. consumed
    BY <1>3, <2>5
  <2> QED BY <1>1, <1>6, <2>4, <2>6 DEF IndexInv, Fresh, Counted
<1> HIDE DEF reached
<1>7. PassedIsEmbedded'
  <2> SUFFICES ASSUME NEW d \in Searchable, cursor' # 0, d >= cursor', d \notin changed
               PROVE  vec[d] = text[d]
    BY <1>1 DEF PassedIsEmbedded, Searchable
  <2>1. CASE cursor' = cursor
    BY <2>1 DEF IndexInv, PassedIsEmbedded
  <2>2. CASE cursor' = reached
    <3>1. d \in Nat
      BY IndexAssumption DEF Searchable, IndexAssumption
    <3>2. CASE before # 0 /\ d >= before
      BY <1>1, <3>2 DEF IndexInv, Follows, PassedIsEmbedded
    <3> QED BY <1>3, <1>6, <2>2, <3>1, <3>2
  <2> QED BY <1>2, <2>1, <2>2
<1>8. Typed'
  BY <1>1, <1>2, <1>5 DEF IndexInv, Typed
<1> QED
  BY <1>1, <1>2, <1>7, <1>8 DEF IndexInv, Follows, Fresh, PageRead, Counted

LEMMA NextIndexInv == IndexInv /\ [Next]_vars => IndexInv'
<1> SUFFICES ASSUME IndexInv, [Next]_vars PROVE IndexInv'
  OBVIOUS
<1>1. ASSUME NEW d \in Docs, Add(d) \/ Extend(d) \/ Withdraw(d) PROVE IndexInv'
  <2>1. text[d] \in Nat
    BY DEF IndexInv, Typed
  <2>2. \E t \in Nat : Change(d, t)
    BY <1>1, <2>1 DEF Add, Extend, Withdraw
  <2> QED BY <2>2, ChangeKeeps
<1>2. CASE Dequeue
  <2>1. /\ UNCHANGED <<text, vec, cursor, before, probed, left, batch, queued, consumed,
                       stale, changed>>
        /\ dirty' \subseteq dirty /\ pc = "dequeue" /\ pc' \in {"page", "final"}
    BY <1>2 DEF Dequeue, world, pass, work, pruning
  <2> QED
    BY <2>1 DEF IndexInv, Typed, Follows, Fresh, PageRead, Counted, PassedIsEmbedded,
       Searchable
<1>3. CASE UNCHANGED vars
  BY <1>3 DEF vars, IndexInv, Typed, Follows, Fresh, PageRead, Counted, InOrder,
     PageOf, PassedIsEmbedded, Searchable
<1> QED
  BY <1>1, <1>2, <1>3, OutsideKeeps, ReadKeeps, IndexKeeps, AdvanceKeeps DEF Next, Step

LEMMA InitIndexInv == Init => IndexInv
<1> SUFFICES ASSUME Init PROVE IndexInv
  OBVIOUS
<1>1. <<>> \in Seq(Document) /\ 0 \in 0 .. Len(<<>>)
  OBVIOUS
<1>2. Typed
  BY <1>1 DEF Init, Typed
<1> QED
  BY <1>2 DEF Init, IndexInv, Follows, Fresh, PageRead, Counted, PassedIsEmbedded

\* What the backfill has passed has the vectors of its text, unless it has
\* changed since the backfill began, for any documents, budgets and deadlines
\* (backfill_semantic_embeddings, semantic_contiguous_consumed_cursor).
THEOREM PassedAlwaysEmbedded == Spec => []PassedIsEmbedded
<1>1. IndexInv => PassedIsEmbedded
  BY DEF IndexInv
<1> QED BY <1>1, InitIndexInv, NextIndexInv, PTL DEF Spec
=============================================================================
