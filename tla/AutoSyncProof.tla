---------------------------- MODULE AutoSyncProof ----------------------------
(***************************************************************************)
(* The safety of HookSync and of AutoSync for any number of requests,      *)
(* sources, directories and kills.  First the hooks alone; the lemmas      *)
(* about HookNext leave room for imports of the service, so that the       *)
(* second part, the service and the hooks together, can use them.          *)
(***************************************************************************)
EXTENDS AutoSync, FiniteSetTheorems, TLAPS

Before == {"new", "placed", "waiting"}
Serving == {"import", "running"}

VarTypes ==
  /\ marker \subseteq Sources
  /\ failed \subseteq Sources
  /\ lock \in Workers \cup {NoOne, Service}
  /\ pc \in [Workers -> {"new", "placed", "waiting", "done"} \cup Holding]
  /\ cycle \in [Workers -> 0 .. 2]
  /\ todo \in [Workers -> SUBSET Sources]
  /\ imports \subseteq [owner : Workers \cup {Service}, target : Targets,
                        fresh : BOOLEAN]
  /\ dirty \in [Targets -> BOOLEAN]
  /\ failures \in 0 .. MaxFailures
  /\ crashes \in 0 .. MaxCrashes
  /\ DOMAIN source = Workers /\ DOMAIN target = Workers /\ DOMAIN attempt = Workers

\* Who is where has the lock, the markers it is after, and its place in them.
WorkerOK(w) ==
  /\ pc[w] \in Holding <=> lock = w
  /\ pc[w] \in {"take"} \cup Serving => todo[w] \subseteq marker
  /\ pc[w] \in Serving =>
       /\ source[w] \in Sources
       /\ target[w] \in 1 .. Len(TargetsOf[source[w]]) + 1
       /\ attempt[w] \in 1 .. MaxAttempts
  /\ pc[w] = "running" => target[w] <= Len(TargetsOf[source[w]])
  /\ pc[w] \in Before => cycle[w] = 0
  /\ pc[w] \in {"take"} \cup Serving => cycle[w] \in 1 .. 2

\* Every import has an owner of its own, which waits for it or is dead.
OneEach == \A i, j \in imports : i.owner = j.owner => i = j
ParentsWait == \A i \in imports : i.owner \in Workers => pc[i.owner] \in {"running", "done"}
ChildrenRun == \A w \in Workers : pc[w] = "running" => \E i \in imports : i.owner = w
ServiceChild == lock = Service <=> \E i \in imports : i.owner = Service

PlaceInv ==
  /\ VarTypes
  /\ \A w \in Workers : WorkerOK(w)
  /\ OneEach /\ ParentsWait /\ ChildrenRun /\ ServiceChild

-----------------------------------------------------------------------------
(* Imports. *)

ImportType == [owner : Workers \cup {Service}, target : Targets, fresh : BOOLEAN]

\* Writing changes what imports have read, and nothing else about them.
LEMMA TouchKeeps ==
  ASSUME PlaceInv, NEW T, Touch(T)
  PROVE  /\ imports' \subseteq ImportType
         /\ dirty' \in [Targets -> BOOLEAN]
         /\ OneEach'
         /\ \A j \in imports' : \E i \in imports :
              j.owner = i.owner /\ j.target = i.target
              /\ j.fresh = (i.fresh /\ i.target \notin T)
         /\ \A i \in imports : \E j \in imports' :
              j.owner = i.owner /\ j.target = i.target
              /\ j.fresh = (i.fresh /\ i.target \notin T)
  <1> DEFINE after(i) == [i EXCEPT !.fresh = @ /\ i.target \notin T]
  <1>1. imports \subseteq ImportType
    BY DEF PlaceInv, VarTypes, ImportType
  <1>2. \A i \in imports :
           /\ after(i) \in ImportType
           /\ after(i).owner = i.owner /\ after(i).target = i.target
           /\ after(i).fresh = (i.fresh /\ i.target \notin T)
    BY <1>1 DEF ImportType
  <1>3. imports' = {after(i) : i \in imports}
    BY DEF Touch
  <1>4. dirty' \in [Targets -> BOOLEAN]
    BY DEF Touch, PlaceInv, VarTypes
  <1>5. OneEach'
    <2> SUFFICES ASSUME NEW j \in imports', NEW k \in imports', j.owner = k.owner
                 PROVE  j = k
      BY DEF OneEach
    <2>1. PICK i \in imports : j = after(i)
      BY <1>3
    <2>2. PICK l \in imports : k = after(l)
      BY <1>3
    <2>3. i.owner = l.owner
      BY <2>1, <2>2, <1>2
    <2> QED
      BY <2>1, <2>2, <2>3 DEF PlaceInv, OneEach
  <1> HIDE DEF after
  <1> QED
    BY <1>2, <1>3, <1>4, <1>5

\* A worker or the service that has no import starts one.
LEMMA StartKeeps ==
  ASSUME PlaceInv, NEW o \in Workers \cup {Service}, NEW t \in Targets,
         \A i \in imports : i.owner # o, StartImport(o, t)
  PROVE  /\ imports' \subseteq ImportType
         /\ OneEach'
         /\ \A i \in imports' : i.owner # o => i \in imports
         /\ \A i \in imports : i \in imports'
         /\ \E i \in imports' : i.owner = o
         /\ \A i \in imports' : i.owner = o => i.target = t /\ i.fresh
  <1> DEFINE new == [owner |-> o, target |-> t, fresh |-> TRUE]
  <1>1. new \in ImportType /\ new.owner = o /\ new.target = t /\ new.fresh
    BY DEF ImportType
  <1>2. imports' = imports \cup {new}
    BY DEF StartImport
  <1> HIDE DEF new
  <1> QED
    BY <1>1, <1>2 DEF PlaceInv, VarTypes, OneEach, ImportType

\* The import of an owner ends; the others go on.
LEMMA EndKeeps ==
  ASSUME PlaceInv, NEW i \in imports, NEW b \in BOOLEAN, EndImport(i, b)
  PROVE  /\ imports' \subseteq ImportType
         /\ dirty' \in [Targets -> BOOLEAN]
         /\ OneEach'
         /\ \A j \in imports' : j \in imports /\ j.owner # i.owner
         /\ \A j \in imports : j.owner # i.owner => j \in imports'
  BY DEF PlaceInv, VarTypes, OneEach, EndImport, ImportType

-----------------------------------------------------------------------------
(* Places: types, who has the lock, who waits for whom. *)

LEMMA InitPlace == Init => PlaceInv
  BY HookAssumption
  DEF Init, PlaceInv, VarTypes, WorkerOK, OneEach, ParentsWait, ChildrenRun, ServiceChild,
      Holding, Serving, Before

\* Whoever is at work is the only one, and the service does not import.
LEMMA Alone ==
  ASSUME PlaceInv, NEW w \in Workers, pc[w] \in Holding
  PROVE  /\ lock = w
         /\ \A v \in Workers : v # w => pc[v] \notin Holding
         /\ \A i \in imports : i.owner \in Workers
  BY HookAssumption DEF PlaceInv, WorkerOK, ServiceChild, VarTypes

LEMMA StepPlace ==
  ASSUME PlaceInv, HookNext
  PROVE  PlaceInv'
  <1> USE HookAssumption DEF progress
  <1>1. ASSUME NEW w \in Workers, Request(w)
        PROVE  PlaceInv'
    <2>1. PICK s \in Sources :
            /\ marker' = marker \cup {s}
            /\ Touch({TargetsOf[s][i] : i \in DOMAIN TargetsOf[s]})
      BY <1>1 DEF Request
    <2> DEFINE T == {TargetsOf[s][i] : i \in DOMAIN TargetsOf[s]}
    <2>2. /\ imports' \subseteq ImportType
          /\ dirty' \in [Targets -> BOOLEAN]
          /\ OneEach'
          /\ \A j \in imports' : \E i \in imports : j.owner = i.owner
          /\ \A i \in imports : \E j \in imports' : j.owner = i.owner
      <3> HIDE DEF T
      <3> QED
        BY <2>1, TouchKeeps DEF T
    <2>3. VarTypes'
      BY <1>1, <2>1, <2>2 DEF Request, PlaceInv, VarTypes, ImportType
    <2>4. \A v \in Workers : WorkerOK(v)'
      BY <1>1, <2>1 DEF Request, PlaceInv, VarTypes, WorkerOK, Holding, Serving, Before
    <2>5. ParentsWait' /\ ChildrenRun' /\ ServiceChild'
      BY <1>1, <2>2 DEF Request, PlaceInv, VarTypes, ParentsWait, ChildrenRun, ServiceChild
    <2> QED
      BY <2>2, <2>3, <2>4, <2>5 DEF PlaceInv
  <1>2. ASSUME NEW w \in Workers, Spawn(w) \/ Acquire(w) \/ Scan(w) \/ Rescan(w)
                                  \/ SourceDone(w)
        PROVE  PlaceInv'
    <2>1. VarTypes'
      <3>1. CASE Spawn(w) \/ Acquire(w)
        BY <3>1 DEF Spawn, Acquire, PlaceInv, VarTypes, Holding
      <3>2. CASE Scan(w)
        <4>1. CASE cycle[w] = 2 \/ marker = {}
          BY <3>2, <4>1 DEF Scan, PlaceInv, VarTypes, Holding
        <4>2. CASE ~(cycle[w] = 2 \/ marker = {})
          <5>1. cycle[w] + 1 \in 0 .. 2
            BY <4>2 DEF PlaceInv, VarTypes
          <5> QED
            BY <3>2, <4>2, <5>1 DEF Scan, PlaceInv, VarTypes, Holding
        <4> QED
          BY <4>1, <4>2
      <3>3. CASE Rescan(w)
        BY <3>3 DEF Rescan, PlaceInv, VarTypes, Holding
      <3>4. CASE SourceDone(w)
        BY <3>4 DEF SourceDone, PlaceInv, VarTypes, Holding
      <3> QED
        BY <1>2, <3>1, <3>2, <3>3, <3>4
    <2>2. \A v \in Workers : WorkerOK(v)'
      <3>1. CASE Spawn(w)
        BY <3>1 DEF Spawn, PlaceInv, VarTypes, WorkerOK, Holding, Serving, Before
      <3>2. CASE Acquire(w)
        BY <3>2 DEF Acquire, PlaceInv, VarTypes, WorkerOK, Holding, Serving, Before
      <3>3. CASE Scan(w)
        BY <3>3 DEF Scan, PlaceInv, VarTypes, WorkerOK, Holding, Serving, Before
      <3>4. CASE Rescan(w)
        BY <3>4 DEF Rescan, PlaceInv, VarTypes, WorkerOK, Holding, Serving, Before
      <3>5. CASE SourceDone(w)
        BY <3>5 DEF SourceDone, PlaceInv, VarTypes, WorkerOK, Holding, Serving, Before
      <3> QED
        BY <1>2, <3>1, <3>2, <3>3, <3>4, <3>5
    <2>3. /\ imports' = imports
          /\ pc' = [pc EXCEPT ![w] = pc'[w]] /\ pc[w] # "running"
          /\ pc'[w] # "running" /\ pc[w] # "done"
          /\ lock' # lock => {lock, lock'} \subseteq {w, NoOne}
      <3>1. CASE Spawn(w) \/ Rescan(w) \/ SourceDone(w)
        BY <3>1 DEF Spawn, Rescan, SourceDone, PlaceInv, VarTypes
      <3>2. CASE Acquire(w) \/ Scan(w)
        BY <3>2 DEF Acquire, Scan, PlaceInv, VarTypes, WorkerOK, Holding
      <3> QED
        BY <1>2, <3>1, <3>2
    <2>4. OneEach' /\ ParentsWait' /\ ChildrenRun' /\ ServiceChild'
      BY <2>3 DEF PlaceInv, VarTypes, OneEach, ParentsWait, ChildrenRun, ServiceChild
    <2> QED
      BY <2>1, <2>2, <2>4 DEF PlaceInv
  <1>3. ASSUME NEW w \in Workers, Take(w)
        PROVE  PlaceInv'
    <2>1. VarTypes'
      BY <1>3 DEF Take, PlaceInv, VarTypes, Holding
    <2>2. \A v \in Workers : v # w => WorkerOK(v)'
      BY <1>3, Alone DEF Take, PlaceInv, VarTypes, WorkerOK, Holding, Serving, Before
    <2>3. WorkerOK(w)'
      BY <1>3 DEF Take, PlaceInv, VarTypes, WorkerOK, Holding, Serving, Before
    <2>4. OneEach' /\ ParentsWait' /\ ChildrenRun' /\ ServiceChild'
      BY <1>3 DEF Take, PlaceInv, VarTypes, OneEach, ParentsWait, ChildrenRun, ServiceChild
    <2> QED
      BY <2>1, <2>2, <2>3, <2>4 DEF PlaceInv
  <1>4. ASSUME NEW w \in Workers, Attempt(w)
        PROVE  PlaceInv'
    <2>1. Target(w) \in Targets
      <3>1. /\ source[w] \in Sources
            /\ target[w] \in 1 .. Len(TargetsOf[source[w]]) + 1
            /\ target[w] <= Len(TargetsOf[source[w]])
        BY <1>4 DEF Attempt, HasTarget, PlaceInv, WorkerOK, Serving
      <3>2. TargetsOf[source[w]] \in Seq(Targets)
        BY <3>1
      <3> QED
        BY <3>1, <3>2 DEF Target
    <2>2. \A i \in imports : i.owner # w
      BY <1>4 DEF Attempt, PlaceInv, ParentsWait
    <2>3. /\ imports' \subseteq ImportType
          /\ OneEach'
          /\ \A i \in imports' : i.owner # w => i \in imports
          /\ \A i \in imports : i \in imports'
          /\ \E i \in imports' : i.owner = w
      BY <1>4, <2>1, <2>2, StartKeeps DEF Attempt
    <2>4. VarTypes'
      BY <1>4, <2>3 DEF Attempt, PlaceInv, VarTypes, ImportType, Holding
    <2>5. \A v \in Workers : WorkerOK(v)'
      BY <1>4 DEF Attempt, HasTarget, PlaceInv, VarTypes, WorkerOK, Holding, Serving, Before
    <2>6. ParentsWait' /\ ChildrenRun' /\ ServiceChild'
      BY <1>4, <2>3 DEF Attempt, PlaceInv, VarTypes, ParentsWait, ChildrenRun, ServiceChild
    <2> QED
      BY <2>3, <2>4, <2>5, <2>6 DEF PlaceInv
  <1>5. ASSUME NEW w \in Workers, AttemptOk(w) \/ AttemptFails(w)
        PROVE  PlaceInv'
    <2>1. PICK i \in imports : i.owner = w /\ \E b \in BOOLEAN : EndImport(i, b)
      BY <1>5 DEF AttemptOk, AttemptFails
    <2>2. /\ imports' \subseteq ImportType
          /\ dirty' \in [Targets -> BOOLEAN]
          /\ OneEach'
          /\ \A j \in imports' : j \in imports /\ j.owner # w
          /\ \A j \in imports : j.owner # w => j \in imports'
      BY <2>1, EndKeeps
    <2>3. /\ lock = w /\ pc[w] = "running"
          /\ \A v \in Workers : v # w => pc[v] \notin Holding
      BY <1>5, Alone DEF AttemptOk, AttemptFails, Holding
    <2>4. VarTypes'
      <3>1. CASE AttemptOk(w)
        BY <3>1, <2>2 DEF AttemptOk, PlaceInv, VarTypes, ImportType, Holding
      <3>2. CASE AttemptFails(w)
        <4>1. source[w] \in Sources
          BY <2>3 DEF PlaceInv, WorkerOK, Serving
        <4>2. failures' \in 0 .. MaxFailures
          BY <3>2 DEF AttemptFails, PlaceInv, VarTypes
        <4>3. CASE attempt[w] < MaxAttempts
          BY <3>2, <4>2, <4>3, <2>2 DEF AttemptFails, PlaceInv, VarTypes, ImportType, Holding
        <4>4. CASE ~(attempt[w] < MaxAttempts)
          BY <3>2, <4>1, <4>2, <4>4, <2>2
          DEF AttemptFails, PlaceInv, VarTypes, ImportType, Holding
        <4> QED
          BY <4>3, <4>4
      <3> QED
        BY <1>5, <3>1, <3>2
    <2>5. \A v \in Workers : v # w => WorkerOK(v)'
      <3>1. CASE AttemptOk(w)
        BY <3>1, <2>3 DEF AttemptOk, PlaceInv, VarTypes, WorkerOK, Holding, Serving, Before
      <3>2. CASE AttemptFails(w)
        BY <3>2, <2>3 DEF AttemptFails, PlaceInv, VarTypes, WorkerOK, Holding, Serving, Before
      <3> QED
        BY <1>5, <3>1, <3>2
    <2>6. WorkerOK(w)'
      <3>1. CASE AttemptOk(w)
        <4>1. source[w] \in Sources /\ TargetsOf[source[w]] \in Seq(Targets)
          BY <2>3 DEF PlaceInv, WorkerOK, Serving
        <4>2. target[w] \in 1 .. Len(TargetsOf[source[w]])
          BY <2>3 DEF PlaceInv, WorkerOK, Serving
        <4> QED
          BY <3>1, <2>3, <4>1, <4>2
          DEF AttemptOk, PlaceInv, VarTypes, WorkerOK, Holding, Serving, Before
      <3>2. CASE AttemptFails(w)
        BY <3>2, <2>3 DEF AttemptFails, PlaceInv, VarTypes, WorkerOK, Holding, Serving, Before
      <3> QED
        BY <1>5, <3>1, <3>2
    <2>7. pc' = [pc EXCEPT ![w] = pc'[w]] /\ pc'[w] # "running"
          /\ (lock' = lock \/ lock' = NoOne)
      BY <1>5 DEF AttemptOk, AttemptFails, PlaceInv, VarTypes
    <2>8. ParentsWait' /\ ChildrenRun'
      BY <2>2, <2>7 DEF PlaceInv, VarTypes, ParentsWait, ChildrenRun
    <2>9. ServiceChild'
      BY <2>2, <2>3, <2>7 DEF PlaceInv, ServiceChild
    <2> QED
      BY <2>2, <2>4, <2>5, <2>6, <2>8, <2>9 DEF PlaceInv
  <1>6. ASSUME NEW w \in Workers, Crash(w)
        PROVE  PlaceInv'
    <2>1. VarTypes'
      BY <1>6 DEF Crash, PlaceInv, VarTypes
    <2>2. \A v \in Workers : WorkerOK(v)'
      BY <1>6 DEF Crash, PlaceInv, VarTypes, WorkerOK, Holding, Serving, Before
    <2>3. OneEach' /\ ParentsWait' /\ ChildrenRun' /\ ServiceChild'
      BY <1>6 DEF Crash, PlaceInv, VarTypes, OneEach, ParentsWait, ChildrenRun, ServiceChild
    <2> QED
      BY <2>1, <2>2, <2>3 DEF PlaceInv
  <1>7. ASSUME OrphanEnds
        PROVE  PlaceInv'
    <2>1. PICK i \in imports : /\ i.owner \in Workers /\ pc[i.owner] = "done"
                               /\ \E b \in BOOLEAN : EndImport(i, b)
      BY <1>7 DEF OrphanEnds
    <2>2. /\ imports' \subseteq ImportType
          /\ dirty' \in [Targets -> BOOLEAN]
          /\ OneEach'
          /\ \A j \in imports' : j \in imports /\ j.owner # i.owner
          /\ \A j \in imports : j.owner # i.owner => j \in imports'
      BY <2>1, EndKeeps
    <2>3. VarTypes' /\ \A v \in Workers : WorkerOK(v)'
      BY <1>7, <2>2 DEF OrphanEnds, PlaceInv, VarTypes, WorkerOK, ImportType
    <2>4. ParentsWait' /\ ChildrenRun' /\ ServiceChild'
      BY <1>7, <2>1, <2>2 DEF OrphanEnds, PlaceInv, VarTypes, ParentsWait, ChildrenRun,
                              ServiceChild
    <2> QED
      BY <2>2, <2>3, <2>4 DEF PlaceInv
  <1> QED
    BY <1>1, <1>2, <1>3, <1>4, <1>5, <1>6, <1>7 DEF HookNext, Work

LEMMA PlaceType == PlaceInv => TypeOK
  BY DEF PlaceInv, VarTypes, WorkerOK, ChildrenRun, TypeOK, Serving

-----------------------------------------------------------------------------
(* Counting imports: besides the one of whoever has the lock there are only *)
(* those that a kill has left.                                             *)

LEMMA OneMore ==
  ASSUME NEW S, NEW x, IsFiniteSet(S)
  PROVE  /\ IsFiniteSet(S \cup {x})
         /\ Cardinality(S \cup {x}) <= Cardinality(S) + 1
         /\ Cardinality(S) \in Nat
  <1>1. Cardinality(S) \in Nat
    BY FS_CardinalityType
  <1>2. /\ IsFiniteSet(S \cup {x})
        /\ Cardinality(S \cup {x}) \in {Cardinality(S), Cardinality(S) + 1}
    BY FS_AddElement, Zenon
  <1> QED
    BY <1>1, <1>2

LEMMA OneLess ==
  ASSUME NEW S, NEW x, IsFiniteSet(S)
  PROVE  /\ IsFiniteSet(S \ {x})
         /\ Cardinality(S \ {x}) >= Cardinality(S) - 1
  <1>1. Cardinality(S) \in Nat
    BY FS_CardinalityType
  <1>2. /\ IsFiniteSet(S \ {x})
        /\ Cardinality(S \ {x}) \in {Cardinality(S), Cardinality(S) - 1}
    BY FS_RemoveElement, Zenon
  <1> QED
    BY <1>1, <1>2

Orphans == {w \in Workers : pc[w] = "done" /\ \E i \in imports : i.owner = w}
FewOrphans == IsFiniteSet(Orphans) /\ Cardinality(Orphans) <= crashes

LEMMA FewerOrphans ==
  ASSUME PlaceInv, FewOrphans, PlaceInv', Orphans' \subseteq Orphans, crashes <= crashes'
  PROVE  FewOrphans'
  <1>1. IsFiniteSet(Orphans') /\ Cardinality(Orphans') <= Cardinality(Orphans)
    BY FS_Subset DEF FewOrphans
  <1>2. Cardinality(Orphans) \in Nat /\ Cardinality(Orphans') \in Nat
    BY <1>1, FS_CardinalityType DEF FewOrphans
  <1> QED
    BY <1>1, <1>2 DEF FewOrphans, PlaceInv, VarTypes

LEMMA StepOrphans ==
  ASSUME PlaceInv, FewOrphans, HookNext
  PROVE  FewOrphans'
  <1>1. PlaceInv'
    BY StepPlace
  <1>2. ASSUME NEW w \in Workers, Request(w)
        PROVE  FewOrphans'
    <2>1. PICK s \in Sources : Touch({TargetsOf[s][i] : i \in DOMAIN TargetsOf[s]})
      BY <1>2 DEF Request
    <2> DEFINE T == {TargetsOf[s][i] : i \in DOMAIN TargetsOf[s]}
    <2>2. \A j \in imports' : \E i \in imports : j.owner = i.owner
      <3> HIDE DEF T
      <3> QED
        BY <2>1, TouchKeeps DEF T
    <2>3. Orphans' \subseteq Orphans /\ crashes' = crashes
      BY <1>2, <2>2 DEF Request, Orphans, PlaceInv, VarTypes
    <2> QED
      BY <1>1, <2>3, FewerOrphans DEF PlaceInv, VarTypes
  <1>3. ASSUME NEW w \in Workers,
               Spawn(w) \/ Acquire(w) \/ Scan(w) \/ Rescan(w) \/ Take(w) \/ SourceDone(w)
        PROVE  FewOrphans'
    <2>1. /\ imports' = imports /\ crashes' = crashes
          /\ pc[w] \notin {"running", "done"} /\ pc' = [pc EXCEPT ![w] = pc'[w]]
      <3>1. CASE Spawn(w) \/ Acquire(w) \/ Scan(w)
        BY <3>1 DEF Spawn, Acquire, Scan, PlaceInv, VarTypes
      <3>2. CASE Rescan(w) \/ Take(w) \/ SourceDone(w)
        BY <3>2 DEF Rescan, Take, SourceDone, PlaceInv, VarTypes
      <3> QED
        BY <1>3, <3>1, <3>2
    <2>2. Orphans' \subseteq Orphans
      BY <2>1 DEF Orphans, PlaceInv, VarTypes, ParentsWait
    <2> QED
      BY <1>1, <2>1, <2>2, FewerOrphans DEF PlaceInv, VarTypes
  <1>4. ASSUME NEW w \in Workers, Attempt(w)
        PROVE  FewOrphans'
    <2>1. /\ \A i \in imports' : i.owner = w \/ i \in imports
          /\ pc'[w] = "running" /\ crashes' = crashes
          /\ \A v \in Workers : v # w => pc'[v] = pc[v]
      BY <1>4 DEF Attempt, StartImport, PlaceInv, VarTypes
    <2>2. Orphans' \subseteq Orphans
      BY <2>1 DEF Orphans
    <2> QED
      BY <1>1, <2>1, <2>2, FewerOrphans DEF PlaceInv, VarTypes
  <1>5. ASSUME NEW w \in Workers, AttemptOk(w) \/ AttemptFails(w)
        PROVE  FewOrphans'
    <2>1. PICK i \in imports : i.owner = w /\ \E b \in BOOLEAN : EndImport(i, b)
      BY <1>5 DEF AttemptOk, AttemptFails
    <2>2. \A j \in imports' : j \in imports /\ j.owner # w
      BY <2>1, EndKeeps
    <2>3. /\ crashes' = crashes
          /\ \A v \in Workers : v # w => pc'[v] = pc[v]
      BY <1>5 DEF AttemptOk, AttemptFails, PlaceInv, VarTypes
    <2>4. Orphans' \subseteq Orphans
      BY <2>2, <2>3 DEF Orphans
    <2> QED
      BY <1>1, <2>3, <2>4, FewerOrphans DEF PlaceInv, VarTypes
  <1>6. ASSUME NEW w \in Workers, Crash(w)
        PROVE  FewOrphans'
    <2>1. Orphans' \subseteq Orphans \cup {w} /\ crashes' = crashes + 1
      BY <1>6 DEF Crash, Orphans, PlaceInv, VarTypes
    <2>2. /\ IsFiniteSet(Orphans \cup {w})
          /\ Cardinality(Orphans \cup {w}) <= Cardinality(Orphans) + 1
          /\ Cardinality(Orphans) \in Nat
      BY OneMore DEF FewOrphans
    <2>3. /\ IsFiniteSet(Orphans')
          /\ Cardinality(Orphans') <= Cardinality(Orphans \cup {w})
      BY <2>1, <2>2, FS_Subset
    <2>4. Cardinality(Orphans') \in Nat /\ Cardinality(Orphans \cup {w}) \in Nat
      BY <2>2, <2>3, FS_CardinalityType
    <2> QED
      BY <2>1, <2>2, <2>3, <2>4 DEF FewOrphans, PlaceInv, VarTypes
  <1>7. ASSUME OrphanEnds
        PROVE  FewOrphans'
    <2>1. Orphans' \subseteq Orphans /\ crashes' = crashes
      BY <1>7 DEF OrphanEnds, EndImport, Orphans
    <2> QED
      BY <1>1, <2>1, FewerOrphans DEF PlaceInv, VarTypes
  <1> QED
    BY <1>2, <1>3, <1>4, <1>5, <1>6, <1>7 DEF HookNext, Work

\* An import is that of the lock's holder or of an orphan.
LEMMA FewImports ==
  ASSUME PlaceInv, FewOrphans
  PROVE  ImportsExclusive
  <1> DEFINE owners == Orphans \cup {lock}
             owner == [i \in imports |-> i.owner]
  <1>1. \A i \in imports : i.owner \in owners
    BY DEF PlaceInv, VarTypes, WorkerOK, ParentsWait, ServiceChild, Orphans, Holding
  <1>2. owner \in Injection(imports, owners)
    BY <1>1 DEF PlaceInv, OneEach, Injection, IsInjective
  <1>3. /\ IsFiniteSet(owners) /\ Cardinality(owners) <= Cardinality(Orphans) + 1
        /\ Cardinality(Orphans) \in Nat
    BY FS_AddElement, FS_CardinalityType DEF FewOrphans
  <1>4. IsFiniteSet(imports) /\ Cardinality(imports) <= Cardinality(owners)
    <2> HIDE DEF owners, owner
    <2> QED
      BY <1>2, <1>3, FS_Injection
  <1>5. Cardinality(imports) \in Nat /\ Cardinality(owners) \in Nat
    BY <1>3, <1>4, FS_CardinalityType
  <1> QED
    BY <1>3, <1>4, <1>5 DEF ImportsExclusive, FewOrphans, PlaceInv, VarTypes

-----------------------------------------------------------------------------
(* Counting markers: each is made up for by a worker that lives and has not *)
(* taken a marker yet, or by a kill.                                        *)

\* w has surely taken a marker.
HasTaken(w) ==
  \/ pc[w] \in Serving
  \/ pc[w] = "take" /\ (cycle[w] = 2 \/ todo[w] = {})
  \/ pc[w] = "scan" /\ cycle[w] # 0

Alive == {w \in Workers : pc[w] \notin {"new", "done"}}
Owing == {w \in Alive : ~HasTaken(w)}

MarkersCovered ==
  /\ IsFiniteSet(marker) /\ IsFiniteSet(Alive) /\ IsFiniteSet(Owing)
  /\ Cardinality(marker) <= Cardinality(Owing) + crashes

LEMMA SourcesFinite == \A S \in SUBSET Sources : IsFiniteSet(S)
  <1>1. IsFiniteSet(Sources)
    BY HookAssumption, FS_Interval DEF Sources
  <1> QED
    BY <1>1, FS_Subset

\* No marker is placed, no worker ends, and no worker takes its first marker.
LEMMA StillCovered ==
  ASSUME PlaceInv, PlaceInv', MarkersCovered,
         marker' \subseteq marker, Owing \subseteq Owing', crashes <= crashes',
         IsFiniteSet(Alive')
  PROVE  MarkersCovered'
  <1>1. IsFiniteSet(Owing')
    BY FS_Subset DEF Owing
  <1>2. IsFiniteSet(marker') /\ Cardinality(marker') <= Cardinality(marker)
    BY FS_Subset DEF MarkersCovered
  <1>3. Cardinality(Owing) <= Cardinality(Owing')
    BY <1>1, FS_Subset
  <1>4. {Cardinality(marker), Cardinality(marker'), Cardinality(Owing),
          Cardinality(Owing')} \subseteq Nat
    BY <1>1, <1>2, FS_CardinalityType DEF MarkersCovered
  <1>5. crashes \in Nat /\ crashes' \in Nat
    BY HookAssumption DEF PlaceInv, VarTypes
  <1> QED
    BY <1>1, <1>2, <1>3, <1>4, <1>5 DEF MarkersCovered

LEMMA StepCovered ==
  ASSUME PlaceInv, MarkersCovered, HookNext
  PROVE  MarkersCovered'
  <1>1. PlaceInv'
    BY StepPlace
  <1>2. crashes \in Nat /\ crashes' \in Nat
    BY <1>1, HookAssumption DEF PlaceInv, VarTypes
  <1>3. /\ Cardinality(marker) \in Nat /\ Cardinality(Owing) \in Nat
        /\ IsFiniteSet(marker) /\ IsFiniteSet(Owing) /\ IsFiniteSet(Alive)
    BY FS_CardinalityType DEF MarkersCovered
  <1>4. IsFiniteSet(marker')
    BY <1>1, SourcesFinite DEF PlaceInv, VarTypes
  <1>5. ASSUME NEW w \in Workers, Request(w)
        PROVE  MarkersCovered'
    <2>1. PICK s \in Sources : marker' = marker \cup {s}
      BY <1>5 DEF Request
    <2>2. /\ Owing' = Owing \cup {w} /\ w \notin Owing
          /\ Alive' = Alive \cup {w} /\ crashes' = crashes
      BY <1>5 DEF Request, Owing, Alive, HasTaken, Serving, PlaceInv, VarTypes, progress
    <2>3. Cardinality(marker \cup {s}) <= Cardinality(marker) + 1
      BY <1>3, OneMore
    <2>4. IsFiniteSet(Owing \cup {w}) /\ IsFiniteSet(Alive \cup {w})
      BY <1>3, FS_AddElement
    <2>5. Cardinality(Owing \cup {w}) = Cardinality(Owing) + 1
      BY <1>3, <2>2, FS_AddElement
    <2>6. Cardinality(marker \cup {s}) \in Nat
      BY <1>4, <2>1, FS_CardinalityType
    <2> QED
      BY <1>2, <1>3, <1>4, <2>1, <2>2, <2>3, <2>4, <2>5, <2>6 DEF MarkersCovered
  <1>6. ASSUME NEW w \in Workers,
               Spawn(w) \/ Acquire(w) \/ Rescan(w) \/ Attempt(w) \/ AttemptOk(w)
                 \/ AttemptFails(w) \/ SourceDone(w)
        PROVE  MarkersCovered'
    <2>1. marker' = marker /\ crashes' = crashes
      BY <1>6 DEF Spawn, Acquire, Rescan, Attempt, AttemptOk, AttemptFails, SourceDone
    <2>2. Owing \subseteq Owing' /\ Alive' \subseteq Alive
      <3>1. CASE Spawn(w) \/ Acquire(w) \/ Rescan(w)
        BY <3>1 DEF Spawn, Acquire, Rescan, Owing, Alive, HasTaken, Serving, Before,
                    PlaceInv, VarTypes, WorkerOK, progress
      <3>2. CASE Attempt(w) \/ AttemptOk(w) \/ AttemptFails(w) \/ SourceDone(w)
        BY <3>2 DEF Attempt, AttemptOk, AttemptFails, SourceDone, Owing, Alive, HasTaken,
                    Serving, PlaceInv, VarTypes, progress
      <3> QED
        BY <1>6, <3>1, <3>2
    <2>3. IsFiniteSet(Alive')
      BY <1>3, <2>2, FS_Subset
    <2> QED
      BY <1>1, <1>2, <2>1, <2>2, <2>3, StillCovered
  <1>7. ASSUME NEW w \in Workers, Scan(w)
        PROVE  MarkersCovered'
    <2>1. crashes' = crashes /\ marker' = marker /\ Alive' \subseteq Alive
      BY <1>7 DEF Scan, Alive, PlaceInv, VarTypes
    <2>2. IsFiniteSet(Alive')
      BY <1>3, <2>1, FS_Subset
    <2>3. CASE marker = {}
      <3>1. IsFiniteSet(Owing')
        BY <2>2, FS_Subset DEF Owing
      <3>2. Cardinality(Owing') \in Nat /\ Cardinality(marker') = 0
        BY <2>1, <2>3, <3>1, FS_CardinalityType, FS_EmptySet
      <3> QED
        BY <1>2, <1>4, <2>2, <3>1, <3>2 DEF MarkersCovered
    <2>4. CASE marker # {}
      <3>1. CASE cycle[w] = 2
        <4>1. HasTaken(w)
          BY <1>7, <3>1 DEF Scan, HasTaken
        <4>2. \A v \in Workers : v # w => pc'[v] = pc[v]
          BY <1>7 DEF Scan, PlaceInv, VarTypes
        <4>3. cycle' = cycle /\ todo' = todo
          BY <1>7, <3>1 DEF Scan, progress
        <4>4. Owing \subseteq Owing'
          BY <4>1, <4>2, <4>3 DEF Owing, Alive, HasTaken
        <4> QED
          BY <1>1, <1>2, <2>1, <2>2, <4>4, StillCovered
      <3>2. CASE cycle[w] # 2
        <4>1. /\ pc[w] = "scan" /\ pc' = [pc EXCEPT ![w] = "take"]
              /\ todo' = [todo EXCEPT ![w] = marker]
              /\ cycle' = [cycle EXCEPT ![w] = @ + 1] /\ cycle[w] \in 0 .. 2
          BY <1>7, <2>4, <3>2 DEF Scan, PlaceInv, VarTypes
        <4>2. Owing \subseteq Owing'
          BY <2>4, <4>1 DEF Owing, Alive, HasTaken, Serving, PlaceInv, VarTypes
        <4> QED
          BY <1>1, <1>2, <2>1, <2>2, <4>2, StillCovered
      <3> QED
        BY <3>1, <3>2
    <2> QED
      BY <2>3, <2>4
  <1>8. ASSUME NEW w \in Workers, Take(w)
        PROVE  MarkersCovered'
    <2>1. PICK s \in todo[w] :
            /\ marker' = marker \ {s} /\ s \in marker
            /\ pc' = [pc EXCEPT ![w] = "import"]
            /\ todo' = [todo EXCEPT ![w] = @ \ {s}]
            /\ cycle' = cycle /\ crashes' = crashes /\ pc[w] = "take"
      BY <1>8 DEF Take, PlaceInv, WorkerOK
    <2>2. Owing' = Owing \ {w} /\ Alive' = Alive
      BY <2>1 DEF Owing, Alive, HasTaken, Serving, PlaceInv, VarTypes
    <2>3. Cardinality(marker \ {s}) = Cardinality(marker) - 1
      BY <1>3, <2>1, FS_RemoveElement
    <2>4. /\ IsFiniteSet(Owing \ {w})
          /\ Cardinality(Owing \ {w}) >= Cardinality(Owing) - 1
      BY <1>3, OneLess
    <2>5. Cardinality(Owing \ {w}) \in Nat
      BY <2>4, FS_CardinalityType
    <2> QED
      BY <1>2, <1>3, <1>4, <2>1, <2>2, <2>3, <2>4, <2>5 DEF MarkersCovered
  <1>9. ASSUME NEW w \in Workers, Crash(w)
        PROVE  MarkersCovered'
    <2>1. /\ Owing' = Owing \ {w} /\ Alive' = Alive \ {w}
          /\ marker' = marker /\ crashes' = crashes + 1
      BY <1>9 DEF Crash, Owing, Alive, HasTaken, Serving, PlaceInv, VarTypes, progress
    <2>2. /\ IsFiniteSet(Owing \ {w}) /\ IsFiniteSet(Alive \ {w})
          /\ Cardinality(Owing \ {w}) >= Cardinality(Owing) - 1
      BY <1>3, OneLess
    <2>3. Cardinality(Owing \ {w}) \in Nat
      BY <2>2, FS_CardinalityType
    <2> QED
      BY <1>2, <1>3, <2>1, <2>2, <2>3 DEF MarkersCovered
  <1>10. ASSUME OrphanEnds
         PROVE  MarkersCovered'
    BY <1>10 DEF OrphanEnds, MarkersCovered, Owing, Alive, HasTaken, progress
  <1> QED
    BY <1>5, <1>6, <1>7, <1>8, <1>9, <1>10 DEF HookNext, Work

LEMMA NoneStranded ==
  ASSUME PlaceInv, MarkersCovered
  PROVE  NoStrandedRequest
  <1>1. Cardinality(Owing) <= Cardinality(Alive)
    BY FS_Subset DEF Owing, MarkersCovered
  <1>2. {Cardinality(marker), Cardinality(Owing), Cardinality(Alive)} \subseteq Nat
    BY FS_CardinalityType DEF MarkersCovered
  <1>3. crashes \in Nat
    BY HookAssumption DEF PlaceInv, VarTypes
  <1> QED
    BY <1>1, <1>2, <1>3 DEF NoStrandedRequest, MarkersCovered, Alive

-----------------------------------------------------------------------------
(* Accounting for requests, when no two sources share a directory.         *)

Disjoint ==
  \A s, r \in Sources : \A m \in DOMAIN TargetsOf[s], n \in DOMAIN TargetsOf[r] :
    TargetsOf[s][m] = TargetsOf[r][n] => s = r

\* What a worker has passed has been read, or there is a new request; what its
\* import has missed, too.
ReadUpTo(w) ==
  pc[w] \in Serving =>
    /\ \A n \in 1 .. target[w] - 1 :
         dirty[TargetsOf[source[w]][n]] => source[w] \in marker
    /\ \A i \in imports :
         i.owner = w => i.target = Target(w) /\ (i.fresh \/ source[w] \in marker)

ReadInv == \A w \in Workers : ReadUpTo(w)

Lost(s, t) ==
  /\ dirty[t]
  /\ s \notin marker \cup failed
  /\ \A w \in Workers : ~WillRead(w, s, t)

LEMMA ForgottenLost ==
  /\ Forgotten = {s \in Sources : \E n \in DOMAIN TargetsOf[s] : Lost(s, TargetsOf[s][n])}
  /\ Forgotten' = {s \in Sources : \E n \in DOMAIN TargetsOf[s] : Lost(s, TargetsOf[s][n])'}
  BY DEF Forgotten, Lost

\* The places of a source: their numbers, and that they are targets.
LEMMA Places ==
  ASSUME NEW s \in Sources
  PROVE  /\ Len(TargetsOf[s]) \in Nat
         /\ DOMAIN TargetsOf[s] = 1 .. Len(TargetsOf[s])
         /\ \A n \in DOMAIN TargetsOf[s] : TargetsOf[s][n] \in Targets
  BY HookAssumption

LEMMA InitRead == Init => ReadInv /\ Forgotten = {}
  <1> SUFFICES ASSUME Init PROVE ReadInv /\ Forgotten = {}
    OBVIOUS
  <1>1. ReadInv
    BY DEF Init, ReadInv, ReadUpTo, Serving
  <1>2. \A s \in Sources : \A n \in DOMAIN TargetsOf[s] : ~Lost(s, TargetsOf[s][n])
    BY Places DEF Init, Lost
  <1> QED
    BY <1>1, <1>2, ForgottenLost

LEMMA StepRead ==
  ASSUME Disjoint, PlaceInv, ReadInv, HookNext
  PROVE  ReadInv'
  <1> USE DEF progress
  <1>1. ASSUME NEW w \in Workers, Request(w), NEW v \in Workers, (pc[v] \in Serving)'
        PROVE  ReadUpTo(v)'
    <2>1. PICK s \in Sources :
            /\ marker' = marker \cup {s}
            /\ Touch({TargetsOf[s][i] : i \in DOMAIN TargetsOf[s]})
      BY <1>1 DEF Request
    <2> DEFINE T == {TargetsOf[s][i] : i \in DOMAIN TargetsOf[s]}
    <2>2. /\ pc[v] \in Serving /\ source' = source /\ target' = target
          /\ source[v] \in Sources /\ target[v] \in 1 .. Len(TargetsOf[source[v]]) + 1
          /\ pc[v] = "running" => target[v] <= Len(TargetsOf[source[v]])
      BY <1>1 DEF Request, PlaceInv, VarTypes, WorkerOK, Serving
    <2>3. \A n \in DOMAIN TargetsOf[source[v]] :
            TargetsOf[source[v]][n] \in T => source[v] = s
      BY <2>2 DEF Disjoint
    <2>4. ASSUME NEW n \in 1 .. target[v] - 1, dirty'[TargetsOf[source[v]][n]]
          PROVE  source[v] \in marker'
      <3>1. n \in DOMAIN TargetsOf[source[v]] /\ TargetsOf[source[v]][n] \in Targets
        BY <2>2, Places
      <3>2. dirty[TargetsOf[source[v]][n]] \/ TargetsOf[source[v]][n] \in T
        BY <2>1, <2>4, <3>1 DEF Touch
      <3> QED
        BY <2>1, <2>2, <2>3, <3>1, <3>2 DEF ReadInv, ReadUpTo
    <2>5. ASSUME NEW j \in imports', j.owner = v
          PROVE  j.target = Target(v) /\ (j.fresh \/ source[v] \in marker')
      <3>1. PICK i \in imports : j.owner = i.owner /\ j.target = i.target
                                 /\ j.fresh = (i.fresh /\ i.target \notin T)
        <4> HIDE DEF T
        <4> QED
          BY <2>1, TouchKeeps DEF T
      <3>2. i.target = Target(v) /\ (i.fresh \/ source[v] \in marker)
        BY <2>2, <2>5, <3>1 DEF ReadInv, ReadUpTo
      <3>3. pc[v] = "running"
        BY <2>2, <2>5, <3>1 DEF PlaceInv, ParentsWait, Serving
      <3>4. target[v] \in DOMAIN TargetsOf[source[v]]
        BY <2>2, <3>3, Places
      <3> QED
        BY <2>1, <2>3, <3>1, <3>2, <3>4 DEF Target
    <2> QED
      BY <2>2, <2>4, <2>5 DEF ReadUpTo, Target
  <1>2. ASSUME NEW w \in Workers,
               Spawn(w) \/ Acquire(w) \/ Scan(w) \/ Rescan(w) \/ SourceDone(w) \/ Crash(w)
        PROVE  ReadInv'
    <2>1. /\ marker' = marker /\ imports' = imports /\ dirty' = dirty
          /\ source' = source /\ target' = target
          /\ pc' = [pc EXCEPT ![w] = pc'[w]] /\ pc'[w] \notin Serving
      <3>1. CASE Spawn(w) \/ Acquire(w) \/ Scan(w)
        BY <3>1 DEF Spawn, Acquire, Scan, PlaceInv, VarTypes, Serving
      <3>2. CASE Rescan(w) \/ SourceDone(w) \/ Crash(w)
        BY <3>2 DEF Rescan, SourceDone, Crash, PlaceInv, VarTypes, Serving
      <3> QED
        BY <1>2, <3>1, <3>2
    <2> QED
      BY <2>1 DEF ReadInv, ReadUpTo, Target, PlaceInv, VarTypes
  <1>3. ASSUME NEW w \in Workers, Take(w)
        PROVE  ReadInv'
    <2>1. \A v \in Workers : v # w => pc'[v] \notin Serving
      BY <1>3, Alone DEF Take, PlaceInv, VarTypes, Serving, Holding
    <2>2. /\ imports' = imports
          /\ pc'[w] \in Serving => target'[w] = 1
          /\ \A i \in imports : i.owner # w
      BY <1>3 DEF Take, PlaceInv, VarTypes, ParentsWait, Serving
    <2> QED
      BY <2>1, <2>2 DEF ReadInv, ReadUpTo
  <1>4. ASSUME NEW w \in Workers, Attempt(w)
        PROVE  ReadInv'
    <2>1. /\ marker' = marker /\ dirty' = dirty /\ source' = source /\ target' = target
          /\ \A v \in Workers : v # w => pc'[v] = pc[v]
          /\ pc[w] = "import"
      BY <1>4 DEF Attempt, PlaceInv, VarTypes
    <2>2. \A i \in imports' : i \in imports \/ (i.owner = w /\ i.target = Target(w) /\ i.fresh)
      BY <1>4 DEF Attempt, StartImport
    <2> QED
      BY <2>1, <2>2 DEF ReadInv, ReadUpTo, Target, Serving
  <1>5. ASSUME NEW w \in Workers, AttemptOk(w) \/ AttemptFails(w)
        PROVE  ReadInv'
    <2>1. PICK i \in imports : /\ i.owner = w
                               /\ \E b \in BOOLEAN : EndImport(i, b)
                               /\ AttemptOk(w) => EndImport(i, TRUE)
      BY <1>5 DEF AttemptOk, AttemptFails
    <2>2. /\ \A j \in imports' : j \in imports /\ j.owner # w
          /\ \A t \in Targets : dirty'[t] => dirty[t]
      BY <2>1, EndKeeps DEF EndImport, PlaceInv, VarTypes
    <2>3. /\ marker' = marker /\ source' = source /\ pc[w] = "running"
          /\ \A v \in Workers : v # w => pc'[v] = pc[v] /\ target'[v] = target[v]
          /\ \A v \in Workers : v # w => pc[v] \notin Serving
      BY <1>5, Alone DEF AttemptOk, AttemptFails, PlaceInv, VarTypes, Holding, Serving
    <2>4. ASSUME NEW n \in 1 .. target'[w] - 1, dirty'[TargetsOf[source[w]][n]]
          PROVE  source[w] \in marker
      <3>1. /\ source[w] \in Sources /\ target[w] \in 1 .. Len(TargetsOf[source[w]])
            /\ i.target = Target(w) /\ (i.fresh \/ source[w] \in marker)
        BY <2>1, <2>3, Places DEF PlaceInv, WorkerOK, ReadInv, ReadUpTo, Serving
      <3>2. CASE n < target[w]
        <4>1. n \in 1 .. target[w] - 1 /\ TargetsOf[source[w]][n] \in Targets
          BY <3>1, <3>2, Places
        <4> QED
          BY <2>2, <2>3, <2>4, <4>1 DEF ReadInv, ReadUpTo, Serving
      <3>3. CASE ~(n < target[w])
        <4>1. AttemptOk(w) /\ n = target[w]
          <5>1. CASE AttemptOk(w)
            <6>1. target'[w] = target[w] + 1
              BY <5>1 DEF AttemptOk, PlaceInv, VarTypes
            <6>2. target[w] \in Nat
              BY <3>1, Places
            <6> QED
              BY <5>1, <6>1, <6>2, <2>4, <3>3
          <5>2. CASE AttemptFails(w)
            BY <5>2, <2>4, <3>1, <3>3 DEF AttemptFails, PlaceInv, VarTypes
          <5> QED
            BY <1>5, <5>1, <5>2
        <4>2. i.target \in Targets /\ i.target = TargetsOf[source[w]][n]
          BY <3>1, <4>1, Places DEF Target
        <4> QED
          BY <2>1, <2>4, <3>1, <4>1, <4>2 DEF EndImport, PlaceInv, VarTypes
      <3> QED
        BY <3>2, <3>3
    <2> QED
      BY <2>2, <2>3, <2>4 DEF ReadInv, ReadUpTo
  <1>6. ASSUME OrphanEnds
        PROVE  ReadInv'
    <2>1. PICK i \in imports : \E b \in BOOLEAN : EndImport(i, b)
      BY <1>6 DEF OrphanEnds
    <2>2. /\ imports' \subseteq imports
          /\ \A t \in Targets : dirty'[t] => dirty[t]
      BY <2>1 DEF EndImport, PlaceInv, VarTypes
    <2>3. marker' = marker /\ source' = source /\ target' = target /\ pc' = pc
      BY <1>6 DEF OrphanEnds
    <2>4. ASSUME NEW v \in Workers, pc[v] \in Serving
          PROVE  \A n \in 1 .. target[v] - 1 : TargetsOf[source[v]][n] \in Targets
      BY <2>4, Places DEF PlaceInv, WorkerOK
    <2> QED
      BY <2>2, <2>3, <2>4 DEF ReadInv, ReadUpTo, Target
  <1>7. \A v \in Workers : ~(pc[v] \in Serving)' => ReadUpTo(v)'
    BY DEF ReadUpTo
  <1> QED
    BY <1>1, <1>2, <1>3, <1>4, <1>5, <1>6, <1>7 DEF HookNext, Work, ReadInv

\* A step loses nothing but what a killed worker has had in hand.
LEMMA StepLost ==
  ASSUME Disjoint, PlaceInv, ReadInv, HookNext,
         NEW s \in Sources, NEW n \in DOMAIN TargetsOf[s],
         Lost(s, TargetsOf[s][n])'
  PROVE  \/ Lost(s, TargetsOf[s][n]) /\ crashes' >= crashes
         \/ \E w \in Workers : Crash(w) /\ s = source[w]
  <1> DEFINE t == TargetsOf[s][n]
  <1> USE DEF progress
  <1>1. t \in Targets /\ n \in 1 .. Len(TargetsOf[s]) /\ Len(TargetsOf[s]) \in Nat
    BY Places
  <1>2. /\ dirty'[t] /\ s \notin marker' \cup failed'
        /\ \A v \in Workers : ~WillRead(v, s, t)'
    BY DEF Lost
  <1>3. crashes \in Nat
    BY HookAssumption DEF PlaceInv, VarTypes
  <1> HIDE DEF t
  <1>4. ASSUME NEW w \in Workers, Request(w)
        PROVE  Lost(s, t) /\ crashes' >= crashes
    <2>1. PICK r \in Sources :
            /\ marker' = marker \cup {r}
            /\ Touch({TargetsOf[r][i] : i \in DOMAIN TargetsOf[r]})
      BY <1>4 DEF Request
    <2> DEFINE T == {TargetsOf[r][i] : i \in DOMAIN TargetsOf[r]}
    <2>2. t \notin T
      BY <1>2, <2>1, Places DEF t, Disjoint
    <2>3. /\ failed' = failed /\ source' = source /\ target' = target /\ crashes' = crashes
          /\ pc' = [pc EXCEPT ![w] = "placed"] /\ pc[w] = "new"
      BY <1>4 DEF Request
    <2>4. dirty[t] /\ s \notin marker \cup failed
      BY <1>1, <1>2, <2>1, <2>2, <2>3 DEF Touch
    <2>5. \A i \in imports : \E j \in imports' :
            j.owner = i.owner /\ j.target = i.target /\ j.fresh = (i.fresh /\ i.target \notin T)
      <3> HIDE DEF T
      <3> QED
        BY <2>1, TouchKeeps DEF T
    <2>6. ASSUME NEW v \in Workers, WillRead(v, s, t)
          PROVE  WillRead(v, s, t)'
      <3> HIDE DEF T
      <3> QED
        BY <2>2, <2>3, <2>5, <2>6 DEF WillRead, Target, PlaceInv, VarTypes
    <2> QED
      BY <1>2, <1>3, <2>3, <2>4, <2>6 DEF Lost
  <1>5. ASSUME NEW w \in Workers, Spawn(w) \/ Acquire(w) \/ Scan(w) \/ Rescan(w)
        PROVE  Lost(s, t) /\ crashes' >= crashes
    <2>1. /\ marker' = marker /\ failed' = failed /\ imports' = imports /\ dirty' = dirty
          /\ source' = source /\ target' = target /\ crashes' = crashes
          /\ pc' = [pc EXCEPT ![w] = pc'[w]] /\ pc[w] \notin {"import", "running"}
      <3>1. CASE Spawn(w) \/ Acquire(w)
        BY <3>1 DEF Spawn, Acquire, PlaceInv, VarTypes
      <3>2. CASE Scan(w) \/ Rescan(w)
        BY <3>2 DEF Scan, Rescan, PlaceInv, VarTypes
      <3> QED
        BY <1>5, <3>1, <3>2
    <2> QED
      BY <1>2, <1>3, <2>1 DEF Lost, WillRead, Target, PlaceInv, VarTypes
  <1>6. ASSUME NEW w \in Workers, Take(w)
        PROVE  Lost(s, t) /\ crashes' >= crashes
    <2>1. PICK r \in todo[w] :
            /\ marker' = marker \ {r} /\ r \in marker
            /\ source' = [source EXCEPT ![w] = r]
            /\ target' = [target EXCEPT ![w] = 1]
            /\ pc' = [pc EXCEPT ![w] = "import"] /\ pc[w] = "take"
      BY <1>6 DEF Take, PlaceInv, WorkerOK
    <2>2. /\ failed' = failed /\ imports' = imports /\ dirty' = dirty /\ crashes' = crashes
      BY <1>6 DEF Take
    <2>3. s # r
      <3>1. ASSUME s = r
            PROVE  WillRead(w, s, t)'
        <4>1. pc'[w] = "import" /\ source'[w] = s /\ target'[w] = 1
          BY <2>1, <3>1 DEF PlaceInv, VarTypes
        <4> QED
          BY <1>1, <4>1 DEF WillRead, t
      <3> QED
        BY <1>2, <3>1
    <2>4. \A v \in Workers : WillRead(v, s, t) => WillRead(v, s, t)'
      BY <2>1, <2>2 DEF WillRead, Target, PlaceInv, VarTypes
    <2> QED
      BY <1>2, <1>3, <2>1, <2>2, <2>3, <2>4 DEF Lost
  <1>7. ASSUME NEW w \in Workers, Attempt(w)
        PROVE  Lost(s, t) /\ crashes' >= crashes
    <2>1. /\ marker' = marker /\ failed' = failed /\ dirty' = dirty /\ crashes' = crashes
          /\ source' = source /\ target' = target
          /\ pc' = [pc EXCEPT ![w] = "running"] /\ pc[w] = "import"
          /\ imports' = imports \cup {[owner |-> w, target |-> Target(w), fresh |-> TRUE]}
      BY <1>7 DEF Attempt, StartImport
    <2>2. \A v \in Workers : v # w /\ WillRead(v, s, t) => WillRead(v, s, t)'
      BY <2>1 DEF WillRead, Target
    <2>3. ASSUME WillRead(w, s, t) PROVE WillRead(w, s, t)'
      <3>1. pc'[w] = "running" /\ source'[w] = s
        BY <2>1, <2>3 DEF WillRead, PlaceInv, VarTypes
      <3>2. \E i \in target'[w] .. Len(TargetsOf[s]) : TargetsOf[s][i] = t
        BY <2>1, <2>3 DEF WillRead
      <3>3. \E i \in imports' : i.owner = w /\ i.target = Target(w) /\ i.fresh
        <4> DEFINE new == [owner |-> w, target |-> Target(w), fresh |-> TRUE]
        <4>1. new \in imports'
          BY <2>1
        <4>2. new.owner = w /\ new.target = Target(w) /\ new.fresh
          OBVIOUS
        <4> QED
          BY <4>1, <4>2, Zenon
      <3> QED
        BY <2>1, <3>1, <3>2, <3>3 DEF WillRead, Target
    <2> QED
      BY <1>2, <1>3, <2>1, <2>2, <2>3 DEF Lost
  <1>8. ASSUME NEW w \in Workers, AttemptOk(w) \/ AttemptFails(w)
        PROVE  Lost(s, t) /\ crashes' >= crashes
    <2>1. PICK i \in imports : /\ i.owner = w
                               /\ \E b \in BOOLEAN : EndImport(i, b)
                               /\ AttemptOk(w) => EndImport(i, TRUE)
      BY <1>8 DEF AttemptOk, AttemptFails
    <2>2. /\ \A j \in imports : j.owner # w => j \in imports'
          /\ dirty'[t] => dirty[t]
      BY <1>1, <2>1, EndKeeps DEF EndImport, PlaceInv, VarTypes
    <2>3. /\ marker' = marker /\ source' = source /\ crashes' = crashes /\ pc[w] = "running"
          /\ \A v \in Workers : v # w => pc'[v] = pc[v] /\ target'[v] = target[v]
      BY <1>8 DEF AttemptOk, AttemptFails, PlaceInv, VarTypes
    <2>4. \A v \in Workers : v # w /\ WillRead(v, s, t) => WillRead(v, s, t)'
      BY <2>2, <2>3 DEF WillRead, Target
    <2>5. /\ source[w] \in Sources /\ target[w] \in 1 .. Len(TargetsOf[source[w]])
          /\ i.target = Target(w) /\ (i.fresh \/ source[w] \in marker)
      BY <2>1, <2>3, Places DEF PlaceInv, WorkerOK, ReadInv, ReadUpTo, Serving
    <2>6. CASE AttemptOk(w)
      <3>1. failed' = failed /\ pc'[w] = "import" /\ target'[w] = target[w] + 1
        BY <2>6 DEF AttemptOk, PlaceInv, VarTypes
      <3>2. ASSUME WillRead(w, s, t) PROVE FALSE
        <4>1. PICK m \in target[w] .. Len(TargetsOf[s]) : TargetsOf[s][m] = t /\ source[w] = s
          BY <3>2 DEF WillRead
        <4>2. CASE m = target[w]
          <5>1. i.target = t
            BY <2>5, <4>1, <4>2 DEF Target
          <5>2. i.fresh
            BY <1>2, <2>3, <2>5, <4>1
          <5>3. ~dirty'[t]
            BY <1>1, <2>1, <2>6, <5>1, <5>2 DEF EndImport, PlaceInv, VarTypes
          <5> QED
            BY <1>2, <5>3
        <4>3. CASE m # target[w]
          <5>1. m \in target[w] + 1 .. Len(TargetsOf[s])
            BY <1>1, <2>5, <4>1, <4>3
          <5> QED
            BY <1>2, <2>3, <3>1, <4>1, <5>1 DEF WillRead
        <4> QED
          BY <4>2, <4>3
      <3> QED
        BY <1>2, <1>3, <2>2, <2>3, <2>4, <3>1, <3>2 DEF Lost
    <2>7. CASE AttemptFails(w)
      <3>1. failed \subseteq failed' /\ target' = target
            /\ (pc'[w] = "import" \/ source[w] \in failed')
        BY <2>7 DEF AttemptFails, PlaceInv, VarTypes
      <3>2. ASSUME WillRead(w, s, t) PROVE FALSE
        BY <1>2, <2>3, <3>1, <3>2 DEF WillRead
      <3> QED
        BY <1>2, <1>3, <2>2, <2>3, <2>4, <3>1, <3>2 DEF Lost
    <2> QED
      BY <1>8, <2>6, <2>7
  <1>9. ASSUME NEW w \in Workers, SourceDone(w)
        PROVE  Lost(s, t) /\ crashes' >= crashes
    <2>1. /\ failed' = failed \ {source[w]} /\ marker' = marker /\ imports' = imports
          /\ dirty' = dirty /\ source' = source /\ target' = target /\ crashes' = crashes
          /\ pc' = [pc EXCEPT ![w] = "take"] /\ pc[w] = "import"
          /\ ~(target[w] <= Len(TargetsOf[source[w]]))
      BY <1>9 DEF SourceDone, HasTarget
    <2>2. /\ source[w] \in Sources
          /\ target[w] \in 1 .. Len(TargetsOf[source[w]]) + 1
      BY <2>1 DEF PlaceInv, WorkerOK, Serving
    <2>3. ASSUME s = source[w] PROVE FALSE
      <3>1. n \in 1 .. target[w] - 1
        BY <1>1, <2>1, <2>2, <2>3
      <3> QED
        BY <1>2, <2>1, <2>3, <3>1 DEF ReadInv, ReadUpTo, Serving, t
    <2>4. \A v \in Workers : WillRead(v, s, t) => WillRead(v, s, t)'
      BY <2>1, <2>3 DEF WillRead, Target, PlaceInv, VarTypes
    <2> QED
      BY <1>2, <1>3, <2>1, <2>3, <2>4 DEF Lost
  <1>10. ASSUME NEW w \in Workers, Crash(w), s # source[w]
         PROVE  Lost(s, t) /\ crashes' >= crashes
    <2>1. /\ marker' = marker /\ failed' = failed /\ imports' = imports /\ dirty' = dirty
          /\ source' = source /\ target' = target /\ crashes' = crashes + 1
          /\ pc' = [pc EXCEPT ![w] = "done"]
      BY <1>10 DEF Crash
    <2> QED
      BY <1>2, <1>3, <1>10, <2>1 DEF Lost, WillRead, Target, PlaceInv, VarTypes
  <1>11. ASSUME OrphanEnds
         PROVE  Lost(s, t) /\ crashes' >= crashes
    <2>1. PICK i \in imports : /\ i.owner \in Workers /\ pc[i.owner] = "done"
                               /\ \E b \in BOOLEAN : EndImport(i, b)
      BY <1>11 DEF OrphanEnds
    <2>2. /\ \A j \in imports : j.owner # i.owner => j \in imports'
          /\ dirty'[t] => dirty[t]
      BY <1>1, <2>1, EndKeeps DEF EndImport, PlaceInv, VarTypes
    <2>3. /\ marker' = marker /\ failed' = failed /\ source' = source /\ target' = target
          /\ pc' = pc /\ crashes' = crashes
      BY <1>11 DEF OrphanEnds
    <2>4. \A v \in Workers : WillRead(v, s, t) => WillRead(v, s, t)'
      BY <2>1, <2>2, <2>3 DEF WillRead, Target
    <2> QED
      BY <1>2, <1>3, <2>2, <2>3, <2>4 DEF Lost
  <1> QED
    BY <1>4, <1>5, <1>6, <1>7, <1>8, <1>9, <1>10, <1>11 DEF HookNext, Work, t

LEMMA StepAccounted ==
  ASSUME Disjoint, PlaceInv, ReadInv, RequestsAccounted, HookNext
  PROVE  RequestsAccounted'
  <1>1. /\ IsFiniteSet(Forgotten) /\ IsFiniteSet(Forgotten')
        /\ Cardinality(Forgotten) \in Nat /\ Cardinality(Forgotten') \in Nat
    BY SourcesFinite, FS_CardinalityType DEF Forgotten
  <1>2. crashes \in Nat /\ crashes' \in Nat
    BY StepPlace, HookAssumption DEF PlaceInv, VarTypes
  <1>3. CASE \E w \in Workers : Crash(w)
    <2>1. PICK w \in Workers : Crash(w)
      BY <1>3
    <2>2. \A v \in Workers : Crash(v) => v = w
      BY <2>1 DEF Crash, PlaceInv, VarTypes
    <2>3. Forgotten' \subseteq Forgotten \cup {source[w]}
      BY <2>2, StepLost, ForgottenLost
    <2>4. /\ IsFiniteSet(Forgotten \cup {source[w]})
          /\ Cardinality(Forgotten \cup {source[w]}) <= Cardinality(Forgotten) + 1
      BY <1>1, OneMore
    <2>5. /\ Cardinality(Forgotten') <= Cardinality(Forgotten \cup {source[w]})
          /\ Cardinality(Forgotten \cup {source[w]}) \in Nat
      BY <2>3, <2>4, FS_Subset, FS_CardinalityType
    <2>6. crashes' = crashes + 1
      BY <2>1 DEF Crash
    <2> QED
      BY <1>1, <1>2, <2>4, <2>5, <2>6 DEF RequestsAccounted
  <1>4. CASE ~\E w \in Workers : Crash(w)
    <2>1. Forgotten' \subseteq Forgotten
      BY <1>4, StepLost, ForgottenLost
    <2>2. Cardinality(Forgotten') <= Cardinality(Forgotten)
      BY <1>1, <2>1, FS_Subset
    <2>3. Forgotten' # {} => crashes' >= crashes
      BY <1>4, StepLost, ForgottenLost
    <2>4. Forgotten' = {} => Cardinality(Forgotten') = 0
      BY FS_EmptySet
    <2> QED
      BY <1>1, <1>2, <2>2, <2>3, <2>4 DEF RequestsAccounted
  <1> QED
    BY <1>3, <1>4

-----------------------------------------------------------------------------
(* The theorems. *)

HookInv == PlaceInv /\ FewOrphans /\ MarkersCovered

LEMMA InitCounts == Init => FewOrphans /\ MarkersCovered
  <1> SUFFICES ASSUME Init PROVE FewOrphans /\ MarkersCovered
    OBVIOUS
  <1>1. Orphans = {} /\ Alive = {} /\ Owing = {} /\ marker = {} /\ crashes = 0
    BY DEF Init, Orphans, Alive, Owing
  <1> QED
    BY <1>1, FS_EmptySet DEF FewOrphans, MarkersCovered

\* The inductive invariant: types and places; orphans are as few as kills; each
\* marker is made up for.
THEOREM HookInvariance == Spec => []HookInv
  <1>1. Init => HookInv
    BY InitPlace, InitCounts DEF HookInv
  <1>2. HookInv /\ [HookNext]_hookvars => HookInv'
    <2>1. HookInv /\ HookNext => HookInv'
      BY StepPlace, StepOrphans, StepCovered DEF HookInv
    <2>2. HookInv /\ UNCHANGED hookvars => HookInv'
      <3> SUFFICES ASSUME HookInv, UNCHANGED hookvars PROVE HookInv'
        OBVIOUS
      <3>1. PlaceInv'
        BY DEF HookInv, hookvars, progress, PlaceInv, VarTypes, WorkerOK, OneEach,
               ParentsWait, ChildrenRun, ServiceChild
      <3>2. FewOrphans' /\ MarkersCovered'
        BY DEF HookInv, hookvars, progress, FewOrphans, Orphans, MarkersCovered, Alive,
               Owing, HasTaken
      <3> QED
        BY <3>1, <3>2 DEF HookInv
    <2> QED
      BY <2>1, <2>2
  <1> QED
    BY <1>1, <1>2, PTL DEF Spec

\* Every variable has its type, whoever is at work has the lock, and the
\* markers a worker is after are there until it takes them.
THEOREM HookTypeCorrect == Spec => []TypeOK
  <1>1. HookInv => TypeOK
    BY PlaceType DEF HookInv
  <1> QED
    BY <1>1, HookInvariance, PTL

\* Imports do not overlap, but for those whose worker was killed.
THEOREM ImportsAlwaysExclusive == Spec => []ImportsExclusive
  <1>1. HookInv => ImportsExclusive
    BY FewImports DEF HookInv
  <1> QED
    BY <1>1, HookInvariance, PTL

\* No marker is left without a process that will look for it, but for kills.
THEOREM NoRequestStranded == Spec => []NoStrandedRequest
  <1>1. HookInv => NoStrandedRequest
    BY NoneStranded DEF HookInv
  <1> QED
    BY <1>1, HookInvariance, PTL

\* No request is forgotten, one that comes during an import of its source
\* included, but for those that a killed worker had in hand.
THEOREM RequestsAlwaysAccounted == Disjoint => (Spec => []RequestsAccounted)
  <1> DEFINE AccountInv == PlaceInv /\ ReadInv /\ RequestsAccounted
  <1> SUFFICES ASSUME Disjoint PROVE Spec => []RequestsAccounted
    OBVIOUS
  <1>1. Init => AccountInv
    <2>1. Init => RequestsAccounted
      BY InitRead, FS_EmptySet DEF Init, RequestsAccounted
    <2> QED
      BY <2>1, InitPlace, InitRead
  <1>2. AccountInv /\ [HookNext]_hookvars => AccountInv'
    <2>1. AccountInv /\ HookNext => AccountInv'
      BY StepPlace, StepRead, StepAccounted
    <2>2. AccountInv /\ UNCHANGED hookvars => AccountInv'
      <3> SUFFICES ASSUME AccountInv, UNCHANGED hookvars PROVE AccountInv'
        OBVIOUS
      <3>1. PlaceInv'
        BY DEF hookvars, progress, PlaceInv, VarTypes, WorkerOK, OneEach, ParentsWait,
               ChildrenRun, ServiceChild
      <3>2. ReadInv'
        BY DEF hookvars, progress, ReadInv, ReadUpTo, Target
      <3>3. RequestsAccounted'
        BY DEF hookvars, progress, RequestsAccounted, Forgotten, WillRead, Target
      <3> QED
        BY <3>1, <3>2, <3>3
    <2> QED
      BY <2>1, <2>2
  <1>3. AccountInv => RequestsAccounted
    OBVIOUS
  <1> HIDE DEF AccountInv
  <1> QED
    BY <1>1, <1>2, <1>3, PTL DEF Spec

-----------------------------------------------------------------------------
(* The service and the hooks together: types, and that the imports of both *)
(* exclude each other, from the invariant above and what the service knows *)
(* of the lock.                                                            *)

\* The service's own variables.  It has a target while it imports.
ServiceInv ==
  /\ spc \in {"cycle", "source", "retry", "running"}
  /\ at \in 1 .. Len(ServiceTargets) + 1
  /\ quiet \in [Targets -> BOOLEAN]
  /\ waited \in [Targets -> 0 .. MaxDefer]
  /\ token \in {"none", "valid", "expired"}
  /\ renewed \in BOOLEAN
  /\ expiries \in 0 .. MaxExpiries
  /\ spc = "running" => lock = Service
  /\ spc \in {"running", "retry"} => at \in DOMAIN ServiceTargets

SyncInv == HookInv /\ ServiceInv

\* A step of the service that leaves markers and workers alone keeps what has
\* been counted.
LEMMA CountsKept ==
  ASSUME PlaceInv, FewOrphans, MarkersCovered, UNCHANGED hookjobs, PlaceInv',
         \A j \in imports' : j.owner \in Workers => \E i \in imports : i.owner = j.owner,
         crashes <= crashes'
  PROVE  FewOrphans' /\ MarkersCovered'
  <1> USE DEF hookjobs, progress
  <1>1. Orphans' \subseteq Orphans
    BY DEF Orphans
  <1>2. Alive' = Alive /\ Owing' = Owing
    BY DEF Alive, Owing, HasTaken
  <1> QED
    BY <1>1, <1>2, FewerOrphans, StillCovered DEF MarkersCovered

\* Steps of the service that leave imports and the lock alone.
LEMMA ApartKeeps ==
  ASSUME HookInv, UNCHANGED <<hookjobs, lock, imports, dirty>>,
         failures' \in 0 .. MaxFailures, crashes' \in 0 .. MaxCrashes, crashes <= crashes'
  PROVE  HookInv'
  <1> USE DEF hookjobs, progress
  <1>1. PlaceInv'
    BY DEF HookInv, PlaceInv, VarTypes, WorkerOK, OneEach, ParentsWait, ChildrenRun,
           ServiceChild
  <1> QED
    BY <1>1, CountsKept DEF HookInv

\* The service takes the lock and starts an import.
LEMMA ImportKeeps ==
  ASSUME HookInv, NEW t \in Targets, lock = NoOne, lock' = Service,
         StartImport(Service, t), UNCHANGED <<hookjobs, dirty, failures, crashes>>
  PROVE  HookInv'
  <1> USE HookAssumption DEF hookjobs, progress
  <1>1. \A i \in imports : i.owner # Service
    BY DEF HookInv, PlaceInv, ServiceChild
  <1>2. /\ imports' \subseteq ImportType
        /\ OneEach'
        /\ \A i \in imports' : i.owner # Service => i \in imports
        /\ \A i \in imports : i \in imports'
        /\ \E i \in imports' : i.owner = Service
    BY <1>1, StartKeeps DEF HookInv
  <1>3. PlaceInv'
    BY <1>2 DEF HookInv, PlaceInv, VarTypes, ImportType, WorkerOK, ParentsWait, ChildrenRun,
                ServiceChild
  <1>4. crashes <= crashes'
    BY DEF HookInv, PlaceInv, VarTypes
  <1> QED
    BY <1>2, <1>3, <1>4, CountsKept DEF HookInv

\* The import of the service ends, and the lock is free.
LEMMA EndImportKeeps ==
  ASSUME HookInv, NEW b \in BOOLEAN, EndServiceImport(b),
         UNCHANGED <<hookjobs, crashes>>, failures' \in 0 .. MaxFailures
  PROVE  HookInv'
  <1> USE HookAssumption DEF hookjobs, progress
  <1>1. PICK i \in imports : i.owner = Service /\ EndImport(i, b)
    BY DEF EndServiceImport
  <1>2. /\ imports' \subseteq ImportType
        /\ dirty' \in [Targets -> BOOLEAN]
        /\ OneEach'
        /\ \A j \in imports' : j \in imports /\ j.owner # Service
        /\ \A j \in imports : j.owner # Service => j \in imports'
    BY <1>1, EndKeeps DEF HookInv
  <1>3. lock = Service /\ lock' = NoOne
    BY <1>1 DEF HookInv, PlaceInv, ServiceChild, EndServiceImport
  <1>4. PlaceInv'
    BY <1>2, <1>3 DEF HookInv, PlaceInv, VarTypes, ImportType, WorkerOK, ParentsWait,
                      ChildrenRun, ServiceChild
  <1>5. crashes <= crashes'
    BY DEF HookInv, PlaceInv, VarTypes
  <1> QED
    BY <1>2, <1>4, <1>5, CountsKept DEF HookInv

\* Agents write.
LEMMA WriteKeeps ==
  ASSUME HookInv, NEW t \in Targets, Write(t)
  PROVE  HookInv'
  <1> USE HookAssumption DEF hookjobs, progress
  <1>1. /\ imports' \subseteq ImportType
        /\ dirty' \in [Targets -> BOOLEAN]
        /\ OneEach'
        /\ \A j \in imports' : \E i \in imports : j.owner = i.owner
        /\ \A i \in imports : \E j \in imports' : j.owner = i.owner
    BY TouchKeeps DEF Write, HookInv
  <1>2. PlaceInv'
    BY <1>1 DEF Write, HookInv, PlaceInv, VarTypes, ImportType, WorkerOK, ParentsWait,
                ChildrenRun, ServiceChild
  <1>3. crashes <= crashes' /\ UNCHANGED hookjobs
    BY DEF Write, HookInv, PlaceInv, VarTypes
  <1> QED
    BY <1>1, <1>2, <1>3, CountsKept DEF HookInv

LEMMA HooksKept ==
  ASSUME SyncInv, Next
  PROVE  HookInv'
  <1> USE HookAssumption, ServiceAssumption
  <1>1. failures \in 0 .. MaxFailures /\ crashes \in 0 .. MaxCrashes
    BY DEF SyncInv, HookInv, PlaceInv, VarTypes
  <1>2. CASE HookNext
    BY <1>2, StepPlace, StepOrphans, StepCovered DEF SyncInv, HookInv
  <1>3. CASE \E t \in Targets : Write(t)
    BY <1>3, WriteKeeps DEF SyncInv
  <1>4. CASE \/ \E t \in Targets : Settle(t)
             \/ Expire \/ BeginCycle \/ NotReady \/ ServiceBusy \/ EndCycle
    <2>1. UNCHANGED hookvars
      BY <1>4 DEF Settle, Expire, BeginCycle, NotReady, ServiceBusy, EndCycle
    <2> QED
      BY <1>1, <2>1, ApartKeeps DEF hookvars, hookjobs, SyncInv
  <1>5. CASE NoToken
    BY <1>1, <1>5, ApartKeeps DEF NoToken, SyncInv
  <1>6. CASE ServiceCrash
    BY <1>1, <1>6, ApartKeeps DEF ServiceCrash, SyncInv
  <1>7. CASE ServiceImport
    <2>1. ServiceTargets[at] \in Targets
      BY <1>7 DEF ServiceImport, Listed
    <2> QED
      BY <1>7, <2>1, ImportKeeps DEF ServiceImport, SyncInv
  <1>8. CASE ServiceOk
    BY <1>1, <1>8, EndImportKeeps DEF ServiceOk, SyncInv, hookjobs
  <1>9. CASE ServiceFails
    <2>1. failures' \in 0 .. MaxFailures
      BY <1>1, <1>9 DEF ServiceFails
    <2>2. EndServiceImport(FALSE) /\ UNCHANGED <<hookjobs, crashes>>
      BY <1>9 DEF ServiceFails
    <2> QED
      BY <2>1, <2>2, EndImportKeeps DEF SyncInv
  <1>10. CASE AuthFailure
    <2>1. failures' \in 0 .. MaxFailures
      BY <1>1, <1>10 DEF AuthFailure
    <2>2. EndServiceImport(FALSE) /\ UNCHANGED <<hookjobs, crashes>>
      BY <1>10 DEF AuthFailure
    <2> QED
      BY <2>1, <2>2, EndImportKeeps DEF SyncInv
  <1>11. CASE ServiceOrphanEnds
    BY <1>1, <1>11, EndImportKeeps DEF ServiceOrphanEnds, SyncInv, hookjobs
  <1> QED
    BY <1>2, <1>3, <1>4, <1>5, <1>6, <1>7, <1>8, <1>9, <1>10, <1>11 DEF Next, ServiceStep

LEMMA ServiceKept ==
  ASSUME SyncInv, Next
  PROVE  ServiceInv'
  <1> USE HookAssumption, ServiceAssumption
  <1>1. /\ Len(ServiceTargets) \in Nat
        /\ DOMAIN ServiceTargets = 1 .. Len(ServiceTargets)
        /\ \A n \in DOMAIN ServiceTargets : ServiceTargets[n] \in Targets
    OBVIOUS
  <1>2. ASSUME HookNext, UNCHANGED servicevars
        PROVE  ServiceInv'
    <2>1. lock = Service => lock' = Service
      <3>1. ASSUME lock = Service, NEW w \in Workers PROVE pc[w] \notin Holding
        BY <3>1 DEF SyncInv, HookInv, PlaceInv, WorkerOK
      <3>2. ASSUME NEW w \in Workers, Request(w) \/ Work(w) \/ Crash(w), lock = Service
            PROVE  lock' = lock
        BY <3>1, <3>2 DEF Request, Work, Crash, Spawn, Acquire, Scan, Rescan, Take, Attempt,
                          AttemptOk, AttemptFails, SourceDone, Holding
      <3> QED
        BY <1>2, <3>2 DEF HookNext, OrphanEnds
    <2> QED
      BY <1>2, <2>1 DEF servicevars, SyncInv, ServiceInv
  <1>3. ASSUME NEW t \in Targets, Write(t) \/ Settle(t)
        PROVE  ServiceInv'
    BY <1>3 DEF Write, Settle, hookvars, SyncInv, ServiceInv
  <1>4. CASE Expire
    BY <1>4 DEF Expire, hookvars, SyncInv, ServiceInv
  <1>5. CASE BeginCycle
    <2>1. at' \in 1 .. Len(ServiceTargets) + 1
      BY <1>1, <1>5 DEF BeginCycle
    <2>2. token' \in {"none", "valid", "expired"}
      <3>1. token' = token \/ token' = "valid"
        BY <1>5 DEF BeginCycle
      <3> QED
        BY <3>1 DEF SyncInv, ServiceInv
    <2>3. renewed' = FALSE /\ spc' = "source" /\ UNCHANGED <<quiet, waited, expiries>>
      BY <1>5 DEF BeginCycle
    <2> QED
      BY <2>1, <2>2, <2>3 DEF SyncInv, ServiceInv
  <1>6. CASE NoToken \/ EndCycle
    <2>1. waited' \in [Targets -> 0 .. MaxDefer] /\ spc' = "cycle"
      BY <1>6 DEF NoToken, EndCycle, Sleep, SyncInv, ServiceInv
    <2>2. /\ UNCHANGED <<lock, at, quiet, token, renewed, expiries>>
      BY <1>6 DEF NoToken, EndCycle, hookvars
    <2> QED
      BY <2>1, <2>2 DEF SyncInv, ServiceInv
  <1>7. CASE NotReady \/ ServiceBusy
    <2>1. /\ at' \in 1 .. Len(ServiceTargets) + 1 /\ spc' = "source"
          /\ UNCHANGED <<quiet, waited, token, renewed, expiries>>
      BY <1>1, <1>7 DEF NotReady, ServiceBusy, Listed, NextTarget
    <2> QED
      BY <2>1 DEF SyncInv, ServiceInv
  <1>8. CASE ServiceImport
    BY <1>8 DEF ServiceImport, Listed, SyncInv, ServiceInv
  <1>9. CASE ServiceOk
    <2>1. at \in DOMAIN ServiceTargets
      BY <1>9 DEF ServiceOk, SyncInv, ServiceInv
    <2>2. at' \in 1 .. Len(ServiceTargets) + 1 /\ spc' = "source"
      BY <1>1, <1>9, <2>1 DEF ServiceOk, NextTarget
    <2>3. waited' \in [Targets -> 0 .. MaxDefer]
      BY <1>9 DEF ServiceOk, SyncInv, ServiceInv
    <2>4. UNCHANGED <<quiet, token, renewed, expiries>>
      BY <1>9 DEF ServiceOk
    <2> QED
      BY <2>2, <2>3, <2>4 DEF SyncInv, ServiceInv
  <1>10. CASE ServiceFails
    <2>1. at \in DOMAIN ServiceTargets
      BY <1>10 DEF ServiceFails, SyncInv, ServiceInv
    <2>2. at' \in 1 .. Len(ServiceTargets) + 1 /\ spc' = "source"
      BY <1>1, <1>10, <2>1 DEF ServiceFails, NextTarget
    <2>3. UNCHANGED <<quiet, waited, token, renewed, expiries>>
      BY <1>10 DEF ServiceFails
    <2> QED
      BY <2>2, <2>3 DEF SyncInv, ServiceInv
  <1>11. CASE AuthFailure
    <2>1. at \in DOMAIN ServiceTargets
      BY <1>11 DEF AuthFailure, SyncInv, ServiceInv
    <2>2. \/ at' = at /\ spc' = "retry"
          \/ at' \in 1 .. Len(ServiceTargets) + 1 /\ spc' = "source"
      BY <1>1, <1>11, <2>1 DEF AuthFailure, NextTarget
    <2>3. /\ UNCHANGED <<quiet, waited, expiries>>
          /\ token' \in {"none", "valid", "expired"} /\ renewed' \in BOOLEAN
      BY <1>11 DEF AuthFailure, SyncInv, ServiceInv
    <2> QED
      BY <2>1, <2>2, <2>3 DEF SyncInv, ServiceInv
  <1>12. CASE ServiceCrash
    BY <1>12 DEF ServiceCrash, SyncInv, ServiceInv
  <1>13. CASE ServiceOrphanEnds
    BY <1>13 DEF ServiceOrphanEnds, EndServiceImport, servicevars, SyncInv, ServiceInv
  <1> QED
    BY <1>2, <1>3, <1>4, <1>5, <1>6, <1>7, <1>8, <1>9, <1>10, <1>11, <1>12, <1>13
    DEF Next, ServiceStep

-----------------------------------------------------------------------------
(* The theorems. *)

\* The inductive invariant of the service and the hooks.
THEOREM SyncInvariance == ServiceSpec => []SyncInv
  <1>1. ServiceInit => SyncInv
    <2> SUFFICES ASSUME ServiceInit PROVE SyncInv
      OBVIOUS
    <2>1. HookInv
      BY InitPlace, InitCounts DEF ServiceInit, HookInv
    <2>2. Len(ServiceTargets) \in Nat /\ MaxDefer \in Nat /\ MaxExpiries \in Nat
      BY ServiceAssumption
    <2>3. ServiceInv
      <3>1. at \in 1 .. Len(ServiceTargets) + 1
        BY <2>2 DEF ServiceInit
      <3>2. waited \in [Targets -> 0 .. MaxDefer]
        BY <2>2 DEF ServiceInit
      <3>3. expiries \in 0 .. MaxExpiries
        BY <2>2 DEF ServiceInit
      <3>4. quiet \in [Targets -> BOOLEAN]
        BY DEF ServiceInit
      <3>5. lock # Service
        BY HookAssumption DEF ServiceInit, Init
      <3> QED
        BY <3>1, <3>2, <3>3, <3>4, <3>5 DEF ServiceInit, ServiceInv
    <2> QED
      BY <2>1, <2>3 DEF SyncInv
  <1>2. SyncInv /\ [Next]_vars => SyncInv'
    <2>1. SyncInv /\ Next => SyncInv'
      BY HooksKept, ServiceKept DEF SyncInv
    <2>2. SyncInv /\ UNCHANGED vars => SyncInv'
      <3> SUFFICES ASSUME SyncInv, UNCHANGED vars PROVE SyncInv'
        OBVIOUS
      <3>1. HookInv'
        BY ApartKeeps DEF SyncInv, vars, hookvars, hookjobs, HookInv, PlaceInv, VarTypes
      <3>2. ServiceInv'
        BY DEF SyncInv, vars, hookvars, servicevars, ServiceInv
      <3> QED
        BY <3>1, <3>2 DEF SyncInv
    <2> QED
      BY <2>1, <2>2
  <1> QED
    BY <1>1, <1>2, PTL DEF ServiceSpec

\* Every variable has its type, and the lock is the service's exactly while an
\* import of its own runs, one that has survived the service included.
THEOREM ServiceTypeCorrect == ServiceSpec => []ServiceTypeOK
  <1>1. SyncInv => ServiceTypeOK
    BY PlaceType DEF SyncInv, HookInv, PlaceInv, ServiceChild, ServiceInv, ServiceTypeOK
  <1> QED
    BY <1>1, SyncInvariance, PTL

\* Imports of the service and of workers do not overlap, but for those whose
\* worker was killed.
THEOREM SyncImportsExclusive == ServiceSpec => []ImportsExclusive
  <1>1. SyncInv => ImportsExclusive
    BY FewImports DEF SyncInv, HookInv
  <1> QED
    BY <1>1, SyncInvariance, PTL

\* The service strands no request of the hooks.
THEOREM SyncStrandsNothing == ServiceSpec => []NoStrandedRequest
  <1>1. SyncInv => NoStrandedRequest
    BY NoneStranded DEF SyncInv, HookInv
  <1> QED
    BY <1>1, SyncInvariance, PTL
=============================================================================
