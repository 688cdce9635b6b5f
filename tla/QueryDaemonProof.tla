--------------------------- MODULE QueryDaemonProof ---------------------------
(***************************************************************************)
(* The safety of QueryDaemon, for any number of daemons, searches, faults  *)
(* and batches, with and without an earlier version.  OneDaemon,           *)
(* ServiceReachable and AdmittedServed follow from who has the flock at    *)
(* which point of acquire, run_daemon_inner and drop; LegacyKept from who  *)
(* has the metadata file open, IdleExact from what the idle clock and the  *)
(* activity count know of a request; and every variable has its type.      *)
(***************************************************************************)
EXTENDS QueryDaemon, TLAPS

Serving == {"top", "quit", "iterate", "batch", "rested", "worked"}
Ending == {"finish", "stop", "join"}

Locations ==
  /\ lpc \in [Daemons -> LockPoints]
  /\ dpc \in [Daemons -> MainPoints]
  /\ thread \in [Daemons -> ThreadPoints]

\* Whoever is past try_lock_pid_file has the flock.
FlockHeld == \A d \in Daemons : lpc[d] \notin {"out", "wanting"} => guard = d

\* A daemon is at work with the lock, and a process that is off wants none.
LockKept ==
  \A d \in Daemons : /\ InCharge(d) => lpc[d] = "held"
                     /\ dpc[d] = "off" => lpc[d] = "out"

\* Its files are there from the moment it has written them.
FilesOwned ==
  \A d \in Daemons :
    /\ dpc[d] \in {"publish", "spawn"} \cup Serving => socket = d
    /\ dpc[d] \in {"spawn"} \cup Serving => endpoint = d

\* The query thread lives within its daemon.
ThreadInside ==
  \A d \in Daemons : thread[d] # "off" => dpc[d] \in Serving \cup Ending

DaemonInv == Locations /\ FlockHeld /\ LockKept /\ FilesOwned /\ ThreadInside

-----------------------------------------------------------------------------
\* The initial states satisfy the invariant.
LEMMA InitDaemonInv == Init => DaemonInv
  BY DEF Init, LockInit, DaemonInv, Locations, FlockHeld, LockKept, FilesOwned,
         ThreadInside, InCharge, Serving, Ending, LockPoints, MainPoints,
         ThreadPoints

\* Two processes that are past try_lock_pid_file are the same.
LEMMA OneFlock ==
  ASSUME FlockHeld, NEW d \in Daemons, NEW e \in Daemons,
         lpc[d] \notin {"out", "wanting"}, lpc[e] \notin {"out", "wanting"}
  PROVE  d = e
  BY DEF FlockHeld

\* A step of acquire or of drop keeps the flock with the process that is past
\* try_lock_pid_file, and it is not a step of a daemon at work.
LEMMA LockingPreserves ==
  ASSUME DaemonInv, NEW d \in Daemons, LockingStep(d)
  PROVE  DaemonInv'
<1> USE LockAssumption DEF DaemonInv, Locations, LockPoints
<1>1. UNCHANGED <<dpc, thread, endpoint, socket>>
  BY DEF LockingStep, NotService, mainvars, netvars, threadvars
<1>2. /\ lpc' \in [Daemons -> LockPoints]
      /\ \A e \in Daemons \ {d} : lpc'[e] = lpc[e]
      /\ lpc[d] \notin {"out", "held"}
      /\ lpc'[d] \notin {"out", "wanting"} => guard' = d
      /\ lpc[d] \notin {"out", "wanting"} => guard' \in {d, NoOne}
      /\ lpc[d] = "wanting" => guard' = guard \/ (guard = NoOne /\ guard' = d)
  <2>1. CASE LockStep(d)
    <3>1. CASE Lock(d) BY <3>1 DEF Lock
    <3>2. CASE Judge(d) BY <3>2 DEF Judge, Unlock, FlockHeld
    <3>3. CASE Open(d) BY <3>3 DEF Open, FlockHeld
    <3>4. CASE Check(d) BY <3>4 DEF Check, Unlock, FlockHeld
    <3>5. CASE Truncate(d) BY <3>5 DEF Truncate, FlockHeld
    <3>6. CASE Write(d) BY <3>6 DEF Write, FlockHeld
    <3>7. CASE Verify(d) BY <3>7 DEF Verify, Unlock, FlockHeld
    <3> QED BY <2>1, <3>1, <3>2, <3>3, <3>4, <3>5, <3>6, <3>7 DEF LockStep
  <2>2. CASE GiveUp(d) BY <2>2 DEF GiveUp
  <2> QED BY <2>1, <2>2 DEF LockingStep
<1>3. FlockHeld' BY <1>2 DEF FlockHeld
<1>4. LockKept' BY <1>1, <1>2 DEF LockKept, InCharge
<1>5. FilesOwned' /\ ThreadInside' BY <1>1 DEF FilesOwned, ThreadInside
<1> QED BY <1>1, <1>2, <1>3, <1>4, <1>5

\* The steps of a daemon at work leave the lock alone and move it from one
\* of its points to another; only the first and the last ones touch its files.
LEMMA WorkPreserves ==
  ASSUME DaemonInv, NEW d \in Daemons,
         \/ SpawnThread(d) \/ Top(d) \/ Quit(d) \/ Iterate(d) \/ Batch(d)
         \/ After(d) \/ Stop(d)
  PROVE  DaemonInv'
<1> USE DEF Goto
<1>1. UNCHANGED <<lpc, guard, endpoint, socket>>
  BY DEF SpawnThread, Top, Quit, Iterate, Batch, After, Stop, lockvars, netvars
<1>2. \E l \in Serving \cup {"finish", "join"} :
        /\ dpc' = [dpc EXCEPT ![d] = l]
        /\ dpc[d] \in {"spawn"} \cup Serving \cup {"stop"}
        /\ l \in Serving => dpc[d] \in {"spawn"} \cup Serving
  BY DEF SpawnThread, Top, Quit, Iterate, Batch, After, Stop, Serving
<1>3. /\ thread' \in [Daemons -> ThreadPoints]
      /\ \A e \in Daemons \ {d} : thread'[e] = thread[e]
  BY DEF SpawnThread, Top, Quit, Iterate, Batch, After, Stop, threadvars,
     DaemonInv, Locations, ThreadPoints
<1>4. Locations'
  BY <1>1, <1>2, <1>3 DEF DaemonInv, Locations, MainPoints, Serving
<1>5. FlockHeld' BY <1>1 DEF DaemonInv, FlockHeld
<1>6. LockKept'
  BY <1>1, <1>2 DEF DaemonInv, Locations, LockKept, InCharge, Serving
<1>7. FilesOwned'
  BY <1>1, <1>2 DEF DaemonInv, Locations, FilesOwned, Serving
<1>8. ThreadInside'
  BY <1>2, <1>3 DEF DaemonInv, Locations, ThreadInside, Serving, Ending
<1> QED BY <1>4, <1>5, <1>6, <1>7, <1>8 DEF DaemonInv

\* Only a daemon that has the lock writes or removes the files, and no other
\* daemon is at work then.
LEMMA FilesPreserve ==
  ASSUME DaemonInv, NEW d \in Daemons,
         \/ Bind(d) \/ Publish(d) \/ StartFails(d) \/ RemoveEndpoint(d)
         \/ Join(d)
  PROVE  DaemonInv'
<1> USE DEF Goto
<1>1. /\ UNCHANGED <<lpc, guard, thread>>
      /\ lpc[d] = "held"
  <2>1. UNCHANGED <<lpc, guard, thread>>
    BY DEF Bind, Publish, StartFails, RemoveEndpoint, Join, lockvars, threadvars
  <2>2. lpc[d] = "held"
    BY DEF Bind, Publish, StartFails, RemoveEndpoint, Join, DaemonInv, LockKept,
       InCharge
  <2> QED BY <2>1, <2>2
<1>2. \A e \in Daemons \ {d} : ~InCharge(e)
  BY <1>1, OneFlock DEF DaemonInv, LockKept
<1>3. \E l \in {"publish", "spawn", "stop", "release"} :
        /\ dpc' = [dpc EXCEPT ![d] = l]
        /\ dpc[d] \in {"lock", "publish", "spawn", "finish", "join"}
        /\ l = "publish" => dpc[d] = "lock" /\ socket' = d
        /\ l = "spawn" => dpc[d] = "publish" /\ socket' = socket /\ endpoint' = d
        /\ l = "stop" => dpc[d] = "finish"
        /\ l = "release" => thread[d] = "off"
  BY DEF Bind, Publish, StartFails, RemoveEndpoint, Join, DaemonInv,
     ThreadInside, Serving, Ending
<1>4. Locations' BY <1>1, <1>3 DEF DaemonInv, Locations, MainPoints
<1>5. FlockHeld' BY <1>1 DEF DaemonInv, FlockHeld
<1>6. LockKept' BY <1>1, <1>3 DEF DaemonInv, Locations, LockKept, InCharge
<1>7. FilesOwned'
  BY <1>2, <1>3 DEF DaemonInv, Locations, FilesOwned, InCharge, Serving, MainPoints
<1>8. ThreadInside'
  BY <1>1, <1>3 DEF DaemonInv, Locations, ThreadInside, Serving, Ending
<1> QED BY <1>4, <1>5, <1>6, <1>7, <1>8 DEF DaemonInv

\* A process that is not needed, exits or is killed takes nothing with it
\* that another daemon works with.
LEMMA EndPreserves ==
  ASSUME DaemonInv, NEW d \in Daemons,
         NotMine(d) \/ DropLock(d) \/ Exit(d) \/ Crash(d)
  PROVE  DaemonInv'
<1> USE DEF Goto
<1>1. CASE NotMine(d)
  BY <1>1 DEF NotMine, lockvars, netvars, threadvars, DaemonInv, Locations,
     FlockHeld, LockKept, FilesOwned, ThreadInside, InCharge, MainPoints,
     Serving, Ending
<1>2. CASE DropLock(d)
  BY <1>2 DEF DropLock, Release, Unlock, netvars, threadvars, DaemonInv,
     Locations, FlockHeld, LockKept, FilesOwned, ThreadInside, InCharge,
     MainPoints, LockPoints, Serving, Ending
<1>3. CASE Exit(d)
  BY <1>3 DEF Exit, Vanish, lockvars, DaemonInv, Locations, FlockHeld,
     LockKept, FilesOwned, ThreadInside, InCharge, MainPoints, ThreadPoints,
     Serving, Ending
<1>4. CASE Crash(d)
  BY <1>4 DEF Crash, Die, Vanish, DaemonInv, Locations, FlockHeld, LockKept,
     FilesOwned, ThreadInside, InCharge, MainPoints, LockPoints, ThreadPoints,
     Serving, Ending
<1> QED BY <1>1, <1>2, <1>3, <1>4

\* The query thread of a daemon starts and ends within it.
LEMMA ServePreserves ==
  ASSUME DaemonInv, NEW d \in Daemons, ServeStep(d)
  PROVE  DaemonInv'
<1>1. UNCHANGED <<lpc, guard, dpc, endpoint, socket>>
  BY DEF ServeStep, Accept, Handle, Load, Embed, ThreadEnds, lockvars, mainvars,
     netvars
<1>2. /\ thread[d] # "off"
      /\ \E l \in ThreadPoints : thread' = [thread EXCEPT ![d] = l]
  <2>1. CASE Accept(d)
    <3>1. thread[d] = "accept" /\ thread \in [Daemons -> ThreadPoints]
      BY <2>1 DEF Accept, DaemonInv, Locations
    <3>2. thread' = [thread EXCEPT ![d] = "read"] \/ thread' = thread
      BY <2>1 DEF Accept
    <3> QED BY <3>1, <3>2 DEF ThreadPoints
  <2>2. CASE Handle(d) \/ Load(d) \/ Embed(d) \/ ThreadEnds(d)
    BY <2>2 DEF Handle, Load, Embed, ThreadEnds, Answer, ThreadPoints
  <2> QED BY <2>1, <2>2 DEF ServeStep
<1> QED
  BY <1>1, <1>2 DEF DaemonInv, Locations, FlockHeld, LockKept, FilesOwned,
     ThreadInside, InCharge

\* A search, or a user, starts a daemon by making a process that is off want
\* the lock; nothing else that searches do concerns the daemons' files.
LEMMA StartPreserves ==
  ASSUME DaemonInv,
         UNCHANGED <<guard, thread, endpoint, socket>>,
         \/ UNCHANGED <<lpc, dpc>>
         \/ \E d \in Daemons : dpc[d] = "off" /\ Goto(d, "lock") /\ Want(d)
  PROVE  DaemonInv'
<1>1. CASE UNCHANGED <<lpc, dpc>>
  BY <1>1 DEF DaemonInv, Locations, FlockHeld, LockKept, FilesOwned,
     ThreadInside, InCharge
<1>2. ASSUME NEW d \in Daemons, dpc[d] = "off", Goto(d, "lock"), Want(d)
      PROVE  DaemonInv'
  BY <1>2 DEF Goto, Want, DaemonInv, Locations, FlockHeld, LockKept, FilesOwned,
     ThreadInside, InCharge, MainPoints, LockPoints, Serving, Ending
<1> QED BY <1>1, <1>2

\* The process that Start chooses is off.
LEMMA StartsOne ==
  ASSUME Start
  PROVE  \/ UNCHANGED <<lpc, dpc>>
         \/ \E d \in Daemons : dpc[d] = "off" /\ Goto(d, "lock") /\ Want(d)
<1> DEFINE off == {d \in Daemons : dpc[d] = "off"}
           e == CHOOSE d \in off : TRUE
<1>1. CASE UNCHANGED <<lpc, dpc>> BY <1>1
<1>2. CASE off # {} /\ Goto(e, "lock") /\ Want(e)
  <2>1. e \in off BY <1>2
  <2> QED BY <1>2, <2>1
<1> QED BY <1>1, <1>2 DEF Start

LEMMA SearchPreserves ==
  ASSUME DaemonInv, NEW c \in Clients,
         Search(c) \/ SearchStep(c) \/ Timeout(c)
  PROVE  DaemonInv'
<1>1. UNCHANGED <<guard, thread, endpoint, socket>>
  BY DEF Search, SearchStep, Timeout, Probed, WindowEnds, ReadEndpoint, Connect,
     HangUp, lockvars, netvars, threadvars
<1>2. Start \/ UNCHANGED <<lpc, dpc>>
  BY DEF Search, SearchStep, Timeout, Probed, WindowEnds, ReadEndpoint, Connect,
     HangUp, lockvars, mainvars
<1> QED BY <1>1, <1>2, StartsOne, StartPreserves

-----------------------------------------------------------------------------
\* Every step of the daemons, the searches and the earlier version.
LEMMA NextDaemonInv == DaemonInv /\ [Next]_vars => DaemonInv'
<1> SUFFICES ASSUME DaemonInv, [Next]_vars PROVE DaemonInv'
  OBVIOUS
<1>1. ASSUME NEW d \in Daemons,
             LockingStep(d) \/ MainStep(d) \/ ServeStep(d) \/ Crash(d)
      PROVE  DaemonInv'
  BY <1>1, LockingPreserves, WorkPreserves, FilesPreserve, EndPreserves,
     ServePreserves DEF MainStep
<1>2. ASSUME NEW d \in Daemons, IdleElapses(d) PROVE DaemonInv'
  BY <1>2, StartPreserves DEF IdleElapses, lockvars, netvars, threadvars
<1>3. ASSUME NEW c \in Clients, Search(c) \/ SearchStep(c) \/ Timeout(c)
      PROVE  DaemonInv'
  BY <1>3, SearchPreserves
<1>4. CASE RunByHand
  BY <1>4, StartPreserves DEF RunByHand, netvars, threadvars
<1>5. CASE (Expire \/ LegacyStep) /\ UNCHANGED <<NotService, faults>>
  BY <1>5, StartPreserves DEF Expire, LegacyStep, LegacyUnlink, LegacyCreate,
     LegacyWrite, LegacyEnd, NotService, mainvars, netvars, threadvars
<1>6. CASE UNCHANGED vars
  BY <1>6, StartPreserves DEF vars, lockvars, mainvars, netvars, threadvars
<1> QED BY <1>1, <1>2, <1>3, <1>4, <1>5, <1>6 DEF Next

\* The invariant holds in every reachable state.
LEMMA AlwaysDaemonInv == Spec => []DaemonInv
  BY InitDaemonInv, NextDaemonInv, PTL DEF Spec

\* Two daemons are never at work at a time: PidFileLock::acquire, for any
\* number of contenders and whatever crashes have left behind.
THEOREM OneDaemonAlways == Spec => []OneDaemon
<1>1. DaemonInv => OneDaemon
  BY DEF DaemonInv, FlockHeld, LockKept, OneDaemon, InCharge
<1> QED BY <1>1, AlwaysDaemonInv, PTL

\* The socket and the endpoint of a running service are its own: the order of
\* drop(query_service) and drop(_lock) (daemon.rs:1188-1192).
THEOREM ServiceReachableAlways == Spec => []ServiceReachable
<1>1. DaemonInv => ServiceReachable
  BY DEF DaemonInv, FilesOwned, ServiceReachable, Serving
<1> QED BY <1>1, AlwaysDaemonInv, PTL

\* No daemon gives up the lock while its thread is at a request: the thread is
\* joined first.
THEOREM AdmittedServedAlways == Spec => []AdmittedServed
<1>1. DaemonInv => AdmittedServed
  BY DEF DaemonInv, FlockHeld, LockKept, ThreadInside, AdmittedServed, Active,
     InCharge, Serving, Ending
<1> QED BY <1>1, AlwaysDaemonInv, PTL

-----------------------------------------------------------------------------
(* Types.                                                                  *)

LockTyped ==
  /\ guard \in Daemons \cup {NoOne}
  /\ probes \subseteq Clients
  /\ meta \in Metadata
  /\ lpc \in [Daemons -> LockPoints]
  /\ linked \in [Daemons -> BOOLEAN]
  /\ attempt \in [Daemons -> 0 .. Attempts]
  /\ closing \in [Daemons -> BOOLEAN]
  /\ legacy \in {"unlinking", "creating", "writing", "running", "done"}

\* Attempts are counted from the first open on, and there is one left when
\* the file is opened.
AttemptsFit ==
  \A d \in Daemons :
    /\ lpc[d] \in {"out", "wanting", "judging", "held"} => attempt[d] = 0
    /\ lpc[d] = "opening" => attempt[d] < Attempts

MainTyped ==
  /\ dpc \in [Daemons -> MainPoints]
  /\ idle \in [Daemons -> {"none", "since", "over"}]
  /\ recent \in [Daemons -> BOOLEAN]
  /\ loaded \in [Daemons -> BOOLEAN]
  /\ work \in 0 .. MaxWork

NetTyped ==
  /\ {endpoint, socket} \subseteq Daemons \cup {NoOne, "stale"}
  /\ backlog \in [Daemons -> SUBSET Requests]

ThreadTyped ==
  /\ thread \in [Daemons -> ThreadPoints]
  /\ request \in [Daemons -> Requests \cup {NoRequest}]
  /\ accepting \in [Daemons -> BOOLEAN]
  /\ moved \in [Daemons -> BOOLEAN]
  /\ \A d \in Daemons : Active(d) <=> request[d] # NoRequest

ClientTyped ==
  /\ cpc \in [Clients -> {"idle", "probing", "read", "connect", "reply"}]
  /\ op \in [Clients -> {"ping", "embed"}]
  /\ token \in [Clients -> Daemons \cup {NoOne, "stale"}]
  /\ outcome \in [Clients -> {"none", "semantic", "lexical"}]

TypeInv ==
  /\ LockTyped /\ AttemptsFit
  /\ MainTyped /\ NetTyped /\ ThreadTyped /\ ClientTyped
  /\ faults \in Nat

LEMMA TypesMean == TypeInv => TypeOK
  BY DEF TypeInv, TypeOK, LockTyped, MainTyped, NetTyped, ThreadTyped, ClientTyped

\* A request is told from none by its operation.
LEMMA NoRequestIsNone == NoRequest \notin Requests
  BY DEF NoRequest, Requests

\* Whoever gives the flock back has no attempts any more.
LEMMA UnlockTypes ==
  ASSUME LockTyped, AttemptsFit, NEW d \in Daemons, Unlock(d),
         UNCHANGED <<probes, meta, legacy>>
  PROVE  LockTyped' /\ AttemptsFit'
<1> USE LockAssumption DEF LockAssumption, LockTyped, AttemptsFit, LockPoints, Unlock
<1>1. lpc' \in [Daemons -> LockPoints] OBVIOUS
<1>2. linked' \in [Daemons -> BOOLEAN] /\ closing' \in [Daemons -> BOOLEAN]
  OBVIOUS
<1>3. attempt' \in [Daemons -> 0 .. Attempts] OBVIOUS
<1>4. AttemptsFit' OBVIOUS
<1> QED BY <1>1, <1>2, <1>3, <1>4

\* The steps of acquire and drop, a kill, and those of the earlier version.
LEMMA LockTypes ==
  ASSUME LockTyped, AttemptsFit,
         \/ UNCHANGED lockvars
         \/ \E d \in Daemons : LockStep(d) \/ GiveUp(d) \/ Release(d) \/ Die(d)
         \/ Expire \/ LegacyStep
  PROVE  LockTyped' /\ AttemptsFit'
<1> USE LockAssumption DEF LockAssumption, LockTyped, AttemptsFit, LockPoints,
                           Metadata
<1>1. CASE UNCHANGED lockvars BY <1>1 DEF lockvars
<1>2. ASSUME NEW d \in Daemons,
             LockStep(d) \/ GiveUp(d) \/ Release(d) \/ Die(d)
      PROVE  LockTyped' /\ AttemptsFit'
  <2>1. CASE Lock(d) BY <2>1 DEF Lock
  <2>2. CASE Judge(d)
    <3>1. \/ Unlock(d) /\ UNCHANGED <<probes, meta, legacy>>
          \/ /\ lpc[d] = "judging"
             /\ lpc' = [lpc EXCEPT ![d] = "opening"]
             /\ UNCHANGED <<guard, linked, attempt, closing, probes, meta, legacy>>
      BY <2>2 DEF Judge
    <3> QED BY <3>1, UnlockTypes
  <2>3. CASE Open(d) BY <2>3 DEF Open
  <2>4. CASE Check(d)
    <3>1. \/ Unlock(d) /\ UNCHANGED <<probes, meta, legacy>>
          \/ /\ lpc' = [lpc EXCEPT ![d] = "truncating"]
             /\ UNCHANGED <<guard, linked, attempt, closing, probes, meta, legacy>>
      BY <2>4 DEF Check
    <3> QED BY <3>1, UnlockTypes
  <2>5. CASE Truncate(d) BY <2>5 DEF Truncate
  <2>6. CASE Write(d) BY <2>6 DEF Write, Payload
  <2>7. CASE Verify(d)
    <3>1. CASE Unlock(d) BY <2>7, <3>1, UnlockTypes DEF Verify
    <3>2. CASE /\ lpc' = [lpc EXCEPT ![d] = "held"]
               /\ linked' = [linked EXCEPT ![d] = FALSE]
               /\ attempt' = [attempt EXCEPT ![d] = 0]
               /\ UNCHANGED <<guard, closing>>
      BY <2>7, <3>2 DEF Verify
    <3>3. CASE /\ attempt[d] < Attempts
               /\ lpc' = [lpc EXCEPT ![d] = "opening"]
               /\ linked' = [linked EXCEPT ![d] = FALSE]
               /\ UNCHANGED <<guard, attempt, closing>>
      BY <2>7, <3>3 DEF Verify
    <3> QED BY <2>7, <3>1, <3>2, <3>3, Zenon DEF Verify
  <2>8. CASE GiveUp(d) BY <2>8 DEF GiveUp
  <2>9. CASE Release(d)
    <3>1. CASE meta = d
      <4>1. closing' \in [Daemons -> BOOLEAN] BY <2>9, <3>1 DEF Release
      <4> QED BY <2>9, <3>1, <4>1 DEF Release
    <3>2. CASE meta # d BY <2>9, <3>2, UnlockTypes DEF Release
    <3> QED BY <3>1, <3>2
  <2>10. CASE Die(d) BY <2>10 DEF Die
  <2> QED
    BY <1>2, <2>1, <2>2, <2>3, <2>4, <2>5, <2>6, <2>7, <2>8, <2>9, <2>10
    DEF LockStep
<1>3. CASE Expire BY <1>3 DEF Expire
<1>4. CASE LegacyStep
  BY <1>4 DEF LegacyStep, LegacyUnlink, LegacyCreate, LegacyWrite, LegacyEnd
<1> QED BY <1>1, <1>2, <1>3, <1>4

\* A search learns what has become of its request, whoever asked.
LEMMA LearnTypes ==
  ASSUME ClientTyped, NEW c, NEW ok \in BOOLEAN, Learn(c, ok)
  PROVE  ClientTyped'
<1>1. CASE c \in Clients BY <1>1 DEF Learn, ClientTyped
<1>2. CASE c \notin Clients BY <1>2 DEF Learn, ClientTyped, clientvars
<1> QED BY <1>1, <1>2

\* Starting a process keeps the types of both program counters.
LEMMA StartTypes ==
  ASSUME LockTyped, AttemptsFit, MainTyped,
         UNCHANGED <<guard, meta, linked, attempt, closing, legacy, idle, recent,
                     loaded, work>>,
         probes' \subseteq Clients,
         \/ UNCHANGED <<lpc, dpc>>
         \/ \E d \in Daemons : dpc[d] = "off" /\ Goto(d, "lock") /\ Want(d)
  PROVE  LockTyped' /\ AttemptsFit' /\ MainTyped'
  BY DEF LockTyped, AttemptsFit, MainTyped, Goto, Want, MainPoints, LockPoints

\* What the main thread does.
LEMMA MainTypes ==
  ASSUME DaemonInv, TypeInv, NEW d \in Daemons, MainStep(d) \/ IdleElapses(d)
  PROVE  MainTyped' /\ NetTyped' /\ ThreadTyped' /\ ClientTyped' /\ faults' \in Nat
<1> USE DEF TypeInv, MainTyped, NetTyped, ThreadTyped, ClientTyped, Goto, MainPoints,
            Fault, Active, mainvars, netvars, threadvars, clientvars
<1>1. CASE NotMine(d) BY <1>1 DEF NotMine
<1>2. CASE Bind(d) BY <1>2 DEF Bind
<1>3. CASE Publish(d) BY <1>3 DEF Publish
<1>4. CASE SpawnThread(d)
  BY <1>4 DEF SpawnThread, DaemonInv, ThreadInside, Serving, Ending, ThreadPoints
<1>5. CASE StartFails(d) BY <1>5 DEF StartFails
<1>6. CASE Top(d) BY <1>6 DEF Top
<1>7. CASE Quit(d) BY <1>7 DEF Quit
<1>8. CASE Iterate(d)
  <2>1. work' \in 0 .. MaxWork
    BY <1>8, DaemonAssumption DEF Iterate, DaemonAssumption
  <2>2. loaded' \in {loaded, [loaded EXCEPT ![d] = TRUE]} BY <1>8 DEF Iterate
  <2>3. \E l \in MainPoints : dpc' = [dpc EXCEPT ![d] = l] BY <1>8 DEF Iterate
  <2>4. faults' \in Nat BY <1>8 DEF Iterate
  <2> QED BY <1>8, <2>1, <2>2, <2>3, <2>4 DEF Iterate
<1>9. CASE Batch(d)
  <2>1. loaded' \in {loaded, [loaded EXCEPT ![d] = FALSE]} BY <1>9 DEF Batch
  <2>2. \E l \in MainPoints : dpc' = [dpc EXCEPT ![d] = l] BY <1>9 DEF Batch
  <2>3. faults' \in Nat BY <1>9 DEF Batch
  <2> QED BY <1>9, <2>1, <2>2, <2>3 DEF Batch
<1>10. CASE After(d) BY <1>10 DEF After
<1>11. CASE RemoveEndpoint(d) BY <1>11 DEF RemoveEndpoint
<1>12. CASE Stop(d) BY <1>12 DEF Stop
<1>13. CASE Join(d) BY <1>13 DEF Join
<1>14. CASE DropLock(d) BY <1>14 DEF DropLock
<1>15. CASE Exit(d) BY <1>15 DEF Exit, Vanish, Outdate, ThreadPoints
<1>16. CASE IdleElapses(d) BY <1>16 DEF IdleElapses
<1> QED
  BY <1>1, <1>2, <1>3, <1>4, <1>5, <1>6, <1>7, <1>8, <1>9, <1>10, <1>11, <1>12,
     <1>13, <1>14, <1>15, <1>16 DEF MainStep

\* What the query thread does; requests come from the backlog.
LEMMA ServeTypes ==
  ASSUME TypeInv, NEW d \in Daemons, ServeStep(d)
  PROVE  MainTyped' /\ NetTyped' /\ ThreadTyped' /\ ClientTyped' /\ faults' \in Nat
<1> USE DEF TypeInv, MainTyped, NetTyped, ThreadTyped, ThreadPoints, Fault, Active,
            mainvars, netvars, threadvars
<1>1. ASSUME NEW ok \in BOOLEAN, Answer(d, ok) PROVE ThreadTyped' /\ ClientTyped'
  BY <1>1, LearnTypes DEF Answer
<1>2. CASE Accept(d)
  <2>1. PICK r \in backlog[d] :
          /\ backlog' = [backlog EXCEPT ![d] = @ \ {r}]
          /\ \/ /\ thread' = [thread EXCEPT ![d] = "read"]
                /\ request' = [request EXCEPT ![d] = r]
                /\ moved' = [moved EXCEPT ![d] = TRUE]
                /\ recent' = [recent EXCEPT ![d] = TRUE]
             \/ UNCHANGED <<thread, request, moved, recent>>
    BY <1>2 DEF Accept
  <2>2. r \in Requests /\ r # NoRequest BY NoRequestIsNone
  <2>3. ThreadTyped'
    <3>1. CASE UNCHANGED <<thread, request, moved>> BY <1>2, <3>1 DEF Accept
    <3>2. CASE /\ thread' = [thread EXCEPT ![d] = "read"]
               /\ request' = [request EXCEPT ![d] = r]
               /\ moved' = [moved EXCEPT ![d] = TRUE]
      <4>1. accepting' = accepting BY <1>2 DEF Accept
      <4>2. moved' \in [Daemons -> BOOLEAN] BY <3>2
      <4> QED BY <2>2, <3>2, <4>1, <4>2
    <3> QED BY <2>1, <3>1, <3>2
  <2>4. NetTyped' BY <1>2, <2>1 DEF Accept
  <2>5. MainTyped' BY <1>2, <2>1 DEF Accept
  <2> QED BY <1>2, <2>3, <2>4, <2>5 DEF Accept, ClientTyped, clientvars
<1>3. CASE Handle(d)
  <2>1. CASE request[d].token = d /\ request[d].op = "embed"
    BY <1>3, <2>1 DEF Handle, ClientTyped, clientvars
  <2>2. CASE ~(request[d].token = d /\ request[d].op = "embed")
    BY <1>1, <1>3, <2>2 DEF Handle
  <2> QED BY <2>1, <2>2
<1>4. CASE Load(d)
  <2>1. CASE /\ loaded' = [loaded EXCEPT ![d] = TRUE]
             /\ thread' = [thread EXCEPT ![d] = "embed"]
             /\ UNCHANGED <<request, accepting, moved, clientvars, faults>>
    BY <1>4, <2>1 DEF Load, ClientTyped, clientvars
  <2>2. CASE Fault /\ Answer(d, FALSE) /\ UNCHANGED loaded
    <3>1. ThreadTyped' /\ ClientTyped' BY <1>1, <2>2
    <3>2. loaded' = loaded /\ faults' \in Nat BY <2>2
    <3>3. UNCHANGED <<lockvars, dpc, idle, recent, work, netvars>>
      BY <1>4, Zenon DEF Load
    <3>4. MainTyped' /\ NetTyped' BY <3>2, <3>3
    <3> QED BY <3>1, <3>2, <3>4
  <2> QED BY <1>4, <2>1, <2>2, Zenon DEF Load
<1>5. CASE Embed(d)
  <2>1. ThreadTyped' /\ ClientTyped' BY <1>1, <1>5 DEF Embed
  <2>2. /\ loaded' = loaded \/ loaded' = [loaded EXCEPT ![d] = FALSE]
        /\ faults' = faults \/ faults' = faults + 1
    BY <1>5, Zenon DEF Embed, Fault
  <2>3. MainTyped' /\ NetTyped' BY <1>5, <2>2 DEF Embed
  <2> QED BY <2>1, <2>2, <2>3
<1>6. CASE ThreadEnds(d) BY <1>6 DEF ThreadEnds, ClientTyped, clientvars
<1> QED BY <1>2, <1>3, <1>4, <1>5, <1>6 DEF ServeStep

\* What a search does.
LEMMA SearchTypes ==
  ASSUME TypeInv, NEW c \in Clients, Search(c) \/ SearchStep(c) \/ Timeout(c)
  PROVE  TypeInv'
<1> USE DEF TypeInv
<1>1. CASE Search(c)
  <2>1. LockTyped' /\ AttemptsFit' /\ MainTyped'
    BY <1>1, StartTypes, StartsOne DEF Search, LockTyped
  <2>2. NetTyped' /\ ThreadTyped' /\ ClientTyped' /\ faults' \in Nat
    BY <1>1 DEF Search, Start, Await, Fault, NetTyped, ThreadTyped, ClientTyped,
       Active, netvars, threadvars
  <2> QED BY <2>1, <2>2
<1>2. CASE Probed(c)
  <2>1. LockTyped' /\ AttemptsFit' /\ MainTyped'
    BY <1>2, StartTypes, StartsOne DEF Probed, LockTyped
  <2>2. NetTyped' /\ ThreadTyped' /\ ClientTyped' /\ faults' \in Nat
    BY <1>2 DEF Probed, Start, Await, Fault, NetTyped, ThreadTyped, ClientTyped,
       Active, netvars, threadvars
  <2> QED BY <2>1, <2>2
<1>3. ASSUME UNCHANGED <<lockvars, mainvars>>
      PROVE  LockTyped' /\ AttemptsFit' /\ MainTyped'
  BY <1>3 DEF LockTyped, AttemptsFit, MainTyped, lockvars, mainvars
<1>4. CASE WindowEnds(c)
  BY <1>3, <1>4 DEF WindowEnds, Fault, NetTyped, ThreadTyped, ClientTyped, Active,
     netvars, threadvars
<1>5. CASE ReadEndpoint(c)
  <2>1. ClientTyped'
    BY <1>5, LearnTypes DEF ReadEndpoint, ClientTyped, NetTyped
  <2> QED
    BY <1>3, <1>5, <2>1 DEF ReadEndpoint, NetTyped, ThreadTyped, Active, netvars,
       threadvars
<1>6. CASE Connect(c)
  <2>1. ClientTyped' BY <1>6, LearnTypes DEF Connect, ClientTyped
  <2>2. NetTyped'
    <3>1. [from |-> c, op |-> op[c], token |-> token[c]] \in Requests
      BY DEF ClientTyped, Requests
    <3> HIDE DEF TypeInv
    <3>2. CASE socket \in Daemons /\ Listening(socket)
      BY <1>6, <3>1, <3>2 DEF Connect, NetTyped, TypeInv
    <3>3. CASE ~(socket \in Daemons /\ Listening(socket))
      BY <1>6, <3>3 DEF Connect, NetTyped, TypeInv
    <3> QED BY <3>2, <3>3
  <2> QED BY <1>3, <1>6, <2>1, <2>2 DEF Connect, ThreadTyped, Active, threadvars
<1>7. CASE HangUp(c)
  BY <1>3, <1>7, LearnTypes DEF HangUp, NetTyped, ThreadTyped, Active, netvars,
     threadvars
<1>8. CASE Timeout(c)
  <2> DEFINE Leave(r) == IF r.from = c THEN [r EXCEPT !.from = "gone"] ELSE r
  <2>1. \A r \in Requests : Leave(r) \in Requests BY DEF Requests
  <2>2. Leave(NoRequest) = NoRequest
    BY DaemonAssumption DEF NoRequest, DaemonAssumption
  <2>3. /\ backlog' = [d \in Daemons |-> {Leave(r) : r \in backlog[d]}]
        /\ request' = [d \in Daemons |-> Leave(request[d])]
    BY <1>8 DEF Timeout
  <2> HIDE DEF Leave
  <2>4. NetTyped' BY <1>8, <2>1, <2>3 DEF Timeout, NetTyped
  <2>5. ThreadTyped'
    <3>1. \A d \in Daemons : /\ request'[d] \in Requests \cup {NoRequest}
                             /\ request'[d] = NoRequest <=> request[d] = NoRequest
      BY <2>1, <2>2, <2>3, NoRequestIsNone DEF ThreadTyped
    <3>2. request' \in [Daemons -> Requests \cup {NoRequest}] BY <2>3, <3>1
    <3> QED BY <1>8, <3>1, <3>2 DEF Timeout, ThreadTyped, Active
  <2>6. ClientTyped' BY <1>8, LearnTypes DEF Timeout
  <2>7. faults' \in Nat BY <1>8 DEF Timeout, Fault
  <2>8. UNCHANGED <<lockvars, mainvars>> BY <1>8 DEF Timeout
  <2> QED BY <1>3, <2>4, <2>5, <2>6, <2>7, <2>8
<1> QED BY <1>1, <1>2, <1>4, <1>5, <1>6, <1>7, <1>8 DEF SearchStep

LEMMA NextTypeInv == DaemonInv /\ TypeInv /\ [Next]_vars => TypeInv'
<1> SUFFICES ASSUME DaemonInv, TypeInv, [Next]_vars PROVE TypeInv'
  OBVIOUS
<1> USE DEF TypeInv
<1>1. ASSUME UNCHANGED NotService
      PROVE  MainTyped' /\ NetTyped' /\ ThreadTyped' /\ ClientTyped'
  BY <1>1 DEF NotService, MainTyped, NetTyped, ThreadTyped, ClientTyped, Active,
     mainvars, netvars, threadvars, clientvars
<1>2. ASSUME NEW d \in Daemons, LockingStep(d) PROVE TypeInv'
  <2>1. LockTyped' /\ AttemptsFit' BY <1>2, LockTypes DEF LockingStep
  <2>2. faults' \in Nat BY <1>2 DEF LockingStep, Fault
  <2> QED BY <1>1, <1>2, <2>1, <2>2 DEF LockingStep
<1>3. ASSUME NEW d \in Daemons, MainStep(d) \/ ServeStep(d) \/ IdleElapses(d)
      PROVE  TypeInv'
  <2>1. UNCHANGED lockvars \/ Release(d)
    BY <1>3 DEF MainStep, ServeStep, IdleElapses, NotMine, Bind, Publish,
       SpawnThread, StartFails, Top, Quit, Iterate, Batch, After, RemoveEndpoint,
       Stop, Join, DropLock, Exit, Accept, Handle, Load, Embed, ThreadEnds
  <2>2. LockTyped' /\ AttemptsFit' BY <2>1, LockTypes
  <2> QED BY <1>3, <2>2, MainTypes, ServeTypes
<1>4. ASSUME NEW d \in Daemons, Crash(d) PROVE TypeInv'
  <2>1. LockTyped' /\ AttemptsFit' BY <1>4, LockTypes DEF Crash
  <2> QED
    BY <1>4, <2>1 DEF Crash, Vanish, Outdate, Goto, Fault, MainTyped, NetTyped,
       ThreadTyped, ClientTyped, Active, MainPoints, ThreadPoints
<1>5. ASSUME NEW c \in Clients, Search(c) \/ SearchStep(c) \/ Timeout(c)
      PROVE  TypeInv'
  BY <1>5, SearchTypes
<1>6. CASE RunByHand
  <2>1. LockTyped' /\ AttemptsFit' /\ MainTyped'
    BY <1>6, StartTypes DEF RunByHand, LockTyped
  <2> QED
    BY <1>6, <2>1 DEF RunByHand, Fault, NetTyped, ThreadTyped, ClientTyped, Active,
       netvars, threadvars, clientvars
<1>7. CASE (Expire \/ LegacyStep) /\ UNCHANGED <<NotService, faults>>
  BY <1>1, <1>7, LockTypes
<1>8. CASE UNCHANGED vars
  BY <1>1, <1>8, LockTypes DEF vars, NotService
<1> QED BY <1>2, <1>3, <1>4, <1>5, <1>6, <1>7, <1>8 DEF Next

LEMMA InitTypeInv == Init => TypeInv
  BY LockAssumption, DaemonAssumption DEF LockAssumption, DaemonAssumption, Init,
     LockInit, TypeInv, LockTyped, AttemptsFit, MainTyped, NetTyped, ThreadTyped,
     ClientTyped, Active, LockPoints, MainPoints, ThreadPoints, Metadata

\* Every variable has its type, and the query thread has a request exactly
\* while it is at one, for any number of processes.
THEOREM DaemonTypeCorrect == Spec => []TypeOK
  BY InitTypeInv, NextTypeInv, AlwaysDaemonInv, TypesMean, PTL DEF Spec
-----------------------------------------------------------------------------
(* The metadata of the earlier version.                                    *)

\* A process may have the file of the earlier version open, but one that is
\* about to write to it has opened another one, which has lost its name.
LegacyInv ==
  /\ meta = "absent" => \A d \in Daemons : ~linked[d]
  /\ legacy \in {"writing", "running"} =>
       /\ meta = IF legacy = "writing" THEN "incomplete" ELSE "legacy"
       /\ \A d \in Daemons : lpc[d] \in {"truncating", "writing"} => ~linked[d]

LEMMA LegacyLocking ==
  ASSUME LockTyped, LegacyInv, NEW d \in Daemons,
         LockStep(d) \/ GiveUp(d) \/ Release(d) \/ Die(d)
  PROVE  LegacyInv'
<1> USE LockAssumption DEF LockTyped, LegacyInv, LockAssumption, LockPoints
<1>1. CASE Lock(d) BY <1>1 DEF Lock
<1>2. CASE GiveUp(d) BY <1>2 DEF GiveUp
<1>3. ASSUME Unlock(d), UNCHANGED <<meta, legacy>> PROVE LegacyInv'
  BY <1>3 DEF Unlock
<1>4. CASE Judge(d)
  <2>1. \/ Unlock(d) /\ UNCHANGED <<meta, legacy>>
        \/ /\ lpc' = [lpc EXCEPT ![d] = "opening"]
           /\ UNCHANGED <<linked, meta, legacy>>
    BY <1>4 DEF Judge
  <2> QED BY <1>3, <2>1
<1>5. CASE Open(d) BY <1>5 DEF Open
<1>6. CASE Check(d)
  <2>1. CASE Unlock(d) /\ UNCHANGED <<meta, legacy>> BY <1>3, <2>1
  <2>2. CASE Replaceable /\ lpc' = [lpc EXCEPT ![d] = "truncating"]
             /\ UNCHANGED <<linked, meta, legacy>>
    <3>1. legacy \notin {"writing", "running"}
      BY <2>2 DEF Replaceable, UsesAdvisoryProtocol, LegacyIsStale
    <3> QED BY <2>2, <3>1
  <2> QED BY <1>6, <2>1, <2>2 DEF Check
<1>7. CASE Truncate(d) BY <1>7 DEF Truncate
<1>8. CASE Write(d) BY <1>8 DEF Write, Payload
<1>9. CASE Verify(d)
  <2>1. \/ Unlock(d) /\ UNCHANGED <<meta, legacy>>
        \/ \E l \in {"held", "opening"} :
             /\ lpc' = [lpc EXCEPT ![d] = l]
             /\ linked' = [linked EXCEPT ![d] = FALSE]
             /\ UNCHANGED <<meta, legacy>>
    BY <1>9 DEF Verify
  <2> QED BY <1>3, <2>1
<1>10. CASE Release(d)
  <2>1. \/ Unlock(d) /\ UNCHANGED <<meta, legacy>>
        \/ /\ lpc' = [lpc EXCEPT ![d] = "opening"]
           /\ UNCHANGED <<linked, meta, legacy>>
    BY <1>10 DEF Release
  <2> QED BY <1>3, <2>1
<1>11. CASE Die(d) BY <1>11 DEF Die
<1> QED
  BY <1>1, <1>2, <1>4, <1>5, <1>6, <1>7, <1>8, <1>9, <1>10, <1>11 DEF LockStep

\* What a step is for the lock: nothing, a wish, a step of acquire, drop or a
\* kill, or one of the earlier version.
LEMMA LockView ==
  ASSUME Next
  PROVE  \/ UNCHANGED <<meta, linked, legacy>> /\ UNCHANGED lpc
         \/ /\ UNCHANGED <<meta, linked, legacy>>
            /\ \E d \in Daemons : Want(d)
         \/ \E d \in Daemons : LockStep(d) \/ GiveUp(d) \/ Release(d) \/ Die(d)
         \/ Expire \/ LegacyStep
<1>1. ASSUME NEW d \in Daemons, LockingStep(d) PROVE LockStep(d) \/ GiveUp(d)
  BY <1>1 DEF LockingStep
<1>2. ASSUME NEW d \in Daemons, MainStep(d) \/ ServeStep(d) \/ IdleElapses(d)
      PROVE  UNCHANGED lockvars \/ Release(d)
  BY <1>2 DEF MainStep, ServeStep, IdleElapses, NotMine, Bind, Publish,
     SpawnThread, StartFails, Top, Quit, Iterate, Batch, After, RemoveEndpoint,
     Stop, Join, DropLock, Exit, Accept, Handle, Load, Embed, ThreadEnds
<1>3. ASSUME NEW c \in Clients, Search(c) \/ SearchStep(c) \/ Timeout(c)
      PROVE  /\ UNCHANGED <<meta, linked, legacy>>
             /\ UNCHANGED lpc \/ \E d \in Daemons : Want(d)
  BY <1>3, StartsOne DEF Search, SearchStep, Timeout, Probed, WindowEnds, ReadEndpoint,
     Connect, HangUp, lockvars
<1>4. CASE RunByHand BY <1>4 DEF RunByHand
<1> QED BY <1>1, <1>2, <1>3, <1>4 DEF Next, Crash, lockvars

\* The invariant, and that nobody writes over the earlier version.
LEMMA LegacyStepKeeps ==
  ASSUME LockTyped, LegacyInv, Next
  PROVE  /\ LegacyInv'
         /\ legacy = "running" /\ legacy' = "running" /\ meta = "legacy"
              => meta' = "legacy"
<1>1. LegacyInv'
  <2>1. CASE UNCHANGED <<meta, linked, legacy>> /\ UNCHANGED lpc
    BY <2>1 DEF LegacyInv
  <2>2. ASSUME UNCHANGED <<meta, linked, legacy>>, NEW d \in Daemons, Want(d)
        PROVE  LegacyInv'
    BY <2>2 DEF LegacyInv, Want, LockTyped
  <2>3. CASE Expire BY <2>3 DEF Expire, LegacyInv
  <2>4. CASE LegacyStep
    BY <2>4 DEF LegacyStep, LegacyUnlink, LegacyCreate, LegacyWrite, LegacyEnd, LegacyInv
  <2> QED BY <2>1, <2>2, <2>3, <2>4, LegacyLocking, LockView
<1> QED BY <1>1 DEF LegacyInv

\* A newer daemon that has opened the file of a running one of the earlier
\* version finds out whose it is before it truncates it (paths_status.rs).
THEOREM LegacyAlwaysKept == Spec => LegacyKept
<1> DEFINE Kept == legacy = "running" /\ legacy' = "running" /\ meta = "legacy"
                     => meta' = "legacy"
<1>1. Init => LegacyInv
  BY DEF Init, LockInit, LegacyInv
<1>2. TypeInv /\ LegacyInv /\ [Next]_vars => LegacyInv' /\ [Kept]_vars
  BY LegacyStepKeeps DEF TypeInv, vars, lockvars, LegacyInv
<1>3. Spec => []TypeInv
  BY InitTypeInv, NextTypeInv, AlwaysDaemonInv, PTL DEF Spec
<1> QED BY <1>1, <1>2, <1>3, PTL DEF Spec, LegacyKept

-----------------------------------------------------------------------------
(* The idle clock.                                                         *)

\* A request that came after the idle clock was started is still being served
\* or has left its mark; a daemon that is about to quit has let it run out.
IdleInv ==
  \A d \in Daemons :
    /\ idle[d] # "none" /\ recent[d] => Busy(d)
    /\ dpc[d] = "quit" => idle[d] = "over"

LEMMA IdleKept ==
  ASSUME TypeInv, DaemonInv, IdleInv, Next
  PROVE  IdleInv'
<1> USE DEF TypeInv, MainTyped, ThreadTyped, Goto
<1>1. ASSUME UNCHANGED <<idle, recent, thread, moved>>, NEW d \in Daemons,
             dpc'[d] # "quit", \A e \in Daemons \ {d} : dpc'[e] = dpc[e]
      PROVE  IdleInv'
  BY <1>1 DEF IdleInv, Busy, Active
<1>2. ASSUME NEW d \in Daemons, MainStep(d) PROVE IdleInv'
  <2>1. CASE NotMine(d) \/ Bind(d) \/ Publish(d) \/ StartFails(d) \/ Iterate(d)
             \/ Batch(d) \/ RemoveEndpoint(d) \/ Stop(d) \/ Join(d) \/ DropLock(d)
    BY <1>1, <2>1 DEF NotMine, Bind, Publish, StartFails, Iterate, Batch,
       RemoveEndpoint, Stop, Join, DropLock, threadvars
  <2>2. CASE SpawnThread(d)
    <3>1. ~Active(d)
      BY <2>2 DEF SpawnThread, DaemonInv, ThreadInside, Serving, Ending, Active
    <3> QED BY <2>2, <3>1 DEF SpawnThread, IdleInv, Busy, Active
  <2>3. CASE Top(d)
    BY <2>3 DEF Top, IdleInv, Busy, Active
  <2>4. CASE Quit(d)
    BY <2>4 DEF Quit, IdleInv, Busy, Active
  <2>5. CASE After(d)
    BY <2>5 DEF After, IdleInv, Busy, Active
  <2>6. CASE Exit(d)
    BY <2>6 DEF Exit, Vanish, IdleInv, Busy, Active
  <2> QED BY <1>2, <2>1, <2>2, <2>3, <2>4, <2>5, <2>6 DEF MainStep
<1>3. ASSUME NEW d \in Daemons, Crash(d) PROVE IdleInv'
  BY <1>3 DEF Crash, Vanish, IdleInv, Busy, Active
<1>4. ASSUME NEW d \in Daemons, IdleElapses(d) PROVE IdleInv'
  BY <1>4 DEF IdleElapses, threadvars, IdleInv, Busy, Active
<1>5. ASSUME NEW d \in Daemons, ServeStep(d) PROVE IdleInv'
  <2>1. UNCHANGED <<dpc, idle>>
    BY <1>5 DEF ServeStep, Accept, Handle, Load, Embed, ThreadEnds, mainvars
  <2>2. \A e \in Daemons \ {d} : /\ recent'[e] = recent[e]
                                 /\ thread'[e] = thread[e] /\ moved'[e] = moved[e]
    BY <1>5 DEF ServeStep, Accept, Handle, Load, Embed, ThreadEnds, mainvars, Answer
  <2>3. \/ recent' = recent /\ (Busy(d) => Busy(d)')
        \/ Busy(d)'
    BY <1>5 DEF ServeStep, Accept, Handle, Load, Embed, ThreadEnds, mainvars, Answer,
       Busy, Active
  <2> QED BY <2>1, <2>2, <2>3 DEF IdleInv, Busy, Active
<1>6. CASE /\ UNCHANGED <<idle, recent, threadvars>>
           /\ \/ UNCHANGED dpc
              \/ \E d \in Daemons : dpc[d] = "off" /\ Goto(d, "lock")
  BY <1>6 DEF IdleInv, Busy, Active, threadvars
<1>7. ASSUME NEW c \in Clients, Search(c) \/ SearchStep(c) PROVE IdleInv'
  BY <1>6, <1>7, StartsOne DEF Search, SearchStep, Probed, WindowEnds, ReadEndpoint,
     Connect, HangUp, mainvars
<1>8. ASSUME NEW c \in Clients, Timeout(c) PROVE IdleInv'
  BY <1>8 DEF Timeout, mainvars, IdleInv, Busy, Active
<1>9. CASE RunByHand
  BY <1>6, <1>9 DEF RunByHand
<1>10. CASE UNCHANGED <<mainvars, threadvars>>
  BY <1>6, <1>10 DEF mainvars
<1> QED
  BY <1>2, <1>3, <1>4, <1>5, <1>7, <1>8, <1>9, <1>10 DEF Next, LockingStep, NotService

\* A daemon that quits has served nobody since its idle clock was started:
\* the last look is at the requests as well as at the activity (daemon.rs:208).
THEOREM IdleAlwaysExact == Spec => IdleExact
<1> DEFINE Exact == \A d \in Daemons : dpc[d] = "quit" /\ dpc'[d] = "finish"
                                        => ~recent[d]
<1>1. Init => IdleInv
  BY DEF Init, IdleInv
<1>2. TypeInv /\ DaemonInv /\ IdleInv /\ [Next]_vars => IdleInv'
  BY IdleKept DEF vars, mainvars, threadvars, IdleInv, Busy, Active
<1>3. TypeInv /\ IdleInv /\ [Next]_vars => [Exact]_vars
  <2> SUFFICES ASSUME TypeInv, IdleInv, Next, NEW d \in Daemons,
                      dpc[d] = "quit", dpc'[d] = "finish"
               PROVE  ~recent[d]
    OBVIOUS
  <2>1. Quit(d)
    <3>1. ASSUME NEW e \in Daemons, MainStep(e) PROVE Quit(d)
      BY <3>1 DEF TypeInv, MainTyped, MainStep, NotMine, Bind, Publish, SpawnThread,
         StartFails, Top, Quit, Iterate, Batch, After, RemoveEndpoint, Stop, Join,
         DropLock, Exit, Vanish, Goto
    <3>2. ASSUME NEW e \in Daemons, Crash(e) PROVE FALSE
      BY <3>2 DEF TypeInv, MainTyped, Crash, Vanish, Goto
    <3>3. UNCHANGED dpc => FALSE
      OBVIOUS
    <3>4. ASSUME NEW e \in Daemons, Goto(e, "lock") PROVE FALSE
      BY <3>4 DEF TypeInv, MainTyped, Goto
    <3>5. \A e \in Daemons : ~LockingStep(e) /\ ~ServeStep(e) /\ ~IdleElapses(e)
      BY <3>3 DEF LockingStep, NotService, ServeStep, Accept, Handle, Load, Embed,
         ThreadEnds, IdleElapses, mainvars
    <3>6. \A c \in Clients : ~Search(c) /\ ~SearchStep(c) /\ ~Timeout(c)
      BY <3>3, <3>4, StartsOne DEF Search, SearchStep, Timeout, Probed, WindowEnds,
         ReadEndpoint, Connect, HangUp, mainvars
    <3>7. ~RunByHand
      BY <3>4 DEF RunByHand
    <3> QED
      BY <3>1, <3>2, <3>3, <3>5, <3>6, <3>7 DEF Next, NotService, mainvars
  <2> QED BY <2>1 DEF Quit, Goto, TypeInv, MainTyped, IdleInv
<1>4. Spec => []TypeInv
  BY InitTypeInv, NextTypeInv, AlwaysDaemonInv, PTL DEF Spec
<1> QED BY <1>1, <1>2, <1>3, <1>4, AlwaysDaemonInv, PTL DEF Spec, IdleExact
=============================================================================
