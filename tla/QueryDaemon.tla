----------------------------- MODULE QueryDaemon -----------------------------
(***************************************************************************)
(* The daemon of crates/ctx-cli/src/semantic/daemon.rs and the searches    *)
(* that start it and let it embed their queries.                           *)
(*                                                                         *)
(* run_daemon_inner takes the lock of PidLock, publishes a socket and an   *)
(* endpoint file with a token, serves requests on a second thread and runs *)
(* its jobs in a loop until one fails or nothing has happened for a while. *)
(* A search looks at the lock, starts a daemon if nobody holds it, waits   *)
(* for the service, and falls back to a lexical search if it does not come.*)
(* The jobs and the requests share one embedder.                           *)
(***************************************************************************)
EXTENDS PidLock

CONSTANTS
  MaxWork,   \* bound on the batches there are to index
  MaxFaults  \* bound on crashes, errors, expired timeouts, daemons
             \* started by hand and of earlier versions

ASSUME DaemonAssumption ==
  /\ {MaxWork, MaxFaults} \subseteq Nat
  /\ Daemons \cap Clients = {}
  /\ {NoOne, "stale", "gone"} \cap (Daemons \cup Clients) = {}

VARIABLES
  dpc,        \* dpc[d]: where the main thread of d is
  endpoint,   \* daemon-query.json: whose token it has
  socket,     \* the socket file: who listens on it
  backlog,    \* backlog[d]: connections not yet accepted
  thread,     \* thread[d]: where the query thread of d is
  request,    \* request[d]: the request it is at
  accepting,  \* activity.accepting
  moved,      \* activity.generation is not observed_query_generation
  idle,       \* idle_since: none, a while ago, or idle_exit ago
  recent,     \* recent[d]: a request was admitted since idle_since was set
  loaded,     \* the shared embedder is there
  cpc,        \* cpc[c]: where the search c is
  op,         \* op[c]: what c asks of the service, "ping" or "embed"
  token,      \* token[c]: the token c has read
  outcome,    \* outcome[c]: how the last search of c ended
  work,       \* batches indexed so far
  faults      \* faults so far; an earlier version's process is one

mainvars == <<dpc, idle, recent, loaded, work>>
netvars == <<endpoint, socket, backlog>>
threadvars == <<thread, request, accepting, moved>>
clientvars == <<cpc, op, token, outcome>>
vars == <<lockvars, mainvars, netvars, threadvars, clientvars, faults>>

NoRequest == [from |-> NoOne, op |-> "none", token |-> NoOne]

Init ==
  /\ LockInit
  /\ dpc = [d \in Daemons |-> "off"]
  /\ endpoint = NoOne
  /\ socket = NoOne
  /\ backlog = [d \in Daemons |-> {}]
  /\ thread = [d \in Daemons |-> "off"]
  /\ request = [d \in Daemons |-> NoRequest]
  /\ accepting = [d \in Daemons |-> FALSE]
  /\ moved = [d \in Daemons |-> FALSE]
  /\ idle = [d \in Daemons |-> "none"]
  /\ recent = [d \in Daemons |-> FALSE]
  /\ loaded = [d \in Daemons |-> FALSE]
  /\ cpc = [c \in Clients |-> "idle"]
  /\ op = [c \in Clients |-> "ping"]
  /\ token = [c \in Clients |-> NoOne]
  /\ outcome = [c \in Clients |-> "none"]
  /\ work = 0
  /\ faults = IF legacy = "done" THEN 0 ELSE 1

Fault == faults < MaxFaults /\ faults' = faults + 1

\* What the request of search c comes to: it pings until the service answers
\* and then embeds (the second ping, of the search itself, is left out).
Learn(c, ok) ==
  IF c \in Clients
  THEN /\ IF op[c] = "ping"
          THEN /\ op' = [op EXCEPT ![c] = IF ok THEN "embed" ELSE "ping"]
               /\ cpc' = [cpc EXCEPT ![c] = "read"]
               /\ UNCHANGED outcome
          ELSE /\ op' = [op EXCEPT ![c] = "ping"]
               /\ cpc' = [cpc EXCEPT ![c] = "idle"]
               /\ outcome' = [outcome EXCEPT ![c] =
                                IF ok THEN "semantic" ELSE "lexical"]
       /\ token' = [token EXCEPT ![c] = NoOne]
  ELSE UNCHANGED clientvars

\* The listener is open.
Listening(d) == dpc[d] \in {"publish", "spawn"} \/ thread[d] # "off"

\* A search that waits for d does not wait in vain.
ComingUp(d) ==
  dpc[d] \in {"lock", "publish", "spawn"} \/ (accepting[d] /\ thread[d] # "off")

Goto(d, l) == dpc' = [dpc EXCEPT ![d] = l]

-----------------------------------------------------------------------------
(* Start: the lock, then the socket, the endpoint and the thread. *)

\* acquire has returned None: nothing to do for this process.
NotMine(d) ==
  /\ dpc[d] = "lock"
  /\ lpc[d] = "out"
  /\ Goto(d, "off")
  /\ UNCHANGED <<lockvars, idle, recent, loaded, work, netvars, threadvars,
                 clientvars, faults>>

\* bind_daemon_query_listener removes what is at the path first.
Bind(d) ==
  /\ dpc[d] = "lock"
  /\ lpc[d] = "held"
  /\ socket' = d
  /\ Goto(d, "publish")
  /\ UNCHANGED <<lockvars, idle, recent, loaded, work, endpoint, backlog,
                 threadvars, clientvars, faults>>

Publish(d) ==
  /\ dpc[d] = "publish"
  /\ endpoint' = d
  /\ Goto(d, "spawn")
  /\ UNCHANGED <<lockvars, idle, recent, loaded, work, socket, backlog,
                 threadvars, clientvars, faults>>

SpawnThread(d) ==
  /\ dpc[d] = "spawn"
  /\ thread' = [thread EXCEPT ![d] = "accept"]
  /\ accepting' = [accepting EXCEPT ![d] = TRUE]
  /\ Goto(d, "top")
  /\ UNCHANGED <<lockvars, idle, recent, loaded, work, netvars, request, moved,
                 clientvars, faults>>

\* The endpoint cannot be written, or the thread not be started.
StartFails(d) ==
  /\ dpc[d] \in {"publish", "spawn"}
  /\ Fault
  /\ endpoint' = IF dpc[d] = "spawn" THEN NoOne ELSE endpoint
  /\ socket' = NoOne
  /\ backlog' = [backlog EXCEPT ![d] = {}]
  /\ Goto(d, "release")
  /\ UNCHANGED <<lockvars, idle, recent, loaded, work, threadvars, clientvars>>

-----------------------------------------------------------------------------
(* The loop of the main thread. *)

Active(d) == thread[d] \in {"read", "load", "embed"}

\* Faulty: only the number of active requests is looked at.
BusyNow(d) == Active(d)

\* What observe_daemon_query_activity and try_stop_accepting_if_idle look at.
Busy(d) == Active(d) \/ moved[d]

Top(d) ==
  /\ dpc[d] = "top"
  /\ idle' = [idle EXCEPT ![d] = IF Busy(d) THEN "none" ELSE @]
  /\ moved' = [moved EXCEPT ![d] = FALSE]
  /\ Goto(d, IF idle'[d] = "over" THEN "quit" ELSE "iterate")
  /\ UNCHANGED <<lockvars, recent, loaded, work, netvars, thread, request,
                 accepting, clientvars, faults>>

\* daemon_can_begin_idle_shutdown; the other branch observes and continues,
\* as the top of the loop does.
Quit(d) ==
  /\ dpc[d] = "quit"
  /\ IF Busy(d)
     THEN Goto(d, "top") /\ UNCHANGED accepting
     ELSE /\ Goto(d, "finish")
          /\ accepting' = [accepting EXCEPT ![d] = FALSE]
  /\ UNCHANGED <<lockvars, idle, recent, loaded, work, netvars, thread,
                 request, moved, clientvars, faults>>

\* run_daemon_once finds nothing to do, or a batch to index, for which it
\* loads the embedder; or a job fails.
Iterate(d) ==
  /\ dpc[d] = "iterate"
  /\ \/ /\ Goto(d, "rested")
        /\ UNCHANGED <<loaded, work, faults>>
     \/ /\ work < MaxWork
        /\ work' = work + 1
        /\ loaded' = [loaded EXCEPT ![d] = TRUE]
        /\ Goto(d, "batch")
        /\ UNCHANGED faults
     \/ /\ Fault
        /\ Goto(d, "finish")
        /\ UNCHANGED <<loaded, work>>
  /\ UNCHANGED <<lockvars, idle, recent, netvars, threadvars, clientvars>>

\* embed_documents_with_shared_runtime: a second failure in a row drops the
\* embedder, and who finds it dropped fails.
Batch(d) ==
  /\ dpc[d] = "batch"
  /\ \/ /\ loaded[d]
        /\ Goto(d, "worked")
        /\ UNCHANGED <<loaded, faults>>
     \/ /\ loaded[d]
        /\ Fault
        /\ loaded' = [loaded EXCEPT ![d] = FALSE]
        /\ Goto(d, "finish")
     \/ /\ ~loaded[d]
        /\ Goto(d, "finish")
        /\ UNCHANGED <<loaded, faults>>
  /\ UNCHANGED <<lockvars, idle, recent, work, netvars, threadvars, clientvars>>

\* Faulty: every iteration without work starts the idle clock again.
AfterRestarting(d) ==
  /\ dpc[d] \in {"rested", "worked"}
  /\ moved' = [moved EXCEPT ![d] = FALSE]
  /\ idle' = [idle EXCEPT ![d] = IF dpc[d] = "worked" THEN "none" ELSE "since"]
  /\ recent' = [recent EXCEPT ![d] = FALSE]
  /\ Goto(d, "top")
  /\ UNCHANGED <<lockvars, loaded, work, netvars, thread, request, accepting,
                 clientvars, faults>>

\* The end of an iteration: work stops the idle clock, rest starts it.
After(d) ==
  /\ dpc[d] \in {"rested", "worked"}
  /\ moved' = [moved EXCEPT ![d] = FALSE]
  /\ LET set == dpc[d] = "rested" /\ (Busy(d) \/ idle[d] = "none")
     IN /\ idle' = [idle EXCEPT ![d] = IF dpc[d] = "worked" THEN "none"
                                       ELSE IF set THEN "since" ELSE @]
        /\ recent' = [recent EXCEPT ![d] = @ /\ ~set]
  /\ Goto(d, "top")
  /\ UNCHANGED <<lockvars, loaded, work, netvars, thread, request, accepting,
                 clientvars, faults>>

\* idle_exit is long: it does not pass during a search, or this is a fault.
IdleElapses(d) ==
  /\ idle[d] = "since"
  /\ \/ (\A c \in Clients : cpc[c] = "idle") /\ UNCHANGED faults
     \/ Fault
  /\ idle' = [idle EXCEPT ![d] = "over"]
  /\ UNCHANGED <<lockvars, dpc, recent, loaded, work, netvars, threadvars,
                 clientvars>>

-----------------------------------------------------------------------------
(* The end: drop(query_service), then drop(_lock). *)

\* The tokens of a service that is gone fit no other one.
Outdate(d) ==
  token' = [c \in Clients |-> IF token[c] = d THEN "stale" ELSE token[c]]

\* Faulty: the lock is dropped before the service.
RemoveEndpointUnlocked(d) ==
  /\ dpc[d] = "finish"
  /\ endpoint' = NoOne
  /\ Goto(d, "stop")
  /\ Die(d)
  /\ UNCHANGED <<idle, recent, loaded, work, socket, backlog, threadvars,
                 clientvars, faults>>

RemoveEndpoint(d) ==
  /\ dpc[d] = "finish"
  /\ endpoint' = NoOne
  /\ Goto(d, "stop")
  /\ UNCHANGED <<lockvars, idle, recent, loaded, work, socket, backlog,
                 threadvars, clientvars, faults>>

Stop(d) ==
  /\ dpc[d] = "stop"
  /\ accepting' = [accepting EXCEPT ![d] = FALSE]
  /\ Goto(d, "join")
  /\ UNCHANGED <<lockvars, idle, recent, loaded, work, netvars, thread,
                 request, moved, clientvars, faults>>

\* Faulty: the thread is not waited for.
JoinNothing(d) ==
  /\ dpc[d] = "join"
  /\ socket' = NoOne
  /\ Goto(d, "release")
  /\ UNCHANGED <<lockvars, idle, recent, loaded, work, endpoint, backlog,
                 threadvars, clientvars, faults>>

Join(d) ==
  /\ dpc[d] = "join"
  /\ thread[d] = "off"
  /\ socket' = NoOne
  /\ Goto(d, "release")
  /\ UNCHANGED <<lockvars, idle, recent, loaded, work, endpoint, backlog,
                 threadvars, clientvars, faults>>

DropLock(d) ==
  /\ dpc[d] = "release"
  /\ Release(d)
  /\ Goto(d, "exit")
  /\ UNCHANGED <<idle, recent, loaded, work, netvars, threadvars, clientvars,
                 faults>>

\* Nothing of the process is left but its files.
Vanish(d) ==
  /\ Goto(d, "off")
  /\ idle' = [idle EXCEPT ![d] = "none"]
  /\ recent' = [recent EXCEPT ![d] = FALSE]
  /\ loaded' = [loaded EXCEPT ![d] = FALSE]
  /\ accepting' = [accepting EXCEPT ![d] = FALSE]
  /\ moved' = [moved EXCEPT ![d] = FALSE]
  /\ thread' = [thread EXCEPT ![d] = "off"]
  /\ request' = [request EXCEPT ![d] = NoRequest]
  /\ backlog' = [backlog EXCEPT ![d] = {}]
  /\ endpoint' = IF endpoint = d THEN "stale" ELSE endpoint
  /\ socket' = IF socket = d THEN "stale" ELSE socket
  /\ Outdate(d)
  /\ UNCHANGED <<work, cpc, op, outcome>>

Exit(d) ==
  /\ dpc[d] = "exit"
  /\ lpc[d] = "out"
  /\ Vanish(d)
  /\ UNCHANGED <<lockvars, faults>>

Crash(d) ==
  /\ dpc[d] # "off"
  /\ Fault
  /\ Die(d)
  /\ Vanish(d)

-----------------------------------------------------------------------------
(* The query thread. *)

\* begin_request, for a connection the thread has accepted; it is closed
\* without an answer once the service does not accept any more.
Accept(d) ==
  /\ thread[d] = "accept"
  /\ dpc[d] # "join"
  /\ \E c \in backlog[d] :
       /\ backlog' = [backlog EXCEPT ![d] = @ \ {c}]
       /\ IF accepting[d]
          THEN /\ thread' = [thread EXCEPT ![d] = "read"]
               /\ request' = [request EXCEPT ![d] = c]
               /\ moved' = [moved EXCEPT ![d] = TRUE]
               /\ recent' = [recent EXCEPT ![d] = TRUE]
          ELSE UNCHANGED <<thread, request, moved, recent>>
  /\ UNCHANGED <<lockvars, dpc, idle, loaded, work, endpoint, socket, accepting,
                 clientvars, faults>>

\* The answer; then the request guard is dropped.
Answer(d, ok) ==
  /\ Learn(request[d].from, ok)
  /\ thread' = [thread EXCEPT ![d] = "accept"]
  /\ request' = [request EXCEPT ![d] = NoRequest]
  /\ moved' = [moved EXCEPT ![d] = TRUE]
  /\ UNCHANGED accepting

\* Token, then operation: a ping is answered whatever the embedder is doing.
Handle(d) ==
  /\ thread[d] = "read"
  /\ IF request[d].token = d /\ request[d].op = "embed"
     THEN /\ thread' = [thread EXCEPT ![d] = "load"]
          /\ UNCHANGED <<request, accepting, moved, clientvars>>
     ELSE Answer(d, request[d].token = d)
  /\ UNCHANGED <<lockvars, mainvars, netvars, faults>>

\* A model that is not in the cache, or cannot be loaded, is an error.
Load(d) ==
  /\ thread[d] = "load"
  /\ \/ /\ loaded' = [loaded EXCEPT ![d] = TRUE]
        /\ thread' = [thread EXCEPT ![d] = "embed"]
        /\ UNCHANGED <<request, accepting, moved, clientvars, faults>>
     \/ /\ ~loaded[d]
        /\ Fault
        /\ Answer(d, FALSE)
        /\ UNCHANGED loaded
  /\ UNCHANGED <<lockvars, dpc, idle, recent, work, netvars>>

\* embed_query_with_shared_runtime, which takes the embedder's lock anew.
Embed(d) ==
  /\ thread[d] = "embed"
  /\ \/ /\ Answer(d, loaded[d])
        /\ UNCHANGED <<loaded, faults>>
     \/ /\ loaded[d]
        /\ Fault
        /\ loaded' = [loaded EXCEPT ![d] = FALSE]
        /\ Answer(d, FALSE)
  /\ UNCHANGED <<lockvars, dpc, idle, recent, work, netvars>>

\* The thread sees that it shall stop; or accept fails for good, and the
\* main thread does not learn of it.
ThreadEnds(d) ==
  /\ thread[d] = "accept"
  /\ \/ dpc[d] = "join" /\ UNCHANGED faults
     \/ Fault
  /\ thread' = [thread EXCEPT ![d] = "off"]
  /\ backlog' = [backlog EXCEPT ![d] = {}]
  /\ UNCHANGED <<lockvars, mainvars, endpoint, socket, request, accepting,
                 moved, clientvars>>

-----------------------------------------------------------------------------
(* A search. *)

\* maybe_autostart_daemon_inner found nobody; the child begins with acquire.
\* The processes that are off are all the same; with none left, none starts.
Start ==
  \/ /\ LET off == {d \in Daemons : dpc[d] = "off"}
            d == CHOOSE d \in off : TRUE
        IN IF off = {} THEN UNCHANGED <<dpc, lpc>> ELSE Goto(d, "lock") /\ Want(d)
     /\ UNCHANGED faults
  \/ Fault /\ UNCHANGED <<dpc, lpc>>

\* `ctx daemon run` from a terminal; counted with the faults.
RunByHand ==
  /\ \E d \in Daemons : dpc[d] = "off" /\ Goto(d, "lock") /\ Want(d)
  /\ Fault
  /\ UNCHANGED <<guard, probes, meta, linked, attempt, closing, legacy, idle,
                 recent, loaded, work, netvars, threadvars, clientvars>>

Await(c) ==
  /\ cpc' = [cpc EXCEPT ![c] = "read"]
  /\ op' = [op EXCEPT ![c] = "ping"]

Search(c) ==
  /\ cpc[c] = "idle"
  /\ outcome' = [outcome EXCEPT ![c] = "none"]
  /\ \/ /\ meta = "absent"
        /\ Start
        /\ Await(c)
        /\ UNCHANGED probes
     \/ /\ meta # "absent"
        /\ guard # NoOne
        /\ Await(c)
        /\ UNCHANGED <<dpc, lpc, probes, faults>>
     \/ /\ meta # "absent"
        /\ guard = NoOne
        /\ probes' = probes \cup {c}
        /\ cpc' = [cpc EXCEPT ![c] = "probing"]
        /\ UNCHANGED <<dpc, lpc, op, faults>>
  /\ UNCHANGED <<guard, meta, linked, attempt, closing, legacy, idle, recent,
                 loaded, work, netvars, threadvars, token>>

\* daemon_lock_is_stale, with the guard shared.
Probed(c) ==
  /\ cpc[c] = "probing"
  /\ probes' = probes \ {c}
  /\ IF Replaceable THEN Start ELSE UNCHANGED <<dpc, lpc, faults>>
  /\ Await(c)
  /\ UNCHANGED <<guard, meta, linked, attempt, closing, legacy, idle, recent,
                 loaded, work, netvars, threadvars, token, outcome>>

\* wait_for_daemon_query_service gives up.  It is a fault that it does so
\* when a service is there or under way.
WindowEnds(c) ==
  /\ cpc[c] = "read"
  /\ op[c] = "ping"
  /\ \/ ~(\E d \in Daemons : ComingUp(d)) /\ UNCHANGED faults
     \/ Fault
  /\ op' = [op EXCEPT ![c] = "embed"]
  /\ UNCHANGED <<lockvars, mainvars, netvars, threadvars, cpc, token, outcome>>

ReadEndpoint(c) ==
  /\ cpc[c] = "read"
  /\ IF endpoint = NoOne
     THEN Learn(c, FALSE)
     ELSE /\ token' = [token EXCEPT ![c] = endpoint]
          /\ cpc' = [cpc EXCEPT ![c] = "connect"]
          /\ UNCHANGED <<op, outcome>>
  /\ UNCHANGED <<lockvars, mainvars, netvars, threadvars, faults>>

Connect(c) ==
  /\ cpc[c] = "connect"
  /\ IF socket \in Daemons /\ Listening(socket)
     THEN /\ backlog' = [backlog EXCEPT ![socket] = @ \cup
                 {[from |-> c, op |-> op[c], token |-> token[c]]}]
          /\ cpc' = [cpc EXCEPT ![c] = "reply"]
          /\ UNCHANGED <<op, token, outcome>>
     ELSE Learn(c, FALSE) /\ UNCHANGED backlog
  /\ UNCHANGED <<lockvars, mainvars, endpoint, socket, threadvars, faults>>

\* The connection has been closed without an answer.
HangUp(c) ==
  /\ cpc[c] = "reply"
  /\ \A d \in Daemons : \A r \in backlog[d] \cup {request[d]} : r.from # c
  /\ Learn(c, FALSE)
  /\ UNCHANGED <<lockvars, mainvars, netvars, threadvars, faults>>

\* The client does not wait any longer; the daemon does not notice.
Timeout(c) ==
  /\ cpc[c] = "reply"
  /\ Fault
  /\ Learn(c, FALSE)
  /\ LET Leave(r) == IF r.from = c THEN [r EXCEPT !.from = "gone"] ELSE r
     IN /\ backlog' = [d \in Daemons |-> {Leave(r) : r \in backlog[d]}]
        /\ request' = [d \in Daemons |-> Leave(request[d])]
  /\ UNCHANGED <<lockvars, mainvars, endpoint, socket, thread, accepting, moved>>

-----------------------------------------------------------------------------
ServeStep(d) == Accept(d) \/ Handle(d) \/ Load(d) \/ Embed(d) \/ ThreadEnds(d)

MainStep(d) ==
  \/ NotMine(d) \/ Bind(d) \/ Publish(d) \/ SpawnThread(d) \/ StartFails(d)
  \/ Top(d) \/ Quit(d) \/ Iterate(d) \/ Batch(d) \/ After(d)
  \/ RemoveEndpoint(d) \/ Stop(d) \/ Join(d) \/ DropLock(d) \/ Exit(d)

SearchStep(c) ==
  Probed(c) \/ WindowEnds(c) \/ ReadEndpoint(c) \/ Connect(c) \/ HangUp(c)

NotService == <<mainvars, netvars, threadvars, clientvars>>

\* That only probes keep the guard busy for forty milliseconds is a fault.
LockingStep(d) ==
  /\ \/ LockStep(d) /\ UNCHANGED faults
     \/ GiveUp(d) /\ IF guard = NoOne THEN Fault ELSE UNCHANGED faults
  /\ UNCHANGED NotService

Next ==
  \/ \E d \in Daemons :
       \/ LockingStep(d) \/ MainStep(d) \/ ServeStep(d)
       \/ IdleElapses(d) \/ Crash(d)
  \/ \E c \in Clients : Search(c) \/ SearchStep(c) \/ Timeout(c)
  \/ RunByHand
  \/ (Expire \/ LegacyStep) /\ UNCHANGED <<NotService, faults>>

Spec == Init /\ [][Next]_vars

\* Processes run; half a minute passes, the three seconds of a search pass,
\* idle_exit passes between the searches, and an earlier version's daemon ends.
\* Searches need not happen; faults and work owe nothing.
Fairness ==
  /\ \A d \in Daemons :
       /\ WF_vars(LockingStep(d))
       /\ WF_vars(MainStep(d))
       /\ WF_vars(ServeStep(d))
       /\ SF_vars(IdleElapses(d))
  /\ \A c \in Clients :
       /\ WF_vars(SearchStep(c))
       /\ SF_vars(WindowEnds(c) /\ UNCHANGED faults)
  /\ WF_vars((Expire \/ LegacyStep)
               /\ UNCHANGED <<NotService, faults>>)

FairSpec == Spec /\ Fairness

-----------------------------------------------------------------------------
(* What must hold. *)

MainPoints == {"off", "lock", "publish", "spawn", "top", "quit", "iterate",
               "batch", "rested", "worked", "finish", "stop", "join",
               "release", "exit"}
ThreadPoints == {"off", "accept", "read", "load", "embed"}

Requests == [from : Clients \cup {"gone"}, op : {"ping", "embed"},
             token : Daemons \cup {NoOne, "stale"}]

\* Every variable has its type; a request is there while the thread is at it.
TypeOK ==
  /\ guard \in Daemons \cup {NoOne}
  /\ probes \subseteq Clients
  /\ meta \in Metadata
  /\ lpc \in [Daemons -> LockPoints]
  /\ linked \in [Daemons -> BOOLEAN]
  /\ attempt \in [Daemons -> 0 .. Attempts]
  /\ closing \in [Daemons -> BOOLEAN]
  /\ legacy \in {"unlinking", "creating", "writing", "running", "done"}
  /\ dpc \in [Daemons -> MainPoints]
  /\ idle \in [Daemons -> {"none", "since", "over"}]
  /\ recent \in [Daemons -> BOOLEAN]
  /\ loaded \in [Daemons -> BOOLEAN]
  /\ work \in 0 .. MaxWork
  /\ {endpoint, socket} \subseteq Daemons \cup {NoOne, "stale"}
  /\ backlog \in [Daemons -> SUBSET Requests]
  /\ thread \in [Daemons -> ThreadPoints]
  /\ request \in [Daemons -> Requests \cup {NoRequest}]
  /\ accepting \in [Daemons -> BOOLEAN]
  /\ moved \in [Daemons -> BOOLEAN]
  /\ cpc \in [Clients -> {"idle", "probing", "read", "connect", "reply"}]
  /\ op \in [Clients -> {"ping", "embed"}]
  /\ token \in [Clients -> Daemons \cup {NoOne, "stale"}]
  /\ outcome \in [Clients -> {"none", "semantic", "lexical"}]
  /\ faults \in Nat
  /\ \A d \in Daemons : Active(d) <=> request[d] # NoRequest

\* The process has the lock and everything that goes with it.
InCharge(d) == dpc[d] \notin {"off", "lock", "exit"}

\* Two daemons are never at work at a time, whatever a crash has left in the
\* metadata and whoever probes the lock (tests.rs:633).
OneDaemon ==
  \A d, e \in Daemons : InCharge(d) /\ InCharge(e) => d = e

\* The files by which searches find a service are its own while it runs: a
\* predecessor's destructor does not remove them (daemon.rs:1188-1190).
ServiceReachable ==
  \A d \in Daemons :
    dpc[d] \in {"top", "quit", "iterate", "batch", "rested", "worked"} =>
      endpoint = d /\ socket = d

\* A daemon whose thread is at a request has not given up the lock, so that
\* its successor does not load the model next to it.
AdmittedServed == \A d \in Daemons : Active(d) => guard = d

\* A daemon stops for idleness only when no request was admitted since its
\* idle clock was started (daemon.rs:208-215).
IdleExact ==
  [][\A d \in Daemons : dpc[d] = "quit" /\ dpc'[d] = "finish" => ~recent[d]]_vars

\* The metadata of a live daemon of an earlier version stays as it is until
\* that daemon ends, also when a newer one has opened the file it replaced.
LegacyKept ==
  [][legacy = "running" /\ legacy' = "running" /\ meta = "legacy"
       => meta' = "legacy"]_vars

\* Who keeps searching gets semantic results again and again: what is left
\* of crashed daemons is taken over, and a daemon that ends is replaced.
EventuallySemantic ==
  \A c \in Clients :
    []<>(cpc[c] # "idle") => []<>(outcome[c] = "semantic")

\* When the searches end and the work is done, the daemons end, too.
DaemonsEnd ==
  <>[](\A c \in Clients : cpc[c] = "idle") =>
    <>[](\A d \in Daemons : dpc[d] = "off")
=============================================================================
