------------------------------ MODULE HookSync ------------------------------
(***************************************************************************)
(* scripts/ctx-remote-hook-sync.py: the end of an agent session leaves a   *)
(* marker file for its source and starts a detached worker.  The worker    *)
(* waits for the import lock, and then moves the markers it finds out of   *)
(* the way one after the other and imports their sources, in at most two   *)
(* scans of the marker directory.  A failed import ends the worker; the    *)
(* markers it has not reached are left to the workers behind it.           *)
(*                                                                         *)
(* Events are not counted here: dirty[t] says that target t holds          *)
(* something no successful import has read.                                *)
(***************************************************************************)
EXTENDS Naturals, Sequences, FiniteSets

CONSTANTS
  NSources,     \* sources 1 .. NSources, in the order sorted() gives them
  TargetsOf,    \* TargetsOf[s]: the existing directories of source s
  OtherTargets, \* directories that only the sync service imports
  Workers,      \* hook requests; each one starts one worker
  NoOne,        \* the lock when it is free
  Service,      \* the sync service (AutoSync), the lock's other client
  MaxAttempts,  \* attempts per target
  MaxFailures,  \* bound on failing imports
  MaxCrashes    \* bound on processes that are killed

Sources == 1 .. NSources
Targets == UNION {{TargetsOf[s][i] : i \in DOMAIN TargetsOf[s]} : s \in Sources}
             \cup OtherTargets

ASSUME HookAssumption ==
  /\ NSources \in Nat
  /\ DOMAIN TargetsOf = Sources
  /\ \A s \in Sources : TargetsOf[s] \in Seq(Targets)
  /\ {NoOne, Service} \cap Workers = {} /\ NoOne # Service
  /\ MaxAttempts \in Nat \ {0}
  /\ {MaxFailures, MaxCrashes} \subseteq Nat

VARIABLES
  marker,    \* hook-sync.pending.d: the sources with a marker
  failed,    \* the sources with a hook-sync.<source>.failed file
  lock,      \* who holds import.lock
  pc,        \* pc[w]: where w's request or worker is
  cycle,     \* cycle[w]: scans of the marker directory so far
  todo,      \* todo[w]: markers of this scan that are not dealt with
  source,    \* source[w]: the source whose marker w has taken
  target,    \* target[w]: index into TargetsOf[source[w]]
  attempt,   \* attempt[w]: which attempt at that target
  imports,   \* running `ctx turso import` processes [owner, target, fresh]
  dirty,     \* dirty[t]: t holds events that no finished import has read
  failures,  \* number of failed imports
  crashes    \* number of crashes

progress == <<cycle, todo, source, target, attempt>>
hookvars == <<marker, failed, lock, pc, progress, imports, dirty, failures,
              crashes>>

Init ==
  /\ marker = {}
  /\ failed = {}
  /\ lock = NoOne
  /\ pc = [w \in Workers |-> "new"]
  /\ cycle = [w \in Workers |-> 0]
  /\ todo = [w \in Workers |-> {}]
  /\ source = [w \in Workers |-> 0]
  /\ target = [w \in Workers |-> 0]
  /\ attempt = [w \in Workers |-> 0]
  /\ imports = {}
  /\ dirty = [t \in Targets |-> FALSE]
  /\ failures = 0
  /\ crashes = 0

-----------------------------------------------------------------------------
(* Imports.  What is written while an import runs is not counted as read. *)

\* Agents have written to the targets of T.
Touch(T) ==
  /\ dirty' = [t \in Targets |-> dirty[t] \/ t \in T]
  /\ imports' = {[i EXCEPT !.fresh = @ /\ i.target \notin T] : i \in imports}

StartImport(o, t) ==
  imports' = imports \cup {[owner |-> o, target |-> t, fresh |-> TRUE]}

\* Import i ends; if it succeeds, what was there when it began is uploaded.
EndImport(i, succeeds) ==
  /\ imports' = imports \ {i}
  /\ dirty' = [dirty EXCEPT ![i.target] = @ /\ ~(succeeds /\ i.fresh)]

-----------------------------------------------------------------------------
(* The request process, run by the session-end hook. *)

Request(w) ==
  /\ pc[w] = "new"
  /\ \E s \in Sources :
       /\ marker' = marker \cup {s}
       /\ Touch({TargetsOf[s][i] : i \in DOMAIN TargetsOf[s]})
  /\ pc' = [pc EXCEPT ![w] = "placed"]
  /\ UNCHANGED <<failed, lock, progress, failures, crashes>>

Spawn(w) ==
  /\ pc[w] = "placed"
  /\ pc' = [pc EXCEPT ![w] = "waiting"]
  /\ UNCHANGED <<marker, failed, lock, progress, imports, dirty, failures,
                 crashes>>

-----------------------------------------------------------------------------
(* The worker. *)

\* Faulty: the worker gives up when the lock is busy.
AcquireOrLeave(w) ==
  /\ pc[w] = "waiting"
  /\ IF lock = NoOne
     THEN /\ lock' = w
          /\ pc' = [pc EXCEPT ![w] = "scan"]
     ELSE /\ pc' = [pc EXCEPT ![w] = "done"]
          /\ UNCHANGED lock
  /\ UNCHANGED <<marker, failed, progress, imports, dirty, failures, crashes>>

\* Faulty: the worker does not take the lock.
AcquireNothing(w) ==
  /\ pc[w] = "waiting"
  /\ pc' = [pc EXCEPT ![w] = "scan"]
  /\ UNCHANGED <<marker, failed, lock, progress, imports, dirty, failures,
                 crashes>>

Acquire(w) ==
  /\ pc[w] = "waiting"
  /\ lock = NoOne
  /\ lock' = w
  /\ pc' = [pc EXCEPT ![w] = "scan"]
  /\ UNCHANGED <<marker, failed, progress, imports, dirty, failures, crashes>>

\* After the debounce, and once more after the first round of markers.
Scan(w) ==
  /\ pc[w] = "scan"
  /\ IF cycle[w] = 2 \/ marker = {}
     THEN /\ lock' = NoOne
          /\ pc' = [pc EXCEPT ![w] = "done"]
          /\ UNCHANGED progress
     ELSE /\ todo' = [todo EXCEPT ![w] = marker]
          /\ cycle' = [cycle EXCEPT ![w] = @ + 1]
          /\ pc' = [pc EXCEPT ![w] = "take"]
          /\ UNCHANGED <<lock, source, target, attempt>>
  /\ UNCHANGED <<marker, failed, imports, dirty, failures, crashes>>

Rescan(w) ==
  /\ pc[w] = "take"
  /\ todo[w] = {}
  /\ pc' = [pc EXCEPT ![w] = "scan"]
  /\ UNCHANGED <<marker, failed, lock, progress, imports, dirty, failures,
                 crashes>>

\* The next marker becomes a .working file before its source is imported.  A
\* marker that is gone would be skipped.
Take(w) ==
  /\ pc[w] = "take"
  /\ \E s \in todo[w] :
       /\ \A r \in todo[w] : s <= r
       /\ marker' = marker \ {s}
       /\ todo' = [todo EXCEPT ![w] = @ \ {s}]
       /\ IF s \in marker
          THEN /\ source' = [source EXCEPT ![w] = s]
               /\ target' = [target EXCEPT ![w] = 1]
               /\ attempt' = [attempt EXCEPT ![w] = 1]
               /\ pc' = [pc EXCEPT ![w] = "import"]
          ELSE UNCHANGED <<source, target, attempt, pc>>
  /\ UNCHANGED <<failed, lock, cycle, imports, dirty, failures, crashes>>

HasTarget(w) == target[w] <= Len(TargetsOf[source[w]])
Target(w) == TargetsOf[source[w]][target[w]]

\* run_target: one attempt is one child process.
Attempt(w) ==
  /\ pc[w] = "import"
  /\ HasTarget(w)
  /\ StartImport(w, Target(w))
  /\ pc' = [pc EXCEPT ![w] = "running"]
  /\ UNCHANGED <<marker, failed, lock, progress, dirty, failures, crashes>>

AttemptOk(w) ==
  /\ pc[w] = "running"
  /\ \E i \in imports : i.owner = w /\ EndImport(i, TRUE)
  /\ target' = [target EXCEPT ![w] = @ + 1]
  /\ attempt' = [attempt EXCEPT ![w] = 1]
  /\ pc' = [pc EXCEPT ![w] = "import"]
  /\ UNCHANGED <<marker, failed, lock, cycle, todo, source, failures, crashes>>

\* Faulty: the worker whose import failed leaves no trace of the request.
AttemptFailsSilently(w) ==
  /\ pc[w] = "running"
  /\ failures < MaxFailures
  /\ failures' = failures + 1
  /\ \E i \in imports : i.owner = w /\ EndImport(i, FALSE)
  /\ IF attempt[w] < MaxAttempts
     THEN /\ attempt' = [attempt EXCEPT ![w] = @ + 1]
          /\ pc' = [pc EXCEPT ![w] = "import"]
          /\ UNCHANGED lock
     ELSE /\ lock' = NoOne
          /\ pc' = [pc EXCEPT ![w] = "done"]
          /\ UNCHANGED attempt
  /\ UNCHANGED <<marker, failed, cycle, todo, source, target, crashes>>

\* The child fails or exceeds its timeout.  The third failure ends the whole
\* worker: the source gets a .failed file, its other targets are not tried.
AttemptFails(w) ==
  /\ pc[w] = "running"
  /\ failures < MaxFailures
  /\ failures' = failures + 1
  /\ \E i \in imports : i.owner = w /\ EndImport(i, FALSE)
  /\ IF attempt[w] < MaxAttempts
     THEN /\ attempt' = [attempt EXCEPT ![w] = @ + 1]
          /\ pc' = [pc EXCEPT ![w] = "import"]
          /\ UNCHANGED <<failed, lock>>
     ELSE /\ failed' = failed \cup {source[w]}
          /\ lock' = NoOne
          /\ pc' = [pc EXCEPT ![w] = "done"]
          /\ UNCHANGED attempt
  /\ UNCHANGED <<marker, cycle, todo, source, target, crashes>>

\* Faulty: requests that came during the import are taken as served.
SourceDoneDroppingMarker(w) ==
  /\ pc[w] = "import"
  /\ ~HasTarget(w)
  /\ failed' = failed \ {source[w]}
  /\ marker' = marker \ {source[w]}
  /\ todo' = [todo EXCEPT ![w] = @ \ {source[w]}]
  /\ pc' = [pc EXCEPT ![w] = "take"]
  /\ UNCHANGED <<lock, cycle, source, target, attempt, imports, dirty, failures,
                 crashes>>

\* All targets imported, or none exists.
SourceDone(w) ==
  /\ pc[w] = "import"
  /\ ~HasTarget(w)
  /\ failed' = failed \ {source[w]}
  /\ pc' = [pc EXCEPT ![w] = "take"]
  /\ UNCHANGED <<marker, lock, progress, imports, dirty, failures, crashes>>

-----------------------------------------------------------------------------
(* Killed processes. *)

\* The lock goes with its holder, the child of a worker runs on.
Crash(w) ==
  /\ pc[w] \notin {"new", "done"}
  /\ crashes < MaxCrashes
  /\ crashes' = crashes + 1
  /\ pc' = [pc EXCEPT ![w] = "done"]
  /\ lock' = IF lock = w THEN NoOne ELSE lock
  /\ UNCHANGED <<marker, failed, progress, imports, dirty, failures>>

\* The orphan of a killed worker ends.
OrphanEnds ==
  /\ \E i \in imports : /\ i.owner \in Workers
                        /\ pc[i.owner] = "done"
                        /\ \E succeeds \in BOOLEAN : EndImport(i, succeeds)
  /\ UNCHANGED <<marker, failed, lock, pc, progress, failures, crashes>>

-----------------------------------------------------------------------------
Work(w) ==
  \/ Spawn(w) \/ Acquire(w) \/ Scan(w) \/ Rescan(w) \/ Take(w)
  \/ Attempt(w) \/ AttemptOk(w) \/ AttemptFails(w) \/ SourceDone(w)

HookNext ==
  \/ \E w \in Workers : Request(w) \/ Work(w) \/ Crash(w)
  \/ OrphanEnds

Spec == Init /\ [][HookNext]_hookvars

\* A process that can run does; agents owe no requests, nobody owes crashes.
HookFairness ==
  /\ \A w \in Workers : WF_hookvars(Work(w))
  /\ WF_hookvars(OrphanEnds)

FairSpec == Spec /\ HookFairness

-----------------------------------------------------------------------------
(* What must hold. *)

Holding == {"scan", "take", "import", "running"}

\* Every variable has its type; the markers a worker has yet to take are
\* still there, so that the FileNotFoundError branch is never needed.
TypeOK ==
  /\ marker \subseteq Sources
  /\ failed \subseteq Sources
  /\ lock \in Workers \cup {NoOne, Service}
  /\ pc \in [Workers -> {"new", "placed", "waiting", "done"} \cup Holding]
  /\ cycle \in [Workers -> 0 .. 2]
  /\ todo \in [Workers -> SUBSET Sources]
  /\ imports \subseteq [owner : Workers \cup {Service}, target : Targets,
                        fresh : BOOLEAN]
  /\ dirty \in [Targets -> BOOLEAN]
  /\ failures \in 0 .. MaxFailures
  /\ crashes \in 0 .. MaxCrashes
  /\ \A w \in Workers :
       /\ pc[w] \in Holding <=> lock = w
       /\ pc[w] = "take" => todo[w] \subseteq marker
       /\ pc[w] \in {"import", "running"} =>
            /\ source[w] \in Sources
            /\ target[w] \in 1 .. Len(TargetsOf[source[w]]) + 1
            /\ attempt[w] \in 1 .. MaxAttempts
       /\ pc[w] = "running" => \E i \in imports : i.owner = w

\* Imports do not overlap, neither those of workers nor the service's, but
\* for the orphans of killed workers (README.md:114-117, "one sequential
\* worker").
ImportsExclusive == Cardinality(imports) <= 1 + crashes

\* A marker is not left without a process that will look for it, although a
\* worker stops at its first failure and after two scans: there are always
\* as many live workers as markers, except for those that were killed.
NoStrandedRequest ==
  Cardinality(marker) <=
    Cardinality({w \in Workers : pc[w] \notin {"new", "done"}}) + crashes

\* w is importing s and has yet to read all that target t of it holds.
WillRead(w, s, t) ==
  /\ pc[w] \in {"import", "running"}
  /\ source[w] = s
  /\ \E i \in target[w] .. Len(TargetsOf[s]) : TargetsOf[s][i] = t
  /\ pc[w] = "running" /\ Target(w) = t =>
       \E i \in imports : i.owner = w /\ i.target = t /\ i.fresh

\* The sources whose request nobody remembers: one of their targets is to be
\* imported, but there is no marker, no .failed file and no worker that has
\* yet to read the target.
Forgotten ==
  {s \in Sources : \E n \in DOMAIN TargetsOf[s] :
     LET t == TargetsOf[s][n]
     IN /\ dirty[t]
        /\ s \notin marker \cup failed
        /\ \A w \in Workers : ~WillRead(w, s, t)}

\* No request is forgotten, not even one that comes in the middle of an
\* import of its source; a killed worker loses the request it was serving.
RequestsAccounted == Cardinality(Forgotten) <= crashes

\* Every request is served, or its source is reported as failed, unless a
\* process is killed.
RequestServed ==
  \A s \in Sources : \A n \in DOMAIN TargetsOf[s] :
    dirty[TargetsOf[s][n]] ~>
      (~dirty[TargetsOf[s][n]] \/ s \in failed \/ crashes > 0)
=============================================================================
