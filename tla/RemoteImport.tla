---------------------------- MODULE RemoteImport ----------------------------
(***************************************************************************)
(* `ctx turso import [--watch]`: run_turso_import_once of                  *)
(* crates/ctx-cli/src/commands/turso.rs over the loop                      *)
(* import_all_providers_in_memory_by_source of commands/import.rs.         *)
(*                                                                         *)
(* A run fingerprints every provider source, skips those whose fingerprint *)
(* equals the remote checkpoint, imports the others (Codex and Claude      *)
(* trees only the files modified after the checkpoint was stored), and     *)
(* stores a new checkpoint when the fingerprint is still the one it began  *)
(* with.  Agents append to their files at any moment in between.           *)
(*                                                                         *)
(* A file is its number of events and its modification time; `uploaded`    *)
(* says how many of them the shared database holds (TursoPush refines one  *)
(* Persist step into pages and transactions).                              *)
(***************************************************************************)
EXTENDS Naturals, FiniteSets

CONSTANTS
  Hosts,         \* Macs that import into the same database
  NSources,      \* sources 1 .. NSources, in the order of import_requests
  Format,        \* Format[s]: "codex_tree", "claude_tree" or "whole"
  FilesOf,       \* FilesOf[s]: the files (numbers, in path order) under s
  CheckpointKey, \* CheckpointKey[h][s]: source_checkpoint_key on host h
  NoCheckpoint,  \* the absent row
  ChunkSize,     \* REMOTE_IN_MEMORY_CODEX_SESSION_BATCH_SIZE
  MaxFailures,   \* REMOTE_SYNC_MAX_CONSECUTIVE_FAILURES
  Broken,        \* files whose import fails every time
  QuietWriters,  \* TRUE: agents do not write while a checkpoint is stored
  MovesFiles,    \* sources files may be moved into, with an old mtime
  Present,       \* files that are there, as long as they get, at the start
  Snapshots,     \* sets of them that an imported ctx snapshot may hold
  AdoptsWhole,   \* TRUE: whoever adopts a snapshot has everything in it
  MaxTime, MaxErrors,  \* bounds: clock, errors
  MaxLen         \* bound: MaxLen[f], the length of file f

Sources == 1 .. NSources
Files == UNION {FilesOf[s] : s \in Sources}
CheckpointKeys == {CheckpointKey[h][s] : h \in Hosts, s \in Sources}

ASSUME ImportAssumption ==
  /\ NSources \in Nat
  /\ Format \in [Sources -> {"codex_tree", "claude_tree", "whole"}]
  /\ FilesOf \in [Sources -> SUBSET Nat]
  /\ \A s, t \in Sources : s # t => FilesOf[s] \cap FilesOf[t] = {}
  /\ ChunkSize \in Nat \ {0}
  /\ MaxFailures \in Nat \ {0}
  /\ Broken \subseteq Files
  /\ MovesFiles \subseteq Sources
  /\ Present \subseteq Files
  /\ Snapshots \subseteq SUBSET Present
  /\ AdoptsWhole \in BOOLEAN
  /\ QuietWriters \in BOOLEAN
  /\ MaxLen \in [Files -> Nat \ {0}]
  /\ MaxTime \in Nat \ {0}
  /\ MaxErrors \in Nat

VARIABLES
  clock,       \* wall-clock milliseconds
  file,        \* file[h][f]: [len, mtime]; length 0 is an absent file
  uploaded,    \* uploaded[h][f]: events of f that are in the database
  checkpoint,  \* ctx_turso_source_checkpoints: [fingerprint, updated]
  pc,          \* pc[h]: where h's import run is
  source,      \* source[h]: the source it is at
  pending,     \* pending[h][s]: the checkpoints map: [fingerprint, previous]
  queue,       \* queue[h]: files of the source still to be looked at
  stored,      \* stored[h]: the in-memory Store: file -> events read
  failures,    \* failures[h]: consecutive failed runs
  late,        \* late[h]: checkpoint writes whose client gave up
  errors       \* number of errors so far

env == <<clock, file>>
runvars == <<pc, source, pending, queue, stored, failures>>
vars == <<env, uploaded, checkpoint, runvars, late, errors>>

\* What the imported snapshot holds; nothing if there is none.
Imported == IF Snapshots = {} THEN {{}} ELSE Snapshots

NotPending == [fingerprint |-> {}, previous |-> MaxTime + 1]
NonePending == [s \in Sources |-> NotPending]
Nothing == [f \in {} |-> 0]

Init ==
  /\ clock = 1
  /\ file = [h \in Hosts |-> [f \in Files |->
               [len |-> IF f \in Present THEN MaxLen[f] ELSE 0, mtime |-> 0]]]
  /\ \E owner \in Hosts : \E snapshot \in Imported :
       uploaded = [h \in Hosts |-> [f \in Files |->
                     IF h = owner /\ f \in snapshot THEN MaxLen[f] ELSE 0]]
  /\ checkpoint = [k \in CheckpointKeys |-> NoCheckpoint]
  /\ pc = [h \in Hosts |-> "idle"]
  /\ source = [h \in Hosts |-> 1]
  /\ pending = [h \in Hosts |-> NonePending]
  /\ queue = [h \in Hosts |-> {}]
  /\ stored = [h \in Hosts |-> Nothing]
  /\ failures = [h \in Hosts |-> 0]
  /\ late = [h \in Hosts |-> {}]
  /\ errors = 0

-----------------------------------------------------------------------------
(* The provider's side: time passes and agents write. *)

Tick ==
  /\ clock < MaxTime
  /\ clock' = clock + 1
  /\ UNCHANGED <<file, uploaded, checkpoint, runvars, late, errors>>

\* The times at which checkpoints of source s of host h were or will be stored.
StampsOf(h, s) ==
  {c.updated : c \in {checkpoint[CheckpointKey[h][s]]} \ {NoCheckpoint}}
    \cup {w.updated : w \in {v \in late[h] : v.key = CheckpointKey[h][s]}}

MayWrite(h, s) ==
  QuietWriters => /\ ~(pc[h] = "store" /\ source[h] = s)
                  /\ pc[h] \notin {"adopt", "baseline"}
                  /\ \A t \in StampsOf(h, s) : t < clock

Write(h) ==
  /\ \E s \in Sources : \E f \in FilesOf[s] :
       /\ MayWrite(h, s)
       /\ file[h][f].len < MaxLen[f]
       /\ file' = [file EXCEPT ![h][f] =
                     [len |-> @.len + 1, mtime |-> clock]]
  /\ UNCHANGED <<clock, uploaded, checkpoint, runvars, late, errors>>

\* A session file is moved or restored into the tree: rename keeps its mtime.
MoveIn(h) ==
  /\ \E s \in MovesFiles : \E f \in FilesOf[s] : \E t \in 0 .. clock :
       /\ MayWrite(h, s)
       /\ file[h][f].len = 0
       /\ file' = [file EXCEPT ![h][f] = [len |-> 1, mtime |-> t]]
  /\ UNCHANGED <<clock, uploaded, checkpoint, runvars, late, errors>>

-----------------------------------------------------------------------------
(* One run: first every source is compared with its checkpoint. *)

\* The change token: relative path, length and mtime of every file.
Fingerprint(h, s) ==
  {[path |-> f, len |-> file[h][f].len, mtime |-> file[h][f].mtime] :
     f \in {g \in FilesOf[s] : file[h][g].len > 0}}

Start(h) ==
  /\ pc[h] = "idle"
  /\ pc' = [pc EXCEPT ![h] = "fingerprint"]
  /\ UNCHANGED <<env, uploaded, checkpoint, source, pending, queue, stored,
                 failures, late, errors>>

\* should_import, first half: fingerprint the source.
TakeFingerprint(h) ==
  /\ pc[h] = "fingerprint"
  /\ source[h] \in Sources
  /\ pending' = [pending EXCEPT ![h][source[h]] =
                   [fingerprint |-> Fingerprint(h, source[h]),
                    previous |-> MaxTime + 1]]
  /\ pc' = [pc EXCEPT ![h] = "compare"]
  /\ UNCHANGED <<env, uploaded, checkpoint, source, queue, stored, failures, late, errors>>

\* should_import, second half: read the checkpoint; 0 stands for no previous
\* checkpoint, when every file is imported.
Compare(h) ==
  /\ pc[h] = "compare"
  /\ LET s == source[h]
         before == checkpoint[CheckpointKey[h][s]]
     IN pending' = [pending EXCEPT ![h][s] =
          IF before = NoCheckpoint THEN [@ EXCEPT !.previous = 0]
          ELSE IF before.fingerprint = @.fingerprint THEN NotPending
          ELSE [@ EXCEPT !.previous = before.updated]]
  /\ source' = [source EXCEPT ![h] = @ + 1]
  /\ pc' = [pc EXCEPT ![h] = "fingerprint"]
  /\ UNCHANGED <<env, uploaded, checkpoint, queue, stored, failures,
                 late, errors>>

\* All sources compared: the changed ones are inventoried and imported.
Inventory(h) ==
  /\ pc[h] = "fingerprint"
  /\ source[h] \notin Sources
  /\ source' = [source EXCEPT ![h] = 1]
  /\ pc' = [pc EXCEPT ![h] = "next"]
  /\ UNCHANGED <<env, uploaded, checkpoint, pending, queue, stored, failures, late, errors>>

-----------------------------------------------------------------------------
(* Then the changed sources are imported one after the other. *)

IsPending(h, s) == pending[h][s].previous <= MaxTime

\* should_import_file.
ShouldImportFile(h, s, f) ==
  \/ pending[h][s].previous = 0
  \/ file[h][f].mtime > pending[h][s].previous

Skip(h) ==
  /\ pc[h] = "next"
  /\ source[h] \in Sources
  /\ ~IsPending(h, source[h])
  /\ source' = [source EXCEPT ![h] = @ + 1]
  /\ UNCHANGED <<env, uploaded, checkpoint, pc, pending, queue, stored,
                 failures, late, errors>>

\* The files of a Codex tree are filtered before the first one is read.
Open(h) ==
  /\ pc[h] = "next"
  /\ source[h] \in Sources
  /\ IsPending(h, source[h])
  /\ LET s == source[h]
         present == {f \in FilesOf[s] : file[h][f].len > 0}
     IN queue' = [queue EXCEPT ![h] =
          IF Format[s] = "codex_tree"
          THEN {f \in present : ShouldImportFile(h, s, f)} ELSE present]
  /\ pc' = [pc EXCEPT ![h] = "files"]
  /\ UNCHANGED <<env, uploaded, checkpoint, source, pending, stored, failures,
                 late, errors>>

FirstFiles(S, n) == {f \in S : Cardinality({g \in S : g < f}) < n}

\* One in-memory Store: up to eight Codex sessions, one Claude file, or the
\* whole source.
NextFiles(h) ==
  CASE Format[source[h]] = "codex_tree" -> FirstFiles(queue[h], ChunkSize)
    [] Format[source[h]] = "claude_tree" -> FirstFiles(queue[h], 1)
    [] OTHER -> queue[h]

\* The files of a Claude tree are filtered one by one, each before it is read.
Wanted(h) ==
  {f \in NextFiles(h) : Format[source[h]] = "claude_tree"
                          => ShouldImportFile(h, source[h], f)}

Read(h) ==
  /\ pc[h] = "files"
  /\ queue[h] # {}
  /\ Wanted(h) \cap Broken = {}
  /\ stored' = [stored EXCEPT ![h] = [f \in Wanted(h) |-> file[h][f].len]]
  /\ pc' = [pc EXCEPT ![h] = IF Wanted(h) = {} THEN "files" ELSE "persist"]
  /\ queue' = [queue EXCEPT ![h] = @ \ NextFiles(h)]
  /\ UNCHANGED <<env, uploaded, checkpoint, source, pending, failures, late,
                 errors>>

\* The files of S among those of the Store are in the database.
Upload(h, S) ==
  uploaded' = [uploaded EXCEPT ![h] = [f \in Files |->
                 IF f \in S /\ stored[h][f] > @[f] THEN stored[h][f]
                 ELSE @[f]]]

Persist(h) ==
  /\ pc[h] = "persist"
  /\ Upload(h, DOMAIN stored[h])
  /\ stored' = [stored EXCEPT ![h] = Nothing]
  /\ pc' = [pc EXCEPT ![h] = "files"]
  /\ UNCHANGED <<env, checkpoint, source, pending, queue, failures,
                 late, errors>>

\* Faulty: the fingerprint is not taken again after the import.
CompleteUnchecked(h) ==
  /\ pc[h] = "files"
  /\ queue[h] = {}
  /\ pc' = [pc EXCEPT ![h] = "store"]
  /\ UNCHANGED <<env, uploaded, checkpoint, source, pending, queue, stored,
                 failures, late, errors>>

\* complete: a source that changed during its import keeps its checkpoint.
Complete(h) ==
  /\ pc[h] = "files"
  /\ queue[h] = {}
  /\ LET s == source[h]
     IN IF Fingerprint(h, s) = pending[h][s].fingerprint
        THEN /\ pc' = [pc EXCEPT ![h] = "store"]
             /\ UNCHANGED <<source, pending>>
        ELSE /\ pc' = [pc EXCEPT ![h] = "next"]
             /\ source' = [source EXCEPT ![h] = @ + 1]
             /\ pending' = [pending EXCEPT ![h][s] = NotPending]
  /\ UNCHANGED <<env, uploaded, checkpoint, queue, stored, failures,
                 late, errors>>

\* remote_store_checkpoint: the row says when it was written, not when the
\* fingerprint in it was taken.
Store(h) ==
  /\ pc[h] \in {"store", "baseline"}
  /\ checkpoint' = [checkpoint EXCEPT ![CheckpointKey[h][source[h]]] =
       [fingerprint |-> pending[h][source[h]].fingerprint, updated |-> clock]]
  /\ pending' = [pending EXCEPT ![h][source[h]] = NotPending]
  /\ source' = [source EXCEPT ![h] = @ + 1]
  /\ pc' = [pc EXCEPT ![h] = IF @ = "store" THEN "next" ELSE "adopt"]
  /\ UNCHANGED <<env, uploaded, queue, stored, failures, late,
                 errors>>

\* The client gives up; a checkpoint that was being stored may still be.
MayArriveLate(h) ==
  \/ UNCHANGED late
  \/ /\ pc[h] \in {"store", "baseline"}
     /\ late' = [late EXCEPT ![h] = @ \cup
          {[key |-> CheckpointKey[h][source[h]],
            fingerprint |-> pending[h][source[h]].fingerprint,
            updated |-> clock]}]

\* The locals of run_turso_import_once are gone when it returns.
DropRun(h) ==
  /\ source' = [source EXCEPT ![h] = 1]
  /\ pending' = [pending EXCEPT ![h] = NonePending]
  /\ queue' = [queue EXCEPT ![h] = {}]
  /\ stored' = [stored EXCEPT ![h] = Nothing]

Succeed(h) ==
  /\ pc[h] = "next"
  /\ source[h] \notin Sources
  /\ pc' = [pc EXCEPT ![h] = "idle"]
  /\ failures' = [failures EXCEPT ![h] = 0]
  /\ DropRun(h)
  /\ UNCHANGED <<env, uploaded, checkpoint, late, errors>>

-----------------------------------------------------------------------------
(* `ctx turso import --adopt-snapshot`, between two runs of a watch: every *)
(* source gets a checkpoint as it is now, and nothing is imported.         *)

Adopt(h) ==
  /\ pc[h] = "idle"
  /\ Snapshots # {}
  /\ AdoptsWhole => \A f \in Files : uploaded[h][f] = file[h][f].len
  /\ pc' = [pc EXCEPT ![h] = "adopt"]
  /\ UNCHANGED <<env, uploaded, checkpoint, source, pending, queue, stored,
                 failures, late, errors>>

AdoptSource(h) ==
  /\ pc[h] = "adopt"
  /\ source[h] \in Sources
  /\ pending' = [pending EXCEPT ![h][source[h]] =
                   [fingerprint |-> Fingerprint(h, source[h]), previous |-> 0]]
  /\ pc' = [pc EXCEPT ![h] = "baseline"]
  /\ UNCHANGED <<env, uploaded, checkpoint, source, queue, stored, failures,
                 late, errors>>

Adopted(h) ==
  /\ pc[h] = "adopt"
  /\ source[h] \notin Sources
  /\ pc' = [pc EXCEPT ![h] = "idle"]
  /\ DropRun(h)
  /\ UNCHANGED <<env, uploaded, checkpoint, failures, late, errors>>

\* An error or a kill ends the command; some sources have their checkpoint.
AdoptFails(h) ==
  /\ pc[h] \in {"adopt", "baseline"}
  /\ errors < MaxErrors
  /\ errors' = errors + 1
  /\ MayArriveLate(h)
  /\ pc' = [pc EXCEPT ![h] = "idle"]
  /\ DropRun(h)
  /\ UNCHANGED <<env, uploaded, checkpoint, failures>>

-----------------------------------------------------------------------------
(* Errors. *)

\* Faulty: the failure of a source ends the run, and the watch goes on.
SourceFailureEndsRun(h) ==
  /\ pc[h] = "files"
  /\ Wanted(h) \cap Broken # {}
  /\ Format[source[h]] = "whole"
  /\ pc' = [pc EXCEPT ![h] = "idle"]
  /\ DropRun(h)
  /\ UNCHANGED <<env, uploaded, checkpoint, failures, late, errors>>

\* The failure of a source that is no tree is counted and the run continues.
SourceFailure(h) ==
  /\ pc[h] = "files"
  /\ Wanted(h) \cap Broken # {}
  /\ Format[source[h]] = "whole"
  /\ queue' = [queue EXCEPT ![h] = {}]
  /\ source' = [source EXCEPT ![h] = @ + 1]
  /\ pc' = [pc EXCEPT ![h] = "next"]
  /\ UNCHANGED <<env, uploaded, checkpoint, pending, stored, failures, late, errors>>

\* The run ends with an error; --watch stops after MaxFailures in a row.
EndRun(h) ==
  /\ failures' = [failures EXCEPT ![h] = @ + 1]
  /\ pc' = [pc EXCEPT ![h] = IF failures'[h] >= MaxFailures THEN "stopped"
                             ELSE "idle"]
  /\ DropRun(h)
  /\ UNCHANGED <<env, checkpoint>>

\* An error in a tree source is returned by import_all_..._by_source itself.
TreeFailure(h) ==
  /\ pc[h] = "files"
  /\ Wanted(h) \cap Broken # {}
  /\ Format[source[h]] # "whole"
  /\ EndRun(h)
  /\ UNCHANGED <<uploaded, late, errors>>

\* Any remote call may fail or time out.  The files of a failed upload may
\* be in the database already, and a checkpoint may still be written.
RemoteFailure(h) ==
  /\ pc[h] \in {"compare", "persist", "store"}
  /\ errors < MaxErrors
  /\ errors' = errors + 1
  /\ EndRun(h)
  /\ IF pc[h] = "persist"
     THEN \E S \in SUBSET (DOMAIN stored[h]) : Upload(h, S)
     ELSE UNCHANGED uploaded
  /\ MayArriveLate(h)

DeliverLate(h) ==
  /\ \E w \in late[h] :
       /\ checkpoint' = [checkpoint EXCEPT ![w.key] =
            [fingerprint |-> w.fingerprint, updated |-> w.updated]]
       /\ late' = [late EXCEPT ![h] = @ \ {w}]
  /\ UNCHANGED <<env, uploaded, runvars, errors>>

\* The process dies, or a stopped watch is started again.
Restart(h) ==
  /\ \/ pc[h] = "stopped" /\ UNCHANGED errors
     \/ /\ pc[h] \notin {"idle", "stopped", "adopt", "baseline"}
        /\ errors < MaxErrors
        /\ errors' = errors + 1
  /\ pc' = [pc EXCEPT ![h] = "idle"]
  /\ failures' = [failures EXCEPT ![h] = 0]
  /\ DropRun(h)
  /\ UNCHANGED <<env, uploaded, checkpoint, late>>

-----------------------------------------------------------------------------
Run(h) ==
  \/ Start(h) \/ TakeFingerprint(h) \/ Compare(h) \/ Inventory(h)
  \/ Skip(h) \/ Open(h) \/ Read(h) \/ Persist(h) \/ Complete(h) \/ Store(h)
  \/ Succeed(h) \/ SourceFailure(h) \/ TreeFailure(h)
  \/ AdoptSource(h) \/ Adopted(h)

Next ==
  \/ Tick
  \/ \E h \in Hosts : \/ Write(h) \/ MoveIn(h) \/ Adopt(h) \/ Run(h)
                      \/ RemoteFailure(h) \/ AdoptFails(h) \/ DeliverLate(h)
                      \/ Restart(h)

Spec == Init /\ [][Next]_vars

\* The watch loop keeps running and time passes; whoever started the command
\* starts it again when it has stopped.  Writes, moves and errors owe nothing.
Fairness ==
  /\ WF_vars(Tick)
  /\ \A h \in Hosts : /\ WF_vars(Run(h))
                      /\ WF_vars(pc[h] = "stopped" /\ Restart(h))

FairSpec == Spec /\ Fairness

-----------------------------------------------------------------------------
(* What must hold. *)

Fingerprints == SUBSET [path : Files, len : Nat, mtime : 0 .. MaxTime]

\* Types of all variables; a stopped watch is one that failed too often.
TypeOK ==
  /\ clock \in 1 .. MaxTime
  /\ file \in [Hosts -> [Files -> [len : Nat, mtime : 0 .. MaxTime]]]
  /\ uploaded \in [Hosts -> [Files -> Nat]]
  /\ checkpoint \in [CheckpointKeys ->
       {NoCheckpoint} \cup [fingerprint : Fingerprints, updated : 1 .. MaxTime]]
  /\ late \in [Hosts -> SUBSET [key : CheckpointKeys, fingerprint : Fingerprints,
                                updated : 1 .. MaxTime]]
  /\ errors \in 0 .. MaxErrors
  /\ pc \in [Hosts -> {"idle", "stopped", "fingerprint", "compare", "next",
                       "files", "persist", "store", "adopt", "baseline"}]
  /\ source \in [Hosts -> 1 .. NSources + 1]
  /\ pending \in [Hosts -> [Sources -> [fingerprint : Fingerprints,
                                       previous : 0 .. MaxTime + 1]]]
  /\ queue \in [Hosts -> SUBSET Files]
  /\ DOMAIN stored = Hosts
  /\ failures \in [Hosts -> 0 .. MaxFailures]
  /\ \A h \in Hosts :
       /\ pc[h] # "stopped" => failures[h] < MaxFailures
       /\ pc[h] \in {"compare", "files", "persist", "store", "baseline"} =>
            source[h] \in Sources
       /\ DOMAIN stored[h] \subseteq Files
       /\ stored[h] \in [DOMAIN stored[h] -> Nat]

\* What is not yet in the database will be imported by the next run: its
\* source's fingerprint differs from the checkpoint and, in a tree, the file
\* is newer than the checkpoint.  Otherwise the events would stay on their
\* host for as long as nobody touches that file again (turso.rs:437-523).
NothingLeftBehind ==
  \A h \in Hosts : \A s \in Sources : \A f \in FilesOf[s] :
    uploaded[h][f] < file[h][f].len =>
      LET before == checkpoint[CheckpointKey[h][s]]
      IN before # NoCheckpoint =>
           /\ before.fingerprint # Fingerprint(h, s)
           /\ Format[s] = "whole" \/ file[h][f].mtime > before.updated

\* Whatever an agent wrote under a source that can be imported gets uploaded,
\* also when another source fails every time.
EventuallyUploaded ==
  \A h \in Hosts : \A s \in {t \in Sources : FilesOf[t] \cap Broken = {}} :
    \A f \in FilesOf[s] : <>[](uploaded[h][f] = file[h][f].len)
=============================================================================
