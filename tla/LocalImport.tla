----------------------------- MODULE LocalImport -----------------------------
(***************************************************************************)
(* The import of a Codex session tree into the local store: `ctx import`,  *)
(* `ctx search --refresh` and the daemon (ctx-cli/src/commands/import,     *)
(* ctx-history-capture/src/provider/codex, ctx-history-store/src/          *)
(* catalog.rs).                                                            *)
(*                                                                         *)
(* The table catalog_sessions has a row for every session file.  A run     *)
(* brings the rows up to date with the tree, lists those that are pending, *)
(* imports each of these files, whole or from the checkpoint of the last   *)
(* import on, and marks its row.  Agents write to the files, and other     *)
(* processes do the same, at any time; only the imports exclude each       *)
(* other.                                                                  *)
(*                                                                         *)
(* A file has a version, which stands for its modification time; a number  *)
(* of complete lines, each two bytes long; perhaps half a line more; and   *)
(* its text, in which a line is told by the version that wrote it and its  *)
(* number.  A file that is rewritten remains the session that it was: the  *)
(* store knows an event by its source and the number of its line.          *)
(***************************************************************************)
EXTENDS Integers, FiniteSets, FiniteSetsExt

CONSTANTS
  Procs,      \* processes that import
  Files,      \* session files of the tree, in the order of import
  Halves,     \* how half a line may look, see Half
  Noise,      \* numbers of the lines that hold no event: the header is 1
  FirstLines, \* FirstLines[f]: its lines at first
  MaxLines,   \* MaxLines[f]: bound on the lines of a file
  MaxVersion, \* MaxVersion[f]: bound on its versions
  MaxEdits,   \* bound on the changes to files
  MaxFaults   \* bound on crashes and failures of the store

\* A "broken" half has the marks of an event and is no JSON yet; a "silent"
\* one has not even these (should_parse_codex_session_line).
Half == {"broken", "silent"}

ASSUME ImportAssumption ==
  /\ Files \subseteq Nat /\ 0 \notin Procs
  /\ 1 \in Noise /\ Halves \subseteq Half
  /\ FirstLines \in [Files -> Nat \ {0}]
  /\ MaxLines \in [Files -> Nat \ {0}]
  /\ MaxVersion \in [Files -> Nat \ {0}]

VARIABLES
  disk,    \* disk[f]: the file; of no bytes: it does not exist
  row,     \* row[f]: its row of catalog_sessions
  events,  \* events[f]: the lines that the store has as events
  root,    \* root[f]: source_root of its capture source
  lock,    \* the process that holds the bulk lock, or 0
  pc,      \* where a process is
  scan,    \* scan[p]: what it has seen of the tree
  listed,  \* listed[p]: the pending sessions
  todo,    \* todo[p]: those to look at
  whole,   \* whole[p]: those to import whole
  start,   \* start[p]: where the tail begins
  edits, faults

\* History, which no guard reads: the files that were rewritten between the
\* reading of an import and its checkpoint, or read short of the checkpoint.
VARIABLE torn

mine == <<scan, listed, todo, whole, start>>
vars == <<disk, row, events, root, lock, pc, mine, edits, faults, torn>>

-----------------------------------------------------------------------------
(* Files. *)

None == [size |-> 0, version |-> 0]

Bytes(d) == 2 * d.lines + (IF d.half = "no" THEN 0 ELSE 1)
Present == {f \in Files : Bytes(disk[f]) > 0}
Stat(f) == [size |-> Bytes(disk[f]), version |-> disk[f].version]

\* What the complete lines from a byte on hold as events.
EventsFrom(f, byte) ==
  {l \in disk[f].text : l[2] \notin Noise /\ l[2] <= disk[f].lines /\ 2 * (l[2] - 1) >= byte}

Content(f) == EventsFrom(f, 0)

\* The text of a number of bytes, and so its hash.
Prefix(f, bytes) == {l \in disk[f].text : 2 * (l[2] - 1) < bytes}

\* The file that a process has in hand: the first of those to look at, then of
\* those to import whole.
Hand(p) == Min(IF todo[p] # {} THEN todo[p] ELSE whole[p])

\* The file has been read, in part at least, and its checkpoint is not taken yet.
BeingRead(f) == \E p \in Procs : pc[p] \in {"at tail", "to mark"} /\ Hand(p) = f

\* A file gets lines, perhaps half a line, and text.
Edit(f, version, lines, half, text) ==
  /\ edits < MaxEdits
  /\ edits' = edits + 1
  /\ disk' = [disk EXCEPT ![f] =
               [version |-> version, lines |-> lines, half |-> half, text |-> text]]
  /\ UNCHANGED <<row, events, root, lock, pc, mine, faults>>

\* The text with the line that comes next, if none is begun.
Begun(d) == d.text \cup (IF d.half = "no" THEN {<<d.version, d.lines + 1>>} ELSE {})

Append(f) ==
  /\ f \in Present /\ disk[f].lines < MaxLines[f]
  /\ Edit(f, disk[f].version, disk[f].lines + 1, "no", Begun(disk[f]))
  /\ UNCHANGED torn

BeginLine(f) ==
  /\ f \in Present /\ disk[f].half = "no" /\ disk[f].lines < MaxLines[f]
  /\ \E h \in Halves : Edit(f, disk[f].version, disk[f].lines, h, Begun(disk[f]))
  /\ UNCHANGED torn

\* The first lines may remain what they were.
Replace(f) ==
  LET v == disk[f].version + 1
  IN /\ disk[f].version < MaxVersion[f]
     /\ \E n \in 1 .. MaxLines[f], kept \in 0 .. disk[f].lines :
          /\ kept <= n
          /\ Edit(f, v, n, "no", {l \in disk[f].text : l[2] <= kept}
                                  \cup {<<v, i>> : i \in kept + 1 .. n})
     /\ torn' = IF BeingRead(f) THEN torn \cup {f} ELSE torn

Remove(f) ==
  /\ f \in Present /\ disk[f].version < MaxVersion[f]
  /\ Edit(f, disk[f].version, 0, "no", {})
  /\ UNCHANGED torn

-----------------------------------------------------------------------------
(* The rows. *)

Known == {f \in Files : row[f].stat # None}

NoCheckpoint == [size |-> 0, prefix |-> {}]

\* Faulty: a file that was away stays away.
UpsertForgotten(r, s) ==
  IF r.stat = s THEN r
  ELSE [stat |-> s, stale |-> r.stale, status |-> "pending", indexed |-> None,
        last |-> NoCheckpoint]

\* upsert_catalog_sessions
Upsert(r, s) ==
  IF r.stat = s THEN [r EXCEPT !.stale = FALSE]
  ELSE LET grown == /\ s.size > r.stat.size
                    /\ r.status = "indexed" /\ r.indexed = r.stat
                    /\ r.last.size = r.stat.size
       IN [stat |-> s, stale |-> FALSE, status |-> "pending", indexed |-> None,
           last |-> IF grown THEN r.last ELSE NoCheckpoint]

\* catalog_pending_import_condition_sql
Pending(f) ==
  /\ f \in Known /\ ~row[f].stale
  /\ \/ row[f].status # "indexed"
     \/ row[f].indexed # row[f].stat
     \/ root[f] # "tree"

SetRow(f, r) == row' = IF row[f].stale THEN row ELSE [row EXCEPT ![f] = r]

\* mark_catalog_source_failed
MarkFailed(f) == SetRow(f, [row[f] EXCEPT !.status = "failed", !.indexed = None])

-----------------------------------------------------------------------------
(* A run. *)

Unseen == [stats |-> <<>>, missing |-> {}]

Forget(p) ==
  /\ listed' = [listed EXCEPT ![p] = <<>>]
  /\ todo' = [todo EXCEPT ![p] = {}]
  /\ whole' = [whole EXCEPT ![p] = {}]
  /\ start' = [start EXCEPT ![p] = 0]

Go(p, place) == pc' = [pc EXCEPT ![p] = place]

\* catalog_codex_session_tree up to its transaction.  A file whose row is up to
\* date is written only if some row is stale.
Scan(p) ==
  LET cached == {f \in Present : row[f].stat = Stat(f)}
      stale == {f \in Known : row[f].stale}
      seen == IF stale # {} THEN Present ELSE Present \ cached
      missing == IF stale # {} \/ Known \ Present # {} THEN Files \ Present ELSE {}
  IN /\ pc[p] = "idle"
     /\ scan' = [scan EXCEPT ![p] = [stats |-> [f \in seen |-> Stat(f)], missing |-> missing]]
     /\ Go(p, IF seen = {} /\ missing = {} THEN "cataloged" ELSE "scanned")
     /\ UNCHANGED <<disk, row, events, root, lock, listed, todo, whole, start, edits, faults, torn>>

\* Its transaction, with mark_catalog_source_missing_paths_stale.
Catalog(p) ==
  LET stats == scan[p].stats
  IN /\ pc[p] = "scanned"
     /\ row' = [f \in Files |->
                 IF f \in DOMAIN stats THEN Upsert(row[f], stats[f])
                 ELSE IF f \in scan[p].missing \cap Known THEN [row[f] EXCEPT !.stale = TRUE]
                 ELSE row[f]]
     /\ scan' = [scan EXCEPT ![p] = Unseen]
     /\ Go(p, "cataloged")
     /\ UNCHANGED <<disk, events, root, lock, listed, todo, whole, start, edits, faults, torn>>

\* begin_event_search_bulk_mode, list_pending_catalog_sessions
Take(p) ==
  LET pending == {f \in Files : Pending(f)}
  IN /\ pc[p] = "cataloged" /\ lock = 0
     /\ lock' = p
     /\ listed' = [listed EXCEPT ![p] = [f \in pending |-> row[f].stat]]
     /\ todo' = [todo EXCEPT ![p] = pending]
     /\ Go(p, "at work")
     /\ UNCHANGED <<disk, row, events, root, scan, whole, start, edits, faults, torn>>

GiveUp(p) ==
  /\ pc[p] = "cataloged" /\ lock # 0
  /\ Go(p, "idle")
  /\ UNCHANGED <<disk, row, events, root, lock, mine, edits, faults, torn>>

\* The import of the file in hand is over.
Done(p) ==
  /\ IF todo[p] # {}
       THEN todo' = [todo EXCEPT ![p] = @ \ {Hand(p)}] /\ UNCHANGED whole
       ELSE whole' = [whole EXCEPT ![p] = @ \ {Hand(p)}] /\ UNCHANGED todo
  /\ start' = [start EXCEPT ![p] = 0]
  /\ Go(p, "at work")
  /\ UNCHANGED <<lock, listed>>

\* The run ends, with or without an error, and the bulk lock is released.
End(p) == Forget(p) /\ Go(p, "idle") /\ lock' = 0

Finish(p) ==
  /\ pc[p] = "at work" /\ todo[p] = {} /\ whole[p] = {}
  /\ End(p)
  /\ UNCHANGED <<disk, row, events, root, scan, edits, faults, torn>>

\* catalog_source_index_state knows no stale row.
TailStart(f, s) ==
  IF ~row[f].stale /\ row[f].last.size < s.size THEN row[f].last.size ELSE 0

\* catalog_import_checkpoint_matches
CheckpointMatches(f) == row[f].last.prefix = Prefix(f, row[f].last.size)

\* The prefix is hashed to see whether a tail will do; a file shorter than
\* that is an error that ends the run.
Look(p) ==
  LET f == Hand(p)
      from == TailStart(f, listed[p][f])
  IN /\ pc[p] = "at work" /\ todo[p] # {}
     /\ IF from > Bytes(disk[f]) THEN End(p)
        ELSE /\ IF from > 0 /\ CheckpointMatches(f)
                  THEN /\ start' = [start EXCEPT ![p] = from]
                       /\ Go(p, "at tail")
                       /\ UNCHANGED <<todo, whole>>
                  ELSE /\ todo' = [todo EXCEPT ![p] = @ \ {f}]
                       /\ whole' = [whole EXCEPT ![p] = @ \cup {f}]
                       /\ UNCHANGED <<start, pc>>
             /\ UNCHANGED <<lock, listed>>
     /\ UNCHANGED <<disk, row, events, root, scan, edits, faults, torn>>

\* Faulty: what INSERT OR IGNORE leaves out is taken to be there.
ClashIgnored(f, read) == {}

\* Events of the store with the source and line of what is read and another text:
\* a ProviderEventConflict.
Clash(f, read) == {e \in events[f] : \E l \in read : l[2] = e[2] /\ l # e}

\* Faulty: a source is known by its own path, whoever reads it.
StoreOwnPath(f, read, r) ==
  /\ events' = [events EXCEPT ![f] = @ \cup {l \in read : \A e \in events[f] : e[2] # l[2]}]
  /\ root' = IF read = {} THEN root ELSE [root EXCEPT ![f] = "file"]

\* INSERT OR IGNORE of the events read, with the source_root that the reader
\* gives to their source.
Store(f, read, r) ==
  /\ events' = [events EXCEPT ![f] = @ \cup {l \in read : \A e \in events[f] : e[2] # l[2]}]
  /\ root' = IF read = {} THEN root ELSE [root EXCEPT ![f] = r]

\* What an import that stops on its way has committed, since transactions are
\* bounded: nothing that comes after a conflict.
StorePart(f, read, r) ==
  \E n \in 0 .. MaxLines[f] :
    LET part == {l \in read : l[2] <= n}
    IN Clash(f, part) = {} /\ Store(f, part, r)

\* The complete lines do not reach the size that the checkpoint will have.
ReadShort(p, f) == 2 * disk[f].lines < listed[p][f].size

\* What is read goes to the store.  A conflict is an error of the store: the
\* session is marked failed and the run ends, with its other sessions pending.
Import(p, f, read, r, fails) ==
  \/ /\ Clash(f, read) # {}
     /\ StorePart(f, read, r) /\ MarkFailed(f) /\ End(p)
     /\ UNCHANGED torn
  \/ /\ Clash(f, read) = {}
     /\ Store(f, read, r)
     /\ IF fails THEN MarkFailed(f) /\ Done(p) /\ UNCHANGED torn
        ELSE /\ Go(p, "to mark")
             /\ torn' = IF ReadShort(p, f) THEN torn \cup {f} ELSE torn
             /\ UNCHANGED <<row, lock, listed, todo, whole, start>>

\* import_codex_session_jsonl_tail, whose source has no root but its own path.
\* A malformed line does not keep the others out.
Tail(p) ==
  LET f == Hand(p)
  IN /\ pc[p] = "at tail"
     /\ \/ /\ f \notin Present
           /\ MarkFailed(f) /\ End(p)
           /\ UNCHANGED <<events, root, torn>>
        \/ /\ f \in Present
           /\ Import(p, f, EventsFrom(f, start[p]), "file",
                     disk[f].half = "broken" /\ start[p] < Bytes(disk[f]))
     /\ UNCHANGED <<disk, scan, edits, faults>>

\* import_codex_session_paths.  A file without any event is a failure, too.
Whole(p) ==
  LET f == Hand(p)
  IN /\ pc[p] = "at work" /\ todo[p] = {} /\ whole[p] # {}
     /\ Import(p, f, Content(f), "tree",
               f \notin Present \/ Content(f) = {} \/ disk[f].half = "broken")
     /\ UNCHANGED <<disk, scan, edits, faults>>

\* Faulty: the checkpoint is taken of the file as it is now.
CheckpointNow(f, s) == [size |-> Bytes(disk[f]), prefix |-> Prefix(f, Bytes(disk[f]))]

\* sha256_file_prefix_hex: the part that was there when the file was cataloged.
Checkpoint(f, s) == [size |-> s.size, prefix |-> Prefix(f, s.size)]

\* mark_catalog_session_indexed
Mark(p) ==
  LET f == Hand(p)
      s == listed[p][f]
  IN /\ pc[p] = "to mark"
     /\ IF Bytes(disk[f]) < s.size THEN End(p) /\ UNCHANGED row
        ELSE /\ SetRow(f, [row[f] EXCEPT !.status = "indexed", !.indexed = s,
                                         !.last = Checkpoint(f, s)])
             /\ Done(p)
     /\ UNCHANGED <<disk, events, root, scan, edits, faults, torn>>

\* The process is killed, or the store fails: with any part of the file in hand
\* imported.
Crash(p) ==
  LET f == Hand(p)
  IN
  /\ pc[p] # "idle" /\ faults < MaxFaults
  /\ faults' = faults + 1
  /\ \/ UNCHANGED <<events, root>>
     \/ /\ pc[p] = "at tail"
        /\ StorePart(f, EventsFrom(f, start[p]), "file")
     \/ /\ pc[p] = "at work" /\ todo[p] = {} /\ whole[p] # {}
        /\ StorePart(f, Content(f), "tree")
  /\ Forget(p) /\ scan' = [scan EXCEPT ![p] = Unseen] /\ Go(p, "idle")
  /\ lock' = IF lock = p THEN 0 ELSE lock
  /\ UNCHANGED <<disk, row, edits, torn>>

-----------------------------------------------------------------------------

Init ==
  /\ disk = [f \in Files |-> [version |-> 1, lines |-> FirstLines[f], half |-> "no",
                          text |-> {1} \X (1 .. FirstLines[f])]]
  /\ row = [f \in Files |-> [stat |-> None, stale |-> FALSE, status |-> "pending",
                             indexed |-> None, last |-> NoCheckpoint]]
  /\ events = [f \in Files |-> {}]
  /\ root = [f \in Files |-> "none"]
  /\ lock = 0
  /\ pc = [p \in Procs |-> "idle"]
  /\ scan = [p \in Procs |-> Unseen]
  /\ listed = [p \in Procs |-> <<>>]
  /\ todo = [p \in Procs |-> {}]
  /\ whole = [p \in Procs |-> {}]
  /\ start = [p \in Procs |-> 0]
  /\ edits = 0 /\ faults = 0
  /\ torn = {}

Step(p) ==
  \/ Scan(p) \/ Catalog(p) \/ Take(p) \/ GiveUp(p) \/ Finish(p)
  \/ Look(p) \/ Tail(p) \/ Whole(p) \/ Mark(p)

Agent(f) == Append(f) \/ BeginLine(f) \/ Replace(f) \/ Remove(f)

Next ==
  \/ \E p \in Procs : Step(p) \/ Crash(p)
  \/ \E f \in Files : Agent(f)

Spec == Init /\ [][Next]_vars

\* Imports are run again and again, by the user's searches, the hooks and the
\* daemon, and a run goes on.
FairSpec == Spec /\ \A p \in Procs : WF_vars(Step(p))

-----------------------------------------------------------------------------
(* Properties. *)

States == [size : Nat, version : Nat]
Texts == SUBSET (Nat \X (Nat \ {0}))

Rows == [stat : States, stale : BOOLEAN, status : {"pending", "indexed", "failed"},
         indexed : States, last : [size : Nat, prefix : Texts]]

TypeOK ==
  /\ disk \in [Files -> [version : Nat, lines : Nat, half : Half \cup {"no"},
                      text : Texts]]
  /\ row \in [Files -> Rows]
  /\ events \in [Files -> SUBSET (Nat \X (Nat \ Noise))]
  /\ root \in [Files -> {"none", "file", "tree"}]
  /\ lock \in Procs \cup {0}
  /\ pc \in [Procs -> {"idle", "scanned", "cataloged", "at work", "at tail", "to mark"}]
  /\ todo \in [Procs -> SUBSET Files] /\ whole \in [Procs -> SUBSET Files]
  /\ start \in [Procs -> Nat]
  /\ torn \subseteq Files
  /\ DOMAIN scan = Procs /\ DOMAIN listed = Procs
  /\ \A p \in Procs :
       /\ DOMAIN scan[p].stats \cup scan[p].missing \subseteq Files
       /\ \A f \in DOMAIN scan[p].stats : scan[p].stats[f] \in States
       /\ \A f \in todo[p] \cup whole[p] : listed[p][f] \in States
       /\ pc[p] \notin {"at work", "at tail", "to mark"} => todo[p] \cup whole[p] = {}
       /\ pc[p] = "at tail" => todo[p] # {}
       /\ pc[p] = "to mark" => todo[p] \cup whole[p] # {}

\* What the catalog says to be imported is imported: when the row of a file is
\* that of the file as it is and is not pending, then no event of it is missing.
\* Tails, whole imports, failures and the imports of other processes all end in
\* the same row (mark_catalog_source_indexed, catalog_pending_import_condition_sql),
\* and events whose line is taken are left out without a word (INSERT OR IGNORE).
\* Only a file that was torn may be an exception.
NothingSkipped ==
  \A f \in Known \cap Present :
    row[f].stat = Stat(f) /\ ~row[f].stale /\ ~Pending(f) /\ f \notin torn
      => Content(f) \subseteq events[f]

\* The text under a checkpoint is that of events that the store has, so that a
\* tail, which begins behind a prefix of the same text, leaves out nothing
\* (import_incremental_codex_session_tree); unless the file was torn.
CheckpointHonest ==
  \A f \in Files \ torn :
    {l \in row[f].last.prefix : l[2] \notin Noise} \subseteq events[f]

Tailed(f) == TailStart(f, row[f].stat) > 0 /\ CheckpointMatches(f)

\* A session that clashes with what was imported of it comes before this one, or
\* is this one: tails first, and each kind in the order of the files.
Stopped(f) ==
  \E g \in Present :
    /\ Clash(g, Content(g)) # {}
    /\ IF Tailed(f) THEN Tailed(g) /\ g <= f ELSE Tailed(g) \/ g <= f

\* Every event of the tree gets into the store, whatever fails and whoever runs,
\* but for a session that was torn or that is stopped by a conflict.
EventuallyImported ==
  \A f \in Files : <>[](Content(f) \subseteq events[f] \/ f \in torn \/ Stopped(f))

\* Imports come to rest: in the end a session stays pending only if it has half
\* a line or no event, or is stopped by a conflict.
EventuallySettled ==
  \A f \in Files :
    <>[](Pending(f) => disk[f].half # "no" \/ Content(f) = {} \/ Stopped(f))
=============================================================================
