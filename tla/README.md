# TLA+ models of ctx-remote

ctx-remote is a fork of `ctx` that keeps coding-agent history in one shared
libSQL/Turso database instead of a local index.  Several Macs upload what their
agents (Codex, Claude Code, OpenCode, Qwen Code, ...) write; a search on any Mac
sees the union.  The promise that matters is in `README.md`, "Storage and merge
semantics": imports of several Macs are unioned, copies of one provider event
become one event, and nothing is lost when an upload is interrupted, retried or
run twice.  That promise is kept by a chain of programs that run concurrently,
crash and time out, and that chain is what the first group of modules describes.
The second group is about the machine itself: the local import that fills the
local index (LocalImport), the bulk mode of its full-text tables (BulkSearch), the
daemon that embeds text and answers queries (PidLock, QueryDaemon), its vectors
(SemanticIndex), and the program that replaces `ctx` while all of this runs
(Upgrade).

    agents write files --> hooks (HookSync) ----\
                       \-> service (AutoSync) ---+--> `ctx turso import` (RemoteImport)
                                                        |  one in-memory Store per chunk
                                                        v
                        other Macs  ----------->  push: pages, keys, transactions (TursoPush)
                                                        |
                                                        v
          imported snapshot, its projection (SnapshotProjection) ---> one timeline
                                                                   (SharedTimeline)

    agents write files --> catalog, import (LocalImport) --> local store (BulkSearch)
                                                                  |
    search --> lock (PidLock), daemon (QueryDaemon) <--> vectors (SemanticIndex)

Run a model from this directory with `tlc -config X.cfg M`, where module and
configuration are paired in `PROJECT.json`, and check the proofs with `tlapm M.tla`
for the eight modules `...Proof`.

## Inventory

For every component: the state it keeps, its operations, with whom it
interacts, and what makes it hard.  The modelled ones come first.

### Remote upload: `push` in `crates/ctx-cli/src/commands/turso.rs`

- State: the remote tables `ctx_turso_event_keys` (dedupe key -> owner),
  `ctx_turso_events` (primary key UUID, unique dedupe key) and `ctx_turso_search`
  (FTS5, no unique constraint); in memory the session map, the page cursor
  `after_id`, the page and the SQL batch.
- Operations: read the sessions, read a page in UUID order, look up the known
  keys, build a batch, run it as one transaction; `--limit` and
  `--after-event-id` for recovery by hand.
- Interacts with the local store (or the in-memory store of an import) and with
  the same program on other Macs, through the database only.
- Hard: lookup and commit are separate requests, so two Macs race; a batch that
  timed out may still run; UUIDs are not created in order; the sessions are read
  once but a live index grows; three kinds of conflict (key, UUID, unique key
  column) are resolved by three statements.
- Correct if: one row per provider event, a claimed key has its row, one search
  row per event row, nothing is taken back, nothing a scan passed is missing,
  withheld events stay home, everything else arrives in the end.

### Remote import: `run_turso_import_once` and `commands/import.rs`

- State: `ctx_turso_source_checkpoints` (fingerprint and time stamp per source)
  and, for one run, the pending checkpoints, the queue of files and one
  in-memory Store; for `--watch`, the number of failures in a row.
- Operations: fingerprint and compare every source, inventory the changed ones,
  import each of them (Codex: chunks of eight changed sessions; Claude: one
  changed file at a time; others: whole), push each Store, fingerprint again and
  store the checkpoint, repeat; `--adopt-snapshot` writes the checkpoints of all
  sources without importing anything, for a database that began as a snapshot.
- Hard: agents write between any two of these steps; modification times are
  compared with the clock of the checkpoint write; a late checkpoint write; one
  bad source among several; giving up after three failures.
- Correct if: no checkpoint covers an event that is not uploaded, and every
  event of an importable source is uploaded in the end.

### Snapshot projection: `project` and `remote_snapshot_search` in `turso.rs`

- State: none of its own.  The tables of an imported ctx SQLite database beside
  those of the upload.
- Operations: find the highest event id of the event table, copy the next events
  of the snapshot behind it, add a search row for the next rows behind it, until
  the highest id stays; a search joins the snapshot with the rows of the table
  that are not in it.
- Interacts with the uploads, whose rows move the highest id.
- Hard: the position is inferred from rows that others write, too; search rows
  are added and never deleted; an event may be in the snapshot, the projection
  and an upload at once.
- Correct if: a finished projection has the whole snapshot, each event is found,
  and found once.

### Session-end hooks: `scripts/ctx-remote-hook-sync.py`

- State: marker files in `hook-sync.pending.d`, `.working` and `.failed` files,
  the lock file `import.lock`; a worker's scan cycle, markers, target, attempt.
- Operations: `request` (place a marker, spawn a worker), `worker` (take the
  lock, scan twice, import), `locked-exec` (run a command under the lock).
- Hard: many agents end at once; a request arrives during the import of its
  source; a worker ends at its first failure with markers left over; a killed
  worker leaves a `.working` file and a running child.
- Correct if: imports do not overlap, no marker is left without a process that
  will look for it, no request is forgotten.

### Sync service: `scripts/ctx-turso-auto-sync.sh` under launchd

- State: the token and its age, the time of the last import per source, the
  counters of the current cycle.
- Operations: renew the token, walk the list of sources, import those that are
  quiet or deferred for too long, retry once after an authentication failure,
  sleep; launchd restarts it.
- Hard: continuous writes, a busy lock, a token rejected before its time,
  failures, and everything the hooks lose.
- Correct if: no source is starved, and what is written is uploaded in the end.

### Upgrade: `crates/ctx-cli/src/upgrade`

- State: the lock file `upgrade.lock`; the journal
  `upgrade-install-transaction.json`; three installed paths (ONNX Runtime
  directory, binary, install marker), each with a staged and a backup file; the
  durable backup of the binary.
- Operations: take the lock, or remove that of a dead process; recover what the
  journal tells of; plan and stage an upgrade; journal, publish the three paths,
  journal again, clean up; roll back when a step fails.
- Interacts with every other `ctx` process: each replaces, or is started from,
  the same binary, and ordinary commands start a background upgrade.
- Hard: a kill or an error at every system call, in publication, rollback and
  recovery; three files that only mean something together; recovery decides from
  the existence of files; the lock is a file that outlives its owner.
- Correct if: one process at a time changes the installation; all three paths
  change or none; there is always a binary to recover with; no upgrade is left
  half-way.

### Local import: `commands/import`, `provider/codex`, `store/src/catalog.rs`

- State: `catalog_sessions` with a row per session file (size and time when it was
  cataloged and when it was imported, status, checkpoint), the events and their
  capture sources; agents' files; a run's list of pending sessions.
- Operations: catalog the tree, mark what has disappeared, list what is pending,
  import a session whole or from its checkpoint on, mark it indexed or failed.
- Interacts with agents, which append, and with other importing processes (search
  refresh, daemon, hooks), which share the rows.
- Hard: files grow, end in half a line, are rewritten and removed between any two
  steps; two catalogs and a mark interleave; a tail trusts a hash; the checkpoint
  is taken after the import; a line whose place in the store is taken by another
  text is a conflict, which rolls back, fails its session and ends the run.
- Correct if: what does not count as pending is in the store, a checkpoint covers
  only what is, everything that can gets there, and imports come to rest.

### Local store: `bulk_search.rs`, `connection.rs` in `ctx-history-store`

- State: the merge settings of the two full-text tables, the settings saved beside
  the marker of bulk mode, the work that merging is worth, the WAL; a lock in a
  sidecar database; a nesting depth per store.
- Operations: open (and recover), begin and end bulk mode, merge step by step,
  truncate the WAL, restore; optimize.
- Hard: a kill at any step leaves suppressed settings; a store is opened while
  another process restores; long readers keep the WAL from being truncated.
- Correct if: the user's settings are never lost, are back in the end, and are not
  switched on during an import.

### Semantic daemon: `semantic/daemon.rs`, `paths_status.rs`, `query_service_transport.rs`

- State: a guard file with an flock, a metadata file that says whose it is,
  a socket, an endpoint file with a token; two threads with an activity record
  (accepting, active, generation), an idle clock and a shared embedder.
- Operations: take and release the lock; publish the service; accept, answer; run
  the jobs; stop when idle.  A search probes the lock, starts a daemon, waits for
  it, asks it, and falls back to lexical search.
- Hard: several processes and an earlier version with another protocol on the same
  files; ending while a request comes in; files removed by name; crashes at any
  point; either thread drops the embedder of the other.
- Correct if: one daemon at a time; its files are its own while it runs; it ends
  only when idle, with no request open; it is replaced when it dies.

### Semantic index: `semantic/indexing.rs`, `vector_store_state.rs`

- State: the vectors of documents, a queue of changed ones, the backfill cursor,
  the position of pruning, cached counts, a status file.
- Operations: prune, queue, embed the queue, embed the latest page, go on from the
  cursor; verify the counts.
- Hard: budgets and deadlines end a batch anywhere; documents change between
  reading and writing; kills between two transactions; a cached count hides gaps.
- Correct if: the cursor passes nothing that is not embedded, recent documents are
  embedded in the end, and all are.

### Not modelled (yet)

| component | where | state and operations | why not, or when |
| --- | --- | --- | --- |
| Remote `search`, `show`, `status` | `turso.rs` 1139-1780 | read-only queries over the snapshot or the projection | the rows that a search joins are in `SnapshotProjection`; ranking and formatting are data |
| Upgrade on Windows | `upgrade/windows.rs` | a helper process replaces the binary after `ctx` has ended | another protocol, without the journal |
| Semantic models, ONNX runtime | `semantic/model_*.rs`, `ort_runtime.rs`, ... | downloads, caches, inference | native code and network input |
| Rest of the local store | `crates/ctx-history-store` | SQLite tables, migrations, search projections | single-process transactions; its event identity and paging are used by `TursoPush` |
| Catalogs of other providers | `commands/import/inventory.rs`, `provider/native.rs` | manifests of files, whole imports | the Codex catalog is the one with checkpoints |
| Provider importers | `crates/ctx-history-capture` | parsers of some thirty formats | data conversion |
| Local search, core types | `ctx-history-search`, `ctx-history-core` | pure queries, data types | no concurrency |
| MCP server | `crates/ctx-cli/src/mcp*` | one request at a time over stdio | no concurrency |
| Integrations, skills, plugins | `integrations`, `skill*`, `history_source_plugins.rs` | generated files, child processes that print JSON | I/O |
| Configuration, analytics, network, output | `config.rs`, `analytics.rs`, `net.rs`, ... | | I/O |
| Protocol, SDKs, contracts | `ctx-protocol`, `ctx-sdk`, `sdks`, `contracts` | message types | data |
| Wrapper and installers | `scripts/ctx-remote.sh`, `install-*` | environment and files | sequential |
| Build, release, test scripts | `scripts` | | not part of the running system |

## Modules

| module | models | lines of |
| --- | --- | --- |
| `SharedTimeline` | what the shared database promises: events are recorded on Macs; sets of recorded, shareable events without copies are merged into a timeline that only grows | abstract |
| `TursoPush` | `push`, all of its steps, by several Macs | `turso.rs`, `events.rs`, `store_util.rs` |
| `SnapshotProjection` | `ctx turso project` and what a search joins; extends `TursoPush`, whose tables it shares | `turso.rs` |
| `RemoteImport` | `ctx turso import [--watch]`, `--adopt-snapshot` | `turso.rs`, `import.rs`, `catalog.rs`, `inventory.rs` |
| `HookSync` | requests and workers of the session-end hooks | `ctx-remote-hook-sync.py` |
| `AutoSync` | the service; extends `HookSync`, with which it shares the lock | `ctx-turso-auto-sync.sh`, launchd |
| `LocalImport` | catalog and import of a Codex tree by several processes | `commands/import`, `provider/codex`, store `catalog.rs` |
| `BulkSearch` | bulk mode of the full-text tables, recovery, optimize | `bulk_search.rs`, `connection.rs` |
| `PidLock` | the lock of the daemon, with a process of an earlier version | `paths_status.rs` |
| `QueryDaemon` | the daemon, its query thread and the searches that use it; extends `PidLock` | `daemon.rs`, `query_service_transport.rs`, `health_search.rs` |
| `SemanticIndex` | the worker that keeps the vectors up to date | `indexing.rs`, `vector_store_state.rs`, `daemon.rs`, `projections.rs` |
| `Installation` | what an upgrade promises: the installed paths change together, never to an older release, until the installation is damaged | abstract |
| `Upgrade` | `ctx upgrade` and its recovery, by several processes, with kills and errors | `upgrade/install.rs`, `state.rs`, `command.rs` |
| `TursoPushProof`, `RemoteImportProof`, `AutoSyncProof`, `LocalImportProof`, `BulkSearchProof`, `QueryDaemonProof`, `SemanticIndexProof`, `UpgradeProof` | the theorems about these modules; `TursoPushProof` is also about `SnapshotProjection`, `AutoSyncProof` about `HookSync` | |
| `MC...` | instances for TLC | |

The levels are related by what they hide.  `TursoPush` treats one import as one
push of a private Store; `RemoteImport` treats the push of a Store as one step
`Persist` that leaves the Store's events in the database (or, when it fails, any
part of them), which is what `TursoPush` shows a push to do; `HookSync` and
`AutoSync` treat a whole `ctx turso import` process as an interval between
`StartImport` and `EndImport` that reads, if it succeeds, what was there when it
began.  `SnapshotProjection` runs the steps of `TursoPush` themselves, on the same
tables.  `LocalImport` holds the lock of `BulkSearch` as a whole, and
`SemanticIndex` is one batch of `QueryDaemon`'s main thread seen from inside.

An operator whose comment begins with "Faulty" is a plausible bug of the code, listed
in `PROJECT.json` with the property that notices it; no action uses it.

### TursoPush

An event is a constant: UUID, dedupe key, session and visibility are functions
of it.  `EventId` is a number because only the order of UUIDs matters.
`DedupeKey[e]` is what `remote_dedupe_key` makes of it when its session is known:
a canonical key `provider:...` or, if the session has no provider id, the raw
key, which is outside `CanonicalKeys`.

| action | code |
| --- | --- |
| `Record` | a write into provider history or the local index, where a UUID has one row (a provider event with another text conflicts, `events.rs:149`; an update in place, `events.rs:67`, is left out) |
| `Begin` | `push` up to its loop: sessions read, cursor at the start |
| `ReadPage`, `Finish` | `list_events_page_after`, or no further event |
| `Lookup` | `remote_existing_dedupe_keys` and the loop that builds the batch |
| `Commit` | `execute_transactional_batch`: claims, rows, search rows (`NewClaims`, `NewRows`, `Apply`) |
| `Interrupt` | error, crash or timeout anywhere; a batch in flight is lost or goes to `late` |
| `DeliverLate` | that batch is executed after all |

`kind` distinguishes an import (private in-memory Store, local-only events
included), a `push` and a `push --include-local-only`.  `LiveIndex` says whether
a push finds WAL files next to the local index and therefore reads pages that
grow; `open_existing_store_read_only` otherwise opens an immutable snapshot.

### SnapshotProjection

The code keeps no position.  `Prepare` asks for the highest event id of the
projection (`MaxEventId`), `Copy` inserts the next `BatchSize` events of the
snapshot and then a search row for each of the next rows, and `Compare` asks
again and stops when the id has not moved.  `ProjectFails` is an error or a
time-out: the batch has run or it has not.  `Upload` is a step of `TursoPush`, and
nothing makes it wait for the projection: uploads write before, between and after its
steps, and move the highest event id.  Two histories, which no guard reads, say what
that does.  `skipped` is what of the snapshot was not copied yet when an upload of
a higher id came, and the projection passes over it for good; `crossed` is what was
uploaded between the reading of the position and the batch, behind the position, and
the batch then adds a second search row for it or spends its limit on it.  The
properties say that this is all that goes wrong.  `Hits(i)` is the number of results that
`remote_snapshot_search` gives for the event of id i when the term is one that
every event has.  A `--limit` and deleted events are left out.

### RemoteImport

A file is its number of events and its modification time; a fingerprint is the
set of path, length and time of the files.  `pending[h][s]` is the checkpoints
map of the run, where `previous` is 0 when there is no earlier checkpoint and
`MaxTime + 1` when the source is not in the map.  `QuietWriters` is the
assumption under which the code keeps its promise: while the checkpoint of a
source is being stored (from the second fingerprint to the time stamp, and in
the millisecond of the stamp) no agent writes to that source.  `MovesFiles` lets
files appear with an old modification time.  Deleting files is left out:
deleting changes the fingerprint and uploads nothing.

`Adopt`, `AdoptSource`, `Adopted` and `AdoptFails` are `--adopt-snapshot`, which
writes the checkpoint of one source after the other.  The database then began as
one of `Snapshots`, and the files `Present` had events at that time.
`AdoptsWhole` says that a Mac adopts only a snapshot that has all that the Mac
has.  An adoption and an import of one host do not overlap.

### HookSync and AutoSync

A worker is the request that spawned it.  `imports` holds the running import
processes; `fresh` is true while nothing was written to the target since the
import began, so that a successful end cleans exactly what it has read.  The
child of a killed worker runs on (`OrphanEnds`), while the lock, which children
do not inherit, is free again.  `AutoSync` counts time in cycles: `waited` is
the age of the last import, up to the defer limit.

Left out of `AutoSync` are `CTX_TURSO_SYNC_ONCE`, with which the script ends after a
cycle (`auto-sync.sh:224-226`, `252-254`), and a token from the environment
(`token_is_configured=1`, lines 55-58): the script neither renews it nor tries again
after it is rejected, so that, once it has expired, nothing is uploaded until somebody
replaces it.  `EventuallySynced` is about tokens that the script makes.

### LocalImport

| action | code |
| --- | --- |
| `Append`, `BeginLine`, `Replace`, `Remove` | agents, between any two steps |
| `Scan`, `Catalog` | `catalog_codex_session_tree` up to and with `upsert_catalog_sessions` and the marking of what has disappeared |
| `Take`, `Hand`, `GiveUp` | the bulk lock and `list_pending_catalog_sessions` |
| `Look` | the choice between a tail and a whole import: size, checkpoint, prefix hash |
| `Tail`, `Whole` | the imports: `Import`, with `Store` and `StorePart` for what they commit and `Clash` for a `ProviderEventConflict`, and with the mark of a failed file |
| `Mark` | `mark_catalog_session_indexed`, which reads the file again for size and hash |
| `Done`, `End`, `Crash` | the end of the run, the release of the lock, a kill or an error of the store |

The version of a file stands for its modification time; a file without a line or
half a line does not exist.  A line is told by the version that wrote it and by its
number, and the hash of a prefix by its lines.  An event's identity is its source
and the number of its line, and not its text (`importer/ids.rs:262`,
`codex/events.rs:651`): `INSERT OR IGNORE` leaves out a line whose place is taken,
and another text at that place is a `Clash` (store `events.rs:149-152`, `434-442`).
What was committed before a conflict or a kill is any number of lines from the
first that is read on (`StorePart`), since the transactions of an import are bounded.
`Half` has the kinds of an unfinished last line: a "broken" one is seen to be no
JSON, a "silent" one lacks the marks by which lines with events are picked and is
passed over.  A whole scan of the tree is one step, as is an import with the mark of
its failure.

Two things happen to files that the code does not notice, and the history variable
`torn` has the files to which one has happened.  A file is rewritten after an import
has begun to read it (or has hashed its beginning) and before the checkpoint is taken;
or its last line was half written, silently, when it was read, while the checkpoint
covers its bytes.  `NothingSkipped` and `CheckpointHonest` are about the other files;
both are false of these.  No guard reads `torn`.

A rewritten session whose new text differs at a line that is in the store fails in
every run, and the run ends with it (`report.rs:485-499`, `import/catalog.rs:131-139`):
sessions behind it in the order of import stay pending as long as it is there.
`Stopped` says which these are; the liveness properties except them and no
others.  (`docs/provider-import-policy.md:15-17` says of sources that one does not
stop another; sessions of one tree are not mentioned there.)

Replacing a file with one of the same size in the same millisecond, the rescan of
`--resume` and the manifests of other providers are left out.

### BulkSearch

| action | code |
| --- | --- |
| `Open`, `Recover`, `Adopt`, `Close` | `open_with_busy_timeout`, which looks for a marker that nobody owns |
| `Want`, `Acquire`, `GiveUp`, `Release` | the lock in the sidecar database, and its time-out |
| `Begin`, `BeginNested`, `Write`, `Finish` | `begin_event_search_bulk_mode`, an import's transactions, `finish_event_search_bulk_mode` |
| `Check`, `Merge`, `Checkpoint`, `Truncate`, `TruncateBusy`, `Restore` | merging in small transactions, each followed by a checkpoint, until nothing is left and the settings return |
| `OptimizeTable`, `Optimized` | `ctx` maintenance, table by table |
| `WriteUnguarded` | rows written outside an import |
| `Fail` | a kill, or a statement that fails: the connection ends, SQLite rolls back its transaction |

`work[t]` is how many merges a table is worth.  A reader that pins the WAL lets
the checkpoint fail, and every retry adds the pages of its merges.  The passes
of `optimize` over one table are one step.  In-memory stores, which have no lock,
migrations that drop tables with settings, and the checkpoint that SQLite runs
when the last connection closes are left out.

### PidLock and QueryDaemon

`PidLock` follows `PidFileLock` call by call: open, flock, judge what is in the
file, truncate, write, verify, and at the end check, unlink and unlock.  An
earlier version, which creates and unlinks the file and knows no flock, is the
process `legacy`.  `probes` are searches that hold the flock for an instant while
they ask whether a daemon lives.

| action of `QueryDaemon` | code |
| --- | --- |
| `Start`, `RunByHand` | `maybe_autostart_daemon_inner`, `ctx daemon run` |
| `NotMine`, `Bind`, `Publish`, `SpawnThread`, `StartFails` | `run_daemon_inner` up to its loop and the start of the query service |
| `Top`, `Quit`, `Iterate`, `Batch`, `After`, `IdleElapses` | the loop, its idle clock, a job |
| `RemoveEndpoint`, `Stop`, `Join`, `DropLock`, `Exit` | the drop of the service and the lock |
| `Accept`, `Handle`, `Load`, `Embed`, `Answer`, `ThreadEnds` | the query thread |
| `Search`, `Probed`, `Learn`, `Await`, `WindowEnds`, `ReadEndpoint`, `Connect`, `HangUp`, `Timeout` | a search, up to its result or its fall-back |
| `Crash`, `Vanish` | a kill; the kernel frees flock and socket |

`Load` fails, counted with the faults, when the model is not in the cache or cannot
be loaded (`daemon.rs:845-850`); the search gets an error and falls back.  So does an
`accept` that fails for good: it ends the thread (`ThreadEnds`), while the daemon keeps
the lock until it is idle.  A model that never comes is beyond `MaxFaults`; then no
search ever becomes semantic.

Left out: slow clients and the read time-out, socket paths that are too long,
Windows pipes, `--once`.  The second availability ping of a
search is part of the first.  A search that arrives while a daemon is ending starts
none and gets lexical results, which `EventuallySemantic` allows for a single search.

### SemanticIndex

A document is a turn: the message of a user, known by its time, with the last
reply.  `text[d]` and `vec[d]` are the versions of its text and of its vectors.

| action | code |
| --- | --- |
| `Add`, `Extend`, `Withdraw` | imports into the store |
| `Bootstrap`, `Refresh`, `QueueRecent` | `run_daemon_once` and the queueing of recent documents |
| `Job`, `Prune`, `Pruned`, `Begin` | the job up to the worker; pruning goes on from a stored position |
| `ReadDirty`, `ReadPage`, `Load`, `Index`, `Dequeue`, `Advance` | `backfill_semantic_embeddings`: queue, latest page, pages behind the cursor |
| `Count`, `Final` | the cached counts and the status file |
| `Limits`, `TimeUp` | the limit of a batch, which shrinks towards the deadline of a pass, and the deadline |
| `Crash` | a kill, or the end of an idle daemon, and the next start |

A daemon that starts again loads the model for its job and says so in the status file,
which is then no longer "ready" (`daemon.rs:1539-1553`); if the query that started it
has loaded the model first, the job does not, and the file stays as it was.  `Crash`
allows both.  `Limits` allows every limit up to what is left of the budget, while the
code has at least sixteen embeddings (`indexing.rs:325-340`).  A document that takes
more than the budget of a pass is never embedded (`indexing.rs:209`);
`IndexAssumption` leaves it out.

The hash filter of a search, the backfill directed by a query, the two rows of a
cursor that are written in one transaction here, the vec0 tables, the memory
policy and the acquisition of models are left out.

### Upgrade

The content of a path is the number of the release it comes from.  A step is one
system call that changes a path, so that a kill (`Crash`) or an error
(`StepFails`, `PublishFails`, `Outcome`) falls between any two of them, also during
a rollback or a recovery.  Copying a file for want of a hard link and the removal
of a directory are one step each.

| action | code |
| --- | --- |
| `Start` | any command that spawns `ctx upgrade --background`, or `ctx upgrade` |
| `Open`, `Name` | `create_new` of the lock file, and writing the process id into it, in `UpgradeLock::acquire` |
| `Judge`, `Takeover` | `stale_upgrade_lock_reason`, and the removal of the file by its name; two turns |
| `Age` | 30 minutes (`STALE_UPGRADE_LOCK_AFTER`) pass over a file without a process id |
| `Drop` | the guard of the lock, which removes the file by its name |
| `Recover`, `Undo`, `Clean`, `Finish`, `Erase` | `recover_interrupted_install`, `rollback_journal_paths`, `finish_committed_journal` |
| `Stage`, `NoUpdate` | `build_upgrade_plan` and `apply_artifact` up to `replace_binary` |
| `WriteJournal`, `Backup`, `Rename`, `Commit`, `Discard`, `Close` | `replace_binary` |
| `Revert`, `Forget`, `Sweep` | `rollback_unix_publication` and what follows a failure |

`journal.old` is a history variable: the installation in which the journal was
written.  `NoUpdate` may always happen, because the network may fail.  A process
slot stands for processes one after the other; the files of a transaction have
unique names, of which a slot's current or last process has one set, because a
journal names no others.

Nothing keeps two processes from judging the same stale lock: the slower one may
remove the lock that the faster one has just created, or that of a third.  Three
variables that no guard reads tell what has happened.  `outrun` has the processes
that are about to remove a lock although the stale one they have seen is gone, or
although its maker may still run (it was blank for 30 minutes).  `raced` says that
one of them has removed the lock of a live process.  `disturbed` says that a process
has left a publication, by its end, a kill or the rollback of a journal that already
says committed, in a state that the next recovery does not turn into the old
installation (`HalfUndone`): `rollback_journal_paths` removes what has neither a
staged file nor a backup, so a path that was already restored is deleted.
`Exclusive` claims nothing after `raced`; the other three claim nothing after
`raced` or `disturbed` (`Calm`).  All that the model forbids is forbidden without
them: with or without a race the actions are the same, and `raced` and `disturbed`
are never reset.

Left out are the reuse of the process id of a dead owner, which would make its lock
look live, errors in the removal of a lock file, and a process id of which
`kill(pid, 0)` can tell nothing (Linux and macOS always tell).

## Runs

| run | shows | bounds |
| --- | --- | --- |
| `push_safety` | the six safety and refinement properties of `TursoPush` | two Macs, four events, pages of two, one interruption; copies across Macs and inside one store, a raw key, a withheld event |
| `database` | each event is found, and once; a projection that is ready has the whole snapshot; what is recorded gets in | one Mac, three events (in the snapshot, uploaded, both), batches and pages of one, two interruptions of the projection or of pushes |
| `import` | `NothingLeftBehind`, `EventuallyUploaded` | one host, four sources (whole, Codex tree, whole, Claude tree), the first and the last file always failing, files moved into a whole source, an adopted snapshot of three files, chunks of one, two ticks, one error |
| `hooks` | exclusion, accounting and service of requests | three workers, two sources (one with two directories), two attempts and two failures (enough for a worker to give up), one killed process |
| `service` | exclusion; no starvation; eventual upload | one worker and the service, two targets, a defer limit of two cycles, one kill, one expired token |
| `local_import` | what is not pending is imported; checkpoints cover only what is; everything that can gets there; imports come to rest | two processes; two files of two lines at first, the first in up to two versions and three lines, so that it may come to conflict with what is stored of it and stop the second; both kinds of half lines; two changes to files; one kill or failure |
| `bulk_search` | settings are kept, not switched on during an import, and restored in the end | two connections, two tables with different settings, one merge of work for each, two writes, one reader, two failures |
| `daemon` | one daemon; its files are its own; it ends only when idle; searches become semantic | two daemons, one search that repeats, one process of an earlier version, one batch, two attempts at the lock, one kill or failure |
| `index` | the cursor passes over nothing; recent documents, and all, are embedded in the end | five documents (one imported late, one of two embeddings), pages of two, budgets of two, two changes, one kill, restart or pass that embeds nothing in time |
| `upgrade` | exclusion; a binary to run; all or nothing (refinement of `Installation`); recovery in the end | two process slots, two releases, an installation with or without a runtime; two kills and two errors, at most three of them together (`FewTroubles`); behaviours end with a race (`Unraced`), after which nothing is claimed |

Two Macs are enough for the upload because they meet in the database only, two
at a time: a key has one owner and one competitor; the proofs cover any number.
Two pages are the least that makes a cursor matter.  One interruption gives one
late transaction, which can land before, between or after the steps of the retry
and of the other Mac.  Two time stamps are the least in which a file is older
than, as old as and newer than a checkpoint.  Three workers are the least in
which one runs, one waits and one places a marker; the code's three attempts
differ from two only in their number.  Two slots give a dead owner and two
processes that find its lock, since a slot is used again; two kills and two
errors let a recovery meet what an earlier recovery, or a failed one, has left.
Three lines are a header, an event that a checkpoint covers and one that a tail
finds.  Five documents give a page that is full, one behind it and one imported
between.  The safety of uploads, imports, hooks, bulk mode and the daemon is proved
for any number besides.

`CHECK_DEADLOCK FALSE` appears in `Hooks.cfg`, where every worker ends and no
further request comes, and in `Upgrade.cfg`, where an installation that has lost its
binary in a half-done rollback can start no command any more.  In the other
configurations there is always a step: a push, a run, a cycle or a search can begin.

### Disagreements the runs show

Two runs check one property each, taken from a document, a message or a test of
the repository, and TLC finds a counterexample; `PROJECT.json` quotes the text.

| run | what happens |
| --- | --- |
| `import_shared_path` | Macs with equal paths share a checkpoint: the second one never uploads its older files |
| `index_starts_over` | the backfill cursor takes the time of the last reply, the selection of a page the time of the message (`indexing.rs:122`, `projections.rs:374`, `1861`): when the oldest message has a later reply its page comes again for ever, the cursor never starts over, and a document imported behind it is never embedded |

The passing runs make assumptions that the code does not enforce.  What happens
without them is seen by changing a constant, or by claiming a property without its
exception:

| change | property that fails | what happens |
| --- | --- | --- |
| `LiveIndex = TRUE` in `PushSafety.cfg` | `OneRowPerProviderEvent` | a push of an index in use exports an event of a session it has not read without a key, next to its copy (`turso.rs:845`, `1090`) |
| two events with one UUID and two keys | `ClaimsBacked` | the key of the second is claimed, its row is dropped, later copies are skipped (`turso.rs:929-971`) |
| the properties for what is in `skipped` or `crossed`, too | `ProjectionReady`, `EachFoundOnce` | an upload with a higher id moves the position of the projection, which ends early; an uploaded row behind a position that was read before gets a second search row (`turso.rs:770`, `784`, `798`) |
| `QuietWriters = FALSE` | `NothingLeftBehind` | an event written just before the checkpoint's time stamp is never uploaded from a tree (`turso.rs:731`; `docs/cli-reference.md:100-102` says that each execution performs a complete scan, so that no new event can be skipped) |
| `MovesFiles` includes a tree | `NothingLeftBehind` | a file moved into a tree keeps its old time and is never uploaded (`turso.rs:522`) |
| `AdoptsWhole = FALSE` | `NothingLeftBehind` | adoption covers all sources as they are now: an event that the snapshot lacks is hidden (`turso.rs:421`, `121`) |
| a failing tree before other sources: `Format <- ClaudeThenWhole`, `FilesOf <- TwoFiles`, `MaxLen <- TwoLengths`, `NSources = 2`, `Broken = {1}` | `EventuallyUploaded` | it ends the run in front of the others, every time (`import.rs:1034`, the `?`; `docs/provider-import-policy.md:15-17` says that one source does not stop another) |
| `NothingSkipped` and `CheckpointHonest` for the files in `torn`, too | both | half a line without the marks of an event is passed over, the checkpoint covers it, and its end is never read as a line (`session.rs:298-334`; `docs/testing-taxonomy.md:41-44`); the hash of a checkpoint is taken after the import, of a file that has been rewritten meanwhile (`commands/import/catalog.rs:186-219`) |
| the liveness properties of `LocalImport` without `Stopped` | both | a session that was imported and rewritten ends every run, before the others (`commands/import/catalog.rs:131-139`) |
| `Exclusive` without `raced` | `Exclusive` | two processes judge the lock of a dead one; the slower removes the lock that the faster has just created, and both upgrade (`state.rs:111`, `command.rs:463`; the test in `upgrade.rs:927` expects one) |
| `AllOrNothing` without `disturbed`, one kill | `AllOrNothing` | a recovery is killed after it has restored a path; the next one takes the restored file, which has no backup any more, for a new one and deletes it (`install.rs:816`; `tests/upgrade.rs:343`, `383`, `388`) |
| `AllOrNothing` without `disturbed`, errors | `AllOrNothing` | the first journal write fails at the fsync after its rename (`install.rs:612-619`), or the runtime cannot be restored: the journal stays, `apply_artifact` removes the staged files, and the next recovery deletes the old binary and marker (`install.rs:111-117`, `816`) |
| `BinaryRunnable` without `disturbed` | `BinaryRunnable` | a rollback is killed between the removal of the new binary and the restoration of the old one (`install.rs:1122-1160`, `805-816`): there is no `ctx` to recover with |

Read, and outside what the modules distinguish:

- Rejected records: `complete` is called whatever the summary of a source says
  (`import.rs:1035`), while `docs/provider-import-policy.md:23-25` lets
  checkpoints advance only when there are no rejections.
- `ctx turso search` in a database with a snapshot and no projection reads only
  the snapshot (`remote_layout`, `turso.rs:1730-1740`), so that uploads are not
  found; `show session` of a session in the snapshot leaves out what was uploaded
  later (`remote_snapshot_session`); and an upload of a snapshot event under
  another UUID is found beside it, since the events of a snapshot claim no key
  (`README.md:211-212` says that copies are deduplicated).
- `IndexAssumption` excludes a document that takes more embeddings than a pass may
  make (`Chunks[d] > MaxChunks`) and a budget smaller than a batch: both block the
  backfill for ever.  `AllEmbedded` supposes that no vector stays outdated: of
  messages with equal positions pruning looks at no more than `PruneLimit`, so
  that the vectors of others may stay although their text has changed.
- After every tail with content a Codex file stays pending and is imported whole
  once more, since a tail stores the file's own path as `source_root`
  (`session.rs:483`; `fast_import.rs:210`; store `catalog.rs:897-909`).  `LocalImport`
  has this (`root`), and `EventuallySettled` shows that it ends.

### Fairness

- `TursoPush` and `SnapshotProjection`: a started projection goes on and is started
  until it is ready; a started push goes on (weak fairness of its steps); an
  import is started again and again whatever pushes are run in between (strong
  fairness), which is the service and the watch loop.  Nothing makes agents
  record, users push, the network fail or late transactions arrive.
- `RemoteImport`: the clock moves; a run goes on; a stopped command is started
  again (launchd's `KeepAlive`).  Errors are finite.
- `HookSync`: a process that can run does.  A worker that waits for the lock gets
  it when it stays free: weak fairness, which the finite number of requests makes
  enough.
- `AutoSync`: the same, and the service's loop goes on.  Requests, writes, kills
  and expired tokens owe nothing; failures are finite.
- `LocalImport`: a process that has begun goes on, and imports are repeated (the
  refresh of a search, the daemon, the hooks): weak fairness of the steps of each
  process.  Writes, kills and failures owe nothing and are finite.
- `BulkSearch`: a connection goes on and the store is opened again; a reader ends.
- `QueryDaemon`: threads go on; the idle time elapses if the daemon comes to wait
  again and again, and a waiting window of a search ends, possibly without a
  fault (strong fairness, since other steps disable them); an incomplete lock
  file grows old.
- `SemanticIndex`: the worker runs again and again, and now and then a pass comes
  to its deadline after it has embedded something: the jobs of the daemon.
- `Upgrade`: a command that runs goes on, and commands are run again while there
  is a binary (weak fairness of the steps of each slot): the interval of the
  background check, or the user.  Time passes over a blank lock (`Age`).  Kills and
  errors are finite; nothing makes releases appear.

## Proofs

The theorems hold for every value of the constants that meets the `ASSUME` of the
module they are about, and the further assumption named here.

| module | theorem | property | further assumption |
| --- | --- | --- | --- |
| `TursoPushProof` | `TypeCorrect` | `TypeOK` | none |
| | `Invariance` | the inductive invariant `IInv` | pushes read snapshots |
| | `Deduplication` | `OneRowPerProviderEvent` | pushes read snapshots |
| | `SearchConsistency` | `SearchExact` | pushes read snapshots |
| | `ClaimSafety` | `ClaimsBacked` | pushes read snapshots; a UUID determines its key |
| | `Retention` | `NoRetraction` | pushes read snapshots |
| | `ScanComplete` | `ScannedMerged` | pushes read snapshots; a UUID determines its key |
| | `Refinement` | `ImplementsTimeline` | pushes read snapshots |
| | `DatabaseInvariance` | the inductive invariant `DatabaseInv` | none |
| | `AlwaysFoundOnce` | `EachFoundOnce` | none |
| | `ReadyIsComplete` | `ProjectionReady` | none |
| `RemoteImportProof` | `ImportTypeCorrect` | `TypeOK` | none |
| | `ImportInvariance` | the inductive invariant `ImportInv` | `Honoured` |
| | `NothingLeftBehindAlways` | `NothingLeftBehind` | `Honoured` |
| `AutoSyncProof` | `HookInvariance` | the inductive invariant `HookInv` | none |
| | `HookTypeCorrect` | `TypeOK` | none |
| | `ImportsAlwaysExclusive` | `ImportsExclusive` | none |
| | `NoRequestStranded` | `NoStrandedRequest` | none |
| | `RequestsAlwaysAccounted` | `RequestsAccounted` | `Disjoint` |
| | `SyncInvariance` | the inductive invariant `SyncInv` | none |
| | `ServiceTypeCorrect` | `ServiceTypeOK` | none |
| | `SyncImportsExclusive` | `ImportsExclusive` | none |
| | `SyncStrandsNothing` | `NoStrandedRequest` | none |
| `LocalImportProof` | `LocalInvariance` | the inductive invariant `LocalInv` | none |
| | `LocalTypeCorrect` | `TypeOK` | none |
| | `NothingSkippedAlways` | `NothingSkipped` | none |
| | `CheckpointAlwaysHonest` | `CheckpointHonest` | none |
| `BulkSearchProof` | `BulkInvariance` | the inductive invariant `BulkInv` | none |
| | `SettingsAlwaysKept` | `SettingsKept` | none |
| | `ImportAlwaysUndisturbed` | `ImportUndisturbed` | none |
| | `RestoredOnlyWhenTruncated` | `RestoredWhenTruncated` | none |
| `QueryDaemonProof` | `OneDaemonAlways` | `OneDaemon` | none |
| | `ServiceReachableAlways` | `ServiceReachable` | none |
| | `AdmittedServedAlways` | `AdmittedServed` | none |
| | `DaemonTypeCorrect` | `TypeOK` | none |
| | `LegacyAlwaysKept` | `LegacyKept` | none |
| | `IdleAlwaysExact` | `IdleExact` | none |
| `SemanticIndexProof` | `PassedAlwaysEmbedded` | `PassedIsEmbedded` | none |
| `UpgradeProof` | `Exclusion` | `Exclusive` | none |
| | `TypesKept` | `TypeOK` | none |
| | `DiskInvariance` | the inductive invariant `DiskInv`, with those of the lock and the types | none |
| | `AlwaysRunnable` | `BinaryRunnable` | none |
| | `Atomicity` | `AllOrNothing` | none |

`Honoured` says that Macs have checkpoint keys of their own, writers are quiet
while a checkpoint is stored, no file moves into a tree and snapshots are adopted
whole.  These are rows of the table of changed constants above: the theorems are
false without them.  `Disjoint` says that no two sources of
the hooks have a directory in common, as is so in the script: what an
agent writes there would otherwise count as unread for both, while its session end
marks one of them.

**Uploads.**  None of the properties of `TursoPush` is inductive.  A batch was built
from a lookup that is
out of date when it runs, so the argument cannot use the lookup at all: it uses
that the transaction itself claims keys first and stores a row only for the
owner of its key.  `IInv` says

- `LocalOK`: a page comes from the store of its push, whose sessions are known;
- `BatchesOK`: every transaction in flight, late ones included, carries events
  of its Mac that may be exported, each with its own key (this needs `LocalOK`);
- `KeysOK`: a key is claimed once;
- `RowsOK`: a row has its event's key and the claim on it, and a UUID has one row;
- `SearchOK`: one search row for every row.

`ApplyKeys`, `ApplyRows` and `ApplySearch` show that any such transaction, at any
time, keeps the last three; `StepInvariance` goes through the actions.  Two rows
of one provider event then have the same key, hence the same claim, the same
UUID and are the same row (`OneRow`).  In the refinement, `Commit` and
`DeliverLate` are `Merge`, `Record` is `Record`, everything else stutters.

`ScanComplete` needs that nothing falls between two pages.  `CommitCovers` says that a
transaction about to run carries every event of its page that may be exported and is
not merged yet, and `PageIsInitial` that a page has all there is before its last event;
`ClaimsBacked` turns the keys that a lookup found into rows.

**The projection.**  A run goes on behind the highest id that the table has,
whoever put it there, which is right only because of `CopiedSoFar`: what of the
snapshot is neither copied nor skipped lies behind all rows, so that the next batch
takes it in order.  An upload of a higher id breaks this for the ids below it,
which are then in `skipped`.  `Copying` follows the position: while a batch is prepared
only uploads in `crossed` get behind it, and when the highest id has not moved after a
batch, the batch had nothing to copy (`AllCopied`).  A copied event may get more than one search row
when a run is interrupted or an upload brings it again, which no search
sees since it leaves out the projected rows of the snapshot; the invariant says that
it has at least one (`CopiedSearchable`), and every other row exactly one
(`OthersOnce`).  The proof needs that a snapshot is finite, which
`SnapshotAssumption` says.

**Remote imports.**  A checkpoint is written long after the files it covers were
read.  `ImportInv` therefore says of each stage what the checkpoint that comes out
of it will cover: `CheckpointsHonest` (stored), `LateHonest` (a write whose answer
was lost), `PendingSafe` (in the map of a run: what is older than the fingerprint
is uploaded, in the Store or still in the queue), `RunSafe` (about to be written).

**Hooks and service.**  `PlaceInv` ties each worker's place to the lock and to the
markers it is after, and each import to an owner that waits for it or is dead, so
that imports are as many as orphans and holders of the lock (`FewOrphans`).  For
requests it is not enough that workers outnumber markers, since a worker that
takes a marker may end at its first failure: `MarkersCovered` counts only workers
that have yet to take one (`Owing`), of which every request brings its own, before
its marker can be taken by another.  `ReadUpTo` says that what a worker has passed
has been read or has been asked for again, so that only a kill loses what was in
hand.  The lemmas about `HookNext` allow an import of the service; `AutoSyncProof`
adds that the service has the lock while it imports and that its steps leave
markers and workers alone, which keeps the same counts.

**Local imports.**  The properties tie a row to the file as it is now, which an
agent may change at any step.  `RowHonest` says instead that the text under a checkpoint
is in the store, whatever the file is, and that it is the beginning of the file as
long as the file has the version that was indexed.  `TailFits` and `MarkFits` say that
what a tail leaves out, and what is about to be marked, is in the store already, of
files that are not torn.  A rewritten file has a version that no row and no
process has seen (`RowPast`, `ProcPast`), so that nothing is claimed of it.  Growth keeps
the beginning (`Grows`).  A store that leaves out lines whose place is taken has every line
it was given when there is no clash (`StoreKeeps`).  The lock of the imports is not
needed.

**Bulk mode.**  `Owned` says who has the lock at which point, `Protected` that a
connection that imports works under a marker and suppressed settings, `Marked` and
`Emptied` that who is at the restoration has seen the log empty.

**The daemon.**  `FlockHeld` and `LockKept` follow the flock and the metadata through
the protocol, `FilesOwned` shows that endpoint and socket belong to whoever is in
charge, `ThreadInside` that a query thread lives inside the life of its daemon,
which the types need, too.  A daemon may
have the lock file of an earlier version open; `LegacyInv` says that one about to write
has opened a file that has lost its name to it.  `IdleInv` says that a request
which came after the idle clock was started is still served or has left its
mark.

**The semantic index.**  `PassedIsEmbedded` is about the cursor, which moves at the end
of a batch, while vectors are written chunk by chunk and documents change in
between.  The rest of `IndexInv` speaks of the batch under way: its page begins
at the cursor (`Follows`) and has, but for what has changed, all the documents before
its last one, in order (`PageRead`); what was read is so still or has changed
(`Fresh`); and what counts as consumed, which is an initial part of the batch, has its
vectors (`Counted`).  `Pages` and `FirstFacts` say what the
queries with `ORDER BY ... LIMIT` return; they need finitely many documents, which
`IndexAssumption` says.

**Upgrades.**  `LockInv` says that until a race whoever recovers or publishes owns
the lock, and that whoever is about to remove a lock has seen that of a dead
process, which is still there, or is in `outrun`.  So a removal by a process that is
not outrun takes nothing from anybody, and one by a process that is sets `raced` if
there was something to take.  `InsideSteps` sorts out the actions that happen under
the lock and leave it alone; `LockStep` goes through the others.  `TypesKept` does
not need exclusion: a recovery works from the journal it has read, whatever others
do to the file meanwhile.

A path under publication is `Untouched`, `Saved` or `Placed`, which the recovery
tells apart by what lies where (`Recoverable`).  While things are calm, `DiskInv` says
that every path of a publishing journal is in one of these states when nobody is at
work, and otherwise what the process at work has made of them: `Publishes` (its memory
agrees with the disk, and what is staged or in place is of one release, no older than
the old one), `Undoes` and `Reverts` (the paths behind it are restored, or it
remembers that one could not be, and those before it are not touched yet).
`HolderKeeps` reduces each step under the lock to what it does to one path; `UndoOne`
and `RevertOne` are the two rollbacks.  What an end or a kill leaves is `Loose` for
every path (`AllLoose`), whatever the process was at, and if it is not `HalfUndone`
then the next recovery can go on from it (`LooseRecoverable`): that is how
`EndsKeeps` deals with kills at every step, those of a rollback included.
`CalmBefore` says that a race or a disturbance is never forgotten.  `Atomicity` is
the refinement: what counts as installed is the old content until the journal is
committed, so that `Commit` is `Installation`'s `Upgrade` (`AllPlaced`), the first
race or disturbance its `Damage`, and every other step stutters.

The type invariants are proved and, but for `ServiceTypeOK`, in no run.
`SnapshotProjection` has one only as part of `DatabaseInv`, `SemanticIndex` as part of
`IndexInv`.

Every invariant and action property that a run checks is a theorem now.
Model-checked only: the liveness properties, since fairness and ENABLED are beyond
the prover, and the runs without the further assumptions, where some of the
properties are false.

## Plan

1. Local search projection: `refresh_search_index` and the version of the projection
   against imports of other processes.
2. `TursoPush`: `--limit` and `--after-event-id`; the layouts that `search` and `show`
   choose from.
3. Catalogs of other providers: manifests without checkpoints, whole imports.
4. Proofs: `RemoteImport`'s `Persist` and `HookSync`'s import interval as
   abstractions of `TursoPush` and `RemoteImport`, stated as refinements; today the
   README argues for them.
