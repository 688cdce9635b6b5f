------------------------------ MODULE Upgrade ------------------------------
(***************************************************************************)
(* crates/ctx-cli/src/upgrade on Unix: `ctx upgrade` replaces three paths  *)
(* (runtime, binary, marker) under a lock file and with a journal.  The    *)
(* journal is written before the first path is touched ("publishing") and  *)
(* again when all are in place ("committed"); whoever takes the lock next  *)
(* and finds a journal undoes a publishing and finishes a committed one.   *)
(* Every system call that changes a path is a step of its own, and a       *)
(* process may be killed or get an error at each of them.  Removing a      *)
(* stale lock and creating a new one are two calls, and so are creating a  *)
(* lock and writing its owner into it.                                     *)
(*                                                                         *)
(* The content of a path is the release it comes from, 0 if it is absent.  *)
(* The files of a transaction have unique names: staged[p] and backup[p]   *)
(* are those of the current, or else of the last, process of slot p.       *)
(* Variables that no guard reads record what happened: a process removed   *)
(* the lock of another that still ran (raced), and a publication was left  *)
(* that can not be undone any more (disturbed).                            *)
(***************************************************************************)
EXTENDS Naturals, Sequences, FiniteSets

CONSTANTS
  Processes,       \* slots in which ctx processes run one after the other
  NoOne,           \* the lock when there is no upgrade.lock
  Dead,            \* the lock when its file names a process that is gone
  Latest,          \* bound on the releases
  MaxCrashes,      \* bound on killed processes
  MaxFaults        \* bound on system calls that fail

ASSUME UpgradeAssumption ==
  /\ {NoOne, Dead} \cap Processes = {}
  /\ NoOne # Dead
  /\ Latest \in Nat \ {0}
  /\ {MaxCrashes, MaxFaults} \subseteq Nat

Order == <<"runtime", "binary", "marker">>
Artifacts == {"runtime", "binary", "marker"}
Releases == 1 .. Latest
Content == Releases \cup {0}
Absent == [a \in Artifacts |-> 0]

VARIABLES
  release,    \* the newest release that is published
  lock,       \* upgrade.lock: NoOne, Dead, or the process that made it
  stamp,      \* what is in it: "written", or nothing, "blank" and in time "aged"
  target,     \* target[a]: what is at a's place in the installation
  staged,     \* staged[p][a]: the new content, next to it
  backup,     \* backup[p][a]: the old content, next to it
  previous,   \* the durable backup of the binary
  journal,    \* the journal; old is the installation it was written in
  pc,         \* pc[p]: where the process of slot p is
  at,         \* at[p]: index into Order of the path it is at
  tries,      \* tries[p]: how often it has tried to create the lock
  running,    \* running[p]: the release it was started from
  had,        \* had[p]: artifacts with had_previous
  published,  \* published[p]: artifacts with published
  failed,     \* failed[p]: some path could not be rolled back
  read,       \* read[p]: the journal that p recovers
  crashes,    \* number of killed processes
  faults,     \* number of failed system calls
  outrun,     \* processes about to remove a lock that is not, or not certainly,
              \* the stale one they have seen
  raced,      \* one of them has removed the lock of a process that runs
  disturbed   \* a publication was left that can not be undone any more

paths == <<target, staged, backup, previous>>
memory == <<had, published, failed, read>>
history == <<outrun, raced, disturbed>>
vars == <<release, lock, stamp, paths, journal, pc, at, tries, running, memory,
          crashes, faults, history>>

NoJournal == [phase |-> "none"]

Init ==
  /\ release = 1
  /\ lock = NoOne
  /\ stamp = "written"
  /\ target \in {[a \in Artifacts |-> IF a = "runtime" THEN r ELSE 1] : r \in {0, 1}}
  /\ staged = [p \in Processes |-> Absent]
  /\ backup = [p \in Processes |-> Absent]
  /\ previous = 0
  /\ journal = NoJournal
  /\ pc = [p \in Processes |-> "idle"]
  /\ at = [p \in Processes |-> 0]
  /\ tries = [p \in Processes |-> 0]
  /\ running = [p \in Processes |-> 0]
  /\ had = [p \in Processes |-> {}]
  /\ published = [p \in Processes |-> {}]
  /\ failed = [p \in Processes |-> FALSE]
  /\ read = [p \in Processes |-> NoJournal]
  /\ crashes = 0
  /\ faults = 0
  /\ outrun = {}
  /\ raced = FALSE
  /\ disturbed = FALSE

Path(p) == Order[at[p]]

Goto(p, label, i) ==
  /\ pc' = [pc EXCEPT ![p] = label]
  /\ at' = [at EXCEPT ![p] = i]

\* A system call succeeds, or one of the bounded number of faults occurs.
Outcome(ok) == IF ok THEN UNCHANGED faults
                     ELSE faults < MaxFaults /\ faults' = faults + 1

Staged(tx, a) == staged[tx][a] # 0
BackedUp(tx, a) == backup[tx][a] # 0
InPlace(a) == target[a] # 0

\* p has made the lock and has not dropped it.
Holding(p) == pc[p] \notin {"idle", "open", "judge", "takeover"}

\* A publication that the next recovery does not turn back into the old
\* installation: it removes an old content whose backup and staged successor
\* are gone, and without a binary there is nobody to recover.
HalfUndone ==
  /\ journal.phase = "publishing"
  /\ \E a \in Artifacts :
       /\ ~Staged(journal.tx, a)
       /\ \/ ~BackedUp(journal.tx, a) /\ journal.old[a] # 0
          \/ a = "binary" /\ ~InPlace(a)

\* The memory of a process is gone when it ends.
Ends(p) ==
  /\ Goto(p, "idle", 0)
  /\ tries' = [tries EXCEPT ![p] = 0]
  /\ running' = [running EXCEPT ![p] = 0]
  /\ had' = [had EXCEPT ![p] = {}]
  /\ published' = [published EXCEPT ![p] = {}]
  /\ failed' = [failed EXCEPT ![p] = FALSE]
  /\ read' = [read EXCEPT ![p] = NoJournal]
  /\ disturbed' = (disturbed \/ (Holding(p) /\ HalfUndone))

unlocked == <<release, paths, journal, memory, crashes, disturbed>>
inner == <<release, lock, stamp, tries, running, crashes, outrun, raced>>
kept == <<inner, previous, disturbed>>

-----------------------------------------------------------------------------
(* The world around: releases appear, time passes, commands are run. *)

Publish ==
  /\ release < Latest
  /\ release' = release + 1
  /\ UNCHANGED <<lock, stamp, paths, journal, pc, at, tries, running, memory,
                 crashes, faults, history>>

\* STALE_UPGRADE_LOCK_AFTER, 30 minutes, have passed since the lock was made.
Age ==
  /\ lock # NoOne
  /\ stamp = "blank"
  /\ stamp' = "aged"
  /\ UNCHANGED <<release, lock, paths, journal, pc, at, tries, running, memory,
                 crashes, faults, history>>

\* `ctx upgrade`, or a command that finds a check due, runs the binary.
Start(p) ==
  /\ pc[p] = "idle"
  /\ target["binary"] # 0
  /\ Goto(p, "open", 0)
  /\ tries' = [tries EXCEPT ![p] = 1]
  /\ running' = [running EXCEPT ![p] = target["binary"]]
  /\ UNCHANGED <<lock, stamp, faults, outrun, raced, unlocked>>

-----------------------------------------------------------------------------
(* UpgradeLock::acquire. *)

\* The process ends without the lock.
GiveUp(p) ==
  /\ Goto(p, "idle", 0)
  /\ tries' = [tries EXCEPT ![p] = 0]
  /\ running' = [running EXCEPT ![p] = 0]

\* create_new: the lock is taken if there was no file, and is blank at first.
Open(p) ==
  /\ pc[p] = "open"
  /\ IF lock = NoOne
     THEN lock' = p /\ stamp' = "blank" /\ Goto(p, "name", 0)
     ELSE UNCHANGED <<lock, stamp>> /\ Goto(p, "judge", 0)
  /\ UNCHANGED <<unlocked, tries, running, faults, outrun, raced>>

\* p writes its process id into the file that it has made.  If that fails it
\* ends, and nobody removes the file.
Name(p) ==
  /\ pc[p] = "name"
  /\ \E ok \in BOOLEAN, filled \in BOOLEAN :
       /\ Outcome(ok)
       /\ stamp' = IF lock = p /\ (ok \/ filled) THEN "written" ELSE stamp
       /\ IF ok
          THEN Goto(p, "recover", 0) /\ UNCHANGED <<lock, tries, running>>
          ELSE GiveUp(p) /\ lock' = IF lock = p THEN Dead ELSE lock
  /\ UNCHANGED <<unlocked, outrun, raced>>

\* Faulty: nobody asks whether the process that a lock names still runs.
AnyLockIsStale == lock # NoOne

\* Faulty: only its owner removes a lock.
NoLockIsStale == FALSE

\* A lock is stale if the process it names is gone or, if it names none, after
\* 30 minutes.  A file that has disappeared since is not stale: the command
\* reports that the lock is held.
StaleUpgradeLock ==
  /\ lock # NoOne
  /\ IF stamp = "written" THEN lock = Dead ELSE stamp = "aged"

Judge(p) ==
  /\ pc[p] = "judge"
  /\ IF StaleUpgradeLock
     THEN /\ Goto(p, "takeover", 0)
          /\ outrun' = IF stamp = "aged" /\ lock # Dead THEN outrun \cup {p} ELSE outrun
          /\ UNCHANGED <<tries, running>>
     ELSE GiveUp(p) /\ UNCHANGED outrun
  /\ UNCHANGED <<lock, stamp, unlocked, faults, raced>>

\* remove_file removes whatever file is there by now.
Takeover(p) ==
  /\ pc[p] = "takeover"
  /\ lock' = NoOne
  /\ stamp' = "written"
  /\ outrun' = {q \in Processes \ {p} : q \in outrun \/ pc[q] = "takeover"}
  /\ raced' = (raced \/ (p \in outrun /\ lock \in Processes))
  /\ IF tries[p] < 2
     THEN /\ Goto(p, "open", 0)
          /\ tries' = [tries EXCEPT ![p] = @ + 1]
          /\ UNCHANGED running
     ELSE GiveUp(p)
  /\ UNCHANGED <<unlocked, faults>>

\* The guard of the lock goes out of scope, and the process ends: the file is
\* removed by its name.
Drop(p) ==
  /\ pc[p] = "drop"
  /\ lock' = NoOne
  /\ stamp' = "written"
  /\ Ends(p)
  /\ UNCHANGED <<release, paths, journal, crashes, faults, outrun, raced>>

-----------------------------------------------------------------------------
(* recover_interrupted_install, with the files that the journal names. *)

\* The journal is read once, and gone from memory when p is through with it.
ReadJournal(p) ==
  /\ read' = [read EXCEPT ![p] = journal]
  /\ UNCHANGED <<kept, target, staged, backup, journal, had, published, failed,
                 faults>>

\* Faulty: the phase of a journal is not looked at.
RecoverForward(p) ==
  /\ pc[p] = "recover"
  /\ IF journal = NoJournal THEN Goto(p, "plan", 0) ELSE Goto(p, "finish", 1)
  /\ ReadJournal(p)

Recover(p) ==
  /\ pc[p] = "recover"
  /\ \/ journal.phase = "none" /\ Goto(p, "plan", 0)
     \/ journal.phase = "publishing" /\ Goto(p, "undo", 3)
     \/ /\ journal.phase = "committed"
        /\ IF \A a \in Artifacts : InPlace(a) /\ ~Staged(journal.tx, a)
           THEN Goto(p, "finish", 1)
           ELSE Goto(p, "drop", 0)
  /\ ReadJournal(p)

\* rollback_journal_paths, from the last path to the first.  What is there
\* tells how far the publication of a path had come.  After the removal of a
\* new file over a backup the same test leads on to the restoration.
Undo(p) ==
  LET a == Path(p)
      tx == read[p].tx
  IN
  /\ pc[p] = "undo"
  /\ \/ /\ BackedUp(tx, a) /\ Staged(tx, a) /\ InPlace(a)
        /\ IF a = "runtime"
           THEN Goto(p, "drop", 0) /\ UNCHANGED backup
           ELSE /\ Goto(p, "clean", at[p])
                /\ backup' = [backup EXCEPT ![tx][a] = 0]
        /\ UNCHANGED target
     \/ /\ BackedUp(tx, a) /\ ~Staged(tx, a) /\ InPlace(a)
        /\ target' = [target EXCEPT ![a] = 0]
        /\ UNCHANGED <<backup, pc, at>>
     \/ /\ BackedUp(tx, a) /\ ~InPlace(a)
        /\ target' = [target EXCEPT ![a] = backup[tx][a]]
        /\ backup' = [backup EXCEPT ![tx][a] = 0]
        /\ Goto(p, "clean", at[p])
     \/ /\ ~BackedUp(tx, a)
        /\ target' = [target EXCEPT ![a] = IF Staged(tx, a) THEN @ ELSE 0]
        /\ Goto(p, "clean", at[p])
        /\ UNCHANGED backup
  /\ UNCHANGED <<kept, staged, journal, memory, faults>>

\* The staged content of the path goes last.
Clean(p) ==
  /\ pc[p] = "clean"
  /\ staged' = [staged EXCEPT ![read[p].tx][Path(p)] = 0]
  /\ IF at[p] > 1 THEN Goto(p, "undo", at[p] - 1) ELSE Goto(p, "erase", 0)
  /\ UNCHANGED <<kept, target, backup, journal, memory, faults>>

\* The backup of a is not needed any more; that of the binary is kept.
DiscardBackup(tx, a) ==
  /\ previous' = IF a = "binary" /\ backup[tx][a] # 0 THEN backup[tx][a] ELSE previous
  /\ backup' = [backup EXCEPT ![tx][a] = 0]

\* finish_committed_journal.
Finish(p) ==
  /\ pc[p] = "finish"
  /\ DiscardBackup(read[p].tx, Path(p))
  /\ IF at[p] < 3 THEN Goto(p, "finish", at[p] + 1) ELSE Goto(p, "erase", 0)
  /\ UNCHANGED <<inner, disturbed, target, staged, journal, memory, faults>>

Erase(p) ==
  /\ pc[p] = "erase"
  /\ journal' = NoJournal
  /\ read' = [read EXCEPT ![p] = NoJournal]
  /\ Goto(p, "plan", 0)
  /\ UNCHANGED <<kept, target, staged, backup, had, published, failed, faults>>

-----------------------------------------------------------------------------
(* apply_upgrade and apply_artifact up to the first journal. *)

\* The install marker holds the hash of the binary at the install path, and
\* the newest release is newer than the program that asks.
UpdateAvailable(p) ==
  /\ target["marker"] = target["binary"]
  /\ release > running[p]

Stage(p) ==
  /\ pc[p] = "plan"
  /\ UpdateAvailable(p)
  /\ staged' = [staged EXCEPT ![p] = [a \in Artifacts |-> release]]
  /\ backup' = [backup EXCEPT ![p] = Absent]
  /\ Goto(p, "prepared", 0)
  /\ UNCHANGED <<kept, target, journal, memory, faults>>

\* Up to date, unmanaged, dry run, no network, or a rejected artifact.
NoUpdate(p) ==
  /\ pc[p] = "plan"
  /\ Goto(p, "drop", 0)
  /\ UNCHANGED <<kept, target, staged, backup, journal, memory, faults>>

-----------------------------------------------------------------------------
(* replace_binary. *)

\* write_install_transaction: a temporary file, a rename, an fsync of the
\* directory, whose failure comes after the rename.
WriteInstallTransaction(p, phase, written) ==
  journal' = IF written THEN [tx |-> p, phase |-> phase, old |-> target]
                        ELSE journal

WriteJournal(p) ==
  /\ pc[p] = "prepared"
  /\ \E ok \in BOOLEAN, renamed \in BOOLEAN :
       /\ Outcome(ok)
       /\ WriteInstallTransaction(p, "publishing", ok \/ renamed)
       /\ IF ok THEN Goto(p, "backup", 1) ELSE Goto(p, "sweep", 0)
  /\ UNCHANGED <<kept, target, staged, backup, memory>>

\* A backup that is there, or a new content that is not, or a directory in
\* the way of another: p does not go on over what somebody else has done.
Blocked(p) ==
  LET a == Path(p) IN
  IF pc[p] = "backup" THEN BackedUp(p, a)
                      ELSE ~Staged(p, a) \/ (a = "runtime" /\ InPlace(a))

\* Faulty: files are renamed like directories.
BackupByRename(p) ==
  LET a == Path(p) IN
  /\ pc[p] = "backup"
  /\ ~Blocked(p)
  /\ IF InPlace(a)
     THEN /\ backup' = [backup EXCEPT ![p][a] = target[a]]
          /\ target' = [target EXCEPT ![a] = 0]
          /\ had' = [had EXCEPT ![p] = @ \cup {a}]
     ELSE UNCHANGED <<backup, target, had>>
  /\ Goto(p, "rename", at[p])
  /\ UNCHANGED <<kept, staged, journal, published, failed, read, faults>>

\* A file is linked, a directory renamed; an absent path needs no backup.
Backup(p) ==
  LET a == Path(p) IN
  /\ pc[p] = "backup"
  /\ ~Blocked(p)
  /\ IF InPlace(a)
     THEN /\ backup' = [backup EXCEPT ![p][a] = target[a]]
          /\ target' = [target EXCEPT ![a] = IF a = "runtime" THEN 0 ELSE @]
          /\ had' = [had EXCEPT ![p] = @ \cup {a}]
     ELSE UNCHANGED <<backup, target, had>>
  /\ Goto(p, "rename", at[p])
  /\ UNCHANGED <<kept, staged, journal, published, failed, read, faults>>

Rename(p) ==
  LET a == Path(p) IN
  /\ pc[p] = "rename"
  /\ ~Blocked(p)
  /\ target' = [target EXCEPT ![a] = staged[p][a]]
  /\ staged' = [staged EXCEPT ![p][a] = 0]
  /\ published' = [published EXCEPT ![p] = @ \cup {a}]
  /\ IF at[p] < 3 THEN Goto(p, "backup", at[p] + 1) ELSE Goto(p, "commit", 0)
  /\ UNCHANGED <<kept, backup, journal, had, failed, read, faults>>

PublishFails(p) ==
  /\ pc[p] \in {"backup", "rename"}
  /\ IF Blocked(p) THEN UNCHANGED faults ELSE Outcome(FALSE)
  /\ Goto(p, "revert", 3)
  /\ UNCHANGED <<kept, target, staged, backup, journal, memory>>

Commit(p) ==
  /\ pc[p] = "commit"
  /\ \E ok \in BOOLEAN, renamed \in BOOLEAN :
       /\ Outcome(ok)
       /\ WriteInstallTransaction(p, "committed", ok \/ renamed)
       /\ disturbed' = (disturbed \/ (~ok /\ renamed))
       /\ IF ok THEN Goto(p, "discard", 1) ELSE Goto(p, "revert", 3)
  /\ UNCHANGED <<inner, previous, target, staged, backup, memory>>

DiscardOrder == <<"marker", "runtime", "binary">>

Discard(p) ==
  /\ pc[p] = "discard"
  /\ DiscardBackup(p, DiscardOrder[at[p]])
  /\ IF at[p] < 3 THEN Goto(p, "discard", at[p] + 1) ELSE Goto(p, "close", 0)
  /\ UNCHANGED <<inner, disturbed, target, staged, journal, memory, faults>>

Close(p) ==
  /\ pc[p] = "close"
  /\ journal' = NoJournal
  /\ Goto(p, "drop", 0)
  /\ UNCHANGED <<kept, target, staged, backup, memory, faults>>

\* rollback_unix_publication: every path is tried, whatever happens to the
\* others; a new content is removed first, then the old one is restored.
Revert(p) ==
  LET a == Path(p)
      placed == a \in published[p] /\ InPlace(a)
      Onward == IF at[p] > 1 THEN Goto(p, "revert", at[p] - 1)
                             ELSE Goto(p, "forget", 0)
  IN
  /\ pc[p] = "revert"
  /\ \/ /\ placed
        /\ target' = [target EXCEPT ![a] = 0]
        /\ published' = [published EXCEPT ![p] = @ \ {a}]
        /\ UNCHANGED <<backup, had, failed, faults, pc, at>>
     \/ /\ ~placed /\ a \in had[p] /\ BackedUp(p, a)
        /\ target' = [target EXCEPT ![a] = backup[p][a]]
        /\ backup' = [backup EXCEPT ![p][a] = 0]
        /\ had' = [had EXCEPT ![p] = @ \ {a}]
        /\ Onward
        /\ UNCHANGED <<published, failed, faults>>
     \/ /\ ~placed /\ a \notin had[p]
        /\ Onward
        /\ UNCHANGED <<target, backup, had, published, failed, faults>>
     \/ /\ placed \/ a \in had[p]
        /\ IF placed \/ BackedUp(p, a) THEN Outcome(FALSE) ELSE UNCHANGED faults
        /\ failed' = [failed EXCEPT ![p] = TRUE]
        /\ Onward
        /\ UNCHANGED <<target, backup, had, published>>
  /\ UNCHANGED <<kept, staged, journal, read>>

\* The journal goes when every path is back, and stays otherwise.
Forget(p) ==
  /\ pc[p] = "forget"
  /\ \E ok \in BOOLEAN :
       /\ Outcome(ok)
       /\ journal' = IF ok /\ ~failed[p] THEN NoJournal ELSE journal
  /\ Goto(p, "sweep", 0)
  /\ UNCHANGED <<kept, target, staged, backup, memory>>

\* apply_artifact removes what it has staged when replace_binary fails.
Sweep(p) ==
  /\ pc[p] = "sweep"
  /\ staged' = [staged EXCEPT ![p] = Absent]
  /\ Goto(p, "drop", 0)
  /\ UNCHANGED <<kept, target, backup, journal, memory, faults>>

-----------------------------------------------------------------------------
(* Errors and kills. *)

\* An error that ends the command and leaves the journal to the next one.
StepFails(p) ==
  /\ pc[p] \in {"undo", "clean", "finish", "erase", "discard", "close"}
  /\ Outcome(FALSE)
  /\ Goto(p, "drop", 0)
  /\ failed' = [failed EXCEPT ![p] = TRUE]
  /\ UNCHANGED <<kept, target, staged, backup, journal, had, published, read>>

Crash(p) ==
  /\ pc[p] # "idle"
  /\ crashes < MaxCrashes
  /\ crashes' = crashes + 1
  /\ lock' = IF lock = p THEN Dead ELSE lock
  /\ outrun' = outrun \ {p}
  /\ Ends(p)
  /\ UNCHANGED <<release, stamp, paths, journal, faults, raced>>

-----------------------------------------------------------------------------
\* What a process does next when nothing goes wrong.
Step(p) ==
  \/ Start(p) \/ Open(p) \/ Name(p) \/ Judge(p) \/ Takeover(p) \/ Drop(p)
  \/ Recover(p) \/ Undo(p) \/ Clean(p) \/ Finish(p) \/ Erase(p)
  \/ Stage(p) \/ NoUpdate(p) \/ WriteJournal(p) \/ Backup(p) \/ Rename(p)
  \/ Commit(p) \/ Discard(p) \/ Close(p)
  \/ Revert(p) \/ Forget(p) \/ Sweep(p)

Next ==
  \/ Publish
  \/ Age
  \/ \E p \in Processes : Step(p) \/ PublishFails(p) \/ StepFails(p) \/ Crash(p)

Spec == Init /\ [][Next]_vars

FairSpec == Spec /\ WF_vars(Age) /\ \A p \in Processes : WF_vars(Step(p))

-----------------------------------------------------------------------------
(* Properties. *)

Labels == {"idle", "open", "name", "judge", "takeover", "recover", "undo",
           "clean", "finish", "erase", "plan", "prepared", "backup", "rename",
           "commit", "discard", "close", "revert", "forget", "sweep", "drop"}

Records == [tx : Processes, phase : {"publishing", "committed"},
            old : [Artifacts -> Content]]
Journals == Records \cup {NoJournal}

\* Types of all variables.
TypeOK ==
  /\ release \in Releases
  /\ lock \in Processes \cup {NoOne, Dead}
  /\ stamp \in {"written", "blank", "aged"}
  /\ target \in [Artifacts -> Content]
  /\ staged \in [Processes -> [Artifacts -> Content]]
  /\ backup \in [Processes -> [Artifacts -> Content]]
  /\ previous \in Content
  /\ journal \in Journals
  /\ pc \in [Processes -> Labels]
  /\ at \in [Processes -> 0 .. 3]
  /\ tries \in [Processes -> 0 .. 2]
  /\ running \in [Processes -> Content]
  /\ had \in [Processes -> SUBSET Artifacts]
  /\ published \in [Processes -> SUBSET Artifacts]
  /\ failed \in [Processes -> BOOLEAN]
  /\ read \in [Processes -> Journals]
  /\ crashes \in 0 .. MaxCrashes
  /\ faults \in 0 .. MaxFaults
  /\ outrun \in SUBSET Processes
  /\ raced \in BOOLEAN
  /\ disturbed \in BOOLEAN

\* Two processes never recover or publish at the same time ("another ctx
\* upgrade is already running", command.rs:463), whatever happens to their
\* locks, until one removes a lock that is not the stale one it has seen, or
\* the blank one of a process that still runs after 30 minutes
\* (UpgradeLock::acquire, state.rs:110-111).
Exclusive ==
  ~raced => \A p \in Processes : Holding(p) =>
    /\ lock = p
    /\ \A q \in Processes \ {p} : ~Holding(q)

\* No lock was lost to a race, and no rollback was left half done.
Calm == ~raced /\ ~disturbed

\* There is a ctx to run, and so somebody who can recover.  Only a rollback
\* takes the binary away (install.rs, publish and rollback): a publication can
\* be killed at each of its steps, and leaves one.
BinaryRunnable ==
  Calm /\ target["binary"] = 0 =>
    \E p \in Processes :
      failed[p] \/ (pc[p] \in {"undo", "revert"} /\ Path(p) = "binary")

\* Until a journal is committed the installation is the one it was begun in.
Installed == IF journal.phase = "publishing" THEN journal.old ELSE target

Promised == INSTANCE Installation WITH
  Binary <- "binary", installed <- Installed, damaged <- ~Calm

\* Whatever is interrupted, all three paths change to a release, together, or
\* none does, and no command installs an older release than is there, for as
\* long as locks are not lost and rollbacks are not left half done
\* (replace_binary and recover_interrupted_install, install.rs).
AllOrNothing == Promised!Spec

\* An interrupted installation is undone or finished in the end
\* (recover_interrupted_install), unless its rollback was left half done.
EventuallyRecovered ==
  journal.phase # "none" ~> journal.phase = "none" \/ ~Calm

=============================================================================
