------------------------------- MODULE PidLock -------------------------------
(***************************************************************************)
(* PidFileLock of crates/ctx-cli/src/semantic/paths_status.rs: the lock of *)
(* the daemon.  Ownership is an exclusive flock on a guard file; a second  *)
(* file tells other processes who the owner is.  Anyone may probe the lock *)
(* with a shared flock.  An earlier version of ctx ("legacy") knows the    *)
(* second file only: it creates it, and unlinks it when its owner is dead. *)
(*                                                                         *)
(* A step of acquire is one system call that others can see.               *)
(***************************************************************************)
EXTENDS Naturals, FiniteSets

CONSTANTS
  Daemons,    \* processes that acquire the lock
  Clients,    \* processes that only probe it
  NoOne,      \* the guard when it is free
  Attempts,   \* attempts to publish the metadata
  WithLegacy  \* TRUE: a process of an earlier version may be running

ASSUME LockAssumption ==
  /\ NoOne \notin Daemons
  /\ Daemons \cap {"absent", "incomplete", "expired", "legacy", "unowned"} = {}
  /\ Attempts \in Nat \ {0}
  /\ WithLegacy \in BOOLEAN

VARIABLES
  guard,    \* who has the exclusive flock on the guard file
  probes,   \* who has a shared flock on it
  meta,     \* the metadata file, see Metadata
  lpc,      \* lpc[d]: where d is in acquire or drop
  linked,   \* linked[d]: the file d has opened still has the path's name
  attempt,  \* attempt[d]: publication attempts so far
  closing,  \* closing[d]: d publishes that it has released the lock
  legacy    \* where the process of the earlier version is

lockvars == <<guard, probes, meta, lpc, linked, attempt, closing, legacy>>

\* An owner; a process that has released it or died; the earlier version; or
\* no valid JSON, for less or more than PID_LOCK_INCOMPLETE_GRACE.
Metadata == Daemons \cup {"absent", "unowned", "legacy", "incomplete", "expired"}

LockPoints == {"out", "wanting", "judging", "opening", "checking", "truncating",
               "writing", "verifying", "held"}

\* A data directory without metadata; or an upgrade to this version while a
\* daemon of the earlier one runs, or has seen that the last owner is dead.
LockInit ==
  /\ guard = NoOne
  /\ probes = {}
  /\ \/ meta = "absent" /\ legacy = "done"
     \/ WithLegacy /\ meta = "legacy" /\ legacy = "running"
     \/ WithLegacy /\ meta = "unowned" /\ legacy = "unlinking"
  /\ lpc = [d \in Daemons |-> "out"]
  /\ linked = [d \in Daemons |-> FALSE]
  /\ attempt = [d \in Daemons |-> 0]
  /\ closing = [d \in Daemons |-> FALSE]

-----------------------------------------------------------------------------
(* The metadata. *)

UsesAdvisoryProtocol == meta \in Daemons \cup {"unowned"}

\* Faulty: a file that is no JSON always belongs to someone.
LegacyIsStaleIfComplete == meta = "legacy" /\ legacy # "running"

LegacyIsStale ==
  \/ meta = "legacy" /\ legacy # "running"
  \/ meta = "expired"

\* What acquire and publish may replace.
Replaceable == UsesAdvisoryProtocol \/ LegacyIsStale

\* Half a minute passes.
Expire ==
  /\ meta = "incomplete"
  /\ legacy # "writing"
  /\ meta' = "expired"
  /\ UNCHANGED <<guard, probes, lpc, linked, attempt, closing, legacy>>

-----------------------------------------------------------------------------
(* acquire. *)

Want(d) ==
  /\ lpc[d] = "out"
  /\ lpc' = [lpc EXCEPT ![d] = "wanting"]

\* Faulty: the metadata alone decides who owns the lock.
LockRegardless(d) ==
  /\ lpc[d] = "wanting"
  /\ guard' = d
  /\ lpc' = [lpc EXCEPT ![d] = "judging"]
  /\ UNCHANGED <<probes, meta, linked, attempt, closing, legacy>>

Lock(d) ==
  /\ lpc[d] = "wanting"
  /\ guard = NoOne
  /\ probes = {}
  /\ guard' = d
  /\ lpc' = [lpc EXCEPT ![d] = "judging"]
  /\ UNCHANGED <<probes, meta, linked, attempt, closing, legacy>>

\* The guard is busy throughout the attempts of try_lock_pid_file.
GiveUp(d) ==
  /\ lpc[d] = "wanting"
  /\ guard # NoOne \/ probes # {}
  /\ lpc' = [lpc EXCEPT ![d] = "out"]
  /\ UNCHANGED <<guard, probes, meta, linked, attempt, closing, legacy>>

Unlock(d) ==
  /\ guard' = NoOne
  /\ lpc' = [lpc EXCEPT ![d] = "out"]
  /\ linked' = [linked EXCEPT ![d] = FALSE]
  /\ attempt' = [attempt EXCEPT ![d] = 0]
  /\ closing' = [closing EXCEPT ![d] = FALSE]

\* A live or incomplete owner of the earlier version wins.
Judge(d) ==
  /\ lpc[d] = "judging"
  /\ IF meta = "absent" \/ Replaceable
     THEN /\ lpc' = [lpc EXCEPT ![d] = "opening"]
          /\ UNCHANGED <<guard, linked, attempt, closing>>
     ELSE Unlock(d)
  /\ UNCHANGED <<probes, meta, legacy>>

-----------------------------------------------------------------------------
(* publish_pid_lock_metadata, for acquire and for drop: open the file or   *)
(* create it, look again whose it is, truncate it, write it, look whether  *)
(* the path has it.                                                        *)

Payload(d) == IF closing[d] THEN "unowned" ELSE d

Open(d) ==
  /\ lpc[d] = "opening"
  /\ linked' = [linked EXCEPT ![d] = TRUE]
  /\ attempt' = [attempt EXCEPT ![d] = @ + 1]
  /\ IF meta = "absent"
     THEN meta' = "incomplete" /\ lpc' = [lpc EXCEPT ![d] = "writing"]
     ELSE lpc' = [lpc EXCEPT ![d] = "checking"] /\ UNCHANGED meta
  /\ UNCHANGED <<guard, probes, closing, legacy>>

Check(d) ==
  /\ lpc[d] = "checking"
  /\ IF Replaceable
     THEN /\ lpc' = [lpc EXCEPT ![d] = "truncating"]
          /\ UNCHANGED <<guard, linked, attempt, closing>>
     ELSE Unlock(d)
  /\ UNCHANGED <<probes, meta, legacy>>

\* Faulty: the path is opened again to be truncated.
TruncateByName(d) ==
  /\ lpc[d] = "truncating"
  /\ meta' = "incomplete"
  /\ lpc' = [lpc EXCEPT ![d] = "writing"]
  /\ UNCHANGED <<guard, probes, linked, attempt, closing, legacy>>

\* A file that has lost its name is written to no effect.
Truncate(d) ==
  /\ lpc[d] = "truncating"
  /\ meta' = IF linked[d] THEN "incomplete" ELSE meta
  /\ lpc' = [lpc EXCEPT ![d] = "writing"]
  /\ UNCHANGED <<guard, probes, linked, attempt, closing, legacy>>

Write(d) ==
  /\ lpc[d] = "writing"
  /\ meta' = IF linked[d] THEN Payload(d) ELSE meta
  /\ lpc' = [lpc EXCEPT ![d] = "verifying"]
  /\ UNCHANGED <<guard, probes, linked, attempt, closing, legacy>>

Verify(d) ==
  /\ lpc[d] = "verifying"
  /\ \/ /\ meta = Payload(d)
        /\ ~closing[d]
        /\ lpc' = [lpc EXCEPT ![d] = "held"]
        /\ linked' = [linked EXCEPT ![d] = FALSE]
        /\ attempt' = [attempt EXCEPT ![d] = 0]
        /\ UNCHANGED <<guard, closing>>
     \/ /\ meta # Payload(d)
        /\ attempt[d] < Attempts
        /\ lpc' = [lpc EXCEPT ![d] = "opening"]
        /\ linked' = [linked EXCEPT ![d] = FALSE]
        /\ UNCHANGED <<guard, attempt, closing>>
     \/ /\ meta = Payload(d) => closing[d]
        /\ meta # Payload(d) => attempt[d] >= Attempts
        /\ Unlock(d)
  /\ UNCHANGED <<probes, meta, legacy>>

\* drop: the metadata, if the path still has it, is published again as
\* released; the guard is freed in any case.
Release(d) ==
  /\ lpc[d] = "held"
  /\ IF meta = d
     THEN /\ lpc' = [lpc EXCEPT ![d] = "opening"]
          /\ closing' = [closing EXCEPT ![d] = TRUE]
          /\ UNCHANGED <<guard, linked, attempt>>
     ELSE Unlock(d)
  /\ UNCHANGED <<probes, meta, legacy>>

\* The lock steps of a process that is neither out nor at work.
LockStep(d) ==
  \/ Lock(d) \/ Judge(d)
  \/ Open(d) \/ Check(d) \/ Truncate(d) \/ Write(d) \/ Verify(d)

\* The kernel frees the flock of a killed process; its metadata stays.
Die(d) ==
  /\ guard' = IF guard = d THEN NoOne ELSE guard
  /\ meta' = IF meta = d THEN "unowned" ELSE meta
  /\ lpc' = [lpc EXCEPT ![d] = "out"]
  /\ linked' = [linked EXCEPT ![d] = FALSE]
  /\ attempt' = [attempt EXCEPT ![d] = 0]
  /\ closing' = [closing EXCEPT ![d] = FALSE]
  /\ UNCHANGED <<probes, legacy>>

-----------------------------------------------------------------------------
(* The earlier version. *)

\* It unlinks the path, whatever the name stands for by now.
LegacyUnlink ==
  /\ legacy = "unlinking"
  /\ meta' = "absent"
  /\ linked' = [d \in Daemons |-> FALSE]
  /\ legacy' = "creating"
  /\ UNCHANGED <<guard, probes, lpc, attempt, closing>>

LegacyCreate ==
  /\ legacy = "creating"
  /\ IF meta = "absent"
     THEN meta' = "incomplete" /\ legacy' = "writing"
     ELSE legacy' = "done" /\ UNCHANGED meta
  /\ UNCHANGED <<guard, probes, lpc, linked, attempt, closing>>

LegacyWrite ==
  /\ legacy = "writing"
  /\ meta' = "legacy"
  /\ legacy' = "running"
  /\ UNCHANGED <<guard, probes, lpc, linked, attempt, closing>>

\* It ends, with or without removing its file.
LegacyEnd ==
  /\ legacy = "running"
  /\ legacy' = "done"
  /\ \/ UNCHANGED <<meta, linked>>
     \/ meta' = "absent" /\ linked' = [d \in Daemons |-> FALSE]
  /\ UNCHANGED <<guard, probes, lpc, attempt, closing>>

LegacyStep ==
  LegacyUnlink \/ LegacyCreate \/ LegacyWrite \/ LegacyEnd
=============================================================================
