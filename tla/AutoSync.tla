------------------------------ MODULE AutoSync ------------------------------
(***************************************************************************)
(* scripts/ctx-turso-auto-sync.sh: the launchd service that, once a        *)
(* minute, walks its list of sources and imports those that are quiet or   *)
(* have been deferred for too long.  It shares the import lock with the    *)
(* workers of HookSync (locked-exec, which does not wait) and renews the   *)
(* short-lived token of the database.                                      *)
(*                                                                         *)
(* Time is counted in cycles of the service: waited[t] is the number of    *)
(* cycles since the last import of t, up to MaxDefer.                      *)
(***************************************************************************)
EXTENDS HookSync

CONSTANTS
  ServiceTargets,  \* the targets in the order of the script's main loop
  MaxDefer,        \* MAX_DEFER_SECONDS, in cycles
  MaxExpiries      \* bound on tokens the database stops accepting

ASSUME ServiceAssumption ==
  /\ ServiceTargets \in Seq(Targets)
  /\ MaxDefer \in Nat \ {0}
  /\ MaxExpiries \in Nat

VARIABLES
  spc,       \* where the service is in its cycle
  at,        \* index into ServiceTargets
  quiet,     \* quiet[t]: no file of t was written in the quiet window
  waited,    \* waited[t]: cycles since last_sync_epoch; MaxDefer: or never
  token,     \* CTX_TURSO_AUTH_TOKEN: "none", "valid" or "expired"
  renewed,   \* cycle_token_refreshes # 0
  expiries   \* number of expired tokens

servicevars == <<spc, at, quiet, waited, token, renewed, expiries>>
vars == <<hookvars, servicevars>>

\* What a service step leaves alone unless it says otherwise.
hookjobs == <<marker, failed, pc, progress>>

ServiceInit ==
  /\ Init
  /\ spc = "cycle"
  /\ at = 1
  /\ quiet = [t \in Targets |-> TRUE]
  /\ waited = [t \in Targets |-> MaxDefer]
  /\ token = "none"
  /\ renewed = FALSE
  /\ expiries = 0

-----------------------------------------------------------------------------
(* The environment. *)

\* An agent writes to t; the window since the last write passes.
Write(t) ==
  /\ quiet' = [quiet EXCEPT ![t] = FALSE]
  /\ Touch({t})
  /\ UNCHANGED <<hookjobs, lock, failures, crashes, spc, at, waited, token,
                 renewed, expiries>>

Settle(t) ==
  /\ quiet' = [quiet EXCEPT ![t] = TRUE]
  /\ UNCHANGED <<hookvars, spc, at, waited, token, renewed, expiries>>

Expire ==
  /\ token = "valid"
  /\ expiries < MaxExpiries
  /\ expiries' = expiries + 1
  /\ token' = "expired"
  /\ UNCHANGED <<hookvars, spc, at, quiet, waited, renewed>>

-----------------------------------------------------------------------------
(* One cycle. *)

\* refresh_token: a token the script still has and thinks young is kept.
BeginCycle ==
  /\ spc = "cycle"
  /\ token' \in IF token = "none" THEN {"valid"} ELSE {token, "valid"}
  /\ renewed' = FALSE
  /\ at' = 1
  /\ spc' = "source"
  /\ UNCHANGED <<hookvars, quiet, waited, expiries>>

Sleep ==
  /\ waited' = [t \in Targets |-> IF waited[t] < MaxDefer THEN waited[t] + 1
                                  ELSE MaxDefer]
  /\ spc' = "cycle"

\* Nobody is logged in, or no token can be made: the cycle is skipped.
NoToken ==
  /\ spc = "cycle"
  /\ failures < MaxFailures
  /\ failures' = failures + 1
  /\ Sleep
  /\ UNCHANGED <<hookjobs, lock, imports, dirty, crashes, at, quiet, token,
                 renewed, expiries>>

\* Faulty: without the defer window, only a quiet source is imported.
ReadyWhenQuiet(t) == quiet[t]

SourceIsReady(t) == quiet[t] \/ waited[t] = MaxDefer

Listed == at \in DOMAIN ServiceTargets
NextTarget == at' = at + 1 /\ spc' = "source"

NotReady ==
  /\ spc = "source"
  /\ Listed
  /\ ~SourceIsReady(ServiceTargets[at])
  /\ NextTarget
  /\ UNCHANGED <<hookvars, quiet, waited, token, renewed, expiries>>

\* Faulty: locked-exec runs its command whoever has the lock.
ServiceImportUnlocked ==
  /\ spc \in {"source", "retry"}
  /\ Listed
  /\ spc = "retry" \/ SourceIsReady(ServiceTargets[at])
  /\ StartImport(Service, ServiceTargets[at])
  /\ lock' = Service
  /\ spc' = "running"
  /\ UNCHANGED <<hookjobs, dirty, failures, crashes, at, quiet, waited, token,
                 renewed, expiries>>

\* locked-exec takes the lock and runs the import.
ServiceImport ==
  /\ spc \in {"source", "retry"}
  /\ Listed
  /\ spc = "retry" \/ SourceIsReady(ServiceTargets[at])
  /\ lock = NoOne
  /\ lock' = Service
  /\ StartImport(Service, ServiceTargets[at])
  /\ spc' = "running"
  /\ UNCHANGED <<hookjobs, dirty, failures, crashes, at, quiet, waited, token,
                 renewed, expiries>>

\* Status 75: the next cycle tries again.
ServiceBusy ==
  /\ spc \in {"source", "retry"}
  /\ Listed
  /\ spc = "retry" \/ SourceIsReady(ServiceTargets[at])
  /\ lock # NoOne
  /\ NextTarget
  /\ UNCHANGED <<hookvars, quiet, waited, token, renewed, expiries>>

\* The service's import ends and locked-exec gives the lock back.
EndServiceImport(succeeds) ==
  /\ \E i \in imports : i.owner = Service /\ EndImport(i, succeeds)
  /\ lock' = NoOne

ServiceOk ==
  /\ spc = "running"
  /\ token = "valid"
  /\ EndServiceImport(TRUE)
  /\ waited' = [waited EXCEPT ![ServiceTargets[at]] = 0]
  /\ NextTarget
  /\ UNCHANGED <<hookjobs, failures, crashes, quiet, token, renewed, expiries>>

ServiceFails ==
  /\ spc = "running"
  /\ failures < MaxFailures
  /\ failures' = failures + 1
  /\ EndServiceImport(FALSE)
  /\ NextTarget
  /\ UNCHANGED <<hookjobs, crashes, quiet, waited, token, renewed, expiries>>

\* Faulty: the rejected token is kept, since it is not old enough.
AuthFailureKeepingToken ==
  /\ spc = "running"
  /\ token # "valid"
  /\ EndServiceImport(FALSE)
  /\ NextTarget
  /\ UNCHANGED <<hookjobs, failures, crashes, quiet, waited, token, renewed,
                 expiries>>

\* The database rejects the token, or there is none: the first time in a
\* cycle the script makes a new one and repeats the import, then it gives up
\* on the source.
AuthFailure ==
  /\ spc = "running"
  /\ token # "valid"
  /\ EndServiceImport(FALSE)
  /\ \/ /\ ~renewed
        /\ renewed' = TRUE
        /\ token' = "valid"
        /\ spc' = "retry"
        /\ UNCHANGED <<at, failures>>
     \/ /\ ~renewed
        /\ failures < MaxFailures
        /\ failures' = failures + 1
        /\ renewed' = TRUE
        /\ token' = "none"
        /\ NextTarget
     \/ /\ renewed
        /\ NextTarget
        /\ UNCHANGED <<token, renewed, failures>>
  /\ UNCHANGED <<hookjobs, crashes, quiet, waited, expiries>>

EndCycle ==
  /\ spc = "source"
  /\ ~Listed
  /\ Sleep
  /\ UNCHANGED <<hookvars, at, quiet, token, renewed, expiries>>

-----------------------------------------------------------------------------
(* launchd restarts a killed service; what it ran keeps the lock to its end. *)

ServiceCrash ==
  /\ crashes < MaxCrashes
  /\ crashes' = crashes + 1
  /\ spc' = "cycle"
  /\ waited' = [t \in Targets |-> MaxDefer]
  /\ token' = "none"
  /\ UNCHANGED <<hookjobs, lock, imports, dirty, failures, at, quiet, renewed,
                 expiries>>

ServiceOrphanEnds ==
  /\ spc # "running"
  /\ \E succeeds \in BOOLEAN : EndServiceImport(succeeds)
  /\ UNCHANGED <<hookjobs, failures, crashes, servicevars>>

-----------------------------------------------------------------------------
ServiceStep ==
  \/ BeginCycle \/ NoToken \/ NotReady \/ ServiceImport \/ ServiceBusy
  \/ ServiceOk \/ ServiceFails \/ AuthFailure \/ EndCycle

Next ==
  \/ HookNext /\ UNCHANGED servicevars
  \/ \E t \in Targets : Write(t) \/ Settle(t)
  \/ Expire \/ ServiceStep \/ ServiceCrash \/ ServiceOrphanEnds

ServiceSpec == ServiceInit /\ [][Next]_vars

\* Processes that can run do.  Requests, writes, crashes, failures and
\* expiries owe nothing, and the last three are finitely many.
ServiceFairness ==
  /\ \A w \in Workers : WF_vars(Work(w) /\ UNCHANGED servicevars)
  /\ WF_vars(OrphanEnds /\ UNCHANGED servicevars)
  /\ WF_vars(ServiceStep)
  /\ WF_vars(ServiceOrphanEnds)

FairServiceSpec == ServiceSpec /\ ServiceFairness

-----------------------------------------------------------------------------
(* What must hold. *)

\* The service's variables have their types, and it holds the lock exactly
\* while an import of its own runs.
ServiceTypeOK ==
  /\ TypeOK
  /\ spc \in {"cycle", "source", "retry", "running"}
  /\ at \in 1 .. Len(ServiceTargets) + 1
  /\ quiet \in [Targets -> BOOLEAN]
  /\ waited \in [Targets -> 0 .. MaxDefer]
  /\ token \in {"none", "valid", "expired"}
  /\ renewed \in BOOLEAN
  /\ expiries \in 0 .. MaxExpiries
  /\ spc = "running" => lock = Service
  /\ lock = Service <=> \E i \in imports : i.owner = Service

\* However long agents keep writing, each source is imported by the service
\* again and again (README.md:50-52), through expired tokens, busy locks,
\* failing imports and restarts.
NeverStarved ==
  \A n \in DOMAIN ServiceTargets : []<>(waited[ServiceTargets[n]] = 0)

\* Once nobody writes to a target any more, all it holds gets uploaded, even
\* if a worker was killed between its marker and its import.
EventuallySynced ==
  \A n \in DOMAIN ServiceTargets :
    LET t == ServiceTargets[n]
    IN <>[](quiet[t] /\ \A w \in Workers : pc[w] # "new") => <>[](~dirty[t])
=============================================================================
