----------------------------- MODULE MCUpgrade -----------------------------
(***************************************************************************)
(* Instances of Upgrade for TLC: two slots for ctx processes, which is     *)
(* enough for a lock of a dead process and two that find it.               *)
(***************************************************************************)
EXTENDS Upgrade

\* Once a living process has lost its lock nothing is claimed any more, and
\* raced stays true: what happens after it need not be explored.
Unraced == ~raced

\* Two kills and an error, or a kill and two errors, in any order.
FewTroubles == crashes + faults <= 3
=============================================================================
