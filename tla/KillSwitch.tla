----------------------------- MODULE KillSwitch -----------------------------
(***************************************************************************)
(* What a kill switch promises the code that asks it before each order.    *)
(*                                                                         *)
(* Engaging it blocks orders for Cooldown ticks.  An order passes only     *)
(* when nothing is left of the block.  The block outlives the process as   *)
(* far as the disk agrees with the memory: a write may fail, and then a    *)
(* restart finds what was on the disk before.                              *)
(***************************************************************************)
EXTENDS Naturals

CONSTANT Cooldown

VARIABLES
    running,       \* is there a process?
    remaining,     \* ticks for which orders stay blocked
    disk,          \* the same, as a restart would find it
    passed         \* did an order pass in the last step?

ksVars == <<running, remaining, disk, passed>>

Less(ticks) == IF ticks > 0 THEN ticks - 1 ELSE 0

KSInit ==
    /\ running = FALSE
    /\ remaining = 0
    /\ disk = 0
    /\ passed = FALSE

\* A person or the circuit-breaker engages the switch, engaged or not.
KSEngage ==
    /\ running
    /\ remaining' = Cooldown
    /\ disk' \in {Cooldown, disk}
    /\ passed' = FALSE
    /\ UNCHANGED running

\* A person takes the block away.
KSReset ==
    /\ running
    /\ remaining' = 0
    /\ disk' \in {0, disk}
    /\ passed' = FALSE
    /\ UNCHANGED running

\* An order passes: only if no block is left.
KSPass ==
    /\ running
    /\ remaining = 0
    /\ passed' = TRUE
    /\ UNCHANGED <<running, remaining, disk>>

\* An order is refused, or something else happens that leaves the block alone.
KSOther ==
    /\ passed' = FALSE
    /\ UNCHANGED <<running, remaining, disk>>

KSTick ==
    /\ remaining' = Less(remaining)
    /\ disk' = Less(disk)
    /\ passed' = FALSE
    /\ UNCHANGED running

KSStop ==
    /\ running
    /\ running' = FALSE
    /\ remaining' = 0
    /\ passed' = FALSE
    /\ UNCHANGED disk

\* A new process takes up the block it finds, unless it cannot read the disk.
KSStart ==
    /\ ~running
    /\ running' = TRUE
    /\ remaining' \in {disk, 0}
    /\ passed' = FALSE
    /\ UNCHANGED disk

KSNext ==
    KSEngage \/ KSReset \/ KSPass \/ KSOther \/ KSTick \/ KSStop \/ KSStart

KSSpec == KSInit /\ [][KSNext]_ksVars

=============================================================================
