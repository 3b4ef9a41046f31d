--------------------------- MODULE EpochSchedule ---------------------------
(***************************************************************************)
(* What Consensus promises about epochs: at any block there is one active  *)
(* epoch with one group, at most one later epoch is staged, and the staged *)
(* epoch becomes active exactly with the block it was staged for.  This is *)
(* the eager view; the contract switches lazily, on the next transaction.  *)
(***************************************************************************)
EXTENDS Naturals

CONSTANTS Groups, NoGroup

VARIABLES
    height,    \* the block number
    current,   \* the active epoch
    upcoming,  \* the staged epoch, 0 if there is none
    switchAt,  \* the block at which upcoming becomes active
    groupOf    \* the group of every epoch that was ever staged

esVars == <<height, current, upcoming, switchAt, groupOf>>

ESInit ==
    /\ height \in Nat
    /\ current = 0
    /\ upcoming = 0
    /\ switchAt = 0
    /\ \A e \in DOMAIN groupOf : e > 0 => groupOf[e] = NoGroup

\* A block is mined; if it is the one the staged epoch waits for, the epoch
\* becomes active in that very block.
NextBlock ==
    /\ height' = height + 1
    /\ IF upcoming # 0 /\ switchAt = height + 1
       THEN current' = upcoming /\ upcoming' = 0 /\ switchAt' = 0
       ELSE UNCHANGED <<current, upcoming, switchAt>>
    /\ UNCHANGED groupOf

\* A later epoch with a group of its own is staged for a later block.
Stage ==
    /\ upcoming = 0
    /\ upcoming' > current
    /\ switchAt' > height
    /\ groupOf[upcoming'] = NoGroup
    /\ \E g \in Groups : groupOf' = [groupOf EXCEPT ![upcoming'] = g]
    /\ UNCHANGED <<height, current>>

ESNext == NextBlock \/ Stage

ESSpec == ESInit /\ [][ESNext]_esVars
============================================================================
