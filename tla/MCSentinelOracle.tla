-------------------------- MODULE MCSentinelOracle --------------------------
(* Small instances of the sentinel oracle. *)
EXTENDS SentinelOracle, TLC

CONSTANTS r1, s1, s2, s3, dao

\* Multipliers: the least, a partial and a full slash, and two that the
\* contract refuses.
MCBondConfigs ==
    {[bond |-> 1, slashing |-> 1], [bond |-> 3, slashing |-> 2],
     [bond |-> 1, slashing |-> 2], [bond |-> 2, slashing |-> 0]}

=============================================================================
