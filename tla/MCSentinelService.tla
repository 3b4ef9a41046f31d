------------------------- MODULE MCSentinelService -------------------------
(* A service, and sentinels that do as they like. *)
EXTENDS SentinelService

CONSTANTS r1, s1, x, y, dao

MCBonds == {[bond |-> 2, slashing |-> 1]}

MCSymmetry == Permutations(Sentinels \ Services)
=============================================================================
