---------------------------- MODULE MCConsensus ----------------------------
(* Consensus over a few blocks and epochs, for model checking. *)
EXTENDS Consensus, TLC

CONSTANTS g0, g1, g2, g3, k0, k1, k2, t1

MCGroups == {g0, g1, g2, g3}

\* Two groups have the same key, the others a key of their own.
MCKeyOf == [g \in MCGroups |-> CASE g = g0 -> k0 [] g \in {g1, g2} -> k1 [] g = g3 -> k2]

\* The groups with the same key are interchangeable.
MCSymmetry == Permutations({g1, g2})
============================================================================
