------------------------ MODULE MCFROSTCoordinator ------------------------
(* One group from key generation to signatures, for model checking. *)
EXTENDS FROSTCoordinator, TLC

CONSTANTS p1, p2, p3, p4, r1, r2, m1, m2

\* The nonce run: two participants that commit and reveal in any order.
MCTwo == {p1, p2}

MCRoots == {r1, r2}

MCRootSymmetry == Permutations(MCRoots)

\* The signing run: the tree has one leaf more than the ceremony has places,
\* so the first Count of the four members to commit take part.  Two signing
\* selections reach the threshold, and one does not.
MCFour == {p1, p2, p3, p4}

MCSelections == {{p1, p2}, {p1, p2, p3}, {p1}}

MCMessages == {m1, m2}

MCNoSelections == {}

===========================================================================
