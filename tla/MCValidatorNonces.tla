------------------------- MODULE MCValidatorNonces -------------------------
(* One validator's nonces over reorganisations, retries and restarts. *)
EXTENDS ValidatorNonces, TLC

CONSTANTS r1, r2, m1, m2

MCRootSymmetry == Permutations(Roots)
============================================================================
