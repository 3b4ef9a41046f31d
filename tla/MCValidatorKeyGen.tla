------------------------- MODULE MCValidatorKeyGen -------------------------
EXTENDS ValidatorKeyGen, TLC

CONSTANTS h1, h2, h3, f, o

MCActiveFrom == [p \in Participants |-> IF p = o THEN 9 ELSE 0]
MCActiveBefore == [p \in Participants |-> 99]
Symmetry == Permutations({h1, h2, h3})
============================================================================
