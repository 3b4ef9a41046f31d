SPECIFICATION Spec
CONSTANTS
    r1 = r1
    r2 = r2
    m1 = m1
    m2 = m2
    Absent = Absent
    Pending = Pending
    Roots = {r1, r2}
    Messages = {m1}
    OracleMessages = {m1}
    ChunkSize = 1
    TopUpThreshold = 1
    MaxReorgDepth = 1
    MaxSequence = 2
    MaxChunk = 1
    MaxTrees = 1
SYMMETRY MCRootSymmetry
INVARIANTS
    SelectedNonceAccepted
    NonceSignsOnce
PROPERTIES
    ShareMatchesCeremony
CHECK_DEADLOCK FALSE
