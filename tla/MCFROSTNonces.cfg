SPECIFICATION Spec
CONSTANTS
    p1 = p1
    p2 = p2
    p3 = p3
    p4 = p4
    r1 = r1
    r2 = r2
    m1 = m1
    m2 = m2
    None = None
    Participants <- MCTwo
    Members <- MCTwo
    Count = 2
    Threshold = 2
    Messages = {m1}
    Roots <- MCRoots
    Selections <- MCNoSelections
    ChunkSize = 2
    MaxSequence = 3
    MaxChunk = 1
SYMMETRY MCRootSymmetry
INVARIANTS
    NoncesPrecommitted
    OneNoncePerCeremony
CHECK_DEADLOCK FALSE
