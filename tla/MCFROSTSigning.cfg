SPECIFICATION FairSpec
CONSTANTS
    p1 = p1
    p2 = p2
    p3 = p3
    p4 = p4
    r1 = r1
    r2 = r2
    m1 = m1
    m2 = m2
    None = None
    Participants <- MCFour
    Members <- MCFour
    Count = 3
    Threshold = 2
    Messages <- MCMessages
    Roots = {}
    Selections <- MCSelections
    ChunkSize = 2
    MaxSequence = 2
    MaxChunk = 0
INVARIANTS
    KGInv
    FinalizedIsClean
    SignedByQuorum
PROPERTIES
    NothingUndone
    CeremonyEnds
    ImplementsSigner
CHECK_DEADLOCK FALSE
