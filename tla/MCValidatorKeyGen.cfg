CONSTANTS
    h1 = h1 h2 = h2 h3 = h3 f = f o = o
    Honest = {h1, h2, h3, o}
    Faulty = {f}
    ActiveFrom <- MCActiveFrom
    ActiveBefore <- MCActiveBefore
    KeyGenTimeout = 2
    BlocksPerEpoch = 16
    MaxBlock = 17
    GenesisBlocks = 3
    MaxTrouble = 3
SPECIFICATION Spec
SYMMETRY Symmetry
CHECK_DEADLOCK FALSE
INVARIANTS
    LockStep
    HonestStay
    ReadyInTime
    KeysHeld
    SharesMatchCommitment
