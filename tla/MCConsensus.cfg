SPECIFICATION COSpec
CONSTANTS
    g0 = g0
    g1 = g1
    g2 = g2
    g3 = g3
    k0 = k0
    k1 = k1
    k2 = k2
    t1 = t1
    NoGroup = NoGroup
    Groups <- MCGroups
    KeyOf <- MCKeyOf
    Genesis = g0
    Transactions = {t1}
    MaxEpoch = 2
    MaxBlock = 2
    MaxRequests = 3
SYMMETRY MCSymmetry
INVARIANTS
    AttestationsSigned
    EpochsEndorsed
PROPERTIES
    ImplementsSchedule
CHECK_DEADLOCK FALSE
