SPECIFICATION FairSpec
CONSTANTS
    a = a
    x = x
    t = t
    f = f
    u = u
    p = p
    MaxBlock = 4
    Addresses = {a}
    Topics = {t, f}
    Bits <- MCBits
    Chains <- MCChains
    Configs <- MCConfigs
    Nodes <- MCNodes
INVARIANTS
    InChainOrder
    NothingLost
PROPERTIES
    Drains
CHECK_DEADLOCK FALSE
