SPECIFICATION Spec
CONSTANTS
    r1 = r1 s1 = s1 x = x y = y dao = dao
    Requests = {r1}
    Sentinels = {s1, x, y}
    Services = {s1}
    Hashes = {"Approve"}
    CommitWindow = 2
    RevealWindow = 3
    GovernanceDelay = 1
    ArbitrationTimeout = 1
    Denominator = 4
    Fees = {1}
    BondConfigs <- MCBonds
    Shares = {0}
    Receivers = {dao}
    Governed = {}
    MaxCommits = 3
    RosterBlock = 0
    VotingWindow = 2
    ProposalBlock = 1
    MaxReorgDepth = 2
    MaxTrouble = 0
    MaxBlock = 12
SYMMETRY MCSymmetry
CHECK_DEADLOCK FALSE
INVARIANTS
    FinalizesOnceRevealed
