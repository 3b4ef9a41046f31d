SPECIFICATION FairSpec
CONSTANTS
    r1 = r1
    s1 = s1
    s2 = s2
    s3 = s3
    dao = dao
    Requests = {r1}
    Sentinels = {s1, s2, s3}
    Hashes = {"Approve", "Deny"}
    CommitWindow = 1
    RevealWindow = 1
    GovernanceDelay = 1
    ArbitrationTimeout = 1
    Denominator = 4
    Fees = {0, 5}
    BondConfigs <- MCBondConfigs
    Shares = {0, 4}
    Receivers = {dao}
    Governed = {"share"}
    MaxCommits = 3
    RosterBlock = 1
    MaxBlock = 6
INVARIANTS
    OnlyDustStays
    PayoutsNeverRevert
    ResultUnanimous
PROPERTIES
    EffectiveByTime
    Settles
CHECK_DEADLOCK FALSE
