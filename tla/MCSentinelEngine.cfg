SPECIFICATION Spec
CONSTANTS
    Transactions <- MCTransactions
    Histories <- MCHistories
    Orders <- MCOrders
    Shape <- MCShape
    Blocklist = {"blocked"}
    ProviderChain = 1
    Lookback = 4
    MaxRange = 1
    Block = 6
    MaxAmount = 15
INVARIANTS SettingsGuarded ApprovalsBacked ScanExact
CHECK_DEADLOCK FALSE
