SPECIFICATION Spec
CONSTANTS
    Accounts <- MCAccounts
    SeedLimit <- MCSeedLimit
    Updates <- TwoUpdates
    Limit = 2
    MaxTopic = 3
    MaxSaves = 0
    MaxCrashes = 0
INVARIANT
    ChangesArePublished
CHECK_DEADLOCK FALSE
