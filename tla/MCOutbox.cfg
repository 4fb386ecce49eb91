SPECIFICATION FairSpec
CONSTANTS
    Accounts <- MCAccounts
    SeedLimit <- MCSeedLimit
    Updates <- AllUpdates
    Limit = 2
    MaxTopic = 3
    MaxSaves = 2
    MaxCrashes = 1
INVARIANTS
    TypeOK
    EventsAccounted
    RepublishedIfKept
    TopicEndsWithLimit
PROPERTIES
    OutboxDrained
    ImplementsAccountChanges
CHECK_DEADLOCK FALSE
