SPECIFICATION SequentialSpec
CONSTANTS
    IntHalf = 1000
    Handlers = {h1}
    Accounts <- MCAccounts
    Requests <- MCRequests
    Topic <- MCTopic
    SeedEvents <- MCSeedEvents
    SeedLimit <- MCSeedLimit
    MaxRequests = 2
    MaxResets = 1
    MaxCrashes = 0
PROPERTY
    ImplementsLedger
CHECK_DEADLOCK FALSE
