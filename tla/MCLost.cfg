SPECIFICATION Spec
CONSTANTS
    IntHalf = 1000
    Handlers = {h1, h2}
    Accounts <- MCAccounts
    Requests <- CardRequests
    Topic <- NoTopic
    SeedEvents <- MCSeedEvents
    SeedLimit <- MCSeedLimit
    MaxRequests = 2
    MaxResets = 0
    MaxCrashes = 0
INVARIANT
    AppendedIsRead
CHECK_DEADLOCK FALSE
