SPECIFICATION FairSpec
CONSTANTS
    IntHalf = 1000
    Handlers = {h1, h2}
    Accounts <- MCAccounts
    Requests <- CardRequests
    Topic <- LimitTopic
    SeedEvents <- MCSeedEvents
    SeedLimit <- MCSeedLimit
    MaxRequests = 3
    MaxResets = 0
    MaxCrashes = 0
INVARIANT
    OvershootBounded
PROPERTIES
    RequestsAnswered
    TopicsDrained
    AccountsReturn
CHECK_DEADLOCK FALSE
