SPECIFICATION Spec
CONSTANTS
    IntHalf = 1000
    Handlers = {h1}
    Accounts <- MCAccounts
    Requests <- PaymentRequests
    Topic <- PaymentTopic
    SeedEvents <- MCSeedEvents
    SeedLimit <- MCSeedLimit
    MaxRequests = 1
    MaxResets = 1
    MaxCrashes = 1
INVARIANTS
    TypeOK
    PaymentsOnce
    StoredIsKept
    PaymentsAccounted
    LimitFollowsTopic
    DecisionsPublished
CHECK_DEADLOCK FALSE
