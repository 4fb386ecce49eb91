SPECIFICATION Spec
CONSTANTS
    IntHalf = 1000
    Handlers = {h1}
    Accounts <- MCAccounts
    Requests <- PaymentRequests
    Topic <- OnePayment
    SeedEvents <- MCSeedEvents
    SeedLimit <- MCSeedLimit
    MaxRequests = 1
    MaxResets = 0
    MaxCrashes = 0
INVARIANT
    TakenIsApplied
CHECK_DEADLOCK FALSE
