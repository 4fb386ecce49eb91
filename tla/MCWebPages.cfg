SPECIFICATION FairSpec
CONSTANTS
    IntHalf = 1000
    Account = "a"
    SeedEvents <- MCSeedEvents
    SeedLimit = 58
    PageSize = 3
    Truncated <- MCTruncated
    Purchases <- MCPurchases
    PurchaseIds <- MCPurchaseIds
    PaymentAmounts = {4}
    PaymentIds <- MCPaymentIds
    Meanwhile <- MCMeanwhile
    TypedLimits = {0, 29}
    MaxForms = 2
    MaxChanges = 2
    MaxFaults = 1
INVARIANTS
    TypeOK
    PageAddsUp
    PageAgrees
    ChargedAsTold
    LimitWasTyped
PROPERTY
    ConfirmedLimitDecides
CHECK_DEADLOCK FALSE
