SPECIFICATION Spec
CONSTANTS
    IntHalf = 16
    Accounts <- MCAccounts
    Commands <- MCCommands
    SeedEvents <- MCSeedEvents
    SeedLimit <- MCSeedLimit
INVARIANTS
    TypeOK
    AtMostOnce
    ClearedAfterDecision
    ProjectionIsBooks
PROPERTIES
    ApprovalKeepsLimit
    ClearingKeepsOwed
