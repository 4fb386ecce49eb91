SPECIFICATION FairSpec
CONSTANTS
    IntHalf = 1000
    Accounts <- MCAccounts
    SeedEvents <- MCSeedEvents
    SeedLimit <- MCSeedLimit
    CardCommands <- MCCardCommands
    Submissions <- MCSubmissions
    PaymentIds <- MCPaymentIds
    MaxResets = 1
    MaxCrashes = 1
    MaxLosses = 1
INVARIANTS
    TypeOK
    NotOverpaid
    EstimateAdmitsNoMore
    StoredIsPublished
PROPERTY
    SubmissionsDrained
CHECK_DEADLOCK FALSE
