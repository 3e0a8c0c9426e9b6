CONSTANTS
    Calls <- MCCalls
    MaxLoads = 1
SPECIFICATION FairSpec
INVARIANTS NoGaps MintOrder ZeroSelfApproval FabRelease
PROPERTIES LedgerAppendOnly EventuallyReleased ImplementsPipeline
CHECK_DEADLOCK TRUE
