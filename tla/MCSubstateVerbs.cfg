CONSTANTS
    VerbCalls <- MCCalls
    ClaimedC03 <- MCClaimedC03
    MaxReceipts = 2
SPECIFICATION VerbsSpec
INVARIANT StepsAreTaken
CHECK_DEADLOCK FALSE
