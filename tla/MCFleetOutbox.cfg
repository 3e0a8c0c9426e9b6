CONSTANTS
    d1 = d1
    d2 = d2
    server = server
    Drafts = {d1, d2}
    Server = server
    Oneshots = {}
    MAX_ATTEMPTS = 2
    SocketBuffer = 1
    MaxCrashes = 2
    MaxRequeues = 1
SPECIFICATION FairSpec
INVARIANTS NoFalseDelivery DeadLetterRecoverable NothingStranded NoLostWakeup
PROPERTIES DeliveredIsFinal EverySubmissionSettles ImplementsDelivery
CHECK_DEADLOCK FALSE
