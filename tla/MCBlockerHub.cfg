CONSTANTS
    i1 = i1
    i2 = i2
    Issues = {i1, i2}
    MaxBlockers = 2
    MaxDispatches = 4
    MaxHubs = 2
SYMMETRY Symmetry
SPECIFICATION HubSpec
INVARIANTS RetryBound FilesFollowMemory
PROPERTY EscalationSticks
CHECK_DEADLOCK FALSE
