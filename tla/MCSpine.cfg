CONSTANTS
    a1 = a1
    a2 = a2
    s1 = s1
    s2 = s2
    d1 = d1
    d2 = d2
    Agents = {a1}
    Sections = {s1, s2}
    SourceSections <- MCSourceSections
    Decisions = {d1}
    HandPackets <- MCHandPackets
    Returning <- MCReturning
    MaxByHand = 1
    MaxReturns = 2
    MaxSlips = 1
    MaxCrashes = 1
SPECIFICATION FairSpec
INVARIANTS TypeOK LogIsTrue BlockedIsMarked
PROPERTIES EverythingAssigned ImplementsFlow
CHECK_DEADLOCK FALSE
