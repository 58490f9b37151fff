SPECIFICATION FairSpec
CONSTANTS
    n1 = n1
    n2 = n2
    c1 = c1
    c2 = c2
    Main = main
    Prefetch = prefetch
    NumNodeIDs = 2
    NumSequences = 1
    Nodes <- TwoNodes
    Callers <- TwoCallers
    NodeID <- TwoNodeIDs
    SegmentDurationMs = 1
    SegmentSize = 4
    FreshDB = TRUE
    Initialisers = {n1}
    LastTs0 = 1
    Legacy <- Stored
    MaxMessageID = 3
    Clock = {0}
    MaxCalls = 5
    MaxCrashes = 1
INVARIANTS
    Unique
    CoveredByState
PROPERTIES
    ReservedAbove
    Implements
    CallsReturn
    SlotComesBack
CHECK_DEADLOCK FALSE
