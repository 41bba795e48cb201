SPECIFICATION FairSpec
CONSTANTS
    company = company
    user = user
    w1 = w1
    w2 = w2
    NoParent = NoParent
    Workers = {w1, w2}
    Aggregates = {company, user}
    Parent <- MCParent
    Priority <- MCPriority
    BatchLimit = 2
    MaxVersion = 2
    MaxEvents = 3
    MaxFaults = 1

INVARIANTS
    TypeOK
    AckedIsApplied
    StaleRowHasPendingEvent
PROPERTIES
    ReplicaNeverRegresses
    EveryEventIsProcessed
    ImplementsDelivery
CHECK_DEADLOCK FALSE
