SPECIFICATION Spec
CONSTANTS
    company = company
    user = user
    w1 = w1
    w2 = w2
    NoParent = NoParent
    Workers = {w1, w2}
    Aggregates = {company, user}
    Parent <- MCParent
    Priority <- MCPriority
    BatchLimit = 2
    MaxVersion = 2
    MaxEvents = 3
    MaxFaults = 0

INVARIANTS
    DrainedParity
CHECK_DEADLOCK FALSE
