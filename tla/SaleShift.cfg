SPECIFICATION FairSpec
CONSTANTS
    h1 = h1
    h2 = h2
    p1 = p1
    p2 = p2
    ann = ann
    bob = bob
    s1 = s1
    s2 = s2
    s3 = s3
    NoSale = NoSale
    NoCashier = NoCashier
    Handlers = {h1, h2}
    Process <- MCProcess
    Voiders = {h1, h2}
    Cashiers = {ann, bob}
    Sales = {s1, s2, s3}
    Owner <- MCOwner
    Free = {s2, s3}
    InitialStock = 2
    MaxShifts = 2
    MaxFaults = 1
INVARIANTS
    TypeOK
    StockMatchesSales
    TotalsMatchSales
    ClosedShiftIsJournaled
    CirclesAreVoids
PROPERTIES
    ClosedShiftIsSealed
    RequestsEnd
CONSTRAINT VoidsApart
CHECK_DEADLOCK FALSE
