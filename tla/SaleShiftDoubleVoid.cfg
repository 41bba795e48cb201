SPECIFICATION Spec
CONSTANTS
    h1 = h1
    h2 = h2
    p1 = p1
    p2 = p2
    ann = ann
    bob = bob
    s1 = s1
    s2 = s2
    s3 = s3
    NoSale = NoSale
    NoCashier = NoCashier
    Handlers = {h1, h2}
    Process <- MCProcess
    Voiders = {h1, h2}
    Cashiers = {ann, bob}
    Sales = {s1, s2, s3}
    Owner <- MCOwner
    Free = {s2}
    InitialStock = 2
    MaxShifts = 2
    MaxFaults = 1
INVARIANT
    StockMatchesSales
CHECK_DEADLOCK FALSE
