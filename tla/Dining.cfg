CONSTANTS
    s1 = s1  s2 = s2  o1 = o1  o2 = o2  o3 = o3
    i1 = i1  i2 = i2  i3 = i3  i4 = i4  r1 = r1  r2 = r2
    Sessions = {s1, s2}
    NoSession = NoSession
    Orders = {o1, o2, o3}
    Items = {i1, i2, i3, i4}
    OrderOf <- MCOrderOf
    WapOrders = {o3}
    Requests = {r1, r2}
    Idle = Idle
    MaxVersion <- MCMaxVersion
    MaxReplays = 1
SYMMETRY Alike
CONSTRAINT OneService
SPECIFICATION SyncSpec
CHECK_DEADLOCK FALSE
INVARIANT SyncTypeOK
INVARIANT TicketFollowsItem
INVARIANT WastedOnce
INVARIANT BillMatchesTable
INVARIANT PaidOrderIsInItsSession
PROPERTY CancelledIsFinal
INVARIANT SettledAsSold
PROPERTY ReconciledStays
