CONSTANTS
    s1 = s1  s2 = s2  d1 = d1  d2 = d2  o1 = o1  o2 = o2
    k1 = k1  k2 = k2  k3 = k3  r1 = r1  r2 = r2  u1 = u1  c1 = c1  b1 = b1  t1 = t1
    Shifts = {s1, s2}
    NoShift = NoShift
    Dates = {d1, d2}
    Orders = {o1, o2}
    Tickets = {k1, k2, k3}
    OrderOf <- MCOrderOf
    Topups = {u1}
    Requests = {r1, r2}
    Idle = Idle
    Limits = {2, 3}
    CentralOrders = {c1}
    Batches = {b1}
    Transfers = {t1}
    StockAtStart <- MCStock
    MaxEntries = 2
    MaxQuantity = 2
    MaxStock = 3
SYMMETRY Alike
CONSTRAINT Focus
SPECIFICATION Spec
CHECK_DEADLOCK FALSE
INVARIANT TypeOK
INVARIANT GoodsMatchDocuments
INVARIANT CreditMatchesOrders
INVARIANT ClosedShiftCash
INVARIANT ReadyWhenPrepared
