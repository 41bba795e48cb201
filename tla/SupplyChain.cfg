CONSTANTS
    flour = flour  t1 = t1  t2 = t2  r1 = r1  r2 = r2  o1 = o1  o2 = o2  k1 = k1  k2 = k2
    d1 = d1
    Lots = {1, 2}
    Ingredients = {flour}
    IngredientOf <- MCIngredientOf
    Receipts = {k1, k2}
    Demands = {d1}
    NoDemand = NoDemand
    Orders = {o1, o2}
    Dates = {1}
    Never = 2
    Unnamed = Unnamed
    Transfers = {t1, t2}
    Requests = {r1, r2}
    Idle = Idle
    MaxQty = 2
    MaxByHand = 1
SYMMETRY Alike
CONSTRAINT Focus
SPECIFICATION Spec
CHECK_DEADLOCK FALSE
INVARIANT TypeOK
INVARIANT DemandFilledOnce
INVARIANT LotsAddUp
INVARIANT GoodsConserved
INVARIANT ReservationsMatchTransfers
