----------------------------- MODULE MCSupplyChain -----------------------------
(* Two lots of one ingredient, two orders of which one may take the demand, and  *)
(* two transfers.                                                                *)
EXTENDS SupplyChain, TLC

CONSTANTS flour, t1, t2, r1, r2, o1, o2, k1, k2, d1

MCIngredientOf == [l \in Lots |-> flour]

Alike == Permutations({t1, t2}) \cup Permutations({r1, r2})
         \cup Permutations({o1, o2}) \cup Permutations({k1, k2})

\* The instance is explored as two: two deliveries and production orders beside one
\* transfer of one piece, and the goods of one order beside two transfers and the stock desk.
Started(t) == transfer[t].status # "none"
KitchenInFocus ==
    /\ Cardinality({t \in Transfers : Started(t)}) <= 1
    /\ \A t \in Transfers : transfer[t].requested <= 1
    /\ Cardinality({r \in Requests : request[r] # Idle}) <= 1
    /\ byHand = 0
ShippingInFocus ==
    /\ Cardinality(received) <= 1 /\ delivered \in {<<0, 0>>, <<2, 0>>}
    /\ lot[1].expires = Never
    /\ Cardinality({o \in Orders : production[o].status # "none"}) <= 1
    /\ \A o \in Orders : /\ production[o].status # "cancelled" /\ production[o].output # 1
                          /\ issued[o][1] # 1
    /\ \A d \in Demands : demand[d] = "none"
    /\ Cardinality(raced) <= 1 /\ \E t \in Transfers : transfer[t].requested <= 1
Focus == KitchenInFocus \/ ShippingInFocus
================================================================================
