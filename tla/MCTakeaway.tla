------------------------------- MODULE MCTakeaway ------------------------------
(* An order of two dishes and one of a single dish, two shifts on one or two     *)
(* dates; an order to the central kitchen, a batch and a transfer.               *)
EXTENDS Takeaway, TLC

CONSTANTS s1, s2, d1, d2, o1, o2, k1, k2, k3, r1, r2, u1, c1, b1, t1

MCOrderOf == (k1 :> o1) @@ (k2 :> o1) @@ (k3 :> o2)
MCStock == [p \in Supply!Places |-> IF p = "store" THEN 2 ELSE 1]

Alike == Permutations({s1, s2}) \cup Permutations({k1, k2}) \cup Permutations({r1, r2})
         \cup Permutations({d1, d2})

\* The instance is explored in parts, which share the sale of an order.
CentralAtRest == central[c1].status = "none"
BatchAtRest == batch[b1] = "none"
TransferAtRest == transfer[t1].status = "none"
NothingMoved == moved = [p \in Supply!Places |-> 0]
SupplyAtRest == CentralAtRest /\ BatchAtRest /\ TransferAtRest /\ NothingMoved
CounterAtRest == \A s \in Shifts : shift[s].status = "none"
CreditAtRest == topup[u1] = "none" /\ entered.count = 0 /\ account.limit = 2
                /\ \A r \in Requests : ~Counter!InStep(r, "entry")
NothingCooked == \A t \in Tickets : ticket[t] \in {"none", "queued"}
OneShift == \E s \in Shifts : shift[s].status = "none"
OneOrder == \E o \in Orders :
    order[o].status = "none" /\ \A r \in Requests, s \in Shifts : ~Counter!Selling(o, s)
OneRequest == \E r \in Requests : request[r] = Idle

CashOnly == \A o \in Orders : order[o].method # "credit"
NoDrafts == \A o \in Orders : order[o].status # "draft"

Shifting == SupplyAtRest /\ CreditAtRest /\ NothingCooked /\ CashOnly
Cooking == SupplyAtRest /\ CreditAtRest /\ OneShift /\ OneOrder
Crediting == SupplyAtRest /\ NothingCooked /\ OneShift /\ OneOrder
             /\ \A s \in Shifts : shift[s].status # "closed"
Supplying ==
    /\ CreditAtRest /\ NothingCooked /\ OneShift /\ OneOrder /\ OneRequest
    /\ \/ BatchAtRest /\ TransferAtRest /\ NothingMoved /\ CashOnly /\ NoDrafts
       \/ CentralAtRest /\ CounterAtRest /\ \A p \in Supply!Places : moved[p] \in -1..1
Focus == Shifting \/ Cooking \/ Crediting \/ Supplying
================================================================================
