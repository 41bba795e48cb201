----------------------------- MODULE SharedKitchen -----------------------------
(***************************************************************************)
(* The company's central kitchen (services/shared_kitchen_service.py): lots *)
(* of ingredients, branches' demands, production orders that draw on the    *)
(* lots first-expired first-out and add to the READY stock of the brand,    *)
(* and their reversal.                                                      *)
(*                                                                         *)
(* Every operation takes an advisory lock for its key or order and locks    *)
(* the rows it changes at their first read, so each is one step; one that   *)
(* fails rolls back, and one repeated with its key changes nothing.         *)
(*                                                                         *)
(* One brand, one product, one recipe.  The kitchen reports what it used    *)
(* and made, whatever was planned, so planned quantities are left out, as   *)
(* are units, costs and waste.                                              *)
(***************************************************************************)
EXTENDS Integers, FiniteSets, FiniteSetsExt, Functions

CONSTANTS
    Lots,           \* numbered as received
    Ingredients,
    IngredientOf,   \* [Lots -> Ingredients]
    Receipts,       \* idempotency keys of deliveries
    Demands, NoDemand,
    Orders,         \* idempotency keys of production orders
    Dates,          \* expiry dates a delivery may name
    Never, Unnamed, \* the expiry of a lot without one, a delivery that names none
    MaxQty          \* bound on a quantity delivered, used or made

VARIABLES
    received,       \* keys of the receipts that are recorded
    delivered,      \* per lot, the sum of its receipt movements
    lot,            \* rows of company_ingredient_lots
    demand,         \* CompanyProductionDemand.status
    production,     \* rows of company_production_orders
    issued,         \* per order, what its issue movements took from each lot
    onHand,         \* StockBalance of the product at the READY location
    reserved        \* its qty_reserved, which only transfers change

kitchenVars == <<received, delivered, lot, demand, production, issued>>
vars == <<kitchenVars, onHand, reserved>>

Quantity == 1..MaxQty
Nothing == [l \in Lots |-> 0]
NoOrder == [status |-> "none", demand |-> NoDemand, output |-> 0]

KitchenInit ==
    /\ received = {} /\ delivered = Nothing
    /\ lot = [l \in Lots |-> [qty |-> 0, expires |-> Never]]
    /\ demand = [d \in Demands |-> "none"]
    /\ production = [o \in Orders |-> NoOrder] /\ issued = [o \in Orders |-> Nothing]

Init == KitchenInit /\ onHand = 0 /\ reserved = 0

--------------------------------------------------------------------------------
(* Deliveries, demands and orders *)

Receive(k, l, q, e) ==
    /\ k \notin received
    /\ received' = received \cup {k}
    /\ delivered' = [delivered EXCEPT ![l] = @ + q]
    /\ lot' = [lot EXCEPT ![l] = [qty |-> @.qty + q,
                                  expires |-> IF e = Unnamed THEN @.expires ELSE e]]
    /\ UNCHANGED <<demand, production, issued, onHand, reserved>>

CreateDemand(d) ==
    /\ demand[d] = "none"
    /\ demand' = [demand EXCEPT ![d] = "submitted"]
    /\ UNCHANGED <<received, delivered, lot, production, issued, onHand, reserved>>

\* An order of its own or for a demand nobody has taken.
CreateOrder(o, d) ==
    /\ production[o].status = "none"
    /\ d # NoDemand => demand[d] = "submitted"
    /\ production' = [production EXCEPT ![o].status = "planned", ![o].demand = d]
    /\ demand' = [x \in Demands |-> IF x = d THEN "converted" ELSE demand[x]]
    /\ UNCHANGED <<received, delivered, lot, issued, onHand, reserved>>

StartOrder(o) ==
    /\ production[o].status = "planned"
    /\ production' = [production EXCEPT ![o].status = "in_progress"]
    /\ UNCHANGED <<received, delivered, lot, demand, issued, onHand, reserved>>

\* Bug variant: the demand of a cancelled order is not released.
CancelKeepsDemand(o) ==
    /\ production[o].status \in {"planned", "in_progress"}
    /\ production' = [production EXCEPT ![o].status = "cancelled"]
    /\ UNCHANGED <<received, delivered, lot, demand, issued, onHand, reserved>>

CancelOrder(o) ==
    /\ production[o].status \in {"planned", "in_progress"}
    /\ production' = [production EXCEPT ![o].status = "cancelled"]
    /\ demand' = [x \in Demands |-> IF x = production[o].demand /\ demand[x] = "converted"
                                    THEN "submitted" ELSE demand[x]]
    /\ UNCHANGED <<received, delivered, lot, issued, onHand, reserved>>

--------------------------------------------------------------------------------
(* Production *)

\* The lots that are used up before l.
Ahead(l) == {m \in Lots : /\ IngredientOf[m] = IngredientOf[l]
                          /\ \/ lot[m].expires < lot[l].expires
                             \/ lot[m].expires = lot[l].expires /\ m < l}

Stock(S) == SumFunctionOnSet([l \in Lots |-> lot[l].qty], S)

\* plan_fifo_allocations: what each lot gives when `actual' of each ingredient is used.
Allocation(actual) == [l \in Lots |->
    Max({0, Min({lot[l].qty, actual[IngredientOf[l]] - Stock(Ahead(l))})})]

Enough(actual) == \A i \in Ingredients :
    actual[i] <= Stock({l \in Lots : IngredientOf[l] = i})

CompleteOrder(o, actual, made) ==
    /\ production[o].status = "in_progress"
    /\ \E i \in Ingredients : actual[i] > 0
    /\ Enough(actual)
    /\ issued' = [issued EXCEPT ![o] = Allocation(actual)]
    /\ lot' = [l \in Lots |-> [lot[l] EXCEPT !.qty = @ - Allocation(actual)[l]]]
    /\ production' = [production EXCEPT ![o].status = "completed", ![o].output = made]
    /\ onHand' = onHand + made
    /\ UNCHANGED <<received, delivered, demand, reserved>>

\* Bug variant: a reversal repeated with another key reverses again.
ReverseAgain(o) ==
    /\ production[o].status \in {"completed", "reversed"}
    /\ onHand - reserved >= production[o].output
    /\ lot' = [l \in Lots |-> [lot[l] EXCEPT !.qty = @ + issued[o][l]]]
    /\ onHand' = onHand - production[o].output
    /\ production' = [production EXCEPT ![o].status = "reversed"]
    /\ UNCHANGED <<received, delivered, demand, issued, reserved>>

\* Only goods that are neither gone nor promised can be taken back.
ReverseOrder(o) ==
    /\ production[o].status = "completed"
    /\ onHand - reserved >= production[o].output
    /\ lot' = [l \in Lots |-> [lot[l] EXCEPT !.qty = @ + issued[o][l]]]
    /\ onHand' = onHand - production[o].output
    /\ production' = [production EXCEPT ![o].status = "reversed"]
    /\ UNCHANGED <<received, delivered, demand, issued, reserved>>

Next ==
    \/ \E k \in Receipts, l \in Lots, q \in Quantity, e \in Dates \cup {Unnamed} :
            Receive(k, l, q, e)
    \/ \E d \in Demands : CreateDemand(d)
    \/ \E o \in Orders :
        \/ \E d \in Demands \cup {NoDemand} : CreateOrder(o, d)
        \/ StartOrder(o)
        \/ CancelOrder(o)
        \/ \E actual \in [Ingredients -> 0..MaxQty], made \in Quantity :
                CompleteOrder(o, actual, made)
        \/ ReverseOrder(o)

--------------------------------------------------------------------------------
(* Properties *)

TypeOK ==
    /\ received \subseteq Receipts /\ delivered \in [Lots -> Nat]
    /\ lot \in [Lots -> [qty : Nat, expires : Dates \cup {Never}]]
    /\ demand \in [Demands -> {"none", "submitted", "converted"}]
    /\ production \in [Orders -> [
            status : {"none", "planned", "in_progress", "completed", "reversed", "cancelled"},
            demand : Demands \cup {NoDemand}, output : Nat]]
    /\ issued \in [Orders -> [Lots -> Nat]]

\* Orders that hold the demand d.
Holds(o, d) == production[o].demand = d /\ production[o].status # "cancelled"

\* A branch's demand is produced once: it is converted exactly when an order that is not
\* cancelled holds it, and no second order does, whatever is cancelled and planned again.
DemandFilledOnce == \A d \in Demands :
    /\ demand[d] = "converted" <=> \E o \in Orders : Holds(o, d)
    /\ \A o, p \in Orders : Holds(o, d) /\ Holds(p, d) => o = p

\* Each lot holds what was delivered into it less what production that stands has used:
\* completions of several orders and their reversals neither lose nor double material.
LotsAddUp == \A l \in Lots :
    delivered[l] = lot[l].qty
        + SumFunctionOnSet([o \in Orders |-> issued[o][l]],
                           {o \in Orders : production[o].status = "completed"})
================================================================================
