------------------------------ MODULE SupplyChain ------------------------------
(***************************************************************************)
(* The central kitchen, the transfers to a branch and the stock desk work   *)
(* on one balance of finished goods.  The kitchen adds to it and takes      *)
(* back, transfers reserve and ship it, and the stock desk (services/       *)
(* stock_service.py) corrects it or moves goods at once, whatever is        *)
(* reserved.                                                                *)
(***************************************************************************)
EXTENDS Integers, FiniteSets, FiniteSetsExt, Functions

CONSTANTS
    Lots, Ingredients, IngredientOf, Receipts, Demands, NoDemand, Orders,
    Dates, Never, Unnamed,      \* of SharedKitchen
    Transfers, Requests, Idle,  \* of TransferOrder
    MaxQty,     \* bound on a quantity
    MaxByHand   \* bound on the movements of the stock desk

ASSUME LotAssumption == Lots \subseteq Nat /\ IngredientOf \in [Lots -> Ingredients]
ASSUME DateAssumption ==
    /\ Dates \subseteq Nat /\ Never \in Nat /\ \A e \in Dates : e < Never
    /\ Unnamed \notin Dates
ASSUME DemandAssumption == NoDemand \notin Demands
ASSUME FiniteAssumption == IsFiniteSet(Lots) /\ IsFiniteSet(Orders) /\ IsFiniteSet(Transfers)
ASSUME BoundAssumption == MaxQty \in Nat /\ MaxByHand \in Nat

VARIABLES
    received, delivered, lot, demand, production, issued,   \* SharedKitchen
    transfer, request, raced, store,                        \* TransferOrder
    onHand, reserved,                                       \* the balance they share
    adjusted,                                               \* sum of the stock desk's corrections
    byHand                                                  \* history: movements of the stock desk

Kitchen == INSTANCE SharedKitchen
Shipping == INSTANCE TransferOrder

kitchenVars == <<received, delivered, lot, demand, production, issued>>
transferVars == <<transfer, request, raced, store>>
deskVars == <<adjusted, byHand>>
vars == <<kitchenVars, transferVars, onHand, reserved, deskVars>>

Init ==
    /\ Kitchen!KitchenInit /\ Shipping!TransferInit
    /\ onHand = 0 /\ reserved = 0
    /\ adjusted = 0 /\ byHand = 0

\* StockService.adjust and .transfer: the balance may not become negative, and that is all.
Adjust(q) ==
    /\ byHand < MaxByHand /\ onHand + q >= 0
    /\ onHand' = onHand + q /\ adjusted' = adjusted + q /\ byHand' = byHand + 1
    /\ UNCHANGED <<kitchenVars, transferVars, reserved>>

MoveByHand(q) ==
    /\ byHand < MaxByHand /\ onHand >= q
    /\ onHand' = onHand - q /\ store' = store + q /\ byHand' = byHand + 1
    /\ UNCHANGED <<kitchenVars, transfer, request, raced, reserved, adjusted>>

Next ==
    \/ Kitchen!Next /\ UNCHANGED <<transferVars, deskVars>>
    \/ Shipping!Next /\ UNCHANGED <<kitchenVars, deskVars>>
    \/ \E q \in {-1, 1} : Adjust(q)
    \/ MoveByHand(1)

Spec == Init /\ [][Next]_vars

--------------------------------------------------------------------------------
(* Properties *)

\* Rows have their types and balances are never negative.
TypeOK ==
    /\ Kitchen!TypeOK /\ Shipping!TypeOK
    /\ onHand \in Nat /\ reserved \in Nat
    /\ adjusted \in Int /\ byHand \in 0..MaxByHand

\* A demand of a branch is produced once (see SharedKitchen).
DemandFilledOnce == Kitchen!DemandFilledOnce

\* Material is neither lost nor doubled (see SharedKitchen).
LotsAddUp == Kitchen!LotsAddUp

\* The shipped goods of a transfer that have not arrived: on the way, or written off.
Missing == [t \in Transfers |->
    LET row == transfer[t] IN
    IF row.status \in {"in_transit", "partially_received"} THEN row.sent - row.received
    ELSE row.short]

Made == SumFunctionOnSet([o \in Orders |-> production[o].output],
                         {o \in Orders : production[o].status = "completed"})

\* Goods are never counted twice, and nothing the kitchen made vanishes: it is in READY, at
\* the branch, on the way or in a recorded shortfall, whatever production is reversed and
\* however often a receipt is sent.  Only requests that race for a transfer lose goods.
GoodsConserved ==
    /\ onHand + store <= Made + adjusted
    /\ raced = {} => onHand + store + SumFunctionOnSet(Missing, Transfers) = Made + adjusted

\* Reserved stock is exactly what approved transfers wait for, and unless the stock desk
\* took it they find it: only requests that race for a transfer can break this.
ReservationsMatchTransfers == raced = {} =>
    /\ reserved = SumFunctionOnSet([t \in Transfers |-> transfer[t].approved],
                                   {t \in Transfers : transfer[t].status = "approved"})
    /\ byHand = 0 => reserved <= onHand

\* See TransferOrder.
QuantitiesFollowStatus == Shipping!QuantitiesFollowStatus
================================================================================
