------------------------------ MODULE TakeawaySupply ---------------------------
(***************************************************************************)
(* How goods come to a Takeaway store (services/takeaway_service.py):      *)
(* orders of the store to the central kitchen, the kitchen's production    *)
(* batches, transfers between locations and movements by hand.             *)
(*                                                                         *)
(* A document of the model has one line, of a catalogue item.  Handlers    *)
(* lock the document before they read it and take one step; only           *)
(* resolve_central_order_item locks the line alone and reads the order     *)
(* beside it.  A repeated request finds its document already in the status *)
(* it asks for and changes nothing.  `stock' is shared with the counter.   *)
(***************************************************************************)
EXTENDS Integers

CONSTANTS
    CentralOrders, Batches, Transfers,
    MaxQuantity,    \* bound: quantities of lines and movements
    MaxStock        \* bound: what a place holds

VARIABLES
    stock,          \* TakeawayStockBalance.on_hand_qty of a place
    central,        \* rows of takeaway_central_orders with their line
    batch,          \* TakeawayProductionBatch.status
    transfer,       \* rows of takeaway_transfers with their line
    resolving,      \* approved quantities about to be written, their line locked
    moved           \* history: sum of the movements a place had by hand and by batches

\* The kitchen's ingredients, its products, and the products in the store.
Places == {"ingredients", "kitchen", "store"}
Quantity == 1..MaxQuantity
NULL == -1
Coalesce(q, default) == IF q = NULL THEN default ELSE q

NewLine(q) == [status |-> "submitted", quantity |-> q, approved |-> NULL, packed |-> NULL,
               shipped |-> NULL, received |-> NULL, posted |-> 0, discrepancy |-> "none"]
NewTransfer(from, to, q) == [status |-> "draft", from |-> from, to |-> to, requested |-> q,
                             shipped |-> NULL, received |-> NULL, discrepancy |-> "none"]

SupplyInit ==
    /\ central = [c \in CentralOrders |-> [NewLine(1) EXCEPT !.status = "none"]]
    /\ batch = [b \in Batches |-> "none"]
    /\ transfer = [t \in Transfers |-> [NewTransfer("kitchen", "store", 1) EXCEPT !.status = "none"]]
    /\ resolving = [c \in CentralOrders |-> NULL]
    /\ moved = [p \in Places |-> 0]

\* _apply_stock: refused if the balance would fall below zero.
ApplyStock(deltas) ==
    /\ \A p \in Places : stock[p] + deltas[p] \in 0..MaxStock
    /\ stock' = [p \in Places |-> stock[p] + deltas[p]]
At(place, q) == [p \in Places |-> IF p = place THEN q ELSE 0]

--------------------------------------------------------------------------------
(* Orders of the store to the central kitchen *)

SetCentral(c, row) ==
    /\ central' = [central EXCEPT ![c] = row]
    /\ UNCHANGED <<batch, transfer, resolving, moved>>
LineFree(c) == resolving[c] = NULL

CreateCentralOrder(c, q) ==
    /\ central[c].status = "none"
    /\ SetCentral(c, NewLine(q))
    /\ UNCHANGED stock

\* update_central_order_status: its UPDATE of the lines waits for a lock on them.
Approve(c) ==
    /\ central[c].status = "submitted" /\ LineFree(c)
    /\ SetCentral(c, [central[c] EXCEPT !.status = "approved", !.approved = central[c].quantity])
    /\ UNCHANGED stock

Advance(c, to) ==
    /\ \/ central[c].status = "submitted" /\ to = "rejected"
       \/ central[c].status = "approved" /\ to \in {"in_production", "cancelled"}
       \/ central[c].status \in {"in_production", "packed"} /\ to = "cancelled"
    /\ SetCentral(c, [central[c] EXCEPT !.status = to])
    /\ UNCHANGED stock

PackAll(c) ==
    /\ central[c].status = "in_production" /\ LineFree(c)
    /\ SetCentral(c, [central[c] EXCEPT !.status = "packed",
                        !.packed = Coalesce(central[c].approved, central[c].quantity)])
    /\ UNCHANGED stock

ShipAll(c) ==
    /\ central[c].status = "packed" /\ LineFree(c)
    /\ SetCentral(c, [central[c] EXCEPT !.status = "shipped",
                        !.shipped = Coalesce(central[c].packed,
                                             Coalesce(central[c].approved, central[c].quantity))])
    /\ UNCHANGED stock

\* The order is read without a lock while the line is locked.
LookToResolve(c, q) ==
    /\ LineFree(c)
    /\ central[c].status \in {"submitted", "approved"}
    /\ resolving' = [resolving EXCEPT ![c] = q]
    /\ UNCHANGED <<stock, central, batch, transfer, moved>>

Resolve(c) ==
    /\ ~LineFree(c)
    /\ central' = [central EXCEPT ![c].approved = resolving[c]]
    /\ resolving' = [resolving EXCEPT ![c] = NULL]
    /\ UNCHANGED <<stock, batch, transfer, moved>>

\* fulfil_central_order writes another column of the line than a resolution under way.
Ceiling(c) == Coalesce(central[c].approved, central[c].quantity)
PackQuantity(c, q) ==
    /\ central[c].status = "in_production"
    /\ q <= Ceiling(c)
    /\ SetCentral(c, [central[c] EXCEPT !.status = "packed", !.packed = q])
    /\ UNCHANGED stock

ShipQuantity(c, q) ==
    /\ central[c].status = "packed"
    /\ q <= Ceiling(c) /\ q <= Coalesce(central[c].packed, Ceiling(c))
    /\ SetCentral(c, [central[c] EXCEPT !.status = "shipped", !.shipped = q])
    /\ UNCHANGED stock

\* receive_store_central_order: the ordered quantity enters the store.
ReceiveAll(c) ==
    /\ central[c].status = "shipped"
    /\ ApplyStock(At("store", central[c].quantity))
    /\ SetCentral(c, [central[c] EXCEPT !.status = "received", !.posted = central[c].quantity])

\* Bug variant: what was counted is not compared with what was shipped.
ReceiveAnyQuantity(c, q) ==
    /\ central[c].status = "shipped"
    /\ ApplyStock(At("store", q))
    /\ SetCentral(c, [central[c] EXCEPT !.status = "received", !.received = q, !.posted = q])

\* receive_central_order_quantities: what was counted, at most what was shipped.
ReceiveQuantity(c, q) ==
    LET shipped == Coalesce(central[c].shipped, central[c].quantity)
    IN  /\ central[c].status = "shipped"
        /\ q <= shipped
        /\ ApplyStock(At("store", q))
        /\ SetCentral(c, [central[c] EXCEPT !.status = "received", !.received = q, !.posted = q,
                            !.discrepancy = IF q # shipped THEN "open" ELSE "none"])

ResolveCentralDiscrepancy(c) ==
    /\ central[c].discrepancy = "open"
    /\ SetCentral(c, [central[c] EXCEPT !.discrepancy = "resolved"])
    /\ UNCHANGED stock

--------------------------------------------------------------------------------
(* Production batches and movements by hand *)

SetBatch(b, status) ==
    /\ batch' = [batch EXCEPT ![b] = status]
    /\ UNCHANGED <<central, transfer, resolving>>

CreateBatch(b) ==
    /\ batch[b] = "none"
    /\ SetBatch(b, "planned")
    /\ UNCHANGED <<stock, moved>>

UpdateBatch(b, to) ==
    /\ \/ batch[b] = "planned" /\ to \in {"in_progress", "cancelled"}
       \/ batch[b] = "in_progress" /\ to = "cancelled"
    /\ SetBatch(b, to)
    /\ UNCHANGED <<stock, moved>>

\* Waste is taken off the item of its line, an ingredient or a product.
CompleteBatch(b, used, made, wasted) ==
    LET deltas == [p \in Places |-> CASE p = "ingredients" -> -used - wasted.ingredients
                                      [] p = "kitchen" -> made - wasted.kitchen
                                      [] OTHER -> 0]
    IN  /\ batch[b] \in {"planned", "in_progress"}
        /\ ApplyStock(deltas)
        /\ moved' = [p \in Places |-> moved[p] + deltas[p]]
        /\ SetBatch(b, "completed")

\* create_stock_movement: a receipt, an adjustment or waste.
MoveByHand(place, q) ==
    /\ ApplyStock(At(place, q))
    /\ moved' = [moved EXCEPT ![place] = @ + q]
    /\ UNCHANGED <<central, batch, transfer, resolving>>

--------------------------------------------------------------------------------
(* Transfers between locations *)

SetTransfer(t, row) ==
    /\ transfer' = [transfer EXCEPT ![t] = row]
    /\ UNCHANGED <<central, batch, resolving, moved>>

CreateTransfer(t, from, to, q) ==
    /\ transfer[t].status = "none" /\ from # to
    /\ SetTransfer(t, NewTransfer(from, to, q))
    /\ UNCHANGED stock

CancelTransfer(t) ==
    /\ transfer[t].status = "draft"
    /\ SetTransfer(t, [transfer[t] EXCEPT !.status = "cancelled"])
    /\ UNCHANGED stock

\* update_transfer ships what was requested, fulfil_transfer at most that.
ShipTransfer(t, q) ==
    /\ transfer[t].status = "draft"
    /\ q <= transfer[t].requested
    /\ ApplyStock(At(transfer[t].from, -q))
    /\ SetTransfer(t, [transfer[t] EXCEPT !.status = "shipped", !.shipped = q])

\* update_transfer: a shipment of nothing (0 is false) arrives as what was requested.
ReceiveTransfer(t) ==
    LET q == IF transfer[t].shipped = 0 THEN transfer[t].requested ELSE transfer[t].shipped
    IN  /\ transfer[t].status = "shipped"
        /\ ApplyStock(At(transfer[t].to, q))
        /\ SetTransfer(t, [transfer[t] EXCEPT !.status = "received", !.received = q])

ReceiveCounted(t, q) ==
    /\ transfer[t].status = "shipped"
    /\ q <= transfer[t].shipped
    /\ ApplyStock(At(transfer[t].to, q))
    /\ SetTransfer(t, [transfer[t] EXCEPT !.status = "received", !.received = q,
                         !.discrepancy = IF q # transfer[t].shipped THEN "open" ELSE "none"])

ResolveTransferDiscrepancy(t) ==
    /\ transfer[t].discrepancy = "open"
    /\ SetTransfer(t, [transfer[t] EXCEPT !.discrepancy = "resolved"])
    /\ UNCHANGED stock

--------------------------------------------------------------------------------
CentralStep(c) ==
    \/ Approve(c) \/ PackAll(c) \/ ShipAll(c) \/ Resolve(c) \/ ReceiveAll(c)
    \/ ResolveCentralDiscrepancy(c)
    \/ \E to \in {"rejected", "in_production", "cancelled"} : Advance(c, to)
    \/ \E q \in Quantity : CreateCentralOrder(c, q)
    \/ \E q \in 0..MaxQuantity :
          LookToResolve(c, q) \/ PackQuantity(c, q) \/ ShipQuantity(c, q) \/ ReceiveQuantity(c, q)

BatchStep(b) ==
    \/ CreateBatch(b)
    \/ \E to \in {"in_progress", "cancelled"} : UpdateBatch(b, to)
    \/ \E used, made \in Quantity, wasted \in [ingredients : 0..1, kitchen : 0..1] :
          CompleteBatch(b, used, made, wasted)

TransferStep(t) ==
    \/ \E from, to \in {"kitchen", "store"}, q \in Quantity : CreateTransfer(t, from, to, q)
    \/ CancelTransfer(t) \/ ReceiveTransfer(t) \/ ResolveTransferDiscrepancy(t)
    \/ \E q \in 0..MaxQuantity : ShipTransfer(t, q) \/ ReceiveCounted(t, q)

SupplyNext ==
    \/ \E c \in CentralOrders : CentralStep(c)
    \/ \E b \in Batches : BatchStep(b)
    \/ \E t \in Transfers : TransferStep(t)
    \/ \E place \in Places, q \in {-1, 1} : MoveByHand(place, q)
================================================================================
