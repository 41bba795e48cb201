--------------------------------- MODULE Dining --------------------------------
(***************************************************************************)
(* Restaurant orders from the table to the bill (services/                 *)
(* dining_service.py, services/restaurant_cancellation_service.py and the  *)
(* routes of routers/restaurant.py that call them).                        *)
(*                                                                         *)
(* A session holds orders, an order holds items, and an item has one       *)
(* kitchen ticket.  Most handlers read rows without a lock before they     *)
(* lock them, and a row that a database session has read once keeps the    *)
(* values it was read with, lock or no lock.  So these handlers take two   *)
(* steps: the first keeps in `request' what was read, the second writes    *)
(* what follows from it.  A handler whose first read is behind the lock    *)
(* takes one step.                                                         *)
(*                                                                         *)
(* Who may do what, prices, stations and stock only refuse requests.  A    *)
(* request names the versions its device read when it began.  A session of *)
(* the model sits at a table of its own and has a queue number of its own. *)
(***************************************************************************)
EXTENDS Naturals, FiniteSets, FiniteSetsExt

CONSTANTS
    Sessions, NoSession,
    Orders,
    Items,
    OrderOf,        \* [Items -> Orders], the items of an order
    WapOrders,      \* orders a waiter's device sends with their payment
    Requests, Idle, \* slots for handlers that take more than one step
    MaxVersion      \* bound: [Orders -> Nat], the versions up to which they are worked on

ASSUME OrderOfAssumption == OrderOf \in [Items -> Orders]
ASSUME WapAssumption == WapOrders \subseteq Orders \ {"none", "table"}
ASSUME NoneAssumption == NoSession \notin Sessions
ASSUME BoundAssumption == MaxVersion \in [Orders -> Nat \ {0}]
\* An empty slot is told from one in use.
ASSUME IdleAssumption == Idle \notin
    [kind : {"wap_open", "wap_place", "wap_pay", "wap_link"}, order : WapOrders,
     session : Sessions \cup {NoSession}]

VARIABLES
    session,        \* rows of dining_sessions
    order,          \* rows of dining_orders
    item,           \* DiningOrderItem.status
    ticket,         \* KitchenTicket.status
    event,          \* items with a KitchenCancellationEvent, acknowledged or not
    waste,          \* waste postings (RestaurantCancellationWaste) of an item
    bill,           \* the sale "restaurant-session-<id>" of a session
    paid,           \* WAP orders with a sale
    request,        \* what each handler under way has read
    begun,          \* history: items the kitchen began to cook
    overwritten,    \* history: items written by a handler that had read other values,
                    \*          or worked on before they had a ticket
    overtaken,      \* history: items added or cancelled while their session is checked out
    billed,         \* history: sales an item is on
    broken          \* history: WAP orders with an attempt cut off, or two under way

rowVars == <<session, order, item, ticket>>
historyVars == <<begun, overwritten, overtaken, billed, broken>>
vars == <<rowVars, event, waste, bill, paid, request, historyVars>>

Working == {"pending", "cooking", "done", "served"}
Status == {"none", "cancelled"} \cup Working
NoBill == [items |-> {}, version |-> 0]

Init ==
    /\ session = [s \in Sessions |-> [status |-> "none", quick |-> FALSE, sale |-> "none"]]
    /\ order = [o \in Orders |-> [session |-> NoSession, status |-> "none", version |-> 0]]
    /\ item = [i \in Items |-> "none"] /\ ticket = [i \in Items |-> "none"]
    /\ event = {} /\ waste = [i \in Items |-> 0]
    /\ bill = [s \in Sessions |-> NoBill] /\ paid = {}
    /\ request = [r \in Requests |-> Idle]
    /\ begun = {} /\ overwritten = {} /\ overtaken = {}
    /\ billed = [i \in Items |-> 0] /\ broken = {}

--------------------------------------------------------------------------------
(* Helpers of the handlers *)

ItemsOf(o) == {i \in Items : OrderOf[i] = o}
OrdersOf(s) == {o \in Orders : order[o].session = s}
Active(o) == {i \in ItemsOf(o) : item[i] # "cancelled"}

\* Bug variant: cancelled items stay on the bill.
BillableWithCancelled(s) == UNION {ItemsOf(o) : o \in OrdersOf(s)}

\* What checkout_session bills.
Billable(s) == UNION {Active(o) : o \in {p \in OrdersOf(s) : order[p].status # "cancelled"}}
CartVersion(s) ==
    Max({1} \cup {order[o].version : o \in {p \in OrdersOf(s) : order[p].status # "cancelled"}})

\* Bug variant: transitions are not validated.
AnyTransition(from, to) == from # to

\* _validate_ticket_transition, for a status that changes.
Allowed(from, to) ==
    \/ from = "pending" /\ to \in {"cooking", "cancelled"}
    \/ from = "cooking" /\ to \in {"done", "cancelled"}
    \/ from = "done" /\ to = "served"

\* A handler's copy of an item and its ticket.
Seen(i) == [ticket |-> ticket[i], item |-> item[i]]

\* A column is written when its value differs from the one that was read.
Written(now, read, new) == IF read = new THEN now ELSE new

\* Bug variant: the item is not synchronised with its ticket.
WriteTicketOnly(I, seen, new) ==
    /\ ticket' = [i \in Items |-> IF i \in I THEN Written(ticket[i], seen[i].ticket, new) ELSE ticket[i]]
    /\ overwritten' = overwritten \cup {i \in I : seen[i] # Seen(i)}
    /\ begun' = IF new \in {"cooking", "done"} THEN begun \cup I ELSE begun
    /\ UNCHANGED item

\* Gives the items I status `new', by a handler that has read seen.
WriteStatus(I, seen, new) ==
    /\ item' = [i \in Items |-> IF i \in I THEN Written(item[i], seen[i].item, new) ELSE item[i]]
    /\ ticket' = [i \in Items |->
                    IF i \in I /\ seen[i].ticket # "none"
                    THEN Written(ticket[i], seen[i].ticket, new) ELSE ticket[i]]
    /\ overwritten' = overwritten \cup {i \in I : seen[i] # Seen(i)}
    /\ begun' = IF new \in {"cooking", "done"} THEN begun \cup I ELSE begun

\* An order in its session, within the bound on its versions.
WorkedOn(o) == order[o].session # NoSession /\ order[o].version < MaxVersion[o]

Free(r) == request[r] = Idle
Finish(r) == request' = [request EXCEPT ![r] = Idle]
InStep(r, kind) == request[r] # Idle /\ request[r].kind = kind

\* A session whose bill is read or sold.
InCheckout(s) == bill[s] # NoBill \/ \E r \in Requests : InStep(r, "checkout") /\ request[r].session = s

--------------------------------------------------------------------------------
(* Sessions and orders *)

OpenSession(s, quick) ==
    /\ session[s].status = "none"
    /\ session' = [session EXCEPT ![s] = [status |-> "open", quick |-> quick, sale |-> "none"]]
    /\ UNCHANGED <<order, item, ticket, event, waste, bill, paid, request, historyVars>>

\* Any session a device still names, a closed one included.
RequestBill(s) ==
    /\ session[s].status # "none"
    /\ session' = [session EXCEPT ![s].status = "bill_requested"]
    /\ UNCHANGED <<order, item, ticket, event, waste, bill, paid, request, historyVars>>

\* close_session by hand; the sale stays as it is.
CloseSession(s) ==
    /\ session[s].status # "none"
    /\ session' = [session EXCEPT ![s].status = "closed"]
    /\ UNCHANGED <<order, item, ticket, event, waste, bill, paid, request, historyVars>>

\* The order route reads the session without a lock.
LookToOrder(r, s, o) ==
    /\ Free(r)
    /\ session[s].status = "open" /\ o \notin WapOrders
    /\ request' = [request EXCEPT ![r] = [kind |-> "order", session |-> s, order |-> o]]
    /\ UNCHANGED <<rowVars, event, waste, bill, paid, historyVars>>

\* place_order: the rows of a new order; a paid order's tickets come with its slip.
AddOrder(o, s) ==
    /\ order' = [order EXCEPT ![o] = [session |-> s, status |-> "pending", version |-> 1]]
    /\ item' = [i \in Items |-> IF OrderOf[i] = o THEN "pending" ELSE item[i]]
    /\ ticket' = [i \in Items |-> IF OrderOf[i] = o /\ o \notin WapOrders THEN "pending" ELSE ticket[i]]
    /\ overtaken' = IF InCheckout(s) THEN overtaken \cup ItemsOf(o) ELSE overtaken

PlaceOrder(r) ==
    /\ InStep(r, "order")
    /\ LET o == request[r].order
       IN  IF order[o].session = NoSession
           THEN AddOrder(o, request[r].session)
           ELSE UNCHANGED <<order, item, ticket, overtaken>>
    /\ Finish(r)
    /\ UNCHANGED <<session, event, waste, bill, paid, begun, overwritten, billed, broken>>

--------------------------------------------------------------------------------
(* The kitchen *)

\* update_ticket reads the ticket, update_ticket_status the item.  A ticket with no way
\* on is refused.
LookToCook(r, i) ==
    /\ Free(r)
    /\ WorkedOn(OrderOf[i]) /\ \E new \in Working : Allowed(ticket[i], new)
    /\ request' = [request EXCEPT ![r] = [kind |-> "ticket", item |-> i, seen |-> Seen(i)]]
    /\ UNCHANGED <<rowVars, event, waste, bill, paid, historyVars>>

\* The order was read behind its lock, the ticket that decides before.
UpdateTicket(r, new) ==
    /\ InStep(r, "ticket")
    /\ LET i == request[r].item
           o == OrderOf[i]
       IN  /\ Allowed(request[r].seen.ticket, new) /\ new # "cancelled"
           /\ WorkedOn(o)
           /\ WriteStatus({i}, [j \in {i} |-> request[r].seen], new)
           /\ order' = [order EXCEPT ![o].version = @ + 1]
    /\ Finish(r)
    /\ UNCHANGED <<session, event, waste, bill, paid, overtaken, billed, broken>>

\* The item route reads item, order and session.
LookAtItem(r, i) ==
    /\ Free(r)
    /\ WorkedOn(OrderOf[i]) /\ item[i] # "none"
    /\ LET o == OrderOf[i]
       IN  /\ session[order[o].session].status # "closed"
           /\ request' = [request EXCEPT ![r] =
                    [kind |-> "item", item |-> i, seen |-> item[i], version |-> order[o].version]]
    /\ UNCHANGED <<rowVars, event, waste, bill, paid, historyVars>>

\* update_order_item_status: only the ticket is read behind its lock.
UpdateItem(r, new) ==
    /\ InStep(r, "item")
    /\ LET i == request[r].item
           o == OrderOf[i]
           decides == IF ticket[i] = "none" THEN request[r].seen ELSE ticket[i]
           read == [ticket |-> ticket[i], item |-> request[r].seen]
       IN  /\ Allowed(decides, new) /\ new # "cancelled"
           /\ request[r].version < MaxVersion[o]
           /\ WriteStatus({i}, [j \in {i} |-> read], new)
           /\ order' = [order EXCEPT ![o].version = request[r].version + 1]
    /\ Finish(r)
    /\ UNCHANGED <<session, event, waste, bill, paid, overtaken, billed, broken>>

\* mark_pickup_session_served takes no lock at all.
TicketsOf(s) == {i \in Items : order[OrderOf[i]].session = s /\ ticket[i] # "none"}

LookToPickUp(r, s) ==
    /\ Free(r)
    /\ session[s].quick /\ session[s].status = "open"
    /\ \A i \in TicketsOf(s) : ticket[i] \notin {"pending", "cooking"}
    /\ LET ready == {i \in TicketsOf(s) : ticket[i] = "done"}
       IN  /\ ready # {}
           /\ request' = [request EXCEPT ![r] =
                    [kind |-> "pickup", seen |-> [i \in ready |-> Seen(i)]]]
    /\ UNCHANGED <<rowVars, event, waste, bill, paid, historyVars>>

MarkServed(r) ==
    /\ InStep(r, "pickup")
    /\ WriteStatus(DOMAIN request[r].seen, request[r].seen, "served")
    /\ Finish(r)
    /\ UNCHANGED <<session, order, event, waste, bill, paid, overtaken, billed, broken>>

--------------------------------------------------------------------------------
(* Cancellation *)

\* _load_target: a session that is closed or sold takes none.
SessionTakesCancellation(s) == session[s].status # "closed" /\ session[s].sale = "none"

\* Bug variant: a pending item keeps the whole order free of waste.
WastedUnlessPending(stages) == "pending" \notin stages

\* The highest stage decides for the whole target.
Wasted(stages) == stages \cap {"cooking", "done"} # {}

\* execute, for items I of order o that were read as `stages' say.
Cancel(I, o, stages) ==
    /\ I # {}
    /\ SessionTakesCancellation(order[o].session)
    /\ stages \subseteq {"pending", "cooking", "done"}
    /\ \A i \in I : ticket[i] # "none"
    /\ WorkedOn(o)
    /\ item' = [i \in Items |-> IF i \in I THEN "cancelled" ELSE item[i]]
    /\ ticket' = [i \in Items |-> IF i \in I THEN "cancelled" ELSE ticket[i]]
    /\ event' = event \cup I
    /\ waste' = [i \in Items |-> IF i \in I /\ Wasted(stages) THEN waste[i] + 1 ELSE waste[i]]
    /\ order' = [order EXCEPT ![o].version = @ + 1,
                              ![o].status = IF Active(o) \subseteq I THEN "cancelled" ELSE @]
    /\ overtaken' = IF InCheckout(order[o].session) THEN overtaken \cup I ELSE overtaken

\* A whole order: its rows are read behind the lock of the order.
CancelOrder(o) ==
    /\ order[o].session # NoSession
    /\ Cancel(Active(o), o, {item[i] : i \in Active(o)})
    /\ UNCHANGED <<session, bill, paid, request, begun, overwritten, billed, broken>>

\* A single item is read before the lock, to find its order.
LookToCancel(r, i) ==
    /\ Free(r)
    /\ WorkedOn(OrderOf[i]) /\ item[i] \in {"pending", "cooking", "done"}
    /\ request' = [request EXCEPT ![r] = [kind |-> "cancel", item |-> i, seen |-> item[i],
                                          version |-> order[OrderOf[i]].version]]
    /\ UNCHANGED <<rowVars, event, waste, bill, paid, historyVars>>

\* The version the device names must still be the order's.
VersionCurrent(r) == order[OrderOf[request[r].item]].version = request[r].version

CancelItem(r) ==
    /\ InStep(r, "cancel")
    /\ VersionCurrent(r)
    /\ LET i == request[r].item
       IN  /\ Cancel({i}, OrderOf[i], {request[r].seen})
           /\ overwritten' = IF request[r].seen = item[i] THEN overwritten
                             ELSE overwritten \cup {i}
    /\ Finish(r)
    /\ UNCHANGED <<session, bill, paid, begun, billed, broken>>

\* reopen: a new order with what was cancelled, behind the lock of the session.
Reopen(i, o) ==
    /\ i \in event
    /\ order[o].session = NoSession /\ o \notin WapOrders
    /\ LET s == order[OrderOf[i]].session
       IN  SessionTakesCancellation(s) /\ AddOrder(o, s)
    /\ UNCHANGED <<session, event, waste, bill, paid, request, begun, overwritten, billed, broken>>

--------------------------------------------------------------------------------
(* The bill *)

\* checkout_session reads session, orders and items; it locks none of them.
LookToCheckout(r, s) ==
    /\ Free(r)
    /\ session[s].status \in {"open", "bill_requested"}
    /\ Billable(s) # {}
    /\ session[s].quick => \A i \in Billable(s) : item[i] = "served"
    /\ request' = [request EXCEPT ![r] = [kind |-> "checkout", session |-> s,
            bill |-> [items |-> Billable(s), version |-> CartVersion(s)]]]
    /\ UNCHANGED <<rowVars, event, waste, bill, paid, historyVars>>

AddToBills(I) == billed' = [i \in Items |-> IF i \in I THEN billed[i] + 1 ELSE billed[i]]

\* Bug variant: the sale's key is new in every attempt.
PayBillAgain(r) ==
    /\ InStep(r, "checkout")
    /\ bill' = [bill EXCEPT ![request[r].session] = request[r].bill]
    /\ AddToBills(request[r].bill.items)
    /\ request' = [request EXCEPT ![r].kind = "close"]
    /\ UNCHANGED <<rowVars, event, waste, paid, begun, overwritten, overtaken, broken>>

\* create_sale under the session's key: a repeat gives the same sale if it is the
\* same request, the cart's version included, and is refused otherwise.
PayBill(r) ==
    /\ InStep(r, "checkout")
    /\ LET s == request[r].session
           b == request[r].bill
       IN  /\ bill[s] \in {NoBill, b}
           /\ bill' = [bill EXCEPT ![s] = b]
           /\ IF bill[s] = NoBill THEN AddToBills(b.items) ELSE UNCHANGED billed
    /\ request' = [request EXCEPT ![r].kind = "close"]
    /\ UNCHANGED <<rowVars, event, waste, paid, begun, overwritten, overtaken, broken>>

\* close_session with the sale, a transaction of its own.
CloseSold(r) ==
    /\ InStep(r, "close")
    /\ session' = [session EXCEPT ![request[r].session] =
                        [@ EXCEPT !.status = "closed", !.sale = "table"]]
    /\ Finish(r)
    /\ UNCHANGED <<order, item, ticket, event, waste, bill, paid, historyVars>>

--------------------------------------------------------------------------------
(* Orders a waiter's device sends paid (create_wap_paid_order).  Every step *)
(* is a transaction of its own; a device repeats an order it has no answer  *)
(* for.                                                                     *)

Attempting(o) == {r \in Requests : request[r] # Idle /\ request[r].kind \in
                    {"wap_open", "wap_place", "wap_pay", "wap_link"} /\ request[r].order = o}

\* An order whose sale is linked to a session is answered.
WapLookup(r, o) ==
    /\ Free(r)
    /\ \A s \in Sessions : session[s].sale # o
    /\ request' = [request EXCEPT ![r] = [kind |-> "wap_open", order |-> o, session |-> NoSession]]
    /\ broken' = IF Attempting(o) = {} THEN broken ELSE broken \cup {o}
    /\ UNCHANGED <<rowVars, event, waste, bill, paid, begun, overwritten, overtaken, billed>>

WapOpen(r, s) ==
    /\ InStep(r, "wap_open")
    /\ session[s].status = "none"
    /\ session' = [session EXCEPT ![s] = [status |-> "open", quick |-> TRUE, sale |-> "none"]]
    /\ request' = [request EXCEPT ![r].kind = "wap_place", ![r].session = s]
    /\ UNCHANGED <<order, item, ticket, event, waste, bill, paid, historyVars>>

\* The order's key is the client's: a repeat finds the order of the first attempt.
WapPlace(r) ==
    /\ InStep(r, "wap_place")
    /\ LET o == request[r].order
       IN  IF order[o].session = NoSession THEN AddOrder(o, request[r].session)
           ELSE UNCHANGED <<order, item, ticket, overtaken>>
    /\ request' = [request EXCEPT ![r].kind = "wap_pay"]
    /\ UNCHANGED <<session, event, waste, bill, paid, begun, overwritten, billed, broken>>

\* Bug variant: the sale is not linked to the session.
WapPayAndReply(r) ==
    /\ InStep(r, "wap_pay")
    /\ LET o == request[r].order
       IN  /\ o \notin paid
           /\ paid' = paid \cup {o}
           /\ AddToBills(ItemsOf(o))
    /\ Finish(r)
    /\ UNCHANGED <<rowVars, event, waste, bill, begun, overwritten, overtaken, broken>>

\* The sale's key is the client's too, but its note has the queue number of the
\* session, so a repeat of a sale differs from it and is refused.
WapPay(r) ==
    /\ InStep(r, "wap_pay")
    /\ LET o == request[r].order
       IN  /\ o \notin paid
           /\ paid' = paid \cup {o}
           /\ AddToBills(ItemsOf(o))
    /\ request' = [request EXCEPT ![r].kind = "wap_link"]
    /\ UNCHANGED <<rowVars, event, waste, bill, begun, overwritten, overtaken, broken>>

WapLink(r) ==
    /\ InStep(r, "wap_link")
    /\ session' = [session EXCEPT ![request[r].session].sale = request[r].order]
    /\ Finish(r)
    /\ UNCHANGED <<order, item, ticket, event, waste, bill, paid, historyVars>>

\* Bug variant: the slip prints dishes that were not ordered.
PrintMenu(s) ==
    /\ session[s].sale # "none"
    /\ ticket' = [i \in Items |-> IF ticket[i] = "none" THEN "pending" ELSE ticket[i]]
    /\ UNCHANGED <<session, order, item, event, waste, bill, paid, request, historyVars>>

\* mark_kitchen_slip_printed: the session's items that have no ticket get one.
PrintKitchenSlip(s) ==
    /\ session[s].sale # "none"
    /\ LET missing == {i \in Billable(s) : ticket[i] = "none"}
       IN  /\ missing # {}
           /\ ticket' = [i \in Items |-> IF i \in missing THEN "pending" ELSE ticket[i]]
           /\ overwritten' = overwritten \cup {i \in missing : item[i] # "pending"}
    /\ UNCHANGED <<session, order, item, event, waste, bill, paid, request, begun, overtaken,
                   billed, broken>>

--------------------------------------------------------------------------------

\* A refusal, an error or a crash: what was committed stays, the rest is gone.
Abort(r) ==
    /\ ~Free(r)
    /\ broken' = IF request[r].kind \in {"wap_place", "wap_pay", "wap_link"}
                 THEN broken \cup {request[r].order} ELSE broken
    /\ Finish(r)
    /\ UNCHANGED <<rowVars, event, waste, bill, paid, begun, overwritten, overtaken, billed>>

SessionStep(s) ==
    \/ \E quick \in BOOLEAN : OpenSession(s, quick)
    \/ RequestBill(s) \/ CloseSession(s) \/ PrintKitchenSlip(s)

Look(r) ==
    \/ \E s \in Sessions : \/ \E o \in Orders : LookToOrder(r, s, o)
                           \/ LookToPickUp(r, s) \/ LookToCheckout(r, s)
    \/ \E i \in Items : LookToCook(r, i) \/ LookAtItem(r, i) \/ LookToCancel(r, i)
    \/ \E o \in WapOrders : WapLookup(r, o)

Write(r) ==
    \/ PlaceOrder(r) \/ MarkServed(r) \/ CancelItem(r) \/ PayBill(r) \/ CloseSold(r)
    \/ \E new \in Working : UpdateTicket(r, new) \/ UpdateItem(r, new)
    \/ \E s \in Sessions : WapOpen(r, s)
    \/ WapPlace(r) \/ WapPay(r) \/ WapLink(r)
    \/ Abort(r)

Next ==
    \/ \E s \in Sessions : SessionStep(s)
    \/ \E r \in Requests : Look(r) \/ Write(r)
    \/ \E o \in Orders : CancelOrder(o)
    \/ \E i \in Items, o \in Orders : Reopen(i, o)

Spec == Init /\ [][Next]_vars

--------------------------------------------------------------------------------
(* Properties *)

\* The rows have their types; an item exists with its order, a ticket with its item.
TypeOK ==
    /\ \A s \in Sessions : /\ session[s].status \in {"none", "open", "bill_requested", "closed"}
                           /\ session[s].sale \in {"none", "table"} \cup WapOrders
                           /\ bill[s].items \subseteq Items
    /\ \A o \in Orders : /\ order[o].session \in Sessions \cup {NoSession}
                         /\ order[o].status \in {"none", "pending", "cancelled"}
                         /\ order[o].version \in 0..MaxVersion[o]
    /\ \A i \in Items : /\ item[i] \in Status /\ ticket[i] \in Status
                        /\ item[i] = "none" <=> order[OrderOf[i]].session = NoSession
                        /\ ticket[i] # "none" => item[i] # "none"
                        /\ waste[i] \in Nat
    /\ event \subseteq Items /\ paid \subseteq WapOrders

\* A cancelled item is never worked on again, unless a handler writes it that had read
\* it before the cancellation: the transitions lead nowhere from "cancelled".
CancelledIsFinal == [][\A i \in Items :
    item[i] = "cancelled" /\ item'[i] # "cancelled" => i \in overwritten']_vars

\* Kitchen and bill see the same dish: an item and its ticket have one status, and an
\* order is cancelled when all of its items are, unless a handler wrote over a change.
TicketFollowsItem ==
    /\ \A i \in Items \ overwritten : ticket[i] \in {"none", item[i]}
    /\ \A o \in Orders : order[o].status = "cancelled" =>
            \A i \in ItemsOf(o) \ overwritten : item[i] = "cancelled"

\* Food that was cancelled after the kitchen began is written off once, and food that was
\* not cancelled never, whatever is cancelled with it, repeated or reopened.
WastedOnce == \A i \in Items \ overwritten :
    /\ waste[i] <= 1
    /\ waste[i] = 1 => item[i] = "cancelled"
    /\ item[i] = "cancelled" /\ i \in begun => waste[i] = 1

\* The sale that closed a session has exactly the dishes that are not cancelled, but for
\* those ordered or cancelled after the checkout had read them; and a dish is on one sale,
\* however often checkout is repeated: only a paid order whose session is checked out as
\* well is on two.
BillMatchesTable ==
    /\ \A s \in Sessions : session[s].sale = "table" =>
        \A o \in OrdersOf(s) : \A i \in ItemsOf(o) \ (overwritten \cup overtaken) :
            i \in bill[s].items <=> item[i] # "cancelled"
    /\ \A i \in Items : billed[i] > 1 =>
        OrderOf[i] \in paid /\ billed[i] = 2 /\ i \in bill[order[OrderOf[i]].session].items

\* The session a waiter's paid order is linked to holds the order, so that its kitchen
\* slip prints the dishes, unless an attempt was cut off or ran beside another.
PaidOrderIsInItsSession == \A o \in paid \ broken :
    \/ Attempting(o) # {}
    \/ session[order[o].session].sale \in {o, "table"}
================================================================================
