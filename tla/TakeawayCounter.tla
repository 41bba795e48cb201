----------------------------- MODULE TakeawayCounter ---------------------------
(***************************************************************************)
(* The counter of a Takeaway store (services/takeaway_service.py): shifts, *)
(* orders sold at the counter or placed from a link and paid later, the    *)
(* kitchen's tickets, the hand-out, refunds and the store's credit.        *)
(*                                                                         *)
(* A handler takes one step when it locks before it reads.  A handler that *)
(* reads rows first keeps what it read in `request' until it writes:       *)
(* open_shift, create_public_order and create_sale read shifts without a   *)
(* lock, create_credit_entry loads the account before it locks it and      *)
(* keeps the values it loaded, and update_kitchen_ticket cannot see the    *)
(* tickets other transactions are about to finish.                         *)
(*                                                                         *)
(* A dish costs one, is one ticket and one unit of the store's stock, and  *)
(* a shift opens with an empty drawer.  A payment that is neither cash nor *)
(* credit moves no balance and is left out, as are receipts and tokens.    *)
(***************************************************************************)
EXTENDS Integers, FiniteSets, FiniteSetsExt

CONSTANTS
    Shifts, NoShift, Dates,
    Orders,
    Tickets, OrderOf,   \* [Tickets -> Orders], the dishes of an order
    Topups,
    Requests, Idle,     \* slots for handlers that take two steps
    Limits,             \* credit limits that are set
    MaxEntries          \* bound: credit entries by hand

VARIABLES
    stock,              \* of the places of TakeawaySupply
    shift,              \* rows of takeaway_shifts
    order,              \* rows of takeaway_orders with their payment
    ticket,             \* TakeawayKitchenTicket.status
    account,            \* the store's row of takeaway_credit_accounts
    topup,              \* TakeawayCreditTopupRequest.status
    request,            \* what each handler under way has read
    entered,            \* history: number and sum of credit entries by hand and by top-up
    lost,               \* history: what entries by hand have overwritten in the balance
    overlooked,         \* history: unpaid orders and sales under way at the close of a shift
    returned,           \* history: orders refunded while their shift was open
    crossed,            \* history: orders with two tickets being finished at once
    revived             \* history: orders whose last dish was finished after their refund

counterHistory == <<entered, lost, overlooked, returned, crossed, revived>>

CounterInit ==
    /\ shift = [s \in Shifts |-> [status |-> "none", date |-> "none", expected |-> 0]]
    /\ order = [o \in Orders |-> [status |-> "none", shift |-> NoShift,
                                  fulfillment |-> "none", method |-> "none"]]
    /\ ticket = [t \in Tickets |-> "none"]
    /\ account = [balance |-> 0, limit |-> Min(Limits)]
    /\ topup = [u \in Topups |-> "none"]
    /\ request = [r \in Requests |-> Idle]
    /\ entered = [count |-> 0, sum |-> 0] /\ lost = 0
    /\ overlooked = {} /\ returned = {} /\ crossed = {} /\ revived = {}

--------------------------------------------------------------------------------
(* Helpers of the handlers *)

Dishes(o) == {t \in Tickets : OrderOf[t] = o}
Cost(O) == Cardinality({t \in Tickets : OrderOf[t] \in O})
Prepared(o) == \A t \in Dishes(o) : ticket[t] = "ready"
OpenShifts == {s \in Shifts : shift[s].status = "open"}
RoundsOf(d) == {s \in Shifts : shift[s].status # "none" /\ shift[s].date = d}

\* A shift's orders that were paid in cash, refunded since or not.
\* Bug variant: close_shift sums them all.
CashOrdersEverPaid(s) ==
    {o \in Orders : order[o].shift = s /\ order[o].status \in {"paid", "refunded"}
                    /\ order[o].method = "cash"}

\* What close_shift sums: captured cash payments of the shift's paid orders.
CashOrders(s) ==
    {o \in Orders : order[o].shift = s /\ order[o].status = "paid" /\ order[o].method = "cash"}

InStep(r, kind) == request[r] # Idle /\ request[r].kind = kind
Begin(r, what) == request[r] = Idle /\ request' = [request EXCEPT ![r] = what]
Finish(r) == request' = [request EXCEPT ![r] = Idle]
Cooking(t) == \E r \in Requests : InStep(r, "finish") /\ request[r].ticket = t
Selling(o, s) == \E r \in Requests :
    (InStep(r, "draft") \/ InStep(r, "sale")) /\ request[r].order = o /\ request[r].shift = s

\* Bug variant: the balance is not checked.
TakeUnchecked(q) == stock' = [stock EXCEPT !["store"] = @ - q]

\* _apply_stock on the store's balance.
TakeFromStore(q) ==
    /\ stock["store"] >= q
    /\ stock' = [stock EXCEPT !["store"] = @ - q]

\* _apply_credit on the account read behind its lock.
Charge(amount) ==
    /\ account.balance + amount \in 0..account.limit
    /\ account' = [account EXCEPT !.balance = @ + amount]

\* The payment of an order: stock goes out, a credit order is charged.
Pay(o, method) ==
    /\ TakeFromStore(Cost({o}))
    /\ IF method = "credit" THEN Charge(Cost({o})) ELSE UNCHANGED account
    /\ ticket' = [t \in Tickets |-> IF t \in Dishes(o) THEN "queued" ELSE ticket[t]]

Paid(s, method) == [status |-> "paid", shift |-> s, fulfillment |-> "queued", method |-> method]

--------------------------------------------------------------------------------
(* Shifts *)

LookToOpen(r, d) ==
    /\ OpenShifts = {}
    /\ Begin(r, [kind |-> "open", date |-> d, round |-> Cardinality(RoundsOf(d)) + 1])
    /\ UNCHANGED <<stock, shift, order, ticket, account, topup, counterHistory>>

\* The round of a date is unique; a second handler that read the same number fails.
OpenShift(r, s) ==
    /\ InStep(r, "open") /\ shift[s].status = "none"
    /\ request[r].round = Cardinality(RoundsOf(request[r].date)) + 1
    /\ shift' = [shift EXCEPT ![s] = [status |-> "open", date |-> request[r].date, expected |-> 0]]
    /\ Finish(r)
    /\ UNCHANGED <<stock, order, ticket, account, topup, counterHistory>>

CloseShift(s) ==
    /\ shift[s].status = "open"
    /\ shift' = [shift EXCEPT ![s].status = "closed", ![s].expected = Cost(CashOrders(s))]
    /\ overlooked' = overlooked \cup
         {<<o, s>> : o \in {p \in Orders :
                         \/ order[p].status = "none" /\ Selling(p, s)
                         \/ order[p].status = "draft" /\ order[p].shift = s}}
    /\ UNCHANGED <<stock, order, ticket, account, topup, request, entered, lost, returned,
                   crossed, revived>>

--------------------------------------------------------------------------------
(* Orders and payments *)

\* create_public_order and create_sale read the shift without a lock.
LookToOrder(r, kind, o, s) ==
    /\ order[o].status = "none"
    /\ shift[s].status = "open"
    /\ Begin(r, [kind |-> kind, order |-> o, shift |-> s])
    /\ UNCHANGED <<stock, shift, order, ticket, account, topup, counterHistory>>

\* The idempotency key of an order is unique.
PlaceOrder(r) ==
    LET o == request[r].order
    IN  /\ InStep(r, "draft") /\ order[o].status = "none"
        /\ order' = [order EXCEPT ![o] = [status |-> "draft", shift |-> request[r].shift,
                       fulfillment |-> "awaiting_payment", method |-> "none"]]
        /\ Finish(r)
        /\ UNCHANGED <<stock, shift, ticket, account, topup, counterHistory>>

Sell(r, method) ==
    LET o == request[r].order
    IN  /\ InStep(r, "sale") /\ order[o].status = "none"
        /\ Pay(o, method)
        /\ order' = [order EXCEPT ![o] = Paid(request[r].shift, method)]
        /\ Finish(r)
        /\ UNCHANGED <<shift, topup, counterHistory>>

\* Bug variant: a payment with another key pays a paid order again.
CaptureAgain(o, method) ==
    /\ order[o].status \in {"draft", "paid"}
    /\ Pay(o, method)
    /\ order' = [order EXCEPT ![o] = Paid(order[o].shift, method)]
    /\ UNCHANGED <<shift, topup, request, counterHistory>>

\* capture_order_payment: whatever has become of the shift.
CapturePayment(o, method) ==
    /\ order[o].status = "draft" /\ order[o].fulfillment = "awaiting_payment"
    /\ Pay(o, method)
    /\ order' = [order EXCEPT ![o] = Paid(order[o].shift, method)]
    /\ UNCHANGED <<shift, topup, request, counterHistory>>

\* The tickets and the closed shift stay as they are.
RefundOrder(o) ==
    /\ order[o].status = "paid"
    /\ TakeFromStore(-Cost({o}))
    /\ IF order[o].method = "credit" THEN Charge(-Cost({o})) ELSE UNCHANGED account
    /\ order' = [order EXCEPT ![o].status = "refunded", ![o].fulfillment = "cancelled"]
    /\ returned' = IF shift[order[o].shift].status = "open" THEN returned \cup {o} ELSE returned
    /\ UNCHANGED <<shift, ticket, topup, request, entered, lost, overlooked, crossed, revived>>

--------------------------------------------------------------------------------
(* The kitchen and the hand-out *)

StartTicket(t) ==
    /\ ticket[t] = "queued"
    /\ ticket' = [ticket EXCEPT ![t] = "preparing"]
    /\ UNCHANGED <<stock, shift, order, account, topup, request, counterHistory>>

\* The ticket is locked; what other transactions have not committed is not seen.
LookToFinish(r, t) ==
    /\ ticket[t] = "preparing" /\ ~Cooking(t)
    /\ Begin(r, [kind |-> "finish", ticket |-> t,
                 last |-> \A u \in Dishes(OrderOf[t]) \ {t} : ticket[u] = "ready"])
    /\ crossed' = IF \E u \in Dishes(OrderOf[t]) : Cooking(u) THEN crossed \cup {OrderOf[t]} ELSE crossed
    /\ UNCHANGED <<stock, shift, order, ticket, account, topup, entered, lost, overlooked,
                   returned, revived>>

FinishTicket(r) ==
    LET t == request[r].ticket
        o == OrderOf[t]
    IN  /\ InStep(r, "finish")
        /\ ticket' = [ticket EXCEPT ![t] = "ready"]
        /\ order' = IF request[r].last THEN [order EXCEPT ![o].fulfillment = "ready"] ELSE order
        /\ revived' = IF request[r].last /\ order[o].status = "refunded"
                      THEN revived \cup {o} ELSE revived
        /\ Finish(r)
        /\ UNCHANGED <<stock, shift, account, topup, entered, lost, overlooked, returned, crossed>>

\* Bug variant: the order advances without its tickets.
AdvanceOrderOnly(o, from, to) ==
    /\ order[o].fulfillment = from
    /\ \A t \in Dishes(o) : ~Cooking(t)
    /\ order' = [order EXCEPT ![o].fulfillment = to]
    /\ UNCHANGED <<stock, shift, ticket, account, topup, request, counterHistory>>

\* update_fulfillment_order: the order, then its tickets, wherever they are.
AdvanceOrder(o, from, to) ==
    /\ order[o].fulfillment = from
    /\ \A t \in Dishes(o) : ~Cooking(t)
    /\ order' = [order EXCEPT ![o].fulfillment = to]
    /\ ticket' = [t \in Tickets |-> IF t \in Dishes(o) THEN to ELSE ticket[t]]
    /\ UNCHANGED <<stock, shift, account, topup, request, counterHistory>>

PickUp(o) ==
    /\ order[o].fulfillment = "ready"
    /\ order' = [order EXCEPT ![o].fulfillment = "picked_up"]
    /\ UNCHANGED <<stock, shift, ticket, account, topup, request, counterHistory>>

--------------------------------------------------------------------------------
(* The store's credit *)

SetLimit(limit) ==
    /\ account' = [account EXCEPT !.limit = limit]
    /\ UNCHANGED <<stock, shift, order, ticket, topup, request, counterHistory>>

CanEnter == entered.count < MaxEntries
Enter(amount) == entered' = [count |-> entered.count + 1, sum |-> entered.sum + amount]

\* create_credit_entry loads the account, and computes with it behind the lock.
LookToEnter(r) ==
    /\ CanEnter
    /\ Begin(r, [kind |-> "entry", balance |-> account.balance, limit |-> account.limit])
    /\ UNCHANGED <<stock, shift, order, ticket, account, topup, counterHistory>>

EnterCredit(r, amount) ==
    LET next == request[r].balance + amount
    IN  /\ InStep(r, "entry") /\ CanEnter
        /\ next \in 0..request[r].limit
        /\ account' = [account EXCEPT !.balance = next]
        /\ lost' = lost + account.balance - request[r].balance
        /\ Enter(amount)
        /\ Finish(r)
        /\ UNCHANGED <<stock, shift, order, ticket, topup, overlooked, returned, crossed, revived>>

RequestTopup(u) ==
    /\ topup[u] = "none"
    /\ topup' = [topup EXCEPT ![u] = "pending"]
    /\ UNCHANGED <<stock, shift, order, ticket, account, request, counterHistory>>

ApproveTopup(u) ==
    /\ topup[u] = "pending" /\ CanEnter
    /\ Charge(-1) /\ Enter(-1)
    /\ topup' = [topup EXCEPT ![u] = "approved"]
    /\ UNCHANGED <<stock, shift, order, ticket, request, lost, overlooked, returned, crossed, revived>>

RejectTopup(u) ==
    /\ topup[u] = "pending"
    /\ topup' = [topup EXCEPT ![u] = "rejected"]
    /\ UNCHANGED <<stock, shift, order, ticket, account, request, counterHistory>>

--------------------------------------------------------------------------------
\* A handler fails or dies between its steps: its transaction is rolled back.
Abort(r) ==
    /\ request[r] # Idle
    /\ Finish(r)
    /\ UNCHANGED <<stock, shift, order, ticket, account, topup, counterHistory>>

RequestStep(r) ==
    \/ Abort(r) \/ PlaceOrder(r) \/ FinishTicket(r) \/ LookToEnter(r)
    \/ \E d \in Dates : LookToOpen(r, d)
    \/ \E s \in Shifts : OpenShift(r, s)
    \/ \E kind \in {"draft", "sale"}, o \in Orders, s \in Shifts : LookToOrder(r, kind, o, s)
    \/ \E method \in {"cash", "credit"} : Sell(r, method)
    \/ \E t \in Tickets : LookToFinish(r, t)
    \/ \E amount \in {-1, 1} : EnterCredit(r, amount)

OrderStep(o) ==
    \/ RefundOrder(o) \/ PickUp(o)
    \/ \E method \in {"cash", "credit"} : CapturePayment(o, method)
    \/ AdvanceOrder(o, "queued", "preparing") \/ AdvanceOrder(o, "preparing", "ready")

CounterNext ==
    \/ \E r \in Requests : RequestStep(r)
    \/ \E o \in Orders : OrderStep(o)
    \/ \E s \in Shifts : CloseShift(s)
    \/ \E t \in Tickets : StartTicket(t)
    \/ \E u \in Topups : RequestTopup(u) \/ ApproveTopup(u) \/ RejectTopup(u)
    \/ \E limit \in Limits : SetLimit(limit)
================================================================================
