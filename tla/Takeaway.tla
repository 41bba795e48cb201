--------------------------------- MODULE Takeaway ------------------------------
(***************************************************************************)
(* A Takeaway store: its counter and its supply, which share the stock of  *)
(* the store.                                                              *)
(***************************************************************************)
EXTENDS Integers, FiniteSets, FiniteSetsExt, Functions

CONSTANTS
    Shifts, NoShift, Dates, Orders, Tickets, OrderOf, Topups, Requests, Idle, Limits,
    CentralOrders, Batches, Transfers,
    StockAtStart,   \* what each place holds at first
    MaxEntries, MaxQuantity, MaxStock

ASSUME OrderAssumption == OrderOf \in [Tickets -> Orders] /\ IsFiniteSet(Tickets)
ASSUME DishAssumption == \A o \in Orders : \E t \in Tickets : OrderOf[t] = o
ASSUME ShiftAssumption == NoShift \notin Shifts /\ Dates # {} /\ IsFiniteSet(Shifts)
ASSUME LimitAssumption == Limits \in SUBSET Nat /\ Limits # {}
ASSUME DocumentAssumption == IsFiniteSet(CentralOrders) /\ IsFiniteSet(Transfers)
ASSUME BoundAssumption == MaxQuantity \in Nat \ {0} /\ MaxStock \in Nat /\ MaxEntries \in Nat

VARIABLES
    stock,
    shift, order, ticket, account, topup, request,
    entered, lost, overlooked, returned, crossed, revived,
    central, batch, transfer, resolving, moved

Counter == INSTANCE TakeawayCounter
Supply == INSTANCE TakeawaySupply

counterVars == <<shift, order, ticket, account, topup, request,
                 entered, lost, overlooked, returned, crossed, revived>>
supplyVars == <<central, batch, transfer, resolving, moved>>
vars == <<stock, counterVars, supplyVars>>

ASSUME StockAssumption == StockAtStart \in [Supply!Places -> 0..MaxStock]

Init ==
    /\ stock = StockAtStart
    /\ Counter!CounterInit /\ Supply!SupplyInit

Next ==
    \/ Counter!CounterNext /\ UNCHANGED supplyVars
    \/ Supply!SupplyNext /\ UNCHANGED counterVars

Spec == Init /\ [][Next]_vars

--------------------------------------------------------------------------------
(* Properties *)

Quantities == 0..MaxQuantity
Nullable == Quantities \cup {Supply!NULL}
Fulfillment == {"none", "awaiting_payment", "queued", "preparing", "ready", "picked_up", "cancelled"}
Reading ==
    [kind : {"open"}, date : Dates, round : Nat]
        \cup [kind : {"draft", "sale"}, order : Orders, shift : Shifts]
        \cup [kind : {"finish"}, ticket : Tickets, last : BOOLEAN]
        \cup [kind : {"entry"}, balance : Nat, limit : Limits]

\* Rows keep the columns' types; no balance of stock or of credit falls below zero.
TypeOK ==
    /\ stock \in [Supply!Places -> Nat]
    /\ shift \in [Shifts -> [status : {"none", "open", "closed"}, date : Dates \cup {"none"}, expected : Nat]]
    /\ order \in [Orders -> [status : {"none", "draft", "paid", "refunded"},
                             shift : Shifts \cup {NoShift}, fulfillment : Fulfillment,
                             method : {"none", "cash", "credit"}]]
    /\ ticket \in [Tickets -> {"none", "queued", "preparing", "ready"}]
    /\ account \in [balance : Nat, limit : Limits]
    /\ topup \in [Topups -> {"none", "pending", "approved", "rejected"}]
    /\ \A r \in Requests : request[r] = Idle \/ request[r] \in Reading
    /\ central \in [CentralOrders ->
          [status : {"none", "submitted", "approved", "rejected", "in_production", "packed",
                     "shipped", "received", "cancelled"},
           quantity : Supply!Quantity, approved : Nullable, packed : Nullable, shipped : Nullable,
           received : Nullable, posted : Quantities, discrepancy : {"none", "open", "resolved"}]]
    /\ batch \in [Batches -> {"none", "planned", "in_progress", "completed", "cancelled"}]
    /\ transfer \in [Transfers ->
          [status : {"none", "draft", "shipped", "received", "cancelled"}, from : Supply!Places,
           to : Supply!Places, requested : Supply!Quantity, shipped : Nullable,
           received : Nullable, discrepancy : {"none", "open", "resolved"}]]
    /\ resolving \in [CentralOrders -> Nullable]

\* Each place holds what its documents say: sales less refunds, arrivals, shipments and
\* movements, each document counted once however often its request is repeated or raced.
Sold == Counter!Cost({o \in Orders : order[o].status = "paid"})
In(p) == {t \in Transfers : transfer[t].status = "received" /\ transfer[t].to = p}
Out(p) == {t \in Transfers : transfer[t].status \in {"shipped", "received"} /\ transfer[t].from = p}
StockMatchesDocuments ==
    \A p \in Supply!Places :
        stock[p] = StockAtStart[p] + moved[p]
                   + SumFunctionOnSet([t \in Transfers |-> transfer[t].received], In(p))
                   - SumFunctionOnSet([t \in Transfers |-> transfer[t].shipped], Out(p))
                   + (IF p = "store"
                      THEN SumFunctionOnSet([c \in CentralOrders |-> central[c].posted],
                                            CentralOrders) - Sold
                      ELSE 0)

\* No more arrives than was shipped, but on the two routes that do not ask for a count: a
\* store that receives an order whole, and a transfer that was shipped with nothing in it.
ArrivedWasShipped ==
    /\ \A c \in CentralOrders :
          central[c].received # Supply!NULL =>
              /\ central[c].posted = central[c].received
              /\ central[c].received <= central[c].shipped
    /\ \A t \in Transfers :
          transfer[t].received > transfer[t].shipped =>
              transfer[t].shipped = 0 /\ transfer[t].received = transfer[t].requested
GoodsMatchDocuments == StockMatchesDocuments /\ ArrivedWasShipped

\* The credit account owes the paid credit orders and the entries by hand, less exactly
\* what entries by hand have overwritten with a balance they had read before its lock.
CreditMatchesOrders ==
    account.balance + lost =
        Counter!Cost({o \in Orders : order[o].status = "paid" /\ order[o].method = "credit"})
        + entered.sum

\* The expected cash of a closed shift holds every cash payment of its orders, except for
\* orders that were unpaid or being sold at its close, and what was refunded before it.
ClosedShiftCash ==
    \A s \in Shifts :
        shift[s].status = "closed" =>
            shift[s].expected =
                Counter!Cost({o \in Counter!CashOrdersEverPaid(s) \ returned :
                                 <<o, s>> \notin overlooked})

\* An order is handed out once all its dishes are prepared and not before; it waits with
\* all dishes prepared only if two of them were finished at the same time, and a refunded
\* order is handed out only if its last dish was finished after the refund.
ReadyWhenPrepared ==
    \A o \in Orders :
        LET out == order[o].fulfillment \in {"ready", "picked_up"}
        IN  /\ out => Counter!Prepared(o)
            /\ order[o].status = "paid" /\ Counter!Prepared(o) => out \/ o \in crossed
            /\ order[o].status = "refunded" => (out <=> o \in revived)

================================================================================
