------------------------------- MODULE SaleShift -------------------------------
(***************************************************************************)
(* Point-of-sale checkout and cashier shifts (services/sale_service.py,    *)
(* routers/pos.py).                                                        *)
(*                                                                         *)
(* A checkout request is more than one transaction.  The router looks the  *)
(* client's order id up; the sale transaction locks the shift row, checks  *)
(* the stock, takes an advisory lock to number the order and inserts it;   *)
(* the accounting journal is posted in a transaction of its own after the  *)
(* sale has committed.  Requests are retried, run in several backend       *)
(* processes at once, and die between any two of these steps.  Closing a   *)
(* shift locks its row and recomputes what the sales left behind.          *)
(*                                                                         *)
(* Rows and advisory locks are held to the end of a transaction.  A void   *)
(* takes the operator's shift, the stock balance and the shift of the      *)
(* sale, in this order, so requests can wait for each other in a circle;   *)
(* the database then fails one of them.                                    *)
(*                                                                         *)
(* Every sale is one unit of one stocked product.  A sale has a zero total *)
(* (Free) or a settled cash payment: only the former can be voided, as no  *)
(* code ever leaves a positive payment "authorized" or "pending".          *)
(***************************************************************************)
EXTENDS Naturals, FiniteSets, Functions

CONSTANTS
    Handlers,       \* request handlers at work in the backend
    Process,        \* [Handlers -> backend processes]
    Voiders,        \* the handlers that serve void requests too
    Cashiers,
    NoCashier,      \* whom an idle handler works for
    Sales,          \* client_order_id values
    NoSale,         \* what an idle handler is asked for
    Owner,          \* [Sales -> Cashiers]
    Free,           \* sales with a zero total
    InitialStock,
    MaxShifts,      \* bound: shifts of a cashier
    MaxFaults       \* bound: crashes and failed postings

ASSUME HandlerAssumption == Voiders \subseteq Handlers /\ DOMAIN Process = Handlers
ASSUME SaleAssumption ==
    /\ IsFiniteSet(Sales) /\ NoSale \notin Sales
    /\ Owner \in [Sales -> Cashiers] /\ Free \subseteq Sales
ASSUME BoundAssumption ==
    InitialStock \in Nat /\ MaxShifts \in Nat \ {0} /\ MaxFaults \in Nat

VARIABLES
    shiftNo,        \* number of each cashier's latest shift, 0 before the first
    open,           \* cashiers whose latest shift is open
    total,          \* CashierShift.total_sales of every shift
    order,          \* SaleOrder.status per client_order_id
    orderShift,     \* SaleOrder.shift_id, as a number of the owner's shifts
    number,         \* SaleOrder.order_number
    posted,         \* sales with a posted journal entry
    stock,          \* StockBalance.qty_on_hand
    pc,             \* where each handler is
    req,            \* the sale it is asked for
    asked,          \* the shift named in the request
    num,            \* the order number it has generated
    operator,       \* the cashier who asks for the void
    faults

shiftVars == <<shiftNo, open>>
orderVars == <<order, orderShift, number>>
handlerVars == <<pc, req, asked, num, operator>>
vars == <<shiftVars, total, orderVars, posted, stock, handlerVars, faults>>

PC == {"idle", "checked", "locked", "insert", "inserted", "post",
       "void", "voiding", "returned"}

Init ==
    /\ shiftNo = [c \in Cashiers |-> 0]
    /\ open = {}
    /\ total = [c \in Cashiers |-> [n \in 1..MaxShifts |-> 0]]
    /\ order = [s \in Sales |-> "none"]
    /\ orderShift = [s \in Sales |-> 0]
    /\ number = [s \in Sales |-> 0]
    /\ posted = {}
    /\ stock = InitialStock
    /\ pc = [h \in Handlers |-> "idle"]
    /\ req = [h \in Handlers |-> NoSale]
    /\ asked = [h \in Handlers |-> 0]
    /\ num = [h \in Handlers |-> 0]
    /\ operator = [h \in Handlers |-> NoCashier]
    /\ faults = 0

Price == [s \in Sales |-> IF s \in Free THEN 0 ELSE 1]
Existing == {s \in Sales : order[s] # "none"}
Completed == {s \in Sales : order[s] = "completed"}
SalesOf(c, n) == {s \in Existing : Owner[s] = c /\ orderShift[s] = n}
Takings(S) == SumFunctionOnSet(Price, S)

--------------------------------------------------------------------------------
(* Locks *)

\* Bug variant: the shift is read without FOR UPDATE.
NobodyHoldsShift(c) == {}

\* The row of a cashier's open shift, from its lock to the end of the transaction.
ShiftHolders(c) ==
    {h \in Handlers : \/ pc[h] \in {"locked", "insert", "inserted"} /\ Owner[req[h]] = c
                      \/ pc[h] \in {"voiding", "returned"} /\ operator[h] = c}

\* Bug variants: numbering waits for everyone who holds some shift; a lock of the session,
\* which is still held by whoever numbered an order before.
AllShiftHolders(h) == UNION {ShiftHolders(c) : c \in Cashiers} \ {h}
NumberLockKept(h) == IF Existing = {} THEN {} ELSE Handlers \ {h}

\* The advisory lock of _generate_order_number.  Its key is Python's hash() of a string,
\* which is salted per process: the lock only keeps handlers of one process apart.
NumberHolders(h) ==
    {g \in Handlers : pc[g] \in {"insert", "inserted"} /\ Process[g] = Process[h]}

\* An insert waits for the open transactions that have inserted the same unique keys.
Unsettled(h) ==
    {g \in Handlers : pc[g] = "inserted" /\ (num[g] = num[h] \/ req[g] = req[h])}

\* The stock balance.  A checkout takes it last and never waits behind it.
BalanceHolders == {h \in Handlers : pc[h] = "returned"}

\* The shift that the sale of h was made in, when it is still the one that can be held.
SaleShiftHolders(h) ==
    LET s == req[h]
    IN  IF orderShift[s] = shiftNo[Owner[s]] THEN ShiftHolders(Owner[s]) ELSE {}

\* Whose transactions have to end before h goes on.
WaitsFor(h) ==
    CASE pc[h] = "checked" -> ShiftHolders(Owner[req[h]])
      [] pc[h] = "locked" -> NumberHolders(h)
      [] pc[h] = "insert" -> Unsettled(h)
      [] pc[h] \in {"inserted", "voiding"} -> BalanceHolders
      [] pc[h] = "void" -> ShiftHolders(operator[h])
      [] pc[h] = "returned" -> SaleShiftHolders(h) \ {h}
      [] OTHER -> {}

Granted(h) == WaitsFor(h) = {}

\* Handlers none of which goes on before another one of them has.
Stuck(S) == S # {} /\ \A h \in S : WaitsFor(h) \cap S # {}
InCircle(h) ==
    \E S \in SUBSET Handlers :
        h \in S /\ Stuck(S) /\ \A T \in SUBSET S : Stuck(T) => T = S

Goto(h, place) == pc' = [pc EXCEPT ![h] = place]
Done(h) ==
    /\ Goto(h, "idle")
    /\ req' = [req EXCEPT ![h] = NoSale]
    /\ asked' = [asked EXCEPT ![h] = 0]
    /\ num' = [num EXCEPT ![h] = 0]
    /\ operator' = [operator EXCEPT ![h] = NoCashier]

--------------------------------------------------------------------------------
(* Shifts *)

\* The partial unique index allows one open shift per cashier.
OpenShift(c) ==
    /\ c \notin open /\ shiftNo[c] < MaxShifts
    /\ shiftNo' = [shiftNo EXCEPT ![c] = @ + 1]
    /\ open' = open \cup {c}
    /\ UNCHANGED <<total, orderVars, posted, stock, handlerVars, faults>>

\* journal_reconciliation_pending: a sale of the shift without a posted journal entry.
Journaled(c) == SalesOf(c, shiftNo[c]) \subseteq posted

\* close_shift waits for the row lock, rebuilds the summary and overwrites the running
\* total with the net sales it finds.
CloseShift(c) ==
    /\ c \in open
    /\ ShiftHolders(c) = {}
    /\ Journaled(c)
    /\ open' = open \ {c}
    /\ total' = [total EXCEPT ![c][shiftNo[c]] = Takings(SalesOf(c, shiftNo[c]) \cap Completed)]
    /\ UNCHANGED <<shiftNo, orderVars, posted, stock, handlerVars, faults>>

--------------------------------------------------------------------------------
(* Checkout *)

\* The router's lookup: an order that exists is only given its missing postings.
Look(h, s) ==
    /\ pc[h] = "idle"
    /\ shiftNo[Owner[s]] > 0
    /\ req' = [req EXCEPT ![h] = s]
    /\ asked' = [asked EXCEPT ![h] = shiftNo[Owner[s]]]
    /\ Goto(h, IF s \in Existing THEN "post" ELSE "checked")
    /\ UNCHANGED <<shiftVars, total, orderVars, posted, stock, num, operator, faults>>

\* Bug variant: the shift found when the request came in is trusted.
ShiftAcceptsUnchecked(h) == TRUE

\* _get_shift_for_sale and _ensure_stock_available, behind the row lock of the shift.
ShiftAccepts(h) == Owner[req[h]] \in open /\ shiftNo[Owner[req[h]]] = asked[h]

LockShift(h) ==
    /\ pc[h] = "checked"
    /\ Granted(h)
    /\ ShiftAccepts(h) /\ stock > 0
    /\ Goto(h, "locked")
    /\ UNCHANGED <<shiftVars, total, orderVars, posted, stock, req, asked, num, operator, faults>>

RefuseSale(h) ==
    /\ pc[h] = "checked"
    /\ Granted(h)
    /\ ~ShiftAccepts(h) \/ stock = 0
    /\ Done(h)
    /\ UNCHANGED <<shiftVars, total, orderVars, posted, stock, faults>>

\* _generate_order_number counts the orders that have been committed.
Number(h) ==
    /\ pc[h] = "locked"
    /\ Granted(h)
    /\ num' = [num EXCEPT ![h] = Cardinality(Existing) + 1]
    /\ Goto(h, "insert")
    /\ UNCHANGED <<shiftVars, total, orderVars, posted, stock, req, asked, operator, faults>>

\* Bug variants: no unique client order id; no stock check.
AlwaysInserts(h) == TRUE
StockUnchecked == TRUE

\* The unique index on the order number.
NumberTaken(n) == \E s \in Existing : number[s] = n

\* ON CONFLICT DO NOTHING on the client's order id.
Inserts(h) == order[req[h]] = "none"

Insert(h) ==
    /\ pc[h] = "insert"
    /\ Granted(h)
    /\ Inserts(h) /\ ~NumberTaken(num[h])
    /\ Goto(h, "inserted")
    /\ UNCHANGED <<shiftVars, total, orderVars, posted, stock, req, asked, num, operator, faults>>

\* _record_movement refuses a negative balance, behind the row lock of the balance.
StockHolds == stock > 0

Commit(h) ==
    /\ pc[h] = "inserted"
    /\ Granted(h)
    /\ StockHolds
    /\ LET s == req[h]
       IN  /\ order' = [order EXCEPT ![s] = "completed"]
           /\ orderShift' = [orderShift EXCEPT ![s] = asked[h]]
           /\ number' = [number EXCEPT ![s] = num[h]]
           /\ total' = [total EXCEPT ![Owner[s]][asked[h]] = @ + Price[s]]
    /\ stock' = stock - 1
    /\ Goto(h, "post")
    /\ UNCHANGED <<shiftVars, posted, req, asked, num, operator, faults>>

\* Somebody else's insert of the same order id won: roll back and serve the existing one.
CommitReplays(h) ==
    /\ pc[h] = "insert"
    /\ Granted(h)
    /\ ~Inserts(h)
    /\ Goto(h, "post")
    /\ UNCHANGED <<shiftVars, total, orderVars, posted, stock, req, asked, num, operator, faults>>

\* The unique order number or the non-negative stock check fails the transaction.
CommitFails(h) ==
    /\ Granted(h)
    /\ \/ pc[h] = "insert" /\ Inserts(h) /\ NumberTaken(num[h])
       \/ pc[h] = "inserted" /\ ~StockHolds
    /\ Done(h)
    /\ UNCHANGED <<shiftVars, total, orderVars, posted, stock, faults>>

\* _ensure_accounting_handoff; _post_entry returns an entry that is already there.
Post(h) ==
    /\ pc[h] = "post"
    /\ posted' = posted \cup {req[h]}
    /\ Done(h)
    /\ UNCHANGED <<shiftVars, total, orderVars, stock, faults>>

--------------------------------------------------------------------------------
(* Void *)

\* The router and void_sale read the order, its payments and its shift without a lock.
VoidRead(h, s, c) ==
    /\ h \in Voiders /\ pc[h] = "idle"
    /\ s \in Completed \cap Free
    /\ req' = [req EXCEPT ![h] = s]
    /\ operator' = [operator EXCEPT ![h] = c]
    /\ Goto(h, "void")
    /\ UNCHANGED <<shiftVars, total, orderVars, posted, stock, asked, num, faults>>

\* void_sale locks the operator's own open shift.
VoidLock(h) ==
    /\ pc[h] = "void"
    /\ Granted(h)
    /\ operator[h] \in open
    /\ Goto(h, "voiding")
    /\ UNCHANGED <<shiftVars, total, orderVars, posted, stock, req, asked, num, operator, faults>>

VoidRefused(h) ==
    /\ pc[h] = "void"
    /\ operator[h] \notin open
    /\ Done(h)
    /\ UNCHANGED <<shiftVars, total, orderVars, posted, stock, faults>>

\* It takes the stock balance, to give the unit back.
VoidStock(h) ==
    /\ pc[h] = "voiding"
    /\ Granted(h)
    /\ Goto(h, "returned")
    /\ UNCHANGED <<shiftVars, total, orderVars, posted, stock, req, asked, num, operator, faults>>

\* Last it updates the shift of the sale, whose void count grows and whose total loses the
\* zero of the sale, and commits, without having looked at the order again.
VoidCommit(h) ==
    /\ pc[h] = "returned"
    /\ Granted(h)
    /\ order' = [order EXCEPT ![req[h]] = "voided"]
    /\ stock' = stock + 1
    /\ Done(h)
    /\ UNCHANGED <<shiftVars, total, orderShift, number, posted, faults>>

--------------------------------------------------------------------------------
(* Faults *)

CountFault == faults < MaxFaults /\ faults' = faults + 1

\* The handler dies: its open transaction rolls back, its locks are released.  A posting
\* that raises is swallowed, which leaves the same state.
Crash(h) ==
    /\ CountFault
    /\ pc[h] # "idle"
    /\ Done(h)
    /\ UNCHANGED <<shiftVars, total, orderVars, posted, stock>>

\* PostgreSQL fails one of the transactions that wait in a circle.
Deadlock(h) ==
    /\ InCircle(h)
    /\ Done(h)
    /\ UNCHANGED <<shiftVars, total, orderVars, posted, stock, faults>>

--------------------------------------------------------------------------------
Proceed(h) ==
    \/ LockShift(h) \/ RefuseSale(h) \/ Number(h)
    \/ Insert(h) \/ Commit(h) \/ CommitReplays(h) \/ CommitFails(h) \/ Post(h)
    \/ VoidLock(h) \/ VoidRefused(h) \/ VoidStock(h) \/ VoidCommit(h)

Next ==
    \/ \E c \in Cashiers : OpenShift(c) \/ CloseShift(c)
    \/ \E h \in Handlers, s \in Sales : Look(h, s) \/ \E c \in Cashiers : VoidRead(h, s, c)
    \/ \E h \in Handlers : Proceed(h) \/ Crash(h) \/ Deadlock(h)

Spec == Init /\ [][Next]_vars

(***************************************************************************)
(* A handler that may proceed again and again does so in the end: the      *)
(* database queues the waiters of a lock.  A waiter looks for a circle     *)
(* after deadlock_timeout, and fails when it finds itself in one.          *)
(***************************************************************************)
FairSpec ==
    Spec /\ \A h \in Handlers : SF_vars(Proceed(h)) /\ WF_vars(Deadlock(h))

--------------------------------------------------------------------------------
(* Properties *)

\* Type invariant; the stock balance never goes negative however many tills race for the
\* last unit after the same unlocked availability check.
TypeOK ==
    /\ shiftNo \in [Cashiers -> 0..MaxShifts]
    /\ open \subseteq {c \in Cashiers : shiftNo[c] > 0}
    /\ total \in [Cashiers -> [1..MaxShifts -> Nat]]
    /\ order \in [Sales -> {"none", "completed", "voided"}]
    /\ orderShift \in [Sales -> 0..MaxShifts]
    /\ number \in [Sales -> Nat]
    /\ posted \subseteq Existing
    /\ stock \in Nat
    /\ pc \in [Handlers -> PC]
    /\ req \in [Handlers -> Sales \cup {NoSale}]
    /\ \A h \in Handlers : pc[h] # "idle" => req[h] \in Sales
    /\ asked \in [Handlers -> 0..MaxShifts]
    /\ num \in [Handlers -> Nat]
    /\ operator \in [Handlers -> Cashiers \cup {NoCashier}]
    /\ \A h \in Handlers : pc[h] \in {"void", "voiding", "returned"} => operator[h] \in Cashiers
    /\ faults \in 0..MaxFaults

\* A client order id takes its unit of stock once, however often the request is repeated,
\* and a void gives it back once.  (With two void requests of one order at work it does not
\* hold: the second one does not see that the order is voided already.)
StockMatchesSales == stock + Cardinality(Completed) = InitialStock

\* The total of every shift, running or closed, is what its sales brought in.
TotalsMatchSales ==
    \A c \in Cashiers : \A n \in 1..MaxShifts :
        total[c][n] = Takings(SalesOf(c, n) \cap Completed)

\* Closing a shift is final: every sale in it has reached the ledger, also those whose
\* handler died between the sale and its posting.
ClosedShift(c, n) == n <= shiftNo[c] /\ (n = shiftNo[c] => c \notin open)
ClosedShiftIsJournaled ==
    \A c \in Cashiers : \A n \in 1..MaxShifts :
        ClosedShift(c, n) => SalesOf(c, n) \subseteq posted

\* No sale enters a shift once it is closed, however long its request was under way.
ClosedShiftIsSealed ==
    [][\A c \in Cashiers : \A n \in 1..MaxShifts :
          ClosedShift(c, n) => SalesOf(c, n)' = SalesOf(c, n)]_vars

\* Checkouts, closes, and voids of sales of the operator's own shift never wait for each
\* other in a circle: whoever is stuck waits, at some remove, for a void that has the stock
\* balance and wants the shift of another cashier.
CirclesAreVoids ==
    \A S \in SUBSET Handlers :
        Stuck(S) => \E h \in S : pc[h] = "returned" /\ operator[h] # Owner[req[h]]

\* Every request ends, also those that wait in a circle: all their locks are locks of the
\* database, which fails one of them, and no lock outlives its transaction.
RequestsEnd == \A h \in Handlers : pc[h] # "idle" ~> pc[h] = "idle"

================================================================================
