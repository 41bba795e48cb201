------------------------------ MODULE TakeawayProofs -----------------------------
(***************************************************************************)
(* Proofs about the Takeaway store, for all sets of orders, dishes, shifts *)
(* and requests and all finite sets of documents: an order is handed out   *)
(* when its dishes are prepared and not before (IInv), and stock, credit   *)
(* and the cash of shifts agree with the orders and documents (StoreInv).  *)
(*                                                                         *)
(* ReadyWhenPrepared is not inductive: what a handler that finishes a dish *)
(* will do was settled when it counted the other dishes.  The invariant    *)
(* says what a count is worth at the commit: a handler that found its dish *)
(* to be the last one is right, and one that found another dish open is    *)
(* right as well, or two dishes of the order were finished at once.        *)
(*                                                                         *)
(* StoreInv adds the types, and what relates orders to shifts that may     *)
(* close while a request is under way, and a document's status to its      *)
(* quantities.  The sums of StockMatchesDocuments run over the documents   *)
(* of a status; the proof sums over all, with zero for the others, so that *)
(* a step changes one term.                                                *)
(***************************************************************************)
EXTENDS Takeaway, Sums

OrderRows == [status : {"none", "draft", "paid", "refunded"}, shift : Shifts \cup {NoShift},
              fulfillment : Fulfillment, method : {"none", "cash", "credit"}]

\* Rows have their type, and so does what the next step takes from a request.
Typed ==
    /\ order \in [Orders -> OrderRows]
    /\ ticket \in [Tickets -> {"none", "queued", "preparing", "ready"}]
    /\ request = [r \in Requests |-> request[r]]
    /\ \A r \in Requests :
          /\ Counter!InStep(r, "draft") \/ Counter!InStep(r, "sale") =>
                 request[r].order \in Orders /\ request[r].shift \in Shifts
          /\ Counter!InStep(r, "finish") => request[r].ticket \in Tickets /\ request[r].last \in BOOLEAN

\* The status of an order bounds how far it and its dishes have come.
StatusBounds ==
    \A o \in Orders :
        /\ order[o].status \in {"none", "draft"} =>
               /\ order[o].fulfillment \in {"none", "awaiting_payment"}
               /\ \A t \in Counter!Dishes(o) : ticket[t] = "none"
        /\ order[o].status = "refunded" => order[o].fulfillment \in {"cancelled", "ready", "picked_up"}
        /\ o \in revived => order[o].status = "refunded"

Finishing(r) == Counter!InStep(r, "finish")
Order(r) == OrderOf[request[r].ticket]

\* What a handler found when it counted the other dishes of its order.
CountsHold ==
    \A r \in Requests : Finishing(r) =>
        /\ ticket[request[r].ticket] = "preparing"
        /\ request[r].last =>
               \A u \in Counter!Dishes(Order(r)) : u # request[r].ticket => ticket[u] = "ready"
        /\ ~request[r].last =>
               \/ Order(r) \in crossed
               \/ \E u \in Counter!Dishes(Order(r)) : u # request[r].ticket /\ ticket[u] # "ready"

\* A dish is finished by one handler; two dishes of an order by two only if recorded.
FinishedApart ==
    \A r1, r2 \in Requests :
        Finishing(r1) /\ Finishing(r2) /\ r1 # r2 =>
            /\ request[r1].ticket # request[r2].ticket
            /\ Order(r1) = Order(r2) => Order(r1) \in crossed

IInv == Typed /\ StatusBounds /\ CountsHold /\ FinishedApart /\ ReadyWhenPrepared

\* An order that is handed out has no dish under way.
LEMMA OutIsPrepared ==
  ASSUME IInv, NEW r \in Requests, Finishing(r)
  PROVE  /\ request[r].ticket \in Tickets /\ Order(r) \in Orders
         /\ request[r].ticket \in Counter!Dishes(Order(r))
         /\ order[Order(r)].status \in {"paid", "refunded"}
         /\ order[Order(r)].fulfillment \notin {"ready", "picked_up"}
         /\ ticket[request[r].ticket] = "preparing"
<1>1. request[r].ticket \in Tickets /\ ticket[request[r].ticket] = "preparing"
  BY DEF IInv, Typed, CountsHold, Finishing
<1>2. Order(r) \in Orders /\ request[r].ticket \in Counter!Dishes(Order(r))
  BY <1>1, OrderAssumption DEF Order, Counter!Dishes
<1>3. order[Order(r)].status \in {"paid", "refunded"}
  BY <1>1, <1>2 DEF IInv, Typed, StatusBounds, OrderRows
<1>4. order[Order(r)].fulfillment \notin {"ready", "picked_up"}
  BY <1>1, <1>2 DEF IInv, ReadyWhenPrepared, Counter!Prepared
<1> QED BY <1>1, <1>2, <1>3, <1>4

--------------------------------------------------------------------------------
\* The store opens with the invariant.
LEMMA InitIInv == Init => IInv
<1> SUFFICES ASSUME Init PROVE IInv
  OBVIOUS
<1> USE DEF Init, Counter!CounterInit
<1>1. \A r \in Requests : /\ ~Counter!InStep(r, "draft") /\ ~Counter!InStep(r, "sale")
                          /\ ~Counter!InStep(r, "finish")
  BY DEF Counter!InStep
<1>2. Typed
  BY <1>1 DEF Typed, OrderRows, Fulfillment
<1>3. StatusBounds
  BY DEF StatusBounds, Counter!Dishes
<1>4. CountsHold /\ FinishedApart
  BY <1>1 DEF CountsHold, FinishedApart, Finishing
<1>5. ReadyWhenPrepared
  BY DEF ReadyWhenPrepared
<1> QED BY <1>2, <1>3, <1>4, <1>5 DEF IInv

\* Steps that change neither orders nor tickets, and begin no finish of a dish.
LEMMA OrdersUntouched ==
  ASSUME IInv, order' = order, ticket' = ticket, crossed' = crossed, revived' = revived,
         request' = [r \in Requests |-> request'[r]],
         \A r \in Requests : /\ Finishing(r)' => Finishing(r) /\ request'[r] = request[r]
                             /\ Counter!InStep(r, "draft")' \/ Counter!InStep(r, "sale")' =>
                                  request'[r].order \in Orders /\ request'[r].shift \in Shifts
  PROVE  IInv'
<1>1. Typed'
  BY DEF IInv, Typed, Finishing, Counter!InStep
<1>2. StatusBounds'
  BY DEF IInv, StatusBounds, Counter!Dishes
<1>3. CountsHold'
  BY DEF IInv, CountsHold, Finishing, Order, Counter!Dishes
<1>4. FinishedApart'
  BY DEF IInv, FinishedApart, Finishing, Order
<1>5. ReadyWhenPrepared'
  BY DEF IInv, ReadyWhenPrepared, Counter!Prepared, Counter!Dishes
<1> QED BY <1>1, <1>2, <1>3, <1>4, <1>5 DEF IInv

\* A handler reads what it needs, or ends, with orders and tickets as they were.
LEMMA RequestWritten ==
  ASSUME IInv, order' = order, ticket' = ticket, crossed' = crossed, revived' = revived,
         NEW r \in Requests, NEW x, request' = [request EXCEPT ![r] = x],
         x # Idle => /\ x.kind # "finish"
                     /\ x.kind \in {"draft", "sale"} => x.order \in Orders /\ x.shift \in Shifts
  PROVE  IInv'
<1>1. request' = [q \in Requests |-> request'[q]]
  BY DEF IInv, Typed
<1>2. \A q \in Requests : request'[q] = IF q = r THEN x ELSE request[q]
  BY DEF IInv, Typed
<1>3. \A q \in Requests :
          /\ Finishing(q)' => Finishing(q) /\ request'[q] = request[q]
          /\ Counter!InStep(q, "draft")' \/ Counter!InStep(q, "sale")' =>
                 request'[q].order \in Orders /\ request'[q].shift \in Shifts
  BY <1>2 DEF Finishing, Counter!InStep, IInv, Typed
<1> QED BY <1>1, <1>3, OrdersUntouched

\* The dishes of an order are its own.
LEMMA DishesApart ==
  ASSUME NEW o \in Orders, NEW p \in Orders, o # p, NEW t \in Counter!Dishes(o)
  PROVE  t \notin Counter!Dishes(p)
BY DEF Counter!Dishes

\* An order is placed and waits for its payment.
LEMMA PlaceStep ==
  ASSUME IInv, NEW r \in Requests, Counter!PlaceOrder(r)
  PROVE  IInv'
<1> DEFINE o == request[r].order
<1>1. /\ o \in Orders /\ request[r].shift \in Shifts
      /\ order[o].status = "none"
      /\ order' = [order EXCEPT ![o] = [status |-> "draft", shift |-> request[r].shift,
                                         fulfillment |-> "awaiting_payment", method |-> "none"]]
      /\ request' = [request EXCEPT ![r] = Idle]
      /\ ticket' = ticket /\ crossed' = crossed /\ revived' = revived
  BY DEF IInv, Typed, Counter!PlaceOrder, Counter!Finish, Counter!counterHistory
<1> HIDE DEF o
<1>2. order' \in [Orders -> OrderRows]
  BY <1>1 DEF IInv, Typed, OrderRows, Fulfillment
<1>3. \A q \in Requests : request'[q] = IF q = r THEN Idle ELSE request[q]
  BY <1>1 DEF IInv, Typed
<1>4. Typed'
  BY <1>1, <1>2, <1>3 DEF IInv, Typed, Counter!InStep
<1>5. \A p \in Orders : p # o => order'[p] = order[p]
  BY <1>1 DEF IInv, Typed
<1>6. order'[o].status = "draft" /\ order'[o].fulfillment = "awaiting_payment"
  BY <1>1 DEF IInv, Typed
<1>7. StatusBounds'
  BY <1>1, <1>5, <1>6 DEF IInv, StatusBounds, Counter!Dishes
<1>8. \A q \in Requests : Finishing(q)' => Finishing(q) /\ request'[q] = request[q]
  BY <1>3 DEF Finishing, Counter!InStep
<1>9. CountsHold' /\ FinishedApart'
  <2>1. CountsHold'
    BY <1>1, <1>8 DEF IInv, CountsHold, Order, Counter!Dishes
  <2>2. FinishedApart'
    BY <1>1, <1>8 DEF IInv, FinishedApart, Order
  <2> QED BY <2>1, <2>2
<1>10. ReadyWhenPrepared'
  BY <1>1, <1>5, <1>6 DEF IInv, ReadyWhenPrepared, Counter!Prepared, Counter!Dishes
<1> QED BY <1>4, <1>7, <1>9, <1>10 DEF IInv

\* An order that was not paid is paid, and its dishes enter the kitchen's queue.
LEMMA PayStep ==
  ASSUME IInv, NEW o \in Orders, order[o].status \in {"none", "draft"},
         NEW s \in Shifts \cup {NoShift}, NEW method \in {"cash", "credit"},
         Counter!Pay(o, method), order' = [order EXCEPT ![o] = Counter!Paid(s, method)],
         request' = [q \in Requests |-> request'[q]],
         \A q \in Requests : request'[q] \in {request[q], Idle},
         crossed' = crossed, revived' = revived
  PROVE  IInv'
<1>1. ticket' = [t \in Tickets |-> IF t \in Counter!Dishes(o) THEN "queued" ELSE ticket[t]]
  BY DEF Counter!Pay
<1>2. order' \in [Orders -> OrderRows]
  BY DEF IInv, Typed, OrderRows, Fulfillment, Counter!Paid
<1>3. ticket' \in [Tickets -> {"none", "queued", "preparing", "ready"}]
  BY <1>1 DEF IInv, Typed
<1>4. Typed'
  BY <1>2, <1>3 DEF IInv, Typed, Counter!InStep
<1>5. \A p \in Orders : p # o => order'[p] = order[p]
  BY DEF IInv, Typed
<1>6. order'[o].status = "paid" /\ order'[o].fulfillment = "queued"
  BY DEF IInv, Typed, Counter!Paid
<1>7. \A p \in Orders : p # o => \A t \in Counter!Dishes(p) : ticket'[t] = ticket[t]
  BY <1>1 DEF Counter!Dishes
<1>8. StatusBounds'
  <2>1. o \notin revived
    BY DEF IInv, StatusBounds
  <2> QED BY <2>1, <1>5, <1>6, <1>7 DEF IInv, StatusBounds, Counter!Dishes
<1>9. \A q \in Requests : Finishing(q)' => Finishing(q) /\ request'[q] = request[q]
  BY DEF Finishing, Counter!InStep
<1>10. CountsHold'
  <2> SUFFICES ASSUME NEW q \in Requests, Finishing(q)' PROVE CountsHold!(q)!2'
    BY DEF CountsHold
  <2>1. Finishing(q) /\ request'[q] = request[q]
    BY <1>9
  <2>2. Order(q) \in Orders /\ Order(q) # o /\ request[q].ticket \in Counter!Dishes(Order(q))
    BY <2>1, OutIsPrepared
  <2>3. \A u \in Counter!Dishes(Order(q)) : ticket'[u] = ticket[u]
    BY <2>2, <1>7
  <2> QED BY <2>1, <2>2, <2>3 DEF IInv, CountsHold, Order, Counter!Dishes
<1>11. FinishedApart'
  BY <1>9 DEF IInv, FinishedApart, Order
<1>12. ReadyWhenPrepared'
  <2> SUFFICES ASSUME NEW p \in Orders
               PROVE  LET out == order'[p].fulfillment \in {"ready", "picked_up"} IN
                      /\ out => Counter!Prepared(p)'
                      /\ order'[p].status = "paid" /\ Counter!Prepared(p)' => out \/ p \in crossed
                      /\ order'[p].status = "refunded" => (out <=> p \in revived)
    BY DEF ReadyWhenPrepared
  <2>1. CASE p = o
    <3>1. ~Counter!Prepared(o)'
      BY <1>1, DishAssumption DEF Counter!Prepared, Counter!Dishes
    <3> QED BY <2>1, <3>1, <1>6
  <2>2. CASE p # o
    <3>1. Counter!Prepared(p)' <=> Counter!Prepared(p)
      BY <2>2, <1>7 DEF Counter!Prepared, Counter!Dishes
    <3> QED BY <2>2, <3>1, <1>5 DEF IInv, ReadyWhenPrepared
  <2> QED BY <2>1, <2>2
<1> QED BY <1>4, <1>8, <1>10, <1>11, <1>12 DEF IInv

\* What handlers counted still holds where no ticket changes and no finish begins.
LEMMA CountsUntouched ==
  ASSUME IInv, ticket' = ticket, crossed' = crossed,
         \A q \in Requests : Finishing(q)' => Finishing(q) /\ request'[q] = request[q]
  PROVE  CountsHold' /\ FinishedApart'
<1>1. CountsHold'
  BY DEF IInv, CountsHold, Order, Counter!Dishes
<1>2. FinishedApart'
  BY DEF IInv, FinishedApart, Order
<1> QED BY <1>1, <1>2

\* A refund takes the order from the hand-out and leaves its tickets.
LEMMA RefundStep ==
  ASSUME IInv, NEW o \in Orders, Counter!RefundOrder(o)
  PROVE  IInv'
<1>1. /\ order[o].status = "paid"
      /\ order' = [order EXCEPT ![o].status = "refunded", ![o].fulfillment = "cancelled"]
      /\ ticket' = ticket /\ request' = request /\ crossed' = crossed /\ revived' = revived
  BY DEF Counter!RefundOrder
<1>2. Typed'
  <2>1. order \in [Orders -> OrderRows] /\ order[o] \in OrderRows
    BY DEF IInv, Typed
  <2>2. [order[o] EXCEPT !.status = "refunded", !.fulfillment = "cancelled"] \in OrderRows
    BY <2>1 DEF OrderRows, Fulfillment
  <2>3. order' \in [Orders -> OrderRows]
    BY <1>1, <2>1, <2>2
  <2> QED BY <1>1, <2>3 DEF IInv, Typed, Counter!InStep
<1>3. \A p \in Orders : p # o => order'[p] = order[p]
  BY <1>1 DEF IInv, Typed
<1>4. order'[o].status = "refunded" /\ order'[o].fulfillment = "cancelled" /\ o \notin revived
  BY <1>1 DEF IInv, Typed, OrderRows, StatusBounds
<1>5. StatusBounds'
  BY <1>1, <1>3, <1>4 DEF IInv, StatusBounds, Counter!Dishes
<1>6. CountsHold' /\ FinishedApart'
  BY <1>1, CountsUntouched DEF Finishing, Counter!InStep
<1>7. ReadyWhenPrepared'
  BY <1>1, <1>3, <1>4 DEF IInv, ReadyWhenPrepared, Counter!Prepared, Counter!Dishes
<1> QED BY <1>2, <1>5, <1>6, <1>7 DEF IInv

\* A dish is taken up: it was not prepared, and is not.
LEMMA StartStep ==
  ASSUME IInv, NEW t \in Tickets, Counter!StartTicket(t)
  PROVE  IInv'
<1>1. /\ ticket[t] = "queued" /\ ticket' = [ticket EXCEPT ![t] = "preparing"]
      /\ order' = order /\ request' = request /\ crossed' = crossed /\ revived' = revived
  BY DEF Counter!StartTicket, Counter!counterHistory
<1>2. /\ \A u \in Tickets : u # t => ticket'[u] = ticket[u]
      /\ ticket'[t] = "preparing"
  BY <1>1 DEF IInv, Typed
<1>3. Typed'
  <2>1. ticket' \in [Tickets -> {"none", "queued", "preparing", "ready"}]
    BY <1>1 DEF IInv, Typed
  <2> QED BY <1>1, <2>1 DEF IInv, Typed, Counter!InStep
<1>4. StatusBounds'
  BY <1>1, <1>2 DEF IInv, StatusBounds, Counter!Dishes
<1>5. CountsHold'
  <2> SUFFICES ASSUME NEW q \in Requests, Finishing(q) PROVE CountsHold!(q)!2'
    BY <1>1 DEF CountsHold, Finishing, Counter!InStep
  <2>1. Order(q) \in Orders /\ request[q].ticket \in Tickets /\ request[q].ticket # t
    BY <1>1, OutIsPrepared
  <2> QED BY <2>1, <1>1, <1>2 DEF IInv, CountsHold, Order, Counter!Dishes
<1>6. FinishedApart'
  BY <1>1 DEF IInv, FinishedApart, Order, Finishing, Counter!InStep
<1>7. \A o \in Orders : Counter!Prepared(o)' <=> Counter!Prepared(o)
  BY <1>1, <1>2 DEF Counter!Prepared, Counter!Dishes
<1>8. ReadyWhenPrepared'
  BY <1>1, <1>7 DEF IInv, ReadyWhenPrepared
<1> QED BY <1>3, <1>4, <1>5, <1>6, <1>8 DEF IInv

\* A handler counts the other dishes of its order, and records who it cannot see.
LEMMA CountStep ==
  ASSUME IInv, NEW r \in Requests, NEW t \in Tickets, Counter!LookToFinish(r, t)
  PROVE  IInv'
<1> DEFINE last == \A u \in Counter!Dishes(OrderOf[t]) \ {t} : ticket[u] = "ready"
<1>1. /\ ticket[t] = "preparing" /\ ~Counter!Cooking(t) /\ request[r] = Idle
      /\ request' = [request EXCEPT ![r] = [kind |-> "finish", ticket |-> t, last |-> last]]
      /\ crossed' = IF \E u \in Counter!Dishes(OrderOf[t]) : Counter!Cooking(u)
                    THEN crossed \cup {OrderOf[t]} ELSE crossed
      /\ order' = order /\ ticket' = ticket /\ revived' = revived
  BY DEF Counter!LookToFinish, Counter!Begin
<1>2. /\ \A q \in Requests : q # r => request'[q] = request[q]
      /\ request'[r] = [kind |-> "finish", ticket |-> t, last |-> last]
      /\ request' = [q \in Requests |-> request'[q]]
  BY <1>1 DEF IInv, Typed
<1>3. last \in BOOLEAN
  OBVIOUS
<1>4. last <=> \A u \in Counter!Dishes(OrderOf[t]) : u # t => ticket[u] = "ready"
  OBVIOUS
<1> HIDE DEF last
<1>5. Typed'
  BY <1>1, <1>2, <1>3 DEF IInv, Typed, Counter!InStep
<1>6. StatusBounds'
  BY <1>1 DEF IInv, StatusBounds, Counter!Dishes
<1>7. crossed \subseteq crossed'
  BY <1>1
<1>8. \A q \in Requests : Finishing(q)' /\ q # r => Finishing(q) /\ request'[q] = request[q]
  BY <1>2 DEF Finishing, Counter!InStep
<1>9. request'[r].ticket = t /\ request'[r].last = last /\ Order(r)' = OrderOf[t]
  BY <1>2 DEF Order
<1>10. CountsHold'
  <2> SUFFICES ASSUME NEW q \in Requests, Finishing(q)' PROVE CountsHold!(q)!2'
    BY DEF CountsHold
  <2>1. CASE q = r
    BY <2>1, <1>1, <1>4, <1>9 DEF Counter!Dishes
  <2>2. CASE q # r
    BY <2>2, <1>1, <1>7, <1>8 DEF IInv, CountsHold, Order, Counter!Dishes
  <2> QED BY <2>1, <2>2
<1>11. \A q \in Requests : Finishing(q) => /\ request[q].ticket # t
                                           /\ Order(q) = OrderOf[t] => Order(q) \in crossed'
  <2> SUFFICES ASSUME NEW q \in Requests, Finishing(q)
               PROVE  /\ request[q].ticket # t
                      /\ Order(q) = OrderOf[t] => Order(q) \in crossed'
    OBVIOUS
  <2>1. request[q].ticket \in Counter!Dishes(Order(q)) /\ Counter!Cooking(request[q].ticket)
    BY OutIsPrepared DEF Counter!Cooking, Finishing
  <2> QED BY <2>1, <1>1
<1>12. FinishedApart'
  <2> SUFFICES ASSUME NEW r1 \in Requests, NEW r2 \in Requests,
                      Finishing(r1)', Finishing(r2)', r1 # r2
               PROVE  /\ request'[r1].ticket # request'[r2].ticket
                      /\ Order(r1)' = Order(r2)' => Order(r1)' \in crossed'
    BY DEF FinishedApart
  <2>1. CASE r1 # r /\ r2 # r
    BY <2>1, <1>7, <1>8 DEF IInv, FinishedApart, Order
  <2>2. CASE r1 = r
    BY <2>2, <1>8, <1>9, <1>11 DEF Order
  <2>3. CASE r2 = r
    BY <2>3, <1>8, <1>9, <1>11 DEF Order
  <2> QED BY <2>1, <2>2, <2>3
<1>13. ReadyWhenPrepared'
  BY <1>1, <1>7 DEF IInv, ReadyWhenPrepared, Counter!Prepared, Counter!Dishes
<1> QED BY <1>5, <1>6, <1>10, <1>12, <1>13 DEF IInv

\* The finish of a dish: who found it the last one hands the order out.
LEMMA FinishStep ==
  ASSUME IInv, NEW r \in Requests, Counter!FinishTicket(r)
  PROVE  IInv'
<1> DEFINE t == request[r].ticket
           o == Order(r)
           last == request[r].last
<1>1. /\ Finishing(r)
      /\ ticket' = [ticket EXCEPT ![t] = "ready"]
      /\ order' = IF last THEN [order EXCEPT ![o].fulfillment = "ready"] ELSE order
      /\ revived' = IF last /\ order[o].status = "refunded" THEN revived \cup {o} ELSE revived
      /\ request' = [request EXCEPT ![r] = Idle]
      /\ crossed' = crossed
  BY DEF Counter!FinishTicket, Counter!Finish, Finishing, Order
<1>2. /\ t \in Tickets /\ o \in Orders /\ t \in Counter!Dishes(o) /\ ticket[t] = "preparing"
      /\ order[o].status \in {"paid", "refunded"}
      /\ order[o].fulfillment \notin {"ready", "picked_up"}
  BY <1>1, OutIsPrepared
<1>3. /\ last => \A u \in Counter!Dishes(o) : u # t => ticket[u] = "ready"
      /\ ~last => \/ o \in crossed
                  \/ \E u \in Counter!Dishes(o) : u # t /\ ticket[u] # "ready"
  BY <1>1 DEF IInv, CountsHold
<1>4. \A q \in Requests : Finishing(q) /\ q # r =>
          request[q].ticket # t /\ (Order(q) = o => o \in crossed)
  BY <1>1 DEF IInv, FinishedApart
<1>5. last \in BOOLEAN
  BY <1>1 DEF IInv, Typed, Finishing
<1> HIDE DEF t, o, last
<1>6. /\ \A u \in Tickets : u # t => ticket'[u] = ticket[u]
      /\ ticket'[t] = "ready" /\ ticket' \in [Tickets -> {"none", "queued", "preparing", "ready"}]
  BY <1>1, <1>2 DEF IInv, Typed
<1>7. /\ \A q \in Requests : request'[q] = IF q = r THEN Idle ELSE request[q]
      /\ request' = [q \in Requests |-> request'[q]]
  BY <1>1 DEF IInv, Typed
<1>8. \A q \in Requests : Finishing(q)' => q # r /\ Finishing(q) /\ request'[q] = request[q]
  BY <1>7 DEF Finishing, Counter!InStep
<1>9. /\ \A p \in Orders : p # o => order'[p] = order[p]
      /\ order'[o].status = order[o].status
      /\ order'[o].fulfillment = IF last THEN "ready" ELSE order[o].fulfillment
      /\ order' \in [Orders -> OrderRows]
  <2>1. order \in [Orders -> OrderRows] /\ order[o] \in OrderRows
    BY <1>2 DEF IInv, Typed
  <2>2. [order[o] EXCEPT !.fulfillment = "ready"] \in OrderRows
    BY <2>1 DEF OrderRows, Fulfillment
  <2>3. CASE last
    <3>1. order' = [order EXCEPT ![o] = [order[o] EXCEPT !.fulfillment = "ready"]]
      BY <1>1, <2>3
    <3>2. /\ [order[o] EXCEPT !.fulfillment = "ready"].status = order[o].status
          /\ [order[o] EXCEPT !.fulfillment = "ready"].fulfillment = "ready"
      BY <2>1 DEF OrderRows
    <3> QED BY <3>1, <3>2, <2>1, <2>2, <2>3, <1>2
  <2>4. CASE ~last
    BY <2>1, <2>4, <1>1
  <2> QED BY <2>3, <2>4
<1>10. Typed'
  BY <1>6, <1>7, <1>9 DEF IInv, Typed, Counter!InStep
<1>11. StatusBounds'
  <2> SUFFICES ASSUME NEW p \in Orders PROVE StatusBounds!(p)'
    BY DEF StatusBounds
  <2>1. CASE p = o
    BY <2>1, <1>1, <1>2, <1>9 DEF IInv, StatusBounds
  <2>2. CASE p # o
    <3>1. \A u \in Counter!Dishes(p) : ticket'[u] = ticket[u]
      BY <2>2, <1>2, <1>6 DEF Counter!Dishes
    <3>2. p \in revived' <=> p \in revived
      BY <2>2, <1>1
    <3> QED BY <2>2, <3>1, <3>2, <1>9 DEF IInv, StatusBounds, Counter!Dishes
  <2> QED BY <2>1, <2>2
<1>12. CountsHold'
  <2> SUFFICES ASSUME NEW q \in Requests, Finishing(q)' PROVE CountsHold!(q)!2'
    BY DEF CountsHold
  <2>1. q # r /\ Finishing(q) /\ request'[q] = request[q]
    BY <1>8
  <2>2. /\ request[q].ticket \in Tickets /\ request[q].ticket # t
        /\ request[q].ticket \in Counter!Dishes(Order(q)) /\ ticket[request[q].ticket] = "preparing"
    BY <2>1, <1>4, OutIsPrepared
  <2>3. Order(q)' = Order(q)
    BY <2>1 DEF Order
  <2>4. CountsHold!(q)!2
    BY <2>1 DEF IInv, CountsHold
  <2>5. CASE Order(q) = o
    BY <2>1, <2>2, <2>3, <2>4, <2>5, <1>1, <1>2, <1>4, <1>6 DEF Counter!Dishes
  <2>6. CASE Order(q) # o
    BY <2>1, <2>2, <2>3, <2>4, <2>6, <1>1, <1>2, <1>6 DEF Counter!Dishes
  <2> QED BY <2>5, <2>6
<1>13. FinishedApart'
  BY <1>1, <1>8 DEF IInv, FinishedApart, Order
<1>14. ReadyWhenPrepared'
  <2> SUFFICES ASSUME NEW p \in Orders PROVE ReadyWhenPrepared!(p)'
    BY DEF ReadyWhenPrepared
  <2>1. ReadyWhenPrepared!(p)
    BY DEF IInv, ReadyWhenPrepared
  <2>2. CASE p = o /\ last
    <3>1. Counter!Prepared(p)'
      BY <2>2, <1>3, <1>6 DEF Counter!Prepared, Counter!Dishes
    <3> QED BY <2>2, <3>1, <1>1, <1>9
  <2>3. CASE p = o /\ ~last
    <3>1. Counter!Prepared(p)' => p \in crossed
      BY <2>3, <1>3, <1>6 DEF Counter!Prepared, Counter!Dishes
    <3> QED BY <2>1, <2>3, <3>1, <1>1, <1>2, <1>9
  <2>4. CASE p # o
    <3>1. Counter!Prepared(p)' <=> Counter!Prepared(p)
      BY <2>4, <1>2, <1>6 DEF Counter!Prepared, Counter!Dishes
    <3>2. p \in revived' <=> p \in revived
      BY <2>4, <1>1
    <3> QED BY <2>1, <2>4, <3>1, <3>2, <1>1, <1>9
  <2> QED BY <2>2, <2>3, <2>4
<1> QED BY <1>10, <1>11, <1>12, <1>13, <1>14 DEF IInv

\* The order is moved on with all its dishes; no dish of it is being finished.
LEMMA AdvanceStep ==
  ASSUME IInv, NEW o \in Orders, NEW from \in {"queued", "preparing"},
         NEW to \in {"preparing", "ready"}, Counter!AdvanceOrder(o, from, to)
  PROVE  IInv'
<1>1. /\ order[o].fulfillment = from
      /\ \A t \in Counter!Dishes(o) : ~Counter!Cooking(t)
      /\ order' = [order EXCEPT ![o].fulfillment = to]
      /\ ticket' = [t \in Tickets |-> IF t \in Counter!Dishes(o) THEN to ELSE ticket[t]]
      /\ request' = request /\ crossed' = crossed /\ revived' = revived
  BY DEF Counter!AdvanceOrder, Counter!counterHistory
<1>2. order[o].status = "paid" /\ o \notin revived
  <2>1. order[o] \in OrderRows
    BY DEF IInv, Typed
  <2> QED BY <2>1, <1>1 DEF IInv, OrderRows, StatusBounds
<1>3. /\ \A p \in Orders : p # o => order'[p] = order[p]
      /\ order'[o].status = "paid" /\ order'[o].fulfillment = to
      /\ order' \in [Orders -> OrderRows]
  <2>1. order \in [Orders -> OrderRows] /\ order[o] \in OrderRows
    BY DEF IInv, Typed
  <2>2. /\ [order[o] EXCEPT !.fulfillment = to] \in OrderRows
        /\ [order[o] EXCEPT !.fulfillment = to].status = "paid"
        /\ [order[o] EXCEPT !.fulfillment = to].fulfillment = to
    BY <2>1, <1>2 DEF OrderRows, Fulfillment
  <2>3. order' = [order EXCEPT ![o] = [order[o] EXCEPT !.fulfillment = to]]
    BY <1>1
  <2> QED BY <2>1, <2>2, <2>3
<1>4. /\ \A p \in Orders : p # o => \A t \in Counter!Dishes(p) : ticket'[t] = ticket[t]
      /\ \A t \in Counter!Dishes(o) : ticket'[t] = to
      /\ ticket' \in [Tickets -> {"none", "queued", "preparing", "ready"}]
  BY <1>1 DEF Counter!Dishes, IInv, Typed
<1>5. Typed'
  BY <1>1, <1>3, <1>4 DEF IInv, Typed, Counter!InStep
<1>6. StatusBounds'
  BY <1>1, <1>2, <1>3, <1>4 DEF IInv, StatusBounds, Counter!Dishes
<1>7. \A q \in Requests : Finishing(q) =>
          /\ Order(q) \in Orders /\ Order(q) # o
          /\ request[q].ticket \in Counter!Dishes(Order(q))
  <2> SUFFICES ASSUME NEW q \in Requests, Finishing(q)
               PROVE  /\ Order(q) \in Orders /\ Order(q) # o
                      /\ request[q].ticket \in Counter!Dishes(Order(q))
    OBVIOUS
  <2>1. /\ request[q].ticket \in Counter!Dishes(Order(q)) /\ Order(q) \in Orders
        /\ Counter!Cooking(request[q].ticket)
    BY OutIsPrepared DEF Counter!Cooking, Finishing
  <2> QED BY <2>1, <1>1
<1>8. CountsHold'
  <2> SUFFICES ASSUME NEW q \in Requests, Finishing(q) PROVE CountsHold!(q)!2'
    BY <1>1 DEF CountsHold, Finishing, Counter!InStep
  <2>1. \A u \in Counter!Dishes(Order(q)) : ticket'[u] = ticket[u]
    BY <1>4, <1>7
  <2> QED BY <2>1, <1>1, <1>7 DEF IInv, CountsHold, Order, Counter!Dishes
<1>9. FinishedApart'
  BY <1>1 DEF IInv, FinishedApart, Order, Finishing, Counter!InStep
<1>10. ReadyWhenPrepared'
  <2> SUFFICES ASSUME NEW p \in Orders PROVE ReadyWhenPrepared!(p)'
    BY DEF ReadyWhenPrepared
  <2>1. CASE p = o
    <3>1. \E t \in Tickets : t \in Counter!Dishes(o)
      BY DishAssumption DEF Counter!Dishes
    <3>2. Counter!Prepared(o)' <=> to = "ready"
      BY <3>1, <1>4 DEF Counter!Prepared, Counter!Dishes
    <3> QED BY <2>1, <3>2, <1>3
  <2>2. CASE p # o
    <3>1. Counter!Prepared(p)' <=> Counter!Prepared(p)
      BY <2>2, <1>4 DEF Counter!Prepared, Counter!Dishes
    <3> QED BY <2>2, <3>1, <1>1, <1>3 DEF IInv, ReadyWhenPrepared
  <2> QED BY <2>1, <2>2
<1> QED BY <1>5, <1>6, <1>8, <1>9, <1>10 DEF IInv

\* The customer takes an order that is ready.
LEMMA PickUpStep ==
  ASSUME IInv, NEW o \in Orders, Counter!PickUp(o)
  PROVE  IInv'
<1>1. /\ order[o].fulfillment = "ready"
      /\ order' = [order EXCEPT ![o].fulfillment = "picked_up"]
      /\ ticket' = ticket /\ request' = request /\ crossed' = crossed /\ revived' = revived
  BY DEF Counter!PickUp, Counter!counterHistory
<1>2. /\ \A p \in Orders : p # o => order'[p] = order[p]
      /\ order'[o].status = order[o].status /\ order'[o].fulfillment = "picked_up"
      /\ order' \in [Orders -> OrderRows]
  <2>1. order \in [Orders -> OrderRows] /\ order[o] \in OrderRows
    BY DEF IInv, Typed
  <2>2. /\ [order[o] EXCEPT !.fulfillment = "picked_up"] \in OrderRows
        /\ [order[o] EXCEPT !.fulfillment = "picked_up"].status = order[o].status
        /\ [order[o] EXCEPT !.fulfillment = "picked_up"].fulfillment = "picked_up"
    BY <2>1 DEF OrderRows, Fulfillment
  <2>3. order' = [order EXCEPT ![o] = [order[o] EXCEPT !.fulfillment = "picked_up"]]
    BY <1>1
  <2> QED BY <2>1, <2>2, <2>3
<1>3. Typed'
  BY <1>1, <1>2 DEF IInv, Typed, Counter!InStep
<1>4. StatusBounds'
  BY <1>1, <1>2 DEF IInv, StatusBounds, Counter!Dishes
<1>5. CountsHold' /\ FinishedApart'
  BY <1>1, CountsUntouched DEF Finishing, Counter!InStep
<1>6. ReadyWhenPrepared'
  BY <1>1, <1>2 DEF IInv, ReadyWhenPrepared, Counter!Prepared, Counter!Dishes
<1> QED BY <1>3, <1>4, <1>5, <1>6 DEF IInv

--------------------------------------------------------------------------------
\* Every step of the store keeps the invariant.
LEMMA NextIInv == IInv /\ [Next]_vars => IInv'
<1> SUFFICES ASSUME IInv, [Next]_vars PROVE IInv'
  OBVIOUS
<1>1. ASSUME order' = order, ticket' = ticket, crossed' = crossed, revived' = revived,
             request' = request
      PROVE  IInv'
  BY <1>1, OrdersUntouched DEF IInv, Typed, Finishing, Counter!InStep
<1>2. ASSUME NEW r \in Requests, Counter!RequestStep(r) PROVE IInv'
  <2>1. CASE Counter!Abort(r)
    BY <2>1, RequestWritten DEF Counter!Abort, Counter!Finish, Counter!counterHistory
  <2>2. CASE Counter!PlaceOrder(r)
    BY <2>2, PlaceStep
  <2>3. CASE Counter!FinishTicket(r)
    BY <2>3, FinishStep
  <2>4. CASE Counter!LookToEnter(r)
    <3> DEFINE x == [kind |-> "entry", balance |-> account.balance, limit |-> account.limit]
    <3>1. /\ x.kind = "entry" /\ request' = [request EXCEPT ![r] = x] /\ order' = order
          /\ ticket' = ticket /\ crossed' = crossed /\ revived' = revived
      BY <2>4 DEF Counter!LookToEnter, Counter!Begin, Counter!counterHistory
    <3> HIDE DEF x
    <3> QED BY <3>1, RequestWritten
  <2>5. ASSUME NEW d \in Dates, Counter!LookToOpen(r, d) PROVE IInv'
    <3>1. \E n : request' = [request EXCEPT ![r] = [kind |-> "open", date |-> d, round |-> n]]
      BY <2>5 DEF Counter!LookToOpen, Counter!Begin
    <3>2. PICK n : request' = [request EXCEPT ![r] = [kind |-> "open", date |-> d, round |-> n]]
      BY <3>1
    <3>3. order' = order /\ ticket' = ticket /\ crossed' = crossed /\ revived' = revived
      BY <2>5 DEF Counter!LookToOpen, Counter!counterHistory
    <3> DEFINE x == [kind |-> "open", date |-> d, round |-> n]
    <3>4. x.kind = "open" /\ request' = [request EXCEPT ![r] = x]
      BY <3>2
    <3> HIDE DEF x
    <3> QED BY <3>3, <3>4, RequestWritten
  <2>6. ASSUME NEW s \in Shifts, Counter!OpenShift(r, s) PROVE IInv'
    BY <2>6, RequestWritten DEF Counter!OpenShift, Counter!Finish, Counter!counterHistory
  <2>7. ASSUME NEW kind \in {"draft", "sale"}, NEW o \in Orders, NEW s \in Shifts,
               Counter!LookToOrder(r, kind, o, s)
        PROVE  IInv'
    <3> DEFINE x == [kind |-> kind, order |-> o, shift |-> s]
    <3>1. /\ x.kind # "finish" /\ x.order \in Orders /\ x.shift \in Shifts
          /\ request' = [request EXCEPT ![r] = x] /\ order' = order
          /\ ticket' = ticket /\ crossed' = crossed /\ revived' = revived
      BY <2>7 DEF Counter!LookToOrder, Counter!Begin, Counter!counterHistory
    <3> HIDE DEF x
    <3> QED BY <3>1, RequestWritten
  <2>8. ASSUME NEW method \in {"cash", "credit"}, Counter!Sell(r, method) PROVE IInv'
    <3> DEFINE o == request[r].order
    <3>1. /\ Counter!InStep(r, "sale") /\ order[o].status = "none" /\ Counter!Pay(o, method)
          /\ order' = [order EXCEPT ![o] = Counter!Paid(request[r].shift, method)]
          /\ request' = [request EXCEPT ![r] = Idle]
          /\ crossed' = crossed /\ revived' = revived
      BY <2>8 DEF Counter!Sell, Counter!Finish, Counter!counterHistory
    <3>2. o \in Orders /\ request[r].shift \in Shifts
      BY <3>1 DEF IInv, Typed
    <3>3. /\ \A q \in Requests : request'[q] \in {request[q], Idle}
          /\ request' = [q \in Requests |-> request'[q]]
      BY <3>1 DEF IInv, Typed
    <3> HIDE DEF o
    <3> QED BY <3>1, <3>2, <3>3, PayStep
  <2>9. ASSUME NEW t \in Tickets, Counter!LookToFinish(r, t) PROVE IInv'
    BY <2>9, CountStep
  <2>10. ASSUME NEW amount \in {-1, 1}, Counter!EnterCredit(r, amount) PROVE IInv'
    BY <2>10, RequestWritten DEF Counter!EnterCredit, Counter!Finish
  <2> QED BY <1>2, <2>1, <2>2, <2>3, <2>4, <2>5, <2>6, <2>7, <2>8, <2>9, <2>10
             DEF Counter!RequestStep
<1>3. ASSUME NEW o \in Orders, Counter!OrderStep(o) PROVE IInv'
  <2>1. CASE Counter!RefundOrder(o)
    BY <2>1, RefundStep
  <2>2. CASE Counter!PickUp(o)
    BY <2>2, PickUpStep
  <2>3. ASSUME NEW method \in {"cash", "credit"}, Counter!CapturePayment(o, method) PROVE IInv'
    <3>1. /\ order[o].status = "draft" /\ Counter!Pay(o, method)
          /\ order' = [order EXCEPT ![o] = Counter!Paid(order[o].shift, method)]
          /\ request' = request /\ crossed' = crossed /\ revived' = revived
      BY <2>3 DEF Counter!CapturePayment, Counter!counterHistory
    <3>2. order[o].shift \in Shifts \cup {NoShift} /\ request' = [q \in Requests |-> request'[q]]
      BY <3>1 DEF IInv, Typed, OrderRows
    <3> QED BY <3>1, <3>2, PayStep
  <2>4. CASE Counter!AdvanceOrder(o, "queued", "preparing")
    BY <2>4, AdvanceStep
  <2>5. CASE Counter!AdvanceOrder(o, "preparing", "ready")
    BY <2>5, AdvanceStep
  <2> QED BY <1>3, <2>1, <2>2, <2>3, <2>4, <2>5 DEF Counter!OrderStep
<1>4. ASSUME NEW s \in Shifts, Counter!CloseShift(s) PROVE IInv'
  BY <1>1, <1>4 DEF Counter!CloseShift
<1>5. ASSUME NEW t \in Tickets, Counter!StartTicket(t) PROVE IInv'
  BY <1>5, StartStep
<1>6. ASSUME NEW u \in Topups,
             Counter!RequestTopup(u) \/ Counter!ApproveTopup(u) \/ Counter!RejectTopup(u)
      PROVE  IInv'
  BY <1>1, <1>6 DEF Counter!RequestTopup, Counter!ApproveTopup, Counter!RejectTopup,
                    Counter!counterHistory
<1>7. ASSUME NEW limit \in Limits, Counter!SetLimit(limit) PROVE IInv'
  BY <1>1, <1>7 DEF Counter!SetLimit, Counter!counterHistory
<1>8. CASE UNCHANGED counterVars
  BY <1>1, <1>8 DEF counterVars
<1>9. CASE Counter!CounterNext
  BY <1>9, <1>2, <1>3, <1>4, <1>5, <1>6, <1>7 DEF Counter!CounterNext
<1> QED BY <1>8, <1>9 DEF Next, vars

\* An order is handed out once all its dishes are prepared and not before, however the
\* kitchen, the counter and refunds interleave.
THEOREM HandedOutWhenPrepared == Spec => []ReadyWhenPrepared
<1>1. Init => IInv
  BY InitIInv
<1>2. IInv /\ [Next]_vars => IInv'
  BY NextIInv
<1>3. IInv => ReadyWhenPrepared
  BY DEF IInv
<1> QED BY <1>1, <1>2, <1>3, PTL DEF Spec

--------------------------------------------------------------------------------
(***************************************************************************)
(* What orders cost.                                                        *)
(***************************************************************************)

LEMMA CostCounts == ASSUME NEW S PROVE Counter!Cardinality(S) = Cardinality(S)
BY DEF Counter!Cardinality, Cardinality

LEMMA CostIsNat == ASSUME NEW O PROVE Counter!Cost(O) \in Nat
<1> DEFINE A == {t \in Tickets : OrderOf[t] \in O}
<1>1. IsFiniteSet(Tickets) /\ A \subseteq Tickets
  BY OrderAssumption
<1> HIDE DEF A
<1>2. IsFiniteSet(A)
  BY <1>1, FiniteSubset
<1>3. Cardinality(A) \in Nat
  BY <1>2, FS_CardinalityType
<1> QED BY <1>3, CostCounts DEF Counter!Cost, A

LEMMA CostOfMore ==
  ASSUME NEW O, NEW o, o \notin O
  PROVE  Counter!Cost(O \cup {o}) = Counter!Cost(O) + Counter!Cost({o})
<1> DEFINE A == {t \in Tickets : OrderOf[t] \in O}
           B == {t \in Tickets : OrderOf[t] \in {o}}
           C == {t \in Tickets : OrderOf[t] \in O \cup {o}}
<1>1. IsFiniteSet(A) /\ IsFiniteSet(B)
  <2>1. IsFiniteSet(Tickets) /\ A \subseteq Tickets /\ B \subseteq Tickets
    BY OrderAssumption
  <2> HIDE DEF A, B
  <2> QED BY <2>1, FiniteSubset
<1>2. A \cup B = C /\ A \cap B = {}
  OBVIOUS
<1>3. Cardinality(A) \in Nat /\ Cardinality(B) \in Nat
  BY <1>1, FS_CardinalityType
<1>4. Cardinality(A \cup B) = Cardinality(A) + Cardinality(B) - Cardinality(A \cap B)
  <2> HIDE DEF A, B
  <2> QED BY <1>1, FS_Union
<1>5. Cardinality(A \cap B) = 0
  BY <1>2, FS_EmptySet
<1>6. Cardinality(C) = Cardinality(A) + Cardinality(B)
  <2>1. PICK a \in Nat : a = Cardinality(A)
    BY <1>3
  <2>2. PICK b \in Nat : b = Cardinality(B)
    BY <1>3
  <2>3. Cardinality(A \cup B) = a + b
    <3> HIDE DEF A, B
    <3> QED BY <2>1, <2>2, <1>4, <1>5
  <2>4. Cardinality(C) = Cardinality(A \cup B)
    BY <1>2
  <2> HIDE DEF A, B, C
  <2> QED BY <2>1, <2>2, <2>3, <2>4
<1> QED BY <1>6, CostCounts DEF Counter!Cost

\* A set of orders without one of them.
LEMMA CostOfLess ==
  ASSUME NEW O, NEW o \in O
  PROVE  Counter!Cost(O \ {o}) = Counter!Cost(O) - Counter!Cost({o})
<1> DEFINE P == O \ {o}
<1>1. P \cup {o} = O /\ o \notin P
  OBVIOUS
<1> HIDE DEF P
<1>2. Counter!Cost(P \cup {o}) = Counter!Cost(P) + Counter!Cost({o})
  BY <1>1, CostOfMore
<1>3. /\ Counter!Cost(P) \in Nat /\ Counter!Cost({o}) \in Nat /\ Counter!Cost(O) \in Nat
  BY CostIsNat
<1>4. Counter!Cost(O) = Counter!Cost(P) + Counter!Cost({o})
  BY <1>1, <1>2
<1>5. Counter!Cost(P) = Counter!Cost(O) - Counter!Cost({o})
  BY <1>3, <1>4
<1> QED BY <1>5 DEF P

--------------------------------------------------------------------------------
(***************************************************************************)
(* Types of the counter, beside those of orders and tickets in Typed.       *)
(***************************************************************************)

ShiftRows == [status : {"none", "open", "closed"}, date : Dates \cup {"none"}, expected : Nat]

CounterTypes ==
    /\ shift \in [Shifts -> ShiftRows]
    /\ topup \in [Topups -> {"none", "pending", "approved", "rejected"}]
    /\ \A r \in Requests : request[r] = Idle \/ request[r] \in Reading

\* A natural number is the least of its set.
LEMMA LeastLimit == Counter!Min(Limits) \in Limits
<1> DEFINE Less == {p \in Nat \X Nat : p[1] < p[2]}
<1>1. PICK n \in Limits : \A m \in Limits : n <= m
  <2>1. IsWellFoundedOn(Less, Nat)
    BY NatLessThanWellFounded DEF OpToRel
  <2>2. PICK n \in Limits : \A m \in Limits : <<m, n>> \notin Less
    <3> HIDE DEF Less
    <3> QED BY <2>1, LimitAssumption, WFMin
  <2>3. ASSUME NEW m \in Limits PROVE n <= m
    <3>1. m \in Nat /\ n \in Nat
      BY LimitAssumption
    <3>2. ~(m < n)
      BY <2>2, <3>1
    <3> QED BY <3>1, <3>2
  <2> QED BY <2>3
<1> QED BY <1>1 DEF Counter!Min

LEMMA RequestTyped ==
  ASSUME IInv, CounterTypes, NEW r \in Requests, NEW x, x = Idle \/ x \in Reading,
         request' = [request EXCEPT ![r] = x]
  PROVE  \A q \in Requests : request'[q] = Idle \/ request'[q] \in Reading
BY DEF IInv, Typed, CounterTypes

--------------------------------------------------------------------------------
(***************************************************************************)
(* What the steps of the counter change: few change what has been paid.     *)
(***************************************************************************)

Ordering(r) == Counter!InStep(r, "draft") \/ Counter!InStep(r, "sale")

\* No order changes its status, shift or payment.
SameOrders ==
    \A o \in Orders : /\ order'[o].status = order[o].status
                      /\ order'[o].shift = order[o].shift
                      /\ order'[o].method = order[o].method

\* A step of the kitchen or the hand-out, or one that only reads for a later step.
Quiet ==
    /\ SameOrders
    /\ UNCHANGED <<stock, shift, account, entered, lost, overlooked, returned>>
    /\ \A r \in Requests : Ordering(r)' => Ordering(r) /\ request'[r] = request[r]

LEMMA WriteIsQuiet ==
  ASSUME IInv, SameOrders, UNCHANGED <<stock, shift, account, entered, lost, overlooked, returned>>,
         NEW r \in Requests, NEW x, request' = [request EXCEPT ![r] = x],
         x # Idle => x.kind \notin {"draft", "sale"}
  PROVE  Quiet
<1>1. \A q \in Requests : request'[q] = IF q = r THEN x ELSE request[q]
  BY DEF IInv, Typed
<1>2. \A q \in Requests : Ordering(q)' => Ordering(q) /\ request'[q] = request[q]
  BY <1>1 DEF Ordering, Counter!InStep
<1> QED BY <1>2 DEF Quiet

LEMMA HandOutIsQuiet ==
  ASSUME IInv, NEW o \in Orders, NEW to \in Fulfillment, order' = [order EXCEPT ![o].fulfillment = to]
  PROVE  SameOrders
<1> SUFFICES ASSUME NEW p \in Orders
             PROVE  /\ order'[p].status = order[p].status
                    /\ order'[p].shift = order[p].shift
                    /\ order'[p].method = order[p].method
  BY DEF SameOrders
<1>1. order \in [Orders -> OrderRows] /\ order[p] \in OrderRows
  BY DEF IInv, Typed
<1>2. order'[p] = IF p = o THEN [order[p] EXCEPT !.fulfillment = to] ELSE order[p]
  BY <1>1
<1> QED BY <1>1, <1>2 DEF OrderRows

\* The steps that are not quiet.
Sale(r) == \E method \in {"cash", "credit"} : Counter!Sell(r, method)
Capture(o) == \E method \in {"cash", "credit"} : Counter!CapturePayment(o, method)
Entry(r) == \E amount \in {-1, 1} : Counter!EnterCredit(r, amount)
Begins(r) == \E kind \in {"draft", "sale"}, o \in Orders, s \in Shifts :
                 Counter!LookToOrder(r, kind, o, s)
Opens(r) == \E s \in Shifts : Counter!OpenShift(r, s)

Loud ==
    \/ \E r \in Requests :
          Counter!PlaceOrder(r) \/ Sale(r) \/ Entry(r) \/ Begins(r) \/ Opens(r)
    \/ \E o \in Orders : Counter!RefundOrder(o) \/ Capture(o)
    \/ \E s \in Shifts : Counter!CloseShift(s)
    \/ \E u \in Topups : Counter!ApproveTopup(u)
    \/ \E limit \in Limits : Counter!SetLimit(limit)

LEMMA QuietOrLoud ==
  ASSUME IInv, Counter!CounterNext PROVE Quiet \/ Loud
<1> SUFFICES ASSUME ~Loud PROVE Quiet
  OBVIOUS
<1> USE DEF Counter!counterHistory
<1>1. ASSUME order' = order PROVE SameOrders
  BY <1>1 DEF SameOrders
<1>2. ASSUME SameOrders, request' = request,
             UNCHANGED <<stock, shift, account, entered, lost, overlooked, returned>>
      PROVE  Quiet
  BY <1>2 DEF Quiet, Ordering, Counter!InStep
<1>3. ASSUME NEW r \in Requests, Counter!RequestStep(r) PROVE Quiet
  <2>1. CASE Counter!Abort(r)
    BY <2>1, <1>1, WriteIsQuiet DEF Counter!Abort, Counter!Finish
  <2>2. CASE Counter!FinishTicket(r)
    <3>1. Finishing(r)
      BY <2>2 DEF Counter!FinishTicket, Finishing
    <3>2. Order(r) \in Orders
      BY <3>1, OutIsPrepared
    <3>3. order' = order \/ order' = [order EXCEPT ![Order(r)].fulfillment = "ready"]
      BY <2>2 DEF Counter!FinishTicket, Order
    <3>4. SameOrders
      BY <3>2, <3>3, <1>1, HandOutIsQuiet DEF Fulfillment
    <3> QED BY <2>2, <3>4, WriteIsQuiet DEF Counter!FinishTicket, Counter!Finish
  <2>3. CASE Counter!LookToEnter(r)
    <3> DEFINE x == [kind |-> "entry", balance |-> account.balance, limit |-> account.limit]
    <3>1. x.kind = "entry" /\ request' = [request EXCEPT ![r] = x]
      BY <2>3 DEF Counter!LookToEnter, Counter!Begin
    <3>2. SameOrders /\ UNCHANGED <<stock, shift, account, entered, lost, overlooked, returned>>
      BY <2>3, <1>1 DEF Counter!LookToEnter
    <3> HIDE DEF x
    <3> QED BY <3>1, <3>2, WriteIsQuiet
  <2>4. ASSUME NEW d \in Dates, Counter!LookToOpen(r, d) PROVE Quiet
    <3>1. \E n : request' = [request EXCEPT ![r] = [kind |-> "open", date |-> d, round |-> n]]
      BY <2>4 DEF Counter!LookToOpen, Counter!Begin
    <3>2. PICK n : request' = [request EXCEPT ![r] = [kind |-> "open", date |-> d, round |-> n]]
      BY <3>1
    <3> DEFINE x == [kind |-> "open", date |-> d, round |-> n]
    <3>3. x.kind = "open" /\ request' = [request EXCEPT ![r] = x]
      BY <3>2
    <3>4. SameOrders /\ UNCHANGED <<stock, shift, account, entered, lost, overlooked, returned>>
      BY <2>4, <1>1 DEF Counter!LookToOpen
    <3> HIDE DEF x
    <3> QED BY <3>3, <3>4, WriteIsQuiet
  <2>5. ASSUME NEW t \in Tickets, Counter!LookToFinish(r, t) PROVE Quiet
    <3>1. \E n : request' = [request EXCEPT ![r] = [kind |-> "finish", ticket |-> t, last |-> n]]
      BY <2>5 DEF Counter!LookToFinish, Counter!Begin
    <3>2. PICK n : request' = [request EXCEPT ![r] = [kind |-> "finish", ticket |-> t, last |-> n]]
      BY <3>1
    <3> DEFINE x == [kind |-> "finish", ticket |-> t, last |-> n]
    <3>3. x.kind = "finish" /\ request' = [request EXCEPT ![r] = x]
      BY <3>2
    <3>4. SameOrders /\ UNCHANGED <<stock, shift, account, entered, lost, overlooked, returned>>
      BY <2>5, <1>1 DEF Counter!LookToFinish
    <3> HIDE DEF x
    <3> QED BY <3>3, <3>4, WriteIsQuiet
  <2> QED BY <1>3, <2>1, <2>2, <2>3, <2>4, <2>5
             DEF Counter!RequestStep, Loud, Sale, Entry, Begins, Opens
<1>4. ASSUME NEW o \in Orders, Counter!OrderStep(o) PROVE Quiet
  <2>1. ASSUME NEW from, NEW to \in {"preparing", "ready"}, Counter!AdvanceOrder(o, from, to)
        PROVE  Quiet
    <3>1. SameOrders
      BY <2>1, HandOutIsQuiet DEF Counter!AdvanceOrder, Fulfillment
    <3> QED BY <2>1, <3>1, <1>2 DEF Counter!AdvanceOrder
  <2>2. CASE Counter!PickUp(o)
    <3>1. SameOrders
      BY <2>2, HandOutIsQuiet DEF Counter!PickUp, Fulfillment
    <3> QED BY <2>2, <3>1, <1>2 DEF Counter!PickUp
  <2> QED BY <1>4, <2>1, <2>2 DEF Counter!OrderStep, Loud, Capture
<1>5. ASSUME NEW t \in Tickets, Counter!StartTicket(t) PROVE Quiet
  BY <1>5, <1>1, <1>2 DEF Counter!StartTicket
<1>6. ASSUME NEW u \in Topups, Counter!RequestTopup(u) \/ Counter!RejectTopup(u) PROVE Quiet
  BY <1>6, <1>1, <1>2 DEF Counter!RequestTopup, Counter!RejectTopup
<1> QED BY <1>3, <1>4, <1>5, <1>6 DEF Counter!CounterNext, Loud

--------------------------------------------------------------------------------
(***************************************************************************)
(* What has been sold and what is owed for it.                              *)
(***************************************************************************)

PaidOrders == {o \in Orders : order[o].status = "paid"}
CreditOrders == {o \in Orders : order[o].status = "paid" /\ order[o].method = "credit"}
Owed == Counter!Cost(CreditOrders)

LEMMA SoldTypes == Sold \in Nat /\ Sold' \in Nat /\ Owed \in Nat /\ Owed' \in Nat
BY CostIsNat DEF Sold, Owed

LEMMA SameOrdersOwed == ASSUME SameOrders PROVE Sold' = Sold /\ Owed' = Owed
<1>1. PaidOrders' = PaidOrders /\ CreditOrders' = CreditOrders
  BY DEF SameOrders, PaidOrders, CreditOrders
<1>2. Sold = Counter!Cost(PaidOrders) /\ Sold' = Counter!Cost(PaidOrders')
  BY DEF Sold, PaidOrders
<1>3. Owed' = Counter!Cost(CreditOrders')
  BY DEF Owed
<1> QED BY <1>1, <1>2, <1>3 DEF Owed

\* One order becomes paid.
LEMMA PaidOwed ==
  ASSUME IInv, NEW o \in Orders, order[o].status # "paid", NEW s, NEW method \in {"cash", "credit"},
         order' = [order EXCEPT ![o] = Counter!Paid(s, method)]
  PROVE  /\ Sold' = Sold + Counter!Cost({o})
         /\ Owed' = Owed + (IF method = "credit" THEN Counter!Cost({o}) ELSE 0)
<1>1. /\ \A p \in Orders : p # o => order'[p] = order[p]
      /\ order'[o].status = "paid" /\ order'[o].method = method
  BY DEF IInv, Typed, Counter!Paid
<1>2. o \notin PaidOrders /\ o \notin CreditOrders
  BY DEF PaidOrders, CreditOrders
<1>3. PaidOrders' = PaidOrders \cup {o}
  BY <1>1 DEF PaidOrders
<1>4. CreditOrders' = IF method = "credit" THEN CreditOrders \cup {o} ELSE CreditOrders
  BY <1>1, <1>2 DEF CreditOrders
<1>5. Sold = Counter!Cost(PaidOrders) /\ Sold' = Counter!Cost(PaidOrders')
  BY DEF Sold, PaidOrders
<1>6. Owed = Counter!Cost(CreditOrders) /\ Owed' = Counter!Cost(CreditOrders')
  BY DEF Owed
<1> HIDE DEF PaidOrders, CreditOrders
<1>7. Counter!Cost(PaidOrders \cup {o}) = Counter!Cost(PaidOrders) + Counter!Cost({o})
  BY <1>2, CostOfMore
<1>8. Counter!Cost(CreditOrders \cup {o}) = Counter!Cost(CreditOrders) + Counter!Cost({o})
  BY <1>2, CostOfMore
<1>9. Counter!Cost(CreditOrders) \in Nat
  BY CostIsNat
<1>10. Sold' = Sold + Counter!Cost({o})
  BY <1>3, <1>5, <1>7
<1>11. CASE method = "credit"
  BY <1>10, <1>4, <1>6, <1>8, <1>11
<1>12. CASE method # "credit"
  <2>1. Owed' = Owed
    BY <1>4, <1>6, <1>12
  <2>2. Owed \in Nat
    BY <1>6, <1>9
  <2> QED BY <2>1, <2>2, <1>10, <1>12
<1> QED BY <1>11, <1>12

\* One paid order is paid back.
LEMMA RefundedOwed ==
  ASSUME IInv, NEW o \in Orders, order[o].status = "paid",
         order' = [order EXCEPT ![o].status = "refunded", ![o].fulfillment = "cancelled"]
  PROVE  /\ Sold' = Sold - Counter!Cost({o})
         /\ Owed' = Owed - (IF order[o].method = "credit" THEN Counter!Cost({o}) ELSE 0)
<1>1. /\ \A p \in Orders : p # o => order'[p] = order[p]
      /\ order'[o].status = "refunded"
  <2>1. order \in [Orders -> OrderRows] /\ order[o] \in OrderRows
    BY DEF IInv, Typed
  <2>2. [order[o] EXCEPT !.status = "refunded", !.fulfillment = "cancelled"].status = "refunded"
    BY <2>1 DEF OrderRows
  <2> QED BY <2>1, <2>2
<1>2. o \in PaidOrders /\ (o \in CreditOrders <=> order[o].method = "credit")
  BY DEF PaidOrders, CreditOrders
<1>3. PaidOrders' = PaidOrders \ {o} /\ CreditOrders' = CreditOrders \ {o}
  BY <1>1 DEF PaidOrders, CreditOrders
<1>5. Sold = Counter!Cost(PaidOrders) /\ Sold' = Counter!Cost(PaidOrders')
  BY DEF Sold, PaidOrders
<1>6. Owed = Counter!Cost(CreditOrders) /\ Owed' = Counter!Cost(CreditOrders')
  BY DEF Owed
<1> HIDE DEF PaidOrders, CreditOrders
<1>7. Counter!Cost(PaidOrders \ {o}) = Counter!Cost(PaidOrders) - Counter!Cost({o})
  BY <1>2, CostOfLess
<1>9. Counter!Cost(CreditOrders) \in Nat
  BY CostIsNat
<1>10. Sold' = Sold - Counter!Cost({o})
  BY <1>3, <1>5, <1>7
<1>11. CASE order[o].method = "credit"
  <2>1. Counter!Cost(CreditOrders \ {o}) = Counter!Cost(CreditOrders) - Counter!Cost({o})
    BY <1>2, <1>11, CostOfLess
  <2> QED BY <1>10, <1>3, <1>6, <2>1, <1>11
<1>12. CASE order[o].method # "credit"
  <2>1. CreditOrders \ {o} = CreditOrders
    BY <1>2, <1>12
  <2>2. Owed' = Owed
    BY <1>3, <1>6, <2>1
  <2>3. Owed \in Nat
    BY <1>6, <1>9
  <2> QED BY <2>2, <2>3, <1>10, <1>12
<1> QED BY <1>11, <1>12

\* An order that waits for its payment is not paid.
LEMMA PlacedOwed ==
  ASSUME IInv, NEW r \in Requests, Counter!PlaceOrder(r)
  PROVE  Sold' = Sold /\ Owed' = Owed
<1> DEFINE o == request[r].order
<1>1. /\ o \in Orders /\ order[o].status = "none"
      /\ order' = [order EXCEPT ![o] = [status |-> "draft", shift |-> request[r].shift,
                                         fulfillment |-> "awaiting_payment", method |-> "none"]]
  BY DEF IInv, Typed, Counter!PlaceOrder
<1> HIDE DEF o
<1>2. /\ \A p \in Orders : p # o => order'[p] = order[p]
      /\ order'[o].status = "draft"
  BY <1>1 DEF IInv, Typed
<1>3. PaidOrders' = PaidOrders /\ CreditOrders' = CreditOrders
  BY <1>1, <1>2 DEF PaidOrders, CreditOrders
<1>4. Sold = Counter!Cost(PaidOrders) /\ Sold' = Counter!Cost(PaidOrders')
  BY DEF Sold, PaidOrders
<1>5. Owed' = Counter!Cost(CreditOrders')
  BY DEF Owed
<1> QED BY <1>3, <1>4, <1>5 DEF Owed

--------------------------------------------------------------------------------
(***************************************************************************)
(* The credit account.                                                      *)
(***************************************************************************)

AccountTypes == /\ account \in [balance : Nat, limit : Limits]
                /\ lost \in Int /\ entered \in [count : Nat, sum : Int]
CreditInv == account.balance + lost = Owed + entered.sum
CreditKept == AccountTypes' /\ CreditInv'

\* A charge within the limit, or a payment that falls due for no more than is owed.
LEMMA ChargeKept ==
  ASSUME AccountTypes, CreditInv, NEW n \in Int, Counter!Charge(n),
         lost' = lost, entered' \in [count : Nat, sum : Int],
         Owed' + entered'.sum = Owed + entered.sum + n
  PROVE  CreditKept
<1>1. /\ account \in [balance : Nat, limit : Limits] /\ account.limit \in Nat
      /\ account' = [account EXCEPT !.balance = account.balance + n]
      /\ account.balance + n \in 0..account.limit
  BY LimitAssumption DEF AccountTypes, Counter!Charge
<1>2. account.balance + n \in Nat
  BY <1>1
<1>3. /\ account' \in [balance : Nat, limit : Limits]
      /\ account'.balance = account.balance + n
  BY <1>1, <1>2
<1>4. CreditInv'
  <2>1. /\ account.balance + lost = Owed + entered.sum
        /\ account.balance \in Int /\ lost \in Int /\ Owed \in Int /\ entered.sum \in Int
        /\ Owed' \in Int /\ entered'.sum \in Int
    BY <1>1, SoldTypes DEF AccountTypes, CreditInv
  <2>2. account'.balance + lost' = account.balance + n + lost
    BY <1>3
  <2> HIDE DEF Owed
  <2>3. account'.balance + lost' = Owed' + entered'.sum
    BY <2>1, <2>2
  <2> QED BY <2>3 DEF CreditInv
<1> QED BY <1>3, <1>4 DEF CreditKept, AccountTypes

\* A sale charges the account if it is on credit.
LEMMA PayCredit ==
  ASSUME IInv, AccountTypes, CreditInv, NEW o \in Orders, order[o].status # "paid",
         NEW s, NEW method \in {"cash", "credit"},
         order' = [order EXCEPT ![o] = Counter!Paid(s, method)], Counter!Pay(o, method),
         lost' = lost, entered' = entered
  PROVE  CreditKept
<1>1. Owed' = Owed + (IF method = "credit" THEN Counter!Cost({o}) ELSE 0)
  BY PaidOwed
<1>2. Counter!Cost({o}) \in Nat
  BY CostIsNat
<1>3. Owed \in Nat /\ Owed' \in Nat /\ entered.sum \in Int /\ entered \in [count : Nat, sum : Int]
  BY SoldTypes DEF AccountTypes
<1> HIDE DEF Owed
<1>4. CASE method = "credit"
  <2>1. Counter!Charge(Counter!Cost({o}))
    BY <1>4 DEF Counter!Pay
  <2>2. Owed' + entered'.sum = Owed + entered.sum + Counter!Cost({o})
    BY <1>1, <1>2, <1>3, <1>4
  <2>3. Counter!Cost({o}) \in Int
    BY <1>2
  <2> QED BY <2>1, <2>2, <2>3, <1>3, ChargeKept
<1>5. CASE method # "credit"
  <2>1. account' = account
    BY <1>5 DEF Counter!Pay
  <2>2. Owed' = Owed
    BY <1>1, <1>3, <1>5
  <2> QED BY <2>1, <2>2 DEF CreditKept, CreditInv, AccountTypes
<1> QED BY <1>4, <1>5

LEMMA CounterCredit ==
  ASSUME IInv, AccountTypes, CreditInv, \A r \in Requests : request[r] = Idle \/ request[r] \in Reading,
         Counter!CounterNext
  PROVE  CreditKept
<1>1. ASSUME SameOrders, UNCHANGED <<account, entered, lost>> PROVE CreditKept
  <2>1. Owed' = Owed
    BY <1>1, SameOrdersOwed
  <2> QED BY <2>1, <1>1 DEF CreditKept, CreditInv, AccountTypes
<1>2. ASSUME order' = order PROVE SameOrders /\ Owed' = Owed
  <2>1. SameOrders
    BY <1>2 DEF SameOrders
  <2> QED BY <2>1, SameOrdersOwed
<1>3. CASE Quiet
  BY <1>1, <1>3 DEF Quiet
<1>4. ASSUME NEW r \in Requests, Counter!PlaceOrder(r) PROVE CreditKept
  <2>1. Owed' = Owed
    BY <1>4, PlacedOwed
  <2> QED BY <2>1, <1>4 DEF CreditKept, CreditInv, AccountTypes, Counter!PlaceOrder,
                            Counter!counterHistory
<1>5. ASSUME NEW r \in Requests, Sale(r) PROVE CreditKept
  <2>1. PICK method \in {"cash", "credit"} : Counter!Sell(r, method)
    BY <1>5 DEF Sale
  <2> DEFINE o == request[r].order
             s == request[r].shift
  <2>2. o \in Orders
    BY <2>1 DEF IInv, Typed, Counter!Sell
  <2>3. /\ order[o].status # "paid" /\ Counter!Pay(o, method)
        /\ order' = [order EXCEPT ![o] = Counter!Paid(s, method)]
        /\ lost' = lost /\ entered' = entered
    BY <2>1 DEF Counter!Sell, Counter!counterHistory
  <2> HIDE DEF o, s
  <2> QED BY <2>2, <2>3, PayCredit
<1>6. ASSUME NEW o \in Orders, Capture(o) PROVE CreditKept
  <2>1. PICK method \in {"cash", "credit"} : Counter!CapturePayment(o, method)
    BY <1>6 DEF Capture
  <2>2. /\ order[o].status # "paid" /\ Counter!Pay(o, method)
        /\ order' = [order EXCEPT ![o] = Counter!Paid(order[o].shift, method)]
        /\ lost' = lost /\ entered' = entered
    BY <2>1 DEF Counter!CapturePayment, Counter!counterHistory
  <2> QED BY <2>2, PayCredit
<1>7. ASSUME NEW o \in Orders, Counter!RefundOrder(o) PROVE CreditKept
  <2>1. /\ order[o].status = "paid" /\ lost' = lost /\ entered' = entered
        /\ order' = [order EXCEPT ![o].status = "refunded", ![o].fulfillment = "cancelled"]
    BY <1>7 DEF Counter!RefundOrder
  <2>2. Owed' = Owed - (IF order[o].method = "credit" THEN Counter!Cost({o}) ELSE 0)
    BY <2>1, RefundedOwed
  <2>3. Counter!Cost({o}) \in Nat
    BY CostIsNat
  <2>4. Owed \in Nat /\ Owed' \in Nat /\ entered.sum \in Int /\ entered \in [count : Nat, sum : Int]
    BY SoldTypes DEF AccountTypes
  <2> HIDE DEF Owed
  <2>5. CASE order[o].method = "credit"
    <3>1. Counter!Charge(-Counter!Cost({o}))
      BY <1>7, <2>5 DEF Counter!RefundOrder
    <3>2. Owed' + entered'.sum = Owed + entered.sum + (-Counter!Cost({o}))
      BY <2>1, <2>2, <2>3, <2>4, <2>5
    <3>3. -Counter!Cost({o}) \in Int
      BY <2>3
    <3> QED BY <3>1, <3>2, <3>3, <2>1, <2>4, ChargeKept
  <2>6. CASE order[o].method # "credit"
    <3>1. account' = account
      BY <1>7, <2>6 DEF Counter!RefundOrder
    <3>2. Owed' = Owed
      BY <2>2, <2>4, <2>6
    <3> QED BY <2>1, <3>1, <3>2 DEF CreditKept, CreditInv, AccountTypes
  <2> QED BY <2>5, <2>6
<1>8. ASSUME NEW r \in Requests, Begins(r) \/ Opens(r) PROVE CreditKept
  <2>1. order' = order /\ UNCHANGED <<account, entered, lost>>
    BY <1>8 DEF Begins, Opens, Counter!LookToOrder, Counter!OpenShift, Counter!counterHistory
  <2> QED BY <2>1, <1>1, <1>2
<1>9. ASSUME NEW s \in Shifts, Counter!CloseShift(s) PROVE CreditKept
  BY <1>9, <1>1, <1>2 DEF Counter!CloseShift
<1>10. ASSUME NEW limit \in Limits, Counter!SetLimit(limit) PROVE CreditKept
  <2>1. /\ order' = order /\ lost' = lost /\ entered' = entered
        /\ account' = [account EXCEPT !.limit = limit]
    BY <1>10 DEF Counter!SetLimit, Counter!counterHistory
  <2>2. Owed' = Owed
    BY <2>1, <1>2
  <2>3. account'.balance = account.balance /\ account' \in [balance : Nat, limit : Limits]
    BY <2>1 DEF AccountTypes
  <2> QED BY <2>1, <2>2, <2>3 DEF CreditKept, CreditInv, AccountTypes
<1>11. ASSUME NEW u \in Topups, Counter!ApproveTopup(u) PROVE CreditKept
  <2>1. /\ order' = order /\ lost' = lost /\ Counter!Charge(-1)
        /\ entered' = [count |-> entered.count + 1, sum |-> entered.sum + (-1)]
    BY <1>11 DEF Counter!ApproveTopup, Counter!Enter
  <2>2. entered' \in [count : Nat, sum : Int] /\ entered'.sum = entered.sum + (-1)
    BY <2>1 DEF AccountTypes
  <2>3. Owed' = Owed /\ Owed \in Nat /\ entered.sum \in Int
    BY <2>1, <1>2, SoldTypes DEF AccountTypes
  <2>4. Owed' + entered'.sum = Owed + entered.sum + (-1)
    BY <2>2, <2>3
  <2>5. -1 \in Int
    OBVIOUS
  <2> QED BY <2>1, <2>2, <2>4, <2>5, ChargeKept
<1>12. ASSUME NEW r \in Requests, Entry(r) PROVE CreditKept
  <2>1. PICK amount \in {-1, 1} : Counter!EnterCredit(r, amount)
    BY <1>12 DEF Entry
  <2> DEFINE read == request[r].balance
  <2>2. /\ order' = order
        /\ Counter!InStep(r, "entry")
        /\ read + amount \in 0..request[r].limit
        /\ account' = [account EXCEPT !.balance = read + amount]
        /\ lost' = lost + account.balance - read
        /\ entered' = [count |-> entered.count + 1, sum |-> entered.sum + amount]
    BY <2>1 DEF Counter!EnterCredit, Counter!Enter
  <2>3. read \in Nat /\ request[r].limit \in Nat
    <3>1. request[r] \in Reading /\ request[r].kind = "entry"
      BY <2>2 DEF Counter!InStep
    <3> QED BY <3>1, LimitAssumption DEF Reading
  <2> HIDE DEF read
  <2>4. Owed' = Owed /\ Owed \in Nat
    BY <2>2, <1>2, SoldTypes
  <2>5. /\ account' \in [balance : Nat, limit : Limits] /\ account'.balance = read + amount
        /\ account.balance \in Nat /\ lost \in Int /\ entered.sum \in Int
    BY <2>2, <2>3 DEF AccountTypes
  <2>6. entered' \in [count : Nat, sum : Int] /\ entered'.sum = entered.sum + amount
    BY <2>2 DEF AccountTypes
  <2>7. lost' \in Int
    BY <2>2, <2>3, <2>5
  <2>8. account'.balance + lost' = Owed' + entered'.sum
    <3>1. account.balance + lost = Owed + entered.sum
      BY DEF CreditInv
    <3> HIDE DEF Owed
    <3> QED BY <2>2, <2>3, <2>4, <2>5, <2>6, <3>1
  <2> QED BY <2>5, <2>6, <2>7, <2>8 DEF CreditKept, CreditInv, AccountTypes
<1> QED BY QuietOrLoud, <1>3, <1>4, <1>5, <1>6, <1>7, <1>8, <1>9, <1>10, <1>11, <1>12 DEF Loud

--------------------------------------------------------------------------------
\* Rows of the counter keep their types.
LEMMA CounterTypesKept ==
  ASSUME IInv, CounterTypes, account \in [balance : Nat, limit : Limits], Counter!CounterNext
  PROVE  CounterTypes'
<1> USE DEF Counter!counterHistory
<1>0. ASSUME NEW r \in Requests, NEW x, x = Idle \/ x \in Reading, request' = [request EXCEPT ![r] = x],
             shift' \in [Shifts -> ShiftRows], topup' = topup
      PROVE  CounterTypes'
  BY <1>0, RequestTyped DEF CounterTypes
<1>1. shift \in [Shifts -> ShiftRows]
  BY DEF CounterTypes
<1>2. ASSUME NEW r \in Requests, Counter!RequestStep(r) PROVE CounterTypes'
  <2>1. CASE Counter!Abort(r)
    BY <2>1, <1>0, <1>1 DEF Counter!Abort, Counter!Finish
  <2>2. CASE Counter!PlaceOrder(r)
    BY <2>2, <1>0, <1>1 DEF Counter!PlaceOrder, Counter!Finish
  <2>3. CASE Counter!FinishTicket(r)
    BY <2>3, <1>0, <1>1 DEF Counter!FinishTicket, Counter!Finish
  <2>4. CASE Counter!LookToEnter(r)
    <3> DEFINE x == [kind |-> "entry", balance |-> account.balance, limit |-> account.limit]
    <3>1. request' = [request EXCEPT ![r] = x] /\ shift' = shift /\ topup' = topup
      BY <2>4 DEF Counter!LookToEnter, Counter!Begin
    <3>2. x \in Reading
      BY DEF Reading
    <3> HIDE DEF x
    <3> QED BY <3>1, <3>2, <1>0, <1>1
  <2>5. ASSUME NEW d \in Dates, Counter!LookToOpen(r, d) PROVE CounterTypes'
    <3> DEFINE n == Counter!Cardinality(Counter!RoundsOf(d))
               x == [kind |-> "open", date |-> d, round |-> n + 1]
    <3>1. request' = [request EXCEPT ![r] = x] /\ shift' = shift /\ topup' = topup
      BY <2>5 DEF Counter!LookToOpen, Counter!Begin
    <3>2. n \in Nat
      <4>1. IsFiniteSet(Shifts) /\ Counter!RoundsOf(d) \subseteq Shifts
        BY ShiftAssumption DEF Counter!RoundsOf
      <4>2. IsFiniteSet(Counter!RoundsOf(d))
        BY <4>1, FiniteSubset
      <4>3. Cardinality(Counter!RoundsOf(d)) \in Nat
        BY <4>2, FS_CardinalityType
      <4> QED BY <4>3, CostCounts
    <3> HIDE DEF n
    <3>3. x \in Reading
      BY <3>2 DEF Reading
    <3> HIDE DEF x
    <3> QED BY <3>1, <3>3, <1>0, <1>1
  <2>6. ASSUME NEW s \in Shifts, Counter!OpenShift(r, s) PROVE CounterTypes'
    <3> DEFINE row == [status |-> "open", date |-> request[r].date, expected |-> 0]
    <3>1. /\ Counter!InStep(r, "open") /\ topup' = topup
          /\ shift' = [shift EXCEPT ![s] = row] /\ request' = [request EXCEPT ![r] = Idle]
      BY <2>6 DEF Counter!OpenShift, Counter!Finish
    <3>2. request[r] \in Reading /\ request[r].kind = "open"
      BY <3>1 DEF Counter!InStep, CounterTypes
    <3>3. row \in ShiftRows
      BY <3>2 DEF Reading, ShiftRows
    <3> HIDE DEF row
    <3>4. shift' \in [Shifts -> ShiftRows]
      BY <3>1, <3>3, <1>1
    <3> QED BY <3>1, <3>4, <1>0
  <2>7. ASSUME NEW kind \in {"draft", "sale"}, NEW o \in Orders, NEW s \in Shifts,
               Counter!LookToOrder(r, kind, o, s)
        PROVE  CounterTypes'
    <3> DEFINE x == [kind |-> kind, order |-> o, shift |-> s]
    <3>1. request' = [request EXCEPT ![r] = x] /\ shift' = shift /\ topup' = topup
      BY <2>7 DEF Counter!LookToOrder, Counter!Begin
    <3>2. x \in Reading
      BY DEF Reading
    <3> HIDE DEF x
    <3> QED BY <3>1, <3>2, <1>0, <1>1
  <2>8. ASSUME NEW method, Counter!Sell(r, method) PROVE CounterTypes'
    BY <2>8, <1>0, <1>1 DEF Counter!Sell, Counter!Finish
  <2>9. ASSUME NEW t \in Tickets, Counter!LookToFinish(r, t) PROVE CounterTypes'
    <3> DEFINE last == \A u \in Counter!Dishes(OrderOf[t]) \ {t} : ticket[u] = "ready"
               x == [kind |-> "finish", ticket |-> t, last |-> last]
    <3>1. request' = [request EXCEPT ![r] = x] /\ shift' = shift /\ topup' = topup
      BY <2>9 DEF Counter!LookToFinish, Counter!Begin
    <3>2. last \in BOOLEAN
      OBVIOUS
    <3> HIDE DEF last
    <3>3. x \in Reading
      BY <3>2 DEF Reading
    <3> HIDE DEF x
    <3> QED BY <3>1, <3>3, <1>0, <1>1
  <2>10. ASSUME NEW amount, Counter!EnterCredit(r, amount) PROVE CounterTypes'
    BY <2>10, <1>0, <1>1 DEF Counter!EnterCredit, Counter!Finish
  <2> QED BY <1>2, <2>1, <2>2, <2>3, <2>4, <2>5, <2>6, <2>7, <2>8, <2>9, <2>10
             DEF Counter!RequestStep
<1>3. ASSUME request' = request, shift' \in [Shifts -> ShiftRows],
             topup' \in [Topups -> {"none", "pending", "approved", "rejected"}]
      PROVE  CounterTypes'
  BY <1>3 DEF CounterTypes
<1>4. topup \in [Topups -> {"none", "pending", "approved", "rejected"}]
  BY DEF CounterTypes
<1>5. ASSUME NEW o \in Orders, Counter!OrderStep(o) PROVE CounterTypes'
  <2>1. request' = request /\ shift' = shift /\ topup' = topup
    BY <1>5 DEF Counter!OrderStep, Counter!RefundOrder, Counter!PickUp,
                Counter!CapturePayment, Counter!AdvanceOrder
  <2> QED BY <2>1, <1>1, <1>3, <1>4
<1>6. ASSUME NEW s \in Shifts, Counter!CloseShift(s) PROVE CounterTypes'
  <2> DEFINE cash == Counter!Cost(Counter!CashOrders(s))
             row == [shift[s] EXCEPT !.status = "closed", !.expected = cash]
  <2>1. request' = request /\ topup' = topup /\ shift' = [shift EXCEPT ![s] = row]
    BY <1>6 DEF Counter!CloseShift
  <2>2. cash \in Nat
    BY CostIsNat
  <2> HIDE DEF cash
  <2>3. row \in ShiftRows
    <3>1. shift[s] \in ShiftRows
      BY <1>1
    <3> QED BY <3>1, <2>2 DEF ShiftRows
  <2> HIDE DEF row
  <2>4. shift' \in [Shifts -> ShiftRows]
    BY <2>1, <2>3, <1>1
  <2> QED BY <2>1, <2>4, <1>3, <1>4
<1>7. ASSUME NEW t \in Tickets, Counter!StartTicket(t) PROVE CounterTypes'
  BY <1>7, <1>1, <1>3, <1>4 DEF Counter!StartTicket
<1>8. ASSUME NEW u \in Topups,
             Counter!RequestTopup(u) \/ Counter!ApproveTopup(u) \/ Counter!RejectTopup(u)
      PROVE  CounterTypes'
  <2>1. \E to \in {"pending", "approved", "rejected"} :
            /\ topup' = [topup EXCEPT ![u] = to]
            /\ request' = request /\ shift' = shift
    BY <1>8 DEF Counter!RequestTopup, Counter!ApproveTopup, Counter!RejectTopup
  <2> QED BY <2>1, <1>1, <1>3, <1>4
<1>9. ASSUME NEW limit \in Limits, Counter!SetLimit(limit) PROVE CounterTypes'
  BY <1>9, <1>1, <1>3, <1>4 DEF Counter!SetLimit
<1> QED BY <1>2, <1>5, <1>6, <1>7, <1>8, <1>9 DEF Counter!CounterNext

--------------------------------------------------------------------------------
(***************************************************************************)
(* The expected cash of shifts.                                             *)
(***************************************************************************)

Begun(s) == shift[s].status \in {"open", "closed"}

\* Orders belong to shifts that were opened, and what a closed shift does not see of its
\* orders was overlooked at its close.
OverlookedAtClose ==
    \A o \in Orders, s \in Shifts : <<o, s>> \in overlooked => shift[s].status = "closed"
OrderCash(o) ==
    /\ o \in returned => order[o].status = "refunded"
    /\ order[o].status # "none" => order[o].shift \in Shifts /\ Begun(order[o].shift)
    /\ order[o].status = "refunded" /\ shift[order[o].shift].status = "open" => o \in returned
    /\ order[o].status = "draft" /\ shift[order[o].shift].status = "closed" =>
          <<o, order[o].shift>> \in overlooked
RequestCash(r) ==
    Ordering(r) =>
        /\ Begun(request[r].shift)
        /\ shift[request[r].shift].status = "closed" /\ order[request[r].order].status = "none" =>
              <<request[r].order, request[r].shift>> \in overlooked
CashBounds ==
    /\ OverlookedAtClose
    /\ \A o \in Orders : OrderCash(o)
    /\ \A r \in Requests : RequestCash(r)

CashInv == CashBounds /\ ClosedShiftCash

Counted(s) == {o \in Counter!CashOrdersEverPaid(s) \ returned : <<o, s>> \notin overlooked}

\* A shift whose orders and row stay as they are keeps its cash.
LEMMA CashUntouched ==
  ASSUME ClosedShiftCash, shift' = shift, \A s \in Shifts : shift[s].status = "closed" => Counted(s)' = Counted(s)
  PROVE  ClosedShiftCash'
BY DEF ClosedShiftCash, Counted

\* No request begins to order, and none does what it did not read.
SameRequests == \A r \in Requests : Ordering(r)' => Ordering(r) /\ request'[r] = request[r]

LEMMA QuietCash ==
  ASSUME IInv, CashInv, SameOrders, SameRequests, UNCHANGED <<shift, overlooked, returned>>
  PROVE  CashInv'
<1>1. CashBounds'
  <2>1. OverlookedAtClose'
    BY DEF CashInv, CashBounds, OverlookedAtClose
  <2>2. ASSUME NEW o \in Orders PROVE OrderCash(o)'
    BY DEF CashInv, CashBounds, OrderCash, Begun, SameOrders
  <2>3. ASSUME NEW r \in Requests PROVE RequestCash(r)'
    <3> SUFFICES ASSUME Ordering(r)' PROVE RequestCash(r)'
      BY DEF RequestCash
    <3>1. Ordering(r) /\ request'[r] = request[r]
      BY DEF SameRequests
    <3>2. request[r].order \in Orders
      BY <3>1 DEF IInv, Typed, Ordering
    <3> QED BY <3>1, <3>2 DEF CashInv, CashBounds, RequestCash, Begun, SameOrders
  <2> QED BY <2>1, <2>2, <2>3 DEF CashBounds
<1>2. \A s \in Shifts : Counted(s)' = Counted(s)
  BY DEF SameOrders, Counted, Counter!CashOrdersEverPaid
<1>3. ClosedShiftCash'
  BY <1>2, CashUntouched DEF CashInv
<1> QED BY <1>1, <1>3 DEF CashInv

\* An order is placed, or paid, in a shift that its request or its placing has read.
Writes(o, s, row) ==
    /\ order[o].status \in {"none", "draft"}
    /\ row.status \in {"draft", "paid"} /\ row.shift = s
    /\ Begun(s) /\ (shift[s].status = "closed" => <<o, s>> \in overlooked)
    /\ order' = [order EXCEPT ![o] = row]

LEMMA WrittenCash ==
  ASSUME IInv, CashInv, SameRequests, UNCHANGED <<shift, overlooked, returned>>,
         NEW o \in Orders, NEW s \in Shifts, NEW row, Writes(o, s, row)
  PROVE  CashInv'
<1> USE DEF Writes
<1>1. \A p \in Orders : order'[p] = IF p = o THEN row ELSE order[p]
  BY DEF IInv, Typed
<1>2. OverlookedAtClose'
  BY DEF CashInv, CashBounds, OverlookedAtClose
<1>3. ASSUME NEW p \in Orders PROVE OrderCash(p)'
  <2>1. OrderCash(p)
    BY DEF CashInv, CashBounds
  <2>2. CASE p = o
    BY <1>1, <2>1, <2>2 DEF OrderCash, Begun
  <2>3. CASE p # o
    BY <1>1, <2>1, <2>3 DEF OrderCash, Begun
  <2> QED BY <2>2, <2>3
<1>4. ASSUME NEW q \in Requests PROVE RequestCash(q)'
  <2> SUFFICES ASSUME Ordering(q)' PROVE RequestCash(q)'
    BY DEF RequestCash
  <2>1. Ordering(q) /\ request'[q] = request[q] /\ RequestCash(q)
    BY DEF SameRequests, CashInv, CashBounds
  <2>2. request[q].order \in Orders
    BY <2>1 DEF IInv, Typed, Ordering
  <2>3. order'[request[q].order].status = "none" => order[request[q].order].status = "none"
    BY <1>1, <2>2
  <2> QED BY <2>1, <2>3 DEF RequestCash, Begun
<1>5. ASSUME NEW z \in Shifts, shift[z].status = "closed" PROVE Counted(z)' = Counted(z)
  <2>1. o \notin Counted(z)
    BY DEF Counted, Counter!CashOrdersEverPaid
  <2>2. o \notin Counted(z)'
    BY <1>1, <1>5 DEF Counted, Counter!CashOrdersEverPaid
  <2>3. \A p \in Orders : p # o => (p \in Counted(z)' <=> p \in Counted(z))
    BY <1>1 DEF Counted, Counter!CashOrdersEverPaid
  <2>4. Counted(z) \subseteq Orders /\ Counted(z)' \subseteq Orders
    BY DEF Counted, Counter!CashOrdersEverPaid
  <2> QED BY <2>1, <2>2, <2>3, <2>4
<1>6. ClosedShiftCash'
  BY <1>5, CashUntouched DEF CashInv
<1> QED BY <1>2, <1>3, <1>4, <1>6 DEF CashInv, CashBounds

\* A refund is not counted again: the shift is open and forgets the order, or has closed.
LEMMA RefundedCash ==
  ASSUME IInv, CashInv, NEW o \in Orders, Counter!RefundOrder(o)
  PROVE  CashInv'
<1>1. /\ order[o].status = "paid"
      /\ order' = [order EXCEPT ![o].status = "refunded", ![o].fulfillment = "cancelled"]
      /\ returned' = IF shift[order[o].shift].status = "open" THEN returned \cup {o} ELSE returned
      /\ UNCHANGED <<shift, overlooked, request>>
  BY DEF Counter!RefundOrder
<1>2. /\ \A p \in Orders : p # o => order'[p] = order[p]
      /\ order'[o].status = "refunded" /\ order'[o].shift = order[o].shift
      /\ order'[o].method = order[o].method
  <2>1. order \in [Orders -> OrderRows] /\ order[o] \in OrderRows
    BY DEF IInv, Typed
  <2> DEFINE row == [order[o] EXCEPT !.status = "refunded", !.fulfillment = "cancelled"]
  <2>2. row.status = "refunded" /\ row.shift = order[o].shift /\ row.method = order[o].method
    BY <2>1 DEF OrderRows
  <2>3. order' = [order EXCEPT ![o] = row]
    BY <1>1
  <2> HIDE DEF row
  <2> QED BY <2>1, <2>2, <2>3
<1>3. OverlookedAtClose'
  BY <1>1 DEF CashInv, CashBounds, OverlookedAtClose
<1>4. ASSUME NEW p \in Orders PROVE OrderCash(p)'
  <2>1. OrderCash(p)
    BY DEF CashInv, CashBounds
  <2>2. CASE p = o
    BY <1>1, <1>2, <2>1, <2>2 DEF OrderCash, Begun
  <2>3. CASE p # o
    <3>1. (p \in returned' <=> p \in returned) /\ shift' = shift /\ overlooked' = overlooked
          /\ order'[p] = order[p]
      BY <1>1, <1>2, <2>3
    <3> QED BY <2>1, <3>1 DEF OrderCash, Begun
  <2> QED BY <2>2, <2>3
<1>5. ASSUME NEW q \in Requests PROVE RequestCash(q)'
  <2> SUFFICES ASSUME Ordering(q)' PROVE RequestCash(q)'
    BY DEF RequestCash
  <2>1. Ordering(q) /\ request' = request /\ RequestCash(q)
    BY <1>1 DEF Ordering, Counter!InStep, CashInv, CashBounds
  <2>2. request[q].order \in Orders
    BY <2>1 DEF IInv, Typed, Ordering
  <2>3. order'[request[q].order].status = "none" => order[request[q].order].status = "none"
    BY <1>2, <2>2
  <2> QED BY <1>1, <2>1, <2>3 DEF RequestCash, Begun
<1>6. ASSUME NEW z \in Shifts, shift[z].status = "closed" PROVE Counted(z)' = Counted(z)
  <2>1. o \in Counted(z)' <=> o \in Counted(z)
    BY <1>1, <1>2, <1>6 DEF Counted, Counter!CashOrdersEverPaid
  <2>2. \A p \in Orders : p # o => (p \in Counted(z)' <=> p \in Counted(z))
    BY <1>1, <1>2 DEF Counted, Counter!CashOrdersEverPaid
  <2>3. Counted(z) \subseteq Orders /\ Counted(z)' \subseteq Orders
    BY DEF Counted, Counter!CashOrdersEverPaid
  <2> QED BY <2>1, <2>2, <2>3
<1>7. ClosedShiftCash'
  BY <1>1, <1>6, CashUntouched DEF CashInv
<1> QED BY <1>3, <1>4, <1>5, <1>7 DEF CashInv, CashBounds

\* The close sums what it sees, and records what it does not.
LEMMA CloseCash ==
  ASSUME IInv, CounterTypes, CashInv, NEW s \in Shifts, Counter!CloseShift(s)
  PROVE  CashInv'
<1> DEFINE cash == Counter!Cost(Counter!CashOrders(s))
<1>1. /\ shift[s].status = "open"
      /\ shift' = [shift EXCEPT ![s].status = "closed", ![s].expected = cash]
      /\ overlooked' = overlooked \cup
           {<<o, s>> : o \in {p \in Orders :
                           \/ order[p].status = "none" /\ Counter!Selling(p, s)
                           \/ order[p].status = "draft" /\ order[p].shift = s}}
      /\ UNCHANGED <<order, request, returned>>
  BY DEF Counter!CloseShift
<1> HIDE DEF cash
<1>2. /\ \A z \in Shifts : z # s => shift'[z] = shift[z]
      /\ shift'[s].status = "closed" /\ shift'[s].expected = cash
  <2>1. shift \in [Shifts -> ShiftRows] /\ shift[s] \in ShiftRows
    BY DEF CounterTypes
  <2> DEFINE row == [shift[s] EXCEPT !.status = "closed", !.expected = cash]
  <2>2. row.status = "closed" /\ row.expected = cash
    BY <2>1 DEF ShiftRows
  <2>3. shift' = [shift EXCEPT ![s] = row]
    BY <1>1
  <2> HIDE DEF row
  <2> QED BY <2>1, <2>2, <2>3
<1>3. \A p, z : <<p, z>> \in overlooked' <=>
          \/ <<p, z>> \in overlooked
          \/ /\ z = s /\ p \in Orders
             /\ \/ order[p].status = "none" /\ Counter!Selling(p, s)
                \/ order[p].status = "draft" /\ order[p].shift = s
  BY <1>1
<1>4. OverlookedAtClose'
  BY <1>1, <1>2, <1>3 DEF CashInv, CashBounds, OverlookedAtClose
<1>5. ASSUME NEW p \in Orders PROVE OrderCash(p)'
  <2>1. OrderCash(p)
    BY DEF CashInv, CashBounds
  <2>2. CASE order[p].shift = s
    BY <1>1, <1>2, <1>3, <2>1, <2>2 DEF OrderCash, Begun
  <2>3. CASE order[p].shift # s /\ order[p].status # "none"
    <3>1. shift'[order[p].shift] = shift[order[p].shift]
      BY <1>2, <2>1, <2>3 DEF OrderCash
    <3>2. <<p, order[p].shift>> \in overlooked' <=> <<p, order[p].shift>> \in overlooked
      BY <1>3, <2>3
    <3> QED BY <1>1, <2>1, <3>1, <3>2 DEF OrderCash, Begun
  <2>4. CASE order[p].status = "none"
    BY <1>1, <2>1, <2>4 DEF OrderCash, Begun
  <2> QED BY <2>2, <2>3, <2>4
<1>6. ASSUME NEW q \in Requests PROVE RequestCash(q)'
  <2> SUFFICES ASSUME Ordering(q)' PROVE RequestCash(q)'
    BY DEF RequestCash
  <2>1. Ordering(q) /\ RequestCash(q)
    BY <1>1 DEF Ordering, Counter!InStep, CashInv, CashBounds
  <2>2. request[q].order \in Orders /\ request[q].shift \in Shifts
    BY <2>1 DEF IInv, Typed, Ordering
  <2>3. CASE request[q].shift = s
    <3>1. Counter!Selling(request[q].order, s)
      BY <2>1, <2>3 DEF Counter!Selling, Ordering
    <3> QED BY <1>1, <1>2, <1>3, <2>1, <2>2, <2>3, <3>1 DEF RequestCash, Begun
  <2>4. CASE request[q].shift # s
    BY <1>1, <1>2, <1>3, <2>1, <2>2, <2>4 DEF RequestCash, Begun
  <2> QED BY <2>3, <2>4
<1>7. Counted(s)' = Counter!CashOrders(s)
  <2>1. ASSUME NEW p \in Orders PROVE p \in Counted(s)' <=> p \in Counter!CashOrders(s)
    <3>1. OrderCash(p)
      BY DEF CashInv, CashBounds
    <3>2. <<p, s>> \notin overlooked
      BY <1>1 DEF CashInv, CashBounds, OverlookedAtClose
    <3> QED BY <1>1, <1>3, <3>1, <3>2 DEF OrderCash, Counted, Counter!CashOrdersEverPaid,
                                         Counter!CashOrders
  <2>2. Counted(s)' \subseteq Orders /\ Counter!CashOrders(s) \subseteq Orders
    BY DEF Counted, Counter!CashOrdersEverPaid, Counter!CashOrders
  <2> QED BY <2>1, <2>2
<1>8. ASSUME NEW z \in Shifts, z # s PROVE Counted(z)' = Counted(z)
  BY <1>1, <1>3, <1>8 DEF Counted, Counter!CashOrdersEverPaid
<1>9. ASSUME NEW z \in Shifts, shift'[z].status = "closed"
      PROVE  shift'[z].expected = Counter!Cost(Counted(z)')
  <2>1. CASE z = s
    BY <2>1, <1>2, <1>7 DEF cash
  <2>2. CASE z # s
    <3>1. shift[z].status = "closed" => shift[z].expected = Counter!Cost(Counted(z))
      BY DEF CashInv, ClosedShiftCash, Counted
    <3> QED BY <2>2, <3>1, <1>2, <1>8, <1>9
  <2> QED BY <2>1, <2>2
<1>10. ClosedShiftCash'
  BY <1>9 DEF ClosedShiftCash, Counted
<1> QED BY <1>4, <1>5, <1>6, <1>10 DEF CashInv, CashBounds

\* A request begins to order in an open shift, or a shift opens that no order knows.
LEMMA BeginsCash ==
  ASSUME IInv, CashInv, NEW r \in Requests, Begins(r)
  PROVE  CashInv'
<1>1. PICK kind \in {"draft", "sale"}, o \in Orders, s \in Shifts : Counter!LookToOrder(r, kind, o, s)
  BY DEF Begins
<1> DEFINE x == [kind |-> kind, order |-> o, shift |-> s]
<1>2. /\ shift[s].status = "open" /\ request' = [request EXCEPT ![r] = x]
      /\ order' = order /\ UNCHANGED <<shift, overlooked, returned>>
  BY <1>1 DEF Counter!LookToOrder, Counter!Begin, Counter!counterHistory
<1>3. x.shift = s
  OBVIOUS
<1> HIDE DEF x
<1>4. \A q \in Requests : request'[q] = IF q = r THEN x ELSE request[q]
  BY <1>2 DEF IInv, Typed
<1>5. OverlookedAtClose'
  BY <1>2 DEF CashInv, CashBounds, OverlookedAtClose
<1>6. ASSUME NEW p \in Orders PROVE OrderCash(p)'
  BY <1>2 DEF CashInv, CashBounds, OrderCash, Begun
<1>7. ASSUME NEW q \in Requests PROVE RequestCash(q)'
  <2>1. CASE q = r
    BY <1>2, <1>3, <1>4, <2>1 DEF RequestCash, Begun
  <2>2. CASE q # r
    <3>1. RequestCash(q) /\ request'[q] = request[q]
      BY <1>4, <2>2 DEF CashInv, CashBounds
    <3> QED BY <1>2, <3>1 DEF RequestCash, Ordering, Counter!InStep, Begun
  <2> QED BY <2>1, <2>2
<1>8. ASSUME NEW z \in Shifts PROVE Counted(z)' = Counted(z)
  BY <1>2 DEF Counted, Counter!CashOrdersEverPaid
<1>9. ClosedShiftCash'
  BY <1>2, <1>8, CashUntouched DEF CashInv
<1> QED BY <1>5, <1>6, <1>7, <1>9 DEF CashInv, CashBounds

LEMMA OpensCash ==
  ASSUME IInv, CounterTypes, CashInv, NEW r \in Requests, Opens(r)
  PROVE  CashInv'
<1>1. PICK s \in Shifts : Counter!OpenShift(r, s)
  BY DEF Opens
<1> DEFINE row == [status |-> "open", date |-> request[r].date, expected |-> 0]
<1>2. /\ shift[s].status = "none" /\ shift' = [shift EXCEPT ![s] = row]
      /\ request' = [request EXCEPT ![r] = Idle]
      /\ order' = order /\ UNCHANGED <<overlooked, returned>>
  BY <1>1 DEF Counter!OpenShift, Counter!Finish, Counter!counterHistory
<1>3. row.status = "open"
  OBVIOUS
<1> HIDE DEF row
<1>4. /\ \A z \in Shifts : z # s => shift'[z] = shift[z]
      /\ shift'[s].status = "open"
  BY <1>2, <1>3 DEF CounterTypes
<1>5. \A q \in Requests : Ordering(q)' => Ordering(q) /\ request'[q] = request[q]
  BY <1>2 DEF IInv, Typed, Ordering, Counter!InStep
<1>6. OverlookedAtClose'
  BY <1>2, <1>4 DEF CashInv, CashBounds, OverlookedAtClose
<1>7. ASSUME NEW p \in Orders PROVE OrderCash(p)'
  <2>1. OrderCash(p)
    BY DEF CashInv, CashBounds
  <2>2. CASE order[p].status = "none"
    BY <1>2, <2>1, <2>2 DEF OrderCash
  <2>3. CASE order[p].status # "none"
    <3>1. order[p].shift # s /\ order[p].shift \in Shifts
      BY <1>2, <2>1, <2>3 DEF OrderCash, Begun
    <3>2. shift'[order[p].shift] = shift[order[p].shift]
      BY <1>4, <3>1
    <3> QED BY <1>2, <2>1, <3>2 DEF OrderCash, Begun
  <2> QED BY <2>2, <2>3
<1>8. ASSUME NEW q \in Requests PROVE RequestCash(q)'
  <2> SUFFICES ASSUME Ordering(q)' PROVE RequestCash(q)'
    BY DEF RequestCash
  <2>1. Ordering(q) /\ RequestCash(q) /\ request'[q] = request[q]
    BY <1>5 DEF CashInv, CashBounds
  <2>2. request[q].shift \in Shifts
    BY <2>1 DEF IInv, Typed, Ordering
  <2>3. request[q].shift # s
    BY <1>2, <2>1 DEF RequestCash, Begun
  <2>4. shift'[request[q].shift] = shift[request[q].shift]
    BY <1>4, <2>2, <2>3
  <2> QED BY <1>2, <2>1, <2>4 DEF RequestCash, Begun
<1>9. ASSUME NEW z \in Shifts, shift'[z].status = "closed"
      PROVE  shift'[z].expected = Counter!Cost(Counted(z)')
  <2>1. z # s
    BY <1>4, <1>9
  <2>2. shift'[z] = shift[z] /\ Counted(z)' = Counted(z)
    BY <1>2, <1>4, <2>1 DEF Counted, Counter!CashOrdersEverPaid
  <2> QED BY <1>9, <2>2 DEF CashInv, ClosedShiftCash, Counted
<1>10. ClosedShiftCash'
  BY <1>9 DEF ClosedShiftCash, Counted
<1> QED BY <1>6, <1>7, <1>8, <1>10 DEF CashInv, CashBounds

LEMMA CounterCash ==
  ASSUME IInv, CounterTypes, CashInv, Counter!CounterNext
  PROVE  CashInv'
<1>1. ASSUME NEW r \in Requests, request' = [request EXCEPT ![r] = Idle] PROVE SameRequests
  BY <1>1 DEF IInv, Typed, SameRequests, Ordering, Counter!InStep
<1>2. ASSUME request' = request PROVE SameRequests
  BY <1>2 DEF SameRequests, Ordering, Counter!InStep
<1>3. ASSUME order' = order PROVE SameOrders
  BY <1>3 DEF SameOrders
<1>4. CASE Quiet
  BY <1>4, QuietCash DEF Quiet, SameRequests
<1>5. ASSUME NEW r \in Requests, Counter!PlaceOrder(r) PROVE CashInv'
  <2> DEFINE o == request[r].order
             s == request[r].shift
             row == [status |-> "draft", shift |-> s,
                     fulfillment |-> "awaiting_payment", method |-> "none"]
  <2>1. /\ Counter!InStep(r, "draft") /\ order[o].status = "none"
        /\ order' = [order EXCEPT ![o] = row] /\ request' = [request EXCEPT ![r] = Idle]
        /\ UNCHANGED <<shift, overlooked, returned>>
    BY <1>5 DEF Counter!PlaceOrder, Counter!Finish, Counter!counterHistory
  <2>2. o \in Orders /\ s \in Shifts
    BY <2>1 DEF IInv, Typed
  <2>3. Begun(s) /\ (shift[s].status = "closed" => <<o, s>> \in overlooked)
    BY <2>1 DEF CashInv, CashBounds, RequestCash, Ordering
  <2>4. row.status = "draft" /\ row.shift = s
    OBVIOUS
  <2>5. SameRequests
    BY <2>1, <1>1
  <2> HIDE DEF o, s, row
  <2>6. Writes(o, s, row)
    BY <2>1, <2>3, <2>4 DEF Writes
  <2> QED BY <2>1, <2>2, <2>5, <2>6, WrittenCash
<1>6. ASSUME NEW r \in Requests, Sale(r) PROVE CashInv'
  <2>1. PICK method \in {"cash", "credit"} : Counter!Sell(r, method)
    BY <1>6 DEF Sale
  <2> DEFINE o == request[r].order
             s == request[r].shift
             row == Counter!Paid(s, method)
  <2>2. /\ Counter!InStep(r, "sale") /\ order[o].status = "none"
        /\ order' = [order EXCEPT ![o] = row] /\ request' = [request EXCEPT ![r] = Idle]
        /\ UNCHANGED <<shift, overlooked, returned>>
    BY <2>1 DEF Counter!Sell, Counter!Finish, Counter!counterHistory
  <2>3. o \in Orders /\ s \in Shifts
    BY <2>2 DEF IInv, Typed
  <2>4. Begun(s) /\ (shift[s].status = "closed" => <<o, s>> \in overlooked)
    BY <2>2 DEF CashInv, CashBounds, RequestCash, Ordering
  <2>5. row.status = "paid" /\ row.shift = s
    BY DEF Counter!Paid
  <2>6. SameRequests
    BY <2>2, <1>1
  <2> HIDE DEF o, s, row
  <2>7. Writes(o, s, row)
    BY <2>2, <2>4, <2>5 DEF Writes
  <2> QED BY <2>2, <2>3, <2>6, <2>7, WrittenCash
<1>7. ASSUME NEW o \in Orders, Capture(o) PROVE CashInv'
  <2>1. PICK method \in {"cash", "credit"} : Counter!CapturePayment(o, method)
    BY <1>7 DEF Capture
  <2> DEFINE s == order[o].shift
             row == Counter!Paid(s, method)
  <2>2. /\ order[o].status = "draft" /\ order' = [order EXCEPT ![o] = row] /\ request' = request
        /\ UNCHANGED <<shift, overlooked, returned>>
    BY <2>1 DEF Counter!CapturePayment, Counter!counterHistory
  <2>3. s \in Shifts /\ Begun(s) /\ (shift[s].status = "closed" => <<o, s>> \in overlooked)
    BY <2>2 DEF CashInv, CashBounds, OrderCash
  <2>4. row.status = "paid" /\ row.shift = s
    BY DEF Counter!Paid
  <2>5. SameRequests
    BY <2>2, <1>2
  <2> HIDE DEF s, row
  <2>6. Writes(o, s, row)
    BY <2>2, <2>3, <2>4 DEF Writes
  <2> QED BY <2>2, <2>3, <2>5, <2>6, WrittenCash
<1>8. ASSUME NEW o \in Orders, Counter!RefundOrder(o) PROVE CashInv'
  BY <1>8, RefundedCash
<1>9. ASSUME NEW s \in Shifts, Counter!CloseShift(s) PROVE CashInv'
  BY <1>9, CloseCash
<1>10. ASSUME NEW r \in Requests, Begins(r) \/ Opens(r) PROVE CashInv'
  BY <1>10, BeginsCash, OpensCash
<1>11. ASSUME NEW r \in Requests, Entry(r) PROVE CashInv'
  <2>1. /\ order' = order /\ request' = [request EXCEPT ![r] = Idle]
        /\ UNCHANGED <<shift, overlooked, returned>>
    BY <1>11 DEF Entry, Counter!EnterCredit, Counter!Finish
  <2> QED BY <2>1, <1>1, <1>3, QuietCash
<1>12. ASSUME NEW u \in Topups, Counter!ApproveTopup(u) PROVE CashInv'
  <2>1. order' = order /\ request' = request /\ UNCHANGED <<shift, overlooked, returned>>
    BY <1>12 DEF Counter!ApproveTopup
  <2> QED BY <2>1, <1>2, <1>3, QuietCash
<1>13. ASSUME NEW limit \in Limits, Counter!SetLimit(limit) PROVE CashInv'
  <2>1. order' = order /\ request' = request /\ UNCHANGED <<shift, overlooked, returned>>
    BY <1>13 DEF Counter!SetLimit, Counter!counterHistory
  <2> QED BY <2>1, <1>2, <1>3, QuietCash
<1> QED BY QuietOrLoud, <1>4, <1>5, <1>6, <1>7, <1>8, <1>9, <1>10, <1>11, <1>12, <1>13 DEF Loud

--------------------------------------------------------------------------------
(***************************************************************************)
(* The documents of the supply.                                             *)
(***************************************************************************)

Places == Supply!Places
NULL == Supply!NULL
CentralRows ==
    [status : {"none", "submitted", "approved", "rejected", "in_production", "packed",
               "shipped", "received", "cancelled"},
     quantity : Supply!Quantity, approved : Nullable, packed : Nullable, shipped : Nullable,
     received : Nullable, posted : Quantities, discrepancy : {"none", "open", "resolved"}]
TransferRows ==
    [status : {"none", "draft", "shipped", "received", "cancelled"}, from : Places,
     to : Places, requested : Supply!Quantity, shipped : Nullable,
     received : Nullable, discrepancy : {"none", "open", "resolved"}]

\* Goods are counted once a document is received, and never more than was shipped.
CentralOk(row) ==
    /\ row.status # "received" => row.received = NULL /\ row.posted = 0
    /\ row.status = "shipped" => row.shipped # NULL
    /\ row.received # NULL => row.posted = row.received /\ row.received <= row.shipped
TransferOk(row) ==
    /\ row.status \in {"shipped", "received"} => row.shipped \in Quantities
    /\ IF row.status = "received" THEN row.received \in Quantities ELSE row.received = NULL
    /\ row.received > row.shipped => row.shipped = 0 /\ row.received = row.requested

SupplyInv ==
    /\ stock \in [Places -> Nat] /\ moved \in [Places -> Int]
    /\ central \in [CentralOrders -> CentralRows]
    /\ batch \in [Batches -> {"none", "planned", "in_progress", "completed", "cancelled"}]
    /\ transfer \in [Transfers -> TransferRows]
    /\ resolving \in [CentralOrders -> Nullable]
    /\ \A c \in CentralOrders : CentralOk(central[c])
    /\ \A t \in Transfers : TransferOk(transfer[t])

\* What a line has brought to the store, a transfer to a place, and taken from it.
Arrival(row, p) == IF row.status = "received" /\ row.to = p THEN row.received ELSE 0
Departure(row, p) == IF row.status \in {"shipped", "received"} /\ row.from = p THEN row.shipped ELSE 0

LEMMA QuantitiesAre ==
  /\ Supply!Quantity \subseteq Quantities /\ Quantities \subseteq Nat /\ 0 \in Quantities
  /\ 1 \in Supply!Quantity /\ NULL = -1 /\ Nullable = Quantities \cup {-1}
  /\ Supply!NULL = -1
BY BoundAssumption DEF Supply!Quantity, Quantities, NULL, Supply!NULL, Nullable

LEMMA QuantityIsInt == (\A q \in Quantities : q \in Int) /\ (\A q \in Nullable : q \in Int)
BY BoundAssumption DEF Quantities, Nullable, Supply!NULL

LEMMA PostedIsInt == \A row \in CentralRows : row.posted \in Int
<1> SUFFICES ASSUME NEW row \in CentralRows PROVE row.posted \in Int
  OBVIOUS
<1>1. row.posted \in Quantities
  BY DEF CentralRows
<1> QED BY <1>1, QuantityIsInt

LEMMA RowTypes ==
  ASSUME NEW row \in TransferRows, NEW p
  PROVE  Arrival(row, p) \in Int /\ Departure(row, p) \in Int
<1>1. row.received \in Nullable /\ row.shipped \in Nullable
  BY DEF TransferRows
<1>2. row.received \in Int /\ row.shipped \in Int
  BY <1>1, QuantityIsInt
<1> QED BY <1>2 DEF Arrival, Departure

LEMMA AppliedStock ==
  ASSUME stock \in [Places -> Nat], NEW deltas, \A p \in Places : deltas[p] \in Int,
         Supply!ApplyStock(deltas)
  PROVE  stock' \in [Places -> Nat] /\ \A p \in Places : stock'[p] = stock[p] + deltas[p]
BY BoundAssumption DEF Supply!ApplyStock, Places

\* A step on an order to the central kitchen: the store gains what the order's row posts.
CentralMoved(c) ==
    \E row \in CentralRows :
        /\ CentralOk(row) /\ central' = [central EXCEPT ![c] = row]
        /\ UNCHANGED <<batch, transfer, moved>> /\ resolving' \in [CentralOrders -> Nullable]
        /\ stock' \in [Places -> Nat]
        /\ \A p \in Places :
              stock'[p] = stock[p] + (IF p = "store" THEN row.posted - central[c].posted ELSE 0)

LEMMA CentralRowMoved ==
  ASSUME SupplyInv, NEW c \in CentralOrders, NEW row \in CentralRows, CentralOk(row),
         row.posted = central[c].posted, Supply!SetCentral(c, row), stock' = stock
  PROVE  CentralMoved(c)
<1>1. /\ central' = [central EXCEPT ![c] = row]
      /\ UNCHANGED <<batch, transfer, moved>> /\ resolving' \in [CentralOrders -> Nullable]
      /\ stock' \in [Places -> Nat]
  BY DEF Supply!SetCentral, SupplyInv
<1>2. row.posted \in Int
  BY PostedIsInt
<1>3. \A p \in Places :
          stock'[p] = stock[p] + (IF p = "store" THEN row.posted - central[c].posted ELSE 0)
  BY <1>1, <1>2 DEF SupplyInv
<1> QED BY <1>1, <1>3 DEF CentralMoved

LEMMA CentralRowReceived ==
  ASSUME SupplyInv, NEW c \in CentralOrders, NEW row \in CentralRows, CentralOk(row),
         central[c].status # "received", Supply!SetCentral(c, row),
         Supply!ApplyStock(Supply!At("store", row.posted))
  PROVE  CentralMoved(c)
<1>1. /\ central' = [central EXCEPT ![c] = row]
      /\ UNCHANGED <<batch, transfer, moved>> /\ resolving' \in [CentralOrders -> Nullable]
  BY DEF Supply!SetCentral, SupplyInv
<1>2. row.posted \in Int /\ central[c].posted = 0
  BY PostedIsInt DEF SupplyInv, CentralOk
<1> DEFINE deltas == Supply!At("store", row.posted)
<1>3. \A p \in Places : deltas[p] = IF p = "store" THEN row.posted ELSE 0
  BY DEF Supply!At, Places
<1> HIDE DEF deltas
<1>4. \A p \in Places : deltas[p] \in Int
  BY <1>2, <1>3
<1>5. stock \in [Places -> Nat] /\ Supply!ApplyStock(deltas)
  BY DEF deltas, SupplyInv
<1>6. stock' \in [Places -> Nat] /\ \A p \in Places : stock'[p] = stock[p] + deltas[p]
  BY <1>4, <1>5, AppliedStock
<1>7. \A p \in Places :
          stock'[p] = stock[p] + (IF p = "store" THEN row.posted - central[c].posted ELSE 0)
  BY <1>2, <1>3, <1>6
<1> QED BY <1>1, <1>6, <1>7 DEF CentralMoved

LEMMA CentralStepMoved ==
  ASSUME SupplyInv, NEW c \in CentralOrders, Supply!CentralStep(c)
  PROVE  CentralMoved(c)
<1> DEFINE old == central[c]
<1>0. old \in CentralRows /\ CentralOk(old)
  BY DEF SupplyInv
<1>a. \A q, d : Supply!Coalesce(q, d) = IF q = -1 THEN d ELSE q
  BY QuantitiesAre DEF Supply!Coalesce
<1> HIDE DEF old
<1>1. CASE Supply!Approve(c)
  <2> DEFINE row == [old EXCEPT !.status = "approved", !.approved = old.quantity]
  <2>1. row \in CentralRows
    BY <1>0, QuantitiesAre DEF CentralRows
  <2>2. CentralOk(row) /\ row.posted = old.posted
    BY <1>1, <1>0 DEF Supply!Approve, old, CentralRows, CentralOk
  <2>3. Supply!SetCentral(c, row) /\ stock' = stock
    BY <1>1 DEF Supply!Approve, old
  <2> HIDE DEF row
  <2> QED BY <2>1, <2>2, <2>3, CentralRowMoved DEF old
<1>2. CASE Supply!PackAll(c)
  <2> DEFINE n == Supply!Coalesce(old.approved, old.quantity)
             row == [old EXCEPT !.status = "packed", !.packed = n]
  <2>1. n \in Nullable
    BY <1>0, <1>a, QuantitiesAre DEF CentralRows
  <2>2. /\ Supply!SetCentral(c, row) /\ stock' = stock /\ old.status = "in_production"
    BY <1>2 DEF Supply!PackAll, old
  <2> HIDE DEF n
  <2>3. row \in CentralRows
    BY <1>0, <2>1 DEF CentralRows
  <2>4. CentralOk(row) /\ row.posted = old.posted
    BY <1>0, <2>2 DEF CentralRows, CentralOk
  <2> HIDE DEF row
  <2> QED BY <2>2, <2>3, <2>4, CentralRowMoved DEF old
<1>3. CASE Supply!ShipAll(c)
  <2> DEFINE n == Supply!Coalesce(old.packed, Supply!Coalesce(old.approved, old.quantity))
             row == [old EXCEPT !.status = "shipped", !.shipped = n]
  <2>1. n \in Quantities
    BY <1>0, <1>a, QuantitiesAre DEF CentralRows
  <2>2. /\ Supply!SetCentral(c, row) /\ stock' = stock /\ old.status = "packed"
    BY <1>3 DEF Supply!ShipAll, old
  <2> HIDE DEF n
  <2>3. row \in CentralRows
    BY <1>0, <2>1 DEF CentralRows, Nullable
  <2>4. CentralOk(row) /\ row.posted = old.posted
    BY <1>0, <2>1, <2>2, QuantitiesAre DEF CentralRows, CentralOk
  <2> HIDE DEF row
  <2> QED BY <2>2, <2>3, <2>4, CentralRowMoved DEF old
<1>4. CASE Supply!Resolve(c)
  <2> DEFINE n == resolving[c]
             row == [old EXCEPT !.approved = n]
  <2>1. n \in Nullable /\ resolving' \in [CentralOrders -> Nullable]
    BY <1>4, QuantitiesAre DEF SupplyInv, Supply!Resolve
  <2>2. /\ central' = [central EXCEPT ![c] = row]
        /\ UNCHANGED <<stock, batch, transfer, moved>>
    BY <1>4 DEF Supply!Resolve, old
  <2> HIDE DEF n
  <2>3. row \in CentralRows
    BY <1>0, <2>1 DEF CentralRows
  <2>4. CentralOk(row) /\ row.posted = central[c].posted
    BY <1>0 DEF CentralRows, CentralOk, old
  <2> HIDE DEF row
  <2>5. row.posted \in Int /\ stock \in [Places -> Nat]
    BY <2>3, PostedIsInt DEF SupplyInv
  <2>6. \A p \in Places :
            stock'[p] = stock[p] + (IF p = "store" THEN row.posted - central[c].posted ELSE 0)
    BY <2>2, <2>4, <2>5
  <2> QED BY <2>1, <2>2, <2>3, <2>4, <2>5, <2>6 DEF CentralMoved
<1>5. CASE Supply!ReceiveAll(c)
  <2> DEFINE row == [old EXCEPT !.status = "received", !.posted = old.quantity]
  <2>1. Supply!SetCentral(c, row) /\ old.status = "shipped"
        /\ Supply!ApplyStock(Supply!At("store", old.quantity))
    BY <1>5 DEF Supply!ReceiveAll, old
  <2>2. row \in CentralRows
    BY <1>0, QuantitiesAre DEF CentralRows
  <2>3. CentralOk(row) /\ row.posted = old.quantity
    BY <1>0, <2>1, QuantitiesAre DEF CentralRows, CentralOk
  <2> HIDE DEF row
  <2>4. Supply!ApplyStock(Supply!At("store", row.posted)) /\ central[c].status # "received"
    BY <2>1, <2>3 DEF old
  <2> QED BY <2>1, <2>2, <2>3, <2>4, CentralRowReceived
<1>6. CASE Supply!ResolveCentralDiscrepancy(c)
  <2> DEFINE row == [old EXCEPT !.discrepancy = "resolved"]
  <2>1. row \in CentralRows /\ Supply!SetCentral(c, row) /\ stock' = stock
    BY <1>0, <1>6 DEF CentralRows, Supply!ResolveCentralDiscrepancy, old
  <2>2. CentralOk(row) /\ row.posted = central[c].posted
    BY <1>0 DEF CentralRows, CentralOk, old
  <2> HIDE DEF row
  <2> QED BY <2>1, <2>2, CentralRowMoved
<1>7. ASSUME NEW to \in {"rejected", "in_production", "cancelled"}, Supply!Advance(c, to)
      PROVE  CentralMoved(c)
  <2> DEFINE row == [old EXCEPT !.status = to]
  <2>1. row \in CentralRows /\ Supply!SetCentral(c, row) /\ stock' = stock
    BY <1>0, <1>7 DEF CentralRows, Supply!Advance, old
  <2>2. CentralOk(row) /\ row.posted = central[c].posted
    BY <1>0, <1>7 DEF CentralRows, CentralOk, old, Supply!Advance
  <2> HIDE DEF row
  <2> QED BY <2>1, <2>2, CentralRowMoved
<1>8. ASSUME NEW q \in Supply!Quantity, Supply!CreateCentralOrder(c, q) PROVE CentralMoved(c)
  <2> DEFINE row == Supply!NewLine(q)
  <2>1. row \in CentralRows /\ Supply!SetCentral(c, row) /\ stock' = stock
    BY <1>8, QuantitiesAre DEF CentralRows, Supply!CreateCentralOrder, Supply!NewLine
  <2>2. CentralOk(row) /\ row.posted = central[c].posted
    BY <1>0, <1>8 DEF CentralOk, NULL, old, Supply!CreateCentralOrder, Supply!NewLine
  <2> HIDE DEF row
  <2> QED BY <2>1, <2>2, CentralRowMoved
<1>9. ASSUME NEW q \in 0..MaxQuantity, Supply!LookToResolve(c, q) PROVE CentralMoved(c)
  <2>1. /\ central' = central /\ UNCHANGED <<stock, batch, transfer, moved>>
        /\ resolving' \in [CentralOrders -> Nullable]
    BY <1>9 DEF Supply!LookToResolve, SupplyInv, Nullable, Quantities
  <2>2. central' = [central EXCEPT ![c] = old]
    BY <2>1 DEF old, SupplyInv
  <2>3. \A p \in Places :
            stock'[p] = stock[p] + (IF p = "store" THEN old.posted - central[c].posted ELSE 0)
    <3>1. old.posted \in Int /\ stock \in [Places -> Nat]
      BY <1>0, PostedIsInt DEF SupplyInv
    <3> QED BY <3>1, <2>1 DEF old
  <2>4. stock' \in [Places -> Nat]
    BY <2>1 DEF SupplyInv
  <2> QED BY <1>0, <2>1, <2>2, <2>3, <2>4 DEF CentralMoved
<1>10. ASSUME NEW q \in 0..MaxQuantity, Supply!PackQuantity(c, q) PROVE CentralMoved(c)
  <2> DEFINE row == [old EXCEPT !.status = "packed", !.packed = q]
  <2>1. row \in CentralRows /\ Supply!SetCentral(c, row) /\ stock' = stock
    BY <1>0, <1>10 DEF CentralRows, Supply!PackQuantity, old, Nullable, Quantities
  <2>2. CentralOk(row) /\ row.posted = central[c].posted
    BY <1>0, <1>10 DEF CentralRows, CentralOk, old, Supply!PackQuantity
  <2> HIDE DEF row
  <2> QED BY <2>1, <2>2, CentralRowMoved
<1>11. ASSUME NEW q \in 0..MaxQuantity, Supply!ShipQuantity(c, q) PROVE CentralMoved(c)
  <2> DEFINE row == [old EXCEPT !.status = "shipped", !.shipped = q]
  <2>1. row \in CentralRows /\ Supply!SetCentral(c, row) /\ stock' = stock
    BY <1>0, <1>11 DEF CentralRows, Supply!ShipQuantity, old, Nullable, Quantities
  <2>2. CentralOk(row) /\ row.posted = central[c].posted
    BY <1>0, <1>11, QuantitiesAre DEF CentralRows, CentralOk, old, Supply!ShipQuantity, Quantities
  <2> HIDE DEF row
  <2> QED BY <2>1, <2>2, CentralRowMoved
<1>12. ASSUME NEW q \in 0..MaxQuantity, Supply!ReceiveQuantity(c, q) PROVE CentralMoved(c)
  <2> DEFINE shipped == Supply!Coalesce(old.shipped, old.quantity)
             row == [old EXCEPT !.status = "received", !.received = q, !.posted = q,
                                !.discrepancy = IF q # shipped THEN "open" ELSE "none"]
  <2>1. /\ Supply!SetCentral(c, row) /\ old.status = "shipped" /\ q <= shipped
        /\ Supply!ApplyStock(Supply!At("store", q))
    BY <1>12 DEF Supply!ReceiveQuantity, old
  <2>2. shipped = old.shipped
    BY <2>1, <1>0, <1>a, QuantitiesAre DEF CentralOk
  <2> HIDE DEF shipped
  <2>3. row \in CentralRows
    BY <1>0 DEF CentralRows, Nullable, Quantities
  <2>4. row.status = "received" /\ row.posted = q /\ row.received = q /\ row.shipped = old.shipped
    BY <1>0 DEF CentralRows
  <2> HIDE DEF row
  <2>5. CentralOk(row)
    BY <2>1, <2>2, <2>4 DEF CentralOk
  <2>6. Supply!ApplyStock(Supply!At("store", row.posted)) /\ central[c].status # "received"
    BY <2>1, <2>4 DEF old
  <2> QED BY <2>1, <2>3, <2>5, <2>6, CentralRowReceived
<1> QED BY <1>1, <1>2, <1>3, <1>4, <1>5, <1>6, <1>7, <1>8, <1>9, <1>10, <1>11, <1>12
           DEF Supply!CentralStep

\* A step on a transfer: each place gains what arrives and loses what departs.
TransferMoved(t) ==
    \E row \in TransferRows :
        /\ TransferOk(row) /\ transfer' = [transfer EXCEPT ![t] = row]
        /\ UNCHANGED <<central, batch, resolving, moved>>
        /\ stock' \in [Places -> Nat]
        /\ \A p \in Places :
              stock'[p] = stock[p] + (Arrival(row, p) - Arrival(transfer[t], p))
                                   - (Departure(row, p) - Departure(transfer[t], p))

LEMMA TransferRowMoved ==
  ASSUME SupplyInv, NEW t \in Transfers, NEW row \in TransferRows, TransferOk(row),
         NEW deltas, \A p \in Places : deltas[p] \in Int, Supply!ApplyStock(deltas),
         \A p \in Places :
            deltas[p] = (Arrival(row, p) - Arrival(transfer[t], p))
                        - (Departure(row, p) - Departure(transfer[t], p)),
         Supply!SetTransfer(t, row)
  PROVE  TransferMoved(t)
<1>1. stock \in [Places -> Nat]
  BY DEF SupplyInv
<1>2. stock' \in [Places -> Nat] /\ \A p \in Places : stock'[p] = stock[p] + deltas[p]
  BY <1>1, AppliedStock
<1>3. ASSUME NEW p \in Places
      PROVE  stock'[p] = stock[p] + (Arrival(row, p) - Arrival(transfer[t], p))
                                  - (Departure(row, p) - Departure(transfer[t], p))
  <2>1. transfer[t] \in TransferRows
    BY DEF SupplyInv
  <2>2. /\ Arrival(row, p) \in Int /\ Departure(row, p) \in Int
        /\ Arrival(transfer[t], p) \in Int /\ Departure(transfer[t], p) \in Int
    BY <2>1, RowTypes
  <2>3. stock[p] \in Int
    BY <1>1
  <2>4. stock'[p] = stock[p] + deltas[p]
    BY <1>2
  <2> QED BY <2>2, <2>3, <2>4
<1>4. transfer' = [transfer EXCEPT ![t] = row] /\ UNCHANGED <<central, batch, resolving, moved>>
  BY DEF Supply!SetTransfer
<1> QED BY <1>2, <1>3, <1>4 DEF TransferMoved

LEMMA TransferRowWritten ==
  ASSUME SupplyInv, NEW t \in Transfers, NEW row \in TransferRows, TransferOk(row),
         \A p \in Places : /\ Arrival(row, p) = Arrival(transfer[t], p)
                           /\ Departure(row, p) = Departure(transfer[t], p),
         Supply!SetTransfer(t, row), stock' = stock
  PROVE  TransferMoved(t)
<1>1. stock' \in [Places -> Nat]
  BY DEF SupplyInv
<1>2. ASSUME NEW p \in Places
      PROVE  stock'[p] = stock[p] + (Arrival(row, p) - Arrival(transfer[t], p))
                                  - (Departure(row, p) - Departure(transfer[t], p))
  <2>1. Arrival(row, p) \in Int /\ Departure(row, p) \in Int
    BY RowTypes
  <2>2. stock'[p] \in Int
    BY <1>1
  <2> QED BY <2>1, <2>2
<1>3. transfer' = [transfer EXCEPT ![t] = row] /\ UNCHANGED <<central, batch, resolving, moved>>
  BY DEF Supply!SetTransfer
<1> QED BY <1>1, <1>2, <1>3 DEF TransferMoved

LEMMA TransferStepMoved ==
  ASSUME SupplyInv, NEW t \in Transfers, Supply!TransferStep(t)
  PROVE  TransferMoved(t)
<1> DEFINE old == transfer[t]
<1>0. old \in TransferRows /\ TransferOk(old)
  BY DEF SupplyInv
<1>a. \A place, q, p : p \in Places => Supply!At(place, q)[p] = IF p = place THEN q ELSE 0
  BY DEF Supply!At, Places
<1> HIDE DEF old
<1>1. ASSUME NEW from \in {"kitchen", "store"}, NEW to \in {"kitchen", "store"},
             NEW q \in Supply!Quantity, Supply!CreateTransfer(t, from, to, q)
      PROVE  TransferMoved(t)
  <2> DEFINE row == Supply!NewTransfer(from, to, q)
  <2>1. /\ row \in TransferRows /\ row.status = "draft" /\ row.received = NULL
        /\ row.shipped = NULL
    BY QuantitiesAre DEF TransferRows, Supply!NewTransfer, Places, Supply!Places
  <2>2. old.status = "none" /\ Supply!SetTransfer(t, row) /\ stock' = stock
    BY <1>1 DEF Supply!CreateTransfer, old
  <2> HIDE DEF row
  <2>3. TransferOk(row)
    BY <2>1, QuantitiesAre DEF TransferOk
  <2>4. \A p \in Places : /\ Arrival(row, p) = Arrival(transfer[t], p)
                          /\ Departure(row, p) = Departure(transfer[t], p)
    BY <2>1, <2>2 DEF Arrival, Departure, old
  <2> QED BY <2>1, <2>2, <2>3, <2>4, TransferRowWritten
<1>2. CASE Supply!CancelTransfer(t)
  <2> DEFINE row == [old EXCEPT !.status = "cancelled"]
  <2>1. old.status = "draft" /\ Supply!SetTransfer(t, row) /\ stock' = stock
    BY <1>2 DEF Supply!CancelTransfer, old
  <2>2. /\ row \in TransferRows /\ row.status = "cancelled" /\ row.received = old.received
        /\ row.shipped = old.shipped /\ row.requested = old.requested
    BY <1>0 DEF TransferRows
  <2> HIDE DEF row
  <2>3. TransferOk(row)
    BY <2>1, <2>2, <1>0 DEF TransferOk
  <2>4. \A p \in Places : /\ Arrival(row, p) = Arrival(transfer[t], p)
                          /\ Departure(row, p) = Departure(transfer[t], p)
    BY <2>1, <2>2 DEF Arrival, Departure, old
  <2> QED BY <2>1, <2>2, <2>3, <2>4, TransferRowWritten
<1>3. CASE Supply!ResolveTransferDiscrepancy(t)
  <2> DEFINE row == [old EXCEPT !.discrepancy = "resolved"]
  <2>1. Supply!SetTransfer(t, row) /\ stock' = stock
    BY <1>3 DEF Supply!ResolveTransferDiscrepancy, old
  <2>2. /\ row \in TransferRows /\ row.status = old.status /\ row.received = old.received
        /\ row.shipped = old.shipped /\ row.requested = old.requested
        /\ row.from = old.from /\ row.to = old.to
    BY <1>0 DEF TransferRows
  <2> HIDE DEF row
  <2>3. TransferOk(row)
    BY <2>2, <1>0 DEF TransferOk
  <2>4. \A p \in Places : /\ Arrival(row, p) = Arrival(transfer[t], p)
                          /\ Departure(row, p) = Departure(transfer[t], p)
    BY <2>2 DEF Arrival, Departure, old
  <2> QED BY <2>1, <2>2, <2>3, <2>4, TransferRowWritten
<1>4. ASSUME NEW q \in 0..MaxQuantity, Supply!ShipTransfer(t, q) PROVE TransferMoved(t)
  <2> DEFINE row == [old EXCEPT !.status = "shipped", !.shipped = q]
             deltas == Supply!At(old.from, -q)
  <2>1. /\ old.status = "draft" /\ Supply!SetTransfer(t, row) /\ Supply!ApplyStock(deltas)
    BY <1>4 DEF Supply!ShipTransfer, old
  <2>2. /\ row \in TransferRows /\ row.status = "shipped" /\ row.received = old.received
        /\ row.shipped = q /\ row.from = old.from
    BY <1>0 DEF TransferRows, Nullable, Quantities
  <2>3. q \in Int /\ q >= 0 /\ q \in Quantities
    BY BoundAssumption DEF Quantities
  <2>4. \A p \in Places : deltas[p] = IF p = old.from THEN -q ELSE 0
    BY <1>a
  <2> HIDE DEF row, deltas
  <2>5. TransferOk(row)
    BY <2>1, <2>2, <2>3, <1>0, QuantitiesAre DEF TransferOk
  <2>6. \A p \in Places : deltas[p] \in Int
    BY <2>3, <2>4
  <2>7. \A p \in Places :
            deltas[p] = (Arrival(row, p) - Arrival(transfer[t], p))
                        - (Departure(row, p) - Departure(transfer[t], p))
    BY <2>1, <2>2, <2>3, <2>4 DEF Arrival, Departure, old
  <2> QED BY <2>1, <2>2, <2>5, <2>6, <2>7, TransferRowMoved
<1>5. ASSUME NEW q \in Quantities, NEW row \in TransferRows, row.status = "received",
             row.received = q, row.to = old.to, row.from = old.from,
             row.shipped = old.shipped, row.requested = old.requested,
             q > old.shipped => old.shipped = 0 /\ q = old.requested,
             old.status = "shipped", Supply!SetTransfer(t, row),
             Supply!ApplyStock(Supply!At(old.to, q))
      PROVE  TransferMoved(t)
  <2> DEFINE deltas == Supply!At(old.to, q)
  <2>1. \A p \in Places : deltas[p] = IF p = old.to THEN q ELSE 0
    BY <1>a
  <2>2. q \in Int
    BY QuantityIsInt
  <2> HIDE DEF deltas
  <2>3. TransferOk(row)
    BY <1>0, <1>5 DEF TransferOk
  <2>4. \A p \in Places : deltas[p] \in Int
    BY <2>1, <2>2
  <2>5. ASSUME NEW p \in Places
        PROVE deltas[p] = (Arrival(row, p) - Arrival(transfer[t], p))
                          - (Departure(row, p) - Departure(transfer[t], p))
    <3>1. Departure(row, p) = Departure(old, p) /\ Departure(old, p) \in Int
      BY <1>0, <1>5, RowTypes DEF Departure
    <3>2. Arrival(row, p) = deltas[p] /\ Arrival(old, p) = 0
      BY <2>1, <1>5 DEF Arrival
    <3> QED BY <2>4, <3>1, <3>2 DEF old
  <2>6. Supply!ApplyStock(deltas)
    BY <1>5 DEF deltas
  <2> QED BY <1>5, <2>3, <2>4, <2>5, <2>6, TransferRowMoved
<1>6. CASE Supply!ReceiveTransfer(t)
  <2> DEFINE q == IF old.shipped = 0 THEN old.requested ELSE old.shipped
             row == [old EXCEPT !.status = "received", !.received = q]
  <2>1. /\ old.status = "shipped" /\ Supply!SetTransfer(t, row)
        /\ Supply!ApplyStock(Supply!At(old.to, q))
    BY <1>6 DEF Supply!ReceiveTransfer, old
  <2>2. q \in Quantities /\ (q > old.shipped => old.shipped = 0 /\ q = old.requested)
    <3>1. old.shipped \in Quantities
      BY <1>0, <2>1 DEF TransferOk
    <3>2. old.requested \in Quantities
      BY <1>0, QuantitiesAre DEF TransferRows
    <3> QED BY <3>1, <3>2, QuantityIsInt
  <2> HIDE DEF q
  <2>3. /\ row \in TransferRows /\ row.status = "received" /\ row.received = q
        /\ row.to = old.to /\ row.from = old.from
        /\ row.shipped = old.shipped /\ row.requested = old.requested
    BY <1>0, <2>2 DEF TransferRows, Nullable
  <2> HIDE DEF row
  <2> QED BY <2>1, <2>2, <2>3, <1>5
<1>7. ASSUME NEW q \in 0..MaxQuantity, Supply!ReceiveCounted(t, q) PROVE TransferMoved(t)
  <2> DEFINE row == [old EXCEPT !.status = "received", !.received = q,
                                !.discrepancy = IF q # old.shipped THEN "open" ELSE "none"]
  <2>1. /\ old.status = "shipped" /\ Supply!SetTransfer(t, row) /\ q <= old.shipped
        /\ Supply!ApplyStock(Supply!At(old.to, q))
    BY <1>7 DEF Supply!ReceiveCounted, old
  <2>2. q \in Quantities /\ (q > old.shipped => old.shipped = 0 /\ q = old.requested)
    <3>1. old.shipped \in Quantities
      BY <1>0, <2>1 DEF TransferOk
    <3>2. q \in Int /\ old.shipped \in Int
      BY <3>1, QuantityIsInt
    <3> QED BY <2>1, <3>2 DEF Quantities
  <2>3. /\ row \in TransferRows /\ row.status = "received" /\ row.received = q
        /\ row.to = old.to /\ row.from = old.from
        /\ row.shipped = old.shipped /\ row.requested = old.requested
    BY <1>0, <2>2 DEF TransferRows, Nullable
  <2> HIDE DEF row
  <2> QED BY <2>1, <2>2, <2>3, <1>5
<1> QED BY <1>1, <1>2, <1>3, <1>4, <1>6, <1>7 DEF Supply!TransferStep

\* Batches and movements by hand change balances by what they record.
HandMoved ==
    /\ UNCHANGED <<central, transfer, resolving>>
    /\ batch' \in [Batches -> {"none", "planned", "in_progress", "completed", "cancelled"}]
    /\ stock' \in [Places -> Nat] /\ moved' \in [Places -> Int]
    /\ \A p \in Places : stock'[p] = stock[p] + (moved'[p] - moved[p])

LEMMA HandStepMoved ==
  ASSUME SupplyInv,
         \/ \E b \in Batches : Supply!BatchStep(b)
         \/ \E place \in Places, q \in {-1, 1} : Supply!MoveByHand(place, q)
  PROVE  HandMoved
<1>0. /\ stock \in [Places -> Nat] /\ moved \in [Places -> Int]
      /\ batch \in [Batches -> {"none", "planned", "in_progress", "completed", "cancelled"}]
  BY DEF SupplyInv
<1>1. ASSUME NEW deltas, \A p \in Places : deltas[p] \in Int, Supply!ApplyStock(deltas),
             moved' \in [Places -> Int], \A p \in Places : moved'[p] = moved[p] + deltas[p]
      PROVE  stock' \in [Places -> Nat] /\ \A p \in Places : stock'[p] = stock[p] + (moved'[p] - moved[p])
  <2>1. stock' \in [Places -> Nat] /\ \A p \in Places : stock'[p] = stock[p] + deltas[p]
    BY <1>0, <1>1, AppliedStock
  <2>2. ASSUME NEW p \in Places PROVE stock'[p] = stock[p] + (moved'[p] - moved[p])
    <3>1. /\ deltas[p] \in Int /\ moved[p] \in Int /\ moved'[p] = moved[p] + deltas[p]
          /\ stock'[p] = stock[p] + deltas[p] /\ stock[p] \in Int
      BY <1>0, <1>1, <2>1
    <3> QED BY <3>1
  <2> QED BY <2>1, <2>2
<1>2. ASSUME UNCHANGED <<stock, moved>>
      PROVE  stock' \in [Places -> Nat] /\ moved' \in [Places -> Int]
             /\ \A p \in Places : stock'[p] = stock[p] + (moved'[p] - moved[p])
  BY <1>0, <1>2
<1>3. ASSUME NEW b \in Batches, NEW status \in {"planned", "in_progress", "completed", "cancelled"},
             Supply!SetBatch(b, status)
      PROVE  /\ UNCHANGED <<central, transfer, resolving>>
             /\ batch' \in [Batches -> {"none", "planned", "in_progress", "completed", "cancelled"}]
  BY <1>0, <1>3 DEF Supply!SetBatch
<1>4. ASSUME NEW b \in Batches, Supply!CreateBatch(b) PROVE HandMoved
  <2>1. UNCHANGED <<stock, moved>> /\ Supply!SetBatch(b, "planned")
    BY <1>4 DEF Supply!CreateBatch
  <2> QED BY <2>1, <1>2, <1>3 DEF HandMoved
<1>5. ASSUME NEW b \in Batches, NEW to \in {"in_progress", "cancelled"}, Supply!UpdateBatch(b, to)
      PROVE  HandMoved
  <2>1. UNCHANGED <<stock, moved>> /\ Supply!SetBatch(b, to)
    BY <1>5 DEF Supply!UpdateBatch
  <2> QED BY <2>1, <1>2, <1>3 DEF HandMoved
<1>6. ASSUME NEW b \in Batches, NEW used \in Supply!Quantity, NEW made \in Supply!Quantity,
             NEW wasted \in [ingredients : 0..1, kitchen : 0..1],
             Supply!CompleteBatch(b, used, made, wasted)
      PROVE  HandMoved
  <2> DEFINE deltas == [p \in Supply!Places |->
                            CASE p = "ingredients" -> -used - wasted.ingredients
                              [] p = "kitchen" -> made - wasted.kitchen
                              [] OTHER -> 0]
  <2>1. /\ Supply!ApplyStock(deltas) /\ Supply!SetBatch(b, "completed")
        /\ moved' = [p \in Supply!Places |-> moved[p] + deltas[p]]
    BY <1>6 DEF Supply!CompleteBatch
  <2>2. /\ used \in Int /\ made \in Int /\ wasted.ingredients \in Int /\ wasted.kitchen \in Int
    BY BoundAssumption DEF Supply!Quantity
  <2>3. \A p \in Places : deltas[p] \in Int
    BY <2>2 DEF Places, Supply!Places
  <2> HIDE DEF deltas
  <2>4. moved' \in [Places -> Int] /\ \A p \in Places : moved'[p] = moved[p] + deltas[p]
    BY <1>0, <2>1, <2>3 DEF Places
  <2>5. stock' \in [Places -> Nat] /\ \A p \in Places : stock'[p] = stock[p] + (moved'[p] - moved[p])
    BY <2>1, <2>3, <2>4, <1>1
  <2> QED BY <2>1, <2>4, <2>5, <1>3 DEF HandMoved
<1>7. ASSUME NEW place \in Places, NEW q \in {-1, 1}, Supply!MoveByHand(place, q) PROVE HandMoved
  <2> DEFINE deltas == Supply!At(place, q)
  <2>1. /\ Supply!ApplyStock(deltas) /\ moved' = [moved EXCEPT ![place] = moved[place] + q]
        /\ UNCHANGED <<central, batch, transfer, resolving>>
    BY <1>7 DEF Supply!MoveByHand
  <2>2. \A p \in Places : deltas[p] = IF p = place THEN q ELSE 0
    BY DEF Supply!At, Places
  <2> HIDE DEF deltas
  <2>3. \A p \in Places : deltas[p] \in Int
    BY <2>2
  <2>4. moved' \in [Places -> Int] /\ \A p \in Places : moved'[p] = moved[p] + deltas[p]
    BY <1>0, <2>1, <2>2
  <2>5. stock' \in [Places -> Nat] /\ \A p \in Places : stock'[p] = stock[p] + (moved'[p] - moved[p])
    BY <2>1, <2>3, <2>4, <1>1
  <2> QED BY <1>0, <2>1, <2>4, <2>5 DEF HandMoved
<1>8. ASSUME NEW b \in Batches, Supply!BatchStep(b) PROVE HandMoved
  BY <1>8, <1>4, <1>5, <1>6 DEF Supply!BatchStep
<1> QED BY <1>7, <1>8

LEMMA SupplyKept ==
  ASSUME SupplyInv, Supply!SupplyNext PROVE SupplyInv'
<1> USE DEF SupplyInv
<1>1. ASSUME NEW c \in CentralOrders, CentralMoved(c) PROVE SupplyInv'
  BY <1>1 DEF CentralMoved
<1>2. ASSUME NEW t \in Transfers, TransferMoved(t) PROVE SupplyInv'
  BY <1>2 DEF TransferMoved
<1>3. ASSUME HandMoved PROVE SupplyInv'
  BY <1>3 DEF HandMoved
<1> HIDE DEF SupplyInv
<1>4. CASE \E c \in CentralOrders : Supply!CentralStep(c)
  BY <1>1, <1>4, CentralStepMoved
<1>5. CASE \E t \in Transfers : Supply!TransferStep(t)
  BY <1>2, <1>5, TransferStepMoved
<1>6. CASE \/ \E b \in Batches : Supply!BatchStep(b)
           \/ \E place \in Places, q \in {-1, 1} : Supply!MoveByHand(place, q)
  BY <1>3, <1>6, HandStepMoved
<1> QED BY <1>4, <1>5, <1>6 DEF Supply!SupplyNext, Places

--------------------------------------------------------------------------------
(***************************************************************************)
(* The stock of each place against its documents.                           *)
(***************************************************************************)

Posted == [c \in CentralOrders |-> central[c].posted]
Arrived(p) == [t \in Transfers |-> Arrival(transfer[t], p)]
Departed(p) == [t \in Transfers |-> Departure(transfer[t], p)]
PostedInAll == SumFunctionOnSet(Posted, CentralOrders)
ArrivedAt(p) == SumFunctionOnSet(Arrived(p), Transfers)
DepartedFrom(p) == SumFunctionOnSet(Departed(p), Transfers)

GoodsInv ==
    \A p \in Places :
        stock[p] = StockAtStart[p] + moved[p] + ArrivedAt(p) - DepartedFrom(p)
                   + (IF p = "store" THEN PostedInAll - Sold ELSE 0)

LEMMA TotalsAreInts ==
  ASSUME SupplyInv
  PROVE  PostedInAll \in Int /\ \A p : ArrivedAt(p) \in Int /\ DepartedFrom(p) \in Int
<1>1. \A c \in CentralOrders : Posted[c] \in Int
  BY PostedIsInt DEF SupplyInv, Posted
<1>2. PostedInAll \in Int
  BY <1>1, DocumentAssumption, SumType DEF PostedInAll
<1>3. ASSUME NEW p PROVE ArrivedAt(p) \in Int /\ DepartedFrom(p) \in Int
  <2>1. \A t \in Transfers : Arrived(p)[t] \in Int /\ Departed(p)[t] \in Int
    BY RowTypes DEF SupplyInv, Arrived, Departed
  <2> QED BY <2>1, DocumentAssumption, SumType DEF ArrivedAt, DepartedFrom
<1> QED BY <1>2, <1>3

\* The counter sells from the store and takes back to it, and touches no other place.
LEMMA CounterStock ==
  ASSUME IInv, stock \in [Places -> Nat], Counter!CounterNext
  PROVE  /\ stock' \in [Places -> Nat]
         /\ \A p \in Places : stock'[p] = stock[p] + (IF p = "store" THEN Sold - Sold' ELSE 0)
<1> DEFINE Goal == /\ stock' \in [Places -> Nat]
                   /\ \A p \in Places :
                         stock'[p] = stock[p] + (IF p = "store" THEN Sold - Sold' ELSE 0)
<1>1. ASSUME stock' = stock, Sold' = Sold PROVE Goal
  <2>1. Sold \in Nat
    BY SoldTypes
  <2> HIDE DEF Sold
  <2> QED BY <1>1, <2>1
<1>2. ASSUME stock' = stock, order' = order PROVE Goal
  <2>1. SameOrders
    BY <1>2 DEF SameOrders
  <2>2. Sold' = Sold
    BY <2>1, SameOrdersOwed
  <2> QED BY <1>1, <1>2, <2>2
<1>3. ASSUME NEW n \in Int, Counter!TakeFromStore(n), Sold' = Sold + n PROVE Goal
  <2>1. stock' = [stock EXCEPT !["store"] = stock["store"] - n] /\ stock["store"] >= n
    BY <1>3 DEF Counter!TakeFromStore
  <2>2. "store" \in Places /\ stock["store"] \in Nat
    BY DEF Places, Supply!Places
  <2>3. stock["store"] - n \in Nat
    BY <2>1, <2>2
  <2>4. stock' \in [Places -> Nat]
    BY <2>1, <2>3
  <2>5. \A p \in Places : stock'[p] = IF p = "store" THEN stock[p] - n ELSE stock[p]
    BY <2>1
  <2>6. Sold \in Nat /\ Sold' \in Nat
    BY SoldTypes
  <2> HIDE DEF Sold
  <2> QED BY <1>3, <2>4, <2>5, <2>6
<1> HIDE DEF Goal
<1>4. CASE Quiet
  <2>1. SameOrders /\ stock' = stock
    BY <1>4 DEF Quiet
  <2>2. Sold' = Sold
    BY <2>1, SameOrdersOwed
  <2> QED BY <2>1, <2>2, <1>1 DEF Goal
<1>5. ASSUME NEW r \in Requests, Counter!PlaceOrder(r) PROVE Goal
  BY <1>1, <1>5, PlacedOwed DEF Counter!PlaceOrder
<1>6. ASSUME NEW o \in Orders, NEW s, NEW method \in {"cash", "credit"}, order[o].status # "paid",
             Counter!Pay(o, method), order' = [order EXCEPT ![o] = Counter!Paid(s, method)]
      PROVE  Goal
  <2>1. Counter!Cost({o}) \in Nat
    BY CostIsNat
  <2>2. Sold' = Sold + Counter!Cost({o})
    BY <1>6, PaidOwed
  <2>3. Counter!TakeFromStore(Counter!Cost({o}))
    BY <1>6 DEF Counter!Pay
  <2> QED BY <2>1, <2>2, <2>3, <1>3
<1>7. ASSUME NEW r \in Requests, Sale(r) PROVE Goal
  <2>1. PICK method \in {"cash", "credit"} : Counter!Sell(r, method)
    BY <1>7 DEF Sale
  <2> DEFINE o == request[r].order
             s == request[r].shift
  <2>2. o \in Orders
    BY <2>1 DEF IInv, Typed, Counter!Sell
  <2>3. /\ order[o].status # "paid" /\ Counter!Pay(o, method)
        /\ order' = [order EXCEPT ![o] = Counter!Paid(s, method)]
    BY <2>1 DEF Counter!Sell
  <2> HIDE DEF o, s
  <2> QED BY <2>2, <2>3, <1>6
<1>8. ASSUME NEW o \in Orders, Capture(o) PROVE Goal
  <2>1. PICK method \in {"cash", "credit"} : Counter!CapturePayment(o, method)
    BY <1>8 DEF Capture
  <2>2. /\ order[o].status # "paid" /\ Counter!Pay(o, method)
        /\ order' = [order EXCEPT ![o] = Counter!Paid(order[o].shift, method)]
    BY <2>1 DEF Counter!CapturePayment
  <2> QED BY <2>2, <1>6
<1>9. ASSUME NEW o \in Orders, Counter!RefundOrder(o) PROVE Goal
  <2>1. /\ order[o].status = "paid" /\ Counter!TakeFromStore(-Counter!Cost({o}))
        /\ order' = [order EXCEPT ![o].status = "refunded", ![o].fulfillment = "cancelled"]
    BY <1>9 DEF Counter!RefundOrder
  <2>2. Sold' = Sold - Counter!Cost({o})
    BY <2>1, RefundedOwed
  <2>3. Counter!Cost({o}) \in Nat /\ Sold \in Nat
    BY CostIsNat, SoldTypes
  <2>4. Sold' = Sold + (-Counter!Cost({o})) /\ -Counter!Cost({o}) \in Int
    BY <2>2, <2>3
  <2> QED BY <2>1, <2>4, <1>3
<1>10. ASSUME NEW r \in Requests, Begins(r) \/ Opens(r) \/ Entry(r) PROVE Goal
  BY <1>2, <1>10 DEF Begins, Opens, Entry, Counter!LookToOrder, Counter!OpenShift, Counter!EnterCredit
<1>11. ASSUME NEW s \in Shifts, Counter!CloseShift(s) PROVE Goal
  BY <1>2, <1>11 DEF Counter!CloseShift
<1>12. ASSUME NEW u \in Topups, Counter!ApproveTopup(u) PROVE Goal
  BY <1>2, <1>12 DEF Counter!ApproveTopup
<1>13. ASSUME NEW limit \in Limits, Counter!SetLimit(limit) PROVE Goal
  BY <1>2, <1>13 DEF Counter!SetLimit
<1> QED BY QuietOrLoud, <1>4, <1>5, <1>7, <1>8, <1>9, <1>10, <1>11, <1>12, <1>13 DEF Loud, Goal

LEMMA CounterGoods ==
  ASSUME IInv, SupplyInv, GoodsInv, Counter!CounterNext, UNCHANGED supplyVars
  PROVE  GoodsInv'
<1>1. \A p \in Places : stock'[p] = stock[p] + (IF p = "store" THEN Sold - Sold' ELSE 0)
  BY CounterStock DEF SupplyInv
<1>2. /\ PostedInAll' = PostedInAll /\ moved' = moved
      /\ \A p : ArrivedAt(p)' = ArrivedAt(p) /\ DepartedFrom(p)' = DepartedFrom(p)
  BY DEF supplyVars, PostedInAll, Posted, ArrivedAt, Arrived, DepartedFrom, Departed
<1>3. Sold \in Nat /\ Sold' \in Nat
  BY SoldTypes
<1>4. PostedInAll \in Int /\ \A p : ArrivedAt(p) \in Int /\ DepartedFrom(p) \in Int
  BY TotalsAreInts
<1> SUFFICES ASSUME NEW p \in Places
             PROVE  stock'[p] = StockAtStart[p] + moved'[p] + ArrivedAt(p)' - DepartedFrom(p)'
                                + (IF p = "store" THEN PostedInAll' - Sold' ELSE 0)
  BY DEF GoodsInv
<1>5. stock[p] = StockAtStart[p] + moved[p] + ArrivedAt(p) - DepartedFrom(p)
                 + (IF p = "store" THEN PostedInAll - Sold ELSE 0)
  BY DEF GoodsInv
<1>6. moved[p] \in Int /\ StockAtStart[p] \in Int
  BY StockAssumption, BoundAssumption DEF SupplyInv, Places
<1> HIDE DEF Sold, PostedInAll, ArrivedAt, DepartedFrom
<1> QED BY <1>1, <1>2, <1>3, <1>4, <1>5, <1>6

\* A step on a document changes its own entry of the sums.
LEMMA CentralGoods ==
  ASSUME SupplyInv, GoodsInv, NEW c \in CentralOrders, CentralMoved(c), Sold' = Sold
  PROVE  GoodsInv'
<1>1. PICK row \in CentralRows :
        /\ central' = [central EXCEPT ![c] = row]
        /\ UNCHANGED <<batch, transfer, moved>>
        /\ \A p \in Places :
              stock'[p] = stock[p] + (IF p = "store" THEN row.posted - central[c].posted ELSE 0)
  BY DEF CentralMoved
<1>2. /\ \A d \in CentralOrders : Posted[d] \in Int /\ Posted'[d] \in Int
      /\ \A d \in CentralOrders \ {c} : Posted[d] = Posted'[d]
      /\ Posted[c] = central[c].posted /\ Posted'[c] = row.posted
  BY <1>1, PostedIsInt DEF Posted, SupplyInv
<1>3. PostedInAll' = PostedInAll + row.posted - central[c].posted
  <2> HIDE DEF Posted
  <2>1. SumFunctionOnSet(Posted', CentralOrders)
            = SumFunctionOnSet(Posted, CentralOrders) + Posted'[c] - Posted[c]
    BY <1>2, DocumentAssumption, SumChange
  <2> QED BY <2>1, <1>2 DEF PostedInAll
<1>4. \A p : ArrivedAt(p)' = ArrivedAt(p) /\ DepartedFrom(p)' = DepartedFrom(p)
  BY <1>1 DEF ArrivedAt, Arrived, DepartedFrom, Departed
<1>5. PostedInAll \in Int /\ \A p : ArrivedAt(p) \in Int /\ DepartedFrom(p) \in Int
  BY TotalsAreInts
<1> SUFFICES ASSUME NEW p \in Places
             PROVE  stock'[p] = StockAtStart[p] + moved'[p] + ArrivedAt(p)' - DepartedFrom(p)'
                                + (IF p = "store" THEN PostedInAll' - Sold' ELSE 0)
  BY DEF GoodsInv
<1>6. stock[p] = StockAtStart[p] + moved[p] + ArrivedAt(p) - DepartedFrom(p)
                 + (IF p = "store" THEN PostedInAll - Sold ELSE 0)
  BY DEF GoodsInv
<1>7. moved[p] \in Int /\ StockAtStart[p] \in Int /\ Sold \in Int
  BY StockAssumption, BoundAssumption, SoldTypes DEF SupplyInv, Places
<1>8. row.posted \in Int /\ central[c].posted \in Int /\ moved' = moved
  BY <1>1, PostedIsInt DEF SupplyInv
<1>9. stock'[p] = stock[p] + (IF p = "store" THEN row.posted - central[c].posted ELSE 0)
  BY <1>1
<1> HIDE DEF Sold, PostedInAll, ArrivedAt, DepartedFrom
<1> QED BY <1>3, <1>4, <1>5, <1>6, <1>7, <1>8, <1>9

LEMMA TransferGoods ==
  ASSUME SupplyInv, GoodsInv, NEW t \in Transfers, TransferMoved(t), Sold' = Sold
  PROVE  GoodsInv'
<1>1. PICK row \in TransferRows :
        /\ transfer' = [transfer EXCEPT ![t] = row]
        /\ UNCHANGED <<central, batch, moved>>
        /\ \A p \in Places :
              stock'[p] = stock[p] + (Arrival(row, p) - Arrival(transfer[t], p))
                                   - (Departure(row, p) - Departure(transfer[t], p))
  BY DEF TransferMoved
<1>2. PostedInAll' = PostedInAll /\ moved' = moved
  BY <1>1 DEF PostedInAll, Posted
<1> SUFFICES ASSUME NEW p \in Places
             PROVE  stock'[p] = StockAtStart[p] + moved'[p] + ArrivedAt(p)' - DepartedFrom(p)'
                                + (IF p = "store" THEN PostedInAll' - Sold' ELSE 0)
  BY DEF GoodsInv
<1>3. /\ transfer[t] \in TransferRows
      /\ Arrival(row, p) \in Int /\ Arrival(transfer[t], p) \in Int
      /\ Departure(row, p) \in Int /\ Departure(transfer[t], p) \in Int
  BY RowTypes DEF SupplyInv
<1>4. /\ \A u \in Transfers : transfer[u] \in TransferRows /\ transfer'[u] \in TransferRows
      /\ \A u \in Transfers \ {t} : transfer'[u] = transfer[u]
      /\ transfer'[t] = row
  BY <1>1 DEF SupplyInv
<1>5. ArrivedAt(p)' = ArrivedAt(p) + Arrival(row, p) - Arrival(transfer[t], p)
  <2> DEFINE f == Arrived(p)
             g == [u \in Transfers |-> Arrival(transfer'[u], p)]
  <2>1. /\ \A u \in Transfers : f[u] \in Int /\ g[u] \in Int
        /\ \A u \in Transfers \ {t} : f[u] = g[u]
    BY <1>4, RowTypes DEF Arrived
  <2>0. f[t] = Arrival(transfer[t], p) /\ g[t] = Arrival(row, p)
    BY <1>4, RowTypes DEF Arrived
  <2>2. ArrivedAt(p) = SumFunctionOnSet(f, Transfers) /\ ArrivedAt(p)' = SumFunctionOnSet(g, Transfers)
    BY DEF ArrivedAt, Arrived, Arrival
  <2> HIDE DEF f, g
  <2>3. SumFunctionOnSet(g, Transfers) = SumFunctionOnSet(f, Transfers) + g[t] - f[t]
    BY <2>1, DocumentAssumption, SumChange
  <2> QED BY <2>0, <2>2, <2>3
<1>6. DepartedFrom(p)' = DepartedFrom(p) + Departure(row, p) - Departure(transfer[t], p)
  <2> DEFINE f == Departed(p)
             g == [u \in Transfers |-> Departure(transfer'[u], p)]
  <2>1. /\ \A u \in Transfers : f[u] \in Int /\ g[u] \in Int
        /\ \A u \in Transfers \ {t} : f[u] = g[u]
    BY <1>4, RowTypes DEF Departed
  <2>0. f[t] = Departure(transfer[t], p) /\ g[t] = Departure(row, p)
    BY <1>4, RowTypes DEF Departed
  <2>2. /\ DepartedFrom(p) = SumFunctionOnSet(f, Transfers)
        /\ DepartedFrom(p)' = SumFunctionOnSet(g, Transfers)
    BY DEF DepartedFrom, Departed, Departure
  <2> HIDE DEF f, g
  <2>3. SumFunctionOnSet(g, Transfers) = SumFunctionOnSet(f, Transfers) + g[t] - f[t]
    BY <2>1, DocumentAssumption, SumChange
  <2> QED BY <2>0, <2>2, <2>3
<1>7. PostedInAll \in Int /\ ArrivedAt(p) \in Int /\ DepartedFrom(p) \in Int
  BY TotalsAreInts
<1>8. stock[p] = StockAtStart[p] + moved[p] + ArrivedAt(p) - DepartedFrom(p)
                 + (IF p = "store" THEN PostedInAll - Sold ELSE 0)
  BY DEF GoodsInv
<1>9. moved[p] \in Int /\ StockAtStart[p] \in Int /\ Sold \in Int
  BY StockAssumption, BoundAssumption, SoldTypes DEF SupplyInv, Places
<1>10. stock'[p] = stock[p] + (Arrival(row, p) - Arrival(transfer[t], p))
                            - (Departure(row, p) - Departure(transfer[t], p))
  BY <1>1
<1> HIDE DEF Sold, PostedInAll, ArrivedAt, DepartedFrom, Arrival, Departure
<1> QED BY <1>2, <1>3, <1>5, <1>6, <1>7, <1>8, <1>9, <1>10

LEMMA HandGoods ==
  ASSUME SupplyInv, GoodsInv, HandMoved, Sold' = Sold
  PROVE  GoodsInv'
<1>1. /\ UNCHANGED <<central, transfer>> /\ moved' \in [Places -> Int]
      /\ \A p \in Places : stock'[p] = stock[p] + (moved'[p] - moved[p])
  BY DEF HandMoved
<1>2. /\ PostedInAll' = PostedInAll
      /\ \A p : ArrivedAt(p)' = ArrivedAt(p) /\ DepartedFrom(p)' = DepartedFrom(p)
  BY <1>1 DEF PostedInAll, Posted, ArrivedAt, Arrived, DepartedFrom, Departed
<1>3. PostedInAll \in Int /\ \A p : ArrivedAt(p) \in Int /\ DepartedFrom(p) \in Int
  BY TotalsAreInts
<1> SUFFICES ASSUME NEW p \in Places
             PROVE  stock'[p] = StockAtStart[p] + moved'[p] + ArrivedAt(p)' - DepartedFrom(p)'
                                + (IF p = "store" THEN PostedInAll' - Sold' ELSE 0)
  BY DEF GoodsInv
<1>4. stock[p] = StockAtStart[p] + moved[p] + ArrivedAt(p) - DepartedFrom(p)
                 + (IF p = "store" THEN PostedInAll - Sold ELSE 0)
  BY DEF GoodsInv
<1>5. moved[p] \in Int /\ moved'[p] \in Int /\ StockAtStart[p] \in Int /\ Sold \in Int
  BY <1>1, StockAssumption, BoundAssumption, SoldTypes DEF SupplyInv, Places
<1>6. stock'[p] = stock[p] + (moved'[p] - moved[p])
  BY <1>1
<1> HIDE DEF Sold, PostedInAll, ArrivedAt, DepartedFrom
<1> QED BY <1>2, <1>3, <1>4, <1>5, <1>6

LEMMA SupplyGoods ==
  ASSUME SupplyInv, GoodsInv, Supply!SupplyNext, UNCHANGED counterVars
  PROVE  GoodsInv'
<1>1. Sold' = Sold
  BY DEF counterVars, Sold
<1>2. CASE \E c \in CentralOrders : Supply!CentralStep(c)
  BY <1>1, <1>2, CentralStepMoved, CentralGoods
<1>3. CASE \E t \in Transfers : Supply!TransferStep(t)
  BY <1>1, <1>3, TransferStepMoved, TransferGoods
<1>4. CASE \/ \E b \in Batches : Supply!BatchStep(b)
           \/ \E place \in Places, q \in {-1, 1} : Supply!MoveByHand(place, q)
  BY <1>1, <1>4, HandStepMoved, HandGoods
<1> QED BY <1>2, <1>3, <1>4 DEF Supply!SupplyNext, Places

--------------------------------------------------------------------------------
(***************************************************************************)
(* The invariant of the store and what follows from it.                     *)
(***************************************************************************)

StoreInv ==
    /\ IInv /\ CounterTypes /\ AccountTypes /\ CreditInv /\ CashInv
    /\ SupplyInv /\ GoodsInv

LEMMA InitStoreInv == Init => StoreInv
<1> SUFFICES ASSUME Init PROVE StoreInv
  OBVIOUS
<1> USE DEF Init, Counter!CounterInit, Supply!SupplyInit
<1>1. CounterTypes
  BY DEF CounterTypes, ShiftRows
<1>2. Counter!Min(Limits) \in Limits
  BY LeastLimit
<1>3. AccountTypes
  BY <1>2, LimitAssumption DEF AccountTypes
<1>4. PaidOrders = {} /\ CreditOrders = {}
  BY DEF PaidOrders, CreditOrders
<1>5. Counter!Cost({}) = 0
  <2>1. {t \in Tickets : OrderOf[t] \in {}} = {}
    OBVIOUS
  <2>2. Cardinality({}) = 0
    BY FS_EmptySet
  <2> QED BY <2>1, <2>2, CostCounts DEF Counter!Cost
<1>6. Owed = 0 /\ Sold = 0
  <2>1. Owed = Counter!Cost(CreditOrders) /\ Sold = Counter!Cost(PaidOrders)
    BY DEF Owed, Sold, PaidOrders
  <2> QED BY <2>1, <1>4, <1>5
<1>7. CreditInv
  <2>1. account.balance = 0 /\ lost = 0 /\ entered.sum = 0
    OBVIOUS
  <2> QED BY <1>6, <2>1 DEF CreditInv
<1>8. CashInv
  <2>1. \A r \in Requests : ~Ordering(r)
    BY DEF Ordering, Counter!InStep
  <2>2. CashBounds
    BY <2>1 DEF CashBounds, OverlookedAtClose, OrderCash, RequestCash
  <2>3. ClosedShiftCash
    BY DEF ClosedShiftCash
  <2> QED BY <2>2, <2>3 DEF CashInv
<1>9. SupplyInv
  <2>1. /\ stock \in [Places -> Nat] /\ moved \in [Places -> Int]
        /\ batch \in [Batches -> {"none", "planned", "in_progress", "completed", "cancelled"}]
        /\ resolving \in [CentralOrders -> Nullable]
    BY StockAssumption, BoundAssumption, QuantitiesAre DEF Places
  <2> DEFINE line == [Supply!NewLine(1) EXCEPT !.status = "none"]
             row == [Supply!NewTransfer("kitchen", "store", 1) EXCEPT !.status = "none"]
  <2>2. line \in CentralRows /\ line.status = "none" /\ line.received = NULL /\ line.posted = 0
    BY QuantitiesAre DEF CentralRows, Supply!NewLine
  <2>3. row \in TransferRows /\ row.status = "none" /\ row.received = NULL /\ row.shipped = NULL
    BY QuantitiesAre DEF TransferRows, Supply!NewTransfer, Places, Supply!Places
  <2>4. central = [c \in CentralOrders |-> line] /\ transfer = [t \in Transfers |-> row]
    OBVIOUS
  <2> HIDE DEF line, row
  <2>5. CentralOk(line)
    BY <2>2 DEF CentralOk
  <2>6. TransferOk(row)
    BY <2>3, QuantitiesAre DEF TransferOk
  <2>7. /\ central \in [CentralOrders -> CentralRows] /\ \A c \in CentralOrders : CentralOk(central[c])
        /\ transfer \in [Transfers -> TransferRows] /\ \A t \in Transfers : TransferOk(transfer[t])
    BY <2>2, <2>3, <2>4, <2>5, <2>6
  <2> QED BY <2>1, <2>7 DEF SupplyInv
<1>10. GoodsInv
  <2>1. /\ \A c \in CentralOrders : Posted[c] = 0
        /\ \A p : \A t \in Transfers : Arrived(p)[t] = 0 /\ Departed(p)[t] = 0
    BY DEF Posted, Arrived, Departed, Arrival, Departure, Supply!NewLine, Supply!NewTransfer
  <2>2. PostedInAll = 0 /\ \A p : ArrivedAt(p) = 0 /\ DepartedFrom(p) = 0
    BY <2>1, DocumentAssumption, SumZero DEF PostedInAll, ArrivedAt, DepartedFrom
  <2>3. ASSUME NEW p \in Places
        PROVE  stock[p] = StockAtStart[p] + moved[p] + ArrivedAt(p) - DepartedFrom(p)
                          + (IF p = "store" THEN PostedInAll - Sold ELSE 0)
    <3>1. stock[p] = StockAtStart[p] /\ moved[p] = 0 /\ StockAtStart[p] \in Int
      BY StockAssumption, BoundAssumption DEF Places
    <3> HIDE DEF Init, Counter!CounterInit, Supply!SupplyInit
    <3> QED BY <3>1, <2>2, <1>6
  <2> QED BY <2>3 DEF GoodsInv
<1> QED BY InitIInv, <1>1, <1>3, <1>7, <1>8, <1>9, <1>10 DEF StoreInv

LEMMA NextStoreInv == StoreInv /\ [Next]_vars => StoreInv'
<1> SUFFICES ASSUME StoreInv, [Next]_vars PROVE StoreInv'
  OBVIOUS
<1>1. IInv'
  BY NextIInv DEF StoreInv
<1>2. ASSUME UNCHANGED counterVars
      PROVE  CounterTypes' /\ AccountTypes' /\ CreditInv' /\ CashInv'
  <2>1. UNCHANGED <<shift, order, account, topup, request, entered, lost, overlooked, returned>>
    BY <1>2 DEF counterVars
  <2>2. CounterTypes' /\ AccountTypes'
    BY <2>1 DEF StoreInv, CounterTypes, AccountTypes
  <2>3. SameOrders
    BY <2>1 DEF SameOrders
  <2>4. CreditInv'
    BY <2>1, <2>3, SameOrdersOwed DEF StoreInv, CreditInv
  <2>5. SameRequests
    BY <2>1 DEF SameRequests, Ordering, Counter!InStep
  <2>6. CashInv'
    BY <2>1, <2>3, <2>5, QuietCash DEF StoreInv
  <2> QED BY <2>2, <2>4, <2>6
<1>3. CASE Counter!CounterNext /\ UNCHANGED supplyVars
  <2>1. CounterTypes'
    BY <1>3, CounterTypesKept DEF StoreInv, AccountTypes
  <2>2. AccountTypes' /\ CreditInv'
    BY <1>3, CounterCredit DEF StoreInv, CounterTypes, CreditKept
  <2>3. CashInv'
    BY <1>3, CounterCash DEF StoreInv
  <2>4. stock' \in [Places -> Nat]
    BY <1>3, CounterStock DEF StoreInv, SupplyInv
  <2>5. SupplyInv'
    BY <1>3, <2>4 DEF StoreInv, SupplyInv, supplyVars
  <2>6. GoodsInv'
    BY <1>3, CounterGoods DEF StoreInv
  <2> QED BY <1>1, <2>1, <2>2, <2>3, <2>5, <2>6 DEF StoreInv
<1>4. CASE Supply!SupplyNext /\ UNCHANGED counterVars
  <2>1. SupplyInv'
    BY <1>4, SupplyKept DEF StoreInv
  <2>2. GoodsInv'
    BY <1>4, SupplyGoods DEF StoreInv
  <2> QED BY <1>1, <1>2, <1>4, <2>1, <2>2 DEF StoreInv
<1>5. CASE UNCHANGED vars
  <2>1. UNCHANGED counterVars /\ UNCHANGED supplyVars /\ stock' = stock
    BY <1>5 DEF vars
  <2>2. SupplyInv'
    BY <2>1 DEF StoreInv, SupplyInv, supplyVars
  <2>3. GoodsInv'
    <3>1. /\ PostedInAll' = PostedInAll /\ moved' = moved /\ Sold' = Sold
          /\ \A p : ArrivedAt(p)' = ArrivedAt(p) /\ DepartedFrom(p)' = DepartedFrom(p)
      BY <2>1 DEF supplyVars, counterVars, Sold, PostedInAll, Posted, ArrivedAt, Arrived,
                  DepartedFrom, Departed
    <3> QED BY <2>1, <3>1 DEF StoreInv, GoodsInv
  <2> QED BY <1>1, <1>2, <2>1, <2>2, <2>3 DEF StoreInv
<1> QED BY <1>3, <1>4, <1>5 DEF Next

LEMMA StoreInvariant == Spec => []StoreInv
<1> QED BY InitStoreInv, NextStoreInv, PTL DEF Spec

\* Rows keep the columns' types, and neither stock nor credit ever falls below zero.
THEOREM TypeCorrect == Spec => []TypeOK
<1>1. StoreInv => TypeOK
  <2> SUFFICES ASSUME StoreInv PROVE TypeOK
    OBVIOUS
  <2>1. shift \in [Shifts -> ShiftRows]
    BY DEF StoreInv, CounterTypes
  <2>2. order \in [Orders -> OrderRows]
    BY DEF StoreInv, IInv, Typed
  <2>3. ticket \in [Tickets -> {"none", "queued", "preparing", "ready"}]
    BY DEF StoreInv, IInv, Typed
  <2>4. account \in [balance : Nat, limit : Limits]
    BY DEF StoreInv, AccountTypes
  <2>5. /\ topup \in [Topups -> {"none", "pending", "approved", "rejected"}]
        /\ \A r \in Requests : request[r] = Idle \/ request[r] \in Reading
    BY DEF StoreInv, CounterTypes
  <2>6. /\ stock \in [Places -> Nat] /\ central \in [CentralOrders -> CentralRows]
        /\ batch \in [Batches -> {"none", "planned", "in_progress", "completed", "cancelled"}]
        /\ transfer \in [Transfers -> TransferRows] /\ resolving \in [CentralOrders -> Nullable]
    BY DEF StoreInv, SupplyInv
  <2> QED BY <2>1, <2>2, <2>3, <2>4, <2>5, <2>6
             DEF TypeOK, ShiftRows, OrderRows, CentralRows, TransferRows, Places
<1> QED BY StoreInvariant, <1>1, PTL

\* Each place of the store holds what its documents say, whatever is retried or raced, and
\* no more arrives than was shipped but on the two routes that do not ask for a count.
THEOREM GoodsAreDocumented == Spec => []GoodsMatchDocuments
<1>1. StoreInv => GoodsMatchDocuments
  <2> SUFFICES ASSUME StoreInv PROVE GoodsMatchDocuments
    OBVIOUS
  <2>1. ArrivedWasShipped
    BY DEF ArrivedWasShipped, StoreInv, SupplyInv, CentralOk, TransferOk, NULL
  <2>2. \A t \in Transfers : transfer[t] \in TransferRows
    BY DEF StoreInv, SupplyInv
  <2>3. \A t \in Transfers : transfer[t].received \in Int /\ transfer[t].shipped \in Int
    <3> SUFFICES ASSUME NEW t \in Transfers
                 PROVE  transfer[t].received \in Int /\ transfer[t].shipped \in Int
      OBVIOUS
    <3>1. transfer[t].received \in Nullable /\ transfer[t].shipped \in Nullable
      BY <2>2 DEF TransferRows
    <3> QED BY <3>1, QuantityIsInt
  <2>4. ASSUME NEW p
        PROVE  SumFunctionOnSet([t \in Transfers |-> transfer[t].received], In(p)) = ArrivedAt(p)
    <3> DEFINE f == [t \in Transfers |-> transfer[t].received]
    <3>1. In(p) \in SUBSET Transfers /\ \A t \in Transfers : f[t] \in Int
      BY <2>3 DEF In
    <3>2. [t \in Transfers |-> IF t \in In(p) THEN f[t] ELSE 0] = Arrived(p)
      BY DEF Arrived, Arrival, In
    <3> HIDE DEF f
    <3>3. SumFunctionOnSet(f, In(p))
              = SumFunctionOnSet([t \in Transfers |-> IF t \in In(p) THEN f[t] ELSE 0], Transfers)
      BY <3>1, DocumentAssumption, SumOfSome
    <3>4. SumFunctionOnSet(f, In(p)) = ArrivedAt(p)
      BY <3>2, <3>3 DEF ArrivedAt
    <3> QED BY <3>4 DEF f
  <2>5. ASSUME NEW p
        PROVE  SumFunctionOnSet([t \in Transfers |-> transfer[t].shipped], Out(p)) = DepartedFrom(p)
    <3> DEFINE f == [t \in Transfers |-> transfer[t].shipped]
    <3>1. Out(p) \in SUBSET Transfers /\ \A t \in Transfers : f[t] \in Int
      BY <2>3 DEF Out
    <3>2. [t \in Transfers |-> IF t \in Out(p) THEN f[t] ELSE 0] = Departed(p)
      BY DEF Departed, Departure, Out
    <3> HIDE DEF f
    <3>3. SumFunctionOnSet(f, Out(p))
              = SumFunctionOnSet([t \in Transfers |-> IF t \in Out(p) THEN f[t] ELSE 0], Transfers)
      BY <3>1, DocumentAssumption, SumOfSome
    <3>4. SumFunctionOnSet(f, Out(p)) = DepartedFrom(p)
      BY <3>2, <3>3 DEF DepartedFrom
    <3> QED BY <3>4 DEF f
  <2>6. SumFunctionOnSet([c \in CentralOrders |-> central[c].posted], CentralOrders) = PostedInAll
    BY DEF PostedInAll, Posted
  <2>7. StockMatchesDocuments
    <3> SUFFICES ASSUME NEW p \in Places PROVE StockMatchesDocuments!(p)
      BY DEF StockMatchesDocuments, Places
    <3>1. stock[p] = StockAtStart[p] + moved[p] + ArrivedAt(p) - DepartedFrom(p)
                     + (IF p = "store" THEN PostedInAll - Sold ELSE 0)
      BY DEF StoreInv, GoodsInv
    <3> QED BY <3>1, <2>4, <2>5, <2>6
  <2> QED BY <2>1, <2>7 DEF GoodsMatchDocuments
<1> QED BY StoreInvariant, <1>1, PTL

\* The account owes the paid credit orders and the entries by hand, less exactly what
\* entries have overwritten with a balance they had read before its lock.
THEOREM CreditIsOwed == Spec => []CreditMatchesOrders
<1>1. StoreInv => CreditMatchesOrders
  BY DEF StoreInv, CreditInv, CreditMatchesOrders, Owed, CreditOrders
<1> QED BY StoreInvariant, <1>1, PTL

\* The cash a closed shift expects is that of every cash order of the shift but those that
\* its close did not see and those refunded before it.
THEOREM ClosedShiftsExpectTheirCash == Spec => []ClosedShiftCash
<1>1. StoreInv => ClosedShiftCash
  BY DEF StoreInv, CashInv
<1> QED BY StoreInvariant, <1>1, PTL
================================================================================
