--------------------------- MODULE OfflineSyncProofs ---------------------------
(***************************************************************************)
(* Proofs about Dining and OfflineSync, for any orders, items, sessions,   *)
(* tills and handlers, whoever gives up, dies or acts twice.               *)
(*                                                                         *)
(* Dining: a sale that a session is linked to was made, an item and its    *)
(* ticket have one status, a cancelled item stays cancelled and is written *)
(* off once, the bill of a session is what its table had, and a paid WAP   *)
(* order is in the session that its attempt opened.                        *)
(*                                                                         *)
(* OfflineSync: offline orders are sold with the steps of Dining only,     *)
(* what till and server call settled is sold, what is settled stays        *)
(* settled, and what was refused or turned away was not sold.              *)
(***************************************************************************)
EXTENDS OfflineSync, TLAPS

WapKinds == {"wap_open", "wap_place", "wap_pay", "wap_link"}
Selling(r) == request[r] # Idle /\ request[r].kind \in WapKinds

SessionRow == [status : {"none", "open", "bill_requested", "closed"}, quick : BOOLEAN,
               sale : {"none", "table"} \cup WapOrders]

\* The shapes of sessions and of what handlers have read, as far as sales go.
SaleShapes ==
    /\ session \in [Sessions -> SessionRow]
    /\ request = [r \in Requests |-> request[r]]
    /\ \A r \in Requests :
        /\ Selling(r) => request[r] \in
                [kind : WapKinds, order : WapOrders, session : Sessions \cup {NoSession}]
        /\ InStep(r, "checkout") =>
                request[r] = [kind |-> "checkout", session |-> request[r].session,
                              bill |-> request[r].bill]

\* A sale that is about to be linked, and one that is linked, was made.
LinkedIsSold ==
    /\ \A r \in Requests : InStep(r, "wap_link") => request[r].order \in paid
    /\ \A s \in Sessions : session[s].sale \in WapOrders => session[s].sale \in paid

SaleInv == SaleShapes /\ LinkedIsSold

\* Sessions that change, with requests and sales as they were.
LEMMA SessionsKeepSales ==
    ASSUME SaleInv, UNCHANGED <<request, paid>>,
           session' \in [Sessions -> SessionRow],
           \A s \in Sessions : session'[s].sale \in WapOrders => session'[s].sale \in paid
    PROVE  SaleInv'
  BY DEF SaleInv, SaleShapes, LinkedIsSold, Selling, InStep

\* A handler of Dining keeps the sales: those made stay made, and the links are to them.
LEMMA LookKeepsSales ==
    ASSUME SaleInv, NEW r \in Requests, Look(r)
    PROVE  SaleInv' /\ UNCHANGED <<session, paid>>
<1>1. CASE \E o \in WapOrders : WapLookup(r, o)
  BY <1>1 DEF WapLookup, SaleInv, SaleShapes, LinkedIsSold, Selling, WapKinds, InStep, rowVars
<1>2. CASE \E s \in Sessions, o \in Orders : LookToOrder(r, s, o)
  BY <1>2 DEF LookToOrder, SaleInv, SaleShapes, LinkedIsSold, Selling, WapKinds, InStep, rowVars
<1>3. CASE \E s \in Sessions : LookToPickUp(r, s)
  <2>1. PICK s \in Sessions : LookToPickUp(r, s)
    BY <1>3
  <2> DEFINE seen == [i \in {j \in TicketsOf(s) : ticket[j] = "done"} |-> Seen(i)]
  <2>2. /\ request' = [request EXCEPT ![r] = [kind |-> "pickup", seen |-> seen]]
        /\ UNCHANGED <<session, paid>>
    BY <2>1 DEF LookToPickUp, rowVars
  <2> HIDE DEF seen
  <2> QED
    BY <2>2 DEF SaleInv, SaleShapes, LinkedIsSold, Selling, WapKinds, InStep
<1>4. CASE \E s \in Sessions : LookToCheckout(r, s)
  <2>1. PICK s \in Sessions : LookToCheckout(r, s)
    BY <1>4
  <2> DEFINE b == [items |-> Billable(s), version |-> CartVersion(s)]
  <2>2. /\ request' = [request EXCEPT ![r] = [kind |-> "checkout", session |-> s, bill |-> b]]
        /\ UNCHANGED <<session, paid>>
    BY <2>1 DEF LookToCheckout, rowVars
  <2> HIDE DEF b
  <2> QED
    BY <2>2 DEF SaleInv, SaleShapes, LinkedIsSold, Selling, WapKinds, InStep
<1>5. CASE \E i \in Items : LookToCook(r, i)
  BY <1>5 DEF LookToCook, SaleInv, SaleShapes, LinkedIsSold, Selling, WapKinds, InStep, rowVars
<1>6. CASE \E i \in Items : LookAtItem(r, i)
  BY <1>6 DEF LookAtItem, SaleInv, SaleShapes, LinkedIsSold, Selling, WapKinds, InStep, rowVars
<1>7. CASE \E i \in Items : LookToCancel(r, i)
  BY <1>7 DEF LookToCancel, SaleInv, SaleShapes, LinkedIsSold, Selling, WapKinds, InStep, rowVars
<1> QED
  BY <1>1, <1>2, <1>3, <1>4, <1>5, <1>6, <1>7 DEF Look

\* A request that ends, and links what was sold.
LEMMA FinishAndLink ==
    ASSUME SaleInv, NEW r \in Requests, Finish(r), UNCHANGED paid,
           session' \in [Sessions -> SessionRow],
           \A s \in Sessions : session'[s].sale \in WapOrders => session'[s].sale \in paid
    PROVE  SaleInv'
  BY DEF Finish, SaleInv, SaleShapes, LinkedIsSold, Selling, InStep

LEMMA WriteKeepsSales ==
    ASSUME SaleInv, NEW r \in Requests, Write(r)
    PROVE  SaleInv' /\ paid \subseteq paid'
<1> USE WapAssumption
<1>s. session \in [Sessions -> SessionRow]
  BY DEF SaleInv, SaleShapes
<1>1. CASE \/ PlaceOrder(r) \/ MarkServed(r) \/ CancelItem(r) \/ Abort(r)
           \/ \E new \in Working : UpdateTicket(r, new) \/ UpdateItem(r, new)
  <2>1. Finish(r) /\ UNCHANGED <<session, paid>>
    BY <1>1 DEF PlaceOrder, MarkServed, CancelItem, Abort, UpdateTicket, UpdateItem, rowVars
  <2> QED
    BY <1>s, <2>1, FinishAndLink DEF SaleInv, LinkedIsSold
<1>2. CASE PayBill(r)
  BY <1>2 DEF PayBill, SaleInv, SaleShapes, LinkedIsSold, Selling, WapKinds, InStep, rowVars
<1>3. CASE CloseSold(r)
  <2>1. session' \in [Sessions -> SessionRow]
    BY <1>s, <1>3 DEF CloseSold, SessionRow
  <2>2. \A s \in Sessions : session'[s].sale \in {"table", session[s].sale}
    BY <1>s, <1>3 DEF CloseSold, SessionRow
  <2>3. Finish(r) /\ UNCHANGED paid
    BY <1>3 DEF CloseSold
  <2> QED
    BY <2>1, <2>2, <2>3, FinishAndLink DEF SaleInv, LinkedIsSold
<1>4. CASE \E s \in Sessions : WapOpen(r, s)
  <2>1. PICK s \in Sessions : WapOpen(r, s)
    BY <1>4
  <2>2. session' \in [Sessions -> SessionRow]
    BY <1>s, <2>1 DEF WapOpen, SessionRow
  <2>3. \A t \in Sessions : session'[t].sale \in {"none", session[t].sale}
    BY <1>s, <2>1 DEF WapOpen, SessionRow
  <2>4. /\ InStep(r, "wap_open") /\ UNCHANGED paid
        /\ request' = [request EXCEPT ![r] = [@ EXCEPT !.kind = "wap_place", !.session = s]]
    BY <2>1 DEF WapOpen
  <2>5. request[r] \in [kind : WapKinds, order : WapOrders, session : Sessions \cup {NoSession}]
    BY <2>4 DEF SaleInv, SaleShapes, Selling, WapKinds, InStep
  <2>6. request'[r] = [kind |-> "wap_place", order |-> request[r].order, session |-> s]
    BY <2>4, <2>5 DEF SaleInv, SaleShapes
  <2>7. SaleShapes'
    BY <2>2, <2>4, <2>5, <2>6 DEF SaleInv, SaleShapes, Selling, WapKinds, InStep
  <2>8. LinkedIsSold'
    BY <2>3, <2>4, <2>5, <2>6 DEF SaleInv, SaleShapes, LinkedIsSold, InStep
  <2> QED
    BY <2>4, <2>7, <2>8 DEF SaleInv
<1>5. CASE WapPlace(r)
  BY <1>5 DEF WapPlace, SaleInv, SaleShapes, LinkedIsSold, Selling, WapKinds, InStep
<1>6. CASE WapPay(r)
  BY <1>6 DEF WapPay, SaleInv, SaleShapes, LinkedIsSold, Selling, WapKinds, InStep, rowVars
<1>7. CASE WapLink(r)
  <2>1. request[r].order \in WapOrders \cap paid
    BY <1>7 DEF WapLink, SaleInv, SaleShapes, LinkedIsSold, Selling, WapKinds, InStep
  <2>2. session' \in [Sessions -> SessionRow]
    BY <1>s, <1>7, <2>1 DEF WapLink, SessionRow
  <2>3. \A s \in Sessions : session'[s].sale \in {request[r].order, session[s].sale}
    BY <1>s, <1>7 DEF WapLink, SessionRow
  <2>4. Finish(r) /\ UNCHANGED paid
    BY <1>7 DEF WapLink
  <2> QED
    BY <2>1, <2>2, <2>3, <2>4, FinishAndLink DEF SaleInv, LinkedIsSold
<1> QED
  BY <1>1, <1>2, <1>3, <1>4, <1>5, <1>6, <1>7 DEF Write

LEMMA SessionStepKeepsSales ==
    ASSUME SaleInv, NEW s \in Sessions, SessionStep(s)
    PROVE  SaleInv' /\ UNCHANGED paid
<1> USE WapAssumption
<1>s. session \in [Sessions -> SessionRow]
  BY DEF SaleInv, SaleShapes
<1>1. CASE \E quick \in BOOLEAN : OpenSession(s, quick)
  <2>1. session' \in [Sessions -> SessionRow]
    BY <1>s, <1>1 DEF OpenSession, SessionRow
  <2>2. \A t \in Sessions : session'[t].sale \in {"none", session[t].sale}
    BY <1>s, <1>1 DEF OpenSession, SessionRow
  <2> QED
    BY <1>1, <2>1, <2>2, SessionsKeepSales DEF OpenSession, SaleInv, LinkedIsSold
<1>2. CASE RequestBill(s)
  <2>1. session' \in [Sessions -> SessionRow]
    BY <1>s, <1>2 DEF RequestBill, SessionRow
  <2>2. \A t \in Sessions : session'[t].sale = session[t].sale
    BY <1>s, <1>2 DEF RequestBill, SessionRow
  <2> QED
    BY <1>2, <2>1, <2>2, SessionsKeepSales DEF RequestBill, SaleInv, LinkedIsSold
<1>3. CASE CloseSession(s)
  <2>1. session' \in [Sessions -> SessionRow]
    BY <1>s, <1>3 DEF CloseSession, SessionRow
  <2>2. \A t \in Sessions : session'[t].sale = session[t].sale
    BY <1>s, <1>3 DEF CloseSession, SessionRow
  <2> QED
    BY <1>3, <2>1, <2>2, SessionsKeepSales DEF CloseSession, SaleInv, LinkedIsSold
<1>4. CASE PrintKitchenSlip(s)
  BY <1>4, SessionsKeepSales DEF PrintKitchenSlip, SaleInv, SaleShapes, LinkedIsSold
<1> QED
  BY <1>1, <1>2, <1>3, <1>4 DEF SessionStep

\* Every step of Dining keeps the sales that were made, and the links are to them.
LEMMA DiningKeepsSales ==
    ASSUME SaleInv, [Next]_vars
    PROVE  SaleInv' /\ paid \subseteq paid'
<1>1. CASE UNCHANGED vars
  BY <1>1 DEF vars, rowVars, SaleInv, SaleShapes, LinkedIsSold, Selling, InStep
<1>2. CASE \E o \in Orders : CancelOrder(o)
  BY <1>2 DEF CancelOrder, SaleInv, SaleShapes, LinkedIsSold, Selling, InStep
<1>3. CASE \E i \in Items, o \in Orders : Reopen(i, o)
  BY <1>3 DEF Reopen, SaleInv, SaleShapes, LinkedIsSold, Selling, InStep
<1> QED
  BY <1>1, <1>2, <1>3, LookKeepsSales, WriteKeepsSales, SessionStepKeepsSales DEF Next

\* A handler of Dining writes its own slot.
LEMMA OwnSlot ==
    ASSUME SaleInv, NEW q \in Requests, Look(q) \/ Write(q)
    PROVE  \A r \in Requests \ {q} : request'[r] = request[r]
<1> DEFINE InSlot == \E c : request' = [request EXCEPT ![q] = c]
<1>1. CASE \/ \E s \in Sessions : \/ \E o \in Orders : LookToOrder(q, s, o)
                                 \/ LookToPickUp(q, s) \/ LookToCheckout(q, s)
           \/ \E i \in Items : LookToCook(q, i) \/ LookAtItem(q, i) \/ LookToCancel(q, i)
           \/ \E o \in WapOrders : WapLookup(q, o)
  <2>1. InSlot
    BY <1>1, Zenon DEF LookToOrder, LookToPickUp, LookToCheckout, LookToCook, LookAtItem,
          LookToCancel, WapLookup
  <2> QED
    BY <2>1 DEF SaleInv, SaleShapes
<1>2. CASE \/ PlaceOrder(q) \/ MarkServed(q) \/ CancelItem(q) \/ CloseSold(q) \/ WapLink(q)
           \/ \E new \in Working : UpdateTicket(q, new) \/ UpdateItem(q, new)
           \/ Abort(q)
  <2>1. InSlot
    BY <1>2, Zenon DEF PlaceOrder, MarkServed, CancelItem, CloseSold, WapLink, UpdateTicket,
          UpdateItem, Abort, Finish
  <2> QED
    BY <2>1 DEF SaleInv, SaleShapes
<1>3. CASE PayBill(q) \/ (\E s \in Sessions : WapOpen(q, s)) \/ WapPlace(q) \/ WapPay(q)
  BY <1>3 DEF PayBill, WapOpen, WapPlace, WapPay, SaleInv, SaleShapes
<1> QED
  BY <1>1, <1>2, <1>3 DEF Look, Write

LEMMA SaleInvHoldsAtFirst == Init => SaleInv
  BY WapAssumption DEF Init, SaleInv, SaleShapes, LinkedIsSold, SessionRow, Selling, InStep

\* A session that is linked to a paid order's sale is linked to one that was made, and a
\* handler that is about to link one has made it: an answer that is given for a link is
\* given for a sale.
THEOREM LinksAreSold == Spec => []LinkedIsSold
<1>1. SaleInv /\ [Next]_vars => SaleInv'
  BY DiningKeepsSales
<1> QED
  BY <1>1, SaleInvHoldsAtFirst, PTL DEF Spec, SaleInv

--------------------------------------------------------------------------------
(* Items and their tickets *)

OrderRow == [session : Sessions \cup {NoSession}, status : {"none", "pending", "cancelled"},
             version : Nat]

\* An item that no handler wrote over a change.
ItemInv(i) ==
    /\ ticket[i] \in {"none", item[i]}
    /\ waste[i] \in {0, 1}
    /\ waste[i] = 1 => item[i] = "cancelled"
    /\ i \in begun => item[i] \in {"cooking", "done", "served", "cancelled"}
    /\ item[i] = "cancelled" /\ i \in begun => waste[i] = 1

RowInv ==
    /\ order \in [Orders -> OrderRow]
    /\ \A i \in Items : /\ item[i] = "none" <=> order[OrderOf[i]].session = NoSession
                        /\ ticket[i] # "none" => item[i] # "none"
    /\ \A i \in Items \ overwritten : ItemInv(i)
    /\ \A o \in Orders : order[o].status = "cancelled" =>
            \A i \in ItemsOf(o) \ overwritten : item[i] = "cancelled"
    /\ \A i \in event : i \in Items /\ item[i] # "none"

\* What a handler that is under way has read.
ReadOk(r) ==
    /\ InStep(r, "order") => request[r].session \in Sessions /\ request[r].order \in Orders
    /\ InStep(r, "wap_place") => request[r].session \in Sessions
    /\ InStep(r, "ticket") => request[r].item \in Items
    /\ InStep(r, "item") => /\ request[r].item \in Items /\ item[request[r].item] # "none"
                           /\ request[r].version \in Nat
    /\ InStep(r, "cancel") => request[r].item \in Items
    /\ InStep(r, "pickup") =>
            /\ DOMAIN request[r].seen \subseteq Items
            /\ \A i \in DOMAIN request[r].seen :
                    request[r].seen[i].ticket = "done" /\ item[i] # "none"

ReadInv == \A r \in Requests : ReadOk(r)

\* What every step does to the rows.
KeepsItem(i) == ItemInv(i)' /\ (item[i] = "cancelled" => item'[i] = "cancelled")
RowStep ==
    /\ overwritten \subseteq overwritten'
    /\ \A i \in Items \ overwritten' : KeepsItem(i)
    /\ order' \in [Orders -> OrderRow]
    /\ \A i \in Items : /\ item[i] # "none" => item'[i] # "none"
                        /\ item'[i] = "none" <=> order'[OrderOf[i]].session = NoSession
                        /\ ticket'[i] # "none" => item'[i] # "none"
    /\ \A o \in Orders : order'[o].status = "cancelled" =>
            order[o].status = "cancelled" \/ \A i \in ItemsOf(o) : item'[i] = "cancelled"
    /\ \A i \in event' : i \in Items /\ item'[i] # "none"

LEMMA RowStepKeepsRows ==
    ASSUME RowInv, RowStep
    PROVE  RowInv'
<1>1. \A i \in Items \ overwritten' : ItemInv(i)'
  BY DEF RowStep, KeepsItem
<1>2. ASSUME NEW o \in Orders, order'[o].status = "cancelled",
             NEW i \in ItemsOf(o) \ overwritten'
      PROVE  item'[i] = "cancelled"
  <2>1. i \in Items \ overwritten
    BY <1>2 DEF ItemsOf, RowStep
  <2>2. CASE order[o].status = "cancelled"
    BY <1>2, <2>1, <2>2 DEF RowInv, RowStep, KeepsItem
  <2> QED
    BY <1>2, <2>2 DEF RowStep
<1>3. \A o \in Orders : ItemsOf(o)' = ItemsOf(o)
  BY DEF ItemsOf
<1> QED
  BY <1>1, <1>2, <1>3 DEF RowInv, RowStep

LEMMA RowsUntouched ==
    ASSUME RowInv, UNCHANGED <<order, item, ticket, event, waste, begun, overwritten>>
    PROVE  RowStep
  BY DEF RowInv, RowStep, KeepsItem, ItemInv

\* A status that is written by the transitions, over items that are in an order.
LEMMA WriteStatusKeepsItems ==
    ASSUME RowInv, NEW I \in SUBSET Items, NEW seen, NEW new, new \in {"cooking", "done", "served"},
           WriteStatus(I, seen, new), UNCHANGED waste,
           \A i \in I : item[i] # "none" /\ (seen[i] = Seen(i) /\ i \notin overwritten => item[i] # "cancelled")
    PROVE  /\ overwritten \subseteq overwritten'
           /\ \A i \in Items \ overwritten' : KeepsItem(i)
           /\ \A i \in Items : /\ item'[i] = "none" <=> item[i] = "none"
                               /\ ticket'[i] # "none" => item'[i] # "none"
<1>1. overwritten \subseteq overwritten'
  BY DEF WriteStatus
<1>2. ASSUME NEW i \in Items \ I
      PROVE  /\ item'[i] = item[i] /\ ticket'[i] = ticket[i] /\ waste'[i] = waste[i]
             /\ i \in begun' <=> i \in begun
  BY <1>2 DEF WriteStatus
<1>3. ASSUME NEW i \in I
      PROVE  item'[i] \in {item[i], new} /\ item'[i] # "none"
  BY <1>3 DEF WriteStatus, Written
<1>4. ASSUME NEW i \in I, i \notin overwritten'
      PROVE  KeepsItem(i)
  <2>1. seen[i] = Seen(i) /\ i \notin overwritten
    BY <1>4 DEF WriteStatus
  <2>2. seen[i].item = item[i] /\ seen[i].ticket = ticket[i]
    BY <2>1 DEF Seen
  <2>3. item'[i] = new /\ ticket'[i] \in {"none", new} /\ waste'[i] = waste[i]
    BY <1>4, <2>2 DEF WriteStatus, Written, RowInv, ItemInv
  <2>4. ItemInv(i) /\ item[i] # "cancelled"
    BY <1>4, <2>1 DEF RowInv
  <2> QED
    BY <2>3, <2>4 DEF KeepsItem, ItemInv
<1>5. ASSUME NEW i \in Items \ I, i \notin overwritten'
      PROVE  KeepsItem(i)
  BY <1>1, <1>2, <1>5 DEF KeepsItem, ItemInv, RowInv
<1> QED
  BY <1>1, <1>2, <1>3, <1>4, <1>5 DEF RowInv

\* A new order: its items are new.
LEMMA AddOrderIsRowStep ==
    ASSUME RowInv, NEW o \in Orders, NEW s \in Sessions, order[o].session = NoSession,
           AddOrder(o, s), UNCHANGED <<event, waste, begun, overwritten>>
    PROVE  RowStep
<1> USE OrderOfAssumption, NoneAssumption
<1>1. order' \in [Orders -> OrderRow] /\ order'[o].session = s /\ order'[o].status = "pending"
      /\ \A p \in Orders \ {o} : order'[p] = order[p]
  BY DEF AddOrder, RowInv, OrderRow
<1>2. ASSUME NEW i \in Items, OrderOf[i] = o
      PROVE  item[i] = "none" /\ item'[i] = "pending" /\ ticket'[i] \in {"none", "pending"}
  BY <1>2 DEF AddOrder, RowInv
<1>3. ASSUME NEW i \in Items, OrderOf[i] # o
      PROVE  UNCHANGED <<item[i], ticket[i]>>
  BY <1>3 DEF AddOrder, RowInv
<1>4. ASSUME NEW i \in Items \ overwritten'
      PROVE  KeepsItem(i)
  BY <1>2, <1>3, <1>4 DEF KeepsItem, RowInv, ItemInv
<1>5. ASSUME NEW i \in Items
      PROVE  /\ item[i] # "none" => item'[i] # "none"
             /\ item'[i] = "none" <=> order'[OrderOf[i]].session = NoSession
             /\ ticket'[i] # "none" => item'[i] # "none"
  BY <1>1, <1>2, <1>3, <1>5 DEF RowInv
<1> QED
  BY <1>1, <1>4, <1>5 DEF RowStep, RowInv

\* Items that are cancelled together, as they are.
LEMMA CancelIsRowStep ==
    ASSUME RowInv, NEW o \in Orders, NEW I \in SUBSET ItemsOf(o), NEW stages,
           Cancel(I, o, stages), UNCHANGED begun, overwritten \subseteq overwritten',
           \A i \in I \ overwritten' : item[i] \in stages
    PROVE  RowStep
<1> USE OrderOfAssumption
<1> DEFINE status == IF Active(o) \subseteq I THEN "cancelled" ELSE order[o].status
<1>v. order \in [Orders -> OrderRow] /\ status \in {"none", "pending", "cancelled"}
  BY DEF RowInv, OrderRow
<1>r. /\ order' = [p \in Orders |-> order'[p]]
      /\ \A p \in Orders \ {o} : order'[p] = order[p]
      /\ order'[o] = [session |-> order[o].session, status |-> status,
                      version |-> order[o].version + 1]
  <2> DEFINE row == [order[o] EXCEPT !.version = @ + 1]
  <2>1. row \in OrderRow /\ row.session = order[o].session /\ row.status = order[o].status
        /\ row.version = order[o].version + 1
    BY <1>v DEF OrderRow
  <2>2. order' = [[order EXCEPT ![o] = row] EXCEPT ![o] = [row EXCEPT !.status = status]]
    BY <1>v, <2>1 DEF Cancel
  <2> HIDE DEF row, status
  <2>3. [row EXCEPT !.status = status] = [session |-> order[o].session, status |-> status,
                                          version |-> order[o].version + 1]
    BY <2>1 DEF OrderRow
  <2> QED
    BY <1>v, <2>2, <2>3
<1> HIDE DEF status
<1>1. /\ order' \in [Orders -> OrderRow]
      /\ order'[o].session = order[o].session
      /\ order'[o].status = status
      /\ \A p \in Orders \ {o} : order'[p] = order[p]
  BY <1>v, <1>r DEF OrderRow
<1>2. ASSUME NEW i \in I
      PROVE  /\ i \in Items /\ item[i] # "none" /\ item'[i] = "cancelled" /\ ticket'[i] = "cancelled"
             /\ waste'[i] = IF Wasted(stages) THEN waste[i] + 1 ELSE waste[i]
  BY <1>2 DEF Cancel, RowInv, ItemsOf, WorkedOn
<1>3. ASSUME NEW i \in Items \ I
      PROVE  item'[i] = item[i] /\ ticket'[i] = ticket[i] /\ waste'[i] = waste[i]
  BY <1>3 DEF Cancel
<1>4. ASSUME NEW i \in I, i \notin overwritten'
      PROVE  KeepsItem(i)
  <2>1. item[i] \in stages /\ item[i] \in {"pending", "cooking", "done"}
    BY <1>4 DEF Cancel
  <2>2. ItemInv(i) /\ waste[i] = 0
    BY <1>2, <1>4, <2>1 DEF RowInv, ItemInv
  <2>3. i \in begun => Wasted(stages)
    BY <2>1, <2>2 DEF ItemInv, Wasted
  <2> QED
    BY <1>2, <1>4, <2>2, <2>3 DEF KeepsItem, ItemInv
<1>5. ASSUME NEW i \in Items \ I, i \notin overwritten'
      PROVE  KeepsItem(i)
  BY <1>3, <1>5 DEF KeepsItem, RowInv, ItemInv
<1>6. ASSUME NEW i \in Items
      PROVE  /\ item[i] # "none" => item'[i] # "none"
             /\ item'[i] = "none" <=> order'[OrderOf[i]].session = NoSession
             /\ ticket'[i] # "none" => item'[i] # "none"
  BY <1>1, <1>2, <1>3, <1>6 DEF RowInv, ItemsOf
<1>7. Active(o) \subseteq I => \A i \in ItemsOf(o) : item'[i] = "cancelled"
  BY <1>2, <1>3 DEF Active, ItemsOf
<1>8. \A i \in event' : i \in Items /\ item'[i] # "none"
  BY <1>2, <1>3 DEF Cancel, RowInv
<1> QED
  BY <1>1, <1>4, <1>5, <1>6, <1>7, <1>8 DEF RowStep, status

LEMMA ReopenIsRowStep ==
    ASSUME RowInv, NEW i \in Items, NEW o \in Orders, Reopen(i, o)
    PROVE  RowStep
<1>1. order[OrderOf[i]].session \in Sessions
  BY OrderOfAssumption DEF Reopen, RowInv, OrderRow
<1> QED
  BY <1>1, AddOrderIsRowStep DEF Reopen

\* Orders that change in their version at most.
VersionsOnly ==
    /\ order' \in [Orders -> OrderRow]
    /\ \A o \in Orders : order'[o].session = order[o].session /\ order'[o].status = order[o].status

LEMMA VersionWritten ==
    ASSUME RowInv, NEW o \in Orders, NEW v \in Nat, order' = [order EXCEPT ![o].version = v]
    PROVE  VersionsOnly
  BY DEF RowInv, OrderRow, VersionsOnly

\* Statuses written, and the version of their order.
LEMMA WriteStatusIsRowStep ==
    ASSUME RowInv, NEW I \in SUBSET Items, NEW seen, NEW new, new \in {"cooking", "done", "served"},
           WriteStatus(I, seen, new), UNCHANGED <<event, waste>>,
           \A i \in I : item[i] # "none" /\ (seen[i] = Seen(i) /\ i \notin overwritten => item[i] # "cancelled"),
           VersionsOnly
    PROVE  RowStep
<1>1. /\ overwritten \subseteq overwritten'
      /\ \A i \in Items \ overwritten' : KeepsItem(i)
      /\ \A i \in Items : /\ item'[i] = "none" <=> item[i] = "none"
                          /\ ticket'[i] # "none" => item'[i] # "none"
  <2>1. UNCHANGED waste
    OBVIOUS
  <2> QED
    BY <2>1, WriteStatusKeepsItems, SMTT(30)
<1>3. \A i \in Items : OrderOf[i] \in Orders
  BY OrderOfAssumption
<1> QED
  BY <1>1, <1>3 DEF RowStep, RowInv, VersionsOnly

LEMMA UpdateTicketIsRowStep ==
    ASSUME RowInv, ReadInv, NEW r \in Requests, NEW new \in Working, UpdateTicket(r, new)
    PROVE  RowStep
<1>1. PICK i \in Items : i = request[r].item
  BY DEF ReadInv, ReadOk, UpdateTicket
<1>o. OrderOf[i] \in Orders /\ order \in [Orders -> OrderRow]
  BY OrderOfAssumption DEF RowInv
<1>2. /\ Allowed(request[r].seen.ticket, new)
      /\ WorkedOn(OrderOf[i])
      /\ WriteStatus({i}, [j \in {i} |-> request[r].seen], new)
      /\ order' = [order EXCEPT ![OrderOf[i]].version = order[OrderOf[i]].version + 1]
      /\ UNCHANGED <<event, waste>>
  BY <1>1, Zenon DEF UpdateTicket
<1>3. new \in {"cooking", "done", "served"} /\ request[r].seen.ticket \in {"pending", "cooking", "done"}
  BY <1>2 DEF Allowed, Working, UpdateTicket
<1>4. item[i] # "none"
  BY <1>2 DEF WorkedOn, RowInv
<1>5. request[r].seen = Seen(i) /\ i \notin overwritten => item[i] # "cancelled"
  BY <1>3 DEF Seen, RowInv, ItemInv
<1>6. order[OrderOf[i]].version + 1 \in Nat
  BY <1>o DEF OrderRow
<1> DEFINE seen == [j \in {i} |-> request[r].seen]
<1>7. \A j \in {i} : item[j] # "none" /\ (seen[j] = Seen(j) /\ j \notin overwritten => item[j] # "cancelled")
  BY <1>4, <1>5
<1>8. VersionsOnly
  BY <1>o, <1>2, <1>6, VersionWritten
<1>9. /\ {i} \in SUBSET Items /\ new \in {"cooking", "done", "served"}
      /\ WriteStatus({i}, seen, new) /\ UNCHANGED <<event, waste>>
  BY <1>2, <1>3
<1> HIDE DEF seen
<1> QED
  BY <1>7, <1>8, <1>9, WriteStatusIsRowStep

LEMMA UpdateItemIsRowStep ==
    ASSUME RowInv, ReadInv, NEW r \in Requests, NEW new \in Working, UpdateItem(r, new)
    PROVE  RowStep
<1>1. PICK i \in Items : i = request[r].item
  BY DEF ReadInv, ReadOk, UpdateItem
<1>o. OrderOf[i] \in Orders
  BY OrderOfAssumption
<1> DEFINE read == [ticket |-> ticket[i], item |-> request[r].seen]
           seen == [j \in {i} |-> read]
<1>2. /\ Allowed(IF ticket[i] = "none" THEN request[r].seen ELSE ticket[i], new)
      /\ WriteStatus({i}, seen, new)
      /\ order' = [order EXCEPT ![OrderOf[i]].version = request[r].version + 1]
      /\ UNCHANGED <<event, waste>>
  BY <1>1, Zenon DEF UpdateItem
<1>3. item[i] # "none" /\ request[r].version + 1 \in Nat
  BY <1>1 DEF ReadInv, ReadOk, UpdateItem
<1>4. /\ new \in {"cooking", "done", "served"}
      /\ (IF ticket[i] = "none" THEN request[r].seen ELSE ticket[i]) \in {"pending", "cooking", "done"}
  BY <1>2 DEF Allowed, Working, UpdateItem
<1>5. read = Seen(i) /\ i \notin overwritten => item[i] # "cancelled"
  BY <1>4 DEF Seen, RowInv, ItemInv
<1>6. \A j \in {i} : item[j] # "none" /\ (seen[j] = Seen(j) /\ j \notin overwritten => item[j] # "cancelled")
  BY <1>3, <1>5
<1>7. VersionsOnly
  BY <1>o, <1>2, <1>3, VersionWritten
<1>8. /\ {i} \in SUBSET Items /\ new \in {"cooking", "done", "served"}
      /\ WriteStatus({i}, seen, new) /\ UNCHANGED <<event, waste>>
  BY <1>2, <1>4
<1> HIDE DEF seen, read
<1> QED
  BY <1>6, <1>7, <1>8, WriteStatusIsRowStep

LEMMA MarkServedIsRowStep ==
    ASSUME RowInv, ReadInv, NEW r \in Requests, MarkServed(r)
    PROVE  RowStep
<1> DEFINE seen == request[r].seen
           I == DOMAIN seen
<1>1. WriteStatus(I, seen, "served") /\ UNCHANGED <<order, event, waste>>
  BY DEF MarkServed
<1>2. I \subseteq Items /\ \A i \in I : seen[i].ticket = "done" /\ item[i] # "none"
  BY DEF ReadInv, ReadOk, MarkServed
<1>3. \A i \in I : seen[i] = Seen(i) /\ i \notin overwritten => item[i] # "cancelled"
  BY <1>2 DEF Seen, RowInv, ItemInv
<1>4. VersionsOnly
  BY <1>1 DEF VersionsOnly, RowInv
<1> QED
  BY <1>1, <1>2, <1>3, <1>4, WriteStatusIsRowStep

LEMMA CancellationIsRowStep ==
    ASSUME RowInv, ReadInv,
           (\E o \in Orders : CancelOrder(o)) \/ \E r \in Requests : CancelItem(r)
    PROVE  RowStep
<1>1. ASSUME NEW o \in Orders, CancelOrder(o)
      PROVE  RowStep
  <2> DEFINE I == Active(o)
             stages == {item[i] : i \in I}
  <2>1. Cancel(I, o, stages) /\ UNCHANGED <<begun, overwritten>>
    BY <1>1 DEF CancelOrder
  <2>2. I \in SUBSET ItemsOf(o) /\ overwritten \subseteq overwritten'
        /\ \A i \in I \ overwritten' : item[i] \in stages
    BY <2>1 DEF Active
  <2> HIDE DEF I, stages
  <2> QED
    BY <2>1, <2>2, CancelIsRowStep
<1>2. ASSUME NEW r \in Requests, CancelItem(r)
      PROVE  RowStep
  <2>1. PICK i \in Items : i = request[r].item
    BY <1>2 DEF ReadInv, ReadOk, CancelItem
  <2> DEFINE I == {i}
             stages == {request[r].seen}
             o == OrderOf[i]
  <2>2. /\ Cancel(I, o, stages) /\ UNCHANGED begun
        /\ overwritten' = IF request[r].seen = item[i] THEN overwritten ELSE overwritten \cup {i}
    BY <1>2, <2>1, Zenon DEF CancelItem
  <2>3. /\ I \in SUBSET ItemsOf(o) /\ o \in Orders /\ overwritten \subseteq overwritten'
        /\ \A j \in I \ overwritten' : item[j] \in stages
    BY <2>2, OrderOfAssumption DEF ItemsOf
  <2> HIDE DEF I, stages, o
  <2> QED
    BY <2>2, <2>3, CancelIsRowStep
<1> QED
  BY <1>1, <1>2

LEMMA PlacingIsRowStep ==
    ASSUME RowInv, ReadInv, SaleInv, NEW r \in Requests, PlaceOrder(r) \/ WapPlace(r)
    PROVE  RowStep
<1>1. request[r].order \in Orders /\ request[r].session \in Sessions
  BY WapAssumption DEF PlaceOrder, WapPlace, ReadInv, ReadOk, SaleInv, SaleShapes, Selling,
     InStep, WapKinds
<1>2. UNCHANGED <<event, waste, begun, overwritten>>
  BY DEF PlaceOrder, WapPlace
<1>3. CASE order[request[r].order].session = NoSession
  <2>1. AddOrder(request[r].order, request[r].session)
    BY <1>3 DEF PlaceOrder, WapPlace
  <2> QED
    BY <1>1, <1>2, <1>3, <2>1, AddOrderIsRowStep
<1>4. CASE order[request[r].order].session # NoSession
  <2>1. UNCHANGED <<order, item, ticket>>
    BY <1>4 DEF PlaceOrder, WapPlace
  <2> QED
    BY <1>2, <2>1, RowsUntouched
<1> QED
  BY <1>3, <1>4

LEMMA PrintIsRowStep ==
    ASSUME RowInv, NEW s \in Sessions, PrintKitchenSlip(s)
    PROVE  RowStep
<1> DEFINE missing == {i \in Billable(s) : ticket[i] = "none"}
<1>1. /\ ticket' = [i \in Items |-> IF i \in missing THEN "pending" ELSE ticket[i]]
      /\ overwritten' = overwritten \cup {i \in missing : item[i] # "pending"}
      /\ UNCHANGED <<order, item, event, waste, begun>>
  BY DEF PrintKitchenSlip
<1>2. \A i \in missing : i \in Items /\ item[i] # "none"
  <2>1. ASSUME NEW i \in missing
        PROVE  i \in Items /\ order[OrderOf[i]].session = s
    BY <2>1 DEF Billable, Active, ItemsOf, OrdersOf
  <2> QED
    BY <2>1, NoneAssumption DEF RowInv
<1> HIDE DEF missing
<1>3. ASSUME NEW i \in Items \ overwritten'
      PROVE  KeepsItem(i)
  BY <1>1, <1>3 DEF KeepsItem, RowInv, ItemInv
<1>4. \A i \in Items : ticket'[i] # "none" => item'[i] # "none"
  BY <1>1, <1>2 DEF RowInv
<1> QED
  BY <1>1, <1>3, <1>4 DEF RowStep, RowInv

\* A handler that does no other's reading: what the others have read stays good.
LEMMA OthersRead ==
    ASSUME ReadInv, RowStep, NEW r \in Requests, ReadOk(r)',
           \A q \in Requests \ {r} : request'[q] = request[q]
    PROVE  ReadInv'
<1>1. ASSUME NEW q \in Requests, q # r
      PROVE  ReadOk(q)'
  BY <1>1 DEF ReadInv, ReadOk, RowStep, InStep
<1> QED
  BY <1>1 DEF ReadInv

LEMMA LookReads ==
    ASSUME RowInv, ReadInv, SaleInv, NEW r \in Requests, Look(r)
    PROVE  RowStep /\ ReadInv'
<1>1. UNCHANGED <<order, item, ticket, event, waste, begun, overwritten>>
  BY DEF Look, LookToOrder, LookToPickUp, LookToCheckout, LookToCook, LookAtItem, LookToCancel,
     WapLookup, rowVars, historyVars
<1>2. RowStep
  BY <1>1, RowsUntouched
<1>r. request = [q \in Requests |-> request[q]]
  BY DEF SaleInv, SaleShapes
<1>3. ReadOk(r)'
  <2>1. CASE \E s \in Sessions, o \in Orders : LookToOrder(r, s, o)
    BY <1>r, <2>1 DEF LookToOrder, ReadOk, InStep
  <2>2. CASE \E s \in Sessions : LookToPickUp(r, s)
    <3>1. PICK s \in Sessions : LookToPickUp(r, s)
      BY <2>2
    <3> DEFINE ready == {i \in TicketsOf(s) : ticket[i] = "done"}
               seen == [i \in ready |-> Seen(i)]
    <3>2. request' = [request EXCEPT ![r] = [kind |-> "pickup", seen |-> seen]]
      BY <3>1 DEF LookToPickUp
    <3>3. DOMAIN seen \subseteq Items /\ \A i \in DOMAIN seen : seen[i].ticket = "done" /\ item[i] # "none"
      BY DEF TicketsOf, Seen, RowInv
    <3> HIDE DEF seen
    <3> QED
      BY <1>r, <1>1, <3>2, <3>3 DEF ReadOk, InStep
  <2>3. CASE \E s \in Sessions : LookToCheckout(r, s)
    <3>1. \E c : request'[r] = [kind |-> "checkout", session |-> c.session, bill |-> c.bill]
      <4>1. PICK s \in Sessions : LookToCheckout(r, s)
        BY <2>3
      <4> DEFINE b == [items |-> Billable(s), version |-> CartVersion(s)]
      <4>2. request' = [request EXCEPT ![r] = [kind |-> "checkout", session |-> s, bill |-> b]]
        BY <4>1 DEF LookToCheckout
      <4> HIDE DEF b
      <4>3. request'[r] = [kind |-> "checkout", session |-> s, bill |-> b]
        BY <1>r, <4>2
      <4> WITNESS [session |-> s, bill |-> b]
      <4> QED
        BY <4>3
    <3>2. request'[r].kind = "checkout"
      BY <3>1
    <3> QED
      BY <3>2 DEF ReadOk, InStep
  <2>4. CASE \E i \in Items : LookToCook(r, i)
    BY <1>r, <2>4 DEF LookToCook, ReadOk, InStep
  <2>5. CASE \E i \in Items : LookAtItem(r, i)
    <3>1. PICK i \in Items : LookAtItem(r, i)
      BY <2>5
    <3>2. order[OrderOf[i]].version \in Nat /\ item[i] # "none"
      BY <3>1, OrderOfAssumption DEF LookAtItem, RowInv, OrderRow
    <3>3. request'[r] = [kind |-> "item", item |-> i, seen |-> item[i],
                         version |-> order[OrderOf[i]].version]
      BY <1>r, <3>1 DEF LookAtItem
    <3> QED
      BY <1>1, <3>2, <3>3 DEF ReadOk, InStep
  <2>6. CASE \E i \in Items : LookToCancel(r, i)
    BY <1>r, <2>6 DEF LookToCancel, ReadOk, InStep
  <2>7. CASE \E o \in WapOrders : WapLookup(r, o)
    BY <1>r, <2>7 DEF WapLookup, ReadOk, InStep
  <2> QED
    BY <2>1, <2>2, <2>3, <2>4, <2>5, <2>6, <2>7 DEF Look
<1> QED
  BY <1>2, <1>3, OwnSlot, OthersRead

LEMMA WriteReads ==
    ASSUME RowInv, ReadInv, SaleInv, NEW r \in Requests, Write(r)
    PROVE  RowStep /\ ReadInv'
<1>r. request = [q \in Requests |-> request[q]]
  BY DEF SaleInv, SaleShapes
<1>f. Finish(r) => ReadOk(r)'
  BY <1>r DEF Finish, ReadOk, InStep
<1>1. ASSUME RowStep, ReadOk(r)'
      PROVE  RowStep /\ ReadInv'
  BY <1>1, OwnSlot, OthersRead
<1>2. CASE \E new \in Working : UpdateTicket(r, new) \/ UpdateItem(r, new)
  BY <1>f, <1>1, <1>2, UpdateTicketIsRowStep, UpdateItemIsRowStep DEF UpdateTicket, UpdateItem
<1>3. CASE MarkServed(r)
  BY <1>f, <1>1, <1>3, MarkServedIsRowStep DEF MarkServed
<1>4. CASE CancelItem(r)
  BY <1>f, <1>1, <1>4, CancellationIsRowStep DEF CancelItem
<1>5. CASE PlaceOrder(r)
  BY <1>f, <1>1, <1>5, PlacingIsRowStep DEF PlaceOrder
<1>6. CASE WapPlace(r)
  <2>1. request[r] \in [kind : WapKinds, order : WapOrders, session : Sessions \cup {NoSession}]
    BY <1>6 DEF WapPlace, SaleInv, SaleShapes, Selling, InStep, WapKinds
  <2>2. request'[r].kind = "wap_pay"
    BY <1>r, <1>6, <2>1 DEF WapPlace
  <2> QED
    BY <1>1, <1>6, <2>2, PlacingIsRowStep DEF ReadOk, InStep
<1>7. CASE CloseSold(r) \/ WapLink(r) \/ Abort(r)
  <2>1. Finish(r) /\ UNCHANGED <<order, item, ticket, event, waste, begun, overwritten>>
    BY <1>7 DEF CloseSold, WapLink, Abort, rowVars, historyVars
  <2> QED
    BY <1>f, <1>1, <2>1, RowsUntouched
<1>8. CASE PayBill(r)
  <2>1. request'[r].kind = "close"
    BY <1>r, <1>8 DEF PayBill, SaleInv, SaleShapes
  <2>2. UNCHANGED <<order, item, ticket, event, waste, begun, overwritten>>
    BY <1>8 DEF PayBill, rowVars
  <2> QED
    BY <1>1, <2>1, <2>2, RowsUntouched DEF ReadOk, InStep
<1>9. CASE WapPay(r) \/ \E s \in Sessions : WapOpen(r, s)
  <2>1. request[r] \in [kind : WapKinds, order : WapOrders, session : Sessions \cup {NoSession}]
    BY <1>9 DEF WapPay, WapOpen, SaleInv, SaleShapes, Selling, InStep, WapKinds
  <2>2. CASE WapPay(r)
    <3>1. request'[r].kind = "wap_link"
      BY <1>r, <2>1, <2>2 DEF WapPay
    <3>2. UNCHANGED <<order, item, ticket, event, waste, begun, overwritten>>
      BY <2>2 DEF WapPay, rowVars
    <3> QED
      BY <1>1, <3>1, <3>2, RowsUntouched DEF ReadOk, InStep
  <2>3. CASE \E s \in Sessions : WapOpen(r, s)
    <3>1. request'[r].kind = "wap_place" /\ request'[r].session \in Sessions
      <4>1. PICK s \in Sessions : WapOpen(r, s)
        BY <2>3
      <4>2. request' = [request EXCEPT ![r] = [@ EXCEPT !.kind = "wap_place", !.session = s]]
        BY <4>1 DEF WapOpen
      <4>3. request'[r] = [kind |-> "wap_place", order |-> request[r].order, session |-> s]
        BY <1>r, <2>1, <4>2
      <4> QED
        BY <4>3
    <3>2. UNCHANGED <<order, item, ticket, event, waste, begun, overwritten>>
      BY <2>3 DEF WapOpen, historyVars
    <3> QED
      BY <1>1, <3>1, <3>2, RowsUntouched DEF ReadOk, InStep
  <2> QED
    BY <1>9, <2>2, <2>3
<1> QED
  BY <1>2, <1>3, <1>4, <1>5, <1>6, <1>7, <1>8, <1>9 DEF Write

DiningInv == SaleInv /\ RowInv /\ ReadInv

LEMMA DiningInvHoldsAtFirst == Init => DiningInv
<1> SUFFICES ASSUME Init PROVE RowInv /\ ReadInv
  BY SaleInvHoldsAtFirst DEF DiningInv
<1>1. order \in [Orders -> OrderRow]
  BY DEF Init, OrderRow
<1>2. \A i \in Items : /\ item[i] = "none" /\ order[OrderOf[i]].session = NoSession
                      /\ ticket[i] = "none" /\ waste[i] = 0
  BY OrderOfAssumption DEF Init
<1>3. begun = {} /\ event = {} /\ \A o \in Orders : order[o].status # "cancelled"
  BY DEF Init
<1>4. RowInv
  BY <1>1, <1>2, <1>3 DEF RowInv, ItemInv
<1>5. ReadInv
  BY DEF Init, ReadInv, ReadOk, InStep
<1> QED
  BY <1>4, <1>5

LEMMA DiningInvIsInductive ==
    ASSUME DiningInv, [Next]_vars
    PROVE  DiningInv' /\ RowStep
<1>1. SaleInv'
  BY DiningKeepsSales DEF DiningInv
<1>2. ASSUME RowStep, UNCHANGED request
      PROVE  RowStep /\ ReadInv'
  BY <1>2 DEF DiningInv, ReadInv, ReadOk, RowStep, InStep
<1>3. RowStep /\ ReadInv'
  <2>1. CASE UNCHANGED vars
    BY <1>2, <2>1, RowsUntouched DEF vars, rowVars, historyVars, DiningInv
  <2>2. CASE \E r \in Requests : Look(r) \/ Write(r)
    BY <2>2, LookReads, WriteReads DEF DiningInv
  <2>3. CASE \E o \in Orders : CancelOrder(o)
    BY <1>2, <2>3, CancellationIsRowStep DEF DiningInv, CancelOrder
  <2>4. CASE \E i \in Items, o \in Orders : Reopen(i, o)
    BY <1>2, <2>4, ReopenIsRowStep DEF DiningInv, Reopen
  <2>5. ASSUME NEW s \in Sessions, SessionStep(s)
        PROVE  RowStep /\ ReadInv'
    <3>1. CASE PrintKitchenSlip(s)
      BY <1>2, <3>1, PrintIsRowStep DEF DiningInv, PrintKitchenSlip
    <3>2. CASE (\E quick \in BOOLEAN : OpenSession(s, quick)) \/ RequestBill(s) \/ CloseSession(s)
      <4>1. UNCHANGED <<order, item, ticket, event, waste, begun, overwritten, request>>
        BY <3>2 DEF OpenSession, RequestBill, CloseSession, historyVars
      <4> QED
        BY <1>2, <4>1, RowsUntouched DEF DiningInv
    <3> QED
      BY <2>5, <3>1, <3>2 DEF SessionStep
  <2> QED
    BY <2>1, <2>2, <2>3, <2>4, <2>5 DEF Next
<1>4. RowInv'
  BY <1>3, RowStepKeepsRows DEF DiningInv
<1> QED
  BY <1>1, <1>3, <1>4 DEF DiningInv

LEMMA DiningInvHolds == Spec => []DiningInv
<1>1. DiningInv /\ [Next]_vars => DiningInv'
  BY DiningInvIsInductive
<1> QED
  BY <1>1, DiningInvHoldsAtFirst, PTL DEF Spec

\* Kitchen and bill see the same dish, however the handlers of kitchen, waiter, cancellation
\* and slip interleave, unless one of them wrote over a change it had not read.
THEOREM TicketsFollowItems == Spec => []TicketFollowsItem
<1>1. DiningInv => TicketFollowsItem
  BY DEF DiningInv, RowInv, ItemInv, TicketFollowsItem
<1> QED
  BY <1>1, DiningInvHolds, PTL

\* Cancelled food is written off once if the kitchen had begun it, and never otherwise.
THEOREM CancelledFoodIsWastedOnce == Spec => []WastedOnce
<1>1. DiningInv => WastedOnce
  BY DEF DiningInv, RowInv, ItemInv, WastedOnce
<1> QED
  BY <1>1, DiningInvHolds, PTL

\* A cancelled item stays cancelled, unless a handler that had read it before writes it.
THEOREM CancelledStaysCancelled == Spec => CancelledIsFinal
<1>1. DiningInv /\ [Next]_vars =>
        [\A i \in Items : item[i] = "cancelled" /\ item'[i] # "cancelled" => i \in overwritten']_vars
  BY DiningInvIsInductive DEF RowStep, KeepsItem
<1> QED
  BY <1>1, DiningInvHolds, PTL DEF Spec, CancelledIsFinal

--------------------------------------------------------------------------------
(* Tables and their bills *)

\* The items I are what is not cancelled of session s, but for what came between.
Reads(s, I) == \A i \in Items \ (overwritten \cup overtaken) :
    order[OrderOf[i]].session = s => (i \in I <=> item[i] # "cancelled")

OfSession(s, I) == \A i \in I : i \in Items /\ order[OrderOf[i]].session = s

BillInv ==
    /\ bill = [s \in Sessions |-> bill[s]]
    /\ \A s \in Sessions :
        /\ session[s].sale = "table" => bill[s] # NoBill
        /\ bill[s] # NoBill => Reads(s, bill[s].items)
        /\ OfSession(s, bill[s].items)
    /\ \A r \in Requests : InStep(r, "checkout") =>
        /\ request[r].session \in Sessions /\ request[r].bill # NoBill
        /\ Reads(request[r].session, request[r].bill.items)
        /\ OfSession(request[r].session, request[r].bill.items)
    /\ \A r \in Requests : InStep(r, "close") =>
        request[r].session \in Sessions /\ bill[request[r].session] # NoBill

\* What every step does to a session that is checked out.
BillStep ==
    /\ overwritten \cup overtaken \subseteq overwritten' \cup overtaken'
    /\ \A o \in Orders : order[o].session # NoSession => order'[o].session = order[o].session
    /\ \A s \in Sessions, i \in Items \ (overwritten' \cup overtaken') :
        InCheckout(s) /\ order'[OrderOf[i]].session = s =>
            order[OrderOf[i]].session = s /\ (item'[i] = "cancelled" <=> item[i] = "cancelled")

\* Steps that neither read a bill, nor sell one, nor close a session with it.
Quiet ==
    /\ bill' = bill
    /\ \A q \in Requests : InStep(q, "checkout")' \/ InStep(q, "close")' => request'[q] = request[q]
    /\ \A s \in Sessions : session'[s].sale = "table" => session[s].sale = "table"

LEMMA ReadsStay ==
    ASSUME BillStep, NEW s \in Sessions, InCheckout(s), NEW I
    PROVE  /\ Reads(s, I) => Reads(s, I)'
           /\ OfSession(s, I) => OfSession(s, I)'
<1>1. OfSession(s, I) => OfSession(s, I)'
  BY OrderOfAssumption, NoneAssumption DEF OfSession, BillStep
<1>2. Reads(s, I) => Reads(s, I)'
  BY DEF Reads, BillStep
<1> QED
  BY <1>1, <1>2

LEMMA QuietKeepsBills ==
    ASSUME BillInv, BillStep, Quiet
    PROVE  BillInv'
<1>1. ASSUME NEW s \in Sessions
      PROVE  /\ session'[s].sale = "table" => bill'[s] # NoBill
             /\ bill'[s] # NoBill => Reads(s, bill[s].items)'
             /\ OfSession(s, bill[s].items)'
  <2>1. bill'[s] = bill[s]
    BY DEF Quiet
  <2>2. CASE bill[s] = NoBill
    BY <2>1, <2>2 DEF BillInv, Quiet, OfSession, NoBill
  <2>3. CASE bill[s] # NoBill
    <3>1. InCheckout(s) /\ Reads(s, bill[s].items) /\ OfSession(s, bill[s].items)
      BY <2>3 DEF InCheckout, BillInv
    <3> DEFINE I == bill[s].items
    <3>2. PICK J \in {I} : TRUE
      OBVIOUS
    <3>3. Reads(s, J)' /\ OfSession(s, J)'
      BY <3>1, <3>2, ReadsStay
    <3> QED
      BY <2>1, <2>3, <3>2, <3>3 DEF BillInv, Quiet, Reads, OfSession
  <2> QED
    BY <2>2, <2>3
<1>2. ASSUME NEW r \in Requests, InStep(r, "checkout")'
      PROVE  /\ request'[r].session \in Sessions /\ request'[r].bill # NoBill
             /\ Reads(request[r].session, request[r].bill.items)'
             /\ OfSession(request[r].session, request[r].bill.items)'
  <2>1. request'[r] = request[r] /\ InStep(r, "checkout")
    BY <1>2 DEF Quiet, InStep
  <2>2. PICK s \in Sessions, I \in {request[r].bill.items} : s = request[r].session
    BY <2>1 DEF BillInv
  <2>3. InCheckout(s) /\ Reads(s, I) /\ OfSession(s, I)
    BY <2>1, <2>2 DEF InCheckout, BillInv
  <2>4. Reads(s, I)' /\ OfSession(s, I)'
    BY <2>3, ReadsStay
  <2> QED
    BY <2>1, <2>2, <2>4 DEF BillInv, Reads, OfSession
<1>3. ASSUME NEW r \in Requests, InStep(r, "close")'
      PROVE  request'[r].session \in Sessions /\ bill'[request'[r].session] # NoBill
  BY <1>3 DEF Quiet, BillInv, InStep
<1> QED
  BY <1>1, <1>2, <1>3 DEF BillInv, Quiet

LEMMA NothingToBill ==
    ASSUME UNCHANGED <<order, item, overwritten, overtaken>>
    PROVE  BillStep
  BY DEF BillStep

\* Work of the kitchen does not cancel.
LEMMA WorkIsBillStep ==
    ASSUME RowInv, RowStep, NEW I, NEW seen, NEW new, new \in {"cooking", "done", "served"},
           WriteStatus(I, seen, new), UNCHANGED overtaken,
           \A o \in Orders : order'[o].session = order[o].session
    PROVE  BillStep
<1>1. ASSUME NEW i \in Items
      PROVE  item'[i] \in {item[i], new}
  BY <1>1 DEF WriteStatus, Written
<1>2. ASSUME NEW i \in Items \ overwritten'
      PROVE  item'[i] = "cancelled" <=> item[i] = "cancelled"
  BY <1>1, <1>2 DEF RowStep, KeepsItem
<1>3. overwritten \subseteq overwritten'
  BY DEF WriteStatus
<1> QED
  BY <1>2, <1>3, OrderOfAssumption DEF BillStep

LEMMA AddOrderIsBillStep ==
    ASSUME RowInv, NEW o \in Orders, NEW s \in Sessions, order[o].session = NoSession,
           AddOrder(o, s), UNCHANGED overwritten
    PROVE  BillStep
<1>1. /\ order'[o].session = s
      /\ \A p \in Orders \ {o} : order'[p] = order[p]
  BY DEF AddOrder, RowInv
<1>2. \A i \in Items : OrderOf[i] # o => item'[i] = item[i]
  BY DEF AddOrder
<1>3. overtaken' = IF InCheckout(s) THEN overtaken \cup ItemsOf(o) ELSE overtaken
  BY DEF AddOrder
<1>4. ASSUME NEW t \in Sessions, InCheckout(t), NEW i \in Items \ (overwritten' \cup overtaken'),
             order'[OrderOf[i]].session = t
      PROVE  order[OrderOf[i]].session = t /\ item'[i] = item[i]
  <2>1. CASE OrderOf[i] = o
    BY <1>1, <1>3, <1>4, <2>1 DEF ItemsOf
  <2>2. CASE OrderOf[i] # o
    BY <1>1, <1>2, <1>4, <2>2, OrderOfAssumption
  <2> QED
    BY <2>1, <2>2
<1> QED
  BY <1>1, <1>3, <1>4 DEF BillStep

LEMMA CancelIsBillStep ==
    ASSUME RowInv, NEW o \in Orders, NEW I \in SUBSET ItemsOf(o), NEW stages,
           Cancel(I, o, stages), overwritten \subseteq overwritten'
    PROVE  BillStep
<1>1. \A p \in Orders : order'[p].session = order[p].session
  <2>1. order[o] \in OrderRow /\ \A p \in Orders \ {o} : order'[p] = order[p]
    BY DEF Cancel, RowInv
  <2>2. order'[o].session = order[o].session
    BY <2>1 DEF Cancel, RowInv, OrderRow
  <2> QED
    BY <2>1, <2>2
<1>2. \A i \in Items \ I : item'[i] = item[i]
  BY DEF Cancel
<1>3. overtaken' = IF InCheckout(order[o].session) THEN overtaken \cup I ELSE overtaken
  BY DEF Cancel
<1>4. ASSUME NEW t \in Sessions, InCheckout(t), NEW i \in Items \ (overwritten' \cup overtaken'),
             order'[OrderOf[i]].session = t
      PROVE  order[OrderOf[i]].session = t /\ item'[i] = item[i]
  <2>1. order[OrderOf[i]].session = t
    BY <1>1, <1>4, OrderOfAssumption
  <2>2. i \notin I
    BY <1>3, <1>4, <2>1 DEF ItemsOf
  <2> QED
    BY <1>2, <2>1, <2>2
<1> QED
  BY <1>1, <1>3, <1>4 DEF BillStep

\* A handler that ends, or goes on with something else than a checkout.
LEMMA QuietSlot ==
    ASSUME NEW r \in Requests, UNCHANGED bill,
           \A q \in Requests \ {r} : request'[q] = request[q],
           request'[r] = Idle \/ request'[r].kind \notin {"checkout", "close"},
           \A s \in Sessions : session'[s].sale = "table" => session[s].sale = "table"
    PROVE  Quiet
  BY DEF Quiet, InStep

LEMMA KitchenIsBillStep ==
    ASSUME RowInv, RowStep, NEW r \in Requests,
           MarkServed(r) \/ \E new \in Working : UpdateTicket(r, new) \/ UpdateItem(r, new)
    PROVE  BillStep
<1>v. ASSUME NEW o, NEW v, order' = [order EXCEPT ![o].version = v]
      PROVE  \A p \in Orders : order'[p].session = order[p].session
  BY <1>v DEF RowInv, OrderRow
<1>1. CASE MarkServed(r)
  BY <1>1, WorkIsBillStep DEF MarkServed
<1>2. ASSUME NEW new \in Working, UpdateTicket(r, new)
      PROVE  BillStep
  <2> DEFINE seen == [j \in {request[r].item} |-> request[r].seen]
  <2>1. /\ WriteStatus({request[r].item}, seen, new) /\ UNCHANGED overtaken
        /\ Allowed(request[r].seen.ticket, new) /\ new # "cancelled"
    BY <1>2 DEF UpdateTicket
  <2>2. new \in {"cooking", "done", "served"}
    BY <2>1 DEF Allowed
  <2>3. \A p \in Orders : order'[p].session = order[p].session
    BY <1>2, <1>v DEF UpdateTicket
  <2> HIDE DEF seen
  <2> QED
    BY <2>1, <2>2, <2>3, WorkIsBillStep
<1>3. ASSUME NEW new \in Working, UpdateItem(r, new)
      PROVE  BillStep
  <2> DEFINE read == [ticket |-> ticket[request[r].item], item |-> request[r].seen]
             decides == IF ticket[request[r].item] = "none" THEN request[r].seen
                        ELSE ticket[request[r].item]
             seen == [j \in {request[r].item} |-> read]
  <2>1. /\ WriteStatus({request[r].item}, seen, new) /\ UNCHANGED overtaken
        /\ Allowed(decides, new) /\ new # "cancelled"
    BY <1>3 DEF UpdateItem
  <2> HIDE DEF seen, decides
  <2>2. new \in {"cooking", "done", "served"}
    BY <2>1 DEF Allowed
  <2>3. \A p \in Orders : order'[p].session = order[p].session
    BY <1>3, <1>v DEF UpdateItem
  <2> QED
    BY <2>1, <2>2, <2>3, WorkIsBillStep
<1> QED
  BY <1>1, <1>2, <1>3

LEMMA NextIsBillStep ==
    ASSUME DiningInv, Next
    PROVE  BillStep
<1>i. RowInv /\ RowStep /\ ReadInv /\ SaleInv
  BY DiningInvIsInductive DEF DiningInv
<1>1. CASE \E s \in Sessions : SessionStep(s)
  <2>1. order' = order /\ item' = item /\ overtaken' = overtaken /\ overwritten \subseteq overwritten'
    BY <1>1 DEF SessionStep, OpenSession, RequestBill, CloseSession, PrintKitchenSlip, historyVars
  <2> QED
    BY <2>1 DEF BillStep
<1>2. CASE \E r \in Requests : Look(r)
  BY <1>2, NothingToBill DEF Look, LookToOrder, LookToPickUp, LookToCheckout, LookToCook,
     LookAtItem, LookToCancel, WapLookup, rowVars, historyVars
<1>3. ASSUME NEW r \in Requests, PlaceOrder(r) \/ WapPlace(r)
      PROVE  BillStep
  <2>1. request[r].order \in Orders /\ request[r].session \in Sessions
    BY <1>i, <1>3, WapAssumption DEF PlaceOrder, WapPlace, ReadInv, ReadOk, SaleInv, SaleShapes,
       Selling, InStep, WapKinds
  <2>2. \/ UNCHANGED <<order, item, overwritten, overtaken>>
        \/ /\ order[request[r].order].session = NoSession
           /\ AddOrder(request[r].order, request[r].session) /\ UNCHANGED overwritten
    BY <1>3 DEF PlaceOrder, WapPlace
  <2> QED
    BY <1>i, <2>1, <2>2, NothingToBill, AddOrderIsBillStep
<1>4. ASSUME NEW i \in Items, NEW o \in Orders, Reopen(i, o)
      PROVE  BillStep
  <2>1. order[OrderOf[i]].session \in Sessions
    BY <1>i, <1>4, OrderOfAssumption DEF Reopen, RowInv, OrderRow
  <2> QED
    BY <1>i, <1>4, <2>1, AddOrderIsBillStep DEF Reopen
<1>5. ASSUME NEW o \in Orders, CancelOrder(o)
      PROVE  BillStep
  <2> DEFINE I == Active(o)
             stages == {item[i] : i \in I}
  <2>1. Cancel(I, o, stages) /\ I \in SUBSET ItemsOf(o) /\ overwritten \subseteq overwritten'
    BY <1>5 DEF CancelOrder, Active
  <2> HIDE DEF I, stages
  <2> QED
    BY <1>i, <2>1, CancelIsBillStep
<1>6. ASSUME NEW r \in Requests, CancelItem(r)
      PROVE  BillStep
  <2> DEFINE I == {request[r].item}
             stages == {request[r].seen}
             o == OrderOf[request[r].item]
  <2>1. request[r].item \in Items
    BY <1>i, <1>6 DEF ReadInv, ReadOk, CancelItem
  <2>2. /\ Cancel(I, o, stages) /\ I \in SUBSET ItemsOf(o) /\ o \in Orders
        /\ overwritten \subseteq overwritten'
    BY <1>6, <2>1, OrderOfAssumption DEF CancelItem, ItemsOf
  <2> HIDE DEF I, stages, o
  <2> QED
    BY <1>i, <2>2, CancelIsBillStep
<1>7. ASSUME NEW r \in Requests,
             PayBill(r) \/ CloseSold(r) \/ (\E s \in Sessions : WapOpen(r, s)) \/ WapPay(r)
             \/ WapLink(r) \/ Abort(r)
      PROVE  BillStep
  BY <1>7, NothingToBill DEF PayBill, CloseSold, WapOpen, WapPay, WapLink, Abort, rowVars, historyVars
<1>8. ASSUME NEW r \in Requests,
             MarkServed(r) \/ \E new \in Working : UpdateTicket(r, new) \/ UpdateItem(r, new)
      PROVE  BillStep
  BY <1>i, <1>8, KitchenIsBillStep
<1>9. ASSUME NEW r \in Requests, Write(r)
      PROVE  BillStep
  BY <1>3, <1>6, <1>7, <1>8, <1>9 DEF Write
<1> QED
  BY <1>1, <1>2, <1>4, <1>5, <1>9 DEF Next

\* The steps of a checkout.
BillStage(r) == (\E s \in Sessions : LookToCheckout(r, s)) \/ PayBill(r) \/ CloseSold(r)

\* Handlers that are no part of a checkout leave the bills alone.
LEMMA LookIsQuiet ==
    ASSUME SaleInv, NEW r \in Requests, Look(r), ~BillStage(r)
    PROVE  Quiet /\ UNCHANGED <<billed, paid>>
<1>1. \A q \in Requests \ {r} : request'[q] = request[q]
  BY OwnSlot
<1>2. UNCHANGED <<session, bill, billed, paid>>
  BY LookKeepsSales DEF Look, BillStage, LookToOrder, LookToPickUp, LookToCook, LookAtItem,
     LookToCancel, WapLookup, rowVars, historyVars
<1>3. request = [q \in Requests |-> request[q]]
  BY DEF SaleInv, SaleShapes
<1>4. request'[r].kind \notin {"checkout", "close"}
  <2>1. CASE \E s \in Sessions : LookToPickUp(r, s)
    <3>1. PICK s \in Sessions : LookToPickUp(r, s)
      BY <2>1
    <3> DEFINE seen == [i \in {j \in TicketsOf(s) : ticket[j] = "done"} |-> Seen(i)]
    <3>2. request' = [request EXCEPT ![r] = [kind |-> "pickup", seen |-> seen]]
      BY <3>1 DEF LookToPickUp
    <3> HIDE DEF seen
    <3> QED
      BY <1>3, <3>2
  <2>2. CASE \/ \E s \in Sessions, o \in Orders : LookToOrder(r, s, o)
             \/ \E i \in Items : LookToCook(r, i) \/ LookAtItem(r, i) \/ LookToCancel(r, i)
             \/ \E o \in WapOrders : WapLookup(r, o)
    BY <1>3, <2>2 DEF LookToOrder, LookToCook, LookAtItem, LookToCancel, WapLookup
  <2> QED
    BY <2>1, <2>2 DEF Look, BillStage
<1> QED
  BY <1>1, <1>2, <1>4, QuietSlot

LEMMA WriteIsQuiet ==
    ASSUME SaleInv, NEW r \in Requests, Write(r), ~BillStage(r)
    PROVE  Quiet /\ (UNCHANGED <<billed, paid>> \/ WapPay(r))
<1>1. \A q \in Requests \ {r} : request'[q] = request[q]
  BY OwnSlot
<1>2. UNCHANGED bill /\ (UNCHANGED <<billed, paid>> \/ WapPay(r))
  BY DEF Write, BillStage, PlaceOrder, MarkServed, CancelItem, UpdateTicket, UpdateItem, WapOpen,
     WapPlace, WapPay, WapLink, Abort, rowVars, historyVars
<1>3. /\ request = [q \in Requests |-> request[q]]
      /\ session \in [Sessions -> SessionRow]
  BY DEF SaleInv, SaleShapes
<1>4. request'[r] = Idle \/ request'[r].kind \notin {"checkout", "close"}
  <2>1. CASE \/ PlaceOrder(r) \/ MarkServed(r) \/ CancelItem(r) \/ WapLink(r) \/ Abort(r)
             \/ \E new \in Working : UpdateTicket(r, new) \/ UpdateItem(r, new)
    <3>1. Finish(r)
      BY <2>1 DEF PlaceOrder, MarkServed, CancelItem, WapLink, Abort, UpdateTicket, UpdateItem
    <3> QED
      BY <1>3, <3>1 DEF Finish
  <2>2. CASE WapPlace(r) \/ WapPay(r)
    BY <1>3, <2>2 DEF WapPlace, WapPay, SaleInv, SaleShapes, Selling, InStep, WapKinds
  <2>3. ASSUME NEW s \in Sessions, WapOpen(r, s)
        PROVE  request'[r].kind = "wap_place"
    <3>1. /\ InStep(r, "wap_open")
          /\ request' = [request EXCEPT ![r] = [@ EXCEPT !.kind = "wap_place", !.session = s]]
      BY <2>3 DEF WapOpen
    <3>2. request[r] \in [kind : WapKinds, order : WapOrders, session : Sessions \cup {NoSession}]
      BY <3>1 DEF SaleInv, SaleShapes, Selling, InStep, WapKinds
    <3> QED
      BY <1>3, <3>1, <3>2
  <2> QED
    BY <2>1, <2>2, <2>3 DEF Write, BillStage
<1>5. \A s \in Sessions : session'[s].sale = "table" => session[s].sale = "table"
  <2>1. ASSUME NEW s \in Sessions, WapOpen(r, s)
        PROVE  \A t \in Sessions : session'[t].sale \in {"none", session[t].sale}
    BY <1>3, <2>1 DEF WapOpen, SessionRow
  <2>2. CASE WapLink(r)
    <3>1. request[r].order \in WapOrders
      BY <2>2 DEF WapLink, SaleInv, SaleShapes, Selling, InStep, WapKinds
    <3>2. \A s \in Sessions : session'[s].sale \in {request[r].order, session[s].sale}
      BY <1>3, <2>2 DEF WapLink, SessionRow
    <3> QED
      BY <3>1, <3>2, WapAssumption
  <2>3. CASE UNCHANGED session
    BY <2>3
  <2>4. UNCHANGED session \/ (\E s \in Sessions : WapOpen(r, s)) \/ WapLink(r)
    BY DEF Write, BillStage, PlaceOrder, MarkServed, CancelItem, UpdateTicket, UpdateItem, WapPlace,
       WapPay, Abort, rowVars
  <2> QED
    BY <2>1, <2>2, <2>3, <2>4
<1> QED
  BY <1>1, <1>2, <1>4, <1>5, QuietSlot

LEMMA OthersAreQuiet ==
    ASSUME SaleInv, Next, ~\E r \in Requests : BillStage(r)
    PROVE  Quiet /\ (UNCHANGED <<billed, paid>> \/ \E r \in Requests : WapPay(r))
<1>1. CASE \E r \in Requests : Look(r) \/ Write(r)
  BY <1>1, LookIsQuiet, WriteIsQuiet
<1>2. CASE (\E o \in Orders : CancelOrder(o)) \/ \E i \in Items, o \in Orders : Reopen(i, o)
  BY <1>2 DEF CancelOrder, Reopen, Quiet
<1>3. ASSUME NEW s \in Sessions, SessionStep(s)
      PROVE  Quiet /\ UNCHANGED <<billed, paid>>
  <2>1. UNCHANGED <<request, bill, billed, paid>>
    BY <1>3 DEF SessionStep, OpenSession, RequestBill, CloseSession, PrintKitchenSlip, historyVars
  <2>2. \A t \in Sessions : session'[t].sale \in {"none", session[t].sale}
    BY <1>3 DEF SaleInv, SaleShapes, SessionRow, SessionStep, OpenSession, RequestBill,
       CloseSession, PrintKitchenSlip
  <2> QED
    BY <2>1, <2>2 DEF Quiet
<1> QED
  BY <1>1, <1>2, <1>3 DEF Next

\* What a checkout reads is what is on the tables.
LEMMA BillableIsRead ==
    ASSUME RowInv, NEW s \in Sessions
    PROVE  Reads(s, Billable(s)) /\ OfSession(s, Billable(s))
<1>1. \A i \in Items : i \in Billable(s) <=>
        /\ order[OrderOf[i]].session = s /\ order[OrderOf[i]].status # "cancelled"
        /\ item[i] # "cancelled"
  BY OrderOfAssumption DEF Billable, Active, ItemsOf, OrdersOf
<1>2. \A i \in Items \ overwritten : order[OrderOf[i]].status = "cancelled" => item[i] = "cancelled"
  BY OrderOfAssumption DEF RowInv, ItemsOf
<1>3. Billable(s) \subseteq Items
  BY DEF Billable, Active, ItemsOf
<1> QED
  BY <1>1, <1>2, <1>3 DEF Reads, OfSession

LEMMA LookToCheckoutKeepsBills ==
    ASSUME BillInv, SaleInv, RowInv, NEW r \in Requests, NEW s \in Sessions, LookToCheckout(r, s)
    PROVE  BillInv'
<1> DEFINE b == [items |-> Billable(s), version |-> CartVersion(s)]
<1>1. /\ request' = [request EXCEPT ![r] = [kind |-> "checkout", session |-> s, bill |-> b]]
      /\ UNCHANGED <<session, order, item, overwritten, overtaken, bill>>
  BY DEF LookToCheckout, rowVars, historyVars
<1>2. b # NoBill /\ Reads(s, b.items) /\ OfSession(s, b.items)
  BY BillableIsRead DEF LookToCheckout, NoBill
<1> HIDE DEF b
<1>3. \A q \in Requests : request'[q] =
        IF q = r THEN [kind |-> "checkout", session |-> s, bill |-> b] ELSE request[q]
  BY <1>1 DEF SaleInv, SaleShapes
<1>4. PICK I \in {b.items} : TRUE
  OBVIOUS
<1>5. Reads(s, I)' /\ OfSession(s, I)'
  BY <1>1, <1>2, <1>4 DEF Reads, OfSession
<1>6. ASSUME NEW t \in Sessions
      PROVE  /\ session'[t].sale = "table" => bill'[t] # NoBill
             /\ bill'[t] # NoBill => Reads(t, bill[t].items)'
             /\ OfSession(t, bill[t].items)'
  BY <1>1 DEF BillInv, Reads, OfSession
<1>7. ASSUME NEW q \in Requests, InStep(q, "checkout")'
      PROVE  /\ request'[q].session \in Sessions /\ request'[q].bill # NoBill
             /\ Reads(request[q].session, request[q].bill.items)'
             /\ OfSession(request[q].session, request[q].bill.items)'
  <2>1. CASE q = r
    BY <1>2, <1>3, <1>4, <1>5, <2>1 DEF Reads, OfSession
  <2>2. CASE q # r
    BY <1>1, <1>3, <1>7, <2>2 DEF BillInv, Reads, OfSession, InStep
  <2> QED
    BY <2>1, <2>2
<1>8. ASSUME NEW q \in Requests, InStep(q, "close")'
      PROVE  request'[q].session \in Sessions /\ bill'[request'[q].session] # NoBill
  <2>1. q # r /\ request'[q] = request[q]
    BY <1>3, <1>8 DEF InStep
  <2>2. bill' = bill /\ InStep(q, "close")
    BY <1>1, <1>8, <2>1 DEF InStep
  <2> QED
    BY <2>1, <2>2 DEF BillInv
<1> QED
  BY <1>1, <1>6, <1>7, <1>8 DEF BillInv

LEMMA PayBillKeepsBills ==
    ASSUME BillInv, SaleInv, NEW r \in Requests, PayBill(r)
    PROVE  BillInv'
<1>1. PICK s \in {request[r].session}, b \in {request[r].bill} : TRUE
  OBVIOUS
<1>2. /\ InStep(r, "checkout") /\ bill[s] \in {NoBill, b}
      /\ bill' = [bill EXCEPT ![s] = b]
      /\ request' = [request EXCEPT ![r] = [@ EXCEPT !.kind = "close"]]
      /\ UNCHANGED <<session, order, item, overwritten, overtaken>>
  BY <1>1 DEF PayBill, rowVars
<1>3. s \in Sessions /\ b # NoBill /\ Reads(s, b.items) /\ OfSession(s, b.items)
  BY <1>1, <1>2 DEF BillInv
<1>4. \A t \in Sessions : bill'[t] = IF t = s THEN b ELSE bill[t]
  BY <1>2 DEF BillInv
<1>5. \A q \in Requests \ {r} : request'[q] = request[q]
  BY <1>2 DEF SaleInv, SaleShapes
<1>6. request'[r].kind = "close" /\ request'[r].session = s
  BY <1>1, <1>2 DEF SaleInv, SaleShapes
<1>7. ASSUME NEW t \in Sessions
      PROVE  /\ session'[t].sale = "table" => bill'[t] # NoBill
             /\ bill'[t] # NoBill => Reads(t, bill[t].items)'
             /\ OfSession(t, bill[t].items)'
  <2>1. PICK I \in {bill'[t].items} : TRUE
    OBVIOUS
  <2>2. bill'[t] # NoBill => Reads(t, I)
    BY <1>3, <1>4, <2>1 DEF BillInv
  <2>3. OfSession(t, I)
    BY <1>3, <1>4, <2>1 DEF BillInv
  <2>4. (Reads(t, I) => Reads(t, I)') /\ OfSession(t, I)'
    BY <1>2, <2>3 DEF Reads, OfSession
  <2> QED
    BY <1>2, <1>3, <1>4, <2>1, <2>2, <2>4 DEF BillInv, Reads, OfSession
<1>8. ASSUME NEW q \in Requests, InStep(q, "checkout")'
      PROVE  /\ request'[q].session \in Sessions /\ request'[q].bill # NoBill
             /\ Reads(request[q].session, request[q].bill.items)'
             /\ OfSession(request[q].session, request[q].bill.items)'
  <2>1. q # r
    BY <1>6, <1>8 DEF InStep
  <2> QED
    BY <1>2, <1>5, <1>8, <2>1 DEF BillInv, Reads, OfSession, InStep
<1>9. ASSUME NEW q \in Requests, InStep(q, "close")'
      PROVE  request'[q].session \in Sessions /\ bill'[request'[q].session] # NoBill
  BY <1>3, <1>4, <1>5, <1>6, <1>9 DEF BillInv, InStep
<1>10. bill' = [t \in Sessions |-> bill'[t]]
  BY <1>2 DEF BillInv
<1> QED
  BY <1>7, <1>8, <1>9, <1>10 DEF BillInv

LEMMA CloseSoldKeepsBills ==
    ASSUME BillInv, SaleInv, NEW r \in Requests, CloseSold(r)
    PROVE  BillInv'
<1>1. PICK s \in {request[r].session} : TRUE
  OBVIOUS
<1>2. s \in Sessions /\ bill[s] # NoBill
  BY <1>1 DEF CloseSold, BillInv
<1>3. UNCHANGED <<bill, order, item, overwritten, overtaken>>
  BY DEF CloseSold, historyVars
<1>4. \A t \in Sessions : session'[t].sale = "table" => t = s \/ session[t].sale = "table"
  BY <1>1 DEF CloseSold, SaleInv, SaleShapes
<1>5. /\ request'[r] = Idle
      /\ \A q \in Requests \ {r} : request'[q] = request[q]
  BY DEF CloseSold, Finish, SaleInv, SaleShapes
<1> QED
  BY <1>2, <1>3, <1>4, <1>5 DEF BillInv, Reads, OfSession, InStep

LEMMA BillInvIsInductive ==
    ASSUME DiningInv, BillInv, [Next]_vars
    PROVE  BillInv'
<1>1. CASE UNCHANGED vars
  BY <1>1 DEF vars, rowVars, historyVars, BillInv, Reads, OfSession, InStep
<1>2. CASE Next /\ ~\E r \in Requests : BillStage(r)
  BY <1>2, NextIsBillStep, OthersAreQuiet, QuietKeepsBills DEF DiningInv
<1>3. CASE \E r \in Requests : BillStage(r)
  BY <1>3, LookToCheckoutKeepsBills, PayBillKeepsBills, CloseSoldKeepsBills DEF BillStage, DiningInv
<1> QED
  BY <1>1, <1>2, <1>3

\* An item is on the sale of its paid order, and on that of its session's bill.
Sold(i) == IF OrderOf[i] \in paid THEN 1 ELSE 0
OnBill(i) == \E s \in Sessions : i \in bill[s].items
BilledInv == \A i \in Items : billed[i] = Sold(i) + (IF OnBill(i) THEN 1 ELSE 0)

LEMMA PayBillCounts ==
    ASSUME BillInv, BilledInv, NEW r \in Requests, PayBill(r)
    PROVE  BilledInv'
<1>1. PICK s \in {request[r].session}, b \in {request[r].bill} : TRUE
  OBVIOUS
<1>2. /\ InStep(r, "checkout") /\ bill[s] \in {NoBill, b} /\ UNCHANGED paid
      /\ bill' = [bill EXCEPT ![s] = b]
      /\ IF bill[s] = NoBill THEN AddToBills(b.items) ELSE UNCHANGED billed
  BY <1>1 DEF PayBill
<1>3. s \in Sessions /\ OfSession(s, b.items)
  BY <1>1, <1>2 DEF BillInv
<1>4. \A t \in Sessions : bill'[t] = IF t = s THEN b ELSE bill[t]
  BY <1>2 DEF BillInv
<1>5. ASSUME NEW i \in Items
      PROVE  billed'[i] = Sold(i) + (IF OnBill(i)' THEN 1 ELSE 0)
  <2>1. CASE bill[s] = NoBill
    <3>1. OnBill(i)' <=> OnBill(i) \/ i \in b.items
      BY <1>3, <1>4, <2>1 DEF OnBill, NoBill
    <3>2. ~(OnBill(i) /\ i \in b.items)
      BY <1>3, <2>1 DEF BillInv, OnBill, OfSession, NoBill
    <3>3. billed'[i] = IF i \in b.items THEN billed[i] + 1 ELSE billed[i]
      BY <1>2, <2>1 DEF AddToBills
    <3> QED
      BY <3>1, <3>2, <3>3 DEF BilledInv, Sold
  <2>2. CASE bill[s] # NoBill
    <3>1. billed' = billed /\ (OnBill(i)' <=> OnBill(i))
      BY <1>2, <1>3, <1>4, <2>2 DEF OnBill
    <3> QED
      BY <3>1 DEF BilledInv
  <2> QED
    BY <2>1, <2>2
<1> QED
  BY <1>2, <1>5 DEF BilledInv, Sold

LEMMA WapPayCounts ==
    ASSUME BilledInv, NEW r \in Requests, WapPay(r)
    PROVE  BilledInv'
<1>1. PICK o \in {request[r].order} : TRUE
  OBVIOUS
<1>2. /\ o \notin paid /\ paid' = paid \cup {o} /\ AddToBills(ItemsOf(o))
      /\ UNCHANGED bill
  BY <1>1 DEF WapPay
<1>3. ASSUME NEW i \in Items
      PROVE  billed'[i] = Sold(i)' + (IF OnBill(i)' THEN 1 ELSE 0)
  BY <1>2 DEF BilledInv, AddToBills, ItemsOf, Sold, OnBill
<1> QED
  BY <1>3 DEF BilledInv

LEMMA BilledInvIsInductive ==
    ASSUME DiningInv, BillInv, BilledInv, [Next]_vars
    PROVE  BilledInv'
<1>1. CASE UNCHANGED <<bill, billed, paid>>
  BY <1>1 DEF BilledInv, Sold, OnBill
<1>2. CASE \E r \in Requests : BillStage(r)
  BY <1>1, <1>2, PayBillCounts DEF BillStage, LookToCheckout, CloseSold, historyVars
<1>3. CASE \E r \in Requests : WapPay(r)
  BY <1>3, WapPayCounts
<1>4. CASE UNCHANGED vars
  BY <1>1, <1>4 DEF vars, historyVars
<1> QED
  BY <1>1, <1>2, <1>3, <1>4, OthersAreQuiet DEF DiningInv, Quiet

LEMMA BillsHoldAtFirst == Init => BillInv /\ BilledInv
<1> SUFFICES ASSUME Init PROVE BillInv /\ BilledInv
  OBVIOUS
<1>1. /\ bill = [s \in Sessions |-> NoBill] /\ paid = {}
      /\ \A s \in Sessions : session[s].sale = "none"
      /\ \A r \in Requests : request[r] = Idle
      /\ \A i \in Items : billed[i] = 0
  BY DEF Init
<1>2. BilledInv
  BY <1>1 DEF BilledInv, Sold, OnBill, NoBill
<1>3. BillInv
  BY <1>1 DEF BillInv, Reads, OfSession, NoBill, InStep
<1> QED
  BY <1>2, <1>3

\* The sale that closed a session is the dishes that are not cancelled, whatever else the
\* waiters, the kitchen and other tills did between the reading of the bill and the
\* closing, and no dish is on two sales but a paid order's that was also checked out.
THEOREM BillsMatchTables == Spec => []BillMatchesTable
<1>1. ASSUME DiningInv, BillInv, BilledInv
      PROVE  BillMatchesTable
  <2>1. ASSUME NEW s \in Sessions, session[s].sale = "table", NEW o \in OrdersOf(s),
               NEW i \in ItemsOf(o) \ (overwritten \cup overtaken)
        PROVE  i \in bill[s].items <=> item[i] # "cancelled"
    BY <1>1, <2>1 DEF BillInv, Reads, OrdersOf, ItemsOf
  <2>2. ASSUME NEW i \in Items, billed[i] > 1
        PROVE  /\ OrderOf[i] \in paid /\ billed[i] = 2
               /\ i \in bill[order[OrderOf[i]].session].items
    <3>1. OrderOf[i] \in paid /\ OnBill(i) /\ billed[i] = 2
      BY <1>1, <2>2 DEF BilledInv, Sold
    <3> QED
      BY <1>1, <3>1 DEF BillInv, OnBill, OfSession
  <2> QED
    BY <2>1, <2>2 DEF BillMatchesTable
<1>2. DiningInv /\ BillInv /\ BilledInv /\ [Next]_vars => (DiningInv /\ BillInv /\ BilledInv)'
  BY DiningInvIsInductive, BillInvIsInductive, BilledInvIsInductive
<1> QED
  BY <1>1, <1>2, DiningInvHoldsAtFirst, BillsHoldAtFirst, PTL DEF Spec

--------------------------------------------------------------------------------
(* Paid orders and their sessions *)

\* The values of the rows, within their bounds.
CellTypes ==
    /\ \A i \in Items : item[i] \in Status /\ ticket[i] \in Status /\ waste[i] \in Nat
    /\ \A o \in Orders : order[o].version <= MaxVersion[o]
    /\ paid \subseteq WapOrders

LEMMA WriteStatusTypes ==
    ASSUME CellTypes, NEW I, NEW seen, NEW new \in Working, WriteStatus(I, seen, new)
    PROVE  \A i \in Items : item'[i] \in Status /\ ticket'[i] \in Status
  BY DEF WriteStatus, Written, CellTypes, Status

\* What a step may write into the rows.
WritesTypes ==
    /\ \A i \in Items : item'[i] \in Status /\ ticket'[i] \in Status /\ waste'[i] \in Nat
    /\ \A o \in Orders : order'[o].version <= MaxVersion[o]

LEMMA NextVersionTypes ==
    ASSUME CellTypes, order \in [Orders -> OrderRow], NEW o \in Orders, NEW v \in Nat,
           v < MaxVersion[o], order' = [order EXCEPT ![o].version = v + 1]
    PROVE  \A p \in Orders : order'[p].version <= MaxVersion[p]
<1>1. order'[o].version = v + 1
  BY DEF OrderRow
<1>2. \A p \in Orders \ {o} : order'[p] = order[p]
  OBVIOUS
<1>3. MaxVersion[o] \in Nat
  BY BoundAssumption
<1> QED
  BY <1>1, <1>2, <1>3 DEF CellTypes

LEMMA AddOrderTypes ==
    ASSUME CellTypes, order \in [Orders -> OrderRow], NEW o \in Orders, NEW s, AddOrder(o, s),
           UNCHANGED waste
    PROVE  WritesTypes
<1>1. \A p \in Orders : order'[p].version <= MaxVersion[p]
  <2>1. order' = [order EXCEPT ![o] = [session |-> s, status |-> "pending", version |-> 1]]
    BY DEF AddOrder
  <2>2. order'[o].version = 1 /\ \A p \in Orders \ {o} : order'[p] = order[p]
    BY <2>1
  <2>3. 1 <= MaxVersion[o]
    BY BoundAssumption
  <2> QED
    BY <2>2, <2>3 DEF CellTypes
<1>2. \A i \in Items : item'[i] \in Status /\ ticket'[i] \in Status
  BY DEF AddOrder, CellTypes, Status, Working
<1> QED
  BY <1>1, <1>2 DEF CellTypes, WritesTypes

LEMMA CancelTypes ==
    ASSUME CellTypes, order \in [Orders -> OrderRow], NEW I, NEW o \in Orders, NEW stages,
           Cancel(I, o, stages)
    PROVE  WritesTypes
<1>1. \A i \in Items : item'[i] \in Status /\ ticket'[i] \in Status
  BY DEF Cancel, CellTypes, Status
<1>2. \A i \in Items : waste'[i] \in Nat
  BY DEF Cancel, CellTypes
<1>3. order[o].version < MaxVersion[o]
  BY DEF Cancel, WorkedOn
<1>4. PICK status : order' = [order EXCEPT ![o].version = @ + 1, ![o].status = status]
  BY DEF Cancel
<1>5. order[o].version \in Nat
  BY DEF OrderRow
<1>6. order'[o].version = order[o].version + 1
  BY <1>4 DEF OrderRow
<1>7. \A p \in Orders \ {o} : order'[p] = order[p]
  BY <1>4
<1>8. \A p \in Orders : order'[p].version <= MaxVersion[p]
  BY <1>3, <1>5, <1>6, <1>7, BoundAssumption DEF CellTypes
<1> QED
  BY <1>1, <1>2, <1>8 DEF WritesTypes

LEMMA KitchenTypes ==
    ASSUME DiningInv, CellTypes, NEW r \in Requests, NEW new \in Working,
           UpdateTicket(r, new) \/ UpdateItem(r, new)
    PROVE  WritesTypes
<1>o. order \in [Orders -> OrderRow]
  BY DEF DiningInv, RowInv
<1>1. request[r].item \in Items /\ UNCHANGED waste
  BY DEF DiningInv, ReadInv, ReadOk, UpdateTicket, UpdateItem
<1>2. PICK o \in Orders : o = OrderOf[request[r].item]
  BY <1>1, OrderOfAssumption
<1>3. \A i \in Items : item'[i] \in Status /\ ticket'[i] \in Status
  <2>1. \E I, seen : WriteStatus(I, seen, new)
    BY Zenon DEF UpdateTicket, UpdateItem
  <2> QED
    BY <2>1, WriteStatusTypes
<1>4. \E v \in Nat : v < MaxVersion[o] /\ order' = [order EXCEPT ![o].version = v + 1]
  <2>1. CASE UpdateTicket(r, new)
    <3>1. order[o].version < MaxVersion[o]
          /\ order' = [order EXCEPT ![o].version = order[o].version + 1]
      BY <1>2, <2>1 DEF UpdateTicket, WorkedOn
    <3> QED
      BY <1>o, <3>1 DEF OrderRow
  <2>2. CASE UpdateItem(r, new)
    <3>1. request[r].version < MaxVersion[o] /\ request[r].version \in Nat
          /\ order' = [order EXCEPT ![o].version = request[r].version + 1]
      BY <1>2, <2>2 DEF UpdateItem, DiningInv, ReadInv, ReadOk
    <3> QED
      BY <3>1
  <2> QED
    BY <2>1, <2>2
<1>5. \A p \in Orders : order'[p].version <= MaxVersion[p]
  BY <1>o, <1>4, NextVersionTypes
<1> QED
  BY <1>1, <1>3, <1>5 DEF WritesTypes, CellTypes

LEMMA CellTypesAreKept ==
    ASSUME DiningInv, CellTypes, [Next]_vars
    PROVE  CellTypes'
<1>o. order \in [Orders -> OrderRow]
  BY DEF DiningInv, RowInv
<1>1. CASE UNCHANGED <<order, item, ticket, waste, paid>>
  BY <1>1 DEF CellTypes
<1>2. ASSUME WritesTypes, UNCHANGED paid
      PROVE  CellTypes'
  BY <1>2 DEF WritesTypes, CellTypes
<1>3. CASE UNCHANGED vars
  BY <1>1, <1>3 DEF vars, rowVars
<1>4. CASE \E r \in Requests : Look(r)
  BY <1>1, <1>4 DEF Look, LookToOrder, LookToPickUp, LookToCheckout, LookToCook, LookAtItem,
        LookToCancel, WapLookup, rowVars
<1>5. CASE \E o \in Orders : CancelOrder(o)
  BY <1>o, <1>2, <1>5, CancelTypes DEF CancelOrder
<1>6. CASE \E i \in Items, o \in Orders : Reopen(i, o)
  BY <1>o, <1>2, <1>6, AddOrderTypes DEF Reopen
<1>7. ASSUME NEW s \in Sessions, SessionStep(s)
      PROVE  CellTypes'
  <2>1. CASE PrintKitchenSlip(s)
    BY <2>1 DEF PrintKitchenSlip, CellTypes, Status, Working
  <2> QED
    BY <1>1, <1>7, <2>1 DEF SessionStep, OpenSession, RequestBill, CloseSession
<1>8. ASSUME NEW r \in Requests, Write(r)
      PROVE  CellTypes'
  <2>1. CASE \E new \in Working : UpdateTicket(r, new) \/ UpdateItem(r, new)
    BY <1>2, <2>1, KitchenTypes DEF UpdateTicket, UpdateItem
  <2>2. CASE MarkServed(r)
    <3>1. WriteStatus(DOMAIN request[r].seen, request[r].seen, "served")
          /\ UNCHANGED <<order, waste, paid>> /\ "served" \in Working
      BY <2>2 DEF MarkServed, Working
    <3> QED
      BY <3>1, WriteStatusTypes DEF CellTypes
  <2>3. CASE CancelItem(r)
    <3>1. request[r].item \in Items
      BY <2>3 DEF CancelItem, DiningInv, ReadInv, ReadOk
    <3> QED
      BY <1>o, <1>2, <2>3, <3>1, CancelTypes, OrderOfAssumption DEF CancelItem
  <2>4. CASE PlaceOrder(r) \/ WapPlace(r)
    <3>1. request[r].order \in Orders
      BY <2>4, WapAssumption DEF PlaceOrder, WapPlace, DiningInv, ReadInv, ReadOk, SaleInv,
            SaleShapes, Selling, InStep, WapKinds
    <3> QED
      BY <1>o, <1>1, <1>2, <2>4, <3>1, AddOrderTypes DEF PlaceOrder, WapPlace
  <2>5. CASE WapPay(r)
    <3>1. request[r].order \in WapOrders
      BY <2>5 DEF WapPay, DiningInv, SaleInv, SaleShapes, Selling, InStep, WapKinds
    <3> QED
      BY <2>5, <3>1 DEF WapPay, CellTypes, rowVars
  <2>6. CASE CloseSold(r) \/ WapLink(r) \/ Abort(r) \/ PayBill(r) \/ \E s \in Sessions : WapOpen(r, s)
    BY <1>1, <2>6 DEF CloseSold, WapLink, Abort, PayBill, WapOpen, rowVars
  <2> QED
    BY <1>8, <2>1, <2>2, <2>3, <2>4, <2>5, <2>6 DEF Write
<1> QED
  BY <1>3, <1>4, <1>5, <1>6, <1>7, <1>8 DEF Next

\* A handler that has a session for its paid order.
Holds(r) == InStep(r, "wap_place") \/ InStep(r, "wap_pay") \/ InStep(r, "wap_link")

\* A session that orders are in, or are sent to, was opened; only plain orders are sent to
\* an open session.
SessionsInUse ==
    /\ \A o \in Orders : order[o].session # NoSession => session[order[o].session].status # "none"
    /\ \A r \in Requests : InStep(r, "order") \/ Holds(r) =>
            request[r].session \in Sessions /\ session[request[r].session].status # "none"
    /\ \A r \in Requests : InStep(r, "order") => request[r].order \notin WapOrders

\* A session that was opened for a paid order takes no other paid order.
OwnSessions == \A r \in Requests : Holds(r) =>
    /\ \A q \in Requests : Holds(q) /\ request[q].session = request[r].session => q = r
    /\ \A o \in WapOrders : order[o].session = request[r].session => o = request[r].order

\* A paid order that is in no session, in one that was sold as a table's, and in its own.
Unplaced(o) == order[o].session = NoSession /\ o \notin paid
Placed(o) == order[o].session # NoSession /\ o \in paid
AtTable(o) == Placed(o) /\ session[order[o].session].sale = "table"
Linked(o) == Placed(o) /\ session[order[o].session].sale = o

\* What an attempt to sell order o may rely on.
AttemptOk(r, o) ==
    \/ request[r].kind \in {"wap_open", "wap_place"} /\ Unplaced(o)
    \/ request[r].kind # "wap_link" /\ AtTable(o)
    \/ request[r].kind \in {"wap_pay", "wap_link"} /\ order[o].session = request[r].session

PaidOk(o) ==
    /\ \A r, q \in Attempting(o) : r = q
    /\ Attempting(o) = {} => Unplaced(o) \/ Linked(o) \/ AtTable(o)
    /\ \A r \in Attempting(o) : AttemptOk(r, o)

PaidInv == SessionsInUse /\ OwnSessions /\ \A o \in WapOrders \ broken : PaidOk(o)

\* Steps that do not sell paid orders: they leave them, their sessions and the handlers that
\* sell them, and put plain orders into open sessions only.
Calm ==
    /\ \A s \in Sessions : session[s].status # "none" =>
            session'[s].status # "none" /\ session'[s].sale \in {session[s].sale, "table"}
    /\ \A o \in Orders : order'[o].session # order[o].session =>
            /\ o \notin WapOrders /\ order'[o].session \in Sessions
            /\ session[order'[o].session].status # "none"
    /\ \A r \in Requests : Selling(r) \/ Selling(r)' => request'[r] = request[r]
    /\ \A r \in Requests : InStep(r, "order")' => request'[r] = request[r]
            \/ /\ request'[r].session \in Sessions /\ session[request'[r].session].status # "none"
               /\ request'[r].order \notin WapOrders
    /\ UNCHANGED <<paid, broken>>

\* What is right for a paid order stays right while nobody sells it.
LEMMA PaidOrderRests ==
    ASSUME SessionsInUse, NEW o \in WapOrders, PaidOk(o),
           Attempting(o)' = Attempting(o),
           \A r \in Attempting(o) : request'[r] = request[r],
           order'[o].session = order[o].session, o \in paid' <=> o \in paid,
           order[o].session # NoSession =>
                session'[order[o].session].sale \in {session[order[o].session].sale, "table"}
    PROVE  PaidOk(o)'
  BY DEF PaidOk, Unplaced, Placed, AtTable, Linked, AttemptOk

LEMMA CalmKeepsPaid ==
    ASSUME DiningInv, PaidInv, Calm
    PROVE  PaidInv'
<1>t. /\ order \in [Orders -> OrderRow]
      /\ \A o \in Orders : order[o].session \in Sessions \cup {NoSession}
  BY DEF DiningInv, RowInv, OrderRow
<1>1. \A r \in Requests : Holds(r)' => Holds(r) /\ request'[r] = request[r]
  BY DEF Calm, Holds, Selling, InStep, WapKinds
<1>2. \A o \in WapOrders : o \in Orders /\ order'[o].session = order[o].session
  BY WapAssumption DEF Calm
<1>3. SessionsInUse'
  <2>1. \A o \in Orders : order'[o].session # NoSession => session'[order'[o].session].status # "none"
    BY <1>t DEF Calm, PaidInv, SessionsInUse
  <2>2. \A r \in Requests : InStep(r, "order")' \/ Holds(r)' =>
            request'[r].session \in Sessions /\ session'[request'[r].session].status # "none"
    BY <1>1 DEF Calm, PaidInv, SessionsInUse, InStep
  <2>3. \A r \in Requests : InStep(r, "order")' => request'[r].order \notin WapOrders
    BY DEF Calm, PaidInv, SessionsInUse, InStep
  <2> QED
    BY <2>1, <2>2, <2>3 DEF SessionsInUse
<1>4. OwnSessions'
  BY <1>1, <1>2 DEF PaidInv, OwnSessions
<1>5. ASSUME NEW o \in WapOrders \ broken'
      PROVE  PaidOk(o)'
  <2>1. Attempting(o)' = Attempting(o) /\ \A r \in Attempting(o) : request'[r] = request[r]
    BY DEF Calm, Attempting, Selling, WapKinds
  <2>2. order[o].session # NoSession =>
                session'[order[o].session].sale \in {session[order[o].session].sale, "table"}
    BY <1>t, <1>2 DEF Calm, PaidInv, SessionsInUse
  <2>3. PaidOk(o) /\ SessionsInUse /\ (o \in paid' <=> o \in paid)
    BY <1>5 DEF Calm, PaidInv
  <2> QED
    BY <1>2, <2>1, <2>2, <2>3, PaidOrderRests
<1> QED
  BY <1>3, <1>4, <1>5 DEF PaidInv

\* The steps that sell a paid order, or stop selling it.
WapStep(r) ==
    \/ \E o \in WapOrders : WapLookup(r, o)
    \/ \E s \in Sessions : WapOpen(r, s)
    \/ WapPlace(r) \/ WapPay(r) \/ WapLink(r)
    \/ Abort(r)

LEMMA SessionStepIsCalm ==
    ASSUME DiningInv, NEW s \in Sessions, SessionStep(s)
    PROVE  Calm
<1>s. session \in [Sessions -> SessionRow]
  BY DEF DiningInv, SaleInv, SaleShapes
<1>1. UNCHANGED <<order, request, paid, broken>>
  BY DEF SessionStep, OpenSession, RequestBill, CloseSession, PrintKitchenSlip, historyVars
<1>2. \A t \in Sessions : session[t].status # "none" =>
            session'[t].status # "none" /\ session'[t].sale = session[t].sale
  <2>1. CASE \E quick \in BOOLEAN : OpenSession(s, quick)
    BY <1>s, <2>1 DEF OpenSession, SessionRow
  <2>2. CASE RequestBill(s)
    BY <1>s, <2>2 DEF RequestBill, SessionRow
  <2>3. CASE CloseSession(s)
    BY <1>s, <2>3 DEF CloseSession, SessionRow
  <2>4. CASE PrintKitchenSlip(s)
    BY <2>4 DEF PrintKitchenSlip
  <2> QED
    BY <2>1, <2>2, <2>3, <2>4 DEF SessionStep
<1> QED
  BY <1>1, <1>2 DEF Calm, Selling, InStep

\* A handler of its own slot that sells nothing.
LEMMA SlotIsCalm ==
    ASSUME DiningInv, NEW r \in Requests, Look(r) \/ Write(r),
           UNCHANGED <<paid, broken>>,
           ~Selling(r), ~Selling(r)',
           InStep(r, "order")' =>
                /\ request'[r].session \in Sessions /\ session[request'[r].session].status # "none"
                /\ request'[r].order \notin WapOrders,
           \A s \in Sessions : session[s].status # "none" =>
                session'[s].status # "none" /\ session'[s].sale \in {session[s].sale, "table"},
           \A o \in Orders : order'[o].session # order[o].session =>
                /\ o \notin WapOrders /\ order'[o].session \in Sessions
                /\ session[order'[o].session].status # "none"
    PROVE  Calm
<1>1. \A q \in Requests \ {r} : request'[q] = request[q]
  BY OwnSlot DEF DiningInv
<1> QED
  BY <1>1 DEF Calm, Selling, InStep

LEMMA LookIsCalm ==
    ASSUME DiningInv, NEW r \in Requests, Look(r), ~WapStep(r)
    PROVE  Calm
<1>1. UNCHANGED <<session, order, paid, broken>> /\ ~Selling(r)
  BY DEF Look, WapStep, LookToOrder, LookToPickUp, LookToCheckout, LookToCook, LookAtItem,
         LookToCancel, rowVars, historyVars, Free, Selling
<1>r. request = [q \in Requests |-> request[q]]
  BY DEF DiningInv, SaleInv, SaleShapes
<1>2. CASE \E s \in Sessions, o \in Orders : LookToOrder(r, s, o)
  <2>1. PICK s \in Sessions, o \in Orders : LookToOrder(r, s, o)
    BY <1>2
  <2>2. /\ request'[r] = [kind |-> "order", session |-> s, order |-> o]
        /\ session[s].status = "open" /\ o \notin WapOrders
    BY <1>r, <2>1 DEF LookToOrder
  <2>3. request'[r].kind = "order" /\ request'[r].session = s /\ request'[r].order = o
    BY <2>2
  <2> QED
    BY <1>1, <2>2, <2>3, SlotIsCalm DEF Selling, WapKinds
<1>3. CASE \E kind \in {"pickup", "checkout", "ticket", "item", "cancel"} : request'[r].kind = kind
  BY <1>1, <1>3, SlotIsCalm DEF Selling, WapKinds, InStep
<1>4. CASE \E s \in Sessions : LookToPickUp(r, s)
  <2>1. PICK s \in Sessions : LookToPickUp(r, s)
    BY <1>4
  <2>2. PICK seen : request' = [request EXCEPT ![r] = [kind |-> "pickup", seen |-> seen]]
    BY <2>1, Zenon DEF LookToPickUp
  <2>3. request'[r].kind = "pickup"
    BY <1>r, <2>2
  <2> QED
    BY <1>3, <2>3
<1>5. CASE \E s \in Sessions : LookToCheckout(r, s)
  <2>1. PICK s \in Sessions : LookToCheckout(r, s)
    BY <1>5
  <2>2. PICK b : request' = [request EXCEPT ![r] = [kind |-> "checkout", session |-> s, bill |-> b]]
    BY <2>1, Zenon DEF LookToCheckout
  <2>3. request'[r].kind = "checkout"
    BY <1>r, <2>2
  <2> QED
    BY <1>3, <2>3
<1>6. CASE \E i \in Items : LookToCook(r, i)
  BY <1>r, <1>3, <1>6 DEF LookToCook
<1>7. CASE \E i \in Items : LookAtItem(r, i)
  BY <1>r, <1>3, <1>7 DEF LookAtItem
<1>8. CASE \E i \in Items : LookToCancel(r, i)
  BY <1>r, <1>3, <1>8 DEF LookToCancel
<1> QED
  BY <1>2, <1>4, <1>5, <1>6, <1>7, <1>8 DEF Look, WapStep

LEMMA WriteIsCalm ==
    ASSUME DiningInv, SessionsInUse, NEW r \in Requests, Write(r), ~WapStep(r)
    PROVE  Calm
<1>s. session \in [Sessions -> SessionRow] /\ request = [q \in Requests |-> request[q]]
  BY DEF DiningInv, SaleInv, SaleShapes
<1>o. order \in [Orders -> OrderRow]
  BY DEF DiningInv, RowInv
<1>1. ASSUME Finish(r), ~Selling(r), UNCHANGED <<session, paid, broken>>,
             \A o \in Orders : order'[o].session # order[o].session =>
                /\ o \notin WapOrders /\ order'[o].session \in Sessions
                /\ session[order'[o].session].status # "none"
      PROVE  Calm
  <2>1. request'[r] = Idle
    BY <1>s, <1>1 DEF Finish
  <2> QED
    BY <1>1, <2>1, SlotIsCalm DEF Selling, InStep
<1>2. CASE CancelItem(r) \/ MarkServed(r) \/ \E new \in Working : UpdateTicket(r, new) \/ UpdateItem(r, new)
  <2>1. Finish(r) /\ ~Selling(r) /\ UNCHANGED <<session, paid, broken>>
    BY <1>2 DEF CancelItem, MarkServed, UpdateTicket, UpdateItem, InStep, Selling, WapKinds
  <2>2. \A o \in Orders : order'[o].session = order[o].session
    <3>1. CASE MarkServed(r)
      BY <3>1 DEF MarkServed
    <3>2. CASE CancelItem(r)
      BY <1>o, <3>2 DEF CancelItem, Cancel, OrderRow
    <3>3. CASE \E new \in Working : UpdateTicket(r, new)
      BY <1>o, <3>3 DEF UpdateTicket, OrderRow
    <3>4. CASE \E new \in Working : UpdateItem(r, new)
      BY <1>o, <3>4 DEF UpdateItem, OrderRow
    <3> QED
      BY <1>2, <3>1, <3>2, <3>3, <3>4
  <2> QED
    BY <1>1, <2>1, <2>2
<1>3. CASE PlaceOrder(r)
  <2>1. /\ Finish(r) /\ ~Selling(r) /\ UNCHANGED <<session, paid, broken>> /\ InStep(r, "order")
        /\ order' = order \/ AddOrder(request[r].order, request[r].session)
    BY <1>3 DEF PlaceOrder, InStep, Selling, WapKinds
  <2>2. /\ request[r].order \notin WapOrders /\ request[r].session \in Sessions
        /\ session[request[r].session].status # "none"
    BY <2>1 DEF SessionsInUse
  <2>3. \A o \in Orders : order'[o].session # order[o].session =>
            o = request[r].order /\ order'[o].session = request[r].session
    BY <1>o, <2>1 DEF AddOrder
  <2> QED
    BY <1>1, <2>1, <2>2, <2>3
<1>4. CASE PayBill(r)
  <2>1. InStep(r, "checkout") /\ UNCHANGED <<session, order, paid, broken>>
    BY <1>4 DEF PayBill, rowVars
  <2>2. request'[r].kind = "close" /\ ~Selling(r)
    BY <1>s, <1>4, <2>1 DEF PayBill, DiningInv, SaleInv, SaleShapes, InStep, Selling, WapKinds
  <2> QED
    BY <2>1, <2>2, SlotIsCalm DEF Selling, WapKinds, InStep
<1>5. CASE CloseSold(r)
  <2>1. Finish(r) /\ ~Selling(r) /\ UNCHANGED <<order, paid, broken>>
    BY <1>5 DEF CloseSold, InStep, Selling, WapKinds, historyVars
  <2>2. \A s \in Sessions : session[s].status # "none" =>
            session'[s].status # "none" /\ session'[s].sale \in {session[s].sale, "table"}
    BY <1>s, <1>5 DEF CloseSold, SessionRow
  <2>3. request'[r] = Idle
    BY <1>s, <2>1 DEF Finish
  <2> QED
    BY <2>1, <2>2, <2>3, SlotIsCalm DEF Selling, InStep
<1> QED
  BY <1>2, <1>3, <1>4, <1>5 DEF Write, WapStep

LEMMA CancellationIsCalm ==
    ASSUME DiningInv, SessionsInUse,
           (\E o \in Orders : CancelOrder(o)) \/ \E i \in Items, o \in Orders : Reopen(i, o)
    PROVE  Calm
<1>o. order \in [Orders -> OrderRow]
  BY DEF DiningInv, RowInv
<1>1. UNCHANGED <<session, request, paid, broken>>
  BY DEF CancelOrder, Reopen
<1>2. CASE \E o \in Orders : CancelOrder(o)
  <2>1. \E o \in Orders : \E status :
            order' = [order EXCEPT ![o].version = @ + 1, ![o].status = status]
    BY <1>2, Zenon DEF CancelOrder, Cancel
  <2>2. \A p \in Orders : order'[p].session = order[p].session
    BY <1>o, <2>1 DEF OrderRow
  <2> QED
    BY <1>1, <2>2 DEF Calm, Selling, InStep
<1>3. CASE \E i \in Items, o \in Orders : Reopen(i, o)
  <2>1. PICK i \in Items, o \in Orders : Reopen(i, o)
    BY <1>3
  <2>2. PICK p \in Orders : p = OrderOf[i]
    BY OrderOfAssumption
  <2>3. order[p].session # NoSession
    BY <2>1, <2>2 DEF Reopen, DiningInv, RowInv
  <2>4. order[p].session \in Sessions /\ session[order[p].session].status # "none"
    BY <1>o, <2>3 DEF OrderRow, SessionsInUse
  <2>5. AddOrder(o, order[p].session) /\ o \notin WapOrders
    BY <2>1, <2>2 DEF Reopen
  <2>6. \A q \in Orders : order'[q].session # order[q].session =>
            q = o /\ order'[q].session = order[p].session
    BY <1>o, <2>5 DEF AddOrder
  <2> QED
    BY <1>1, <2>4, <2>5, <2>6 DEF Calm, Selling, InStep
<1> QED
  BY <1>2, <1>3

WapRow == [kind : WapKinds, order : WapOrders, session : Sessions \cup {NoSession}]

\* Other orders than the one a step sells rest.
LEMMA OthersRest ==
    ASSUME DiningInv, PaidInv, NEW r \in Requests, NEW o \in WapOrders,
           \A q \in Requests \ {r} : request'[q] = request[q],
           Selling(r) => request[r].order = o, Selling(r)' => request'[r].order = o,
           \A p \in WapOrders \ {o} : order'[p].session = order[p].session,
           \A p \in WapOrders \ {o} : p \in paid' <=> p \in paid,
           broken \subseteq broken',
           \A s \in Sessions : session[s].status # "none" /\ session'[s].sale # session[s].sale =>
                Holds(r) /\ s = request[r].session,
           o \notin broken' => PaidOk(o)',
           SessionsInUse', OwnSessions'
    PROVE  PaidInv'
<1>1. ASSUME NEW p \in WapOrders \ broken', p # o
      PROVE  PaidOk(p)'
  <2>1. Attempting(p)' = Attempting(p) /\ \A q \in Attempting(p) : request'[q] = request[q]
    BY <1>1 DEF Attempting, Selling, WapKinds
  <2>2. ASSUME order[p].session # NoSession
        PROVE  session'[order[p].session].sale = session[order[p].session].sale
    <3>1. p \in Orders /\ order[p].session \in Sessions
      BY <2>2, WapAssumption DEF DiningInv, RowInv, OrderRow
    <3>2. session[order[p].session].status # "none"
      BY <2>2, <3>1 DEF PaidInv, SessionsInUse
    <3>3. Holds(r) => request[r].order = o /\ (order[p].session = request[r].session => p = request[r].order)
      BY DEF PaidInv, OwnSessions, Holds, Selling, InStep, WapKinds
    <3> QED
      BY <1>1, <3>1, <3>2, <3>3
  <2>3. PaidOk(p) /\ SessionsInUse
    BY <1>1 DEF PaidInv
  <2> QED
    BY <1>1, <2>1, <2>2, <2>3, PaidOrderRests
<1> QED
  BY <1>1 DEF PaidInv

\* Sessions in use stay so when a handler only moves on with the one it has, or ends.
LEMMA HoldersStay ==
    ASSUME PaidInv, NEW r \in Requests,
           \A q \in Requests \ {r} : request'[q] = request[q],
           ~InStep(r, "order")',
           Holds(r)' => Holds(r) /\ request'[r].session = request[r].session
                        /\ request'[r].order = request[r].order,
           \A s \in Sessions : session[s].status # "none" => session'[s].status # "none",
           \A o \in Orders : \/ order'[o].session = order[o].session
                             \/ /\ o = request[r].order /\ Holds(r)
                                /\ order'[o].session = request[r].session,
           \A o \in Orders : order[o].session \in Sessions \cup {NoSession}
    PROVE  SessionsInUse' /\ OwnSessions'
<1>1. \A q \in Requests : Holds(q)' => Holds(q) /\ request'[q].session = request[q].session
                                       /\ request'[q].order = request[q].order
  BY DEF Holds, InStep
<1>2. SessionsInUse'
  BY <1>1 DEF PaidInv, SessionsInUse, InStep
<1>3. OwnSessions'
  BY <1>1, WapAssumption DEF PaidInv, OwnSessions
<1> QED
  BY <1>2, <1>3

LEMMA WapLookupKeepsPaid ==
    ASSUME DiningInv, PaidInv, NEW r \in Requests, NEW o \in WapOrders, WapLookup(r, o)
    PROVE  PaidInv'
<1>1. /\ request = [q \in Requests |-> request[q]]
      /\ \A p \in Orders : order[p].session \in Sessions \cup {NoSession}
      /\ o \in Orders
  BY WapAssumption DEF DiningInv, SaleInv, SaleShapes, RowInv, OrderRow
<1>2. /\ UNCHANGED <<session, order, paid>> /\ request[r] = Idle
      /\ \A s \in Sessions : session[s].sale # o
      /\ broken' = IF Attempting(o) = {} THEN broken ELSE broken \cup {o}
  BY DEF WapLookup, rowVars, Free
<1>3. /\ request'[r] = [kind |-> "wap_open", order |-> o, session |-> NoSession]
      /\ \A q \in Requests \ {r} : request'[q] = request[q]
  BY <1>1 DEF WapLookup
<1>4. request'[r].kind = "wap_open" /\ request'[r].order = o
  BY <1>3
<1>5. ~Selling(r) /\ ~Holds(r)' /\ ~InStep(r, "order")'
  BY <1>2, <1>4 DEF Selling, Holds, InStep
<1>6. SessionsInUse' /\ OwnSessions'
  BY <1>1, <1>2, <1>3, <1>5, HoldersStay
<1>7. ASSUME o \notin broken'
      PROVE  PaidOk(o)'
  <2>1. Attempting(o) = {} /\ o \notin broken
    BY <1>2, <1>7
  <2>2. Unplaced(o) \/ AtTable(o)
    BY <1>1, <1>2, <2>1 DEF PaidInv, PaidOk, Linked, Placed
  <2>3. Attempting(o)' \subseteq {r} /\ (request'[r] # Idle => r \in Attempting(o)')
    BY <1>3, <1>4, <2>1 DEF Attempting
  <2>4. (Unplaced(o) \/ AtTable(o))'
    BY <1>2, <2>2 DEF Unplaced, AtTable, Placed
  <2>5. AttemptOk(r, o)'
    BY <1>4, <2>4 DEF AttemptOk
  <2> QED
    BY <2>3, <2>4, <2>5 DEF PaidOk
<1> QED
  BY <1>2, <1>3, <1>4, <1>5, <1>6, <1>7, OthersRest

LEMMA WapOpenKeepsPaid ==
    ASSUME DiningInv, PaidInv, NEW r \in Requests, NEW s \in Sessions, WapOpen(r, s)
    PROVE  PaidInv'
<1>1. /\ request = [q \in Requests |-> request[q]] /\ session \in [Sessions -> SessionRow]
      /\ \A p \in Orders : order[p].session \in Sessions \cup {NoSession}
  BY DEF DiningInv, SaleInv, SaleShapes, RowInv, OrderRow
<1>2. /\ UNCHANGED <<order, paid, broken>> /\ InStep(r, "wap_open") /\ session[s].status = "none"
      /\ session' = [session EXCEPT ![s] = [status |-> "open", quick |-> TRUE, sale |-> "none"]]
      /\ request' = [request EXCEPT ![r] = [@ EXCEPT !.kind = "wap_place", !.session = s]]
  BY DEF WapOpen, historyVars
<1>3. request[r] \in WapRow
  BY <1>2 DEF DiningInv, SaleInv, SaleShapes, Selling, InStep, WapKinds, WapRow
<1>o. PICK o \in WapOrders : o = request[r].order
  BY <1>3 DEF WapRow
<1>4. /\ request'[r] = [kind |-> "wap_place", order |-> o, session |-> s]
      /\ \A q \in Requests \ {r} : request'[q] = request[q]
  BY <1>1, <1>2, <1>3, <1>o DEF WapRow
<1>5. request'[r].kind = "wap_place" /\ request'[r].order = o /\ request'[r].session = s
  BY <1>4
<1>6. /\ session'[s].status = "open"
      /\ \A t \in Sessions \ {s} : session'[t] = session[t]
  BY <1>1, <1>2
<1>7. ~InStep(r, "order")' /\ ~Holds(r)
  BY <1>2, <1>5 DEF Holds, InStep
<1>8. \A q \in Requests \ {r} : Holds(q)' => Holds(q)
  BY <1>4 DEF Holds, InStep
<1>9. SessionsInUse'
  BY <1>1, <1>2, <1>4, <1>5, <1>6, <1>7, <1>8 DEF PaidInv, SessionsInUse, InStep
<1>10. OwnSessions'
  <2>1. \A q \in Requests : Holds(q) => request[q].session # s
    BY <1>2 DEF PaidInv, SessionsInUse
  <2>2. \A p \in WapOrders : order[p].session # s
    BY <1>2, WapAssumption, NoneAssumption DEF PaidInv, SessionsInUse
  <2> QED
    BY <1>2, <1>4, <1>5, <1>8, <2>1, <2>2 DEF PaidInv, OwnSessions
<1>11. ASSUME o \notin broken'
       PROVE  PaidOk(o)'
  <2>1. r \in Attempting(o) /\ PaidOk(o)
    BY <1>2, <1>o, <1>11 DEF PaidInv, Attempting, InStep
  <2>2. Attempting(o) = {r} /\ AttemptOk(r, o)
    BY <2>1 DEF PaidOk
  <2>3. Attempting(o)' \subseteq {r}
    BY <1>4, <2>2 DEF Attempting
  <2>4. Unplaced(o) \/ AtTable(o)
    BY <1>2, <2>2 DEF AttemptOk, InStep
  <2>5. (Unplaced(o) \/ AtTable(o))'
    <3>1. CASE Unplaced(o)
      BY <1>2, <3>1 DEF Unplaced
    <3>2. CASE AtTable(o)
      <4>1. order[o].session \in Sessions /\ session[order[o].session].status # "none"
        BY <1>1, <3>2, WapAssumption DEF AtTable, Placed, PaidInv, SessionsInUse
      <4>2. order[o].session # s
        BY <1>2, <4>1
      <4> QED
        BY <1>2, <1>6, <3>2, <4>1, <4>2 DEF AtTable, Placed
    <3> QED
      BY <2>4, <3>1, <3>2
  <2>6. AttemptOk(r, o)'
    BY <1>5, <2>5 DEF AttemptOk
  <2> QED
    BY <2>3, <2>5, <2>6 DEF PaidOk
<1>12. \A t \in Sessions : session[t].status # "none" => session'[t].sale = session[t].sale
  BY <1>2, <1>6
<1> QED
  BY <1>2, <1>4, <1>5, <1>9, <1>10, <1>11, <1>12, <1>o, OthersRest

\* An attempt on its way to the sale: no other has its order, unless one was cut off.
LEMMA AloneOnItsWay ==
    ASSUME DiningInv, PaidInv, NEW r \in Requests, Selling(r)
    PROVE  /\ request[r] \in WapRow
           /\ request[r].order \notin broken =>
                /\ Attempting(request[r].order) = {r}
                /\ AttemptOk(r, request[r].order)
<1>1. request[r] \in WapRow
  BY DEF DiningInv, SaleInv, SaleShapes, WapRow
<1>2. PICK o \in WapOrders : o = request[r].order
  BY <1>1 DEF WapRow
<1>3. r \in Attempting(o)
  BY <1>2 DEF Attempting, Selling, WapKinds
<1> QED
  BY <1>1, <1>2, <1>3 DEF PaidInv, PaidOk

\* A handler that goes on with its order, the order being good for its next step.
LEMMA MoveKeepsPaid ==
    ASSUME DiningInv, PaidInv, NEW r \in Requests, NEW o \in WapOrders,
           NEW kind \in {"wap_pay", "wap_link"}, Holds(r), o = request[r].order,
           request' = [request EXCEPT ![r] = [@ EXCEPT !.kind = kind]],
           UNCHANGED <<session, broken>>,
           order' = order \/ AddOrder(o, request[r].session),
           \A p \in WapOrders \ {o} : p \in paid' <=> p \in paid,
           o \notin broken => AttemptOk(r, o)'
    PROVE  PaidInv'
<1>1. /\ request = [q \in Requests |-> request[q]] /\ order \in [Orders -> OrderRow]
      /\ \A p \in Orders : order[p].session \in Sessions \cup {NoSession}
  BY DEF DiningInv, SaleInv, SaleShapes, RowInv, OrderRow
<1>2. Selling(r) /\ request[r] \in WapRow
  BY AloneOnItsWay DEF Holds, InStep, Selling, WapKinds
<1>3. /\ request'[r] = [kind |-> kind, order |-> o, session |-> request[r].session]
      /\ \A q \in Requests \ {r} : request'[q] = request[q]
  BY <1>1, <1>2 DEF WapRow
<1>4. request'[r].kind = kind /\ request'[r].order = o /\ request'[r].session = request[r].session
  BY <1>3
<1>5. \A p \in Orders : \/ order'[p].session = order[p].session
                        \/ p = o /\ order'[p].session = request[r].session
  BY <1>1 DEF AddOrder
<1>6. ~InStep(r, "order")'
  BY <1>4 DEF InStep
<1>7. SessionsInUse' /\ OwnSessions'
  BY <1>1, <1>3, <1>4, <1>5, <1>6, HoldersStay
<1>8. ASSUME o \notin broken'
      PROVE  PaidOk(o)'
  <2>1. Attempting(o) = {r}
    BY <1>2, <1>8, AloneOnItsWay
  <2>2. Attempting(o)' \subseteq {r}
    BY <1>3, <2>1 DEF Attempting
  <2>3. request'[r] # Idle
    <3>1. request'[r] \in WapRow
      BY <1>2, <1>3 DEF WapRow, WapKinds
    <3> QED
      BY <3>1, IdleAssumption DEF WapRow, WapKinds
  <2> QED
    BY <1>4, <1>8, <2>2, <2>3 DEF PaidOk, Attempting
<1>9. \A p \in WapOrders \ {o} : order'[p].session = order[p].session
  BY <1>5, WapAssumption
<1> QED
  BY <1>3, <1>4, <1>7, <1>8, <1>9, OthersRest

LEMMA WapPlaceKeepsPaid ==
    ASSUME DiningInv, PaidInv, NEW r \in Requests, WapPlace(r)
    PROVE  PaidInv'
<1>1. /\ InStep(r, "wap_place") /\ UNCHANGED <<session, paid, broken>>
      /\ request' = [request EXCEPT ![r] = [@ EXCEPT !.kind = "wap_pay"]]
  BY DEF WapPlace
<1>2. Selling(r) /\ Holds(r) /\ request[r].kind = "wap_place"
  BY <1>1 DEF Selling, Holds, InStep, WapKinds
<1>3. request[r] \in WapRow
  BY <1>2, AloneOnItsWay
<1>o. PICK o \in WapOrders : o = request[r].order
  BY <1>3 DEF WapRow
<1>4. IF order[o].session = NoSession THEN AddOrder(o, request[r].session)
      ELSE UNCHANGED order
  BY <1>o DEF WapPlace
<1>5. request'[r].kind = "wap_pay" /\ request'[r].session = request[r].session
  BY <1>1, <1>3 DEF DiningInv, SaleInv, SaleShapes, WapRow
<1>6. ASSUME o \notin broken
      PROVE  AttemptOk(r, o)'
  <2>1. Unplaced(o) \/ AtTable(o)
    BY <1>2, <1>o, <1>6, AloneOnItsWay DEF AttemptOk
  <2>2. CASE Unplaced(o)
    <3>1. o \in Orders /\ order' = [order EXCEPT ![o] =
                [session |-> request[r].session, status |-> "pending", version |-> 1]]
      BY <1>4, <2>2, WapAssumption DEF Unplaced, AddOrder
    <3>2. order'[o].session = request[r].session
      BY <3>1 DEF DiningInv, RowInv
    <3> QED
      BY <1>5, <3>2 DEF AttemptOk
  <2>3. CASE AtTable(o)
    <3>1. AtTable(o)'
      BY <1>1, <1>4, <2>3 DEF AtTable, Placed
    <3> QED
      BY <1>5, <3>1 DEF AttemptOk
  <2> QED
    BY <2>1, <2>2, <2>3
<1> QED
  BY <1>1, <1>2, <1>4, <1>6, <1>o, MoveKeepsPaid

LEMMA WapPayKeepsPaid ==
    ASSUME DiningInv, PaidInv, NEW r \in Requests, WapPay(r)
    PROVE  PaidInv'
<1>1. /\ InStep(r, "wap_pay") /\ UNCHANGED <<session, order, broken>>
      /\ request' = [request EXCEPT ![r] = [@ EXCEPT !.kind = "wap_link"]]
  BY DEF WapPay, rowVars
<1>2. Selling(r) /\ Holds(r) /\ request[r].kind = "wap_pay"
  BY <1>1 DEF Selling, Holds, InStep, WapKinds
<1>3. request[r] \in WapRow
  BY <1>2, AloneOnItsWay
<1>o. PICK o \in WapOrders : o = request[r].order
  BY <1>3 DEF WapRow
<1>4. o \notin paid /\ paid' = paid \cup {o}
  BY <1>o DEF WapPay
<1>5. request'[r].kind = "wap_link" /\ request'[r].session = request[r].session
  BY <1>1, <1>3 DEF DiningInv, SaleInv, SaleShapes, WapRow
<1>6. ASSUME o \notin broken
      PROVE  AttemptOk(r, o)'
  <2>1. order[o].session = request[r].session
    BY <1>2, <1>4, <1>o, <1>6, AloneOnItsWay DEF AttemptOk, AtTable, Placed
  <2> QED
    BY <1>1, <1>5, <2>1 DEF AttemptOk
<1> QED
  BY <1>1, <1>2, <1>4, <1>6, <1>o, MoveKeepsPaid

LEMMA WapLinkKeepsPaid ==
    ASSUME DiningInv, PaidInv, NEW r \in Requests, WapLink(r)
    PROVE  PaidInv'
<1>1. /\ request = [q \in Requests |-> request[q]] /\ session \in [Sessions -> SessionRow]
      /\ \A p \in Orders : order[p].session \in Sessions \cup {NoSession}
  BY DEF DiningInv, SaleInv, SaleShapes, RowInv, OrderRow
<1>2. /\ InStep(r, "wap_link") /\ UNCHANGED <<order, paid, broken>>
      /\ session' = [session EXCEPT ![request[r].session].sale = request[r].order]
      /\ request' = [request EXCEPT ![r] = Idle]
  BY DEF WapLink, Finish, historyVars
<1>3. Selling(r) /\ Holds(r) /\ request[r].kind = "wap_link"
  BY <1>2 DEF Selling, Holds, InStep, WapKinds
<1>4. request[r] \in WapRow
  BY <1>3, AloneOnItsWay
<1>o. PICK o \in WapOrders : o = request[r].order
  BY <1>4 DEF WapRow
<1>5. request'[r] = Idle /\ \A q \in Requests \ {r} : request'[q] = request[q]
  BY <1>1, <1>2
<1>6. ~Selling(r)' /\ ~Holds(r)' /\ ~InStep(r, "order")'
  BY <1>5 DEF Selling, Holds, InStep
<1>7. \A s \in Sessions : /\ session'[s].status = session[s].status
                          /\ session'[s].sale = IF s = request[r].session THEN o ELSE session[s].sale
  BY <1>1, <1>2, <1>o DEF SessionRow
<1>8. SessionsInUse' /\ OwnSessions'
  BY <1>1, <1>2, <1>5, <1>6, <1>7, HoldersStay
<1>9. ASSUME o \notin broken'
      PROVE  PaidOk(o)'
  <2>1. Attempting(o) = {r} /\ order[o].session = request[r].session
    BY <1>2, <1>3, <1>o, <1>9, AloneOnItsWay DEF AttemptOk
  <2>2. Attempting(o)' = {}
    BY <1>5, <2>1 DEF Attempting
  <2>3. o \in paid /\ request[r].session \in Sessions
    BY <1>2, <1>3, <1>o DEF DiningInv, SaleInv, LinkedIsSold, PaidInv, SessionsInUse
  <2>4. Linked(o)'
    BY <1>2, <1>7, <2>1, <2>3, NoneAssumption DEF Linked, Placed
  <2> QED
    BY <2>2, <2>4 DEF PaidOk
<1> QED
  BY <1>2, <1>3, <1>5, <1>6, <1>7, <1>8, <1>9, <1>o, OthersRest

LEMMA AbortKeepsPaid ==
    ASSUME DiningInv, PaidInv, NEW r \in Requests, Abort(r)
    PROVE  PaidInv'
<1>1. /\ request = [q \in Requests |-> request[q]]
      /\ \A p \in Orders : order[p].session \in Sessions \cup {NoSession}
  BY DEF DiningInv, SaleInv, SaleShapes, RowInv, OrderRow
<1>2. /\ UNCHANGED <<session, order, paid>> /\ request[r] # Idle
      /\ broken' = IF request[r].kind \in {"wap_place", "wap_pay", "wap_link"}
                   THEN broken \cup {request[r].order} ELSE broken
  BY DEF Abort, rowVars, Free
<1>3. request'[r] = Idle /\ \A q \in Requests \ {r} : request'[q] = request[q]
  BY <1>1 DEF Abort, Finish
<1>4. ~Selling(r)' /\ ~Holds(r)' /\ ~InStep(r, "order")'
  BY <1>3 DEF Selling, Holds, InStep
<1>5. SessionsInUse' /\ OwnSessions'
  BY <1>1, <1>2, <1>3, <1>4, HoldersStay
<1>6. CASE ~Selling(r)
  <2>1. Calm
    BY <1>2, <1>3, <1>4, <1>6 DEF Calm, Selling, InStep, WapKinds
  <2> QED
    BY <2>1, CalmKeepsPaid
<1>7. CASE Selling(r)
  <2>1. request[r] \in WapRow
    BY <1>7, AloneOnItsWay
  <2>o. PICK o \in WapOrders : o = request[r].order
    BY <2>1 DEF WapRow
  <2>2. ASSUME o \notin broken'
        PROVE  PaidOk(o)'
    <3>1. request[r].kind = "wap_open" /\ o \notin broken
      BY <1>2, <1>7, <2>o, <2>2 DEF Selling, WapKinds
    <3>2. Attempting(o) = {r} /\ (Unplaced(o) \/ AtTable(o))
      BY <1>7, <2>o, <3>1, AloneOnItsWay DEF AttemptOk
    <3>3. Attempting(o)' = {}
      BY <1>3, <3>2 DEF Attempting
    <3>4. (Unplaced(o) \/ AtTable(o))'
      BY <1>2, <3>2 DEF Unplaced, AtTable, Placed
    <3> QED
      BY <3>3, <3>4 DEF PaidOk
  <2>3. broken \subseteq broken'
    BY <1>2
  <2> QED
    BY <1>2, <1>3, <1>4, <1>5, <2>2, <2>3, <2>o, OthersRest
<1> QED
  BY <1>6, <1>7

LEMMA PaidInvIsInductive ==
    ASSUME DiningInv, PaidInv, [Next]_vars
    PROVE  PaidInv'
<1>1. CASE UNCHANGED vars
  BY <1>1, CalmKeepsPaid DEF vars, rowVars, historyVars, Calm, InStep, Selling
<1>2. ASSUME NEW r \in Requests, Look(r) \/ Write(r)
      PROVE  PaidInv'
  <2>1. CASE ~WapStep(r)
    BY <1>2, <2>1, LookIsCalm, WriteIsCalm, CalmKeepsPaid DEF PaidInv
  <2>2. CASE WapStep(r)
    BY <2>2, WapLookupKeepsPaid, WapOpenKeepsPaid, WapPlaceKeepsPaid, WapPayKeepsPaid,
       WapLinkKeepsPaid, AbortKeepsPaid DEF WapStep
  <2> QED
    BY <2>1, <2>2
<1>3. CASE (\E o \in Orders : CancelOrder(o)) \/ \E i \in Items, o \in Orders : Reopen(i, o)
  <2>1. SessionsInUse
    BY DEF PaidInv
  <2> QED
    BY <1>3, <2>1, CancellationIsCalm, CalmKeepsPaid
<1>4. CASE \E s \in Sessions : SessionStep(s)
  BY <1>4, SessionStepIsCalm, CalmKeepsPaid
<1> QED
  BY <1>1, <1>2, <1>3, <1>4 DEF Next

LEMMA PaidHoldsAtFirst == Init => PaidInv /\ CellTypes
<1> SUFFICES ASSUME Init PROVE PaidInv /\ CellTypes
  OBVIOUS
<1>1. \A o \in Orders : order[o].session = NoSession /\ order[o].version = 0
  BY DEF Init
<1>2. paid = {} /\ \A r \in Requests : request[r] = Idle
  BY DEF Init
<1>3. PaidInv
  BY <1>1, <1>2, WapAssumption DEF PaidInv, SessionsInUse, OwnSessions, PaidOk, Unplaced, Holds, InStep,
     Attempting
<1>4. CellTypes
  BY <1>1, <1>2, BoundAssumption DEF Init, CellTypes, Status
<1> QED
  BY <1>3, <1>4

--------------------------------------------------------------------------------
(* A paid order stands in the session that answers for it *)

\* The session that is linked to a sale holds its order, unless an attempt was cut off.
LinksOwn == \A o \in WapOrders \ broken, s \in Sessions :
    session[s].sale = o => order[o].session = s

\* A paid order has no tickets before its session is sold, so that nothing of it is
\* cancelled before, and nothing after.
Unslipped == \A o \in WapOrders :
    /\ order[o].status # "cancelled"
    /\ order[o].session # NoSession /\ session[order[o].session].sale = "none" =>
            \A i \in ItemsOf(o) : ticket[i] = "none"

\* Handlers that work on tickets have read that they are there.
WorksTickets(r) ==
    /\ InStep(r, "ticket") => request[r].item \in Items /\ ticket[request[r].item] # "none"
    /\ InStep(r, "pickup") => /\ DOMAIN request[r].seen \subseteq Items
                              /\ \A i \in DOMAIN request[r].seen : ticket[i] # "none"

StandInv == LinksOwn /\ Unslipped /\ \A r \in Requests : WorksTickets(r)

\* What every step does to the tickets and the orders that were paid.
TicketStep ==
    /\ \A i \in Items : ticket[i] # "none" => ticket'[i] # "none"
    /\ \A i \in Items : OrderOf[i] \in WapOrders /\ ticket[i] = "none" /\ ticket'[i] # "none" =>
            order[OrderOf[i]].session \in Sessions /\ session[order[OrderOf[i]].session].sale # "none"
    /\ \A o \in WapOrders : order'[o].status = "cancelled" => order[o].status = "cancelled"
    /\ \A o \in WapOrders : order[o].session # NoSession => order'[o].session = order[o].session

\* What every step does to the links.
LinkStep ==
    /\ broken \subseteq broken'
    /\ \A s \in Sessions : session[s].status # "none" /\ session[s].sale # "none" =>
            session'[s].sale # "none"
    /\ \A s \in Sessions : session'[s].sale \in WapOrders \ broken =>
            session'[s].sale = session[s].sale \/ order[session'[s].sale].session = s

LEMMA StepsLeavePaidOrders ==
    ASSUME DiningInv, PaidInv, LinksOwn, Unslipped, TicketStep, LinkStep
    PROVE  LinksOwn' /\ Unslipped'
<1>1. \A o \in WapOrders : o \in Orders /\ order[o].session \in Sessions \cup {NoSession}
  BY WapAssumption DEF DiningInv, RowInv, OrderRow
<1>2. ASSUME NEW o \in WapOrders \ broken', NEW s \in Sessions, session'[s].sale = o
      PROVE  order'[o].session = s
  <2>1. o \in WapOrders \ broken /\ order[o].session = s
    BY <1>2 DEF LinkStep, LinksOwn
  <2> QED
    BY <2>1, NoneAssumption DEF TicketStep
<1>3. ASSUME NEW o \in WapOrders, order'[o].session # NoSession,
             session'[order'[o].session].sale = "none", NEW i \in ItemsOf(o)
      PROVE  ticket'[i] = "none"
  <2>1. i \in Items /\ OrderOf[i] = o
    BY DEF ItemsOf
  <2>2. SUFFICES ASSUME ticket'[i] # "none"
                 PROVE  FALSE
    OBVIOUS
  <2>3. order[o].session # NoSession
    BY <1>1, <2>1, <2>2, NoneAssumption DEF TicketStep, DiningInv, RowInv
  <2>4. order[o].session \in Sessions /\ session[order[o].session].status # "none"
    BY <1>1, <2>3 DEF PaidInv, SessionsInUse
  <2>5. order'[o].session = order[o].session /\ session[order[o].session].sale = "none"
    BY <1>3, <2>3, <2>4 DEF TicketStep, LinkStep
  <2>6. ticket[i] = "none"
    BY <2>3, <2>5 DEF Unslipped
  <2> QED
    BY <2>1, <2>2, <2>5, <2>6 DEF TicketStep
<1>4. \A o \in WapOrders : order'[o].status # "cancelled"
  BY DEF TicketStep, Unslipped
<1>5. \A o \in WapOrders : ItemsOf(o)' = ItemsOf(o)
  BY DEF ItemsOf
<1> QED
  BY <1>2, <1>3, <1>4, <1>5 DEF LinksOwn, Unslipped

LEMMA TicketsUntouched ==
    ASSUME UNCHANGED <<order, ticket>>
    PROVE  TicketStep
  BY DEF TicketStep

LEMMA LinksUntouched ==
    ASSUME UNCHANGED session, broken \subseteq broken'
    PROVE  LinkStep
  BY DEF LinkStep

LEMMA AddOrderStands ==
    ASSUME DiningInv, NEW o \in Orders, NEW s, order[o].session = NoSession, AddOrder(o, s)
    PROVE  TicketStep
<1>1. order \in [Orders -> OrderRow] /\ \A p \in WapOrders : p \in Orders
  BY WapAssumption DEF DiningInv, RowInv
<1>2. /\ order' = [order EXCEPT ![o] = [session |-> s, status |-> "pending", version |-> 1]]
      /\ ticket' = [i \in Items |-> IF OrderOf[i] = o /\ o \notin WapOrders THEN "pending" ELSE ticket[i]]
  BY DEF AddOrder
<1>3. order'[o].status = "pending" /\ \A p \in Orders \ {o} : order'[p] = order[p]
  BY <1>1, <1>2
<1> QED
  BY <1>1, <1>2, <1>3 DEF TicketStep

\* A paid order that is not sold has nothing to cancel, and one that is sold takes none.
LEMMA CancelStands ==
    ASSUME DiningInv, Unslipped, NEW o \in Orders, NEW I \in SUBSET ItemsOf(o), NEW stages,
           Cancel(I, o, stages)
    PROVE  TicketStep
<1>1. order \in [Orders -> OrderRow] /\ \A p \in WapOrders : p \in Orders
  BY WapAssumption DEF DiningInv, RowInv
<1>2. o \notin WapOrders
  <2>1. PICK i \in I : ticket[i] # "none"
    BY DEF Cancel
  <2> QED
    BY <2>1 DEF Cancel, SessionTakesCancellation, WorkedOn, Unslipped
<1>3. \A p \in Orders \ {o} : order'[p] = order[p]
  <2> DEFINE row == [order[o] EXCEPT !.version = @ + 1]
             status == IF Active(o) \subseteq I THEN "cancelled" ELSE order[o].status
  <2>1. order' = [[order EXCEPT ![o] = row] EXCEPT ![o] = [row EXCEPT !.status = status]]
    BY <1>1 DEF Cancel
  <2> HIDE DEF row, status
  <2> QED
    BY <1>1, <2>1
<1>4. \A i \in Items : /\ ticket[i] # "none" => ticket'[i] # "none"
                       /\ ticket[i] = "none" => ticket'[i] = "none"
  BY DEF Cancel
<1> QED
  BY <1>1, <1>2, <1>3, <1>4 DEF TicketStep

\* A status is written to tickets that are there.
LEMMA WriteStatusStands ==
    ASSUME NEW I \in SUBSET Items, NEW seen, NEW new \in Working, WriteStatus(I, seen, new),
           \A i \in I : ticket[i] # "none" \/ seen[i].ticket = "none",
           \A o \in WapOrders : order'[o].status = order[o].status /\ order'[o].session = order[o].session
    PROVE  TicketStep
<1>1. \A i \in Items : /\ ticket[i] # "none" => ticket'[i] # "none"
                       /\ ticket[i] = "none" => ticket'[i] = "none"
  BY DEF WriteStatus, Written, Working
<1> QED
  BY <1>1 DEF TicketStep

LEMMA KitchenStands ==
    ASSUME DiningInv, NEW r \in Requests, WorksTickets(r),
           MarkServed(r) \/ \E new \in Working : UpdateTicket(r, new) \/ UpdateItem(r, new)
    PROVE  TicketStep
<1>0. order \in [Orders -> OrderRow] /\ \A o \in WapOrders : o \in Orders
  BY WapAssumption DEF DiningInv, RowInv
<1>1. CASE MarkServed(r)
  <2>1. WriteStatus(DOMAIN request[r].seen, request[r].seen, "served") /\ UNCHANGED order
    BY <1>1 DEF MarkServed
  <2>2. DOMAIN request[r].seen \subseteq Items /\ \A i \in DOMAIN request[r].seen : ticket[i] # "none"
    BY <1>1 DEF WorksTickets, MarkServed
  <2>3. "served" \in Working
    BY DEF Working
  <2> QED
    BY <2>1, <2>2, <2>3, WriteStatusStands
<1>2. ASSUME NEW new \in Working, UpdateTicket(r, new)
      PROVE  TicketStep
  <2>1. PICK i \in Items : i = request[r].item
    BY <1>2 DEF DiningInv, ReadInv, ReadOk, UpdateTicket
  <2> DEFINE seen == [j \in {i} |-> request[r].seen]
  <2>2. /\ WriteStatus({i}, seen, new)
        /\ order' = [order EXCEPT ![OrderOf[i]].version = order[OrderOf[i]].version + 1]
    BY <1>2, <2>1, Zenon DEF UpdateTicket
  <2>3. ticket[i] # "none"
    BY <1>2, <2>1 DEF WorksTickets, UpdateTicket
  <2>4. \A o \in WapOrders : order'[o].status = order[o].status /\ order'[o].session = order[o].session
    BY <1>0, <2>2 DEF OrderRow
  <2> HIDE DEF seen
  <2> QED
    BY <2>2, <2>3, <2>4, WriteStatusStands
<1>3. ASSUME NEW new \in Working, UpdateItem(r, new)
      PROVE  TicketStep
  <2>1. PICK i \in Items : i = request[r].item
    BY <1>3 DEF DiningInv, ReadInv, ReadOk, UpdateItem
  <2> DEFINE seen == [j \in {i} |-> [ticket |-> ticket[i], item |-> request[r].seen]]
  <2>2. /\ WriteStatus({i}, seen, new)
        /\ order' = [order EXCEPT ![OrderOf[i]].version = request[r].version + 1]
    BY <1>3, <2>1, Zenon DEF UpdateItem
  <2>3. \A j \in {i} : ticket[j] # "none" \/ seen[j].ticket = "none"
    OBVIOUS
  <2>4. \A o \in WapOrders : order'[o].status = order[o].status /\ order'[o].session = order[o].session
    BY <1>0, <2>2 DEF OrderRow
  <2> HIDE DEF seen
  <2> QED
    BY <2>2, <2>3, <2>4, WriteStatusStands
<1> QED
  BY <1>1, <1>2, <1>3

LEMMA PrintStands ==
    ASSUME DiningInv, NEW s \in Sessions, PrintKitchenSlip(s)
    PROVE  TicketStep
<1> DEFINE missing == {i \in Billable(s) : ticket[i] = "none"}
<1>1. /\ ticket' = [i \in Items |-> IF i \in missing THEN "pending" ELSE ticket[i]]
      /\ session[s].sale # "none" /\ UNCHANGED order
  BY DEF PrintKitchenSlip
<1>2. \A i \in missing : order[OrderOf[i]].session = s
  BY DEF Billable, Active, ItemsOf, OrdersOf
<1> HIDE DEF missing
<1> QED
  BY <1>1, <1>2 DEF TicketStep

\* Tickets and orders, in every step.
LEMMA NextIsTicketStep ==
    ASSUME DiningInv, Unslipped, \A r \in Requests : WorksTickets(r), [Next]_vars
    PROVE  TicketStep
<1>1. CASE UNCHANGED vars
  BY <1>1, TicketsUntouched DEF vars, rowVars
<1>2. ASSUME NEW s \in Sessions, SessionStep(s)
      PROVE  TicketStep
  <2>1. UNCHANGED <<order, ticket>> \/ PrintKitchenSlip(s)
    BY <1>2 DEF SessionStep, OpenSession, RequestBill, CloseSession
  <2> QED
    BY <2>1, TicketsUntouched, PrintStands
<1>3. ASSUME NEW r \in Requests, Look(r)
      PROVE  TicketStep
  <2>1. UNCHANGED <<order, ticket>>
    BY <1>3 DEF Look, LookToOrder, LookToPickUp, LookToCheckout, LookToCook, LookAtItem,
       LookToCancel, WapLookup, rowVars
  <2> QED
    BY <2>1, TicketsUntouched
<1>4. ASSUME NEW r \in Requests, Write(r)
      PROVE  TicketStep
  <2>1. CASE \/ PayBill(r) \/ CloseSold(r) \/ (\E s \in Sessions : WapOpen(r, s))
             \/ WapPay(r) \/ WapLink(r) \/ Abort(r)
    <3>1. UNCHANGED <<order, ticket>>
      BY <2>1 DEF PayBill, CloseSold, WapOpen, WapPay, WapLink, Abort, rowVars
    <3> QED
      BY <3>1, TicketsUntouched
  <2>2. CASE PlaceOrder(r) \/ WapPlace(r)
    <3>1. request[r].order \in Orders
      BY <2>2, WapAssumption DEF PlaceOrder, WapPlace, DiningInv, ReadInv, ReadOk, SaleInv,
         SaleShapes, Selling, InStep, WapKinds
    <3>2. CASE UNCHANGED <<order, ticket>>
      BY <3>2, TicketsUntouched
    <3>3. CASE /\ order[request[r].order].session = NoSession
               /\ AddOrder(request[r].order, request[r].session)
      BY <3>1, <3>3, AddOrderStands
    <3> QED
      BY <2>2, <3>2, <3>3 DEF PlaceOrder, WapPlace
  <2>3. CASE MarkServed(r) \/ \E new \in Working : UpdateTicket(r, new) \/ UpdateItem(r, new)
    BY <2>3, KitchenStands
  <2>4. CASE CancelItem(r)
    <3>1. PICK i \in Items : i = request[r].item
      BY <2>4 DEF DiningInv, ReadInv, ReadOk, CancelItem
    <3> DEFINE I == {i}
               stages == {request[r].seen}
    <3>2. Cancel(I, OrderOf[i], stages)
      BY <2>4, <3>1, Zenon DEF CancelItem
    <3>3. OrderOf[i] \in Orders /\ I \in SUBSET ItemsOf(OrderOf[i])
      BY OrderOfAssumption DEF ItemsOf
    <3> HIDE DEF I, stages
    <3> QED
      BY <3>2, <3>3, CancelStands
  <2> QED
    BY <1>4, <2>1, <2>2, <2>3, <2>4 DEF Write
<1>5. ASSUME NEW o \in Orders, CancelOrder(o)
      PROVE  TicketStep
  <2> DEFINE I == Active(o)
             stages == {item[i] : i \in I}
  <2>1. Cancel(I, o, stages) /\ I \in SUBSET ItemsOf(o)
    BY <1>5 DEF CancelOrder, Active
  <2> HIDE DEF I, stages
  <2> QED
    BY <2>1, CancelStands
<1>6. ASSUME NEW i \in Items, NEW o \in Orders, Reopen(i, o)
      PROVE  TicketStep
  BY <1>6, AddOrderStands DEF Reopen
<1> QED
  BY <1>1, <1>2, <1>3, <1>4, <1>5, <1>6 DEF Next

\* Links, in every step: a paid order is linked in the session it was placed in.
LEMMA NextIsLinkStep ==
    ASSUME DiningInv, PaidInv, [Next]_vars
    PROVE  LinkStep
<1>0. session \in [Sessions -> SessionRow] /\ "none" \notin WapOrders /\ "table" \notin WapOrders
  BY WapAssumption DEF DiningInv, SaleInv, SaleShapes
<1>1. CASE UNCHANGED vars
  BY <1>1, LinksUntouched DEF vars, rowVars, historyVars
<1>2. ASSUME NEW s \in Sessions, SessionStep(s)
      PROVE  LinkStep
  <2>1. CASE \E quick \in BOOLEAN : OpenSession(s, quick)
    <3>1. /\ UNCHANGED broken /\ session[s].status = "none" /\ session'[s].sale = "none"
          /\ \A t \in Sessions \ {s} : session'[t] = session[t]
      BY <1>0, <2>1 DEF OpenSession, historyVars
    <3> QED
      BY <1>0, <3>1 DEF LinkStep
  <2>2. CASE RequestBill(s) \/ CloseSession(s)
    <3>1. UNCHANGED broken /\ \A t \in Sessions : session'[t].sale = session[t].sale
      BY <1>0, <2>2 DEF RequestBill, CloseSession, historyVars, SessionRow
    <3> QED
      BY <3>1 DEF LinkStep
  <2>3. CASE PrintKitchenSlip(s)
    BY <2>3, LinksUntouched DEF PrintKitchenSlip
  <2> QED
    BY <1>2, <2>1, <2>2, <2>3 DEF SessionStep
<1>3. ASSUME NEW r \in Requests, Look(r)
      PROVE  LinkStep
  <2>1. UNCHANGED session /\ broken \subseteq broken'
    BY <1>3 DEF Look, LookToOrder, LookToPickUp, LookToCheckout, LookToCook, LookAtItem,
       LookToCancel, WapLookup, rowVars, historyVars
  <2> QED
    BY <2>1, LinksUntouched
<1>4. ASSUME NEW r \in Requests, Write(r)
      PROVE  LinkStep
  <2>1. CASE \/ PlaceOrder(r) \/ MarkServed(r) \/ CancelItem(r) \/ PayBill(r) \/ WapPlace(r)
             \/ WapPay(r) \/ Abort(r) \/ \E new \in Working : UpdateTicket(r, new) \/ UpdateItem(r, new)
    <3>1. UNCHANGED session /\ broken \subseteq broken'
      BY <2>1 DEF PlaceOrder, MarkServed, CancelItem, PayBill, WapPlace, WapPay, Abort,
         UpdateTicket, UpdateItem, rowVars, historyVars
    <3> QED
      BY <3>1, LinksUntouched
  <2>2. CASE CloseSold(r)
    <3>1. UNCHANGED broken /\ \A t \in Sessions : session'[t].sale \in {session[t].sale, "table"}
      BY <1>0, <2>2 DEF CloseSold, historyVars, SessionRow
    <3> QED
      BY <1>0, <3>1 DEF LinkStep
  <2>3. ASSUME NEW s \in Sessions, WapOpen(r, s)
        PROVE  LinkStep
    <3>1. /\ UNCHANGED broken /\ session[s].status = "none" /\ session'[s].sale = "none"
          /\ \A t \in Sessions \ {s} : session'[t] = session[t]
      BY <1>0, <2>3 DEF WapOpen, historyVars
    <3> QED
      BY <1>0, <3>1 DEF LinkStep
  <2>4. CASE WapLink(r)
    <3>1. Selling(r) /\ request[r].kind = "wap_link" /\ UNCHANGED broken
      BY <2>4 DEF WapLink, Selling, InStep, WapKinds, historyVars
    <3>2. /\ request[r].order \in WapOrders
          /\ request[r].order \notin broken => order[request[r].order].session = request[r].session
      BY <3>1, AloneOnItsWay DEF AttemptOk, WapRow
    <3>3. \A t \in Sessions : \/ session'[t].sale = session[t].sale
                              \/ t = request[r].session /\ session'[t].sale = request[r].order
      BY <1>0, <2>4 DEF WapLink, SessionRow
    <3> QED
      BY <1>0, <3>1, <3>2, <3>3 DEF LinkStep
  <2> QED
    BY <1>4, <2>1, <2>2, <2>3, <2>4 DEF Write
<1>5. CASE (\E o \in Orders : CancelOrder(o)) \/ \E i \in Items, o \in Orders : Reopen(i, o)
  BY <1>5, LinksUntouched DEF CancelOrder, Reopen
<1> QED
  BY <1>1, <1>2, <1>3, <1>4, <1>5 DEF Next

\* What a handler of tickets has read stays good.
LEMMA WorkStays ==
    ASSUME DiningInv, TicketStep, \A r \in Requests : WorksTickets(r), [Next]_vars
    PROVE  \A r \in Requests : WorksTickets(r)'
<1>1. ASSUME NEW r \in Requests, request'[r] = request[r]
      PROVE  WorksTickets(r)'
  BY <1>1 DEF WorksTickets, TicketStep, InStep
<1>2. ASSUME UNCHANGED request
      PROVE  \A r \in Requests : WorksTickets(r)'
  BY <1>1, <1>2
<1>3. ASSUME NEW q \in Requests, Look(q) \/ Write(q)
      PROVE  \A r \in Requests : WorksTickets(r)'
  <2>1. \A r \in Requests \ {q} : request'[r] = request[r]
    BY <1>3, OwnSlot DEF DiningInv
  <2>r. request = [r \in Requests |-> request[r]]
    BY DEF DiningInv, SaleInv, SaleShapes
  <2>2. WorksTickets(q)'
    <3>1. CASE ~InStep(q, "ticket")' /\ ~InStep(q, "pickup")'
      BY <3>1 DEF WorksTickets
    <3>2. ASSUME NEW i \in Items, LookToCook(q, i)
          PROVE  WorksTickets(q)'
      <4>1. ticket[i] # "none" /\ UNCHANGED ticket
        BY <3>2 DEF LookToCook, Allowed, rowVars
      <4>2. request'[q] = [kind |-> "ticket", item |-> i, seen |-> Seen(i)]
        BY <2>r, <3>2 DEF LookToCook
      <4> QED
        BY <4>1, <4>2 DEF WorksTickets, InStep
    <3>3. ASSUME NEW s \in Sessions, LookToPickUp(q, s)
          PROVE  WorksTickets(q)'
      <4> DEFINE ready == {i \in TicketsOf(s) : ticket[i] = "done"}
                 seen == [i \in ready |-> Seen(i)]
      <4>1. UNCHANGED ticket
        BY <3>3 DEF LookToPickUp, rowVars
      <4>2. request'[q] = [kind |-> "pickup", seen |-> seen]
        BY <2>r, <3>3 DEF LookToPickUp
      <4>3. DOMAIN seen \subseteq Items /\ \A i \in DOMAIN seen : ticket[i] # "none"
        BY DEF TicketsOf
      <4> HIDE DEF seen
      <4> QED
        BY <4>1, <4>2, <4>3 DEF WorksTickets, InStep
    <3>4. CASE \/ \E i \in Items : LookAtItem(q, i) \/ LookToCancel(q, i)
               \/ \E s \in Sessions : (\E o \in Orders : LookToOrder(q, s, o)) \/ LookToCheckout(q, s)
               \/ \E o \in WapOrders : WapLookup(q, o)
      <4>1. \E c : request'[q] = c /\ c.kind \notin {"ticket", "pickup"}
        BY <2>r, <3>4 DEF LookAtItem, LookToCancel, LookToOrder, LookToCheckout, WapLookup
      <4> QED
        BY <3>1, <4>1 DEF InStep
    <3>5. CASE Write(q)
      <4>1. \/ request'[q] = Idle
            \/ request'[q].kind \in {"close", "wap_place", "wap_pay", "wap_link"}
        <5>1. CASE PayBill(q)
          BY <2>r, <5>1 DEF PayBill, DiningInv, SaleInv, SaleShapes
        <5>2. CASE (\E s \in Sessions : WapOpen(q, s)) \/ WapPlace(q) \/ WapPay(q)
          <6>1. request[q] \in [kind : WapKinds, order : WapOrders, session : Sessions \cup {NoSession}]
            BY <5>2 DEF WapOpen, WapPlace, WapPay, DiningInv, SaleInv, SaleShapes, Selling, InStep, WapKinds
          <6> QED
            BY <2>r, <5>2, <6>1 DEF WapOpen, WapPlace, WapPay
        <5>3. CASE ~(PayBill(q) \/ (\E s \in Sessions : WapOpen(q, s)) \/ WapPlace(q) \/ WapPay(q))
          <6>1. Finish(q)
            BY <3>5, <5>3 DEF Write, PlaceOrder, MarkServed, CancelItem, CloseSold, UpdateTicket,
               UpdateItem, WapLink, Abort
          <6> QED
            BY <2>r, <6>1 DEF Finish
        <5> QED
          BY <5>1, <5>2, <5>3
      <4> QED
        BY <3>1, <4>1 DEF InStep
    <3> QED
      BY <1>3, <3>2, <3>3, <3>4, <3>5 DEF Look
  <2> QED
    BY <1>1, <2>1, <2>2
<1>4. CASE UNCHANGED vars
  BY <1>2, <1>4 DEF vars
<1>5. CASE \E s \in Sessions : SessionStep(s)
  BY <1>2, <1>5 DEF SessionStep, OpenSession, RequestBill, CloseSession, PrintKitchenSlip
<1>6. CASE (\E o \in Orders : CancelOrder(o)) \/ \E i \in Items, o \in Orders : Reopen(i, o)
  BY <1>2, <1>6 DEF CancelOrder, Reopen
<1> QED
  BY <1>3, <1>4, <1>5, <1>6 DEF Next

LEMMA StandInvIsInductive ==
    ASSUME DiningInv, PaidInv, StandInv, [Next]_vars
    PROVE  StandInv'
<1>1. TicketStep /\ LinkStep
  BY NextIsTicketStep, NextIsLinkStep DEF StandInv
<1> QED
  BY <1>1, StepsLeavePaidOrders, WorkStays DEF StandInv

LEMMA StandHoldsAtFirst == Init => StandInv
  BY WapAssumption DEF Init, StandInv, LinksOwn, Unslipped, WorksTickets, InStep

--------------------------------------------------------------------------------

TableInv == DiningInv /\ BillInv /\ CellTypes /\ PaidInv /\ StandInv

LEMMA TableInvIsInductive ==
    ASSUME TableInv, [Next]_vars
    PROVE  TableInv'
  BY DiningInvIsInductive, BillInvIsInductive, CellTypesAreKept, PaidInvIsInductive, StandInvIsInductive
  DEF TableInv

LEMMA TableInvHoldsAtFirst == Init => TableInv
  BY DiningInvHoldsAtFirst, BillsHoldAtFirst, PaidHoldsAtFirst, StandHoldsAtFirst DEF TableInv

\* The session that a waiter's paid order is linked to holds the order, so that its slip
\* prints what was paid, unless an attempt was cut off or ran beside another.
THEOREM PaidOrdersAreInTheirSessions == Spec => []PaidOrderIsInItsSession
<1>1. TableInv => PaidOrderIsInItsSession
  BY DEF TableInv, DiningInv, PaidInv, PaidOk, CellTypes, Unplaced, Linked, AtTable, PaidOrderIsInItsSession
<1>2. TableInv /\ [Next]_vars => TableInv'
  BY TableInvIsInductive
<1> QED
  BY <1>1, <1>2, TableInvHoldsAtFirst, PTL DEF Spec

LEMMA TableTypes ==
    ASSUME TableInv
    PROVE  TypeOK
<1>1. \A s \in Sessions : /\ session[s].status \in {"none", "open", "bill_requested", "closed"}
                          /\ session[s].sale \in {"none", "table"} \cup WapOrders
                          /\ bill[s].items \subseteq Items
  BY DEF TableInv, DiningInv, SaleInv, SaleShapes, SessionRow, BillInv, OfSession
<1>2. \A o \in Orders : /\ order[o].session \in Sessions \cup {NoSession}
                        /\ order[o].status \in {"none", "pending", "cancelled"}
                        /\ order[o].version \in 0..MaxVersion[o]
  <2>1. ASSUME NEW o \in Orders
        PROVE  order[o].version \in 0..MaxVersion[o]
    <3>1. order[o].version \in Nat /\ order[o].version <= MaxVersion[o] /\ MaxVersion[o] \in Nat
      BY BoundAssumption DEF TableInv, DiningInv, RowInv, OrderRow, CellTypes
    <3> QED
      BY <3>1
  <2> QED
    BY <2>1 DEF TableInv, DiningInv, RowInv, OrderRow
<1>3. \A i \in Items : /\ item[i] \in Status /\ ticket[i] \in Status
                       /\ item[i] = "none" <=> order[OrderOf[i]].session = NoSession
                       /\ ticket[i] # "none" => item[i] # "none"
                       /\ waste[i] \in Nat
  BY DEF TableInv, DiningInv, RowInv, CellTypes
<1>4. event \subseteq Items /\ paid \subseteq WapOrders
  BY DEF TableInv, DiningInv, RowInv, CellTypes
<1> QED
  BY <1>1, <1>2, <1>3, <1>4 DEF TypeOK

\* The rows keep their types, an item exists with its order and a ticket with its item.
THEOREM RowsTypeCorrect == Spec => []TypeOK
<1>1. TableInv /\ [Next]_vars => TableInv'
  BY TableInvIsInductive
<1> QED
  BY <1>1, TableTypes, TableInvHoldsAtFirst, PTL DEF Spec

--------------------------------------------------------------------------------
(* OfflineSync *)

OperationRow == [status : Statuses, replays : Nat]
Steps == {"arrived", "begin", "sell", "selling", "failed", "acknowledge", "reconcile"}
HandlerRow == [order : WapOrders, step : Steps, read : OperationRow]

RowShapes ==
    /\ till \in [WapOrders -> [status : Statuses, waits : Requests \cup {Idle}]]
    /\ operation \in [WapOrders -> OperationRow]
    /\ handler = [r \in Requests |-> handler[r]]
    /\ \A r \in Requests : handler[r] # Idle =>
            handler[r] \in HandlerRow

\* A handler of the server sells the order it was sent with.
SellsItsOrder == \A r \in Requests :
    InSync(r, "selling") /\ Selling(r) => request[r].order = handler[r].order

\* A handler that acknowledges has found or made the sale.
AcknowledgedIsSold == \A r \in Requests :
    InSync(r, "acknowledge") \/ InSync(r, "reconcile") => handler[r].order \in paid

HandlerInv == RowShapes /\ SellsItsOrder /\ AcknowledgedIsSold
IInv == SaleInv /\ HandlerInv /\ SettledIsSold

\* Every step of the offline till is a step of Dining or leaves its state alone.
LEMMA TillStepsAreDiningSteps ==
    ASSUME RowShapes, SyncNext
    PROVE  [Next]_vars
<1>1. CASE OnlineStep
  BY <1>1 DEF OnlineStep, Next
<1>2. ASSUME NEW o \in WapOrders, TillStep(o) \/ ManagerStep(o)
      PROVE  UNCHANGED vars
  BY <1>2 DEF TillStep, ManagerStep, Queue, Send, GiveUp, Inquire, SendAgain,
              LookToReject, Reject, Purge
<1>3. ASSUME NEW r \in Requests, HandlerStep(r)
      PROVE  [Next]_vars
  <2>1. CASE \/ Prepare(r) \/ BeginSync(r) \/ Acknowledge(r) \/ Reconcile(r)
             \/ \E state \in {"rejected", "quarantined"} : TurnAway(r, state)
             \/ \E state \in {"needs_review", "unknown"} : Fail(r, state)
    BY <2>1 DEF Prepare, BeginSync, Acknowledge, Mark, Reconcile, TurnAway, Fail
  <2>2. CASE SyncLookup(r)
    <3>1. handler[r].order \in WapOrders
      BY <2>2 DEF SyncLookup, InSync, RowShapes, HandlerRow
    <3>2. UNCHANGED vars \/ WapLookup(r, handler[r].order)
      BY <2>2 DEF SyncLookup
    <3> QED
      BY <3>1, <3>2 DEF Look, Next
  <2>3. CASE SyncSell(r)
    BY <2>3 DEF SyncSell, Write, Next
  <2>4. CASE SyncRefused(r) \/ HandlerDies(r)
    BY <2>4 DEF SyncRefused, HandlerDies, Write, Next
  <2> QED
    BY <1>3, <2>1, <2>2, <2>3, <2>4 DEF HandlerStep
<1> QED
  BY <1>1, <1>2, <1>3 DEF SyncNext

\* A mark gives its operation the new status or leaves it.
LEMMA TransitionMarks ==
    ASSUME RowShapes, NEW o \in WapOrders, NEW read, NEW type, NEW state \in Statuses,
           Transition(o, read, type, state)
    PROVE  /\ operation' \in [WapOrders -> OperationRow]
           /\ operation'[o].status \in {operation[o].status, state}
           /\ \A p \in WapOrders \ {o} : operation'[p] = operation[p]
<1>1. operation \in [WapOrders -> OperationRow]
  BY DEF RowShapes
<1>2. PICK x \in {operation[o].status, state} : operation' = [operation EXCEPT ![o].status = x]
  BY DEF Transition, Written
<1>3. x \in Statuses
  BY <1>1 DEF OperationRow
<1>4. operation' \in [WapOrders -> OperationRow]
  BY <1>1, <1>2, <1>3 DEF OperationRow
<1>5. operation'[o].status \in {operation[o].status, state}
  BY <1>1, <1>2 DEF OperationRow
<1>6. \A p \in WapOrders \ {o} : operation'[p] = operation[p]
  BY <1>1, <1>2 DEF OperationRow
<1> QED
  BY <1>4, <1>5, <1>6

\* An answer gives the till the state that was reached, or leaves it.
LEMMA AnswerTells ==
    ASSUME RowShapes, NEW r \in Requests, handler[r] # Idle, NEW state \in Statuses,
           Answer(r, state)
    PROVE  /\ till' \in [WapOrders -> [status : Statuses, waits : Requests \cup {Idle}]]
           /\ till'[handler[r].order].status \in {till[handler[r].order].status, state}
           /\ \A o \in WapOrders \ {handler[r].order} : till'[o] = till[o]
           /\ handler' = [handler EXCEPT ![r] = Idle]
<1> DEFINE TillRow == [status : Statuses, waits : Requests \cup {Idle}]
<1>1. till \in [WapOrders -> TillRow] /\ handler[r].order \in WapOrders
  BY DEF RowShapes, HandlerRow
<1>2. handler' = [handler EXCEPT ![r] = Idle]
  BY DEF Answer
<1>3. PICK row \in {till[handler[r].order], [status |-> state, waits |-> Idle]} :
        till' = [till EXCEPT ![handler[r].order] = row]
  <2>1. CASE till[handler[r].order].waits = r
    BY <2>1 DEF Answer
  <2>2. CASE till[handler[r].order].waits # r
    BY <1>1, <2>2 DEF Answer
  <2> QED
    BY <2>1, <2>2
<1>4. row \in TillRow
  BY <1>1
<1>5. till' \in [WapOrders -> TillRow]
  BY <1>1, <1>3, <1>4
<1>6. till'[handler[r].order].status \in {till[handler[r].order].status, state}
  BY <1>1, <1>3
<1>7. \A o \in WapOrders \ {handler[r].order} : till'[o] = till[o]
  BY <1>1, <1>3
<1> QED
  BY <1>2, <1>5, <1>6, <1>7

\* The till's own steps settle nothing but what the server says is settled.
LEMMA TillStepKeepsIInv ==
    ASSUME IInv, SaleInv', NEW o \in WapOrders, TillStep(o)
    PROVE  IInv'
<1> DEFINE TillRow == [status : Statuses, waits : Requests \cup {Idle}]
<1>t. till \in [WapOrders -> TillRow] /\ operation \in [WapOrders -> OperationRow]
  BY DEF IInv, HandlerInv, RowShapes
<1>1. UNCHANGED <<vars, operation>>
  BY DEF TillStep, Queue, Inquire, SendAgain, Send, GiveUp
<1>2. /\ till' \in [WapOrders -> TillRow]
      /\ till'[o].status = "reconciled" =>
            "reconciled" \in {till[o].status, operation[o].status} \/ operation[o].status = "purged"
      /\ \A p \in WapOrders \ {o} : till'[p] = till[p]
  <2>1. CASE Queue(o) \/ SendAgain(o)
    BY <1>t, <2>1 DEF Queue, SendAgain, Statuses, Open, Final
  <2>2. CASE Inquire(o)
    BY <1>t, <2>2 DEF Inquire, Statuses, Final, OperationRow
  <2>3. CASE \E r \in Requests : Send(r, o)
    BY <1>t, <2>3 DEF Send, Statuses, Open
  <2>4. CASE \E status \in {"unknown", "syncing"} : GiveUp(o, status)
    BY <1>t, <2>4 DEF GiveUp, Statuses, Open
  <2> QED
    BY <2>1, <2>2, <2>3, <2>4 DEF TillStep
<1>3. SettledIsSold'
  BY <1>1, <1>2 DEF IInv, SettledIsSold, vars
<1>4. CASE UNCHANGED handler
  BY <1>1, <1>2, <1>3, <1>4, <1>t DEF IInv, HandlerInv, RowShapes, SellsItsOrder,
        AcknowledgedIsSold, InSync, Selling, vars
<1>5. CASE \E r \in Requests : Send(r, o)
  <2>1. PICK r \in Requests : Send(r, o)
    BY <1>5
  <2>2. RowShapes'
    <3>1. [order |-> o, step |-> "arrived", read |-> operation[o]] \in HandlerRow
      BY <1>t DEF HandlerRow, Steps
    <3>2. handler' = [handler EXCEPT ![r] = [order |-> o, step |-> "arrived", read |-> operation[o]]]
      BY <2>1 DEF Send
    <3>3. /\ handler' = [q \in Requests |-> handler'[q]]
          /\ \A q \in Requests : handler'[q] # Idle => handler'[q] \in HandlerRow
      BY <3>1, <3>2 DEF IInv, HandlerInv, RowShapes
    <3> QED
      BY <1>1, <1>2, <1>t, <3>3 DEF RowShapes
  <2>3. SellsItsOrder' /\ AcknowledgedIsSold'
    BY <1>1, <2>1 DEF IInv, HandlerInv, RowShapes, SellsItsOrder, AcknowledgedIsSold, InSync,
          Selling, Send, vars
  <2> QED
    BY <1>3, <2>2, <2>3 DEF IInv, HandlerInv
<1> QED
  BY <1>4, <1>5 DEF TillStep, Queue, Inquire, SendAgain, GiveUp

LEMMA ManagerStepKeepsIInv ==
    ASSUME IInv, SaleInv', NEW o \in WapOrders, ManagerStep(o)
    PROVE  IInv'
<1>t. RowShapes /\ operation \in [WapOrders -> OperationRow]
  BY DEF IInv, HandlerInv, RowShapes
<1>1. UNCHANGED <<vars, till, handler>>
  BY DEF ManagerStep, LookToReject, Reject, Purge
<1>2. /\ operation' \in [WapOrders -> OperationRow]
      /\ operation'[o].status \in {operation[o].status, "rejected"}
         \/ operation[o].status = "reconciled"
      /\ \A p \in WapOrders \ {o} : operation'[p] = operation[p]
  <2>1. CASE Transition(o, desk[o], "manual_resolution", "rejected")
    BY <1>t, <2>1, TransitionMarks DEF Statuses, Final
  <2>2. CASE Purge(o)
    BY <1>t, <2>2 DEF Purge, Statuses, OperationRow
  <2>3. CASE UNCHANGED operation
    BY <1>t, <2>3
  <2> QED
    BY <2>1, <2>2, <2>3 DEF ManagerStep, LookToReject, Reject
<1>3. SettledIsSold'
  BY <1>1, <1>2 DEF IInv, SettledIsSold, vars
<1> QED
  BY <1>1, <1>2, <1>3 DEF IInv, HandlerInv, RowShapes, SellsItsOrder, AcknowledgedIsSold,
        InSync, Selling, vars

LEMMA OnlineStepKeepsIInv ==
    ASSUME IInv, SaleInv', paid \subseteq paid', OnlineStep
    PROVE  IInv'
<1>1. UNCHANGED syncVars
  BY DEF OnlineStep
<1>2. \A r \in Requests : handler[r] # Idle => request'[r] = request[r]
  <2>1. ASSUME NEW q \in Requests, handler[q] = Idle, Look(q) \/ Write(q)
        PROVE  \A r \in Requests : handler[r] # Idle => request'[r] = request[r]
    BY <2>1, OwnSlot DEF IInv
  <2>2. ASSUME NEW s \in Sessions, SessionStep(s)
        PROVE  UNCHANGED request
    BY <2>2 DEF SessionStep, OpenSession, RequestBill, CloseSession, PrintKitchenSlip
  <2>3. ASSUME NEW o \in Orders, CancelOrder(o) \/ \E i \in Items : Reopen(i, o)
        PROVE  UNCHANGED request
    BY <2>3 DEF CancelOrder, Reopen
  <2> QED
    BY <2>1, <2>2, <2>3 DEF OnlineStep
<1>3. RowShapes'
  BY <1>1 DEF IInv, HandlerInv, RowShapes, syncVars
<1>4. SellsItsOrder' /\ AcknowledgedIsSold' /\ SettledIsSold'
  BY <1>1, <1>2 DEF IInv, HandlerInv, SellsItsOrder, AcknowledgedIsSold, SettledIsSold,
        InSync, Selling, syncVars
<1> QED
  BY <1>3, <1>4 DEF IInv, HandlerInv

\* What all steps of a handler keep: the rows, the slots of others and what was sold.
KeepsRows(r) ==
    /\ till' \in [WapOrders -> [status : Statuses, waits : Requests \cup {Idle}]]
    /\ operation' \in [WapOrders -> OperationRow]
    /\ paid \subseteq paid'
    /\ \A q \in Requests \ {r} : request'[q] = request[q]

\* A handler goes on to a step that is due.
LEMMA MoveKeepsHandlers ==
    ASSUME HandlerInv, NEW r \in Requests, KeepsRows(r), handler[r] # Idle,
           NEW step \in Steps, NEW read \in OperationRow, GoTo(r, step, read),
           step = "selling" /\ Selling(r)' => request'[r].order = handler[r].order,
           step \in {"acknowledge", "reconcile"} => handler[r].order \in paid'
    PROVE  HandlerInv'
<1>1. handler[r] \in HandlerRow
  BY DEF HandlerInv, RowShapes
<1>2. /\ handler' = [q \in Requests |-> handler'[q]]
      /\ \A q \in Requests \ {r} : handler'[q] = handler[q]
      /\ handler'[r] = [[handler[r] EXCEPT !.step = step] EXCEPT !.read = read]
  BY DEF GoTo, HandlerInv, RowShapes
<1>3. handler'[r] \in HandlerRow
  BY <1>1, <1>2 DEF HandlerRow
<1>4. handler'[r].order = handler[r].order /\ handler'[r].step = step
  BY <1>1, <1>2 DEF HandlerRow
<1>5. RowShapes'
  BY <1>2, <1>3 DEF HandlerInv, RowShapes, KeepsRows
<1>6. SellsItsOrder' /\ AcknowledgedIsSold'
  BY <1>2, <1>4 DEF HandlerInv, SellsItsOrder, AcknowledgedIsSold, InSync, Selling, KeepsRows
<1> QED
  BY <1>5, <1>6 DEF HandlerInv

\* A handler ends.
LEMMA EndKeepsHandlers ==
    ASSUME HandlerInv, NEW r \in Requests, KeepsRows(r), handler' = [handler EXCEPT ![r] = Idle]
    PROVE  HandlerInv'
  BY DEF HandlerInv, RowShapes, SellsItsOrder, AcknowledgedIsSold, InSync, Selling, KeepsRows

\* Sending back an outcome: what is answered as reconciled is sold.
LEMMA AnswerKeepsIInv ==
    ASSUME IInv, SaleInv', NEW r \in Requests, handler[r] # Idle, UNCHANGED vars,
           NEW state \in Statuses, Answer(r, state),
           operation' \in [WapOrders -> OperationRow],
           operation'[handler[r].order].status \in {operation[handler[r].order].status, state},
           \A p \in WapOrders \ {handler[r].order} : operation'[p] = operation[p],
           state \in {"server_acknowledged", "reconciled", "purged"} => handler[r].order \in paid
    PROVE  IInv'
<1>1. HandlerInv /\ RowShapes
  BY DEF IInv, HandlerInv
<1>2. /\ till' \in [WapOrders -> [status : Statuses, waits : Requests \cup {Idle}]]
      /\ till'[handler[r].order].status \in {till[handler[r].order].status, state}
      /\ \A o \in WapOrders \ {handler[r].order} : till'[o] = till[o]
      /\ handler' = [handler EXCEPT ![r] = Idle]
  BY <1>1, AnswerTells
<1>3. KeepsRows(r)
  BY <1>2 DEF KeepsRows, vars
<1>4. HandlerInv'
  BY <1>1, <1>2, <1>3, EndKeepsHandlers
<1>5. SettledIsSold'
  BY <1>2 DEF IInv, SettledIsSold, vars
<1> QED
  BY <1>4, <1>5 DEF IInv

\* A mark on the way: the operation is acknowledged when its order is sold.
LEMMA MarkKeepsIInv ==
    ASSUME IInv, SaleInv', NEW r \in Requests, NEW from, NEW type, NEW state \in Statuses,
           NEW to \in Steps, Mark(r, from, type, state, to), to # "selling",
           to \in {"acknowledge", "reconcile"} => handler[r].order \in paid,
           state \in {"server_acknowledged", "reconciled", "purged"} => handler[r].order \in paid
    PROVE  IInv'
<1> DEFINE o == handler[r].order
<1>1. HandlerInv /\ RowShapes /\ handler[r] # Idle /\ o \in WapOrders
  BY DEF IInv, HandlerInv, RowShapes, HandlerRow, Mark, InSync
<1>2. Transition(o, handler[r].read, type, state) /\ GoTo(r, to, operation'[o])
  BY DEF Mark
<1>3. UNCHANGED <<vars, till>>
  BY DEF Mark
<1>4. /\ operation' \in [WapOrders -> OperationRow]
      /\ operation'[o].status \in {operation[o].status, state}
      /\ \A p \in WapOrders \ {o} : operation'[p] = operation[p]
  BY <1>1, <1>2, TransitionMarks
<1>5. KeepsRows(r)
  BY <1>1, <1>3, <1>4 DEF KeepsRows, RowShapes, vars
<1>6. HandlerInv'
  BY <1>1, <1>2, <1>3, <1>4, <1>5, MoveKeepsHandlers DEF vars
<1>7. SettledIsSold'
  BY <1>3, <1>4 DEF IInv, SettledIsSold, vars
<1> QED
  BY <1>6, <1>7 DEF IInv

LEMMA PrepareKeepsIInv ==
    ASSUME IInv, SaleInv', NEW r \in Requests, Prepare(r)
    PROVE  IInv'
<1> DEFINE o == handler[r].order
           found == operation[o]
           now == IF found.status = "none" THEN [status |-> "pending_sync", replays |-> 0]
                  ELSE [found EXCEPT !.replays = @ + 1]
<1>1. /\ HandlerInv /\ RowShapes /\ handler[r] # Idle /\ o \in WapOrders
      /\ operation \in [WapOrders -> OperationRow]
  BY DEF IInv, HandlerInv, RowShapes, HandlerRow, Prepare, InSync
<1>2. /\ operation' = [operation EXCEPT ![o] = now] /\ UNCHANGED vars
      /\ IF Settled(found.status) THEN Answer(r, found.status)
         ELSE GoTo(r, "begin", now) /\ UNCHANGED till
  BY DEF Prepare
<1>3. now \in OperationRow /\ now.status \in {found.status, "pending_sync"}
  BY <1>1 DEF OperationRow, Statuses, Open
<1> HIDE DEF now
<1>4. /\ operation' \in [WapOrders -> OperationRow]
      /\ operation'[o].status \in {found.status, "pending_sync"}
      /\ \A p \in WapOrders \ {o} : operation'[p] = operation[p]
  BY <1>1, <1>2, <1>3
<1>5. CASE Settled(found.status)
  <2>1. /\ found.status \in Statuses
        /\ found.status \in {"server_acknowledged", "reconciled", "purged"} => o \in paid
    BY <1>1 DEF OperationRow, IInv, SettledIsSold
  <2>2. now.status = found.status
    BY <1>1, <1>5 DEF now, Settled, Final, OperationRow
  <2>3. operation'[o].status = found.status
    BY <1>1, <1>2, <2>2
  <2> QED
    BY <1>1, <1>2, <1>4, <1>5, <2>1, <2>3, AnswerKeepsIInv
<1>6. CASE ~Settled(found.status)
  <2>1. KeepsRows(r)
    BY <1>1, <1>2, <1>4, <1>6 DEF KeepsRows, RowShapes, vars
  <2>2. HandlerInv'
    BY <1>1, <1>2, <1>3, <1>6, <2>1, MoveKeepsHandlers DEF Steps
  <2>3. SettledIsSold'
    BY <1>2, <1>4, <1>6 DEF IInv, SettledIsSold, vars
  <2> QED
    BY <2>2, <2>3 DEF IInv
<1> QED
  BY <1>5, <1>6

\* The steps that only mark, answer or end.
LEMMA MarkingKeepsIInv ==
    ASSUME IInv, SaleInv', NEW r \in Requests,
           \/ BeginSync(r) \/ Acknowledge(r) \/ Reconcile(r)
           \/ \E state \in {"rejected", "quarantined"} : TurnAway(r, state)
           \/ \E state \in {"needs_review", "unknown"} : Fail(r, state)
    PROVE  IInv'
<1>1. RowShapes /\ AcknowledgedIsSold
  BY DEF IInv, HandlerInv
<1>2. CASE BeginSync(r)
  BY <1>2, MarkKeepsIInv DEF BeginSync, Statuses, Open, Steps
<1>3. CASE Acknowledge(r)
  <2>1. handler[r].order \in paid
    BY <1>1, <1>3 DEF Acknowledge, Mark, AcknowledgedIsSold
  <2> QED
    BY <1>3, <2>1, MarkKeepsIInv DEF Acknowledge, Statuses, Open, Steps
<1>4. CASE Reconcile(r)
  <2>1. handler[r].order \in paid
    BY <1>1, <1>4 DEF Reconcile, AcknowledgedIsSold
  <2>2. /\ handler[r] # Idle /\ handler[r].order \in WapOrders /\ "reconciled" \in Statuses
        /\ Transition(handler[r].order, handler[r].read, "reconciled", "reconciled")
        /\ Answer(r, "reconciled") /\ UNCHANGED vars
    BY <1>1, <1>4 DEF Reconcile, InSync, RowShapes, HandlerRow, Statuses, Final
  <2> QED
    BY <1>1, <2>1, <2>2, TransitionMarks, AnswerKeepsIInv
<1>5. ASSUME NEW state \in {"rejected", "quarantined"}, TurnAway(r, state)
      PROVE  IInv'
  <2>1. /\ handler[r] # Idle /\ state \in Statuses \ {"server_acknowledged", "reconciled", "purged"}
        /\ Answer(r, state) /\ UNCHANGED <<vars, operation>>
    BY <1>5 DEF TurnAway, InSync, Statuses, Final
  <2>2. operation' \in [WapOrders -> OperationRow]
    BY <1>1, <2>1 DEF RowShapes
  <2> QED
    BY <2>1, <2>2, AnswerKeepsIInv
<1>6. ASSUME NEW state \in {"needs_review", "unknown"}, Fail(r, state)
      PROVE  IInv'
  <2>1. /\ handler[r] # Idle /\ handler[r].order \in WapOrders
        /\ state \in Statuses \ {"server_acknowledged", "reconciled", "purged"}
        /\ Transition(handler[r].order, operation[handler[r].order], state, state)
        /\ Answer(r, state) /\ UNCHANGED vars
    BY <1>1, <1>6 DEF Fail, InSync, RowShapes, HandlerRow, Statuses, Final, Open
  <2> QED
    BY <1>1, <2>1, TransitionMarks, AnswerKeepsIInv
<1> QED
  BY <1>2, <1>3, <1>4, <1>5, <1>6

\* The steps that sell the order, or stop selling it.
LEMMA LinkIsAnswered == \A s : AfterLink(s) \in {"acknowledge", "failed"}
  BY DEF AfterLink, AfterRefusal

LEMMA SellingKeepsIInv ==
    ASSUME IInv, SaleInv', paid \subseteq paid', NEW r \in Requests,
           SyncLookup(r) \/ SyncSell(r) \/ SyncRefused(r) \/ HandlerDies(r)
    PROVE  IInv'
<1> DEFINE o == handler[r].order
<1>1. /\ HandlerInv /\ RowShapes /\ handler[r] # Idle /\ o \in WapOrders
      /\ handler[r].read \in OperationRow
  BY DEF IInv, HandlerInv, RowShapes, HandlerRow, SyncLookup, SyncSell, SyncRefused,
         HandlerDies, InSync
<1>2. UNCHANGED <<till, operation>>
  BY DEF SyncLookup, SyncSell, SyncRefused, HandlerDies
<1>3. SettledIsSold'
  BY <1>2 DEF IInv, SettledIsSold
<1>4. KeepsRows(r)
  <2>1. Look(r) \/ Write(r) \/ UNCHANGED request
    BY <1>1 DEF SyncLookup, SyncSell, SyncRefused, HandlerDies, Look, Write, vars
  <2> QED
    BY <1>1, <1>2, <2>1, OwnSlot DEF IInv, KeepsRows, RowShapes
<1>5. CASE SyncLookup(r)
  <2>1. ASSUME NEW s \in Sessions, session[s].sale = o, GoTo(r, AfterLink(s), handler[r].read)
        PROVE  IInv'
    <3>1. o \in paid
      BY <1>1, <2>1 DEF IInv, SaleInv, LinkedIsSold
    <3> QED
      BY <1>1, <1>3, <1>4, <2>1, <3>1, LinkIsAnswered, MoveKeepsHandlers DEF IInv, Steps
  <2>2. CASE WapLookup(r, o) /\ GoTo(r, "selling", handler[r].read)
    <3>1. request'[r] = [kind |-> "wap_open", order |-> o, session |-> NoSession]
      BY <2>2 DEF WapLookup, IInv, SaleInv, SaleShapes
    <3>2. request'[r].order = o
      BY <3>1
    <3> QED
      BY <1>1, <1>3, <1>4, <2>2, <3>2, MoveKeepsHandlers DEF IInv, Steps
  <2> QED
    BY <1>5, <2>1, <2>2 DEF SyncLookup
<1>6. CASE SyncSell(r)
  <2>1. ASSUME InStep(r, "wap_open") \/ InStep(r, "wap_place") \/ InStep(r, "wap_pay")
               \/ InStep(r, "wap_link")
        PROVE  /\ request[r] \in [kind : WapKinds, order : WapOrders, session : Sessions \cup {NoSession}]
               /\ request[r].order = o
    BY <1>1, <1>6, <2>1 DEF SyncSell, IInv, SaleInv, SaleShapes, HandlerInv, SellsItsOrder,
          Selling, WapKinds, InStep
  <2>2. CASE UNCHANGED handler /\ ((\E s \in Sessions : WapOpen(r, s)) \/ WapPlace(r) \/ WapPay(r))
    <3>1. request'[r].order = o
      <4>1. request = [q \in Requests |-> request[q]]
        BY DEF IInv, SaleInv, SaleShapes
      <4>2. CASE \E s \in Sessions : WapOpen(r, s)
        BY <2>1, <4>1, <4>2 DEF WapOpen
      <4>3. CASE WapPlace(r)
        BY <2>1, <4>1, <4>3 DEF WapPlace
      <4>4. CASE WapPay(r)
        BY <2>1, <4>1, <4>4 DEF WapPay
      <4> QED
        BY <2>2, <4>2, <4>3, <4>4
    <3>2. RowShapes' /\ SellsItsOrder' /\ AcknowledgedIsSold'
      BY <1>1, <1>4, <2>2, <3>1 DEF HandlerInv, RowShapes, SellsItsOrder, AcknowledgedIsSold,
            KeepsRows, InSync, Selling
    <3> QED
      BY <1>3, <3>2 DEF IInv, HandlerInv
  <2>3. CASE WapLink(r) /\ GoTo(r, AfterLink(request[r].session), handler[r].read)
    <3>1. o \in paid
      BY <2>1, <2>3 DEF WapLink, IInv, SaleInv, LinkedIsSold
    <3> QED
      BY <1>1, <1>3, <1>4, <2>3, <3>1, LinkIsAnswered, MoveKeepsHandlers DEF IInv, Steps
  <2> QED
    BY <1>6, <2>2, <2>3 DEF SyncSell
<1>7. CASE SyncRefused(r)
  BY <1>1, <1>3, <1>4, <1>7, MoveKeepsHandlers DEF SyncRefused, AfterRefusal, IInv, Steps
<1>8. CASE HandlerDies(r)
  BY <1>1, <1>3, <1>4, <1>8, EndKeepsHandlers DEF HandlerDies, IInv
<1> QED
  BY <1>5, <1>6, <1>7, <1>8

LEMMA IInvHoldsAtFirst == SyncInit => IInv
  BY SaleInvHoldsAtFirst DEF SyncInit, IInv, HandlerInv, RowShapes, SellsItsOrder,
     AcknowledgedIsSold, SettledIsSold, InSync, Statuses, OperationRow

LEMMA IInvIsInductive ==
    ASSUME IInv, [SyncNext]_<<vars, syncVars>>
    PROVE  IInv' /\ [Next]_vars
<1>1. CASE UNCHANGED <<vars, syncVars>>
  <2>1. SaleInv'
    BY <1>1, DiningKeepsSales DEF IInv
  <2> QED
    BY <1>1, <2>1 DEF IInv, HandlerInv, RowShapes, SellsItsOrder, AcknowledgedIsSold,
        SettledIsSold, InSync, Selling, vars, syncVars
<1>2. CASE SyncNext
  <2>1. [Next]_vars
    BY <1>2, TillStepsAreDiningSteps DEF IInv, HandlerInv
  <2>2. SaleInv' /\ paid \subseteq paid'
    BY <2>1, DiningKeepsSales DEF IInv
  <2> QED
    BY <1>2, <2>1, <2>2, OnlineStepKeepsIInv, TillStepKeepsIInv, ManagerStepKeepsIInv,
       PrepareKeepsIInv, MarkingKeepsIInv, SellingKeepsIInv DEF SyncNext, HandlerStep
<1> QED
  BY <1>1, <1>2

\* An order that the till shows as reconciled, or the server has acknowledged, is sold: no
\* lost answer, crash, retry, second handler or manager makes an order look settled whose
\* cash is in the drawer and whose sale is not in the books.
THEOREM SettledMeansSold == SyncSpec => []SettledIsSold
<1>1. IInv /\ [SyncNext]_<<vars, syncVars>> => IInv'
  BY IInvIsInductive
<1> QED
  BY <1>1, IInvHoldsAtFirst, PTL DEF SyncSpec, IInv

\* Orders sold offline go through the steps of Dining and no other: whatever Dining promises
\* of tables, kitchen and bills it promises beside tills that sell offline.
THEOREM OfflineSellsAsDining == SyncSpec => Spec
<1>1. IInv /\ [SyncNext]_<<vars, syncVars>> => IInv' /\ [Next]_vars
  BY IInvIsInductive
<1>2. SyncInit => Init
  BY DEF SyncInit
<1> QED
  BY <1>1, <1>2, IInvHoldsAtFirst, PTL DEF SyncSpec, Spec

\* Tickets, waste, bills and paid orders stay right beside tills that sell offline.
THEOREM OfflineKeepsDining ==
    SyncSpec =>
        /\ [](TicketFollowsItem /\ WastedOnce /\ BillMatchesTable /\ PaidOrderIsInItsSession)
        /\ CancelledIsFinal
  BY OfflineSellsAsDining, TicketsFollowItems, CancelledFoodIsWastedOnce, BillsMatchTables,
     PaidOrdersAreInTheirSessions, CancelledStaysCancelled, PTL

--------------------------------------------------------------------------------
(* One handler at a time *)

\* What an operation is while its only handler is at a step.
Due(step) == IF step = "begin" THEN Statuses \ Final
             ELSE IF step = "reconcile" THEN {"server_acknowledged"} ELSE {"syncing"}

\* An operation that nobody disputes has one handler or one manager at a time, the handler
\* has read it as it is, and the manager one that is not settled.
InTurn(o) ==
    /\ \A r, q \in Handling(o) : r = q
    /\ desk[o] # Idle => Handling(o) = {} /\ operation[o].status \notin {"reconciled", "purged"}
    /\ \A r \in Handling(o) : /\ handler[r].read.status = operation[o].status
                             /\ operation[o].status \in Due(handler[r].step)

TurnInv ==
    /\ desk = [o \in WapOrders |-> desk[o]]
    /\ \A o \in WapOrders \ contended : InTurn(o)

\* Orders of other handlers stay in turn.
LEMMA OthersInTurn ==
    ASSUME TurnInv, RowShapes, NEW r \in Requests, handler[r] # Idle, UNCHANGED desk,
           contended \subseteq contended',
           \A q \in Requests \ {r} : handler'[q] = handler[q],
           handler'[r] = Idle \/ handler'[r].order = handler[r].order,
           \A p \in WapOrders \ {handler[r].order} : operation'[p] = operation[p],
           NEW p \in WapOrders \ contended', p # handler[r].order
    PROVE  InTurn(p)'
<1>1. Handling(p)' = Handling(p)
  BY DEF Handling
<1>2. \A q \in Handling(p) : handler'[q] = handler[q]
  BY DEF Handling
<1>3. InTurn(p)
  BY DEF TurnInv
<1> QED
  BY <1>1, <1>2, <1>3 DEF InTurn

LEMMA EndKeepsTurns ==
    ASSUME TurnInv, RowShapes, NEW r \in Requests, handler[r] # Idle, UNCHANGED desk,
           contended \subseteq contended', handler' = [handler EXCEPT ![r] = Idle],
           \A p \in WapOrders \ {handler[r].order} : operation'[p] = operation[p],
           \/ handler[r].step # "arrived"
           \/ operation'[handler[r].order].status = operation[handler[r].order].status
    PROVE  TurnInv'
<1>o. PICK o \in WapOrders : o = handler[r].order
  BY DEF RowShapes, HandlerRow
<1>1. /\ \A q \in Requests \ {r} : handler'[q] = handler[q]
      /\ handler'[r] = Idle
  BY DEF RowShapes
<1>2. ASSUME o \in WapOrders \ contended'
      PROVE  InTurn(o)'
  <2>1. InTurn(o)
    BY <1>2 DEF TurnInv
  <2>2. CASE handler[r].step # "arrived"
    <3>1. r \in Handling(o)
      BY <1>o, <2>2 DEF Handling
    <3>2. Handling(o) = {r} /\ desk[o] = Idle
      BY <2>1, <3>1 DEF InTurn
    <3>3. Handling(o)' = {}
      BY <1>o, <1>1, <3>2 DEF Handling
    <3> QED
      BY <3>2, <3>3 DEF InTurn
  <2>3. CASE handler[r].step = "arrived" /\ operation'[o].status = operation[o].status
    <3>1. Handling(o)' = Handling(o) /\ \A q \in Handling(o) : handler'[q] = handler[q]
      BY <1>o, <1>1, <2>3 DEF Handling
    <3> QED
      BY <1>o, <2>1, <2>3, <3>1 DEF InTurn
  <2> QED
    BY <2>2, <2>3
<1>3. ASSUME NEW p \in WapOrders \ contended', p # o
      PROVE  InTurn(p)'
  BY <1>o, <1>1, <1>3, OthersInTurn
<1> QED
  BY <1>2, <1>3 DEF TurnInv

LEMMA MoveKeepsTurns ==
    ASSUME TurnInv, RowShapes, NEW r \in Requests, handler[r] # Idle, UNCHANGED desk,
           contended \subseteq contended',
           NEW step \in Steps, NEW read \in OperationRow, GoTo(r, step, read),
           \A p \in WapOrders \ {handler[r].order} : operation'[p] = operation[p],
           handler[r].order \notin contended' =>
                /\ Handling(handler[r].order) \subseteq {r} /\ desk[handler[r].order] = Idle
                /\ read.status = operation'[handler[r].order].status
                /\ read.status \in Due(step)
    PROVE  TurnInv'
<1>o. PICK o \in WapOrders : o = handler[r].order
  BY DEF RowShapes, HandlerRow
<1>1. /\ \A q \in Requests \ {r} : handler'[q] = handler[q]
      /\ handler'[r] = [[handler[r] EXCEPT !.step = step] EXCEPT !.read = read]
      /\ handler[r] \in HandlerRow
  BY DEF GoTo, RowShapes
<1>2. handler'[r].order = handler[r].order /\ handler'[r].step = step /\ handler'[r].read = read
  BY <1>1 DEF HandlerRow
<1>3. ASSUME o \in WapOrders \ contended'
      PROVE  InTurn(o)'
  <2>1. Handling(o)' \subseteq {r}
    BY <1>o, <1>1, <1>3 DEF Handling
  <2> QED
    BY <1>o, <1>2, <1>3, <2>1 DEF InTurn
<1>4. ASSUME NEW p \in WapOrders \ contended', p # o
      PROVE  InTurn(p)'
  BY <1>o, <1>1, <1>2, <1>4, OthersInTurn
<1> QED
  BY <1>3, <1>4 DEF TurnInv

\* A mark by who has read the operation as it is.
LEMMA MarkByReader ==
    ASSUME RowShapes, NEW o \in WapOrders, NEW read, NEW type, NEW state,
           Transition(o, read, type, state), read.status = operation[o].status
    PROVE  operation'[o].status = state
<1>1. operation \in [WapOrders -> OperationRow]
  BY DEF RowShapes
<1>2. operation' = [operation EXCEPT ![o].status = state]
  <2>1. CASE read.status = state
    <3>1. operation' = [operation EXCEPT ![o].status = operation[o].status]
      BY <2>1 DEF Transition, Written
    <3> QED
      BY <2>1, <3>1
  <2>2. CASE read.status # state
    BY <2>2 DEF Transition, Written
  <2> QED
    BY <2>1, <2>2
<1> QED
  BY <1>1, <1>2 DEF OperationRow

\* A settled operation o is only purged, or sent again once it is purged.
Stays(o) ==
    operation[o].status \in {"reconciled", "purged"} /\ operation'[o].status # operation[o].status =>
        \/ operation'[o].status = IF operation[o].status = "reconciled" THEN "purged" ELSE "syncing"
        \/ o \in contended'

\* The marks of a handler that is alone.
LEMMA MarkKeepsTurns ==
    ASSUME IInv, TurnInv, NEW r \in Requests, BeginSync(r) \/ Acknowledge(r)
    PROVE  TurnInv' /\ \A o \in WapOrders : Stays(o)
<1>1. /\ RowShapes /\ handler[r] # Idle /\ UNCHANGED <<desk, contended>>
      /\ handler[r].step \in {"begin", "acknowledge"}
  BY DEF IInv, HandlerInv, BeginSync, Acknowledge, Mark, InSync
<1>o. PICK o \in WapOrders : o = handler[r].order
  BY <1>1 DEF RowShapes, HandlerRow
<1>2. PICK type \in {"sync_attempt", "server_acknowledged"},
           state \in {"syncing", "server_acknowledged"}, to \in {"sell", "reconcile"} :
        /\ Transition(o, handler[r].read, type, state) /\ GoTo(r, to, operation'[o])
        /\ \/ handler[r].step = "begin" /\ state = "syncing" /\ to = "sell"
           \/ handler[r].step = "acknowledge" /\ state = "server_acknowledged" /\ to = "reconcile"
  <2>1. CASE BeginSync(r)
    <3>1. /\ Transition(o, handler[r].read, "sync_attempt", "syncing")
          /\ GoTo(r, "sell", operation'[o]) /\ handler[r].step = "begin"
      BY <1>o, <2>1, Zenon DEF BeginSync, Mark, InSync
    <3> QED
      BY <3>1, Zenon
  <2>2. CASE Acknowledge(r)
    <3>1. /\ Transition(o, handler[r].read, "server_acknowledged", "server_acknowledged")
          /\ GoTo(r, "reconcile", operation'[o]) /\ handler[r].step = "acknowledge"
      BY <1>o, <2>2, Zenon DEF Acknowledge, Mark, InSync
    <3> QED
      BY <3>1, Zenon
  <2> QED
    BY <2>1, <2>2
<1>3. /\ operation' \in [WapOrders -> OperationRow]
      /\ operation'[o].status \in {operation[o].status, state}
      /\ \A p \in WapOrders \ {o} : operation'[p] = operation[p]
  BY <1>1, <1>2, TransitionMarks DEF Statuses, Open
<1>4. ASSUME o \notin contended
      PROVE  /\ Handling(o) \subseteq {r} /\ desk[o] = Idle
             /\ operation'[o].status = state /\ state \in Due(to)
             /\ operation[o].status \in Due(handler[r].step)
  <2>1. r \in Handling(o)
    BY <1>1, <1>o DEF Handling
  <2>2. InTurn(o)
    BY <1>4 DEF TurnInv
  <2>3. handler[r].read.status = operation[o].status /\ operation[o].status \in Due(handler[r].step)
    BY <2>1, <2>2 DEF InTurn
  <2>4. operation'[o].status = state
    BY <1>1, <1>2, <2>3, MarkByReader
  <2> QED
    BY <1>2, <2>1, <2>2, <2>3, <2>4 DEF InTurn, Due
<1>5. TurnInv'
  BY <1>o, <1>1, <1>2, <1>3, <1>4, MoveKeepsTurns DEF Steps
<1>6. Stays(o)
  BY <1>1, <1>2, <1>4 DEF Stays, Due, Final
<1>7. \A p \in WapOrders \ {o} : Stays(p)
  BY <1>3 DEF Stays
<1> QED
  BY <1>5, <1>6, <1>7

LEMMA EndMarkKeepsTurns ==
    ASSUME IInv, TurnInv, NEW r \in Requests,
           Reconcile(r) \/ \E state \in {"needs_review", "unknown"} : Fail(r, state)
    PROVE  TurnInv' /\ \A o \in WapOrders : Stays(o)
<1>1. /\ RowShapes /\ handler[r] # Idle /\ UNCHANGED <<desk, contended>>
      /\ handler[r].step \in {"reconcile", "failed"}
      /\ handler' = [handler EXCEPT ![r] = Idle]
  BY DEF IInv, HandlerInv, Reconcile, Fail, InSync, Answer
<1>o. PICK o \in WapOrders : o = handler[r].order
  BY <1>1 DEF RowShapes, HandlerRow
<1>2. \A p \in WapOrders \ {o} : operation'[p] = operation[p]
  BY <1>o, <1>1, TransitionMarks DEF Reconcile, Fail, Statuses, Final, Open
<1>3. TurnInv'
  BY <1>o, <1>1, <1>2, EndKeepsTurns
<1>4. ASSUME o \notin contended
      PROVE  operation[o].status \notin {"reconciled", "purged"}
  <2>1. r \in Handling(o) /\ InTurn(o)
    BY <1>o, <1>1, <1>4 DEF Handling, TurnInv
  <2> QED
    BY <1>1, <2>1 DEF InTurn, Due
<1>5. Stays(o) /\ \A p \in WapOrders \ {o} : Stays(p)
  BY <1>1, <1>2, <1>4 DEF Stays
<1> QED
  BY <1>3, <1>5

LEMMA PrepareKeepsTurns ==
    ASSUME IInv, TurnInv, NEW r \in Requests, Prepare(r)
    PROVE  TurnInv' /\ \A o \in WapOrders : Stays(o)
<1>1. /\ RowShapes /\ handler[r] # Idle /\ UNCHANGED desk
      /\ operation \in [WapOrders -> OperationRow]
  BY DEF IInv, HandlerInv, RowShapes, Prepare, InSync
<1>o. PICK o \in WapOrders : o = handler[r].order
  BY <1>1 DEF RowShapes, HandlerRow
<1> DEFINE found == operation[o]
           now == IF found.status = "none" THEN [status |-> "pending_sync", replays |-> 0]
                  ELSE [found EXCEPT !.replays = @ + 1]
<1>2. /\ operation' = [operation EXCEPT ![o] = now]
      /\ contended' = IF Attempting(o) = {} /\ Handling(o) = {} /\ desk[o] = Idle
                      THEN contended ELSE contended \cup {o}
      /\ IF Settled(found.status) THEN Answer(r, found.status)
         ELSE GoTo(r, "begin", now)
      /\ handler[r].step = "arrived"
  BY <1>o, Zenon DEF Prepare, InSync
<1>3. /\ now \in OperationRow
      /\ found.status # "none" => now.status = found.status
      /\ found.status = "none" => now.status = "pending_sync"
  BY <1>1 DEF OperationRow, Statuses, Open
<1> HIDE DEF now
<1>4. /\ operation'[o] = now
      /\ \A p \in WapOrders \ {o} : operation'[p] = operation[p]
  BY <1>1, <1>2
<1>s. Stays(o) /\ \A p \in WapOrders \ {o} : Stays(p)
  BY <1>3, <1>4 DEF Stays
<1>5. CASE Settled(found.status)
  <2>1. operation'[o].status = operation[o].status
    BY <1>3, <1>4, <1>5 DEF Settled, Final
  <2>2. handler' = [handler EXCEPT ![r] = Idle]
    BY <1>2, <1>5 DEF Answer
  <2>3. contended \subseteq contended'
    BY <1>2
  <2>4. /\ operation'[handler[r].order].status = operation[handler[r].order].status
        /\ \A p \in WapOrders \ {handler[r].order} : operation'[p] = operation[p]
    BY <1>o, <1>4, <2>1
  <2> QED
    BY <1>s, <1>1, <2>2, <2>3, <2>4, EndKeepsTurns
<1>6. CASE ~Settled(found.status)
  <2>1. now.status \in Due("begin")
    BY <1>1, <1>3, <1>6 DEF Settled, Due, OperationRow, Statuses, Open, Final
  <2>2. o \notin contended' => Handling(o) = {} /\ desk[o] = Idle
    BY <1>2
  <2>3. GoTo(r, "begin", now) /\ contended \subseteq contended'
    BY <1>2, <1>6
  <2>4. \A p \in WapOrders \ {handler[r].order} : operation'[p] = operation[p]
    BY <1>o, <1>4
  <2>5. handler[r].order \notin contended' =>
            /\ Handling(handler[r].order) \subseteq {r} /\ desk[handler[r].order] = Idle
            /\ now.status = operation'[handler[r].order].status
            /\ now.status \in Due("begin")
    BY <1>o, <1>4, <2>1, <2>2
  <2> QED
    BY <1>s, <1>1, <1>3, <2>3, <2>4, <2>5, MoveKeepsTurns DEF Steps
<1> QED
  BY <1>5, <1>6

LEMMA SellingKeepsTurns ==
    ASSUME IInv, TurnInv, NEW r \in Requests,
           \/ SyncLookup(r) \/ SyncSell(r) \/ SyncRefused(r) \/ HandlerDies(r)
           \/ \E state \in {"rejected", "quarantined"} : TurnAway(r, state)
    PROVE  TurnInv' /\ \A o \in WapOrders : Stays(o)
<1>1. /\ RowShapes /\ handler[r] # Idle /\ UNCHANGED <<operation, desk, contended>>
      /\ handler[r].read \in OperationRow
  BY DEF IInv, HandlerInv, RowShapes, HandlerRow, SyncLookup, SyncSell, SyncRefused,
         HandlerDies, TurnAway, InSync
<1>o. PICK o \in WapOrders : o = handler[r].order
  BY <1>1 DEF RowShapes, HandlerRow
<1>2. CASE HandlerDies(r) \/ \E state \in {"rejected", "quarantined"} : TurnAway(r, state)
  <2>1. handler' = [handler EXCEPT ![r] = Idle]
    BY <1>2 DEF HandlerDies, TurnAway, Answer
  <2> QED
    BY <1>1, <2>1, EndKeepsTurns DEF Stays
<1>3. CASE UNCHANGED handler
  BY <1>1, <1>3 DEF TurnInv, InTurn, Handling, Stays
<1>4. ASSUME NEW step \in {"selling", "acknowledge", "failed"}, GoTo(r, step, handler[r].read),
             handler[r].step \in {"sell", "selling"}
      PROVE  TurnInv'
  <2>1. ASSUME o \notin contended
        PROVE  /\ Handling(o) \subseteq {r} /\ desk[o] = Idle
               /\ handler[r].read.status = operation[o].status
               /\ handler[r].read.status \in Due(step)
    <3>1. r \in Handling(o) /\ InTurn(o)
      BY <1>o, <1>1, <1>4, <2>1 DEF Handling, TurnInv
    <3> QED
      BY <1>4, <3>1 DEF InTurn, Due
  <2> QED
    BY <1>o, <1>1, <1>4, <2>1, MoveKeepsTurns DEF Steps
<1>5. \A p \in WapOrders : Stays(p)
  BY <1>1 DEF Stays
<1> QED
  BY <1>2, <1>3, <1>4, <1>5, LinkIsAnswered DEF SyncLookup, SyncSell, SyncRefused, AfterRefusal, InSync

LEMMA ManagerKeepsTurns ==
    ASSUME IInv, TurnInv, NEW o \in WapOrders, ManagerStep(o)
    PROVE  TurnInv' /\ \A p \in WapOrders : Stays(p)
<1>1. /\ RowShapes /\ operation \in [WapOrders -> OperationRow] /\ UNCHANGED handler
      /\ contended \subseteq contended'
  BY DEF IInv, HandlerInv, RowShapes, ManagerStep, LookToReject, Reject, Purge
<1>2. \A p \in WapOrders : Handling(p)' = Handling(p)
  BY <1>1 DEF Handling
<1>3. \A p \in WapOrders \ {o} : operation'[p] = operation[p]
  BY <1>1, TransitionMarks DEF ManagerStep, LookToReject, Reject, Purge, Statuses, Final
<1>4. /\ desk' = [p \in WapOrders |-> desk'[p]]
      /\ \A p \in WapOrders \ {o} : desk'[p] = desk[p]
  BY DEF TurnInv, ManagerStep, LookToReject, Reject, Purge
<1>5. ASSUME NEW p \in WapOrders \ contended', p # o
      PROVE  InTurn(p)'
  BY <1>1, <1>2, <1>3, <1>4, <1>5 DEF TurnInv, InTurn
<1>6. CASE LookToReject(o)
  <2>1. operation' = operation
    BY <1>6 DEF LookToReject
  <2>2. /\ operation[o].status \notin {"reconciled", "purged"}
        /\ o \notin contended' => Handling(o) = {}
    BY <1>6 DEF LookToReject
  <2>3. o \notin contended' => InTurn(o)'
    BY <1>2, <2>1, <2>2 DEF InTurn
  <2> QED
    BY <1>4, <1>5, <2>1, <2>3 DEF TurnInv, Stays
<1>7. CASE Reject(o)
  <2>1. desk[o] # Idle /\ desk'[o] = Idle /\ UNCHANGED contended
    BY <1>7 DEF Reject, TurnInv
  <2>2. o \notin contended =>
            Handling(o) = {} /\ operation[o].status \notin {"reconciled", "purged"}
    BY <2>1 DEF TurnInv, InTurn
  <2>3. o \notin contended' => InTurn(o)'
    BY <1>2, <2>1, <2>2 DEF InTurn
  <2>4. Stays(o) /\ \A p \in WapOrders \ {o} : Stays(p)
    BY <1>3, <2>1, <2>2 DEF Stays
  <2> QED
    BY <1>4, <1>5, <2>3, <2>4 DEF TurnInv
<1>8. CASE Purge(o)
  <2>1. /\ operation[o].status = "reconciled" /\ UNCHANGED <<desk, contended>>
        /\ operation'[o].status = "purged"
    BY <1>1, <1>8 DEF Purge, OperationRow
  <2>2. o \notin contended => Handling(o) = {} /\ desk[o] = Idle
    BY <2>1 DEF TurnInv, InTurn, Due, Final
  <2>3. o \notin contended' => InTurn(o)'
    BY <1>2, <2>1, <2>2 DEF InTurn
  <2>4. Stays(o) /\ \A p \in WapOrders \ {o} : Stays(p)
    BY <1>3, <2>1 DEF Stays
  <2> QED
    BY <1>4, <1>5, <2>3, <2>4 DEF TurnInv
<1> QED
  BY <1>6, <1>7, <1>8 DEF ManagerStep

LEMMA TurnInvIsInductive ==
    ASSUME IInv, TurnInv, [SyncNext]_<<vars, syncVars>>
    PROVE  TurnInv' /\ \A o \in WapOrders : Stays(o)
<1>1. CASE UNCHANGED <<operation, handler, desk, contended>>
  BY <1>1 DEF TurnInv, InTurn, Handling, Stays
<1>2. ASSUME NEW o \in WapOrders, TillStep(o)
      PROVE  TurnInv' /\ \A p \in WapOrders : Stays(p)
  <2>1. CASE \E r \in Requests : Send(r, o)
    <3>1. PICK r \in Requests : Send(r, o)
      BY <2>1
    <3>2. handler' = [handler EXCEPT ![r] = [order |-> o, step |-> "arrived", read |-> operation[o]]]
      BY <3>1 DEF Send
    <3>3. handler[r] = Idle /\ UNCHANGED <<operation, desk, contended>>
      BY <3>1 DEF Send
    <3>4. \A p \in WapOrders : /\ Handling(p)' = Handling(p)
                              /\ \A q \in Handling(p) : handler'[q] = handler[q]
      BY <3>2, <3>3 DEF Handling, IInv, HandlerInv, RowShapes
    <3> QED
      BY <3>3, <3>4 DEF TurnInv, InTurn, Stays
  <2>2. CASE UNCHANGED <<operation, handler, desk, contended>>
    BY <1>1, <2>2
  <2> QED
    BY <1>2, <2>1, <2>2 DEF TillStep, Queue, Inquire, SendAgain, GiveUp
<1>3. CASE OnlineStep \/ UNCHANGED <<vars, syncVars>>
  BY <1>1, <1>3 DEF OnlineStep, syncVars
<1>4. CASE \E r \in Requests : HandlerStep(r)
  BY <1>4, PrepareKeepsTurns, MarkKeepsTurns, EndMarkKeepsTurns, SellingKeepsTurns
     DEF HandlerStep
<1> QED
  BY <1>2, <1>3, <1>4, ManagerKeepsTurns DEF SyncNext

\* Settled stays settled: a late handler, a second one or a manager turns a reconciled
\* operation back only if two of them had it at once.
THEOREM ReconciledIsKept == SyncSpec => ReconciledStays
<1>1. SyncInit => TurnInv
  BY DEF SyncInit, TurnInv, InTurn, Handling
<1>2. IInv /\ TurnInv /\ [SyncNext]_<<vars, syncVars>> => IInv' /\ TurnInv'
  BY IInvIsInductive, TurnInvIsInductive
<1>3. IInv /\ TurnInv /\ [SyncNext]_<<vars, syncVars>> =>
        [\A o \in WapOrders :
            operation[o].status \in {"reconciled", "purged"} /\ operation'[o].status # operation[o].status =>
                \/ operation'[o].status = IF operation[o].status = "reconciled" THEN "purged" ELSE "syncing"
                \/ o \in contended']_<<vars, syncVars>>
  BY TurnInvIsInductive DEF Stays
<1> QED
  BY <1>1, <1>2, <1>3, IInvHoldsAtFirst, PTL DEF SyncSpec, ReconciledStays

--------------------------------------------------------------------------------
(* Refused orders *)

\* Requests that are not syncs leave the slots of those that are.
LEMMA OnlineLeavesHandlers ==
    ASSUME SaleInv, OnlineStep
    PROVE  \A r \in Requests : handler[r] # Idle => request'[r] = request[r]
<1>1. ASSUME NEW q \in Requests, handler[q] = Idle, Look(q) \/ Write(q)
      PROVE  \A r \in Requests : handler[r] # Idle => request'[r] = request[r]
  BY <1>1, OwnSlot
<1>2. ASSUME NEW s \in Sessions, SessionStep(s)
      PROVE  UNCHANGED request
  BY <1>2 DEF SessionStep, OpenSession, RequestBill, CloseSession, PrintKitchenSlip
<1>3. ASSUME NEW o \in Orders, CancelOrder(o) \/ \E i \in Items : Reopen(i, o)
      PROVE  UNCHANGED request
  BY <1>3 DEF CancelOrder, Reopen
<1> QED
  BY <1>1, <1>2, <1>3 DEF OnlineStep

\* The values of the rows of till, server and manager; what a till has not queued nobody
\* handles, and a handler that sells has a request of Dining.
TillTypes ==
    /\ \A o \in WapOrders :
        /\ till[o].status # "purged" /\ operation[o].replays <= MaxReplays
        /\ desk[o] = Idle \/ desk[o].status \in {"unknown", "needs_review", "quarantined"}
        /\ operation[o].status # "none" \/ desk[o] # Idle => till[o].status # "none"
    /\ \A r \in Requests : handler[r] # Idle => till[handler[r].order].status # "none"
    /\ \A r \in Requests : InSync(r, "selling") => Selling(r)

\* What a handler of the server does to its slots: it leaves its request, ends it, or sells
\* its order.
OwnSlots(r) ==
    /\ handler[r] # Idle
    /\ \A q \in Requests \ {r} : request'[q] = request[q] /\ handler'[q] = handler[q]
    /\ handler'[r] # Idle => handler'[r].order = handler[r].order
    /\ \/ request'[r] = request[r] /\ ~InSync(r, "selling") /\ ~InSync(r, "selling")'
       \/ request'[r] = Idle /\ ~InSync(r, "selling")'
       \/ /\ request'[r] \in WapRow /\ request'[r].order = handler[r].order
          /\ InSync(r, "selling")'

LEMMA HandlerMoves ==
    ASSUME RowShapes, NEW r \in Requests, handler[r] # Idle, NEW step, NEW read, GoTo(r, step, read)
    PROVE  /\ \A q \in Requests \ {r} : handler'[q] = handler[q]
           /\ handler'[r].order = handler[r].order /\ handler'[r].step = step
<1>1. handler[r] \in HandlerRow /\ handler = [q \in Requests |-> handler[q]]
  BY DEF RowShapes
<1>2. /\ handler'[r] = [[handler[r] EXCEPT !.step = step] EXCEPT !.read = read]
      /\ \A q \in Requests \ {r} : handler'[q] = handler[q]
  BY <1>1 DEF GoTo
<1> QED
  BY <1>1, <1>2 DEF HandlerRow

LEMMA HandlerEnds ==
    ASSUME RowShapes, NEW r \in Requests, handler' = [handler EXCEPT ![r] = Idle]
    PROVE  handler'[r] = Idle /\ \A q \in Requests \ {r} : handler'[q] = handler[q]
  BY DEF RowShapes

LEMMA QuietHandler ==
    ASSUME RowShapes, NEW r \in Requests, handler[r] # Idle, UNCHANGED request,
           ~InSync(r, "selling"),
           \/ handler' = [handler EXCEPT ![r] = Idle]
           \/ \E step \in Steps \ {"selling"}, read \in {handler[r].read, operation[handler[r].order],
                    operation'[handler[r].order]} : GoTo(r, step, read)
    PROVE  OwnSlots(r)
<1>1. CASE handler' = [handler EXCEPT ![r] = Idle]
  BY <1>1, HandlerEnds DEF OwnSlots, InSync
<1>2. ASSUME NEW step \in Steps \ {"selling"}, NEW read, GoTo(r, step, read)
      PROVE  OwnSlots(r)
  BY <1>2, HandlerMoves DEF OwnSlots, InSync
<1> QED
  BY <1>1, <1>2

\* A handler that ends its attempt to sell, and one that goes on with it.
LEMMA EndingHandler ==
    ASSUME RowShapes, SaleInv, NEW r \in Requests, handler[r] # Idle,
           Finish(r),
           \/ handler' = [handler EXCEPT ![r] = Idle]
           \/ \E step \in Steps \ {"selling"} : GoTo(r, step, handler[r].read)
    PROVE  OwnSlots(r)
<1>0. request'[r] = Idle /\ \A q \in Requests \ {r} : request'[q] = request[q]
  BY DEF Finish, SaleInv, SaleShapes
<1>1. CASE handler' = [handler EXCEPT ![r] = Idle]
  BY <1>0, <1>1, HandlerEnds DEF OwnSlots, InSync
<1>2. ASSUME NEW step \in Steps \ {"selling"}, GoTo(r, step, handler[r].read)
      PROVE  OwnSlots(r)
  BY <1>0, <1>2, HandlerMoves DEF OwnSlots, InSync
<1> QED
  BY <1>1, <1>2

LEMMA SellingHandler ==
    ASSUME IInv, IInv', TillTypes, NEW r \in Requests, SyncSell(r), UNCHANGED handler
    PROVE  OwnSlots(r)
<1>1. /\ handler[r] # Idle /\ InSync(r, "selling") /\ Selling(r)
      /\ request[r] \in WapRow /\ request[r].order = handler[r].order
      /\ request = [q \in Requests |-> request[q]]
  BY DEF SyncSell, InSync, TillTypes, IInv, HandlerInv, SellsItsOrder, SaleInv, SaleShapes, WapRow
<1>2. ~WapLink(r)
  <2>1. CASE WapLink(r)
    <3>1. request'[r] = Idle
      BY <1>1, <2>1 DEF WapLink, Finish
    <3>2. GoTo(r, AfterLink(request[r].session), handler[r].read) \/ ~InStep(r, "wap_link")
      BY <2>1 DEF SyncSell, WapOpen, WapPlace, WapPay, InStep
    <3>3. GoTo(r, AfterLink(request[r].session), handler[r].read)
      BY <2>1, <3>2 DEF WapLink
    <3>4. handler'[r].step \in {"acknowledge", "failed"}
      BY <1>1, <3>3, LinkIsAnswered, HandlerMoves DEF IInv, HandlerInv
    <3> QED
      BY <1>1, <3>4 DEF InSync
  <2> QED
    BY <2>1
<1>4. request'[r] \in WapRow /\ request'[r].order = request[r].order
  <2>1. CASE \E s \in Sessions : WapOpen(r, s)
    BY <1>1, <2>1 DEF WapOpen, WapRow, WapKinds
  <2>2. CASE WapPlace(r)
    BY <1>1, <2>2 DEF WapPlace, WapRow, WapKinds
  <2>3. CASE WapPay(r)
    BY <1>1, <2>3 DEF WapPay, WapRow, WapKinds
  <2> QED
    BY <1>2, <2>1, <2>2, <2>3 DEF SyncSell
<1>5. \A q \in Requests \ {r} : request'[q] = request[q]
  BY <1>2, OwnSlot DEF SyncSell, Write, IInv
<1> QED
  BY <1>1, <1>4, <1>5 DEF OwnSlots, InSync

LEMMA HandlersOwnTheirSlots ==
    ASSUME IInv, IInv', TillTypes, NEW r \in Requests, HandlerStep(r)
    PROVE  OwnSlots(r)
<1>1. RowShapes /\ SaleInv
  BY DEF IInv, HandlerInv
<1>2. handler[r] # Idle
  BY DEF HandlerStep, Prepare, BeginSync, Acknowledge, Mark, SyncLookup, SyncSell, SyncRefused,
         Reconcile, HandlerDies, TurnAway, Fail, InSync
<1>3. CASE Prepare(r)
  <2>1. ~InSync(r, "selling") /\ UNCHANGED request
    BY <1>3 DEF Prepare, InSync, vars
  <2>2. handler' = [handler EXCEPT ![r] = Idle] \/ \E read : GoTo(r, "begin", read)
    BY <1>3, Zenon DEF Prepare, Answer
  <2>3. CASE handler' = [handler EXCEPT ![r] = Idle]
    BY <1>1, <1>2, <2>1, <2>3, QuietHandler
  <2>4. ASSUME NEW read, GoTo(r, "begin", read)
        PROVE  OwnSlots(r)
    BY <1>1, <1>2, <2>1, <2>4, HandlerMoves DEF OwnSlots, InSync
  <2> QED
    BY <2>2, <2>3, <2>4
<1>4. CASE BeginSync(r) \/ Acknowledge(r)
  <2>1. ~InSync(r, "selling") /\ UNCHANGED request
    BY <1>4 DEF BeginSync, Acknowledge, Mark, InSync, vars
  <2>2. \E step \in {"sell", "reconcile"} : GoTo(r, step, operation'[handler[r].order])
    BY <1>4, Zenon DEF BeginSync, Acknowledge, Mark
  <2> QED
    BY <1>1, <1>2, <2>1, <2>2, QuietHandler DEF Steps
<1>5. CASE \/ Reconcile(r) \/ \E state \in {"rejected", "quarantined"} : TurnAway(r, state)
           \/ \E state \in {"needs_review", "unknown"} : Fail(r, state)
  <2>1. /\ ~InSync(r, "selling") /\ UNCHANGED request
        /\ handler' = [handler EXCEPT ![r] = Idle]
    BY <1>5 DEF Reconcile, TurnAway, Fail, Answer, InSync, vars
  <2> QED
    BY <1>1, <1>2, <2>1, QuietHandler
<1>6. CASE SyncLookup(r)
  <2>1. CASE UNCHANGED request
    <3>1. ~InSync(r, "selling")
      BY <1>6 DEF SyncLookup, InSync
    <3>2. ASSUME NEW s \in Sessions, GoTo(r, AfterLink(s), handler[r].read)
          PROVE  OwnSlots(r)
      BY <1>1, <1>2, <2>1, <3>1, <3>2, LinkIsAnswered, QuietHandler DEF Steps
    <3>3. CASE WapLookup(r, handler[r].order)
      <4>1. request'[r] = [kind |-> "wap_open", order |-> handler[r].order, session |-> NoSession]
        BY <1>1, <3>3 DEF WapLookup, SaleInv, SaleShapes
      <4>2. handler[r].order \in WapOrders
        BY <1>1, <1>2 DEF RowShapes, HandlerRow
      <4> QED
        BY <2>1, <3>3, <4>1, <4>2, IdleAssumption DEF WapLookup, Free
    <3> QED
      BY <1>6, <3>2, <3>3 DEF SyncLookup
  <2>2. CASE WapLookup(r, handler[r].order) /\ GoTo(r, "selling", handler[r].read)
    <3>1. handler[r].order \in WapOrders
      BY <1>1, <1>2 DEF RowShapes, HandlerRow
    <3>2. request'[r] = [kind |-> "wap_open", order |-> handler[r].order, session |-> NoSession]
      BY <1>1, <2>2 DEF WapLookup, SaleInv, SaleShapes
    <3>3. request'[r] \in WapRow /\ request'[r].order = handler[r].order
      BY <3>1, <3>2 DEF WapRow, WapKinds
    <3>4. \A q \in Requests \ {r} : request'[q] = request[q]
      BY <1>1, <2>2, <3>1, OwnSlot DEF Look
    <3>5. handler'[r] # Idle
      <4>1. handler[r] \in HandlerRow /\ handler = [q \in Requests |-> handler[q]]
        BY <1>1, <1>2 DEF RowShapes
      <4>2. handler'[r] = [[handler[r] EXCEPT !.step = "selling"] EXCEPT !.read = handler[r].read]
        BY <2>2, <4>1 DEF GoTo
      <4>3. /\ handler'[r] = [order |-> handler[r].order, step |-> "selling", read |-> handler[r].read]
            /\ handler[r].order \in WapOrders /\ handler[r].read \in OperationRow
        BY <4>1, <4>2 DEF HandlerRow
      <4>4. handler'[r] \in [order : WapOrders, step : {"selling"},
                             read : [status : Statuses, replays : Nat]]
        BY <4>3 DEF OperationRow
      <4> QED
        BY <4>4, HandlerAssumption
    <3> QED
      BY <1>1, <1>2, <2>2, <3>3, <3>4, <3>5, HandlerMoves DEF OwnSlots, InSync
  <2> QED
    BY <1>6, <2>1, <2>2 DEF SyncLookup, vars
<1>7. CASE SyncSell(r)
  <2>1. CASE WapLink(r) /\ GoTo(r, AfterLink(request[r].session), handler[r].read)
    BY <1>1, <1>2, <2>1, LinkIsAnswered, EndingHandler DEF WapLink, Steps
  <2> QED
    BY <1>7, <2>1, SellingHandler DEF SyncSell
<1>8. CASE SyncRefused(r)
  <2>1. CASE InSync(r, "sell") /\ UNCHANGED vars
    BY <1>1, <1>2, <1>8, <2>1, QuietHandler DEF SyncRefused, AfterRefusal, Steps, InSync, vars
  <2>2. CASE Abort(r)
    BY <1>1, <1>2, <1>8, <2>2, EndingHandler DEF SyncRefused, AfterRefusal, Steps, Abort
  <2> QED
    BY <1>8, <2>1, <2>2 DEF SyncRefused
<1>9. CASE HandlerDies(r)
  <2>1. CASE InSync(r, "selling")
    BY <1>1, <1>2, <1>9, <2>1, EndingHandler DEF HandlerDies, Abort
  <2>2. CASE ~InSync(r, "selling")
    BY <1>1, <1>2, <1>9, <2>2, QuietHandler DEF HandlerDies, vars
  <2> QED
    BY <2>1, <2>2
<1> QED
  BY <1>3, <1>4, <1>5, <1>6, <1>7, <1>8, <1>9 DEF HandlerStep

\* A mark replays nothing and makes no operation.
LEMMA TransitionKeepsReplays ==
    ASSUME RowShapes, NEW o \in WapOrders, NEW read, NEW type, NEW state,
           Transition(o, read, type, state)
    PROVE  operation'[o].replays = operation[o].replays
<1>1. operation \in [WapOrders -> OperationRow]
  BY DEF RowShapes
<1>2. PICK status : operation' = [operation EXCEPT ![o].status = status]
  BY DEF Transition
<1> QED
  BY <1>1, <1>2 DEF OperationRow

LEMMA TillStepKeepsTypes ==
    ASSUME IInv, TillTypes, NEW o \in WapOrders, TillStep(o)
    PROVE  TillTypes'
<1>t. till \in [WapOrders -> [status : Statuses, waits : Requests \cup {Idle}]]
      /\ operation \in [WapOrders -> OperationRow] /\ handler = [r \in Requests |-> handler[r]]
  BY DEF IInv, HandlerInv, RowShapes
<1>1. UNCHANGED <<operation, request, desk>>
  BY DEF TillStep, Queue, Send, GiveUp, Inquire, SendAgain, vars
<1>2. /\ till'[o].status \notin {"none", "purged"}
      /\ \A p \in WapOrders \ {o} : till'[p] = till[p]
  <2>1. CASE Queue(o) \/ SendAgain(o)
    BY <1>t, <2>1 DEF Queue, SendAgain
  <2>2. CASE Inquire(o)
    BY <1>t, <2>2 DEF Inquire
  <2>3. CASE \E r \in Requests : Send(r, o)
    BY <1>t, <2>3 DEF Send
  <2>4. CASE \E status \in {"unknown", "syncing"} : GiveUp(o, status)
    BY <1>t, <2>4 DEF GiveUp
  <2> QED
    BY <2>1, <2>2, <2>3, <2>4 DEF TillStep
<1>3. \A p \in WapOrders : till[p].status # "none" => till'[p].status # "none"
  BY <1>2
<1>4. \A r \in Requests : /\ handler'[r] # Idle => till'[handler'[r].order].status # "none"
                          /\ InSync(r, "selling")' => InSync(r, "selling")
  <2>1. CASE UNCHANGED handler
    <3>1. \A r \in Requests : handler[r] # Idle => handler[r].order \in WapOrders
      BY DEF IInv, HandlerInv, RowShapes, HandlerRow
    <3> QED
      BY <1>3, <2>1, <3>1 DEF TillTypes, InSync
  <2>2. CASE \E r \in Requests : Send(r, o)
    <3>1. PICK r \in Requests : Send(r, o)
      BY <2>2
    <3>2. handler'[r] = [order |-> o, step |-> "arrived", read |-> operation[o]]
      BY <1>t, <3>1 DEF Send
    <3>3. handler'[r].order = o /\ handler'[r].step = "arrived"
      BY <3>2
    <3>4. \A q \in Requests \ {r} : handler'[q] = handler[q]
      BY <1>t, <3>1 DEF Send
    <3>5. \A q \in Requests : handler[q] # Idle => handler[q].order \in WapOrders
      BY DEF IInv, HandlerInv, RowShapes, HandlerRow
    <3> QED
      BY <1>2, <1>3, <3>3, <3>4, <3>5 DEF TillTypes, InSync
  <2> QED
    BY <2>1, <2>2 DEF TillStep, Queue, GiveUp, Inquire, SendAgain
<1> QED
  BY <1>1, <1>2, <1>3, <1>4 DEF TillTypes, Selling

LEMMA ManagerStepKeepsTypes ==
    ASSUME IInv, TurnInv, TillTypes, NEW o \in WapOrders, ManagerStep(o)
    PROVE  TillTypes'
<1>t. RowShapes /\ operation \in [WapOrders -> OperationRow] /\ desk = [p \in WapOrders |-> desk[p]]
  BY DEF IInv, HandlerInv, RowShapes, TurnInv
<1>1. UNCHANGED <<till, handler, request>>
  BY DEF ManagerStep, LookToReject, Reject, Purge, vars
<1>2. /\ operation'[o].replays = operation[o].replays
      /\ \A p \in WapOrders \ {o} : operation'[p] = operation[p] /\ desk'[p] = desk[p]
      /\ \/ desk'[o] \in {Idle, desk[o]}
         \/ desk'[o] = operation[o] /\ operation[o].status \in {"unknown", "needs_review", "quarantined"}
      /\ till[o].status # "none"
  <2>1. CASE LookToReject(o)
    BY <1>t, <2>1 DEF LookToReject, TillTypes
  <2>2. CASE Reject(o)
    <3>1. CASE UNCHANGED operation
      BY <1>t, <2>2, <3>1 DEF Reject, TillTypes
    <3>2. CASE Transition(o, desk[o], "manual_resolution", "rejected")
      <4>1. operation'[o].replays = operation[o].replays
        BY <1>t, <3>2, TransitionKeepsReplays
      <4>2. \A p \in WapOrders \ {o} : operation'[p] = operation[p]
        BY <1>t, <3>2, TransitionMarks DEF Statuses, Final
      <4> QED
        BY <1>t, <2>2, <4>1, <4>2 DEF Reject, TillTypes
    <3> QED
      BY <2>2, <3>1, <3>2 DEF Reject
  <2>3. CASE Purge(o)
    BY <1>t, <2>3 DEF Purge, TillTypes, OperationRow
  <2> QED
    BY <2>1, <2>2, <2>3 DEF ManagerStep
<1> QED
  BY <1>1, <1>2 DEF TillTypes, InSync, Selling

\* A handler's marks and answers.
LEMMA HandlerMarks ==
    ASSUME IInv, TillTypes, NEW r \in Requests, HandlerStep(r), NEW o \in WapOrders,
           o = handler[r].order
    PROVE  /\ till'[o].status \notin {"none", "purged"}
           /\ operation'[o].replays <= MaxReplays
           /\ \A p \in WapOrders \ {o} : till'[p] = till[p] /\ operation'[p] = operation[p]
           /\ UNCHANGED desk
<1>1. /\ RowShapes /\ handler[r] # Idle
      /\ operation \in [WapOrders -> OperationRow]
  BY DEF IInv, HandlerInv, RowShapes, HandlerStep, Prepare, BeginSync, Acknowledge, Mark,
         SyncLookup, SyncSell, SyncRefused, Reconcile, HandlerDies, TurnAway, Fail, InSync
<1>2. till[o].status \notin {"none", "purged"} /\ operation[o].replays <= MaxReplays
  BY <1>1 DEF TillTypes
<1>3. UNCHANGED desk
  BY DEF HandlerStep, Prepare, BeginSync, Acknowledge, Mark, SyncLookup, SyncSell, SyncRefused,
         Reconcile, HandlerDies, TurnAway, Fail
<1>4. ASSUME NEW state \in Statuses \ {"none", "purged"}, Answer(r, state)
      PROVE  /\ till'[o].status \notin {"none", "purged"}
             /\ \A p \in WapOrders \ {o} : till'[p] = till[p]
  BY <1>1, <1>2, <1>4, AnswerTells
<1>5. ASSUME NEW read, NEW type, NEW state \in Statuses, Transition(o, read, type, state)
      PROVE  /\ operation'[o].replays <= MaxReplays
             /\ \A p \in WapOrders \ {o} : operation'[p] = operation[p]
  BY <1>1, <1>2, <1>5, TransitionMarks, TransitionKeepsReplays
<1>6. CASE UNCHANGED <<till, operation>>
  BY <1>2, <1>3, <1>6
<1>7. CASE Prepare(r)
  <2> DEFINE found == operation[o]
             now == IF found.status = "none" THEN [status |-> "pending_sync", replays |-> 0]
                    ELSE [found EXCEPT !.replays = @ + 1]
  <2>1. /\ operation' = [operation EXCEPT ![o] = now] /\ now.replays <= MaxReplays
        /\ IF Settled(found.status) THEN Answer(r, found.status) ELSE UNCHANGED till
    BY <1>7, Zenon DEF Prepare
  <2>2. /\ operation'[o].replays <= MaxReplays
        /\ \A p \in WapOrders \ {o} : operation'[p] = operation[p]
    <3> HIDE DEF now
    <3> QED
      BY <1>1, <2>1
  <2>3. /\ till'[o].status \notin {"none", "purged"}
        /\ \A p \in WapOrders \ {o} : till'[p] = till[p]
    <3>1. CASE Settled(found.status)
      <4>1. found.status \in Statuses \ {"none", "purged"}
        BY <3>1 DEF Settled, Final, Statuses
      <4> QED
        BY <1>4, <2>1, <3>1, <4>1
    <3>2. CASE ~Settled(found.status)
      BY <1>2, <2>1, <3>2
    <3> QED
      BY <3>1, <3>2
  <2> QED
    BY <1>3, <2>2, <2>3
<1>8. CASE BeginSync(r) \/ Acknowledge(r)
  <2>1. UNCHANGED till
    BY <1>8 DEF BeginSync, Acknowledge, Mark
  <2>2. \E read, type : \E state \in {"syncing", "server_acknowledged"} : Transition(o, read, type, state)
    BY <1>8, Zenon DEF BeginSync, Acknowledge, Mark
  <2>3. {"syncing", "server_acknowledged"} \subseteq Statuses
    BY DEF Statuses, Open
  <2> QED
    BY <1>2, <1>3, <1>5, <2>1, <2>2, <2>3
<1>9. CASE Reconcile(r) \/ \E state \in {"needs_review", "unknown"} : Fail(r, state)
  <2>1. \E read, type : \E state \in {"reconciled", "needs_review", "unknown"} :
            Transition(o, read, type, state) /\ Answer(r, state)
    BY <1>9, Zenon DEF Reconcile, Fail
  <2>2. {"reconciled", "needs_review", "unknown"} \subseteq Statuses \ {"none", "purged"}
    BY DEF Statuses, Open, Final
  <2> QED
    BY <1>3, <1>4, <1>5, <2>1, <2>2
<1>10. CASE \E state \in {"rejected", "quarantined"} : TurnAway(r, state)
  <2>1. UNCHANGED operation /\ \E state \in {"rejected", "quarantined"} : Answer(r, state)
    BY <1>10 DEF TurnAway
  <2>2. {"rejected", "quarantined"} \subseteq Statuses \ {"none", "purged"}
    BY DEF Statuses, Final
  <2> QED
    BY <1>2, <1>3, <1>4, <2>1, <2>2
<1> QED
  BY <1>6, <1>7, <1>8, <1>9, <1>10 DEF HandlerStep, SyncLookup, SyncSell, SyncRefused, HandlerDies

LEMMA HandlerStepKeepsTypes ==
    ASSUME IInv, IInv', TillTypes, NEW r \in Requests, HandlerStep(r)
    PROVE  TillTypes'
<1>1. OwnSlots(r)
  BY HandlersOwnTheirSlots
<1>2. \A q \in Requests : handler[q] # Idle => handler[q].order \in WapOrders
  BY DEF IInv, HandlerInv, RowShapes, HandlerRow
<1>o. PICK o \in WapOrders : o = handler[r].order
  BY <1>1, <1>2 DEF OwnSlots
<1>3. /\ till'[o].status \notin {"none", "purged"}
      /\ operation'[o].replays <= MaxReplays
      /\ \A p \in WapOrders \ {o} : till'[p] = till[p] /\ operation'[p] = operation[p]
      /\ UNCHANGED desk
  BY <1>o, HandlerMarks
<1>4. \A p \in WapOrders :
        /\ till'[p].status # "purged" /\ operation'[p].replays <= MaxReplays
        /\ desk'[p] = Idle \/ desk'[p].status \in {"unknown", "needs_review", "quarantined"}
        /\ operation'[p].status # "none" \/ desk'[p] # Idle => till'[p].status # "none"
  BY <1>3 DEF TillTypes
<1>5. \A q \in Requests : handler'[q] # Idle => till'[handler'[q].order].status # "none"
  BY <1>1, <1>2, <1>3, <1>o DEF TillTypes, OwnSlots
<1>6. \A q \in Requests : InSync(q, "selling")' => Selling(q)'
  <2>1. InSync(r, "selling")' => Selling(r)'
    BY <1>1, IdleAssumption DEF OwnSlots, WapRow, WapKinds, Selling
  <2>2. ASSUME NEW q \in Requests \ {r}
        PROVE  InSync(q, "selling")' => Selling(q)'
    BY <1>1 DEF OwnSlots, TillTypes, InSync, Selling
  <2> QED
    BY <2>1, <2>2
<1> QED
  BY <1>4, <1>5, <1>6 DEF TillTypes

LEMMA TillTypesAreKept ==
    ASSUME IInv, IInv', TurnInv, TillTypes, [SyncNext]_<<vars, syncVars>>
    PROVE  TillTypes'
<1>1. CASE UNCHANGED <<vars, syncVars>>
  BY <1>1 DEF vars, syncVars, TillTypes, InSync, Selling
<1>2. CASE OnlineStep
  <2>1. \A r \in Requests : handler[r] # Idle => request'[r] = request[r]
    BY <1>2, OnlineLeavesHandlers DEF IInv
  <2>2. UNCHANGED syncVars
    BY <1>2 DEF OnlineStep
  <2> QED
    BY <2>1, <2>2 DEF syncVars, TillTypes, InSync, Selling
<1> QED
  BY <1>1, <1>2, TillStepKeepsTypes, ManagerStepKeepsTypes, HandlerStepKeepsTypes DEF SyncNext

\* What an operation says that was refused, or may have been, and what a handler says of it
\* whose sale was refused.
Refused == {"unknown", "needs_review", "quarantined", "rejected"}
Doubted(o) == \/ operation[o].status \in Refused
              \/ \E r \in Handling(o) : handler[r].step = "failed"
Closed == Final \ {"reconciled"}

\* An order that was not sold, or whose sale was not looked for or could not be seen.
Unsold(o) == o \notin paid \/ o \in broken \/ o \in turnedAway \/ AtTable(o)

\* An order that nobody disputes is sold by its handler only, was not sold when it is
\* refused, and is refused to the till when the operation is.
RefusalOk(o) ==
    /\ operation[o].status = "none" => Handling(o) = {}
    /\ operation[o].status # "none" =>
            \A r \in Attempting(o) : InSync(r, "selling") /\ handler[r].order = o
    /\ Doubted(o) => Unsold(o)
    /\ till[o].status \in Closed => o \in turnedAway \/ operation[o].status \in Closed
    /\ desk[o] # Idle => operation[o].status \in Refused

RefusalInv == \A o \in WapOrders \ contended : RefusalOk(o)

\* While nobody tries to sell a paid order, no step sells it or hides that it is sold.
LEMMA NobodySells ==
    ASSUME DiningInv, PaidInv, [Next]_vars, NEW o \in WapOrders, Attempting(o) = {}
    PROVE  /\ o \in paid' <=> o \in paid
           /\ broken \subseteq broken'
           /\ AtTable(o) => AtTable(o)'
<1>t. /\ o \in Orders /\ order \in [Orders -> OrderRow] /\ order[o].session \in Sessions \cup {NoSession}
      /\ session \in [Sessions -> SessionRow]
  BY WapAssumption DEF DiningInv, RowInv, OrderRow, SaleInv, SaleShapes
<1>0. AtTable(o) => order[o].session \in Sessions /\ session[order[o].session].status # "none"
  BY <1>t DEF AtTable, Placed, PaidInv, SessionsInUse
<1>1. ASSUME Calm
      PROVE  /\ o \in paid' <=> o \in paid
             /\ broken \subseteq broken'
             /\ AtTable(o) => AtTable(o)'
  <2>1. order'[o].session = order[o].session /\ UNCHANGED <<paid, broken>>
    BY <1>t, <1>1 DEF Calm
  <2>2. AtTable(o) => AtTable(o)'
    BY <1>0, <1>1, <2>1 DEF Calm, AtTable, Placed
  <2> QED
    BY <2>1, <2>2
<1>2. CASE UNCHANGED vars
  BY <1>2 DEF vars, rowVars, historyVars, AtTable, Placed
<1>3. ASSUME NEW r \in Requests, WapStep(r)
      PROVE  /\ o \in paid' <=> o \in paid
             /\ broken \subseteq broken'
             /\ AtTable(o) => AtTable(o)'
  <2>0. Selling(r) => request[r].order # o
    BY DEF Attempting, Selling, WapKinds
  <2>1. CASE (\E p \in WapOrders : WapLookup(r, p)) \/ Abort(r)
    BY <2>1 DEF WapLookup, Abort, rowVars, AtTable, Placed
  <2>2. CASE \E s \in Sessions : WapOpen(r, s)
    <3>1. PICK s \in Sessions : WapOpen(r, s)
      BY <2>2
    <3>2. /\ session[s].status = "none" /\ UNCHANGED <<order, paid, broken>>
          /\ \A t \in Sessions \ {s} : session'[t] = session[t]
      BY <1>t, <3>1 DEF WapOpen, historyVars
    <3> QED
      BY <1>0, <3>2 DEF AtTable, Placed
  <2>3. CASE WapPlace(r)
    <3>1. request[r].order # o /\ UNCHANGED <<session, paid, broken>>
      BY <2>0, <2>3 DEF WapPlace, Selling, InStep, WapKinds
    <3>2. order'[o] = order[o]
      BY <1>t, <2>3, <3>1 DEF WapPlace, AddOrder
    <3> QED
      BY <3>1, <3>2 DEF AtTable, Placed
  <2>4. CASE WapPay(r)
    <3>1. /\ request[r].order # o /\ UNCHANGED <<session, order, broken>>
          /\ paid' = paid \cup {request[r].order}
      BY <2>0, <2>4 DEF WapPay, Selling, InStep, WapKinds, rowVars
    <3> QED
      BY <3>1 DEF AtTable, Placed
  <2>5. CASE WapLink(r)
    <3>1. request[r].order # o /\ UNCHANGED <<order, paid, broken>> /\ Holds(r)
      BY <2>0, <2>5 DEF WapLink, Selling, Holds, InStep, WapKinds, historyVars
    <3>2. order[o].session # request[r].session
      BY <3>1 DEF PaidInv, OwnSessions
    <3>3. \A t \in Sessions : t # request[r].session => session'[t] = session[t]
      BY <1>t, <2>5 DEF WapLink
    <3> QED
      BY <1>0, <3>1, <3>2, <3>3 DEF AtTable, Placed
  <2> QED
    BY <1>3, <2>1, <2>2, <2>3, <2>4, <2>5 DEF WapStep
<1>4. SessionsInUse
  BY DEF PaidInv
<1> QED
  BY <1>1, <1>2, <1>3, <1>4, LookIsCalm, WriteIsCalm, CancellationIsCalm, SessionStepIsCalm DEF Next

\* Nobody sells what is in doubt.
LEMMA DoubtedIsLeft ==
    ASSUME IInv, TurnInv, NEW o \in WapOrders \ contended, RefusalOk(o), Doubted(o)
    PROVE  Attempting(o) = {}
<1>1. InTurn(o)
  BY DEF TurnInv
<1>2. ASSUME NEW r \in Handling(o), operation[o].status \in Refused
      PROVE  handler[r].step # "selling"
  BY <1>1, <1>2 DEF InTurn, Due, Refused
<1>3. ASSUME NEW r \in Handling(o), handler[r].step = "failed"
      PROVE  operation[o].status # "none" /\ \A q \in Handling(o) : handler[q].step # "selling"
  BY <1>1, <1>3 DEF InTurn, Due
<1>4. operation[o].status # "none" /\ \A q \in Handling(o) : handler[q].step # "selling"
  BY <1>2, <1>3 DEF Doubted, Refused
<1>5. ASSUME NEW r \in Attempting(o)
      PROVE  r \in Handling(o) /\ handler[r].step = "selling"
  BY <1>4 DEF RefusalOk, InSync, Handling, Attempting
<1> QED
  BY <1>4, <1>5

\* Steps that leave an operation's status, and its handlers but for those that end.
LEMMA RefusalRests ==
    ASSUME IInv, TurnInv, DiningInv, PaidInv, [Next]_vars,
           NEW o \in WapOrders \ contended, RefusalOk(o),
           operation'[o].status = operation[o].status,
           turnedAway \subseteq turnedAway',
           till'[o].status \in Closed =>
                till'[o].status \in {till[o].status, operation[o].status} \/ o \in turnedAway',
           desk'[o] # Idle => desk[o] # Idle \/ operation[o].status \in Refused,
           \A r \in Handling(o)' : r \in Handling(o) /\ handler'[r] = handler[r],
           operation[o].status # "none" =>
                \A r \in Attempting(o)' : r \in Attempting(o) /\ handler'[r] = handler[r]
    PROVE  RefusalOk(o)'
<1>1. operation'[o].status = "none" => Handling(o)' = {}
  BY DEF RefusalOk
<1>2. operation'[o].status # "none" =>
            \A r \in Attempting(o)' : InSync(r, "selling")' /\ handler'[r].order = o
  BY DEF RefusalOk, InSync
<1>3. ASSUME Doubted(o)'
      PROVE  Unsold(o)'
  <2>1. Doubted(o)
    BY <1>3 DEF Doubted
  <2>2. Attempting(o) = {} /\ Unsold(o)
    BY <2>1, DoubtedIsLeft DEF RefusalOk
  <2> QED
    BY <2>2, NobodySells DEF Unsold
<1>4. till'[o].status \in Closed => o \in turnedAway' \/ operation'[o].status \in Closed
  BY DEF RefusalOk
<1>5. desk'[o] # Idle => operation'[o].status \in Refused
  BY DEF RefusalOk
<1> QED
  BY <1>1, <1>2, <1>3, <1>4, <1>5 DEF RefusalOk

LEMMA TillKeepsRefusals ==
    ASSUME IInv, TurnInv, DiningInv, PaidInv, RefusalInv, NEW o \in WapOrders, TillStep(o)
    PROVE  RefusalInv'
<1>t. till \in [WapOrders -> [status : Statuses, waits : Requests \cup {Idle}]]
      /\ handler = [r \in Requests |-> handler[r]]
  BY DEF IInv, HandlerInv, RowShapes
<1>1. UNCHANGED <<vars, operation, desk, contended, turnedAway>>
  BY DEF TillStep, Queue, Inquire, SendAgain, Send, GiveUp
<1>2. /\ till'[o].status \in Closed => till'[o].status \in {till[o].status, operation[o].status}
      /\ \A p \in WapOrders \ {o} : till'[p] = till[p]
  <2>1. CASE Queue(o) \/ SendAgain(o)
    BY <1>t, <2>1 DEF Queue, SendAgain, Closed, Final
  <2>2. CASE Inquire(o)
    BY <1>t, <2>2 DEF Inquire, Closed
  <2>3. CASE \E r \in Requests : Send(r, o)
    BY <1>t, <2>3 DEF Send, Closed, Final
  <2>4. CASE \E status \in {"unknown", "syncing"} : GiveUp(o, status)
    BY <1>t, <2>4 DEF GiveUp, Closed, Final
  <2> QED
    BY <2>1, <2>2, <2>3, <2>4 DEF TillStep
<1>3. \A r \in Requests : \/ handler'[r] = handler[r]
                          \/ handler[r] = Idle /\ handler'[r].step = "arrived"
  <2>1. ASSUME NEW r \in Requests, Send(r, o)
        PROVE  /\ handler[r] = Idle /\ handler'[r].step = "arrived"
               /\ \A q \in Requests \ {r} : handler'[q] = handler[q]
    <3>1. handler'[r] = [order |-> o, step |-> "arrived", read |-> operation[o]]
      BY <1>t, <2>1 DEF Send
    <3> QED
      BY <1>t, <2>1, <3>1 DEF Send
  <2> QED
    BY <2>1 DEF TillStep, Queue, Inquire, SendAgain, GiveUp
<1>4. ASSUME NEW p \in WapOrders \ contended'
      PROVE  RefusalOk(p)'
  <2>1. RefusalOk(p) /\ [Next]_vars /\ p \notin contended
    BY <1>1, <1>4 DEF RefusalInv
  <2>2. \A r \in Handling(p)' : r \in Handling(p) /\ handler'[r] = handler[r]
    BY <1>3 DEF Handling
  <2>3. operation[p].status # "none" =>
                \A r \in Attempting(p)' : r \in Attempting(p) /\ handler'[r] = handler[r]
    <3>1. Attempting(p)' = Attempting(p)
      BY <1>1 DEF Attempting, vars
    <3> QED
      BY <1>3, <2>1, <3>1 DEF RefusalOk, InSync, Attempting
  <2>4. till'[p].status \in Closed => till'[p].status \in {till[p].status, operation[p].status}
    BY <1>2
  <2> QED
    BY <1>1, <2>1, <2>2, <2>3, <2>4, RefusalRests
<1> QED
  BY <1>4 DEF RefusalInv

LEMMA OnlineKeepsRefusals ==
    ASSUME IInv, TurnInv, DiningInv, PaidInv, TillTypes, RefusalInv, [Next]_vars,
           OnlineStep \/ UNCHANGED <<vars, syncVars>>
    PROVE  RefusalInv'
<1>1. UNCHANGED syncVars
  BY DEF OnlineStep
<1>2. ASSUME NEW p \in WapOrders \ contended'
      PROVE  RefusalOk(p)'
  <2>1. RefusalOk(p) /\ p \notin contended
    BY <1>1, <1>2 DEF RefusalInv, syncVars
  <2>2. \A r \in Handling(p)' : r \in Handling(p) /\ handler'[r] = handler[r]
    BY <1>1 DEF Handling, syncVars
  <2>3. operation[p].status # "none" => Attempting(p)' \subseteq Attempting(p)
    <3>1. CASE OnlineStep
      BY <3>1 DEF OnlineStep, TillTypes
    <3>2. CASE UNCHANGED vars
      BY <3>2 DEF vars, Attempting
    <3> QED
      BY <3>1, <3>2
  <2> QED
    BY <1>1, <2>1, <2>2, <2>3, RefusalRests DEF syncVars
<1> QED
  BY <1>2 DEF RefusalInv

LEMMA ManagerKeepsRefusals ==
    ASSUME IInv, TurnInv, DiningInv, PaidInv, RefusalInv, NEW o \in WapOrders, ManagerStep(o)
    PROVE  RefusalInv'
<1>t. /\ RowShapes /\ operation \in [WapOrders -> OperationRow]
      /\ desk = [p \in WapOrders |-> desk[p]]
  BY DEF IInv, HandlerInv, RowShapes, TurnInv
<1>1. /\ UNCHANGED <<vars, till, handler, turnedAway>>
      /\ contended \subseteq contended'
  BY DEF ManagerStep, LookToReject, Reject, Purge
<1>2. \A p \in WapOrders : Handling(p)' = Handling(p) /\ Attempting(p)' = Attempting(p)
  BY <1>1 DEF Handling, Attempting, vars
<1>3. /\ \A p \in WapOrders \ {o} : operation'[p] = operation[p]
      /\ \A p \in WapOrders \ {o} : desk'[p] = desk[p]
  BY <1>t, TransitionMarks DEF ManagerStep, LookToReject, Reject, Purge, Statuses, Final
<1>4. ASSUME NEW p \in WapOrders \ contended',
             operation'[p].status = operation[p].status,
             desk'[p] # Idle => desk[p] # Idle \/ operation[p].status \in Refused
      PROVE  RefusalOk(p)'
  <2>1. RefusalOk(p) /\ p \notin contended /\ [Next]_vars
    BY <1>1, <1>4 DEF RefusalInv
  <2> QED
    BY <1>1, <1>2, <1>4, <2>1, RefusalRests
<1>5. ASSUME NEW p \in WapOrders \ contended', p # o
      PROVE  RefusalOk(p)'
  BY <1>3, <1>4, <1>5
<1>6. ASSUME o \notin contended'
      PROVE  RefusalOk(o)'
  <2>0. RefusalOk(o) /\ InTurn(o) /\ o \notin contended
    BY <1>1, <1>6 DEF RefusalInv, TurnInv
  <2>1. CASE LookToReject(o)
    BY <1>4, <1>6, <2>1 DEF LookToReject, Refused
  <2>2. CASE Reject(o)
    <3>1. CASE UNCHANGED operation
      BY <1>t, <1>4, <1>6, <2>2, <3>1 DEF Reject
    <3>2. CASE Transition(o, desk[o], "manual_resolution", "rejected")
      <4>1. /\ operation[o].status \in Refused /\ Handling(o) = {} /\ desk'[o] = Idle
        BY <1>t, <2>0, <2>2 DEF Reject, RefusalOk, InTurn
      <4>2. Attempting(o) = {} /\ Unsold(o)
        BY <2>0, <4>1, DoubtedIsLeft DEF Doubted, RefusalOk
      <4>3. operation'[o].status \in {operation[o].status, "rejected"}
        BY <1>t, <3>2, TransitionMarks DEF Statuses, Final
      <4>4. operation'[o].status \in Refused
        BY <4>1, <4>3 DEF Refused
      <4>5. Unsold(o)'
        BY <1>1, <4>2 DEF Unsold, AtTable, Placed, vars, rowVars, historyVars
      <4>6. till'[o].status \in Closed => o \in turnedAway' \/ operation'[o].status \in Closed
        BY <1>1, <2>0, <4>3 DEF RefusalOk, Closed, Final
      <4> QED
        BY <1>2, <4>1, <4>2, <4>4, <4>5, <4>6 DEF RefusalOk, Refused
    <3> QED
      BY <2>2, <3>1, <3>2 DEF Reject
  <2>3. CASE Purge(o)
    <3>1. /\ operation[o].status = "reconciled" /\ operation'[o].status = "purged"
          /\ UNCHANGED desk
      BY <1>t, <2>3 DEF Purge, OperationRow
    <3>2. Handling(o) = {} /\ desk[o] = Idle
      BY <2>0, <3>1 DEF InTurn, Due, Final
    <3>3. Attempting(o) = {}
      BY <2>0, <3>1, <3>2 DEF RefusalOk, InSync, Handling, Attempting
    <3>4. ~Doubted(o)'
      BY <1>2, <3>1, <3>2 DEF Doubted, Refused
    <3>5. till'[o].status \in Closed => o \in turnedAway'
      BY <1>1, <2>0, <3>1 DEF RefusalOk, Closed
    <3> QED
      BY <1>2, <3>1, <3>2, <3>3, <3>4, <3>5 DEF RefusalOk
  <2> QED
    BY <2>1, <2>2, <2>3 DEF ManagerStep
<1> QED
  BY <1>5, <1>6 DEF RefusalInv

\* A handler's step leaves the orders of others.
LEMMA HandlerLeavesOthers ==
    ASSUME IInv, IInv', TurnInv, DiningInv, PaidInv, TillTypes, RefusalInv, [Next]_vars,
           NEW r \in Requests, HandlerStep(r),
           NEW p \in WapOrders \ contended', p # handler[r].order
    PROVE  RefusalOk(p)'
<1>1. OwnSlots(r)
  BY HandlersOwnTheirSlots
<1>o. PICK o \in WapOrders : o = handler[r].order
  BY <1>1 DEF OwnSlots, IInv, HandlerInv, RowShapes, HandlerRow
<1>2. /\ till'[p] = till[p] /\ operation'[p] = operation[p] /\ UNCHANGED desk
  BY <1>o, HandlerMarks
<1>3. contended \subseteq contended' /\ turnedAway \subseteq turnedAway'
  BY DEF HandlerStep, Prepare, BeginSync, Acknowledge, Mark, SyncLookup, SyncSell, SyncRefused,
         Reconcile, HandlerDies, TurnAway, Fail
<1>4. RefusalOk(p) /\ p \notin contended
  BY <1>3 DEF RefusalInv
<1>5. \A q \in Handling(p)' : q \in Handling(p) /\ handler'[q] = handler[q]
  BY <1>1 DEF OwnSlots, Handling
<1>6. ASSUME operation[p].status # "none", NEW q \in Attempting(p)'
      PROVE  q \in Attempting(p) /\ handler'[q] = handler[q]
  <2>1. CASE q # r
    BY <1>1, <1>6, <2>1 DEF OwnSlots, Attempting
  <2>2. CASE q = r
    <3>1. request'[r] # Idle /\ request'[r].order = p
      BY <1>6, <2>2 DEF Attempting
    <3>2. request'[r] = request[r]
      BY <1>1, <3>1 DEF OwnSlots
    <3>3. r \in Attempting(p)
      BY <1>6, <2>2, <3>2 DEF Attempting
    <3>4. handler[r].order = p
      BY <1>4, <1>6, <3>3 DEF RefusalOk
    <3> QED
      BY <3>4
  <2> QED
    BY <2>1, <2>2
<1> QED
  BY <1>2, <1>3, <1>4, <1>5, <1>6, RefusalRests

\* A handler of an order that nobody disputes is alone with it.
LEMMA HandlerAlone ==
    ASSUME IInv, TurnInv, RefusalInv, NEW r \in Requests, NEW o \in WapOrders \ contended,
           r \in Handling(o)
    PROVE  /\ Handling(o) = {r} /\ desk[o] = Idle
           /\ operation[o].status \in Due(handler[r].step) \ {"none"}
           /\ Attempting(o) \subseteq {r}
           /\ handler[r].step # "selling" => Attempting(o) = {}
           /\ till[o].status \in Closed => o \in turnedAway
<1>1. InTurn(o) /\ RefusalOk(o)
  BY DEF TurnInv, RefusalInv
<1>2. Handling(o) = {r} /\ desk[o] = Idle /\ operation[o].status \in Due(handler[r].step)
  BY <1>1 DEF InTurn
<1>3. operation[o].status # "none"
  BY <1>1, <1>2 DEF RefusalOk
<1>4. \A q \in Attempting(o) : q = r /\ handler[r].step = "selling"
  BY <1>1, <1>2, <1>3 DEF RefusalOk, InSync, Handling, Attempting
<1>5. operation[o].status \notin Closed
  BY <1>2 DEF Due, Closed, Final
<1> QED
  BY <1>1, <1>2, <1>3, <1>4, <1>5 DEF RefusalOk

\* A handler that has its order alone, and goes on or ends: what there is to show.
LEMMA AloneKeepsRefusals ==
    ASSUME IInv, IInv', TurnInv, TillTypes, RefusalInv, NEW r \in Requests, HandlerStep(r),
           NEW o \in WapOrders \ contended, r \in Handling(o), UNCHANGED desk,
           operation'[o].status # "none",
           Doubted(o)' => Unsold(o)',
           till'[o].status \in Closed => o \in turnedAway' \/ operation'[o].status \in Closed
    PROVE  RefusalOk(o)'
<1>1. OwnSlots(r) /\ handler[r].order = o
  BY HandlersOwnTheirSlots DEF Handling
<1>2. /\ Attempting(o) \subseteq {r} /\ desk[o] = Idle
      /\ handler[r].step # "selling" => Attempting(o) = {}
  BY HandlerAlone
<1>3. ASSUME NEW q \in Attempting(o)'
      PROVE  InSync(q, "selling")' /\ handler'[q].order = o
  <2>1. q = r
    BY <1>1, <1>2, <1>3 DEF OwnSlots, Attempting
  <2>2. request'[r] # Idle
    BY <1>3, <2>1 DEF Attempting
  <2>3. request'[r] = request[r] => r \in Attempting(o)
    BY <1>3, <2>1 DEF Attempting
  <2>4. InSync(r, "selling")'
    BY <1>1, <1>2, <2>2, <2>3 DEF OwnSlots, InSync
  <2> QED
    BY <1>1, <2>1, <2>4 DEF OwnSlots, InSync
<1> QED
  BY <1>2, <1>3 DEF RefusalOk

\* The marks on the way and at the end of a sale: nothing is in doubt.
LEMMA MarkKeepsRefusals ==
    ASSUME IInv, IInv', TurnInv, TillTypes, RefusalInv, NEW r \in Requests,
           BeginSync(r) \/ Acknowledge(r) \/ Reconcile(r),
           NEW o \in WapOrders \ contended, handler[r].order = o
    PROVE  RefusalOk(o)'
<1>1. /\ RowShapes /\ handler[r] # Idle /\ handler[r].step \in {"begin", "acknowledge", "reconcile"}
      /\ UNCHANGED <<desk, turnedAway>>
  BY DEF IInv, HandlerInv, BeginSync, Acknowledge, Mark, Reconcile, InSync
<1>2. r \in Handling(o)
  BY <1>1 DEF Handling
<1>3. /\ Handling(o) = {r}
      /\ till[o].status \in Closed => o \in turnedAway
      /\ handler[r].read.status = operation[o].status
  BY <1>2, HandlerAlone DEF TurnInv, InTurn
<1>4. PICK state \in {"syncing", "server_acknowledged", "reconciled"} :
        /\ \E type : Transition(o, handler[r].read, type, state)
        /\ \/ UNCHANGED till /\ \E to \in {"sell", "reconcile"} : \E read : GoTo(r, to, read)
           \/ Answer(r, "reconciled")
  <2>1. CASE BeginSync(r)
    BY <2>1, Zenon DEF BeginSync, Mark
  <2>2. CASE Acknowledge(r)
    BY <2>2, Zenon DEF Acknowledge, Mark
  <2>3. CASE Reconcile(r)
    BY <2>3, Zenon DEF Reconcile
  <2> QED
    BY <2>1, <2>2, <2>3
<1>5. operation'[o].status = state
  BY <1>1, <1>3, <1>4, MarkByReader
<1>6. till'[o].status \in {till[o].status, "reconciled"}
  <2>1. CASE Answer(r, "reconciled")
    BY <1>1, <2>1, AnswerTells DEF Statuses, Final
  <2> QED
    BY <1>4, <2>1
<1>7. handler'[r] = Idle \/ handler'[r].step \in {"sell", "reconcile"}
  <2>1. CASE Answer(r, "reconciled")
    BY <1>1, <2>1, HandlerEnds DEF Answer
  <2>2. CASE \E to \in {"sell", "reconcile"} : \E read : GoTo(r, to, read)
    BY <1>1, <2>2, HandlerMoves
  <2> QED
    BY <1>4, <2>1, <2>2
<1>8. ~Doubted(o)'
  <2>1. HandlerStep(r)
    BY DEF HandlerStep
  <2>2. OwnSlots(r)
    BY <2>1, HandlersOwnTheirSlots
  <2>3. Handling(o)' \subseteq {r}
    BY <1>3, <2>2 DEF OwnSlots, Handling
  <2>4. \A q \in Handling(o)' : handler'[q].step # "failed"
    BY <1>7, <2>3 DEF Handling
  <2> QED
    BY <1>5, <2>4 DEF Doubted, Refused
<1>9. till'[o].status \in Closed => o \in turnedAway'
  BY <1>1, <1>3, <1>6 DEF Closed
<1> QED
  BY <1>1, <1>2, <1>5, <1>8, <1>9, AloneKeepsRefusals DEF HandlerStep

\* The sale was refused before: it was not made.
LEMMA FailKeepsRefusals ==
    ASSUME IInv, IInv', TurnInv, TillTypes, RefusalInv, NEW r \in Requests,
           NEW state \in {"needs_review", "unknown"}, Fail(r, state),
           NEW o \in WapOrders \ contended, handler[r].order = o
    PROVE  RefusalOk(o)'
<1>1. /\ RowShapes /\ handler[r] # Idle /\ handler[r].step = "failed"
      /\ UNCHANGED <<vars, desk, turnedAway>>
      /\ Transition(o, operation[o], state, state) /\ Answer(r, state)
  BY DEF IInv, HandlerInv, Fail, InSync
<1>2. r \in Handling(o) /\ state \in Statuses
  BY <1>1 DEF Handling, Statuses, Open, Final
<1>3. Unsold(o)
  BY <1>1, <1>2 DEF RefusalInv, RefusalOk, Doubted
<1>4. Unsold(o)'
  BY <1>1, <1>3 DEF Unsold, AtTable, Placed, vars, rowVars, historyVars
<1>5. operation'[o].status = state
  BY <1>1, MarkByReader
<1>6. till'[o].status \in {till[o].status, state}
  BY <1>1, <1>2, AnswerTells
<1>7. till[o].status \in Closed => o \in turnedAway
  BY <1>2, HandlerAlone
<1> QED
  BY <1>1, <1>2, <1>4, <1>5, <1>6, <1>7, AloneKeepsRefusals DEF HandlerStep, Closed, Final

\* A session answers for the paid order that it holds.
LEMMA LinkAnswers ==
    ASSUME StandInv, NEW o \in WapOrders, NEW s, order[o].session = s
    PROVE  AfterLink(s) # "failed"
  BY WapAssumption DEF AfterLink, OrdersOf, StandInv, Unslipped

LEMMA SellKeepsRefusals ==
    ASSUME IInv, IInv', TurnInv, PaidInv, DiningInv, StandInv, TillTypes, RefusalInv,
           NEW r \in Requests, SyncLookup(r) \/ SyncSell(r) \/ SyncRefused(r),
           NEW o \in WapOrders \ contended, handler[r].order = o
    PROVE  RefusalOk(o)'
<1>1. /\ RowShapes /\ handler[r] # Idle /\ handler[r].step \in {"sell", "selling"}
      /\ UNCHANGED <<till, operation, desk>> /\ turnedAway \subseteq turnedAway'
  BY DEF IInv, HandlerInv, SyncLookup, SyncSell, SyncRefused, InSync
<1>2. r \in Handling(o) /\ HandlerStep(r)
  BY <1>1 DEF Handling, HandlerStep
<1>3. /\ Handling(o) = {r} /\ operation[o].status = "syncing"
      /\ till[o].status \in Closed => o \in turnedAway
  BY <1>1, <1>2, HandlerAlone DEF Due
<1>4. Handling(o)' \subseteq {r}
  BY <1>2, <1>3, HandlersOwnTheirSlots DEF OwnSlots, Handling
<1>5. ASSUME Doubted(o)'
      PROVE  Unsold(o)'
  <2>1. handler'[r].step = "failed"
    BY <1>1, <1>3, <1>4, <1>5 DEF Doubted, Refused
  <2>2. CASE SyncLookup(r)
    <3>1. CASE GoTo(r, "selling", handler[r].read)
      BY <1>1, <2>1, <3>1, HandlerMoves
    <3>2. ASSUME NEW s \in Sessions, session[s].sale = o, GoTo(r, AfterLink(s), handler[r].read),
                 UNCHANGED vars
          PROVE  Unsold(o)'
      <4>1. AfterLink(s) = "failed"
        BY <1>1, <2>1, <3>2, HandlerMoves
      <4>2. order[o].session # s
        BY <4>1, LinkAnswers
      <4>3. o \in broken
        BY <3>2, <4>2 DEF StandInv, LinksOwn
      <4> QED
        BY <3>2, <4>3 DEF Unsold, vars, historyVars
    <3> QED
      BY <2>2, <3>1, <3>2 DEF SyncLookup
  <2>3. CASE SyncSell(r)
    <3>1. ~(UNCHANGED handler) \/ handler'[r].step # "failed"
      BY <1>1
    <3>2. WapLink(r) /\ GoTo(r, AfterLink(request[r].session), handler[r].read)
      BY <1>1, <2>1, <2>3, <3>1 DEF SyncSell
    <3>3. AfterLink(request[r].session) = "failed"
      BY <1>1, <2>1, <3>2, HandlerMoves
    <3>4. order[o].session # request[r].session
      BY <3>3, LinkAnswers
    <3>5. Selling(r) /\ request[r].kind = "wap_link" /\ UNCHANGED broken
      BY <3>2 DEF WapLink, Selling, InStep, WapKinds, historyVars
    <3>6. request[r].order = o
      BY <2>3, <3>5 DEF SyncSell, IInv, HandlerInv, SellsItsOrder
    <3>7. o \in broken
      BY <3>4, <3>5, <3>6, AloneOnItsWay DEF AttemptOk
    <3> QED
      BY <3>5, <3>7 DEF Unsold
  <2>5. CASE turnedAway' = turnedAway \cup {o}
    BY <2>5 DEF Unsold
  <2>6. CASE InSync(r, "selling") /\ Abort(r)
    <3>1. Selling(r) /\ request[r].order = o
      BY <2>6 DEF TillTypes, IInv, HandlerInv, SellsItsOrder
    <3>2. /\ UNCHANGED <<session, order, paid>>
          /\ broken' = IF request[r].kind \in {"wap_place", "wap_pay", "wap_link"}
                       THEN broken \cup {o} ELSE broken
      BY <2>6, <3>1 DEF Abort, rowVars
    <3>3. CASE o \notin broken /\ request[r].kind = "wap_open"
      <4>1. Unplaced(o) \/ AtTable(o)
        BY <3>1, <3>3, AloneOnItsWay DEF AttemptOk
      <4> QED
        BY <3>2, <4>1 DEF Unsold, Unplaced, AtTable, Placed
    <3>4. CASE o \in broken \/ request[r].kind # "wap_open"
      BY <3>1, <3>2, <3>4 DEF Unsold, Selling, WapKinds
    <3> QED
      BY <3>3, <3>4
  <2> QED
    BY <2>2, <2>3, <2>5, <2>6 DEF SyncRefused
<1> QED
  BY <1>1, <1>2, <1>3, <1>5, AloneKeepsRefusals

LEMMA PrepareKeepsRefusals ==
    ASSUME IInv, IInv', TurnInv, DiningInv, PaidInv, TillTypes, RefusalInv,
           NEW r \in Requests, Prepare(r), NEW o \in WapOrders \ contended', handler[r].order = o
    PROVE  RefusalOk(o)'
<1> DEFINE found == operation[o]
           now == IF found.status = "none" THEN [status |-> "pending_sync", replays |-> 0]
                  ELSE [found EXCEPT !.replays = @ + 1]
<1>1. /\ RowShapes /\ handler[r] # Idle /\ handler[r].step = "arrived"
      /\ UNCHANGED <<vars, desk, turnedAway>> /\ operation \in [WapOrders -> OperationRow]
      /\ contended' = IF Attempting(o) = {} /\ Handling(o) = {} /\ desk[o] = Idle
                      THEN contended ELSE contended \cup {o}
  BY DEF IInv, HandlerInv, RowShapes, Prepare, InSync
<1>2. /\ Attempting(o) = {} /\ Handling(o) = {} /\ desk[o] = Idle /\ o \notin contended
  BY <1>1
<1>3. /\ operation' = [operation EXCEPT ![o] = now]
      /\ IF Settled(found.status) THEN Answer(r, found.status)
         ELSE GoTo(r, "begin", now) /\ UNCHANGED till
  BY Zenon DEF Prepare
<1>4. /\ found.status # "none" => now.status = found.status
      /\ found.status = "none" => now.status = "pending_sync"
  BY <1>1 DEF OperationRow
<1> HIDE DEF now
<1>5. /\ operation[o].status # "none" => operation'[o].status = operation[o].status
      /\ operation[o].status = "none" => operation'[o].status = "pending_sync"
  BY <1>1, <1>3, <1>4
<1>6. RefusalOk(o)
  BY <1>2 DEF RefusalInv
<1>7. OwnSlots(r)
  BY HandlersOwnTheirSlots DEF HandlerStep
<1>8. Attempting(o)' = {}
  BY <1>1, <1>2 DEF Attempting, vars
<1>9. CASE Settled(found.status)
  <2>1. found.status \in Statuses /\ found.status # "none"
    BY <1>9 DEF Settled, Final, Statuses
  <2>2. till'[o].status \in {till[o].status, operation[o].status} /\ handler'[r] = Idle
    BY <1>1, <1>3, <1>9, <2>1, AnswerTells, HandlerEnds
  <2>3. Handling(o)' = {}
    BY <1>2, <1>7, <2>2 DEF OwnSlots, Handling
  <2>4. [Next]_vars /\ operation'[o].status = operation[o].status
    BY <1>1, <1>5, <2>1
  <2> QED
    BY <1>1, <1>2, <1>6, <1>8, <2>2, <2>3, <2>4, RefusalRests
<1>10. CASE ~Settled(found.status)
  <2>1. handler'[r].step = "begin" /\ Handling(o)' \subseteq {r}
    BY <1>1, <1>2, <1>3, <1>7, <1>10, HandlerMoves DEF OwnSlots, Handling
  <2>2. UNCHANGED till
    BY <1>3, <1>10
  <2>3. ASSUME Doubted(o)'
        PROVE  Unsold(o)'
    <3>1. operation'[o].status \in Refused
      BY <2>1, <2>3 DEF Doubted
    <3>2. Doubted(o)
      BY <1>5, <3>1 DEF Doubted, Refused
    <3> QED
      BY <1>1, <1>6, <3>2 DEF RefusalOk, Unsold, AtTable, Placed, vars, rowVars, historyVars
  <2>4. till'[o].status \in Closed => o \in turnedAway'
    BY <1>1, <1>6, <1>10, <2>2 DEF RefusalOk, Settled, Closed
  <2>5. operation'[o].status # "none" /\ desk'[o] = Idle
    BY <1>1, <1>2, <1>5
  <2> QED
    BY <1>8, <2>3, <2>4, <2>5 DEF RefusalOk
<1> QED
  BY <1>9, <1>10

\* A handler that is refused at once, or dies.
LEMMA EndKeepsRefusals ==
    ASSUME IInv, IInv', TurnInv, DiningInv, PaidInv, TillTypes, RefusalInv, [Next]_vars,
           NEW r \in Requests, NEW o \in WapOrders \ contended, handler[r].order = o,
           HandlerDies(r) \/ \E state \in {"rejected", "quarantined"} : TurnAway(r, state)
    PROVE  RefusalOk(o)'
<1>1. /\ UNCHANGED <<operation, desk>> /\ RowShapes /\ handler[r] # Idle
      /\ handler' = [handler EXCEPT ![r] = Idle] /\ HandlerStep(r)
      /\ turnedAway \subseteq turnedAway'
      /\ UNCHANGED till \/ o \in turnedAway'
  BY DEF HandlerDies, TurnAway, Answer, InSync, IInv, HandlerInv, HandlerStep
<1>2. OwnSlots(r) /\ handler'[r] = Idle /\ \A q \in Requests \ {r} : handler'[q] = handler[q]
  BY <1>1, HandlersOwnTheirSlots, HandlerEnds
<1>3. \A q \in Handling(o)' : q \in Handling(o) /\ handler'[q] = handler[q]
  BY <1>2 DEF Handling
<1>4. RefusalOk(o)
  BY DEF RefusalInv
<1>5. ASSUME operation[o].status # "none", NEW q \in Attempting(o)'
      PROVE  q \in Attempting(o) /\ handler'[q] = handler[q]
  <2>1. CASE q # r
    BY <1>2, <1>5, <2>1 DEF OwnSlots, Attempting
  <2>2. CASE q = r
    <3>1. request'[r] # Idle /\ r \in Attempting(o)'
      BY <1>5, <2>2 DEF Attempting
    <3>2. request'[r] = request[r] /\ ~InSync(r, "selling")
      BY <1>2, <3>1 DEF OwnSlots, InSync
    <3>3. r \in Attempting(o)
      BY <3>1, <3>2 DEF Attempting
    <3> QED
      BY <1>4, <1>5, <3>2, <3>3 DEF RefusalOk
  <2> QED
    BY <2>1, <2>2
<1> QED
  BY <1>1, <1>3, <1>4, <1>5, RefusalRests

LEMMA RefusalInvIsInductive ==
    ASSUME IInv, IInv', TurnInv, DiningInv, PaidInv, StandInv, TillTypes, RefusalInv,
           [SyncNext]_<<vars, syncVars>>
    PROVE  RefusalInv'
<1>1. [Next]_vars
  BY IInvIsInductive
<1>2. CASE OnlineStep \/ UNCHANGED <<vars, syncVars>>
  BY <1>1, <1>2, OnlineKeepsRefusals
<1>3. ASSUME NEW r \in Requests, HandlerStep(r)
      PROVE  RefusalInv'
  <2>1. handler[r].order \in WapOrders
    BY <1>3, HandlersOwnTheirSlots DEF OwnSlots, IInv, HandlerInv, RowShapes, HandlerRow
  <2>2. ASSUME NEW o \in WapOrders \ contended', o = handler[r].order
        PROVE  RefusalOk(o)'
    <3>1. o \in WapOrders \ contended \/ Prepare(r)
      BY <1>3 DEF HandlerStep, BeginSync, Acknowledge, Mark, SyncLookup, SyncSell, SyncRefused,
            Reconcile, HandlerDies, TurnAway, Fail
    <3> QED
      BY <1>1, <1>3, <2>2, <3>1, PrepareKeepsRefusals, MarkKeepsRefusals, FailKeepsRefusals,
         SellKeepsRefusals, EndKeepsRefusals DEF HandlerStep
  <2>3. ASSUME NEW p \in WapOrders \ contended', p # handler[r].order
        PROVE  RefusalOk(p)'
    BY <1>1, <1>3, <2>3, HandlerLeavesOthers
  <2> QED
    BY <2>1, <2>2, <2>3 DEF RefusalInv
<1> QED
  BY <1>2, <1>3, TillKeepsRefusals, ManagerKeepsRefusals DEF SyncNext

ServiceInv == IInv /\ TurnInv /\ TableInv /\ TillTypes /\ RefusalInv

LEMMA ServiceInvHoldsAtFirst == SyncInit => ServiceInv
<1> SUFFICES ASSUME SyncInit PROVE ServiceInv
  OBVIOUS
<1>1. IInv /\ TableInv
  BY IInvHoldsAtFirst, TableInvHoldsAtFirst DEF SyncInit
<1>2. TurnInv
  BY DEF SyncInit, TurnInv, InTurn, Handling
<1>3. /\ \A r \in Requests : handler[r] = Idle /\ request[r] = Idle
      /\ \A o \in WapOrders : /\ till[o].status = "none" /\ desk[o] = Idle
                              /\ operation[o].status = "none" /\ operation[o].replays = 0
  BY DEF SyncInit, Init
<1>4. TillTypes
  BY <1>3, ReplayAssumption DEF TillTypes, InSync
<1>5. RefusalInv
  BY <1>3 DEF RefusalInv, RefusalOk, Doubted, Refused, Handling, Closed, Final
<1> QED
  BY <1>1, <1>2, <1>4, <1>5 DEF ServiceInv

LEMMA ServiceInvIsInductive ==
    ASSUME ServiceInv, [SyncNext]_<<vars, syncVars>>
    PROVE  ServiceInv'
<1>1. IInv' /\ [Next]_vars
  BY IInvIsInductive DEF ServiceInv
<1>2. TurnInv' /\ TableInv'
  BY <1>1, TurnInvIsInductive, TableInvIsInductive DEF ServiceInv
<1>3. TillTypes'
  BY <1>1, TillTypesAreKept DEF ServiceInv
<1>4. RefusalInv'
  BY <1>1, RefusalInvIsInductive DEF ServiceInv, TableInv
<1> QED
  BY <1>1, <1>2, <1>3, <1>4 DEF ServiceInv

\* The rows of tables, tills, server and manager keep their types, replays and versions stay
\* within their bounds, and a handler sells for the order it was sent with.
THEOREM SyncTypeCorrect == SyncSpec => []SyncTypeOK
<1>1. ASSUME ServiceInv
      PROVE  SyncTypeOK
  <2>1. TypeOK
    BY <1>1, TableTypes DEF ServiceInv
  <2>2. ASSUME NEW o \in WapOrders
        PROVE  /\ till[o].status \in Statuses \ {"purged"}
               /\ till[o].waits \in Requests \cup {Idle}
               /\ operation[o].status \in Statuses
               /\ operation[o].replays \in 0..MaxReplays
               /\ desk[o] = Idle \/ desk[o].status \in {"unknown", "needs_review", "quarantined"}
    <3>1. /\ till[o] \in [status : Statuses, waits : Requests \cup {Idle}]
          /\ operation[o] \in OperationRow
      BY <1>1 DEF ServiceInv, IInv, HandlerInv, RowShapes
    <3>2. operation[o].replays \in Nat /\ operation[o].replays <= MaxReplays
      BY <1>1, <3>1 DEF ServiceInv, OperationRow, TillTypes
    <3>3. operation[o].replays \in 0..MaxReplays
      BY <3>2, ReplayAssumption
    <3> QED
      BY <1>1, <3>1, <3>3 DEF ServiceInv, OperationRow, TillTypes
  <2>3. \A r \in Requests : InSync(r, "selling") =>
            request[r] # Idle /\ request[r].order = handler[r].order
    BY <1>1 DEF ServiceInv, TillTypes, IInv, HandlerInv, SellsItsOrder, Selling
  <2> QED
    BY <2>1, <2>2, <2>3 DEF SyncTypeOK
<1>2. ServiceInv /\ [SyncNext]_<<vars, syncVars>> => ServiceInv'
  BY ServiceInvIsInductive
<1> QED
  BY <1>1, <1>2, ServiceInvHoldsAtFirst, PTL DEF SyncSpec

\* Drawer and books agree: what till or server call settled is sold, and no order whose sale
\* is in the books is refused to the till or on the server, whoever gives up, dies, repeats
\* or rejects, unless its sale was cut off, disputed, never looked for or hidden by a table's.
THEOREM SettledIsAsSold == SyncSpec => []SettledAsSold
<1>1. ASSUME ServiceInv
      PROVE  SettledAsSold
  <2>1. ASSUME NEW o \in paid \ (broken \cup contended \cup turnedAway \cup SoldAtTable)
        PROVE  till[o].status \notin Closed /\ operation[o].status \notin Closed
    <3>1. o \in WapOrders /\ RefusalOk(o)
      BY <1>1 DEF ServiceInv, TableInv, CellTypes, RefusalInv
    <3>2. ~Unsold(o)
      BY <2>1 DEF Unsold, SoldAtTable, AtTable
    <3>3. operation[o].status \notin Refused
      BY <3>1, <3>2 DEF RefusalOk, Doubted
    <3> QED
      BY <2>1, <3>1, <3>3 DEF RefusalOk, Refused, Closed, Final
  <2>2. SettledIsSold
    BY <1>1 DEF ServiceInv, IInv
  <2> QED
    BY <2>1, <2>2 DEF SettledAsSold, CalledRefused, Closed
<1>2. ServiceInv /\ [SyncNext]_<<vars, syncVars>> => ServiceInv'
  BY ServiceInvIsInductive
<1> QED
  BY <1>1, <1>2, ServiceInvHoldsAtFirst, PTL DEF SyncSpec
================================================================================
