---------------------------- MODULE SupplyChainProofs ----------------------------
(***************************************************************************)
(* Proofs about the supply chain, for all finite sets of lots, orders and  *)
(* transfers and any demands and requests: a demand is produced once, a    *)
(* transfer that no request raced for keeps its quantities, lots hold what *)
(* was delivered and not used, goods are neither lost nor made, and what   *)
(* is reserved is what approved transfers wait for.                        *)
(*                                                                         *)
(* Demands and transfers have an invariant of their own, which no step of  *)
(* the other part or of the stock desk touches; StockInv puts both on the  *)
(* one balance they share.                                                 *)
(***************************************************************************)
EXTENDS SupplyChain, Sums

(***************************************************************************)
(* Demands.  The demand of an order that holds it is converted; the type is *)
(* what the updates of the rows need.                                       *)
(***************************************************************************)

OrderRows == [status : {"none", "planned", "in_progress", "completed", "reversed", "cancelled"},
              demand : Demands \cup {NoDemand}, output : Nat]

DemandInv ==
    /\ demand \in [Demands -> {"none", "submitted", "converted"}]
    /\ production \in [Orders -> OrderRows]
    /\ \A o \in Orders : production[o].status = "none" => production[o].demand = NoDemand
    /\ DemandFilledOnce

\* The kitchen starts with the invariant.
LEMMA DemandInit == Init => DemandInv
<1> SUFFICES ASSUME Init PROVE DemandInv
  OBVIOUS
<1> USE DEF Init, Kitchen!KitchenInit, Kitchen!NoOrder
<1>1. /\ demand \in [Demands -> {"none", "submitted", "converted"}]
      /\ production \in [Orders -> OrderRows]
      /\ \A o \in Orders : production[o].status = "none" => production[o].demand = NoDemand
  BY DEF OrderRows
<1>2. DemandFilledOnce
  BY DemandAssumption DEF DemandFilledOnce, Kitchen!DemandFilledOnce, Kitchen!Holds
<1> QED BY <1>1, <1>2 DEF DemandInv

\* A kitchen step that neither takes an order from a demand nor gives it one, and does not
\* cancel it, keeps the invariant.
LEMMA DemandUntouched ==
  ASSUME DemandInv, demand' = demand, production' \in [Orders -> OrderRows],
         \A o \in Orders : /\ production'[o].demand = production[o].demand
                           /\ production'[o].status = "cancelled" <=> production[o].status = "cancelled"
                           /\ production'[o].status = "none" => production[o].status = "none"
  PROVE  DemandInv'
<1>1. \A o \in Orders, d \in Demands : Kitchen!Holds(o, d)' <=> Kitchen!Holds(o, d)
  BY DEF Kitchen!Holds
<1>2. DemandFilledOnce'
  BY <1>1 DEF DemandInv, DemandFilledOnce, Kitchen!DemandFilledOnce
<1> QED BY <1>2 DEF DemandInv

\* Every step of the kitchen keeps the invariant: a new order finds its demand free, and a
\* cancelled one was the only order that held its demand.
LEMMA DemandStep == DemandInv /\ Kitchen!Next => DemandInv'
<1> SUFFICES ASSUME DemandInv, Kitchen!Next PROVE DemandInv'
  OBVIOUS
<1> USE DemandAssumption
<1>1. CASE \E k \in Receipts, l \in Lots, q \in Kitchen!Quantity, e \in Dates \cup {Unnamed} :
              Kitchen!Receive(k, l, q, e)
  <2>1. demand' = demand /\ production' = production
    BY <1>1 DEF Kitchen!Receive
  <2> QED BY <2>1, DemandUntouched DEF DemandInv
<1>2. ASSUME NEW d \in Demands, Kitchen!CreateDemand(d) PROVE DemandInv'
  <2>1. production' = production /\ demand' = [demand EXCEPT ![d] = "submitted"] /\ demand[d] = "none"
    BY <1>2 DEF Kitchen!CreateDemand
  <2>2. \A o \in Orders, x \in Demands : Kitchen!Holds(o, x)' <=> Kitchen!Holds(o, x)
    BY <2>1 DEF Kitchen!Holds
  <2> QED BY <2>1, <2>2 DEF DemandInv, DemandFilledOnce, Kitchen!DemandFilledOnce
<1>3. ASSUME NEW o \in Orders, NEW d \in Demands \cup {NoDemand}, Kitchen!CreateOrder(o, d)
      PROVE DemandInv'
  <2>1. /\ production[o].status = "none" /\ production[o].demand = NoDemand
        /\ d # NoDemand => demand[d] = "submitted"
        /\ production' = [production EXCEPT ![o].status = "planned", ![o].demand = d]
        /\ demand' = [x \in Demands |-> IF x = d THEN "converted" ELSE demand[x]]
    BY <1>3 DEF Kitchen!CreateOrder, DemandInv
  <2>2. /\ production' \in [Orders -> OrderRows]
        /\ demand' \in [Demands -> {"none", "submitted", "converted"}]
        /\ \A p \in Orders : production'[p].status = "none" => production'[p].demand = NoDemand
    BY <2>1 DEF DemandInv, OrderRows
  <2>3. \A p \in Orders, x \in Demands :
            Kitchen!Holds(p, x)' <=> IF p = o THEN x = d ELSE Kitchen!Holds(p, x)
    BY <2>1 DEF Kitchen!Holds, DemandInv, OrderRows
  <2>4. /\ \A x \in Demands : ~Kitchen!Holds(o, x)
        /\ \A p \in Orders : d \in Demands => ~Kitchen!Holds(p, d)
    BY <2>1 DEF Kitchen!Holds, DemandInv, DemandFilledOnce, Kitchen!DemandFilledOnce
  <2>5. DemandFilledOnce'
    BY <2>1, <2>3, <2>4 DEF DemandInv, DemandFilledOnce, Kitchen!DemandFilledOnce
  <2> QED BY <2>2, <2>5 DEF DemandInv
<1>4. ASSUME NEW o \in Orders, Kitchen!StartOrder(o) PROVE DemandInv'
  <2>1. /\ production[o].status = "planned" /\ demand' = demand
        /\ production' = [production EXCEPT ![o].status = "in_progress"]
    BY <1>4 DEF Kitchen!StartOrder
  <2> QED BY <2>1, DemandUntouched DEF DemandInv, OrderRows
<1>5. ASSUME NEW o \in Orders, Kitchen!CancelOrder(o) PROVE DemandInv'
  <2>1. /\ production[o].status \in {"planned", "in_progress"}
        /\ production' = [production EXCEPT ![o].status = "cancelled"]
        /\ demand' = [x \in Demands |-> IF x = production[o].demand /\ demand[x] = "converted"
                                        THEN "submitted" ELSE demand[x]]
    BY <1>5 DEF Kitchen!CancelOrder
  <2>2. /\ production' \in [Orders -> OrderRows]
        /\ demand' \in [Demands -> {"none", "submitted", "converted"}]
        /\ \A p \in Orders : production'[p].status = "none" => production'[p].demand = NoDemand
    BY <2>1 DEF DemandInv, OrderRows
  <2>3. \A p \in Orders, x \in Demands : Kitchen!Holds(p, x)' <=> p # o /\ Kitchen!Holds(p, x)
    BY <2>1 DEF Kitchen!Holds, DemandInv, OrderRows
  <2>4. \A x \in Demands : x = production[o].demand <=> Kitchen!Holds(o, x)
    BY <2>1 DEF Kitchen!Holds
  <2>5. DemandFilledOnce'
    BY <2>1, <2>3, <2>4 DEF DemandInv, DemandFilledOnce, Kitchen!DemandFilledOnce
  <2> QED BY <2>2, <2>5 DEF DemandInv
<1>6. ASSUME NEW o \in Orders, NEW actual \in [Ingredients -> 0..MaxQty],
             NEW made \in Kitchen!Quantity, Kitchen!CompleteOrder(o, actual, made)
      PROVE DemandInv'
  <2>1. /\ production[o].status = "in_progress" /\ demand' = demand
        /\ production' = [production EXCEPT ![o].status = "completed", ![o].output = made]
    BY <1>6 DEF Kitchen!CompleteOrder
  <2>2. made \in Nat
    BY BoundAssumption DEF Kitchen!Quantity
  <2> QED BY <2>1, <2>2, DemandUntouched DEF DemandInv, OrderRows
<1>7. ASSUME NEW o \in Orders, Kitchen!ReverseOrder(o) PROVE DemandInv'
  <2>1. /\ production[o].status = "completed" /\ demand' = demand
        /\ production' = [production EXCEPT ![o].status = "reversed"]
    BY <1>7 DEF Kitchen!ReverseOrder
  <2> QED BY <2>1, DemandUntouched DEF DemandInv, OrderRows
<1> QED BY <1>1, <1>2, <1>3, <1>4, <1>5, <1>6, <1>7 DEF Kitchen!Next

\* A branch's demand is produced once, however orders are planned, cancelled, completed and
\* reversed, and whatever transfers and the stock desk do meanwhile.
THEOREM DemandIsFilledOnce == Spec => []DemandFilledOnce
<1>1. DemandInv /\ [Next]_vars => DemandInv'
  <2> SUFFICES ASSUME DemandInv, [Next]_vars PROVE DemandInv'
    OBVIOUS
  <2>1. CASE Kitchen!Next
    BY <2>1, DemandStep
  <2>2. CASE UNCHANGED kitchenVars
    <3>1. demand' = demand /\ production' = production
      BY <2>2 DEF kitchenVars
    <3> QED BY <3>1, DemandUntouched DEF DemandInv
  <2> QED BY <2>1, <2>2 DEF Next, vars, Adjust, MoveByHand
<1>2. DemandInv => DemandFilledOnce
  BY DEF DemandInv
<1> QED BY DemandInit, <1>1, <1>2, PTL DEF Spec

--------------------------------------------------------------------------------
(***************************************************************************)
(* Transfers.  What a request has read of its transfer may be outdated, but *)
(* not the requested quantity; and a transfer nobody raced has in each      *)
(* status the quantities of that status.                                    *)
(***************************************************************************)

Rows == [status : Shipping!Status, requested : Nat, approved : Nat,
         sent : Nat, received : Nat, short : Nat]
Copies == [status : Shipping!Status, requested : Nat, approved : Nat]
Jobs == [kind : {"submit", "approve", "cancel"}, transfer : Transfers, copy : Copies]

TransferType ==
    /\ transfer \in [Transfers -> Rows]
    /\ request \in [Requests -> {Idle} \cup Jobs]

\* A request under way has read a transfer that exists, in a status it may work on.
Reading(r) ==
    LET t == request[r].transfer
        copy == request[r].copy IN
    request[r] # Idle =>
        /\ request[r] \in Jobs
        /\ transfer[t].status # "none" /\ copy.requested = transfer[t].requested
        /\ copy.status \in Shipping!ReadableStatus[request[r].kind]

Settled(row) ==
    /\ row.approved <= row.requested
    /\ row.status = "none" => row.approved = 0
    /\ row.status \in {"none", "draft", "pending_approval", "approved", "cancelled"} =>
            row.sent = 0 /\ row.received = 0 /\ row.short = 0
    /\ row.status \in {"in_transit", "partially_received"} =>
            row.sent = row.approved /\ row.received <= row.sent /\ row.short = 0
    /\ row.status = "completed" =>
            row.sent = row.approved /\ row.received + row.short = row.sent

TransferInv ==
    /\ TransferType
    /\ \A r \in Requests : Reading(r)
    /\ \A t \in Transfers \ raced : Settled(transfer[t])

LEMMA TransferInitial == Init => TransferInv
<1> SUFFICES ASSUME Init PROVE TransferInv
  OBVIOUS
<1> USE DEF Init, Shipping!TransferInit, Shipping!NoTransfer
<1>1. TransferType
  BY DEF TransferType, Rows, Shipping!Status
<1>2. \A r \in Requests : Reading(r)
  BY DEF Reading
<1>3. \A t \in Transfers : Settled(transfer[t])
  BY DEF Settled
<1> QED BY <1>1, <1>2, <1>3 DEF TransferInv

\* A step that writes one row, keeps what it requested and that it exists, and takes up no
\* request, keeps the invariant if the row is settled or noted as raced.
LEMMA RowWritten ==
  ASSUME TransferInv, NEW t \in Transfers, NEW row \in Rows,
         transfer' = [transfer EXCEPT ![t] = row],
         row.requested = transfer[t].requested \/ transfer[t].status = "none",
         row.status # "none",
         \A r \in Requests : request'[r] \in {request[r], Idle},
         request' \in [Requests -> {Idle} \cup Jobs],
         raced \subseteq raced',
         t \notin raced' => Settled(row)
  PROVE  TransferInv'
<1>1. TransferType'
  BY DEF TransferInv, TransferType
<1>2. ASSUME NEW r \in Requests PROVE Reading(r)'
  <2>1. CASE request'[r] = Idle
    BY <2>1 DEF Reading
  <2>2. CASE request'[r] = request[r] /\ request[r] # Idle
    <3>1. /\ Reading(r) /\ request[r].transfer \in Transfers
      BY <2>2 DEF TransferInv, Reading, Jobs
    <3>2. /\ transfer'[request[r].transfer].status # "none"
          /\ transfer'[request[r].transfer].requested = transfer[request[r].transfer].requested
      BY <2>2, <3>1 DEF Reading, TransferInv, TransferType
    <3> QED BY <2>2, <3>1, <3>2 DEF Reading
  <2> QED BY <2>1, <2>2
<1>3. ASSUME NEW x \in Transfers \ raced' PROVE Settled(transfer'[x])
  BY <1>3 DEF TransferInv, TransferType
<1> QED BY <1>1, <1>2, <1>3 DEF TransferInv

\* A request that writes finds its transfer, and in the status it has read unless it races.
LEMMA RequestWrites ==
  ASSUME TransferInv, NEW r \in Requests, request[r] # Idle,
         Shipping!NoteRace(request[r].transfer, request[r].copy)
  PROVE  LET t == request[r].transfer
             copy == request[r].copy IN
         /\ t \in Transfers /\ copy \in Copies /\ transfer[t] \in Rows
         /\ transfer[t].status # "none" /\ copy.requested = transfer[t].requested
         /\ raced \subseteq raced'
         /\ t \notin raced' => /\ Settled(transfer[t])
                               /\ transfer[t].status \in Shipping!ReadableStatus[request[r].kind]
<1> DEFINE t == request[r].transfer
           copy == request[r].copy
<1>1. Reading(r) /\ request[r] \in Jobs
  BY DEF TransferInv, Reading
<1>2. /\ t \in Transfers /\ copy \in Copies
      /\ transfer[t].status # "none" /\ copy.requested = transfer[t].requested
      /\ copy.status \in Shipping!ReadableStatus[request[r].kind]
  BY <1>1 DEF Reading, Jobs
<1>3. raced \subseteq raced' /\ (t \notin raced' => t \notin raced /\ transfer[t].status = copy.status)
  BY <1>2 DEF Shipping!NoteRace
<1>4. transfer[t] \in Rows
  BY <1>2 DEF TransferInv, TransferType
<1>5. t \notin raced' => Settled(transfer[t])
  BY <1>2, <1>3 DEF TransferInv
<1> QED BY <1>2, <1>3, <1>4, <1>5

\* A request that is finished is idle.
LEMMA Finished ==
  ASSUME TransferInv, NEW r \in Requests, Shipping!Finish(r)
  PROVE  /\ \A x \in Requests : request'[x] \in {request[x], Idle}
         /\ request' \in [Requests -> {Idle} \cup Jobs]
BY DEF Shipping!Finish, TransferInv, TransferType

LEMMA RequestStep ==
  ASSUME TransferInv, NEW r \in Requests,
         \/ Shipping!Submit(r)
         \/ \E q \in 1..MaxQty : Shipping!Approve(r, q)
         \/ Shipping!Cancel(r)
         \/ Shipping!Abort(r)
  PROVE  TransferInv'
<1> DEFINE t == request[r].transfer
           copy == request[r].copy
<1>1. CASE Shipping!Submit(r)
  <2> DEFINE row == [transfer[t] EXCEPT !.status = "pending_approval"]
  <2>1. /\ request[r] # Idle /\ request[r].kind = "submit"
        /\ transfer' = [transfer EXCEPT ![t] = row]
        /\ Shipping!NoteRace(t, copy) /\ Shipping!Finish(r)
    BY <1>1 DEF Shipping!Submit, Shipping!Working
  <2>2. /\ t \in Transfers /\ transfer[t] \in Rows /\ raced \subseteq raced'
        /\ t \notin raced' => Settled(transfer[t]) /\ transfer[t].status = "draft"
    BY <2>1, RequestWrites DEF Shipping!ReadableStatus
  <2>3. row \in Rows /\ row.requested = transfer[t].requested /\ row.status # "none"
    BY <2>2 DEF Rows, Shipping!Status
  <2>4. t \notin raced' => Settled(row)
    BY <2>2 DEF Settled, Rows
  <2> HIDE DEF row
  <2> QED BY <2>1, <2>2, <2>3, <2>4, Finished, RowWritten
<1>2. ASSUME NEW q \in 1..MaxQty, Shipping!Approve(r, q) PROVE TransferInv'
  <2> DEFINE row == [transfer[t] EXCEPT !.status = "approved", !.approved = q]
  <2>1. /\ request[r] # Idle /\ request[r].kind = "approve" /\ q <= copy.requested
        /\ transfer' = [transfer EXCEPT ![t] = row]
        /\ Shipping!NoteRace(t, copy) /\ Shipping!Finish(r)
    BY <1>2 DEF Shipping!Approve, Shipping!Working
  <2>2. /\ t \in Transfers /\ transfer[t] \in Rows /\ raced \subseteq raced'
        /\ copy.requested = transfer[t].requested
        /\ t \notin raced' => Settled(transfer[t]) /\ transfer[t].status = "pending_approval"
    BY <2>1, RequestWrites DEF Shipping!ReadableStatus
  <2> q \in Nat
    BY BoundAssumption
  <2>3. row \in Rows /\ row.requested = transfer[t].requested /\ row.status # "none"
    BY <2>2 DEF Rows, Shipping!Status
  <2>4. t \notin raced' => Settled(row)
    BY <2>1, <2>2 DEF Settled, Rows
  <2> HIDE DEF row
  <2> QED BY <2>1, <2>2, <2>3, <2>4, Finished, RowWritten
<1>3. CASE Shipping!Cancel(r)
  <2> DEFINE row == [transfer[t] EXCEPT !.status = "cancelled"]
  <2>1. /\ request[r] # Idle /\ request[r].kind = "cancel"
        /\ transfer' = [transfer EXCEPT ![t] = row]
        /\ Shipping!NoteRace(t, copy) /\ Shipping!Finish(r)
    BY <1>3 DEF Shipping!Cancel, Shipping!Working
  <2>2. /\ t \in Transfers /\ transfer[t] \in Rows /\ raced \subseteq raced'
        /\ t \notin raced' => /\ Settled(transfer[t])
                              /\ transfer[t].status \in {"draft", "pending_approval", "approved"}
    BY <2>1, RequestWrites DEF Shipping!ReadableStatus
  <2>3. row \in Rows /\ row.requested = transfer[t].requested /\ row.status # "none"
    BY <2>2 DEF Rows, Shipping!Status
  <2>4. t \notin raced' => Settled(row)
    BY <2>2 DEF Settled, Rows
  <2> HIDE DEF row
  <2> QED BY <2>1, <2>2, <2>3, <2>4, Finished, RowWritten
<1>4. CASE Shipping!Abort(r)
  <2>1. /\ \A x \in Requests : request'[x] \in {request[x], Idle}
        /\ request' \in [Requests -> {Idle} \cup Jobs]
        /\ transfer' = transfer /\ raced' = raced
    BY <1>4, Finished DEF Shipping!Abort
  <2>2. \A x \in Requests : Reading(x)'
    BY <2>1 DEF TransferInv, Reading
  <2> QED BY <2>1, <2>2 DEF TransferInv, TransferType
<1> QED BY <1>1, <1>2, <1>3, <1>4

LEMMA TransferStep == TransferInv /\ Shipping!Next => TransferInv'
<1> SUFFICES ASSUME TransferInv, Shipping!Next PROVE TransferInv'
  OBVIOUS
<1>1. ASSUME request' = request, raced' = raced, NEW t \in Transfers, NEW row \in Rows,
             transfer' = [transfer EXCEPT ![t] = row],
             row.requested = transfer[t].requested \/ transfer[t].status = "none",
             row.status # "none",
             t \notin raced => Settled(row)
      PROVE  TransferInv'
  <2>1. request' \in [Requests -> {Idle} \cup Jobs]
    BY <1>1 DEF TransferInv, TransferType
  <2> QED BY <1>1, <2>1, RowWritten
<1>2. ASSUME NEW t \in Transfers, NEW q \in 1..MaxQty, Shipping!CreateTransfer(t, q)
      PROVE  TransferInv'
  <2> DEFINE row == [transfer[t] EXCEPT !.status = "draft", !.requested = q]
  <2>1. /\ transfer[t].status = "none" /\ request' = request /\ raced' = raced
        /\ transfer' = [transfer EXCEPT ![t] = row]
    BY <1>2 DEF Shipping!CreateTransfer
  <2>2. transfer[t] \in Rows /\ (t \notin raced => Settled(transfer[t]))
    BY DEF TransferInv, TransferType
  <2> q \in Nat
    BY BoundAssumption
  <2>3. row \in Rows /\ row.status # "none"
    BY <2>2 DEF Rows, Shipping!Status
  <2>4. t \notin raced => Settled(row)
    BY <2>1, <2>2 DEF Settled, Rows
  <2> HIDE DEF row
  <2> QED BY <1>1, <2>1, <2>3, <2>4
<1>3. ASSUME NEW t \in Transfers, NEW r \in Requests, NEW kind \in DOMAIN Shipping!ReadableStatus,
             Shipping!Look(r, t, kind)
      PROVE  TransferInv'
  <2> DEFINE job == [kind |-> kind, transfer |-> t, copy |->
                        [status |-> transfer[t].status, requested |-> transfer[t].requested,
                         approved |-> transfer[t].approved]]
  <2>1. /\ transfer[t].status \in Shipping!ReadableStatus[kind]
        /\ request' = [request EXCEPT ![r] = job]
        /\ transfer' = transfer /\ raced' = raced
    BY <1>3 DEF Shipping!Look
  <2>2. transfer[t] \in Rows /\ kind \in {"submit", "approve", "cancel"}
    BY DEF TransferInv, TransferType, Shipping!ReadableStatus
  <2>3. job \in Jobs /\ transfer[t].status # "none"
    BY <2>1, <2>2 DEF Jobs, Copies, Rows, Shipping!ReadableStatus
  <2>4. /\ request' \in [Requests -> {Idle} \cup Jobs]
        /\ \A x \in Requests : request'[x] = IF x = r THEN job ELSE request[x]
    BY <2>1, <2>3 DEF TransferInv, TransferType
  <2>5. ASSUME NEW x \in Requests PROVE Reading(x)'
    <3>1. CASE x = r
      BY <2>1, <2>3, <2>4, <3>1 DEF Reading
    <3>2. CASE x # r
      BY <2>1, <2>4, <3>2 DEF Reading, TransferInv
    <3> QED BY <3>1, <3>2
  <2> QED BY <2>1, <2>4, <2>5 DEF TransferInv, TransferType
<1>4. ASSUME NEW t \in Transfers, Shipping!Ship(t) PROVE TransferInv'
  <2> DEFINE row == [transfer[t] EXCEPT !.status = "in_transit", !.sent = transfer[t].approved,
                                        !.received = 0, !.short = 0]
  <2>1. /\ transfer[t].status = "approved" /\ request' = request /\ raced' = raced
        /\ transfer' = [transfer EXCEPT ![t] = row]
    BY <1>4 DEF Shipping!Ship
  <2>2. transfer[t] \in Rows /\ (t \notin raced => Settled(transfer[t]))
    BY DEF TransferInv, TransferType
  <2>3. row \in Rows /\ row.status # "none" /\ row.requested = transfer[t].requested
    BY <2>2 DEF Rows, Shipping!Status
  <2>4. t \notin raced => Settled(row)
    BY <2>1, <2>2 DEF Settled, Rows
  <2> HIDE DEF row
  <2> QED BY <1>1, <2>1, <2>3, <2>4
<1>5. ASSUME NEW t \in Transfers, NEW target \in 0..MaxQty, NEW finalize \in BOOLEAN,
             Shipping!ReceiveGoods(t, target, finalize)
      PROVE  TransferInv'
  <2> DEFINE closed == target = transfer[t].sent \/ finalize
             row == [transfer[t] EXCEPT
                        !.received = target,
                        !.short = IF finalize THEN transfer[t].sent - target ELSE 0,
                        !.status = IF closed THEN "completed" ELSE "partially_received"]
  <2>1. /\ transfer[t].status \in {"in_transit", "partially_received"}
        /\ target \in transfer[t].received .. transfer[t].sent
        /\ request' = request /\ raced' = raced
        /\ transfer' = [transfer EXCEPT ![t] = row]
    BY <1>5 DEF Shipping!ReceiveGoods
  <2>2. transfer[t] \in Rows /\ (t \notin raced => Settled(transfer[t]))
    BY DEF TransferInv, TransferType
  <2>3. target \in Nat /\ target <= transfer[t].sent /\ transfer[t].sent \in Nat
    BY <2>1, <2>2 DEF Rows
  <2>4. row \in Rows /\ row.status # "none" /\ row.requested = transfer[t].requested
    <3>1. (IF finalize THEN transfer[t].sent - target ELSE 0) \in Nat
      BY <2>3
    <3>2. (IF closed THEN "completed" ELSE "partially_received") \in Shipping!Status \ {"none"}
      BY DEF Shipping!Status
    <3> HIDE DEF closed
    <3> QED BY <2>2, <2>3, <3>1, <3>2 DEF Rows
  <2>5. t \notin raced => Settled(row)
    BY <2>1, <2>2, <2>3 DEF Settled, Rows
  <2> HIDE DEF row
  <2> QED BY <1>1, <2>1, <2>4, <2>5
<1> QED BY <1>2, <1>3, <1>4, <1>5, RequestStep DEF Shipping!Next

\* A transfer that no outdated request has written ships what was approved, at most what was
\* requested, and what it ships is received, on the way or written off.
THEOREM QuantitiesAreKept == Spec => []QuantitiesFollowStatus
<1>1. TransferInv /\ [Next]_vars => TransferInv'
  <2> SUFFICES ASSUME TransferInv, [Next]_vars PROVE TransferInv'
    OBVIOUS
  <2>1. CASE Shipping!Next
    BY <2>1, TransferStep
  <2>2. CASE UNCHANGED <<transfer, request, raced>>
    BY <2>2 DEF TransferInv, TransferType, Reading
  <2> QED BY <2>1, <2>2 DEF Next, vars, transferVars, Adjust, MoveByHand
<1>2. TransferInv => QuantitiesFollowStatus
  <2> SUFFICES ASSUME TransferInv, NEW t \in Transfers \ raced
               PROVE  LET row == transfer[t] IN
                      /\ row.approved <= row.requested
                      /\ row.sent \in {0, row.approved} /\ row.received + row.short <= row.sent
                      /\ row.status \in {"draft", "pending_approval", "approved", "cancelled"}
                             => row.sent = 0
                      /\ row.status = "completed" => row.received + row.short = row.sent
    BY DEF QuantitiesFollowStatus, Shipping!QuantitiesFollowStatus
  <2> QED BY DEF TransferInv, TransferType, Settled, Rows, Shipping!Status
<1> QED BY TransferInitial, <1>1, <1>2, PTL DEF Spec

--------------------------------------------------------------------------------
(***************************************************************************)
(* Quantities in the kitchen.  Sums are taken over all orders, with zero    *)
(* for those that do not count, so that a step changes one addend.          *)
(***************************************************************************)

LotRows == [qty : Nat, expires : Dates \cup {Never}]

KitchenTypes ==
    /\ received \subseteq Receipts /\ delivered \in [Lots -> Nat]
    /\ lot \in [Lots -> LotRows]
    /\ issued \in [Orders -> [Lots -> Nat]]
    /\ onHand \in Nat

Stands(o) == production[o].status = "completed"
Produced == [o \in Orders |-> IF Stands(o) THEN production[o].output ELSE 0]
Consumed(l) == [o \in Orders |-> IF Stands(o) THEN issued[o][l] ELSE 0]

LotsInv == \A l \in Lots : delivered[l] = lot[l].qty + SumFunctionOnSet(Consumed(l), Orders)

\* The sums of SharedKitchen are those of Functions.
LEMMA KitchenSum ==
  ASSUME NEW f, NEW S PROVE Kitchen!SumFunctionOnSet(f, S) = SumFunctionOnSet(f, S)
BY DEF Kitchen!SumFunctionOnSet, Kitchen!FoldFunctionOnSet, Kitchen!MapThenFoldSet,
       SumFunctionOnSet, FoldFunctionOnSet, MapThenFoldSet

LEMMA Least == ASSUME NEW a \in Int, NEW b \in Int
               PROVE  Kitchen!Min({a, b}) \in {a, b} /\ Kitchen!Min({a, b}) <= a
<1>1. \E x \in {a, b} : \A y \in {a, b} : x <= y
  <2>1. CASE a <= b BY <2>1
  <2>2. CASE b <= a BY <2>2
  <2> QED BY <2>1, <2>2
<1> QED BY <1>1 DEF Kitchen!Min

LEMMA Greatest == ASSUME NEW a \in Int, NEW b \in Int
                  PROVE  Kitchen!Max({a, b}) \in {a, b} /\ Kitchen!Max({a, b}) >= a
<1>1. \E x \in {a, b} : \A y \in {a, b} : x >= y
  <2>1. CASE a >= b BY <2>1
  <2>2. CASE b >= a BY <2>2
  <2> QED BY <2>1, <2>2
<1> QED BY <1>1 DEF Kitchen!Max

\* No lot gives more than it holds (plan_fifo_allocations).
LEMMA AllocationFits ==
  ASSUME KitchenTypes, NEW actual \in [Ingredients -> 0..MaxQty], NEW l \in Lots
  PROVE  /\ Kitchen!Allocation(actual)[l] \in Nat
         /\ Kitchen!Allocation(actual)[l] <= lot[l].qty
<1> DEFINE f == [m \in Lots |-> lot[m].qty]
           A == Kitchen!Ahead(l)
           rest == actual[IngredientOf[l]] - Kitchen!Stock(A)
<1>1. A \subseteq Lots
  BY DEF Kitchen!Ahead
<1>2. \A m \in A : f[m] \in Int
  BY <1>1 DEF KitchenTypes, LotRows
<1>3. IsFiniteSet(A)
  BY <1>1, FiniteAssumption, FiniteSubset
<1>4. Kitchen!Stock(A) = SumFunctionOnSet(f, A)
  BY KitchenSum DEF Kitchen!Stock
<1>5. Kitchen!Stock(A) \in Int
  <2> HIDE DEF f, A
  <2> QED BY <1>2, <1>3, <1>4, SumType
<1>6. rest \in Int /\ lot[l].qty \in Nat
  BY <1>5, LotAssumption, BoundAssumption DEF KitchenTypes, LotRows
<1>7. Kitchen!Allocation(actual)[l] = Kitchen!Max({0, Kitchen!Min({lot[l].qty, rest})})
  BY DEF Kitchen!Allocation
<1> HIDE DEF rest
<1> DEFINE least == Kitchen!Min({lot[l].qty, rest})
<1>8. least \in Int /\ least <= lot[l].qty
  BY <1>6, Least
<1>9. Kitchen!Max({0, least}) \in {0, least} /\ Kitchen!Max({0, least}) >= 0
  <2> HIDE DEF least
  <2> QED BY <1>8, Greatest
<1> QED BY <1>6, <1>7, <1>8, <1>9

LEMMA AddendTypes ==
  ASSUME DemandInv, KitchenTypes
  PROVE  /\ \A o \in Orders : Produced[o] \in Nat
         /\ \A o \in Orders, l \in Lots : Consumed(l)[o] \in Nat
BY DEF DemandInv, KitchenTypes, Produced, Consumed, OrderRows

LEMMA SameTotals ==
  ASSUME issued' = issued,
         \A o \in Orders : /\ Stands(o)' <=> Stands(o)
                           /\ Stands(o) => production'[o].output = production[o].output
  PROVE  Produced' = Produced /\ \A l \in Lots : Consumed(l)' = Consumed(l)
BY DEF Produced, Consumed

\* A step about one order changes the sums by what it does to that order.
LEMMA OneOrder ==
  ASSUME DemandInv, KitchenTypes, DemandInv', KitchenTypes', NEW o \in Orders,
         \A p \in Orders \ {o} : production'[p] = production[p] /\ issued'[p] = issued[p]
  PROVE  /\ SumFunctionOnSet(Produced', Orders)
              = SumFunctionOnSet(Produced, Orders) + Produced'[o] - Produced[o]
         /\ \A l \in Lots : SumFunctionOnSet(Consumed(l)', Orders)
              = SumFunctionOnSet(Consumed(l), Orders) + Consumed(l)'[o] - Consumed(l)[o]
<1>1. /\ \A p \in Orders : Produced[p] \in Int /\ Produced'[p] \in Int
      /\ \A p \in Orders \ {o} : Produced[p] = Produced'[p]
  <2>1. \A p \in Orders : Produced'[p] \in Nat
    BY DEF DemandInv, Produced, OrderRows
  <2>2. \A p \in Orders \ {o} : Produced[p] = Produced'[p]
    BY DEF Produced, Stands
  <2> QED BY <2>1, <2>2, AddendTypes
<1>2. SumFunctionOnSet(Produced', Orders)
              = SumFunctionOnSet(Produced, Orders) + Produced'[o] - Produced[o]
  BY <1>1, FiniteAssumption, SumChange
<1>3. ASSUME NEW l \in Lots
      PROVE  SumFunctionOnSet(Consumed(l)', Orders)
              = SumFunctionOnSet(Consumed(l), Orders) + Consumed(l)'[o] - Consumed(l)[o]
  <2>1. \A p \in Orders : Consumed(l)'[p] \in Nat
    BY DEF KitchenTypes, Consumed
  <2>2. \A p \in Orders \ {o} : Consumed(l)[p] = Consumed(l)'[p]
    BY DEF Consumed, Stands
  <2>3. \A p \in Orders : Consumed(l)[p] \in Int /\ Consumed(l)'[p] \in Int
    BY <2>1, AddendTypes
  <2> QED BY <2>2, <2>3, FiniteAssumption, SumChange
<1> QED BY <1>2, <1>3

\* A lot and what was taken from it change together, and so do the balance and what was made.
LotsKept ==
    /\ KitchenTypes' /\ LotsInv'
    /\ onHand' + SumFunctionOnSet(Produced, Orders) = onHand + SumFunctionOnSet(Produced', Orders)

LEMMA TotalsAreInt ==
  ASSUME DemandInv, KitchenTypes
  PROVE  /\ SumFunctionOnSet(Produced, Orders) \in Nat
         /\ \A l \in Lots : SumFunctionOnSet(Consumed(l), Orders) \in Nat
<1>1. SumFunctionOnSet(Produced, Orders) \in Nat
  BY AddendTypes, FiniteAssumption, SumNat
<1>2. ASSUME NEW l \in Lots PROVE SumFunctionOnSet(Consumed(l), Orders) \in Nat
  <2>1. \A o \in Orders : Consumed(l)[o] \in Nat
    BY AddendTypes
  <2> QED BY <2>1, FiniteAssumption, SumNat
<1> QED BY <1>1, <1>2

\* Steps that produce nothing and take nothing back.
LEMMA NothingProduced ==
  ASSUME DemandInv, KitchenTypes, LotsInv, KitchenTypes',
         Produced' = Produced, \A l \in Lots : Consumed(l)' = Consumed(l), onHand' = onHand,
         \A l \in Lots : delivered'[l] - lot'[l].qty = delivered[l] - lot[l].qty
  PROVE  LotsKept
<1>1. ASSUME NEW l \in Lots
      PROVE  delivered'[l] = lot'[l].qty + SumFunctionOnSet(Consumed(l)', Orders)
  <2>1. delivered[l] = lot[l].qty + SumFunctionOnSet(Consumed(l), Orders)
    BY DEF LotsInv
  <2>2. /\ delivered[l] \in Int /\ lot[l].qty \in Int /\ delivered'[l] \in Int /\ lot'[l].qty \in Int
        /\ SumFunctionOnSet(Consumed(l), Orders) \in Int
    BY TotalsAreInt DEF KitchenTypes, LotRows
  <2> QED BY <2>1, <2>2
<1>2. LotsInv'
  BY <1>1 DEF LotsInv
<1> QED BY <1>2 DEF LotsKept

LEMMA DeliveryKeepsLots ==
  ASSUME DemandInv, KitchenTypes, LotsInv, NEW k \in Receipts, NEW l \in Lots,
         NEW q \in Kitchen!Quantity, NEW e \in Dates \cup {Unnamed}, Kitchen!Receive(k, l, q, e)
  PROVE  LotsKept
<1>1. q \in Nat
  BY BoundAssumption DEF Kitchen!Quantity
<1>2. /\ received' = received \cup {k}
      /\ delivered' = [delivered EXCEPT ![l] = @ + q]
      /\ lot' = [lot EXCEPT ![l] = [qty |-> lot[l].qty + q,
                                    expires |-> IF e = Unnamed THEN lot[l].expires ELSE e]]
      /\ production' = production /\ issued' = issued /\ onHand' = onHand
  BY DEF Kitchen!Receive
<1>3. /\ delivered[l] \in Nat /\ lot[l] \in LotRows
      /\ [qty |-> lot[l].qty + q, expires |-> IF e = Unnamed THEN lot[l].expires ELSE e] \in LotRows
  BY <1>1, DateAssumption DEF KitchenTypes, LotRows
<1>4. KitchenTypes'
  BY <1>1, <1>2, <1>3 DEF KitchenTypes
<1>5. \A x \in Lots : delivered'[x] - lot'[x].qty = delivered[x] - lot[x].qty
  BY <1>1, <1>2, <1>3 DEF KitchenTypes, LotRows
<1>6. Produced' = Produced /\ \A x \in Lots : Consumed(x)' = Consumed(x)
  BY <1>2, SameTotals DEF Stands
<1> QED BY <1>2, <1>4, <1>5, <1>6, NothingProduced

\* Steps of demands and orders that leave lots and balance alone.
LEMMA PlanningKeepsLots ==
  ASSUME DemandInv, DemandInv', KitchenTypes, LotsInv,
         UNCHANGED <<received, delivered, lot, issued, onHand>>,
         \A o \in Orders : /\ Stands(o)' <=> Stands(o)
                           /\ Stands(o) => production'[o].output = production[o].output
  PROVE  LotsKept
<1>1. KitchenTypes'
  BY DEF KitchenTypes
<1>2. Produced' = Produced /\ \A x \in Lots : Consumed(x)' = Consumed(x)
  BY SameTotals
<1> QED BY <1>1, <1>2, NothingProduced

LEMMA CompletionKeepsLots ==
  ASSUME DemandInv, DemandInv', KitchenTypes, LotsInv, NEW o \in Orders,
         NEW actual \in [Ingredients -> 0..MaxQty], NEW made \in Kitchen!Quantity,
         Kitchen!CompleteOrder(o, actual, made)
  PROVE  LotsKept
<1> DEFINE taken == Kitchen!Allocation(actual)
<1>1. /\ ~Stands(o) /\ received' = received /\ delivered' = delivered
      /\ issued' = [issued EXCEPT ![o] = taken]
      /\ lot' = [l \in Lots |-> [lot[l] EXCEPT !.qty = lot[l].qty - taken[l]]]
      /\ production' = [production EXCEPT ![o].status = "completed", ![o].output = made]
      /\ onHand' = onHand + made
  BY DEF Kitchen!CompleteOrder, Stands
<1>2. taken = [l \in Lots |-> taken[l]] /\ \A l \in Lots : taken[l] \in Nat /\ taken[l] <= lot[l].qty
  <2>1. taken = [l \in Lots |-> taken[l]]
    BY DEF Kitchen!Allocation
  <2> QED BY <2>1, AllocationFits
<1> HIDE DEF taken
<1>3. made \in Nat
  BY BoundAssumption DEF Kitchen!Quantity
<1>4. KitchenTypes'
  <2>1. lot' \in [Lots -> LotRows]
    <3>1. ASSUME NEW l \in Lots PROVE [lot[l] EXCEPT !.qty = lot[l].qty - taken[l]] \in LotRows
      <4>1. lot[l] \in LotRows /\ lot[l].qty - taken[l] \in Nat
        BY <1>2 DEF KitchenTypes, LotRows
      <4> QED BY <4>1 DEF LotRows
    <3> QED BY <1>1, <3>1
  <2>2. issued' \in [Orders -> [Lots -> Nat]]
    BY <1>1, <1>2 DEF KitchenTypes
  <2>3. onHand' \in Nat
    BY <1>1, <1>3 DEF KitchenTypes
  <2> QED BY <1>1, <2>1, <2>2, <2>3 DEF KitchenTypes
<1>5. \A p \in Orders \ {o} : production'[p] = production[p] /\ issued'[p] = issued[p]
  BY <1>1 DEF DemandInv, KitchenTypes
<1>6. /\ Produced[o] = 0 /\ Produced'[o] = made
      /\ \A l \in Lots : Consumed(l)[o] = 0 /\ Consumed(l)'[o] = taken[l]
  BY <1>1 DEF Produced, Consumed, Stands, DemandInv, OrderRows, KitchenTypes
<1>7. /\ SumFunctionOnSet(Produced', Orders) = SumFunctionOnSet(Produced, Orders) + made
      /\ \A l \in Lots : SumFunctionOnSet(Consumed(l)', Orders)
                            = SumFunctionOnSet(Consumed(l), Orders) + taken[l]
  <2>1. SumFunctionOnSet(Produced, Orders) \in Int
        /\ \A l \in Lots : SumFunctionOnSet(Consumed(l), Orders) \in Int
    BY TotalsAreInt
  <2> QED BY <1>2, <1>3, <1>4, <1>5, <1>6, <2>1, OneOrder
<1>8. LotsInv'
  <2> SUFFICES ASSUME NEW l \in Lots
               PROVE  delivered'[l] = lot'[l].qty + SumFunctionOnSet(Consumed(l)', Orders)
    BY DEF LotsInv
  <2>1. delivered[l] = lot[l].qty + SumFunctionOnSet(Consumed(l), Orders)
    BY DEF LotsInv
  <2>2. SumFunctionOnSet(Consumed(l)', Orders) = SumFunctionOnSet(Consumed(l), Orders) + taken[l]
    BY <1>7
  <2>3. lot'[l].qty = lot[l].qty - taken[l] /\ lot[l].qty \in Int /\ taken[l] \in Int
    BY <1>1, <1>2 DEF KitchenTypes, LotRows
  <2>4. SumFunctionOnSet(Consumed(l), Orders) \in Int
    BY TotalsAreInt
  <2> QED BY <1>1, <2>1, <2>2, <2>3, <2>4
<1>9. onHand \in Int /\ SumFunctionOnSet(Produced, Orders) \in Int
  BY TotalsAreInt DEF KitchenTypes
<1> QED BY <1>1, <1>3, <1>4, <1>7, <1>8, <1>9 DEF LotsKept

LEMMA ReversalKeepsLots ==
  ASSUME DemandInv, DemandInv', KitchenTypes, LotsInv, reserved \in Nat,
         NEW o \in Orders, Kitchen!ReverseOrder(o)
  PROVE  LotsKept
<1>1. /\ Stands(o) /\ received' = received /\ delivered' = delivered /\ issued' = issued
      /\ onHand - reserved >= production[o].output
      /\ lot' = [l \in Lots |-> [lot[l] EXCEPT !.qty = lot[l].qty + issued[o][l]]]
      /\ production' = [production EXCEPT ![o].status = "reversed"]
      /\ onHand' = onHand - production[o].output
  BY DEF Kitchen!ReverseOrder, Stands
<1>2. production[o].output \in Nat /\ \A l \in Lots : issued[o][l] \in Nat
  BY DEF DemandInv, OrderRows, KitchenTypes
<1>3. KitchenTypes'
  <2>1. lot' \in [Lots -> LotRows]
    <3>1. ASSUME NEW l \in Lots PROVE [lot[l] EXCEPT !.qty = lot[l].qty + issued[o][l]] \in LotRows
      <4>1. lot[l] \in LotRows /\ lot[l].qty + issued[o][l] \in Nat
        BY <1>2 DEF KitchenTypes, LotRows
      <4> QED BY <4>1 DEF LotRows
    <3> QED BY <1>1, <3>1
  <2>2. onHand' \in Nat
    BY <1>1, <1>2 DEF KitchenTypes
  <2> QED BY <1>1, <2>1, <2>2 DEF KitchenTypes
<1>4. \A p \in Orders \ {o} : production'[p] = production[p] /\ issued'[p] = issued[p]
  BY <1>1 DEF DemandInv
<1>5. /\ Produced'[o] = 0 /\ Produced[o] = production[o].output
      /\ \A l \in Lots : Consumed(l)'[o] = 0 /\ Consumed(l)[o] = issued[o][l]
  BY <1>1 DEF Produced, Consumed, Stands, DemandInv, OrderRows
<1>6. /\ SumFunctionOnSet(Produced, Orders) \in Int
      /\ \A l \in Lots : SumFunctionOnSet(Consumed(l), Orders) \in Int
  BY TotalsAreInt
<1>7. /\ SumFunctionOnSet(Produced', Orders)
            = SumFunctionOnSet(Produced, Orders) - production[o].output
      /\ \A l \in Lots : SumFunctionOnSet(Consumed(l)', Orders)
                            = SumFunctionOnSet(Consumed(l), Orders) - issued[o][l]
  BY <1>2, <1>3, <1>4, <1>5, <1>6, OneOrder
<1>8. LotsInv'
  <2> SUFFICES ASSUME NEW l \in Lots
               PROVE  delivered'[l] = lot'[l].qty + SumFunctionOnSet(Consumed(l)', Orders)
    BY DEF LotsInv
  <2>1. delivered[l] = lot[l].qty + SumFunctionOnSet(Consumed(l), Orders)
    BY DEF LotsInv
  <2>2. lot'[l].qty = lot[l].qty + issued[o][l] /\ lot[l].qty \in Int
    BY <1>1, <1>2 DEF KitchenTypes, LotRows
  <2> QED BY <1>1, <1>2, <1>6, <1>7, <2>1, <2>2
<1>9. onHand \in Int
  BY DEF KitchenTypes
<1> QED BY <1>1, <1>2, <1>3, <1>6, <1>7, <1>8, <1>9 DEF LotsKept

\* Every step of the kitchen keeps lots and balance in step with deliveries and orders.
LEMMA KitchenKeepsLots ==
  ASSUME DemandInv, KitchenTypes, LotsInv, reserved \in Nat, Kitchen!Next
  PROVE  LotsKept
<1>1. DemandInv'
  BY DemandStep
<1>2. CASE \E k \in Receipts, l \in Lots, q \in Kitchen!Quantity, e \in Dates \cup {Unnamed} :
              Kitchen!Receive(k, l, q, e)
  BY <1>2, DeliveryKeepsLots
<1>3. ASSUME NEW d \in Demands, Kitchen!CreateDemand(d) PROVE LotsKept
  BY <1>1, <1>3, PlanningKeepsLots DEF Kitchen!CreateDemand, Stands
<1>4. ASSUME NEW o \in Orders, NEW d \in Demands \cup {NoDemand}, Kitchen!CreateOrder(o, d)
      PROVE LotsKept
  <2>1. /\ production[o].status = "none" /\ UNCHANGED <<received, delivered, lot, issued, onHand>>
        /\ production' = [production EXCEPT ![o].status = "planned", ![o].demand = d]
    BY <1>4 DEF Kitchen!CreateOrder
  <2>2. \A p \in Orders : /\ Stands(p)' <=> Stands(p)
                          /\ Stands(p) => production'[p].output = production[p].output
    BY <2>1 DEF Stands, DemandInv, OrderRows
  <2> QED BY <1>1, <2>1, <2>2, PlanningKeepsLots
<1>5. ASSUME NEW o \in Orders, Kitchen!StartOrder(o) \/ Kitchen!CancelOrder(o) PROVE LotsKept
  <2>1. PICK s \in {"in_progress", "cancelled"} :
        /\ ~Stands(o) /\ UNCHANGED <<received, delivered, lot, issued, onHand>>
        /\ production' = [production EXCEPT ![o].status = s]
    BY <1>5 DEF Kitchen!StartOrder, Kitchen!CancelOrder, Stands
  <2>2. \A p \in Orders : /\ Stands(p)' <=> Stands(p)
                          /\ Stands(p) => production'[p].output = production[p].output
    BY <2>1 DEF Stands, DemandInv, OrderRows
  <2> QED BY <1>1, <2>1, <2>2, PlanningKeepsLots
<1>6. ASSUME NEW o \in Orders, NEW actual \in [Ingredients -> 0..MaxQty],
             NEW made \in Kitchen!Quantity, Kitchen!CompleteOrder(o, actual, made)
      PROVE LotsKept
  BY <1>1, <1>6, CompletionKeepsLots
<1>7. ASSUME NEW o \in Orders, Kitchen!ReverseOrder(o) PROVE LotsKept
  BY <1>1, <1>7, ReversalKeepsLots
<1> QED BY <1>2, <1>3, <1>4, <1>5, <1>6, <1>7 DEF Kitchen!Next

--------------------------------------------------------------------------------
(***************************************************************************)
(* Goods and reservations.  A stale request may take goods on the way off   *)
(* the books, but no step adds to them; and while nobody raced, every step  *)
(* of a transfer moves as much as it notes.  A reservation is released from *)
(* a copy, which is right because an approved transfer that nobody raced    *)
(* keeps its quantity.                                                      *)
(***************************************************************************)

ShippingTypes == store \in Nat /\ reserved \in Nat /\ raced \subseteq Transfers

OnTheWay(row) == row.status \in {"in_transit", "partially_received"}
MissingOf(row) == IF OnTheWay(row) THEN row.sent - row.received ELSE row.short
HeldOf(row) == IF row.status = "approved" THEN row.approved ELSE 0
Transit(row) == OnTheWay(row) => row.received <= row.sent /\ row.short = 0
Held == [t \in Transfers |-> HeldOf(transfer[t])]

Goods == onHand + store + SumFunctionOnSet(Missing, Transfers)
Source == SumFunctionOnSet(Produced, Orders) + adjusted

GoodsInv ==
    /\ \A t \in Transfers : Transit(transfer[t])
    /\ Goods <= Source
    /\ raced = {} => Goods = Source

ReservedInv ==
    /\ raced = {} => reserved = SumFunctionOnSet(Held, Transfers)
    /\ byHand = 0 => reserved <= onHand

\* What a request has read of an approved transfer holds as long as nobody races.
ApprovedCopy(r) ==
    LET t == request[r].transfer IN
    request[r] # Idle /\ t \notin raced /\ request[r].copy.status = "approved" =>
        /\ transfer[t].status \notin {"draft", "pending_approval"}
        /\ request[r].copy.approved = transfer[t].approved
CopiesInv == \A r \in Requests : ApprovedCopy(r)

LEMMA GreatestOfTwo == ASSUME NEW a \in Int, NEW b \in Int
                       PROVE  /\ Shipping!Max({a, b}) \in {a, b}
                              /\ Shipping!Max({a, b}) >= a /\ Shipping!Max({a, b}) >= b
<1>1. \E x \in {a, b} : \A y \in {a, b} : x >= y
  <2>1. CASE a >= b BY <2>1
  <2>2. CASE b >= a BY <2>2
  <2> QED BY <2>1, <2>2
<1> QED BY <1>1 DEF Shipping!Max

LEMMA RowAmounts ==
  ASSUME NEW row \in Rows, Transit(row)
  PROVE  MissingOf(row) \in Nat /\ HeldOf(row) \in Nat
BY DEF Rows, Transit, MissingOf, HeldOf, OnTheWay

\* The totals are natural numbers, and a step about one transfer changes them by its row.
LEMMA ShippingTotals ==
  ASSUME TransferType, \A x \in Transfers : Transit(transfer[x])
  PROVE  /\ SumFunctionOnSet(Missing, Transfers) \in Nat
         /\ SumFunctionOnSet(Held, Transfers) \in Nat
<1>1. \A x \in Transfers : Missing[x] = MissingOf(transfer[x]) /\ Held[x] = HeldOf(transfer[x])
  BY DEF Missing, Held, MissingOf, OnTheWay
<1>2. \A x \in Transfers : Missing[x] \in Nat /\ Held[x] \in Nat
  BY <1>1, RowAmounts DEF TransferType
<1> QED BY <1>2, FiniteAssumption, SumNat

LEMMA RowTotals ==
  ASSUME TransferType, \A x \in Transfers : Transit(transfer[x]),
         NEW t \in Transfers, NEW row \in Rows, Transit(row),
         transfer' = [transfer EXCEPT ![t] = row]
  PROVE  /\ \A x \in Transfers : Transit(transfer'[x])
         /\ SumFunctionOnSet(Missing', Transfers)
              = SumFunctionOnSet(Missing, Transfers) + MissingOf(row) - MissingOf(transfer[t])
         /\ SumFunctionOnSet(Held', Transfers)
              = SumFunctionOnSet(Held, Transfers) + HeldOf(row) - HeldOf(transfer[t])
         /\ SumFunctionOnSet(Held', Transfers) \in Nat
<1>1. \A x \in Transfers : transfer'[x] = IF x = t THEN row ELSE transfer[x]
  BY DEF TransferType
<1>2. \A x \in Transfers : Transit(transfer'[x]) /\ transfer'[x] \in Rows
  BY <1>1 DEF TransferType
<1>3. \A x \in Transfers : /\ Missing[x] = MissingOf(transfer[x]) /\ Held[x] = HeldOf(transfer[x])
                           /\ Missing'[x] = MissingOf(transfer'[x])
                           /\ Held'[x] = HeldOf(transfer'[x])
  BY DEF Missing, Held, MissingOf, OnTheWay
<1>4. \A x \in Transfers : /\ Missing[x] \in Nat /\ Held[x] \in Nat
                           /\ Missing'[x] \in Nat /\ Held'[x] \in Nat
  BY <1>2, <1>3, RowAmounts DEF TransferType
<1>5. /\ \A x \in Transfers : Missing[x] \in Int /\ Missing'[x] \in Int
      /\ \A x \in Transfers \ {t} : Missing[x] = Missing'[x]
  BY <1>1, <1>3, <1>4
<1>6. /\ \A x \in Transfers : Held[x] \in Int /\ Held'[x] \in Int
      /\ \A x \in Transfers \ {t} : Held[x] = Held'[x]
  BY <1>1, <1>3, <1>4
<1>7. SumFunctionOnSet(Missing', Transfers) = SumFunctionOnSet(Missing, Transfers) + Missing'[t] - Missing[t]
  BY <1>5, FiniteAssumption, SumChange
<1>8. SumFunctionOnSet(Held', Transfers) = SumFunctionOnSet(Held, Transfers) + Held'[t] - Held[t]
  BY <1>6, FiniteAssumption, SumChange
<1>9. SumFunctionOnSet(Held', Transfers) \in Nat
  BY <1>4, FiniteAssumption, SumNat
<1> QED BY <1>1, <1>2, <1>3, <1>7, <1>8, <1>9

\* A step of one transfer that never adds goods, and that keeps goods and reservations in
\* step while nobody raced, keeps both invariants.
LEMMA RowMoves ==
  ASSUME TransferType, DemandInv, KitchenTypes, ShippingTypes, adjusted \in Int,
         GoodsInv, ReservedInv,
         NEW t \in Transfers, NEW row \in Rows, Transit(row),
         transfer' = [transfer EXCEPT ![t] = row],
         onHand' \in Nat, store' \in Nat, reserved' \in Nat, raced \subseteq raced',
         UNCHANGED <<production, adjusted, byHand>>,
         onHand' + store' + MissingOf(row) <= onHand + store + MissingOf(transfer[t]),
         raced' = {} => onHand' + store' + MissingOf(row) = onHand + store + MissingOf(transfer[t]),
         raced' = {} => reserved' - HeldOf(row) = reserved - HeldOf(transfer[t]),
         reserved <= onHand => reserved' <= onHand'
  PROVE  GoodsInv' /\ ReservedInv'
<1> DEFINE sum == SumFunctionOnSet(Missing, Transfers)
           held == SumFunctionOnSet(Held, Transfers)
<1>1. /\ \A x \in Transfers : Transit(transfer'[x])
      /\ sum' = sum + MissingOf(row) - MissingOf(transfer[t])
      /\ held' = held + HeldOf(row) - HeldOf(transfer[t])
  BY RowTotals DEF GoodsInv
<1>2. /\ sum \in Int /\ held \in Int /\ onHand \in Int /\ store \in Int /\ reserved \in Int
      /\ MissingOf(row) \in Int /\ MissingOf(transfer[t]) \in Int
      /\ HeldOf(row) \in Int /\ HeldOf(transfer[t]) \in Int
  <2>1. transfer[t] \in Rows /\ Transit(transfer[t])
    BY DEF TransferType, GoodsInv
  <2>2. sum \in Nat /\ held \in Nat
    BY ShippingTotals DEF GoodsInv
  <2> QED BY <2>1, <2>2, RowAmounts DEF KitchenTypes, ShippingTypes
<1>3. Source' = Source /\ Source \in Int
  <2>1. Produced' = Produced
    BY DEF Produced, Stands
  <2> QED BY <2>1, TotalsAreInt DEF Source
<1>4. Goods = onHand + store + sum /\ Goods' = onHand' + store' + sum'
  BY DEF Goods
<1> HIDE DEF sum, held
<1>5. Goods' <= Goods /\ Goods \in Int /\ Goods' \in Int /\ (raced' = {} => Goods' = Goods)
  BY <1>1, <1>2, <1>4
<1>6. GoodsInv'
  BY <1>1, <1>3, <1>5 DEF GoodsInv
<1>7. ASSUME raced' = {} PROVE reserved' = held'
  <2>1. reserved = held
    BY <1>7 DEF ReservedInv, held
  <2>2. reserved' - HeldOf(row) = reserved - HeldOf(transfer[t])
    BY <1>7
  <2>3. reserved' = reserved + HeldOf(row) - HeldOf(transfer[t])
    <3>1. PICK a \in Int, b \in Int, d \in Int : a = reserved' /\ b = HeldOf(row) /\ d = HeldOf(transfer[t])
      BY <1>2
    <3>2. a - b = reserved - d /\ reserved \in Int
      BY <1>2, <2>2, <3>1
    <3>3. a = reserved + b - d
      BY <3>2
    <3> QED BY <3>1, <3>3
  <2> QED BY <1>1, <2>1, <2>3
<1> QED BY <1>6, <1>7 DEF ReservedInv, held

\* A step that keeps what an approved transfer promised keeps the copies of it good.
LEMMA CopiesKept ==
  ASSUME TransferInv, CopiesInv, NEW t \in Transfers, NEW row \in Rows,
         transfer' = [transfer EXCEPT ![t] = row], raced \subseteq raced',
         \A r \in Requests : request'[r] \in {request[r], Idle},
         t \notin raced' =>
            \/ transfer[t].status \in {"none", "draft", "pending_approval"}
            \/ /\ row.approved = transfer[t].approved
               /\ row.status \notin {"draft", "pending_approval"}
  PROVE  CopiesInv'
<1> SUFFICES ASSUME NEW r \in Requests, request'[r] # Idle PROVE ApprovedCopy(r)'
  BY DEF CopiesInv, ApprovedCopy
<1>1. request'[r] = request[r] /\ request[r] # Idle
  OBVIOUS
<1>2. /\ ApprovedCopy(r) /\ request[r].transfer \in Transfers
      /\ transfer[request[r].transfer].status # "none"
  BY <1>1 DEF CopiesInv, TransferInv, Reading, Jobs
<1>3. transfer'[request[r].transfer]
        = IF request[r].transfer = t THEN row ELSE transfer[request[r].transfer]
  BY <1>2 DEF TransferInv, TransferType
<1> QED BY <1>1, <1>2, <1>3 DEF ApprovedCopy

StockInv ==
    /\ DemandInv /\ TransferInv /\ KitchenTypes /\ ShippingTypes
    /\ adjusted \in Int /\ byHand \in 0..MaxByHand
    /\ LotsInv /\ GoodsInv /\ ReservedInv /\ CopiesInv

GoodsKept ==
    /\ onHand' \in Nat /\ ShippingTypes'
    /\ GoodsInv' /\ ReservedInv' /\ CopiesInv'

\* What a request that writes knows of its transfer.
LEMMA WriterKnows ==
  ASSUME StockInv, NEW r \in Requests, request[r] # Idle,
         Shipping!NoteRace(request[r].transfer, request[r].copy)
  PROVE  LET t == request[r].transfer
             copy == request[r].copy IN
         /\ t \in Transfers /\ transfer[t] \in Rows /\ copy \in Copies /\ Transit(transfer[t])
         /\ raced' = IF transfer[t].status = copy.status THEN raced ELSE raced \cup {t}
         /\ raced \subseteq raced' /\ raced' \subseteq Transfers
         /\ t \notin raced' => /\ transfer[t].status = copy.status
                               /\ transfer[t].status \in Shipping!ReadableStatus[request[r].kind]
                               /\ copy.status = "approved" => copy.approved = transfer[t].approved
<1> DEFINE t == request[r].transfer
           copy == request[r].copy
<1>1. /\ t \in Transfers /\ transfer[t] \in Rows /\ copy \in Copies /\ raced \subseteq raced'
      /\ t \notin raced' => transfer[t].status \in Shipping!ReadableStatus[request[r].kind]
  BY RequestWrites DEF StockInv
<1>2. raced' = IF transfer[t].status = copy.status THEN raced ELSE raced \cup {t}
  BY DEF Shipping!NoteRace
<1>3. Transit(transfer[t])
  BY <1>1 DEF StockInv, GoodsInv
<1>4. raced' \subseteq Transfers
  BY <1>1, <1>2 DEF StockInv, ShippingTypes
<1>5. t \notin raced' => transfer[t].status = copy.status /\ t \notin raced
  BY <1>1, <1>2
<1>6. t \notin raced' /\ copy.status = "approved" => copy.approved = transfer[t].approved
  BY <1>5 DEF StockInv, CopiesInv, ApprovedCopy
<1> QED BY <1>1, <1>2, <1>3, <1>4, <1>5, <1>6

\* A request that takes a transfer back or on: what is on the way is forgotten at most.
LEMMA RequestMovesGoods ==
  ASSUME StockInv, NEW r \in Requests,
         \/ Shipping!Submit(r)
         \/ \E q \in 1..MaxQty : Shipping!Approve(r, q)
         \/ Shipping!Cancel(r)
         \/ Shipping!Abort(r),
         UNCHANGED <<production, adjusted, byHand>>
  PROVE  GoodsKept
<1> DEFINE t == request[r].transfer
           copy == request[r].copy
<1>0. TransferInv /\ TransferType
  BY DEF StockInv, TransferInv
<1>1. CASE Shipping!Submit(r)
  <2> DEFINE row == [transfer[t] EXCEPT !.status = "pending_approval"]
  <2>1. /\ request[r] # Idle /\ request[r].kind = "submit"
        /\ transfer' = [transfer EXCEPT ![t] = row]
        /\ Shipping!NoteRace(t, copy) /\ Shipping!Finish(r)
        /\ onHand' = onHand /\ reserved' = reserved /\ store' = store
    BY <1>1 DEF Shipping!Submit, Shipping!Working
  <2>2. /\ t \in Transfers /\ transfer[t] \in Rows /\ Transit(transfer[t])
        /\ raced \subseteq raced' /\ raced' \subseteq Transfers
        /\ t \notin raced' => transfer[t].status = "draft"
    BY <2>1, WriterKnows DEF Shipping!ReadableStatus
  <2>3. /\ row \in Rows /\ Transit(row)
        /\ MissingOf(row) = transfer[t].short /\ HeldOf(row) = 0
        /\ MissingOf(row) <= MissingOf(transfer[t])
        /\ t \notin raced' => MissingOf(row) = MissingOf(transfer[t]) /\ HeldOf(transfer[t]) = 0
    BY <2>2 DEF Rows, Shipping!Status, Transit, OnTheWay, MissingOf, HeldOf
  <2> HIDE DEF row
  <2>4. \A x \in Requests : request'[x] \in {request[x], Idle}
    BY <1>0, <2>1, Finished
  <2>5. CopiesInv'
    BY <1>0, <2>1, <2>2, <2>3, <2>4, CopiesKept DEF StockInv
  <2>6. /\ MissingOf(row) \in Int /\ MissingOf(transfer[t]) \in Int
        /\ onHand \in Int /\ store \in Int /\ reserved \in Int
    BY <2>2, <2>3, RowAmounts DEF StockInv, KitchenTypes, ShippingTypes
  <2>7. /\ onHand' + store' + MissingOf(row) <= onHand + store + MissingOf(transfer[t])
        /\ raced' = {} => onHand' + store' + MissingOf(row) = onHand + store + MissingOf(transfer[t])
        /\ raced' = {} => reserved' - HeldOf(row) = reserved - HeldOf(transfer[t])
    BY <2>1, <2>3, <2>6
  <2>8. GoodsInv' /\ ReservedInv'
    BY <1>0, <2>1, <2>2, <2>3, <2>7, RowMoves DEF StockInv, KitchenTypes, ShippingTypes
  <2> QED BY <2>1, <2>2, <2>5, <2>8 DEF GoodsKept, StockInv, KitchenTypes, ShippingTypes
<1>2. ASSUME NEW q \in 1..MaxQty, Shipping!Approve(r, q) PROVE GoodsKept
  <2> DEFINE row == [transfer[t] EXCEPT !.status = "approved", !.approved = q]
  <2>1. /\ request[r] # Idle /\ request[r].kind = "approve" /\ onHand - reserved >= q
        /\ transfer' = [transfer EXCEPT ![t] = row]
        /\ Shipping!NoteRace(t, copy) /\ Shipping!Finish(r)
        /\ onHand' = onHand /\ reserved' = reserved + q /\ store' = store
    BY <1>2 DEF Shipping!Approve, Shipping!Working, Shipping!Available
  <2>2. /\ t \in Transfers /\ transfer[t] \in Rows /\ Transit(transfer[t])
        /\ raced \subseteq raced' /\ raced' \subseteq Transfers
        /\ t \notin raced' => transfer[t].status = "pending_approval"
    BY <2>1, WriterKnows DEF Shipping!ReadableStatus
  <2>q. q \in Nat
    BY BoundAssumption
  <2>3. /\ row \in Rows /\ Transit(row)
        /\ MissingOf(row) = transfer[t].short /\ HeldOf(row) = q
        /\ MissingOf(row) <= MissingOf(transfer[t])
        /\ t \notin raced' => MissingOf(row) = MissingOf(transfer[t]) /\ HeldOf(transfer[t]) = 0
    <3>1. /\ row \in Rows /\ row.status = "approved" /\ row.approved = q
          /\ row.short = transfer[t].short
      BY <2>2, <2>q DEF Rows, Shipping!Status
    <3> HIDE DEF row
    <3>2. Transit(row) /\ MissingOf(row) = transfer[t].short /\ HeldOf(row) = q
      BY <3>1 DEF Transit, OnTheWay, MissingOf, HeldOf
    <3>3. /\ transfer[t].short <= MissingOf(transfer[t])
          /\ transfer[t].status = "pending_approval" =>
                transfer[t].short = MissingOf(transfer[t]) /\ HeldOf(transfer[t]) = 0
      BY <2>2 DEF Rows, Transit, OnTheWay, MissingOf, HeldOf
    <3> QED BY <2>2, <3>1, <3>2, <3>3
  <2> HIDE DEF row
  <2>4. \A x \in Requests : request'[x] \in {request[x], Idle}
    BY <1>0, <2>1, Finished
  <2>5. CopiesInv'
    BY <1>0, <2>1, <2>2, <2>3, <2>4, CopiesKept DEF StockInv
  <2>6. /\ MissingOf(row) \in Int /\ MissingOf(transfer[t]) \in Int
        /\ onHand \in Int /\ store \in Int /\ reserved \in Int
    BY <2>2, <2>3, RowAmounts DEF StockInv, KitchenTypes, ShippingTypes
  <2>7. /\ onHand' + store' + MissingOf(row) <= onHand + store + MissingOf(transfer[t])
        /\ raced' = {} => onHand' + store' + MissingOf(row) = onHand + store + MissingOf(transfer[t])
        /\ raced' = {} => reserved' - HeldOf(row) = reserved - HeldOf(transfer[t])
        /\ reserved' <= onHand'
    BY <2>1, <2>3, <2>6, <2>q
  <2>8. onHand' \in Nat /\ store' \in Nat /\ reserved' \in Nat
    BY <2>1, <2>q DEF StockInv, KitchenTypes, ShippingTypes
  <2>9. GoodsInv' /\ ReservedInv'
    BY <1>0, <2>1, <2>2, <2>3, <2>7, <2>8, RowMoves DEF StockInv
  <2> QED BY <2>2, <2>5, <2>8, <2>9 DEF GoodsKept, ShippingTypes
<1>3. CASE Shipping!Cancel(r)
  <2> DEFINE row == [transfer[t] EXCEPT !.status = "cancelled"]
             freed == IF copy.status = "approved" THEN copy.approved ELSE 0
  <2>1. /\ request[r] # Idle /\ request[r].kind = "cancel"
        /\ transfer' = [transfer EXCEPT ![t] = row]
        /\ Shipping!NoteRace(t, copy) /\ Shipping!Finish(r)
        /\ onHand' = onHand /\ store' = store
        /\ reserved' = IF copy.status = "approved" THEN Shipping!Max({0, reserved - copy.approved})
                       ELSE reserved
    BY <1>3 DEF Shipping!Cancel, Shipping!Working
  <2>2. /\ t \in Transfers /\ transfer[t] \in Rows /\ Transit(transfer[t]) /\ copy \in Copies
        /\ raced \subseteq raced' /\ raced' \subseteq Transfers
        /\ t \notin raced' => /\ transfer[t].status = copy.status
                              /\ transfer[t].status \in {"draft", "pending_approval", "approved"}
                              /\ copy.status = "approved" => copy.approved = transfer[t].approved
    BY <2>1, WriterKnows DEF Shipping!ReadableStatus
  <2>3. /\ row \in Rows /\ Transit(row)
        /\ row.status = "cancelled" /\ row.approved = transfer[t].approved
        /\ MissingOf(row) = transfer[t].short /\ HeldOf(row) = 0
        /\ MissingOf(row) <= MissingOf(transfer[t])
        /\ t \notin raced' => MissingOf(row) = MissingOf(transfer[t])
    BY <2>2 DEF Rows, Shipping!Status, Transit, OnTheWay, MissingOf, HeldOf
  <2> HIDE DEF row
  <2>4. \A x \in Requests : request'[x] \in {request[x], Idle}
    BY <1>0, <2>1, Finished
  <2>5. CopiesInv'
    BY <1>0, <2>1, <2>2, <2>3, <2>4, CopiesKept DEF StockInv
  <2>6. /\ MissingOf(row) \in Int /\ MissingOf(transfer[t]) \in Int
        /\ onHand \in Int /\ store \in Int /\ reserved \in Nat /\ freed \in Nat
    BY <2>2, <2>3, RowAmounts DEF StockInv, KitchenTypes, ShippingTypes, Copies
  <2>7. t \notin raced' => freed = HeldOf(transfer[t])
    BY <2>2 DEF HeldOf
  <2>8. /\ reserved' \in Nat /\ reserved' <= reserved
        /\ reserved - freed >= 0 => reserved' = reserved - freed
    <3>1. CASE copy.status = "approved"
      <4>1. reserved - copy.approved \in Int /\ reserved' = Shipping!Max({0, reserved - copy.approved})
        BY <2>1, <2>6, <3>1
      <4>2. PICK rest \in Int : rest = reserved - copy.approved
        BY <4>1
      <4>3. reserved' = Shipping!Max({0, rest})
        BY <4>1, <4>2
      <4>4. reserved' \in {0, rest} /\ reserved' >= 0 /\ reserved' >= rest
        <5>1. /\ Shipping!Max({0, rest}) \in {0, rest}
              /\ Shipping!Max({0, rest}) >= 0 /\ Shipping!Max({0, rest}) >= rest
          BY GreatestOfTwo
        <5> QED BY <4>3, <5>1
      <4> QED BY <2>6, <3>1, <4>2, <4>4
    <3>2. CASE copy.status # "approved"
      BY <2>1, <2>6, <3>2
    <3> QED BY <3>1, <3>2
  <2> HIDE DEF freed
  <2>9. raced' = {} => reserved' - HeldOf(row) = reserved - HeldOf(transfer[t])
    <3> SUFFICES ASSUME raced' = {} PROVE reserved' - HeldOf(row) = reserved - HeldOf(transfer[t])
      OBVIOUS
    <3>1. PICK held \in Nat, gone \in Nat : /\ reserved = held
                                            /\ freed = HeldOf(transfer[t])
                                            /\ gone = held + 0 - HeldOf(transfer[t])
      <4>1. reserved = SumFunctionOnSet(Held, Transfers)
        BY <2>2 DEF StockInv, ReservedInv
      <4>2. \A x \in Transfers : Transit(transfer[x])
        BY DEF StockInv, GoodsInv
      <4>3. SumFunctionOnSet(Held', Transfers)
              = SumFunctionOnSet(Held, Transfers) + HeldOf(row) - HeldOf(transfer[t])
            /\ SumFunctionOnSet(Held', Transfers) \in Nat
        BY <1>0, <2>1, <2>2, <2>3, <4>2, RowTotals
      <4> QED BY <2>3, <2>6, <2>7, <4>1, <4>3
    <3>2. reserved' = reserved - freed
      BY <2>6, <2>8, <3>1
    <3> QED BY <2>3, <2>6, <3>1, <3>2
  <2>10. /\ onHand' + store' + MissingOf(row) <= onHand + store + MissingOf(transfer[t])
         /\ raced' = {} => onHand' + store' + MissingOf(row) = onHand + store + MissingOf(transfer[t])
         /\ reserved <= onHand => reserved' <= onHand'
    BY <2>1, <2>3, <2>6, <2>8
  <2>11. onHand' \in Nat /\ store' \in Nat
    BY <2>1 DEF StockInv, KitchenTypes, ShippingTypes
  <2>12. GoodsInv' /\ ReservedInv'
    BY <1>0, <2>1, <2>2, <2>3, <2>8, <2>9, <2>10, <2>11, RowMoves DEF StockInv
  <2> QED BY <2>2, <2>5, <2>8, <2>11, <2>12 DEF GoodsKept, ShippingTypes
<1>4. CASE Shipping!Abort(r)
  <2>1. /\ Shipping!Finish(r)
        /\ UNCHANGED <<transfer, raced, store, onHand, reserved>>
    BY <1>4 DEF Shipping!Abort
  <2>2. \A x \in Requests : request'[x] \in {request[x], Idle}
    BY <1>0, <2>1, Finished
  <2>3. CopiesInv'
    BY <2>1, <2>2 DEF StockInv, CopiesInv, ApprovedCopy
  <2>4. Missing' = Missing /\ Held' = Held /\ Produced' = Produced
    BY <2>1 DEF Missing, Held, Produced, Stands
  <2>5. GoodsInv' /\ ReservedInv'
    BY <2>1, <2>4 DEF StockInv, GoodsInv, ReservedInv, Goods, Source
  <2> QED BY <2>1, <2>3, <2>5 DEF GoodsKept, StockInv, KitchenTypes, ShippingTypes
<1> QED BY <1>1, <1>2, <1>3, <1>4

\* Creating a transfer, reading it, shipping it and receiving it: goods move as they are noted.
LEMMA TransferMovesGoods ==
  ASSUME StockInv, Shipping!Next, UNCHANGED <<production, adjusted, byHand>>
  PROVE  GoodsKept
<1>0. TransferInv /\ TransferType
  BY DEF StockInv, TransferInv
<1>1. ASSUME NEW t \in Transfers
      PROVE  /\ transfer[t] \in Rows /\ Transit(transfer[t]) /\ MissingOf(transfer[t]) \in Int
             /\ t \notin raced => Settled(transfer[t])
             /\ onHand \in Nat /\ store \in Nat /\ reserved \in Nat /\ raced \subseteq Transfers
  <2>1. /\ transfer[t] \in Rows /\ Transit(transfer[t])
        /\ t \notin raced => Settled(transfer[t])
        /\ onHand \in Nat /\ store \in Nat /\ reserved \in Nat /\ raced \subseteq Transfers
    BY <1>0 DEF StockInv, TransferInv, TransferType, GoodsInv, KitchenTypes, ShippingTypes
  <2> QED BY <2>1, RowAmounts
<1>2. ASSUME NEW t \in Transfers, NEW row \in Rows, Transit(row),
             transfer' = [transfer EXCEPT ![t] = row], request' = request, raced' = raced,
             onHand' \in Nat, store' \in Nat, reserved' \in Nat,
             onHand' + store' + MissingOf(row) <= onHand + store + MissingOf(transfer[t]),
             raced = {} => onHand' + store' + MissingOf(row) = onHand + store + MissingOf(transfer[t]),
             raced = {} => reserved' - HeldOf(row) = reserved - HeldOf(transfer[t]),
             reserved <= onHand => reserved' <= onHand',
             \/ transfer[t].status = "none"
             \/ /\ row.approved = transfer[t].approved
                /\ row.status \notin {"draft", "pending_approval"}
      PROVE  GoodsKept
  <2>1. CopiesInv'
    BY <1>0, <1>2, CopiesKept DEF StockInv
  <2>2. GoodsInv' /\ ReservedInv'
    BY <1>0, <1>2, RowMoves DEF StockInv
  <2> QED BY <1>2, <2>1, <2>2 DEF GoodsKept, StockInv, ShippingTypes
<1>3. ASSUME NEW t \in Transfers, NEW q \in 1..MaxQty, Shipping!CreateTransfer(t, q) PROVE GoodsKept
  <2> DEFINE row == [transfer[t] EXCEPT !.status = "draft", !.requested = q]
  <2>1. /\ transfer[t].status = "none" /\ request' = request /\ raced' = raced
        /\ transfer' = [transfer EXCEPT ![t] = row]
        /\ onHand' = onHand /\ store' = store /\ reserved' = reserved
    BY <1>3 DEF Shipping!CreateTransfer
  <2>2. transfer[t] \in Rows /\ q \in Nat
    BY <1>1, BoundAssumption
  <2>3. row \in Rows /\ row.status = "draft" /\ row.short = transfer[t].short
    BY <2>2 DEF Rows, Shipping!Status
  <2> HIDE DEF row
  <2>4. /\ Transit(row) /\ MissingOf(row) = MissingOf(transfer[t])
        /\ HeldOf(row) = HeldOf(transfer[t])
    BY <2>1, <2>3 DEF Transit, MissingOf, HeldOf, OnTheWay
  <2>5. /\ onHand' \in Nat /\ store' \in Nat /\ reserved' \in Nat
        /\ onHand' + store' + MissingOf(row) <= onHand + store + MissingOf(transfer[t])
        /\ onHand' + store' + MissingOf(row) = onHand + store + MissingOf(transfer[t])
        /\ reserved' - HeldOf(row) = reserved - HeldOf(transfer[t])
        /\ reserved <= onHand => reserved' <= onHand'
    BY <1>1, <2>1, <2>4
  <2> QED BY <1>2, <2>1, <2>3, <2>4, <2>5
<1>4. ASSUME NEW t \in Transfers, NEW r \in Requests, NEW kind \in DOMAIN Shipping!ReadableStatus,
             Shipping!Look(r, t, kind)
      PROVE  GoodsKept
  <2> DEFINE job == [kind |-> kind, transfer |-> t, copy |->
                        [status |-> transfer[t].status, requested |-> transfer[t].requested,
                         approved |-> transfer[t].approved]]
  <2>1. /\ request' = [request EXCEPT ![r] = job]
        /\ UNCHANGED <<transfer, raced, store, onHand, reserved>>
    BY <1>4 DEF Shipping!Look
  <2>2. \A x \in Requests : request'[x] = IF x = r THEN job ELSE request[x]
    BY <1>0, <2>1 DEF TransferType
  <2>3. CopiesInv'
    <3> SUFFICES ASSUME NEW x \in Requests PROVE ApprovedCopy(x)'
      BY DEF CopiesInv
    <3>1. CASE x = r
      BY <2>1, <2>2, <3>1 DEF ApprovedCopy
    <3>2. CASE x # r
      <4>1. ApprovedCopy(x) /\ request'[x] = request[x]
        BY <2>2, <3>2 DEF StockInv, CopiesInv
      <4> QED BY <2>1, <4>1 DEF ApprovedCopy
    <3> QED BY <3>1, <3>2
  <2>4. Missing' = Missing /\ Held' = Held /\ Produced' = Produced
    BY <2>1 DEF Missing, Held, Produced, Stands
  <2>5. GoodsInv' /\ ReservedInv'
    BY <2>1, <2>4 DEF StockInv, GoodsInv, ReservedInv, Goods, Source
  <2> QED BY <2>1, <2>3, <2>5 DEF GoodsKept, StockInv, KitchenTypes, ShippingTypes
<1>5. ASSUME NEW t \in Transfers, Shipping!Ship(t) PROVE GoodsKept
  <2> DEFINE q == transfer[t].approved
             row == [transfer[t] EXCEPT !.status = "in_transit", !.sent = q,
                                        !.received = 0, !.short = 0]
  <2>1. /\ transfer[t].status = "approved" /\ request' = request /\ raced' = raced
        /\ onHand >= q /\ reserved >= q
        /\ transfer' = [transfer EXCEPT ![t] = row]
        /\ onHand' = onHand - q /\ store' = store /\ reserved' = reserved - q
    BY <1>5 DEF Shipping!Ship
  <2>2. transfer[t] \in Rows /\ q \in Nat /\ transfer[t].short \in Nat
    BY <1>1 DEF Rows
  <2>3. /\ row \in Rows /\ row.status = "in_transit" /\ row.approved = q
        /\ row.sent = q /\ row.received = 0 /\ row.short = 0
    BY <2>2 DEF Rows, Shipping!Status
  <2> HIDE DEF row
  <2>4. /\ Transit(row) /\ MissingOf(row) = q /\ MissingOf(transfer[t]) = transfer[t].short
        /\ HeldOf(row) = 0 /\ HeldOf(transfer[t]) = q
    BY <2>1, <2>2, <2>3 DEF Transit, MissingOf, HeldOf, OnTheWay
  <2>5. raced = {} => transfer[t].short = 0
    BY <1>1, <2>1 DEF Settled
  <2>6. onHand \in Int /\ store \in Int /\ reserved \in Int
    BY <1>1
  <2> HIDE DEF q
  <2>7. /\ onHand' \in Nat /\ store' \in Nat /\ reserved' \in Nat
        /\ reserved <= onHand => reserved' <= onHand'
    BY <1>1, <2>1, <2>2
  <2>8. /\ onHand' + store' + MissingOf(row) <= onHand + store + MissingOf(transfer[t])
        /\ raced = {} => onHand' + store' + MissingOf(row) = onHand + store + MissingOf(transfer[t])
        /\ raced = {} => reserved' - HeldOf(row) = reserved - HeldOf(transfer[t])
    BY <2>1, <2>2, <2>4, <2>5, <2>6
  <2>9. row.approved = transfer[t].approved /\ row.status \notin {"draft", "pending_approval"}
    BY <2>3 DEF q
  <2> QED BY <1>2, <2>1, <2>3, <2>4, <2>7, <2>8, <2>9
<1>6. ASSUME NEW t \in Transfers, NEW target \in 0..MaxQty, NEW finalize \in BOOLEAN,
             Shipping!ReceiveGoods(t, target, finalize)
      PROVE  GoodsKept
  <2> DEFINE closed == target = transfer[t].sent \/ finalize
             row == [transfer[t] EXCEPT
                        !.received = target,
                        !.short = IF finalize THEN transfer[t].sent - target ELSE 0,
                        !.status = IF closed THEN "completed" ELSE "partially_received"]
  <2>1. /\ OnTheWay(transfer[t])
        /\ target \in transfer[t].received .. transfer[t].sent
        /\ request' = request /\ raced' = raced
        /\ transfer' = [transfer EXCEPT ![t] = row]
        /\ onHand' = onHand /\ store' = store + (target - transfer[t].received)
        /\ reserved' = reserved
    BY <1>6 DEF Shipping!ReceiveGoods, Shipping!Posted, OnTheWay
  <2>2. /\ transfer[t] \in Rows /\ transfer[t].received \in Nat /\ transfer[t].sent \in Nat
        /\ target \in Nat /\ transfer[t].received <= target /\ target <= transfer[t].sent
    BY <1>1, <2>1 DEF Rows
  <2>3. /\ row \in Rows /\ row.received = target /\ row.sent = transfer[t].sent
        /\ row.approved = transfer[t].approved
        /\ row.short = IF finalize THEN transfer[t].sent - target ELSE 0
        /\ row.status = IF closed THEN "completed" ELSE "partially_received"
    <3>1. (IF finalize THEN transfer[t].sent - target ELSE 0) \in Nat
      BY <2>2
    <3>2. (IF closed THEN "completed" ELSE "partially_received") \in Shipping!Status \ {"none"}
      BY DEF Shipping!Status
    <3> HIDE DEF closed
    <3> QED BY <2>2, <3>1, <3>2 DEF Rows
  <2> HIDE DEF row
  <2>4. Transit(row) /\ MissingOf(row) = transfer[t].sent - target
    BY <2>2, <2>3 DEF Transit, MissingOf, OnTheWay
  <2>5. MissingOf(transfer[t]) = transfer[t].sent - transfer[t].received
    BY <2>1 DEF MissingOf
  <2>6. HeldOf(row) = 0 /\ HeldOf(transfer[t]) = 0 /\ row.status \notin {"draft", "pending_approval"}
    BY <2>1, <2>3 DEF HeldOf, OnTheWay
  <2>7. onHand \in Int /\ store \in Int /\ reserved \in Int
    BY <1>1
  <2>8. /\ onHand' + store' + MissingOf(row) = onHand + store + MissingOf(transfer[t])
        /\ onHand' + store' + MissingOf(row) <= onHand + store + MissingOf(transfer[t])
    BY <2>1, <2>2, <2>4, <2>5, <2>7
  <2>9. /\ onHand' \in Nat /\ store' \in Nat /\ reserved' \in Nat
        /\ reserved' - HeldOf(row) = reserved - HeldOf(transfer[t])
        /\ reserved <= onHand => reserved' <= onHand'
    BY <1>1, <2>1, <2>2, <2>6
  <2> QED BY <1>2, <2>1, <2>3, <2>4, <2>6, <2>8, <2>9
<1> QED BY <1>3, <1>4, <1>5, <1>6, RequestMovesGoods DEF Shipping!Next

LEMMA StockInitial == Init => StockInv
<1> SUFFICES ASSUME Init PROVE StockInv
  OBVIOUS
<1> USE DEF Init, Kitchen!KitchenInit, Kitchen!NoOrder, Kitchen!Nothing,
            Shipping!TransferInit, Shipping!NoTransfer
<1>1. DemandInv /\ TransferInv
  BY DemandInit, TransferInitial
<1>2. KitchenTypes /\ ShippingTypes /\ adjusted \in Int /\ byHand \in 0..MaxByHand
  BY BoundAssumption DEF KitchenTypes, LotRows, ShippingTypes
<1>3. /\ \A o \in Orders : Produced[o] = 0 /\ \A l \in Lots : Consumed(l)[o] = 0
      /\ \A t \in Transfers : Missing[t] = 0 /\ Held[t] = 0
  BY DEF Produced, Consumed, Stands, Missing, Held, HeldOf
<1>4. ASSUME NEW l \in Lots PROVE SumFunctionOnSet(Consumed(l), Orders) = 0
  <2>1. \A o \in Orders : Consumed(l)[o] = 0
    BY <1>3
  <2> QED BY <2>1, FiniteAssumption, SumZero
<1>5. /\ SumFunctionOnSet(Produced, Orders) = 0
      /\ SumFunctionOnSet(Missing, Transfers) = 0 /\ SumFunctionOnSet(Held, Transfers) = 0
  BY <1>3, FiniteAssumption, SumZero
<1>6. LotsInv
  BY <1>4 DEF LotsInv
<1>7. GoodsInv /\ ReservedInv
  BY <1>5 DEF GoodsInv, ReservedInv, Goods, Source, Transit, OnTheWay
<1>8. CopiesInv
  BY DEF CopiesInv, ApprovedCopy
<1> QED BY <1>1, <1>2, <1>6, <1>7, <1>8 DEF StockInv

\* The kitchen reserves nothing, and takes back only goods that are not reserved.
LEMMA KitchenLeavesReserved ==
  ASSUME StockInv, Kitchen!Next
  PROVE  reserved' = reserved /\ (reserved <= onHand => reserved' <= onHand')
<1>1. onHand \in Nat /\ reserved \in Nat
  BY DEF StockInv, KitchenTypes, ShippingTypes
<1>2. ASSUME NEW o \in Orders, NEW actual \in [Ingredients -> 0..MaxQty],
             NEW made \in Kitchen!Quantity, Kitchen!CompleteOrder(o, actual, made)
      PROVE  reserved' = reserved /\ (reserved <= onHand => reserved' <= onHand')
  <2>1. made \in Nat
    BY BoundAssumption DEF Kitchen!Quantity
  <2> QED BY <1>1, <1>2, <2>1 DEF Kitchen!CompleteOrder
<1>3. ASSUME NEW o \in Orders, Kitchen!ReverseOrder(o)
      PROVE  reserved' = reserved /\ (reserved <= onHand => reserved' <= onHand')
  <2>1. production[o].output \in Nat
    BY DEF StockInv, DemandInv, OrderRows
  <2> QED BY <1>1, <1>3, <2>1 DEF Kitchen!ReverseOrder
<1>4. CASE UNCHANGED <<onHand, reserved>>
  BY <1>4
<1> QED BY <1>2, <1>3, <1>4 DEF Kitchen!Next, Kitchen!Receive, Kitchen!CreateDemand,
           Kitchen!CreateOrder, Kitchen!StartOrder, Kitchen!CancelOrder

LEMMA KitchenStep ==
  ASSUME StockInv, Kitchen!Next, UNCHANGED <<transferVars, deskVars>>
  PROVE  StockInv'
<1>1. DemandInv'
  BY DemandStep DEF StockInv
<1>2. TransferInv' /\ CopiesInv' /\ ShippingTypes'
  BY KitchenLeavesReserved
     DEF StockInv, transferVars, TransferInv, TransferType, Reading, CopiesInv, ApprovedCopy, ShippingTypes
<1>3. /\ KitchenTypes' /\ LotsInv'
      /\ onHand' + SumFunctionOnSet(Produced, Orders) = onHand + SumFunctionOnSet(Produced', Orders)
  BY KitchenKeepsLots DEF StockInv, ShippingTypes, LotsKept
<1>4. Missing' = Missing /\ Held' = Held
  BY DEF transferVars, Missing, Held
<1>5. GoodsInv'
  <2>1. PICK made \in Int, made2 \in Int, way \in Int :
          /\ made = SumFunctionOnSet(Produced, Orders) /\ made2 = SumFunctionOnSet(Produced', Orders)
          /\ way = SumFunctionOnSet(Missing, Transfers)
    <3>1. SumFunctionOnSet(Produced, Orders) \in Nat
      BY TotalsAreInt DEF StockInv
    <3>2. SumFunctionOnSet(Missing, Transfers) \in Nat
      BY ShippingTotals DEF StockInv, TransferInv, GoodsInv
    <3>3. SumFunctionOnSet(Produced', Orders) \in Nat
      <4>1. \A o \in Orders : Produced'[o] \in Nat
        BY <1>1 DEF DemandInv, Produced, OrderRows
      <4> QED BY <4>1, FiniteAssumption, SumNat
    <3> QED BY <3>1, <3>2, <3>3
  <2>2. /\ onHand \in Int /\ onHand' \in Int /\ store \in Int /\ store' = store
        /\ adjusted \in Int /\ adjusted' = adjusted /\ raced' = raced
    BY <1>3 DEF StockInv, KitchenTypes, ShippingTypes, transferVars, deskVars
  <2>3. /\ Goods = onHand + store + way /\ Goods' = onHand' + store + way
        /\ Source = made + adjusted /\ Source' = made2 + adjusted
    BY <1>4, <2>1, <2>2 DEF Goods, Source
  <2>4. onHand' + made = onHand + made2
    BY <1>3, <2>1
  <2>5. /\ Goods <= Source => Goods' <= Source'
        /\ Goods = Source => Goods' = Source'
    BY <2>1, <2>2, <2>3, <2>4
  <2>6. \A t \in Transfers : Transit(transfer'[t])
    BY DEF StockInv, GoodsInv, transferVars
  <2> QED BY <2>2, <2>5, <2>6 DEF StockInv, GoodsInv
<1>6. ReservedInv'
  BY <1>4, KitchenLeavesReserved DEF StockInv, ReservedInv, transferVars, deskVars
<1> QED BY <1>1, <1>2, <1>3, <1>5, <1>6 DEF StockInv, deskVars

LEMMA ShippingStep ==
  ASSUME StockInv, Shipping!Next, UNCHANGED <<kitchenVars, deskVars>>
  PROVE  StockInv'
<1>1. DemandInv'
  BY DemandUntouched DEF StockInv, DemandInv, kitchenVars
<1>2. TransferInv'
  BY TransferStep DEF StockInv
<1>3. GoodsKept
  BY TransferMovesGoods DEF kitchenVars, deskVars
<1>4. KitchenTypes'
  BY <1>3 DEF StockInv, KitchenTypes, GoodsKept, kitchenVars
<1>5. LotsInv'
  <2>1. \A l \in Lots : Consumed(l)' = Consumed(l)
    BY DEF Consumed, Stands, kitchenVars
  <2> QED BY <2>1 DEF StockInv, LotsInv, kitchenVars
<1> QED BY <1>1, <1>2, <1>3, <1>4, <1>5 DEF StockInv, GoodsKept, deskVars

\* The stock desk changes the balance and what it notes by the same amount, whatever is
\* reserved: from then on reserved goods may be missing.
LEMMA DeskStep ==
  ASSUME StockInv, (\E q \in {-1, 1} : Adjust(q)) \/ MoveByHand(1)
  PROVE  StockInv'
<1>1. /\ UNCHANGED kitchenVars /\ UNCHANGED <<transfer, request, raced, reserved>>
      /\ byHand' = byHand + 1 /\ byHand < MaxByHand
      /\ onHand' \in Nat /\ store' \in Nat /\ adjusted' \in Int
      /\ onHand' + store' - adjusted' = onHand + store - adjusted
  <2>1. onHand \in Nat /\ store \in Nat /\ adjusted \in Int
    BY DEF StockInv, KitchenTypes, ShippingTypes
  <2>2. ASSUME NEW q \in {-1, 1}, Adjust(q)
        PROVE  /\ onHand' \in Nat /\ store' \in Nat /\ adjusted' \in Int
               /\ onHand' + store' - adjusted' = onHand + store - adjusted
    BY <2>1, <2>2 DEF Adjust, transferVars
  <2>3. CASE MoveByHand(1)
    BY <2>1, <2>3 DEF MoveByHand
  <2> QED BY <2>2, <2>3 DEF Adjust, MoveByHand, transferVars
<1>2. byHand \in 0..MaxByHand /\ byHand' \in 0..MaxByHand /\ byHand' # 0
  BY <1>1, BoundAssumption DEF StockInv
<1>3. DemandInv'
  BY <1>1, DemandUntouched DEF StockInv, DemandInv, kitchenVars
<1>4. TransferInv' /\ CopiesInv' /\ ShippingTypes'
  BY <1>1 DEF StockInv, TransferInv, TransferType, Reading, CopiesInv, ApprovedCopy, ShippingTypes
<1>5. KitchenTypes'
  BY <1>1 DEF StockInv, KitchenTypes, kitchenVars
<1>6. LotsInv'
  <2>1. \A l \in Lots : Consumed(l)' = Consumed(l)
    BY <1>1 DEF Consumed, Stands, kitchenVars
  <2> QED BY <1>1, <2>1 DEF StockInv, LotsInv, kitchenVars
<1>7. Missing' = Missing /\ Held' = Held /\ Produced' = Produced
  BY <1>1 DEF Missing, Held, Produced, Stands, kitchenVars
<1>8. GoodsInv'
  <2>1. PICK made \in Int, way \in Int :
          made = SumFunctionOnSet(Produced, Orders) /\ way = SumFunctionOnSet(Missing, Transfers)
    <3>1. SumFunctionOnSet(Produced, Orders) \in Nat
      BY TotalsAreInt DEF StockInv
    <3>2. SumFunctionOnSet(Missing, Transfers) \in Nat
      BY ShippingTotals DEF StockInv, TransferInv, GoodsInv
    <3> QED BY <3>1, <3>2
  <2>2. onHand \in Int /\ store \in Int /\ adjusted \in Int
    BY DEF StockInv, KitchenTypes, ShippingTypes
  <2>3. /\ Goods = onHand + store + way /\ Goods' = onHand' + store' + way
        /\ Source = made + adjusted /\ Source' = made + adjusted'
    BY <1>7, <2>1 DEF Goods, Source
  <2>4. /\ Goods <= Source => Goods' <= Source'
        /\ Goods = Source => Goods' = Source'
    <3>1. PICK a \in Int, b \in Int, c \in Int : a = onHand' /\ b = store' /\ c = adjusted'
      BY <1>1
    <3>2. a + b - c = onHand + store - adjusted
      BY <1>1, <3>1
    <3>3. Goods' = a + b + way /\ Source' = made + c
      BY <2>3, <3>1
    <3>4. /\ onHand + store + way <= made + adjusted => a + b + way <= made + c
          /\ onHand + store + way = made + adjusted => a + b + way = made + c
      BY <2>2, <3>2
    <3> QED BY <2>3, <3>3, <3>4
  <2> QED BY <1>1, <2>4 DEF StockInv, GoodsInv
<1>9. ReservedInv'
  BY <1>1, <1>2, <1>7 DEF StockInv, ReservedInv
<1> QED BY <1>1, <1>2, <1>3, <1>4, <1>5, <1>6, <1>8, <1>9 DEF StockInv

LEMMA StockHolds == Spec => []StockInv
<1>1. StockInv /\ [Next]_vars => StockInv'
  <2> SUFFICES ASSUME StockInv, [Next]_vars PROVE StockInv'
    OBVIOUS
  <2>1. CASE Kitchen!Next /\ UNCHANGED <<transferVars, deskVars>>
    BY <2>1, KitchenStep
  <2>2. CASE Shipping!Next /\ UNCHANGED <<kitchenVars, deskVars>>
    BY <2>2, ShippingStep
  <2>3. CASE (\E q \in {-1, 1} : Adjust(q)) \/ MoveByHand(1)
    BY <2>3, DeskStep
  <2>4. CASE UNCHANGED vars
    <3>1. DemandInv'
      BY <2>4, DemandUntouched DEF StockInv, DemandInv, vars, kitchenVars
    <3>2. TransferInv' /\ CopiesInv' /\ ShippingTypes' /\ KitchenTypes'
      BY <2>4 DEF StockInv, TransferInv, TransferType, Reading, CopiesInv, ApprovedCopy,
                  ShippingTypes, KitchenTypes, vars, kitchenVars, transferVars
    <3>3. /\ Missing' = Missing /\ Held' = Held /\ Produced' = Produced
          /\ \A l \in Lots : Consumed(l)' = Consumed(l)
      BY <2>4 DEF Missing, Held, Produced, Consumed, Stands, vars, kitchenVars, transferVars
    <3>4. LotsInv' /\ GoodsInv' /\ ReservedInv'
      BY <2>4, <3>3 DEF StockInv, LotsInv, GoodsInv, ReservedInv, Goods, Source, vars, kitchenVars,
                        transferVars, deskVars
    <3> QED BY <2>4, <3>1, <3>2, <3>4 DEF StockInv, vars, deskVars
  <2> QED BY <2>1, <2>2, <2>3, <2>4 DEF Next
<1> QED BY StockInitial, <1>1, PTL DEF Spec

\* Rows of kitchen and transfers keep their types and no balance falls below zero, whatever
\* the stock desk takes and however requests race.
THEOREM TypeCorrect == Spec => []TypeOK
<1>1. StockInv => TypeOK
  <2> SUFFICES ASSUME StockInv PROVE TypeOK
    OBVIOUS
  <2>1. Kitchen!TypeOK
    BY DEF StockInv, DemandInv, KitchenTypes, OrderRows, LotRows, Kitchen!TypeOK
  <2>2. Shipping!TypeOK
    BY DEF StockInv, TransferInv, TransferType, ShippingTypes, Rows, Jobs, Copies, Shipping!TypeOK
  <2> QED BY <2>1, <2>2 DEF TypeOK, StockInv, KitchenTypes, ShippingTypes
<1> QED BY StockHolds, <1>1, PTL

\* Every lot holds what was delivered less what standing orders used, as sums over all
\* orders, however many draw on it and are reversed (plan_fifo_allocations, reverse_order).
THEOREM LotsAreAccounted == Spec => []LotsAddUp
<1>1. StockInv => LotsAddUp
  <2> SUFFICES ASSUME StockInv, NEW l \in Lots
               PROVE  delivered[l] = lot[l].qty
                        + Kitchen!SumFunctionOnSet([o \in Orders |-> issued[o][l]],
                                           {o \in Orders : production[o].status = "completed"})
    BY DEF LotsAddUp, Kitchen!LotsAddUp
  <2> DEFINE f == [o \in Orders |-> issued[o][l]]
             C == {o \in Orders : production[o].status = "completed"}
  <2>1. delivered[l] = lot[l].qty + SumFunctionOnSet(Consumed(l), Orders)
    BY DEF StockInv, LotsInv
  <2>2. Consumed(l) = [o \in Orders |-> IF o \in C THEN f[o] ELSE 0]
    BY DEF Consumed, Stands
  <2>3. (\A o \in Orders : f[o] \in Nat) /\ C \in SUBSET Orders
    BY DEF StockInv, KitchenTypes
  <2> HIDE DEF f, C
  <2>4. SumFunctionOnSet(f, C) = SumFunctionOnSet(Consumed(l), Orders)
    BY <2>2, <2>3, FiniteAssumption, SumOfSome
  <2>5. Kitchen!SumFunctionOnSet(f, C) = SumFunctionOnSet(f, C)
    BY KitchenSum
  <2> QED BY <2>1, <2>4, <2>5 DEF f, C
<1> QED BY StockHolds, <1>1, PTL

\* Goods at the kitchen, at the branch, on the way and written off are what standing orders
\* made and the stock desk corrected; stale requests lose goods and never add any.
THEOREM GoodsAreConserved == Spec => []GoodsConserved
<1>1. StockInv => GoodsConserved
  <2> SUFFICES ASSUME StockInv PROVE GoodsConserved
    OBVIOUS
  <2> DEFINE f == [o \in Orders |-> production[o].output]
             C == {o \in Orders : production[o].status = "completed"}
  <2>1. Produced = [o \in Orders |-> IF o \in C THEN f[o] ELSE 0]
    BY DEF Produced, Stands
  <2>2. (\A o \in Orders : f[o] \in Nat) /\ C \in SUBSET Orders
    BY DEF StockInv, DemandInv, OrderRows
  <2>3. Made = SumFunctionOnSet(f, C)
    BY DEF Made
  <2> HIDE DEF f, C
  <2>4. Made = SumFunctionOnSet(Produced, Orders)
    BY <2>1, <2>2, <2>3, FiniteAssumption, SumOfSome
  <2>5. PICK made \in Nat, way \in Nat : made = Made /\ way = SumFunctionOnSet(Missing, Transfers)
    <3>1. SumFunctionOnSet(Missing, Transfers) \in Nat
      BY ShippingTotals DEF StockInv, TransferInv, GoodsInv
    <3>2. SumFunctionOnSet(Produced, Orders) \in Nat
      BY TotalsAreInt DEF StockInv
    <3> QED BY <2>4, <3>1, <3>2
  <2>6. onHand \in Int /\ store \in Int /\ adjusted \in Int
    BY DEF StockInv, KitchenTypes, ShippingTypes
  <2>7. /\ onHand + store + way <= made + adjusted
        /\ raced = {} => onHand + store + way = made + adjusted
    BY <2>4, <2>5 DEF StockInv, GoodsInv, Goods, Source
  <2> QED BY <2>5, <2>6, <2>7 DEF GoodsConserved
<1> QED BY StockHolds, <1>1, PTL

\* What is reserved is what approved transfers wait for, and it is there unless the stock
\* desk moved goods: as long as no request wrote from an outdated copy.
THEOREM ReservationsAreBacked == Spec => []ReservationsMatchTransfers
<1>1. StockInv => ReservationsMatchTransfers
  <2> SUFFICES ASSUME StockInv PROVE ReservationsMatchTransfers
    OBVIOUS
  <2> DEFINE f == [t \in Transfers |-> transfer[t].approved]
             C == {t \in Transfers : transfer[t].status = "approved"}
  <2>1. Held = [t \in Transfers |-> IF t \in C THEN f[t] ELSE 0]
    BY DEF Held, HeldOf
  <2>2. (\A t \in Transfers : f[t] \in Nat) /\ C \in SUBSET Transfers
    BY DEF StockInv, TransferInv, TransferType, Rows
  <2>3. ReservationsMatchTransfers <=>
          (raced = {} => reserved = SumFunctionOnSet(f, C) /\ (byHand = 0 => reserved <= onHand))
    BY DEF ReservationsMatchTransfers
  <2> HIDE DEF f, C
  <2>4. SumFunctionOnSet(f, C) = SumFunctionOnSet(Held, Transfers)
    BY <2>1, <2>2, FiniteAssumption, SumOfSome
  <2> QED BY <2>3, <2>4 DEF StockInv, ReservedInv
<1> QED BY StockHolds, <1>1, PTL
================================================================================
