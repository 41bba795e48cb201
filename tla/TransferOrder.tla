----------------------------- MODULE TransferOrder -----------------------------
(***************************************************************************)
(* Transfers of goods from the READY location to a branch (services/       *)
(* transfer_service.py): requested, approved against a reservation, shipped,*)
(* received in parts and closed with a shortfall, or cancelled.             *)
(*                                                                         *)
(* ship_to and receive_to lock the transfer at their first read and are one *)
(* step.  submit_to, approve_to and cancel_to read it without a lock: their *)
(* first step keeps what was read in `request', the second locks the        *)
(* balance and writes the transfer as if it had not changed.                *)
(*                                                                         *)
(* A transfer of the model has one item.  That requester and approver are   *)
(* different users only refuses requests; transfers posted at the           *)
(* destination when shipped, a migrated form, are left out.                 *)
(***************************************************************************)
EXTENDS Integers, FiniteSets, FiniteSetsExt

CONSTANTS
    Transfers,
    Requests, Idle,     \* slots for requests that take two steps
    MaxQty              \* bound on a quantity requested

VARIABLES
    transfer,   \* rows of transfer_orders with their item
    request,    \* what each request under way has read
    raced,      \* history: transfers written by a request that had read another status
    store,      \* StockBalance.qty_on_hand at the destination
    onHand,     \* StockBalance of the product at the READY location
    reserved    \* its qty_reserved

transferVars == <<transfer, request, raced, store>>
vars == <<transferVars, onHand, reserved>>

NoTransfer == [status |-> "none", requested |-> 0, approved |-> 0,
               sent |-> 0, received |-> 0, short |-> 0]

TransferInit ==
    /\ transfer = [t \in Transfers |-> NoTransfer]
    /\ request = [r \in Requests |-> Idle]
    /\ raced = {} /\ store = 0

Init == TransferInit /\ onHand = 0 /\ reserved = 0

Available == onHand - reserved

CreateTransfer(t, q) ==
    /\ transfer[t].status = "none"
    /\ transfer' = [transfer EXCEPT ![t].status = "draft", ![t].requested = q]
    /\ UNCHANGED <<request, raced, store, onHand, reserved>>

--------------------------------------------------------------------------------
(* Requests that read the transfer before they lock anything *)

ReadableStatus == [submit |-> {"draft"}, approve |-> {"pending_approval"},
                   cancel |-> {"draft", "pending_approval", "approved"}]

\* _get_to_entity and the check of the status.
Look(r, t, kind) ==
    /\ request[r] = Idle
    /\ transfer[t].status \in ReadableStatus[kind]
    /\ request' = [request EXCEPT ![r] = [kind |-> kind, transfer |-> t, copy |->
            [status |-> transfer[t].status, requested |-> transfer[t].requested,
             approved |-> transfer[t].approved]]]
    /\ UNCHANGED <<transfer, raced, store, onHand, reserved>>

Working(r, kind) == request[r] # Idle /\ request[r].kind = kind
Finish(r) == request' = [request EXCEPT ![r] = Idle]

\* Notes a write from an outdated copy.
NoteRace(t, copy) == raced' = IF transfer[t].status = copy.status THEN raced ELSE raced \cup {t}

Submit(r) ==
    /\ Working(r, "submit")
    /\ LET t == request[r].transfer IN
       /\ Available >= request[r].copy.requested
       /\ transfer' = [transfer EXCEPT ![t].status = "pending_approval"]
       /\ NoteRace(t, request[r].copy)
    /\ Finish(r)
    /\ UNCHANGED <<store, onHand, reserved>>

Approve(r, q) ==
    /\ Working(r, "approve")
    /\ LET t == request[r].transfer IN
       /\ q <= request[r].copy.requested /\ Available >= q
       /\ transfer' = [transfer EXCEPT ![t].status = "approved", ![t].approved = q]
       /\ NoteRace(t, request[r].copy)
    /\ reserved' = reserved + q
    /\ Finish(r)
    /\ UNCHANGED <<store, onHand>>

\* Bug variant: a released reservation may fall below zero.
CancelBelowZero(r) ==
    /\ Working(r, "cancel")
    /\ LET t == request[r].transfer
           copy == request[r].copy IN
       /\ reserved' = IF copy.status = "approved" THEN reserved - copy.approved ELSE reserved
       /\ transfer' = [transfer EXCEPT ![t].status = "cancelled"]
       /\ NoteRace(t, copy)
    /\ Finish(r)
    /\ UNCHANGED <<store, onHand>>

\* Bug variant: the reservation of an approved transfer is not released.
CancelKeepsReservation(r) ==
    /\ Working(r, "cancel")
    /\ LET t == request[r].transfer IN
       /\ transfer' = [transfer EXCEPT ![t].status = "cancelled"]
       /\ NoteRace(t, request[r].copy)
    /\ Finish(r)
    /\ UNCHANGED <<store, onHand, reserved>>

Cancel(r) ==
    /\ Working(r, "cancel")
    /\ LET t == request[r].transfer
           copy == request[r].copy IN
       /\ reserved' = IF copy.status = "approved" THEN Max({0, reserved - copy.approved})
                      ELSE reserved
       /\ transfer' = [transfer EXCEPT ![t].status = "cancelled"]
       /\ NoteRace(t, copy)
    /\ Finish(r)
    /\ UNCHANGED <<store, onHand>>

\* A request that is refused or cut off; its transaction is rolled back.
Abort(r) ==
    /\ request[r] # Idle
    /\ Finish(r)
    /\ UNCHANGED <<transfer, raced, store, onHand, reserved>>

--------------------------------------------------------------------------------
(* Goods on the way *)

Ship(t) ==
    /\ transfer[t].status = "approved"
    /\ LET q == transfer[t].approved IN
       /\ onHand >= q /\ reserved >= q
       /\ onHand' = onHand - q
       /\ reserved' = reserved - q
       /\ transfer' = [transfer EXCEPT ![t].status = "in_transit", ![t].sent = q,
                                       ![t].received = 0, ![t].short = 0]
    /\ UNCHANGED <<request, raced, store>>

\* Bug variant: the cumulative quantity is posted again at every receipt.
PostedTarget(t, target) == target

\* What a receipt of `target' in all adds to the destination.
Posted(t, target) == target - transfer[t].received

\* target is what has arrived in all; finalize closes the transfer although some is missing.
ReceiveGoods(t, target, finalize) ==
    LET row == transfer[t]
        complete == target = row.sent IN
    /\ row.status \in {"in_transit", "partially_received"}
    /\ target \in row.received .. row.sent
    /\ target > row.received \/ (finalize /\ ~complete)
    /\ store' = store + Posted(t, target)
    /\ transfer' = [transfer EXCEPT ![t].received = target,
            ![t].short = IF finalize THEN row.sent - target ELSE 0,
            ![t].status = IF complete \/ finalize THEN "completed" ELSE "partially_received"]
    /\ UNCHANGED <<request, raced, onHand, reserved>>

Next ==
    \/ \E t \in Transfers :
        \/ \E q \in 1..MaxQty : CreateTransfer(t, q)
        \/ \E r \in Requests, kind \in DOMAIN ReadableStatus : Look(r, t, kind)
        \/ Ship(t)
        \/ \E target \in 0..MaxQty, finalize \in BOOLEAN : ReceiveGoods(t, target, finalize)
    \/ \E r \in Requests :
        \/ Submit(r)
        \/ \E q \in 1..MaxQty : Approve(r, q)
        \/ Cancel(r)
        \/ Abort(r)

--------------------------------------------------------------------------------
(* Properties *)

Status == {"none", "draft", "pending_approval", "approved", "in_transit",
           "partially_received", "completed", "cancelled"}

TypeOK ==
    /\ transfer \in [Transfers -> [status : Status, requested : Nat, approved : Nat,
                                   sent : Nat, received : Nat, short : Nat]]
    /\ request \in [Requests -> {Idle} \cup
            [kind : {"submit", "approve", "cancel"}, transfer : Transfers,
             copy : [status : Status, requested : Nat, approved : Nat]]]
    /\ raced \subseteq Transfers /\ store \in Nat

\* A transfer nobody raced ships what was approved, never more than was requested, and
\* receives no more than was shipped; once received, or closed short, all of it is told.
QuantitiesFollowStatus == \A t \in Transfers \ raced :
    LET row == transfer[t] IN
    /\ row.approved <= row.requested
    /\ row.sent \in {0, row.approved} /\ row.received + row.short <= row.sent
    /\ row.status \in {"draft", "pending_approval", "approved", "cancelled"} => row.sent = 0
    /\ row.status = "completed" => row.received + row.short = row.sent
================================================================================
