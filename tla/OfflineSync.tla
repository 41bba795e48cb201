------------------------------- MODULE OfflineSync ------------------------------
(***************************************************************************)
(* Orders a till takes without a connection (frontend/src/lib/             *)
(* restaurantOffline.ts) and sends later (services/offline_sync_service.py *)
(* and _sync_one_offline_order of routers/restaurant.py), on top of the    *)
(* waiter's paid orders of Dining.                                         *)
(*                                                                         *)
(* The till keeps a row per order and sends the rows that are not settled; *)
(* it waits for one answer at a time, and gives up or restarts when it     *)
(* likes, while the server's handler goes on.  A handler commits after     *)
(* every step: it registers the operation behind its lock, marks it,       *)
(* sells the order with the steps of Dining, and marks it twice more.  The *)
(* marks (`transition') are made without the lock, from the copy the       *)
(* handler has, and each has an event whose key is unique, so that a       *)
(* second one ends the handler with an error.                              *)
(*                                                                         *)
(* The request hash of an honest till is right.  What refuses a sale       *)
(* (authorization, product, price, stock, a closed shift) only decides     *)
(* that a handler fails.                                                   *)
(***************************************************************************)
EXTENDS Dining

CONSTANTS MaxReplays    \* bound: replays of an operation

ASSUME ReplayAssumption == MaxReplays \in Nat

VARIABLES
    till,           \* the till's rows (restaurantPendingOrders) and the handler it waits for
    operation,      \* rows of offline_pos_operations
    logged,         \* keys of the operation's events
    handler,        \* handlers of sync requests
    desk,           \* what a manager who rejects an operation has read
    contended,      \* history: orders with two handlers, or a handler and a manager, at once
    turnedAway      \* history: orders refused before their sale was looked for

syncVars == <<till, operation, logged, handler, desk, contended, turnedAway>>

Resent == {"pending_sync", "syncing", "server_acknowledged"}
Final == {"reconciled", "rejected", "quarantined", "needs_review"}
Open == {"pending_sync", "syncing", "server_acknowledged", "unknown"}
Statuses == {"none", "purged"} \cup Open \cup Final

\* A slot without a handler is told from one whose handler sells.
ASSUME HandlerAssumption ==
    Idle \notin [order : WapOrders, step : {"selling"}, read : [status : Statuses, replays : Nat]]

SyncInit ==
    /\ Init
    /\ till = [o \in WapOrders |-> [status |-> "none", waits |-> Idle]]
    /\ operation = [o \in WapOrders |-> [status |-> "none", replays |-> 0]]
    /\ logged = [o \in WapOrders |-> {}]
    /\ handler = [r \in Requests |-> Idle] /\ desk = [o \in WapOrders |-> Idle]
    /\ contended = {} /\ turnedAway = {}

--------------------------------------------------------------------------------
(* The till *)

\* queueRestaurantOrder: no connection, or no answer to the order sent paid.
Queue(o) ==
    /\ till[o].status = "none"
    /\ till' = [till EXCEPT ![o].status = "pending_sync"]
    /\ UNCHANGED <<vars, operation, logged, handler, desk, contended, turnedAway>>

\* An unknown row is sent when the server does not know the operation, or not its outcome.
Sendable(o) ==
    /\ till[o].waits = Idle
    /\ \/ till[o].status \in Resent
       \/ till[o].status = "unknown" /\ operation[o].status \in {"none", "unknown"}

Send(r, o) ==
    /\ Free(r) /\ handler[r] = Idle
    /\ Sendable(o)
    /\ till' = [till EXCEPT ![o] = [status |-> "syncing", waits |-> r]]
    /\ handler' = [handler EXCEPT ![r] =
            [order |-> o, step |-> "arrived", read |-> operation[o]]]
    /\ UNCHANGED <<vars, operation, logged, desk, contended, turnedAway>>

\* No answer, or the page is closed: the row says unknown, or still syncing.
GiveUp(o, status) ==
    /\ till[o].waits # Idle
    /\ till' = [till EXCEPT ![o] = [status |-> status, waits |-> Idle]]
    /\ UNCHANGED <<vars, operation, logged, handler, desk, contended, turnedAway>>

\* inquireUnknown, in the course of a sync or by hand.
Inquire(o) ==
    /\ till[o].status # "none"
    /\ operation[o].status # "none"
    /\ LET found == operation[o].status
       IN  till' = [till EXCEPT ![o].status = IF found = "purged" THEN "reconciled" ELSE found]
    /\ UNCHANGED <<vars, operation, logged, handler, desk, contended, turnedAway>>

\* retryRestaurantNeedsReview, and markRestaurantLocalSlip without a connection.
SendAgain(o) ==
    /\ till[o].status \in {"needs_review", "reconciled"}
    /\ till' = [till EXCEPT ![o].status = "pending_sync"]
    /\ UNCHANGED <<vars, operation, logged, handler, desk, contended, turnedAway>>

--------------------------------------------------------------------------------
(* The server's handler *)

InSync(r, step) == handler[r] # Idle /\ handler[r].step = step
Handling(o) == {r \in Requests : handler[r] # Idle /\ handler[r].order = o
                                 /\ handler[r].step # "arrived"}

\* The handler's answer: the till takes it if it still waits for it.
Answer(r, state) ==
    LET o == handler[r].order
    IN  /\ till' = IF till[o].waits = r
                   THEN [till EXCEPT ![o] = [status |-> state, waits |-> Idle]] ELSE till
        /\ handler' = [handler EXCEPT ![r] = Idle]

GoTo(r, step, read) ==
    handler' = [handler EXCEPT ![r].step = step, ![r].read = read]

\* assert_runtime_scope and a used sequence number: nothing is written to the operation.
TurnAway(r, state) ==
    /\ InSync(r, "arrived")
    /\ turnedAway' = turnedAway \cup {handler[r].order}
    /\ Answer(r, state)
    /\ UNCHANGED <<vars, operation, logged, desk, contended>>

\* Bug variant: a replay never takes the outcome it finds.
NeverSettled(status) == FALSE

\* The outcomes a replay answers with.
Settled(status) == status \in Final

\* prepare, behind the lock of the operation.
Prepare(r) ==
    /\ InSync(r, "arrived")
    /\ LET o == handler[r].order
           found == operation[o]
           now == IF found.status = "none" THEN [status |-> "pending_sync", replays |-> 0]
                  ELSE [found EXCEPT !.replays = @ + 1]
       IN  /\ now.replays <= MaxReplays
           /\ operation' = [operation EXCEPT ![o] = now]
           /\ contended' = IF Attempting(o) = {} /\ Handling(o) = {} /\ desk[o] = Idle
                           THEN contended ELSE contended \cup {o}
           /\ IF Settled(found.status) THEN Answer(r, found.status)
              ELSE GoTo(r, "begin", now) /\ UNCHANGED till
    /\ UNCHANGED <<vars, logged, desk, turnedAway>>

\* transition: from the copy that was read, with an event of its own.
Transition(o, read, type, state) ==
    /\ <<type, read.replays>> \notin logged[o]
    /\ logged' = [logged EXCEPT ![o] = @ \cup {<<type, read.replays>>}]
    /\ operation' = [operation EXCEPT ![o].status = Written(@, read.status, state)]

Mark(r, from, type, state, to) ==
    /\ InSync(r, from)
    /\ LET o == handler[r].order
       IN  Transition(o, handler[r].read, type, state) /\ GoTo(r, to, operation'[o])
    /\ UNCHANGED <<vars, till, desk, contended, turnedAway>>

BeginSync(r) == Mark(r, "begin", "sync_attempt", "syncing", "sell")

\* Bug variant: an order that is refused is acknowledged like a sold one.
AfterRefusalGoOn == "acknowledge"

\* What follows when the sale is refused or fails: a rollback and a mark.
AfterRefusal == "failed"

\* get_wap_order: a session that is linked to the sale answers if an order stands in it.
AfterLink(s) ==
    IF \E o \in OrdersOf(s) : order[o].status # "cancelled" THEN "acknowledge" ELSE AfterRefusal

\* create_wap_paid_order looks for the sale and its session first.
SyncLookup(r) ==
    /\ InSync(r, "sell")
    /\ LET o == handler[r].order
           linked == {s \in Sessions : session[s].sale = o}
       IN  \/ /\ \E s \in linked : GoTo(r, AfterLink(s), handler[r].read)
              /\ UNCHANGED vars
           \/ /\ linked = {}
              /\ WapLookup(r, o) /\ GoTo(r, "selling", handler[r].read)
    /\ UNCHANGED <<till, operation, logged, desk, contended, turnedAway>>

\* The link stays when the session it was made in has no order to answer with.
SyncSell(r) ==
    /\ InSync(r, "selling")
    /\ \/ (\E s \in Sessions : WapOpen(r, s)) /\ UNCHANGED handler
       \/ (WapPlace(r) \/ WapPay(r)) /\ UNCHANGED handler
       \/ WapLink(r) /\ GoTo(r, AfterLink(request[r].session), handler[r].read)
    /\ UNCHANGED <<till, operation, logged, desk, contended, turnedAway>>

\* The authorization or the products are refused, before the sale is looked for, or the
\* sale is; once it is made nothing refuses.
SyncRefused(r) ==
    /\ \/ /\ InSync(r, "sell")
          /\ turnedAway' = turnedAway \cup {handler[r].order}
          /\ UNCHANGED vars
       \/ /\ InSync(r, "selling") /\ request[r].kind # "wap_link"
          /\ Abort(r) /\ UNCHANGED turnedAway
    /\ GoTo(r, AfterRefusal, handler[r].read)
    /\ UNCHANGED <<till, operation, logged, desk, contended>>

\* The operation is read again after the rollback.  The two events of a refusal
\* (validation_failed, server_validation_failed) are one.
Fail(r, state) ==
    /\ InSync(r, "failed")
    /\ LET o == handler[r].order IN Transition(o, operation[o], state, state)
    /\ Answer(r, state)
    /\ UNCHANGED <<vars, desk, contended, turnedAway>>

Acknowledge(r) ==
    Mark(r, "acknowledge", "server_acknowledged", "server_acknowledged", "reconcile")

Reconcile(r) ==
    /\ InSync(r, "reconcile")
    /\ Transition(handler[r].order, handler[r].read, "reconciled", "reconciled")
    /\ Answer(r, "reconciled")
    /\ UNCHANGED <<vars, desk, contended, turnedAway>>

\* A crash, a lost request, an event that is there already: what was committed stays.
HandlerDies(r) ==
    /\ handler[r] # Idle
    /\ IF InSync(r, "selling") THEN Abort(r) ELSE UNCHANGED vars
    /\ handler' = [handler EXCEPT ![r] = Idle]
    /\ UNCHANGED <<till, operation, logged, desk, contended, turnedAway>>

--------------------------------------------------------------------------------
(* The manager *)

\* resolve_exception reads the operation without a lock.
LookToReject(o) ==
    /\ desk[o] = Idle
    /\ operation[o].status \in {"unknown", "needs_review", "quarantined"}
    /\ desk' = [desk EXCEPT ![o] = operation[o]]
    /\ contended' = IF Handling(o) = {} THEN contended ELSE contended \cup {o}
    /\ UNCHANGED <<vars, till, operation, logged, handler, turnedAway>>

Reject(o) ==
    /\ desk[o] # Idle
    /\ \/ Transition(o, desk[o], "manual_resolution", "rejected")
       \/ UNCHANGED <<operation, logged>>
    /\ desk' = [desk EXCEPT ![o] = Idle]
    /\ UNCHANGED <<vars, till, handler, contended, turnedAway>>

\* purge_reconciled, of an operation whose retention is over.  Its event has one key, so
\* that a second purge of an operation fails.
Purge(o) ==
    /\ operation[o].status = "reconciled"
    /\ <<"retention_purge", 0>> \notin logged[o]
    /\ operation' = [operation EXCEPT ![o].status = "purged"]
    /\ logged' = [logged EXCEPT ![o] = @ \cup {<<"retention_purge", 0>>}]
    /\ UNCHANGED <<vars, till, handler, desk, contended, turnedAway>>

--------------------------------------------------------------------------------

\* Requests that are not syncs.  An order on the till's queue is not sent otherwise.
OnlineStep ==
    /\ \/ \E s \in Sessions : SessionStep(s)
       \/ \E r \in Requests : handler[r] = Idle /\ (Look(r) \/ Write(r))
       \/ \E o \in Orders : CancelOrder(o)
       \/ \E i \in Items, o \in Orders : Reopen(i, o)
    /\ \A o \in WapOrders : till[o].status # "none" => Attempting(o)' \subseteq Attempting(o)
    /\ UNCHANGED syncVars

TillStep(o) ==
    \/ Queue(o) \/ Inquire(o) \/ SendAgain(o)
    \/ \E r \in Requests : Send(r, o)
    \/ \E status \in {"unknown", "syncing"} : GiveUp(o, status)

HandlerStep(r) ==
    \/ Prepare(r) \/ BeginSync(r) \/ SyncLookup(r) \/ SyncSell(r) \/ SyncRefused(r)
    \/ Acknowledge(r) \/ Reconcile(r) \/ HandlerDies(r)
    \/ \E state \in {"rejected", "quarantined"} : TurnAway(r, state)
    \/ \E state \in {"needs_review", "unknown"} : Fail(r, state)

ManagerStep(o) == LookToReject(o) \/ Reject(o) \/ Purge(o)

SyncNext ==
    \/ OnlineStep
    \/ \E o \in WapOrders : TillStep(o) \/ ManagerStep(o)
    \/ \E r \in Requests : HandlerStep(r)

SyncSpec == SyncInit /\ [][SyncNext]_<<vars, syncVars>>

--------------------------------------------------------------------------------
(* Properties *)

\* The rows have their types; a handler sells for the order it was sent with, and the till
\* waits for the handler of its order or for one that has ended.
SyncTypeOK ==
    /\ TypeOK
    /\ \A o \in WapOrders :
        /\ till[o].status \in Statuses \ {"purged"}
        /\ till[o].waits \in Requests \cup {Idle}
        /\ operation[o].status \in Statuses
        /\ operation[o].replays \in 0..MaxReplays
        /\ desk[o] = Idle \/ desk[o].status \in {"unknown", "needs_review", "quarantined"}
    /\ \A r \in Requests : InSync(r, "selling") =>
            request[r] # Idle /\ request[r].order = handler[r].order

\* An order that the till calls reconciled, or the server acknowledged, is sold.
SettledIsSold == \A o \in WapOrders :
    /\ till[o].status = "reconciled" => o \in paid
    /\ operation[o].status \in {"server_acknowledged", "reconciled", "purged"} => o \in paid

\* Cash in the drawer and sale in the books: settled orders are sold, and an order that was
\* sold is not called refused, unless an attempt to sell it was cut off or ran beside
\* another, it was refused before its sale was looked for, or its session was sold as a
\* table's, which hides the sale.
SoldAtTable == {o \in paid : session[order[o].session].sale = "table"}
CalledRefused(o) == {till[o].status, operation[o].status} \cap (Final \ {"reconciled"}) # {}
SettledAsSold ==
    /\ SettledIsSold
    /\ \A o \in paid \ (broken \cup contended \cup turnedAway \cup SoldAtTable) :
            ~CalledRefused(o)

\* A reconciled operation is only ever purged, and a purged one only sent again, unless two
\* handlers have it at once: the marks are made without looking at what they replace.
ReconciledStays == [][\A o \in WapOrders :
    operation[o].status \in {"reconciled", "purged"} /\ operation'[o].status # operation[o].status =>
        \/ operation'[o].status = IF operation[o].status = "reconciled" THEN "purged" ELSE "syncing"
        \/ o \in contended']_<<vars, syncVars>>
================================================================================
