# Verification of Foodchainservice

TLA+ models, TLC runs and TLAPS proofs for the backend of Foodchainservice, a
multi-business food and retail system (FastAPI, SQLAlchemy and PostgreSQL in
`src/backend/app`, a React/Dexie client in `src/frontend`). Paths below are
relative to the repository.

What the models are about: every request is one or a few PostgreSQL transactions
at READ COMMITTED. Correctness rests on row locks (`SELECT ... FOR UPDATE`),
advisory locks, unique indexes, idempotency keys, row versions, and on repairing
later what a crash between two transactions left undone. The unit tests drive one
request at a time. The models drive several, and let them stop, repeat and
overtake each other at the points where the code commits, waits or calls out.

## Inventory

| Component | State | Operations | Hard part | Correct when |
|---|---|---|---|---|
| Platform reference projection (`services/platform_reference_projection.py`, `reference_projector_worker.py`) | Platform rows, `reference_outbox` (claim, expiry, backoff), Restaurant rows, event ledger | enqueue, seed snapshots, claim a batch, read, apply, acknowledge, fail | three transactions per event, claims that expire under a live worker, several replicas, lost replies, crashes, foreign keys | nothing is acknowledged before it is applied, a stale row has an event to come, rows do not go back, every event is processed |
| Refund workflow (`services/refund_service.py`) | quotes, operations, payment legs, provider attempts, sale totals, negative payments, shift totals | quote, execute, confirm cash, inquire, retry, retry tax, webhook, finalize | money moves at a provider that a rollback cannot undo; webhooks late, twice, out of order | never more back than taken, books agree with each other and with the provider, partial success stays visible, closed shifts do not change |
| Checkout, void, shifts (`services/sale_service.py`, `routers/pos.py`) | orders, numbers, stock balance, shift totals, journal entries, handoffs | open, sell, post, void, close | lookup, sale and posting are separate; retries on several processes; close racing sales | one sale per client order id, totals and stock match the orders, closed shifts are complete and sealed |
| Hold drafts (`services/hold_draft_service.py`) | draft rows with version, claim and deadlines; audit keys | create, list, get, claim, resume, release, discard, update, reopen, convert | several counters, deadlines enforced by whoever reads, a list that writes without a lock | a cart is restored once, a version names one state, a closed shift leaves none behind |
| Stock balances (`services/stock_service.py`) | balance per product and location, movements, costs | record movement, adjust, reserve | unlocked availability check, first creation of a balance | balances match movements, never negative |
| Accounting (`services/accounting_service.py`) | journal entries and lines | post, reverse, report | numbering without a lock, failures swallowed by the caller | each source posted once |
| Shared kitchen (`services/shared_kitchen_service.py`) | lots with expiry, demands of branches, production orders, issue movements | receive, demand, plan, start, complete, cancel, reverse | several orders on one lot, a demand planned again after a cancellation, reversal after the goods have moved on | a demand is produced once, a lot holds what its movements say, reversal restores it |
| Transfers between branches (`services/transfer_service.py`, `distribution_service.py`) | documents with requested, approved, sent and received quantities; reservations; stock in transit | create, submit, approve, cancel, ship, receive in parts, close short | submit, approve and cancel read the document without a lock | goods are conserved, a reservation stands for an approved document |
| Dining and kitchen tickets (`services/dining_service.py`, `restaurant_cancellation_service.py`, `routers/restaurant.py`) | sessions, orders, items, tickets, cancellation events, waste, the session's sale | open, order, cook, serve, cancel, reopen, print, check out, close; paid orders of waiters | status read before the lock, checkout in two transactions without locks, a paid order in four | kitchen and bill agree, cancelled food is written off once, what is billed is what was served, a paid order is found again |
| Offline sync (`services/offline_sync_service.py`, `frontend/src/lib/restaurantOffline.ts`) | the till's queue, server operations, their events, authorizations | queue, send, give up, inquire, send again, prepare, mark, sell, refuse, reject by hand, purge | lost answers, repeats beside the handler that is still at it, marks written without a lock | what is called settled is sold, settled stays settled |
| Takeaway (`services/takeaway_service.py`, `routers/takeaway.py`) | shifts, orders with payments, tickets, credit account and top-ups, balances per place, central orders, batches, transfers | open, sell, order and pay later, refund, cook, hand out, credit, order supplies, produce, ship, receive, move by hand | shift and account read before the lock, two last dishes at once, routes that do not count | stock and credit are what documents say, a closed shift's cash is complete, an order is handed out when prepared |
| Shared reporting and operational handoffs (`services/shared_reporting_service.py`, `shared_reporting_worker.py`, `operational_handoff_service.py`) | a second outbox, handoff records | emit, claim, aggregate, retry | as the projection, with an aggregating consumer | each event counted once |
| Approvals, counts, purchasing, production, devices, billing, e-tax, users, HR, CRM, reports, migrations, frontend | see `PROJECT.json` | | | |

How they meet: a checkout locks the cashier's shift, moves stock, may convert a
hold draft, and posts to accounting afterwards. A shift close counts pending
drafts, pending refunds and missing postings and is refused while there are any;
a refund is finalized against the open shift and the sale's row. The projection
feeds the Restaurant database the companies, branches and users all of these
refer to. `SaleShift` has the close with its journal condition, `RefundOperation`
the close with its refund condition, `HoldDraft` the close with its draft
condition.

Three groups are composed in full. `OfflineSync` sells through the paid orders of
`Dining`: a till's handler calls the same function as a waiter's device, in the
same transactions. `SupplyChain` puts the shared kitchen, the transfers and the
stock desk on one balance. `Takeaway` puts the counter and the supply of a store
on one stock.

## Plan

Done, in this order: `ReferenceProjection` with proofs and, as its abstract
specification, `OutboxDelivery` with the refinement proved; `RefundOperation`;
`SaleShift`; `HoldDraft`; `SharedKitchen` and `TransferOrder` composed in
`SupplyChain`; `TakeawayCounter` and `TakeawaySupply` composed in `Takeaway`;
`Dining`, and `OfflineSync` on top of it; the proofs of every invariant and action
property of these. Left, most important first:

1. Proofs: abstract specifications of the remaining components, to be implemented
   as `OutboxDelivery` is (a drawer that takes cash once for `SaleShift`, a cart that
   is restored once for `HoldDraft`), with the refinement proved.
2. Shared reporting: the second outbox against `OutboxDelivery`, with the
   aggregate it feeds.
3. Stock counts and cutover, and approvals, on the balance of `SupplyChain`.
4. The lock circles under "Not modelled", as `SaleShift` does it for checkout and void.

## The modules

One action is one database transaction, or the part of a request between two
points where others can get in. A transaction that locks every row it bases its
decision on is one action, because row locks make it appear atomic; where a row is
read without a lock and used later, the read and the write are two actions.

### ReferenceProjection

`process_projection_batch` (lines 480-522) is a worker with a program counter:
`Claim` (`claim_outbox_batch`, `FOR UPDATE SKIP LOCKED`), then for each event
`Load` (Platform transaction), `Apply` or `RejectApply` (Restaurant transaction:
ledger insert, upsert, foreign key), `Ack` (`mark_outbox_processed`) or `Fail`
(`mark_outbox_failed`). `Write` is any Platform transaction that enqueues;
`SeedSnapshot` enqueues one event per row and version, whose uuid5 makes seeding
idempotent. `ClaimExpires` and `BackoffElapses` are time. Faults are an error in
any of the three transactions, a Restaurant commit whose reply is lost, and a
dead process. The content of a row is its version, since an event never carries
content. `overlapped` is a history variable: two different events of one row were
between read and upsert together.

### OutboxDelivery

The promise of the projection without workers, claims, transactions or faults: a
row changes together with an event about it (`Publish`), an event takes effect at
most once, with a version its row had and after the row it references
(`Deliver`), and is acknowledged afterwards. The refinement mapping of
`ImplementsDelivery` takes the Platform rows for `source`, the ledger for
`applied`, the processed outbox rows for `acked` and the Restaurant rows for
`copy`: claims, reads, failures, expiry and lost replies are stutters, and `Apply`
is the step that counts even if its reply is lost.

### RefundOperation

Rows of one sale: the quotes, the operation of each (its id is the quote's, which
is unique), a leg per original payment, the sale's refund amount and row version,
negative payments, and for each shift of the cashier its total (`shiftSales`) and
what else is sold in it (`others`). The sale was made in shift 1. `Settle` is
`_derive_and_finalize` (626-657), `Finalize` is `_finalize` (659-747) with
`_create_credit_note`. `Execute`, `ConfirmCash`, `Inquire`, `Retry`, `RetryTax`
and `DeliverWebhook` are the handlers; `ExecuteRollsBack` and the second branch of
`CallAndSettle` are requests whose finalization raises after the provider has been
called. The provider is external: its answers are those of
`SandboxRefundAdapter.result`, the requests it has paid or still has open outlive a
rollback, and its webhooks arrive late, repeatedly and in any order. Three
handlers write the total of a shift: a sale adds to it (`SellAnother`), `Finalize`
takes the refund out of the open shift, whichever shift the sale is of, but not
below zero (`LessRefund`, line 704), and `CloseShift` overwrites it with the
shift's own sales less what was given back of
them. A refund of an earlier shift's sale therefore takes out of a later shift at
most what it holds, and leaves no trace in either total after the close.

Abstracted: a sale line costs one unit, so quantity and amount checks coincide;
the 300 s life of a quote only disables `Execute`; audit keys and operation
versions only refuse or replay.

### SaleShift

`Look` is the router's lookup, `LockShift` the beginning of `create_sale` up to the
stock check, `Number` the order number under the advisory lock, `Insert` the insert
on conflict, `Commit` and `CommitFails` payments, stock movement and commit, `Post`
the accounting handoff. `void_sale` (1327-1461) reads the order before it locks
anything (`VoidRead`), locks the operator's shift (`VoidLock`) and the balance
(`VoidStock`), and then updates the shift of the sale and commits (`VoidCommit`).
Processes matter because the key of the advisory lock is Python's salted `hash()`
(1315): handlers of two processes do not exclude each other, and the unique order
number decides.

Locks are modelled because requests wait for them while they hold others:
`WaitsFor(h)` is whose transactions have to end before `h` goes on, with the rows of
the shifts, the numbering lock, the unique keys of an order under way and the
balance. `Stuck` handlers wait in a circle, and `Deadlock` is PostgreSQL failing one
of them. A void makes such circles: with a checkout of the sale's cashier, or with
a void of a sale of its own operator's shift by that cashier.

Abstracted: one company, one branch, one day, one product with a balance row, a
unit per sale; a sale is free or paid in settled cash. Only free sales can be
voided in the model since no code settles the other payment states. A free sale
changes its shift's void count and takes zero off its total, so that the update is a
lock here and no change. The service
is the Restaurant's: the journal condition of the close applies
(`include_journal`).

### HoldDraft

A request names the version its counter has read, and every handler but `list`
locks the row and refuses another version, so an action is a request naming the
current version. Deadlines are written by whoever meets them (`Get`,
`ClaimExpires`, `ListWrite`), under audit keys that are unique, so two handlers
cannot expire the same version in the same way. `ListRead`/`ListWrite`,
`ResumeChecks`/`Resume` and `ReopenRead`/`ReopenCreate` are the three handlers
that take two steps. `CloseShift` counts pending drafts as
`count_pending_for_shift` (1191-1209) does.

Abstracted: counter carts only (a table adds a refusal), content, prices and
stock (a refusal), draft numbers. Audit keys that no list under way can meet again
are forgotten; the claim id is left out because it changes with the version.

### Dining and OfflineSync

A session holds orders, an order items, an item has one kitchen ticket. Handlers
of `Dining` read before they lock, and a row that a database session has read
once keeps its values whatever is locked later; so `Look...` keeps in `request`
what was read, and the write (`PlaceOrder`, `UpdateTicket`, `UpdateItem`,
`MarkServed`, `CancelItem`, `PayBill`) uses it. `Written` is SQLAlchemy's unit of
work: a column is written only if its new value differs from the one that was
read. `CancelOrder` and `Reopen` read behind their lock and are one step.
`PayBill` and `CloseSold` are the two transactions of `checkout_session`; the
waiter's paid order takes four (`WapOpen`, `WapPlace`, `WapPay`, `WapLink`), and
`Abort` is a refusal or a crash after any of them. History variables name the
conditions under which a promise is kept: `overwritten` (a handler wrote over a
change it had not read), `overtaken` (an item ordered or cancelled while its
session is checked out), `broken` (an attempt cut off, or two beside each other).

`OfflineSync` extends `Dining`. A till has a row per order and waits for one
answer at a time (`Queue`, `Send`, `GiveUp`, `Inquire`, `SendAgain`); the
server's handler registers the operation behind its lock (`Prepare`), marks it
(`BeginSync`), sells it with the steps of `Dining` (`SyncLookup`, `SyncSell`),
and marks it twice more (`Acknowledge`, `Reconcile`). A sale is found again through
the session linked to it, and only if an order stands in that session
(`AfterLink`): a repeat of an order that was cut off may be linked to an empty one,
and is refused. A mark is written from the
copy the handler has, without a lock, and its event has a unique key.
`HandlerDies` is a crash anywhere; the till learns nothing. A manager may reject
an operation from a copy (`LookToReject`, `Reject`); retention purges it.

Abstracted: stations, prices, tables and queue numbers only refuse; acknowledging
a cancellation at the kitchen display is left out; slip times, encryption,
sequence numbers and payload mismatches of the queue are left out because an
honest till sends the payload it stored; a refusal's two events are one; the
removal of old local rows is left out.

### SharedKitchen, TransferOrder, SupplyChain

Operations of the kitchen take an advisory lock for their key and lock what they
change at their first read, so each is one action. `Allocation` is
`plan_fifo_allocations`: what each lot gives, first expired first out. In
`TransferOrder`, `Ship` and `ReceiveGoods` lock the document first; `Submit`,
`Approve` and `Cancel` write from a copy that `Look` has read (`raced` notes a
write over another status). `SupplyChain` instantiates both on one balance
(`onHand`, `reserved`) and adds the stock desk (`Adjust`, `MoveByHand`), which
asks only that the balance stays at or above zero.

Abstracted: one brand and product, one recipe whose planned quantities decide
nothing, costs, units, waste records; one item per transfer. The routes of
`distribution_service.py` create and approve a transfer as the same user, which
`approve_to` refuses, so at this commit they change nothing.

### TakeawayCounter, TakeawaySupply, Takeaway

`TakeawayCounter` has shifts, sales at the counter, orders placed first and paid
later (`CapturePayment`), tickets, the hand-out, refunds and the store's credit.
`LookToOpen`, `LookToOrder`, `LookToEnter` and `LookToFinish` are what handlers
read before they lock, the last because a transaction does not see the tickets
others are about to finish. `TakeawaySupply` has orders to the central kitchen,
batches, transfers and movements by hand; only `LookToResolve`/`Resolve` take two
steps. `Takeaway` composes them on `stock` and states the properties.

Abstracted: a dish costs one, is one ticket and one unit of stock; a document has
one line; payments that are neither cash nor credit move no balance; catalogue,
recipes, replenishment, receipts, tokens, import and reports are left out.

## Runs

| Run | Shows | Instance and why it is enough |
|---|---|---|
| `ReferenceProjection` | safety and eventual processing of the outbox, and that it implements `OutboxDelivery` | 2 workers, 2 rows linked by a foreign key, 3 events, 2 versions, batches of 2, 1 fault. Two workers on two events of one row, an expired claim with a third event behind it, a child delivered before its parent, and snapshot and write events of one version all occur. |
| `ReferenceProjectionParity` | a drained outbox does not imply equal databases (finding) | the same without faults |
| `RefundOperation` | the refund invariants | 2 operations over visa, card and cash, amounts 1, every provider scenario, 2 shifts, 1 other sale, 2 provider calls per leg: mixed legs, partial success, retry after decline, a close between quote and execution, a refund in a later shift that holds less than it, or as much |
| `RefundOverRefunded`, `RefundLateWebhook` | two promises that fail (findings) | the same |
| `SaleShift` | checkout and shift invariants, which requests wait in a circle, and that every request ends | 2 handlers in 2 processes, 3 sales (two free, of both cashiers), 2 units of stock, 2 shifts of one cashier and 1 of the other, 1 fault; both handlers serve voids: repeated requests, both processes numbering, the last unit, a crash between sale and posting, two voids of each other's sales, a void and a checkout of the sale's cashier |
| `SaleShiftDoubleVoid` | two void requests of one order both return its stock (finding) | one free sale, both handlers serve voids |
| `HoldDraft` | draft invariants | 2 cashiers at 2 counters, a draft claimed twice and one reopened from it, one shift each. The cashiers are symmetric. States after a list has written over a row are not explored, because no property promises anything of them. |
| `HoldDraftListRace` | a cart restored twice (finding) | one draft |
| `SupplyChain` | demands are produced once, material and goods are conserved, reservations stand for approved transfers | 2 lots of one ingredient, 1 demand, 2 orders, 2 transfers, quantities up to 2, 2 requests, 1 movement by hand: a demand cancelled and planned again, two orders on one lot, a reversal of shipped goods, two transfers for the same pieces, partial and short receipts |
| `Takeaway` | stock, credit, cash of a closed shift and hand-out agree with the documents | orders of 2 dishes and of 1, 2 shifts on 1 or 2 dates, 2 requests, 1 top-up, 2 credit entries, 1 central order, batch and transfer, quantities up to 2: an order paid after its shift has closed, two last dishes at once, a refund with dishes in the kitchen, a shipment of nothing |
| `Dining` | kitchen, waste, bill and paid orders agree at a table, for a waiter and behind an offline till | 2 sessions, orders of 2 dishes, of 1 and a paid one, 2 handlers, versions up to 3 (1 for the late or reopened order), 1 replay: a ticket read before a cancellation, a second checkout, an order that arrives during one, a paid order cut off and repeated, a till that gives up while its handler goes on |

Four instances are explored in parts, each a state constraint of its MC module;
the proofs below have no such limit.

- `MCSaleShift`: two voids of different orders (of one order they are the run
  `SaleShiftDoubleVoid`), and after a fault or in a second shift one handler that
  serves voids (`VoidsApart`).
- `MCDining`: one table or pickup session with the plain orders
  (`TableService`), the waiter's paid order with the sessions of its attempts
  (`WaiterService`), and the till's order, which is not cooked (`TillService`).
  In the till's part there is one online attempt beside the handlers, a manager
  acts beside at most one handler, a refusal before the lookup is not combined
  with crossed attempts, one of the two handlers has registered, and a till that
  waits has its row at `syncing`.
- `MCSupplyChain`: two deliveries and two orders beside one transfer of one piece
  (`KitchenInFocus`), and the goods of one order beside two transfers and the stock
  desk (`ShippingInFocus`).
- `MCTakeaway`: shifts and unpaid orders, the kitchen, credit, and each kind of
  supply document, all with the sale of an order (`Shifting`, `Cooking`,
  `Crediting`, `Supplying`).

`CHECK_DEADLOCK` is off everywhere because the bounded systems stop when their
bounds are used up: no versions, quotes, sales or shifts are left. Bounds appear
only as guards of the actions that consume them: new work (`MaxEvents`,
`MaxVersion`, `MaxShifts`, `MaxOthers`, `Fresh`), provider calls (`MaxAttempts`),
replays of an operation (`MaxReplays`), quantities (`MaxQty`, `MaxQuantity`, `MaxStock`),
movements and entries by hand (`MaxByHand`, `MaxEntries`) and faults (`MaxFaults`).
Work under way is never cut short by a bound, except that a leg with `MaxAttempts`
calls is asked no further, an order at its last version is left as it is, and a
till's operation is not replayed again.

Fairness. `ReferenceProjection` has weak fairness of each worker's next step and of
the expiry of a claim and of a backoff: `run_reference_projector` polls until
shutdown, and time passes. Writes, seeding and faults are not forced.
`SaleShift` has strong fairness of a handler's next step: a lock can be taken by
others again and again while it waits, but PostgreSQL queues waiters, so a handler
that is enabled again and again is served. It has weak fairness of `Deadlock`: a
waiter looks for a circle after `deadlock_timeout`, and is failed when it is in one.
The other specifications have none and state no liveness.

Five runs end in a violation. Each checks one statement of a doc, comment or test
against the code; `PROJECT.json` "findings" quotes the statement and tells the
story of the counterexample. The passing runs state what does hold, with the
condition under which it does: no declined provider (`UndeclinedRefundsFit`), one
void of an order at a time (`SaleShift`), and elsewhere a history variable: `overlapped` (two
events of a row in flight together), `overwritten` (a handler wrote over a changed
row), `raced`, `crossed`, `overlooked`, `lost`, `overtaken`, `broken`, `contended`.
A history variable restricts nothing: the steps that break the plain promise set it,
and the property says that no other step breaks it.

Every property of a passing run has a mutant: a variant of a definition with a
plausible mistake (`Bug variant` in the modules), under which the run fails.

## Proofs

Every invariant and action property of the passing runs is proved, for every
value of the constants that the assumptions of its module admit (`TypeOK` and
the others by name in `PROJECT.json` "theorems"). The assumptions are: what is
summed is finite (quotes, payments, sales, lots, orders, dishes, shifts,
documents), bounds and amounts are natural numbers (positive where a row starts
at one or a payment cannot be empty), functions such as `OrderOf` or `Owner` have
their domain, and a value that stands for "none" (`NoParent`, `NoSale`, `NoDraft`,
`NoDemand`, `NoSession`, `Idle`) is none of the values it is told from. TLC
evaluates them in every run. Nothing is assumed about the sizes of the instances
in "Runs", nor about their state constraints.

Each proof has the same shape: few of the properties are inductive, so a stronger
invariant is stated in named parts, shown to hold at first and to survive each
action, and the property is read off it. TLC checked the larger invariants on the
instances above before they were proved.

`Sums` is the lemmas about `SumFunctionOnSet` the other modules need: what a sum is
when an element joins the set or a value changes, and that a sum over those that
count is one over all with zero for the rest. The library states induction over
finite sets for an operator parameter, which the provers here cannot instantiate,
so `Sums` derives a first-order form of it, for a set of sets, from the theorem
that strict inclusion of finite sets is well founded.

`ReferenceProjectionProofs`:

- `TypeCorrect`: `Spec => []TypeOK`.
- `AckedImpliesApplied`: `Spec => []AckedIsApplied`. Inductive with "a worker that
  is about to acknowledge holds an event in the ledger".
- `Invariance`: the inductive invariant `IInv`. Staleness is not inductive as it
  stands: between read and upsert a worker carries a version that is neither on
  Platform nor in the Restaurant database. `IInv` adds `NothingFromTheFuture` (no
  read, event or copy is ahead of its row) and `CarriedReads`: workers that carry a
  row carry the same event, a read that is out of date has a second event behind
  it, and no read is older than the copy.
- `StaleRowsStayPending`, `NoRegression`: the invariant and the action property that
  follow.
- `SingleWorkerParity`: with one worker nothing ever overlaps, so a drained outbox
  means equal databases. `DrainedParity` fails with two workers and holds with one.
- `Refinement`, `Spec => ImplementsDelivery`: the initial states map to initial
  states, and every step to a step of the abstract queue or a stutter, under `IInv`
  and the fact that a worker that has read an event about a row has read a version
  the row had.

`RefundOperationProofs`: `TypeCorrect`, `LedgersMatchSales`, `BooksMatchProvider`,
`PartialSuccessesBlock`, `RefundsFitPayments`, `ClosedShiftsKeepTotals`. The
invariant has a side for the books (`BooksInv`: a quote is consumed by the
execution that makes its operation, the legs of an operation are those of its
quote, the negative payments are the legs of finalized operations, and while
nothing is declined the quotes of the sale's current version still fit) and one
for the provider (`ProviderInv`: every state of a leg and every webhook tells of a
request the provider has seen, and what is open is open once). Five handlers settle
an operation; `Settles` is what they have in common, and each part is shown to
survive it once. Version and quote are what make `UndeclinedRefundsFit` inductive:
an execution on a stale version is refused, so what a quote has seen is reserved.
`TakingsAgree` is the open shift's total: a refund takes out what it says while the
shift holds that much, which it does in the sale's own shift because a sale never
gives back more than it took; after that the clamp is at zero and a later sale starts
from there. `PartialSuccessIsVisible` speaks of money, so `PaidKnown` follows every
paid request to the state of its leg (`Shown`): what a rollback took away is an
operation that cannot be booked, and it stays one, because shifts do not reopen and
balances do not grow.

`SaleShiftProofs`: `TypeCorrect`, `ClosedShiftsAreSealed`,
`ClosedShiftsAreJournaled`, `TotalsFollowSales`, and `StockFollowsSales`, the last
under `OneVoider` (one handler serves voids; the run `SaleShift` has two, of
different orders at a time). Without a condition on voids it is refuted by the run
`SaleShiftDoubleVoid`. All rest on `LocksHold`: a handler
between the lock of a shift and its commit is alone with it, and the shift is
open and its cashier's latest. `OnlyVoidsMakeCircles` puts the locks in an order,
shift, numbering, keys, balance: who waits for one waits for somebody further on,
except a void that wants another cashier's shift.

`HoldDraftProofs`: `TypeCorrect`, `RestoredOnceUntilOverwritten`,
`ClosedShiftsLeaveNoDraft`, and `VersionsNameRows`, which no run checks. A list writes from notes
it has taken without a lock, so `NotesTrue` says what a note is worth while the row
has the version it names; `CountsFollow` that a cart was restored and sold as often
as the draft's status says; `LocksHold` that the row a counter is restoring stays
claimed by it. Every handler is shown to be a `Write`, and the invariant to follow
from that once.

`SupplyChainProofs`:

- `DemandIsFilledOnce`: `Spec => []DemandFilledOnce`. Inductive with "an order that
  does not exist holds no demand" (`DemandInv`).
- `QuantitiesAreKept`: `Spec => []QuantitiesFollowStatus`. A request writes from
  what it has read, so `TransferInv` ties each copy to its transfer: same
  quantities while the status is the one that was read, and `raced` otherwise.
- `TypeCorrect`, `LotsAreAccounted`, `GoodsAreConserved`, `ReservationsAreBacked`,
  from `StockInv`, which puts both parts on their one balance. `LotsInv` follows a
  lot through deliveries, completions and reversals; `AllocationFits` is that no lot
  gives more than it holds. `GoodsInv` has the inequality that stale requests leave and the
  equality while nobody raced. A cancellation releases what its copy says is
  approved, so `CopiesInv` says that such a copy is right while nobody raced.

`TakeawayProofs`:

- `HandedOutWhenPrepared`, `Spec => []ReadyWhenPrepared`. What a handler will do was
  settled when it counted the other dishes, so `IInv` adds what a count is worth at
  the commit (`CountsHold`), that two handlers of one order have it in `crossed`
  (`FinishedApart`), and how far an order of each status has come (`StatusBounds`).
- `TypeCorrect`, `GoodsAreDocumented`, `CreditIsOwed`,
  `ClosedShiftsExpectTheirCash`, from `StoreInv`. `SupplyInv` says which quantities a
  document of each status has, and `GoodsInv` that a place holds its sum over all
  documents; that sales count in it is `Counter!Cost`, a cardinality of dishes.
  `CreditInv` is the account with what entries wrote over (`lost`). `CashBounds`
  says that an unpaid order of a closed shift, and a sale under way that has read
  the shift open, were noted as overlooked by its close.

`OfflineSyncProofs`, first about `Dining`:

- `LinksAreSold`: a session is linked only to a paid order that was sold.
- `TicketsFollowItems`, `CancelledFoodIsWastedOnce`, `CancelledStaysCancelled`, all
  from `DiningInv`. `RowInv` says of an item no one wrote over that ticket, status,
  waste and the kitchen's beginning agree; `ReadInv` what a handler's copy is still
  worth. `RowStep` is what every action does to the rows, proved one action at a
  time.
- `BillsMatchTables`: `Spec => []BillMatchesTable`. A bill is read, paid and closed in
  three transactions, so `BillInv` says that what a handler holds, or has sold, is
  the table but for what came between, and `BillStep` that no action changes a table
  under checkout without noting it in `overtaken`. `BilledInv` counts the sales an
  item is on.
- `PaidOrdersAreInTheirSessions`: `Spec => []PaidOrderIsInItsSession`. A paid order
  takes four transactions, so `PaidInv` says of each of them what its attempt may
  rely on (`AttemptOk`), that a session opened for a paid order takes no other
  (`OwnSessions`), and that an order no attempt was cut off at has one at a time.
  `StandInv` says that a linked session has its order standing in it: an order that
  was not cut off is alone in its session, and has no ticket before its sale, so that
  nothing cancels it. `Calm` is what every other action leaves alone. `RowsTypeCorrect` is the type
  invariant, from the same invariant `TableInv`.

and then about `OfflineSync`:

- `OfflineSellsAsDining`: `SyncSpec => Spec`. Offline orders go through the steps of
  `Dining` and no others; with it `OfflineKeepsDining` carries the theorems above over
  to `SyncSpec`, under which the run checks them.
- `SettledMeansSold`: `SyncSpec => []SettledIsSold`, with what a handler at each step
  knows about its order (`HandlerInv`).
- `ReconciledIsKept`: `SyncSpec => ReconciledStays`, from `TurnInv`: an operation that
  is not contended has one handler, and its row is what that handler's step left.
- `SettledIsAsSold`: `SyncSpec => []SettledAsSold`. Its second half, that what is sold
  is not called refused, has to rule out a sale after a refusal as well as a refusal
  after a sale. `RefusalOk` says of an order nobody disputes that only its own
  handler is selling it, that what was refused or may have been (`Doubted`) was not
  sold, and that till and manager refuse what the operation refuses. `SyncTypeCorrect` is
  the type invariant, from the same invariant `ServiceInv`; a slot without a
  request is told from one that sells (`HandlersOwnTheirSlots`).

Model-checked only: `EveryEventIsProcessed` and `RequestsEnd`, since liveness under
fairness and ENABLED are out of the prover's reach, and the five properties that
are refuted. No module here declares a RECURSIVE operator; functions that TLC
computes recursively are the folds of the library, about which only `Sums` says
anything.

## Not modelled

`PROJECT.json` lists every component with the reason. In short: the components
of the plan above are still to come; document workflows without interacting
actors (purchasing, production, HR, CRM, reports), pure calculation (pricing),
adapters (billing, e-tax, payment gateway) and the user interface stay out. The
queues of retail and takeaway tills (`syncService.ts`, `takeawayOffline.ts`) repeat
the Restaurant till's against other services and are left out.

`PROJECT.json` lists the hazards of the modelled code. Those without a property
have a note with the reason: mostly that the model reaches them, but that what the
code then does is the case its properties except by name (`overwritten`,
`contended`, an operation that cannot be booked). For most of these no document,
comment or test promises anything else. For three of an offline order one does
(`broken`, `contended`, `turnedAway`): the note names it, and `SettledAsSold` or
`ReconciledStays` fails as soon as the exception is removed. Met while modelling, and outside every model:

- Lock circles: `apply_webhook` locks a leg and then its operation, the other refund
  handlers the operation and then its legs (`refund_service.py:547`); a checkout locks
  its shift and then the hold draft it converts, claim and resume the draft and then
  the shift; two opposite transfers lock the balances of both branches in the order of
  their documents (`transfer_service.py:222`); a checkout of several products locks
  their balances in the order of its lines (`sale_service.py:1160`). Only `SaleShift`
  models waiting, for one product and without drafts, and `CirclesAreVoids` claims
  nothing beyond that; elsewhere each handler is an action. PostgreSQL ends such a
  circle by failing one request, which rolls back.
- `void_sale` computes the sale's shift (`total_voids`, `total_sales`) from values it
  has read without a lock (`sale_service.py:1416`), so it can lose a change of another
  request. Of free sales only the void count can be lost, which the close counts
  again; it is left out. Sales with money cannot be voided, since card and transfer
  payments stay unknown (1156).
- Two first movements of a product both insert its balance and one fails
  (`stock_service.py:228`). The models start with the balance.
- Order numbers are counted per company and unique over all
  (`models/pos.py:215`); one company is modelled.
- A draft reassigned to another cashier is not counted by the close of either shift
  (`hold_draft_service.py:1198`). `HoldDraft` reassigns drafts, and
  `ClosedShiftHasNoDraft` excepts them (`reassigned`).
- A restored draft can be reopened while the first counter still holds its cart. No
  document says that it may not.
- A Takeaway store can open two shifts on different dates at once
  (`takeaway_service.py:420`). The run reaches it; no document says which shift a sale
  then belongs to.
- A reconciled operation that is purged, sent again and reconciled cannot be purged a
  second time, and fails its branch's whole purge (`offline_sync_service.py:421`).
  `Purge` has the guard; no document promises the purge.
- A movement's key of 160 characters holds a completion key of up to 120 and two
  uuids (`models/shared_kitchen.py:402`), so a long key makes a completion roll back.
  Lengths of strings are abstracted away.
