---------------------------- MODULE RefundOperation ----------------------------
(***************************************************************************)
(* The refund workflow of one sale (services/refund_service.py).           *)
(*                                                                         *)
(* A quote fixes which original payments a refund is taken from.  Executing *)
(* it creates an operation with one leg per payment: provider legs are     *)
(* requested at once, cash legs wait for the operator.  Replies, inquiries, *)
(* retries and webhooks move the legs; when every leg has succeeded the    *)
(* operation is finalized in one transaction that writes the negative      *)
(* payments, the sale and the shift totals.  Every handler is one database *)
(* transaction that locks the rows it writes, so each is one action; what  *)
(* the provider did is outside and survives a rollback.                    *)
(*                                                                         *)
(* A sale line costs one unit, so that the quantity checks of the code and *)
(* its amount checks coincide.  Optimistic operation versions and audit    *)
(* keys only refuse or replay a request without a state change; an action  *)
(* is the request that is not refused.                                     *)
(***************************************************************************)
EXTENDS Naturals, FiniteSets, Functions

CONSTANTS
    Quotes,         \* refund quotes; an operation has the id of its (unique) quote
    Payments,       \* the positive payments of the sale
    Cash,           \* those paid in cash; the others went through a provider
    Total,          \* SaleOrder.total_amount
    Amount,         \* [Payments -> Nat \ {0}]
    Rank,           \* [Payments -> Nat], the order of paid_at
    Scenarios,      \* provider behaviours an operation may meet
    MaxShifts,      \* bound: shifts of the cashier
    MaxOthers,      \* bound: the cashier's other sales, of one unit each
    MaxAttempts     \* bound: provider calls of one leg

ASSUME FiniteAssumption == IsFiniteSet(Quotes) /\ IsFiniteSet(Payments)
ASSUME CashAssumption == Cash \subseteq Payments
ASSUME TotalAssumption == Total \in Nat \ {0}
ASSUME AmountAssumption == Amount \in [Payments -> Nat \ {0}]
ASSUME RankAssumption == Rank \in [Payments -> Nat]
ASSUME ScenarioAssumption ==
    Scenarios \subseteq {"succeeded", "failed", "processing_then_succeeded",
                         "unknown_then_succeeded", "unknown_persistent"}
ASSUME BoundAssumption == MaxShifts \in Nat \ {0} /\ MaxOthers \in Nat /\ MaxAttempts \in Nat

ProviderState == {"processing", "unknown", "failed", "succeeded"}
LegStatus == {"none", "cash_due"} \cup ProviderState
OperationStatus ==
    {"none", "processing", "cash_due", "unknown", "failed", "needs_reconciliation",
     "tax_pending", "completed"}

\* BLOCKING_SHIFT_STATES; "requested" and "succeeded" never outlive a transaction.
Blocking == {"processing", "cash_due", "unknown", "needs_reconciliation", "tax_pending"}

VARIABLES
    refunded,       \* SaleOrder.refund_amount
    version,        \* SaleOrder.row_version
    quote,          \* the refund quotes
    status,         \* RefundOperation.status
    finalized,      \* operations with finalized_at set
    scenario,       \* RefundOperation.provider_scenario
    leg,            \* RefundPaymentLeg.status
    attempts,       \* RefundPaymentLeg.attempt_count
    lastSeq,        \* RefundPaymentLeg.last_event_sequence
    negative,       \* negative Payment rows, <<operation, original payment>>
    shift,          \* number of the cashier's latest shift
    shiftOpen,      \* whether it is open
    shiftSales,     \* CashierShift.total_sales of each shift
    others,         \* what the cashier's other sales of each shift brought in
    paid,           \* the requests <<operation, payment, attempt>> the provider has paid
    outstanding,    \* those it has accepted and not settled
    events          \* the webhooks it has emitted

saleVars == <<refunded, version, negative, finalized>>
shiftVars == <<shift, shiftOpen, shiftSales, others>>
providerVars == <<paid, outstanding, events>>
operationVars == <<status, scenario, leg, attempts, lastSeq>>
vars == <<saleVars, quote, operationVars, shiftVars, providerVars>>

NoQuote == [state |-> "none", order_version |-> 0, total |-> 0, shift |-> 0,
            alloc |-> [p \in Payments |-> 0]]

\* The shift the sale of this model was made in.
SaleShift == 1

Init ==
    /\ refunded = 0
    /\ version = 1
    /\ quote = [q \in Quotes |-> NoQuote]
    /\ status = [q \in Quotes |-> "none"]
    /\ finalized = {}
    /\ scenario = [q \in Quotes |-> "none"]
    /\ leg = [q \in Quotes |-> [p \in Payments |-> "none"]]
    /\ attempts = [q \in Quotes |-> [p \in Payments |-> 0]]
    /\ lastSeq = [q \in Quotes |-> [p \in Payments |-> 0]]
    /\ negative = {}
    /\ shift = 1
    /\ shiftOpen = TRUE
    /\ shiftSales = [s \in 1..MaxShifts |-> IF s = SaleShift THEN Total ELSE 0]
    /\ others = [s \in 1..MaxShifts |-> 0]
    /\ paid = {}
    /\ outstanding = {}
    /\ events = {}

--------------------------------------------------------------------------------
(* Quotes *)

Allocated(Q, p) == SumFunctionOnSet([q \in Quotes |-> quote[q].alloc[p]], Q)

\* The negative payments already written, and the legs of the operations in flight.
Refunded(p) == Allocated({q \in Quotes : <<q, p>> \in negative}, p)
Reserved(p) == Allocated({q \in Quotes : status[q] \in Blocking}, p)

Available(p) ==
    LET used == Refunded(p) + Reserved(p)
    IN  IF used >= Amount[p] THEN 0 ELSE Amount[p] - used

\* The total is taken from the payments in the order they were made.
Allocates(alloc, total) ==
    /\ \A p \in Payments : alloc[p] <= Available(p)
    /\ \A p, r \in Payments :
          Rank[p] < Rank[r] /\ alloc[r] > 0 => alloc[p] = Available(p)
    /\ SumFunctionOnSet(alloc, Payments) = total

\* create_quote: locks the sale, reads balance, payments and reservations under the lock.
CreateQuote(q) ==
    /\ quote[q].state = "none"
    /\ shiftOpen
    /\ \E total \in 1..(Total - refunded), alloc \in [Payments -> 0..Total] :
          /\ Allocates(alloc, total)
          /\ quote' = [quote EXCEPT ![q] =
                [state |-> "active", order_version |-> version, total |-> total,
                 shift |-> shift, alloc |-> alloc]]
    /\ UNCHANGED <<saleVars, operationVars, shiftVars, providerVars>>

--------------------------------------------------------------------------------
(* The provider *)

\* SandboxRefundAdapter.result
Result(s, attempt, inquiry) ==
    CASE s = "succeeded" -> "succeeded"
      [] s = "failed" -> IF attempt <= 1 /\ ~inquiry THEN "failed" ELSE "succeeded"
      [] s = "processing_then_succeeded" -> IF inquiry THEN "succeeded" ELSE "processing"
      [] s = "unknown_then_succeeded" -> IF inquiry THEN "succeeded" ELSE "unknown"
      [] s = "unknown_persistent" -> "unknown"

\* The provider numbers the webhooks of a leg.
Webhook(q, p, state) ==
    [op |-> q, pay |-> p, state |-> state,
     seq |-> Cardinality({e \in events : e.op = q /\ e.pay = p}) + 1]

\* _call_provider for the legs P of an operation: the adapter's answers.
Reply(q, s, P, inquiry) ==
    [p \in P |-> Result(s, attempts[q][p] + 1, inquiry)]

CanCall(q, P) == \A p \in P : attempts[q][p] < MaxAttempts

\* A refund request.  The provider pays, declines or keeps it open, and announces what it
\* knows with a webhook unless its reply got lost ("unknown").  A request id is built
\* from the leg and the attempt: the provider executes each id once.
ProviderRequested(q, P, reply) ==
    LET Request(p) == <<q, p, attempts[q][p] + 1>>
        new == {p \in P : Request(p) \notin paid}
        In(states) == {p \in new : reply[p] \in states}
    IN  /\ paid' = paid \cup {Request(p) : p \in In({"succeeded"})}
        /\ outstanding' =
              outstanding \cup {Request(p) : p \in In({"processing", "unknown"})}
        /\ events' = events \cup
              {Webhook(q, p, reply[p]) : p \in In({"processing", "failed", "succeeded"})}

\* An inquiry: a success it reports is an open request that has been paid by now.
ProviderInquired(q, P, reply) ==
    LET settled == {r \in outstanding :
                       r[1] = q /\ r[2] \in P /\ reply[r[2]] = "succeeded"}
    IN  /\ paid' = paid \cup settled
        /\ outstanding' = outstanding \ settled
        /\ events' = events \cup {Webhook(q, r[2], "succeeded") : r \in settled}

\* The provider settles an open request on its own.
ProviderSettles(r) ==
    /\ r \in outstanding
    /\ paid' = paid \cup {r}
    /\ outstanding' = outstanding \ {r}
    /\ events' = events \cup {Webhook(r[1], r[2], "succeeded")}
    /\ UNCHANGED <<saleVars, quote, operationVars, shiftVars>>

--------------------------------------------------------------------------------
(* Settling an operation: _derive_and_finalize and _finalize *)

Legs(q) == {p \in Payments : quote[q].alloc[p] > 0}
States(q, legs) == {legs[p] : p \in Legs(q)}

\* Bug variant: any declined leg makes the operation failed.
DerivedFailedFirst(S) ==
    CASE "unknown" \in S -> IF "succeeded" \in S THEN "needs_reconciliation" ELSE "unknown"
      [] "unknown" \notin S /\ "failed" \in S -> "failed"
      [] S \cap {"unknown", "failed"} = {} /\ "processing" \in S -> "processing"
      [] OTHER -> "cash_due"

\* The status chain of _derive_and_finalize, for legs that have not all succeeded.
Derived(S) ==
    CASE "unknown" \in S ->
            IF "succeeded" \in S THEN "needs_reconciliation" ELSE "unknown"
      [] "unknown" \notin S /\ "failed" \in S ->
            IF "succeeded" \in S THEN "needs_reconciliation" ELSE "failed"
      [] S \cap {"unknown", "failed"} = {} /\ "processing" \in S -> "processing"
      [] OTHER -> "cash_due"

AllSucceeded(q, legs) == States(q, legs) = {"succeeded"}

\* Bug variants: the balance is not rechecked under the lock; the shift is not.
CanFinalizeAnyAmount(q) == quote[q].shift = shift /\ shiftOpen
CanFinalizeAnyShift(q) == refunded < Total /\ refunded + quote[q].total <= Total

\* The checks of _finalize; failing one rolls the whole request back.
CanFinalize(q) ==
    /\ refunded < Total
    /\ refunded + quote[q].total <= Total
    /\ quote[q].shift = shift /\ shiftOpen

CanSettle(q, legs) == AllSucceeded(q, legs) /\ q \notin finalized => CanFinalize(q)

\* A shift with smaller takings than the refund is left at zero.
LessRefund(sales, total) == IF sales >= total THEN sales - total ELSE 0

\* Bug variant: the credit note step leaves the interim status of _finalize behind.
FinalizeLeavesSucceeded(q, v) ==
    /\ finalized' = finalized \cup {q}
    /\ refunded' = refunded + quote[q].total
    /\ version' = v + 1
    /\ negative' = negative \cup {<<q, p>> : p \in Legs(q)}
    /\ shiftSales' = [shiftSales EXCEPT ![shift] = LessRefund(@, quote[q].total)]
    /\ status' = [status EXCEPT ![q] = "succeeded"]

\* _finalize, in a transaction that has brought the sale to version v.
Finalize(q, v) ==
    /\ finalized' = finalized \cup {q}
    /\ refunded' = refunded + quote[q].total
    /\ version' = v + 1
    /\ negative' = negative \cup {<<q, p>> : p \in Legs(q)}
    /\ shiftSales' = [shiftSales EXCEPT ![shift] = LessRefund(@, quote[q].total)]
    \* _create_credit_note: "completed" without an issued document to correct or with
    \* the correction written, "tax_pending" while its feature is off
    /\ \E s \in {"completed", "tax_pending"} : status' = [status EXCEPT ![q] = s]

\* Bug variant: the finalized_at guard is missing, so a later event books it again.
SettleAgain(q, legs, v) ==
    /\ CanSettle(q, legs)
    /\ leg' = [leg EXCEPT ![q] = legs]
    /\ IF AllSucceeded(q, legs)
       THEN Finalize(q, v)
       ELSE /\ version' = v
            /\ UNCHANGED <<finalized, refunded, negative, shiftSales>>
            /\ status' = [status EXCEPT ![q] = Derived(States(q, legs))]

\* _derive_and_finalize with the legs of q changed to legs.
Settle(q, legs, v) ==
    /\ CanSettle(q, legs)
    /\ leg' = [leg EXCEPT ![q] = legs]
    /\ \/ /\ AllSucceeded(q, legs) /\ q \notin finalized
          /\ Finalize(q, v)
       \/ /\ version' = v
          /\ UNCHANGED <<finalized, refunded, negative, shiftSales>>
          /\ \/ AllSucceeded(q, legs) /\ q \in finalized /\ UNCHANGED status
             \/ /\ ~AllSucceeded(q, legs)
                /\ status' = [status EXCEPT ![q] = Derived(States(q, legs))]

Answered(q, reply) ==
    [p \in Payments |-> IF p \in DOMAIN reply THEN reply[p] ELSE leg[q][p]]

CountAttempts(q, P) ==
    attempts' = [attempts EXCEPT ![q] =
        [p \in Payments |-> IF p \in P THEN @[p] + 1 ELSE @[p]]]

--------------------------------------------------------------------------------
(* The handlers *)

ProviderLegs(q) == Legs(q) \ Cash
CashLegs(q) == Legs(q) \cap Cash
LegsIn(q, states) == {p \in ProviderLegs(q) : leg[q][p] \in states}
Executed(q) == status[q] # "none"

\* Bug variant: the row version of the sale is not compared.
ExecutableOnStaleSale(q) == quote[q].state = "active"

\* The sale has not changed since the quote; nothing looks at the shift again.
Executable(q) == quote[q].state = "active" /\ quote[q].order_version = version

OpenedLegs(q, reply) ==
    [p \in Payments |-> CASE p \in CashLegs(q) -> "cash_due"
                          [] p \in ProviderLegs(q) -> reply[p]
                          [] OTHER -> "none"]

Execute(q) ==
    /\ Executable(q)
    /\ CanCall(q, ProviderLegs(q))
    /\ quote' = [quote EXCEPT ![q].state = "consumed"]
    /\ CountAttempts(q, ProviderLegs(q))
    /\ \E s \in Scenarios :
          LET reply == Reply(q, s, ProviderLegs(q), FALSE)
          IN  /\ scenario' = [scenario EXCEPT ![q] = s]
              /\ ProviderRequested(q, ProviderLegs(q), reply)
              /\ Settle(q, OpenedLegs(q, reply), version + 1)
    /\ UNCHANGED <<lastSeq, shift, shiftOpen, others>>

\* The same request when _finalize raises: the operation and its legs are gone, the
\* provider has paid.  Attempt 0 stands for the requests of such vanished legs, whose
\* webhooks find no leg.
ExecuteRollsBack(q) ==
    /\ Executable(q)
    /\ CashLegs(q) = {} /\ "succeeded" \in Scenarios
    /\ ~CanFinalize(q)
    /\ paid' = paid \cup {<<q, p, 0>> : p \in ProviderLegs(q)}
    /\ UNCHANGED <<saleVars, quote, operationVars, shiftVars, outstanding, events>>

\* Cash leaves the drawer only after every provider leg has succeeded.
CashReady(q) ==
    /\ Executed(q) /\ status[q] # "completed"
    /\ CashLegs(q) # {}
    /\ \A p \in CashLegs(q) : leg[q][p] \in {"cash_due", "succeeded"}
    /\ \A p \in ProviderLegs(q) : leg[q][p] = "succeeded"

ConfirmCash(q) ==
    /\ CashReady(q)
    /\ Settle(q, [p \in Payments |-> IF p \in CashLegs(q) THEN "succeeded" ELSE leg[q][p]],
              version)
    /\ paid' = paid \cup {<<q, p, 1>> : p \in CashLegs(q)}
    /\ UNCHANGED <<quote, scenario, attempts, lastSeq, shift, shiftOpen, others,
                   outstanding, events>>

\* Calls the provider for the legs P and settles the operation with its answers; when
\* _finalize raises, the request leaves no trace except at the provider.
CallAndSettle(q, P, inquiry) ==
    LET reply == Reply(q, scenario[q], P, inquiry)
        legs == Answered(q, reply)
    IN  /\ CanCall(q, P)
        /\ IF inquiry THEN ProviderInquired(q, P, reply) ELSE ProviderRequested(q, P, reply)
        /\ \/ /\ Settle(q, legs, version)
              /\ CountAttempts(q, P)
              /\ UNCHANGED <<quote, scenario, lastSeq, shift, shiftOpen, others>>
           \/ /\ ~CanSettle(q, legs)
              /\ UNCHANGED <<saleVars, quote, operationVars, shiftVars>>

Inquire(q) ==
    LET queryable == LegsIn(q, {"processing", "unknown"})
    IN  /\ Executed(q) /\ queryable # {}
        /\ CallAndSettle(q, queryable, TRUE)

\* Bug variant: a leg whose result is unknown is requested again.
RetryableBlind(q) ==
    IF \E p \in Legs(q) : leg[q][p] = "succeeded"
    THEN {} ELSE LegsIn(q, {"failed", "unknown"})

\* An unknown result must be inquired first, a partial success is never retried.
Retryable(q) ==
    IF \E p \in Legs(q) : leg[q][p] \in {"unknown", "succeeded"}
    THEN {} ELSE LegsIn(q, {"failed"})

Retry(q) ==
    /\ Executed(q) /\ Retryable(q) # {}
    /\ CallAndSettle(q, Retryable(q), FALSE)

RetryTax(q) ==
    /\ q \in finalized /\ status[q] = "tax_pending"
    /\ \E s \in {"completed", "tax_pending"} : status' = [status EXCEPT ![q] = s]
    /\ UNCHANGED <<saleVars, quote, scenario, leg, attempts, lastSeq, shiftVars, providerVars>>

\* apply_webhook: an event is applied when its sequence is past the last applied one.
\* Events arrive late, in any order and more than once.
DeliverWebhook(e) ==
    /\ Executed(e.op)
    /\ e.seq > lastSeq[e.op][e.pay]
    /\ lastSeq' = [lastSeq EXCEPT ![e.op][e.pay] = e.seq]
    /\ Settle(e.op, [leg[e.op] EXCEPT ![e.pay] = e.state], version)
    /\ UNCHANGED <<quote, scenario, attempts, shift, shiftOpen, others, providerVars>>

--------------------------------------------------------------------------------
(* The shift (sale_service.py) *)

\* create_sale adds to the shift it holds the row of.
SellAnother ==
    /\ shiftOpen
    /\ SumFunctionOnSet(others, 1..MaxShifts) < MaxOthers
    /\ shiftSales' = [shiftSales EXCEPT ![shift] = @ + 1]
    /\ others' = [others EXCEPT ![shift] = @ + 1]
    /\ UNCHANGED <<saleVars, quote, operationVars, shift, shiftOpen, providerVars>>

\* What was sold in a shift.
Sold(s) == others[s] + (IF s = SaleShift THEN Total ELSE 0)

\* pending_refunds of _build_shift_summary blocks the close.  The close recomputes the
\* total from the shift's own sales and what was given back of them, in whatever shift.
CloseShift ==
    /\ shiftOpen
    /\ \A q \in Quotes : quote[q].shift = shift => status[q] \notin Blocking
    /\ shiftOpen' = FALSE
    /\ shiftSales' = [shiftSales EXCEPT ![shift] =
                         Sold(shift) - (IF shift = SaleShift THEN refunded ELSE 0)]
    /\ UNCHANGED <<saleVars, quote, operationVars, shift, others, providerVars>>

OpenShift ==
    /\ ~shiftOpen /\ shift < MaxShifts
    /\ shift' = shift + 1
    /\ shiftOpen' = TRUE
    /\ UNCHANGED <<saleVars, quote, operationVars, shiftSales, others, providerVars>>

Next ==
    \/ \E q \in Quotes :
          \/ CreateQuote(q) \/ Execute(q) \/ ExecuteRollsBack(q) \/ ConfirmCash(q)
          \/ Inquire(q) \/ Retry(q) \/ RetryTax(q)
    \/ \E r \in outstanding : ProviderSettles(r)
    \/ \E e \in events : DeliverWebhook(e)
    \/ SellAnother \/ CloseShift \/ OpenShift

Spec == Init /\ [][Next]_vars

--------------------------------------------------------------------------------
(* Properties *)

\* Type invariant of the workflow's rows and of what the provider has seen.
TypeOK ==
    /\ refunded \in Nat /\ version \in Nat
    /\ quote \in [Quotes -> [state : {"none", "active", "consumed"}, order_version : Nat,
                             total : Nat, shift : Nat, alloc : [Payments -> Nat]]]
    /\ status \in [Quotes -> OperationStatus]
    /\ finalized \subseteq Quotes
    /\ scenario \in [Quotes -> Scenarios \cup {"none"}]
    /\ leg \in [Quotes -> [Payments -> LegStatus]]
    /\ attempts \in [Quotes -> [Payments -> Nat]]
    /\ lastSeq \in [Quotes -> [Payments -> Nat]]
    /\ negative \subseteq Quotes \X Payments
    /\ shift \in 1..MaxShifts /\ shiftOpen \in BOOLEAN
    /\ shiftSales \in [1..MaxShifts -> Nat] /\ others \in [1..MaxShifts -> Nat]
    /\ paid \subseteq Quotes \X Payments \X Nat
    /\ outstanding \subseteq Quotes \X Payments \X Nat
    /\ events \subseteq
          [op : Quotes, pay : Payments, state : ProviderState, seq : Nat]

\* Whatever quotes, retries and webhooks interleave, a sale never gives back more than it
\* took, and its refund amount, the negative payments and the running total of the open
\* shift tell the same story: _finalize writes all three or none, and once per operation,
\* whatever rollbacks and late events surround it.  The shift of the sale has lost exactly
\* the refunds quoted in it; a later one at most those, and no less than nothing, since
\* _finalize stops at zero when the takings of that shift are smaller.
QuotedBack(s) ==
    SumFunctionOnSet([q \in Quotes |-> quote[q].total], {q \in finalized : quote[q].shift = s})
LedgerMatchesSale ==
    /\ refunded <= Total
    /\ refunded = SumFunctionOnSet([p \in Payments |-> Refunded(p)], Payments)
    /\ shiftOpen =>
          /\ shiftSales[shift] <= Sold(shift)
          /\ Sold(shift) <= shiftSales[shift] + QuotedBack(shift)
          /\ shift = SaleShift => Sold(shift) = shiftSales[shift] + QuotedBack(shift)

\* The books and the provider: no refund is booked on a payment whose money has not left
\* (the provider has paid the leg, or the drawer has been opened for it), and a leg has one
\* open request at most, since an unknown result is inquired and never requested again.
RecordedRefundWasPaid ==
    \A row \in negative : \E r \in paid : r[1] = row[1] /\ r[2] = row[2] /\ r[3] > 0
OneRequestInFlight ==
    \A r1, r2 \in outstanding : r1[1] = r2[1] /\ r1[2] = r2[2] => r1 = r2
ProviderMatchesBooks == RecordedRefundWasPaid /\ OneRequestInFlight

\* Money the provider has paid, or the drawer has given, is in the books, or its operation
\* blocks the shift close and reserves its amounts, but for two cases: the operation can no
\* longer be booked, because its shift has closed or its balance is taken (the request
\* that paid was rolled back by _finalize), or a webhook was the last to speak of the leg
\* and declined it.  And a leg recorded as succeeded always blocks: a partial success is
\* never an ordinary failure, whatever retries, inquiries and late events come after it.
PaidIsVisible(q, p) ==
    \/ q \in finalized \/ status[q] \in Blocking
    \/ ~CanFinalize(q)
    \/ leg[q][p] = "failed" /\ lastSeq[q][p] > 0
PartialSuccessIsVisible ==
    /\ \A r \in paid : PaidIsVisible(r[1], r[2])
    /\ \A q \in Quotes \ finalized :
          (\E p \in Payments : leg[q][p] = "succeeded") => status[q] \in Blocking

\* The totals of a closed shift never change, however late an operation quoted in it is
\* executed, retried or announced by a webhook.
ClosedShiftUntouched ==
    [][\A s \in 1..MaxShifts :
          s # shift \/ ~shiftOpen => shiftSales'[s] = shiftSales[s]]_vars

\* As long as the provider declines nothing, the refunds in flight or in the books never
\* take more from a payment than it brought in: the sale version reserves the balance.
Committed(p) ==
    Allocated({q \in Quotes : q \in finalized \/ status[q] \in Blocking}, p)
UndeclinedRefundsFit ==
    (\A q \in Quotes : scenario[q] # "failed") =>
        \A p \in Payments : Committed(p) <= Amount[p]

\* The rule the code comment at refund_service.py:381-384 and WP46-PROVIDER-TAX-CONTRACT-01
\* state for every history: two refunds never use the same refundable balance.  It does
\* not hold: a failed operation reserves nothing, and its retry rechecks only the totals.
NoPaymentOverRefunded == \A p \in Payments : Refunded(p) <= Amount[p]

\* The rule of WP46-...-02-IMPLEMENTATION.md:41 and of smoke_wp46_refund_api.py:333: an
\* out-of-order webhook does not regress a completed refund.  It does not hold: only
\* webhooks move last_event_sequence, so the first attempt's event looks new after a
\* retry or an inquiry has completed the refund.
CompletedStaysCompleted ==
    [][\A q \in Quotes : status[q] = "completed" => status'[q] = "completed"]_vars

================================================================================
