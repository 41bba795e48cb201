-------------------------- MODULE RefundOperationProofs --------------------------
(***************************************************************************)
(* Proofs about RefundOperation, for any sale, payments, quotes, provider  *)
(* behaviours and shifts: the books of a sale agree with each other, with  *)
(* the shift's takings and with the provider, a partial success blocks the *)
(* shift and money is unbooked in two cases only, a closed shift keeps its *)
(* totals, and while the provider declines nothing, no payment gives back  *)
(* more than it brought in.                                                *)
(*                                                                         *)
(* Five handlers settle an operation; Settles says what they have in       *)
(* common, and each invariant is shown to survive such a step once.        *)
(***************************************************************************)
EXTENDS RefundOperation, Sums

\* A quote is consumed by the execution that makes its operation.
QuotesKnown ==
    \A q \in Quotes :
        /\ quote[q].state = "consumed" <=> Executed(q)
        /\ quote[q].total = SumFunctionOnSet(quote[q].alloc, Payments)
        /\ quote[q].shift <= shift /\ quote[q].order_version <= version

\* An executed operation has its legs, and is declined only if the provider declines.
OperationsKnown ==
    \A q \in Quotes :
        /\ Executed(q) <=> scenario[q] # "none"
        /\ q \in finalized => Executed(q)
        /\ \A p \in Payments : leg[q][p] # "none" <=> p \in Legs(q) /\ Executed(q)
        /\ \A p \in Payments : leg[q][p] = "failed" => scenario[q] = "failed"
        /\ Executed(q) /\ scenario[q] # "failed" => q \in finalized \/ status[q] \in Blocking

\* What the provider knows of a leg: a request it has paid, or one it has accepted.
PaidFor(q, p) == \E r \in paid : r[1] = q /\ r[2] = p /\ r[3] > 0
Asked(q, p) == PaidFor(q, p) \/ \E r \in outstanding : r[1] = q /\ r[2] = p

\* Every state of a leg, and every webhook, tells of a request the provider has seen.
LegsTold ==
    \A q \in Quotes, p \in Payments :
        /\ leg[q][p] = "succeeded" => PaidFor(q, p)
        /\ leg[q][p] \in {"processing", "unknown"} => Asked(q, p)
EventTold(e) ==
    /\ Executed(e.op) /\ e.pay \in Legs(e.op)
    /\ e.state = "succeeded" => PaidFor(e.op, e.pay)
    /\ e.state \in {"processing", "unknown"} => Asked(e.op, e.pay) /\ scenario[e.op] # "failed"
    /\ e.state = "failed" => scenario[e.op] = "failed"
EventsTold == IsFiniteSet(events) /\ \A e \in events : EventTold(e)
RequestsOpen ==
    /\ \A r \in outstanding : /\ Executed(r[1]) /\ r[2] \in Legs(r[1]) /\ r[3] > 0
                              /\ scenario[r[1]] # "failed"
    /\ OneRequestInFlight

\* The negative payments are the legs of the operations in the books.
BooksKnown ==
    /\ negative = {row \in Quotes \X Payments : row[1] \in finalized /\ row[2] \in Legs(row[1])}
    /\ RecordedRefundWasPaid

\* The refund amount of the sale is what its booked quotes come to; the next shifts are new.
QuoteTotal == [q \in Quotes |-> quote[q].total]
LedgerKnown ==
    /\ refunded = SumFunctionOnSet(QuoteTotal, finalized)
    /\ \A s \in 1..MaxShifts : s > shift => shiftSales[s] = 0 /\ others[s] = 0

\* The part of PartialSuccessIsVisible that speaks of the legs alone.
PartialsBlock ==
    \A q \in Quotes \ finalized :
        (\E p \in Payments : leg[q][p] = "succeeded") => status[q] \in Blocking

\* While nothing is declined, the quotes of the sale's current version still fit.
Undeclined == \A q \in Quotes : scenario[q] # "failed"
FitsWithQuotes ==
    Undeclined => \A p \in Payments :
        /\ Committed(p) <= Amount[p]
        /\ \A q \in Quotes : Executable(q) => Committed(p) + quote[q].alloc[p] <= Amount[p]

QuoteRow == [state : {"none", "active", "consumed"}, order_version : Nat,
             total : Nat, shift : Nat, alloc : [Payments -> Nat]]

BooksTyped ==
    /\ refunded \in Nat /\ version \in Nat
    /\ quote \in [Quotes -> QuoteRow]
    /\ status \in [Quotes -> OperationStatus]
    /\ finalized \subseteq Quotes
    /\ scenario \in [Quotes -> Scenarios \cup {"none"}]
    /\ leg \in [Quotes -> [Payments -> LegStatus]]
    /\ negative \subseteq Quotes \X Payments
    /\ shift \in 1..MaxShifts /\ shiftOpen \in BOOLEAN
    /\ shiftSales \in [1..MaxShifts -> Nat] /\ others \in [1..MaxShifts -> Nat]

Calls == Quotes \X Payments \X Nat
Event == [op : Quotes, pay : Payments, state : ProviderState, seq : Nat]

CallsTyped ==
    /\ attempts \in [Quotes -> [Payments -> Nat]]
    /\ lastSeq \in [Quotes -> [Payments -> Nat]]
    /\ paid \subseteq Calls /\ outstanding \subseteq Calls /\ events \subseteq Event

\* The operations and the books; the provider.
BooksInv ==
    /\ BooksTyped /\ QuotesKnown /\ OperationsKnown
    /\ BooksKnown /\ LedgerKnown /\ LedgerMatchesSale /\ PartialsBlock /\ FitsWithQuotes
ProviderInv == CallsTyped /\ LegsTold /\ EventsTold /\ RequestsOpen
Inv == BooksInv /\ ProviderInv

--------------------------------------------------------------------------------
(* Operators of the model *)

LEMMA DerivedKinds ==
    ASSUME NEW S
    PROVE  /\ Derived(S) \in {"unknown", "failed", "needs_reconciliation", "processing", "cash_due"}
           /\ "succeeded" \in S \/ "failed" \notin S => Derived(S) # "failed"
  BY DEF Derived

LEMMA ResultKinds ==
    ASSUME NEW s \in Scenarios, NEW attempt \in Nat, NEW inquiry \in BOOLEAN
    PROVE  /\ Result(s, attempt, inquiry) \in ProviderState
           /\ s = "failed" => Result(s, attempt, inquiry) \in {"failed", "succeeded"}
           /\ s # "failed" => Result(s, attempt, inquiry) # "failed"
  BY ScenarioAssumption DEF Result, ProviderState

LEMMA WebhookTyped ==
    ASSUME IsFiniteSet(events), NEW q \in Quotes, NEW p \in Payments, NEW state \in ProviderState,
           NEW e, e = Webhook(q, p, state)
    PROVE  e \in Event /\ e.op = q /\ e.pay = p /\ e.state = state
<1>1. IsFiniteSet({f \in events : f.op = q /\ f.pay = p})
  BY FiniteSubset
<1>2. Cardinality({f \in events : f.op = q /\ f.pay = p}) + 1 \in Nat
  BY <1>1, FS_CardinalityType
<1> QED
  BY <1>2 DEF Webhook, Event

--------------------------------------------------------------------------------
(* The provider's side of a step *)

\* The terms of a quote never change.
TermsKept ==
    \A r \in Quotes :
        /\ quote'[r].alloc = quote[r].alloc /\ quote'[r].total = quote[r].total
        /\ quote'[r].shift = quote[r].shift /\ quote'[r].order_version = quote[r].order_version

\* What an executed operation has been promised stays.
OperationsStay ==
    \A r \in Quotes : Executed(r) => /\ Executed(r)' /\ scenario'[r] = scenario[r]
                                     /\ quote'[r].alloc = quote[r].alloc

\* The provider forgets nothing.
Remembers == paid \subseteq paid' /\ outstanding \subseteq outstanding' \cup paid'

LEMMA ToldStays ==
    ASSUME RequestsOpen, Remembers, NEW q, NEW p
    PROVE  (PaidFor(q, p) => PaidFor(q, p)') /\ (Asked(q, p) => Asked(q, p)')
  BY DEF RequestsOpen, Remembers, PaidFor, Asked

LEMMA EventStays ==
    ASSUME CallsTyped, RequestsOpen, Remembers, OperationsStay, NEW e \in events, EventTold(e)
    PROVE  EventTold(e)'
<1>1. e.op \in Quotes
  BY DEF CallsTyped, Event
<1>2. Executed(e.op)' /\ scenario'[e.op] = scenario[e.op] /\ (e.pay \in Legs(e.op))'
  BY <1>1 DEF OperationsStay, EventTold, Legs
<1> QED
  BY <1>2, ToldStays DEF EventTold

\* New webhooks, at most one for each payment of an operation, that tell the truth.
LEMMA EventsStay ==
    ASSUME CallsTyped, EventsTold, RequestsOpen, Remembers, OperationsStay, NEW q \in Quotes,
           NEW new, events' = events \cup new,
           \A e \in new : e \in Event /\ EventTold(e)',
           \E f : new \subseteq {f[p] : p \in Payments}
    PROVE  EventsTold' /\ events' \subseteq Event
<1>1. \A e \in events' : EventTold(e)'
  BY EventStays DEF EventsTold
<1>2. IsFiniteSet(events')
  <2>1. PICK f : new \subseteq {f[p] : p \in Payments}
    OBVIOUS
  <2>2. IsFiniteSet({f[p] : p \in Payments})
    BY ImageFinite, FiniteAssumption
  <2>3. IsFiniteSet(new)
    BY <2>1, <2>2, FiniteSubset
  <2> QED
    BY <2>3, FS_Union DEF EventsTold
<1> QED
  BY <1>1, <1>2 DEF EventsTold, CallsTyped

\* The request of q for p is open, and the only one.
LEMMA Requested ==
    ASSUME Inv, NEW q \in Quotes, NEW P \in SUBSET Legs(q), NEW reply \in [P -> ProviderState],
           ProviderRequested(q, P, reply), OperationsStay,
           Executed(q)', quote'[q].alloc = quote[q].alloc,
           \A p \in P : reply[p] = "failed" => scenario'[q] = "failed",
           \A p \in P : reply[p] \in {"processing", "unknown"} =>
               scenario'[q] # "failed" /\ \A r \in outstanding : r[1] # q
    PROVE  /\ Remembers /\ EventsTold' /\ RequestsOpen'
           /\ paid' \subseteq Calls /\ outstanding' \subseteq Calls /\ events' \subseteq Event
           /\ \A p \in P : reply[p] = "succeeded" => PaidFor(q, p)'
           /\ \A p \in P : reply[p] \in {"processing", "unknown"} => Asked(q, p)'
<1> DEFINE Request(p) == <<q, p, attempts[q][p] + 1>>
           New == {p \in P : Request(p) \notin paid}
           In(states) == {p \in New : reply[p] \in states}
           hook == [p \in Payments |-> Webhook(q, p, reply[p])]
           new == {hook[p] : p \in In({"processing", "failed", "succeeded"})}
<1>1. P \subseteq Payments /\ \A p \in P : attempts[q][p] + 1 \in Nat /\ attempts[q][p] + 1 > 0
  BY DEF Legs, Inv, ProviderInv, CallsTyped
<1>2. /\ paid' = paid \cup {Request(p) : p \in In({"succeeded"})}
      /\ outstanding' = outstanding \cup {Request(p) : p \in In({"processing", "unknown"})}
      /\ events' = events \cup new
  BY <1>1 DEF ProviderRequested
<1>3. Remembers
  BY <1>2 DEF Remembers
<1>4. paid' \subseteq Calls /\ outstanding' \subseteq Calls
  <2>1. \A p \in P : Request(p) \in Calls
    BY <1>1 DEF Calls
  <2> HIDE DEF Request
  <2> QED
    BY <1>2, <2>1 DEF Inv, ProviderInv, CallsTyped
<1>5. \A p \in P : reply[p] = "succeeded" => PaidFor(q, p)'
  <2> SUFFICES ASSUME NEW p \in P, reply[p] = "succeeded" PROVE Request(p) \in paid'
    BY <1>1 DEF PaidFor
  <2> QED
    BY <1>2
<1>6. \A p \in P : reply[p] \in {"processing", "unknown"} => Asked(q, p)'
  <2> SUFFICES ASSUME NEW p \in P, reply[p] \in {"processing", "unknown"}
               PROVE  Request(p) \in paid' \/ Request(p) \in outstanding'
    BY <1>1 DEF PaidFor, Asked
  <2> QED
    BY <1>2
<1>7. EventsTold' /\ events' \subseteq Event
  <2>1. ASSUME NEW e \in new PROVE e \in Event /\ EventTold(e)'
    <3>1. PICK p \in In({"processing", "failed", "succeeded"}) : e = hook[p]
      OBVIOUS
    <3>2. p \in P /\ p \in Payments /\ reply[p] \in ProviderState /\ e = Webhook(q, p, reply[p])
      BY <1>1, <3>1
    <3>3. e \in Event /\ e.op = q /\ e.pay = p /\ e.state = reply[p]
      BY <3>2, WebhookTyped DEF Inv, ProviderInv, EventsTold
    <3>4. (e.pay \in Legs(q))'
      BY <3>2, <3>3 DEF Legs
    <3> QED
      BY <1>5, <1>6, <3>2, <3>3, <3>4 DEF EventTold
  <2>2. \E f : new \subseteq {f[p] : p \in Payments}
    BY <1>1
  <2> HIDE DEF new
  <2> QED
    BY <1>2, <1>3, <2>1, <2>2, EventsStay DEF Inv, ProviderInv
<1>8. RequestsOpen'
  <2>1. ASSUME NEW r \in outstanding'
        PROVE  Executed(r[1])' /\ r[2] \in Legs(r[1])' /\ r[3] > 0 /\ scenario'[r[1]] # "failed"
    <3>1. CASE r \in outstanding
      <4>1. r[1] \in Quotes /\ r[2] \in Payments
        BY <3>1 DEF Inv, ProviderInv, CallsTyped, Calls
      <4> QED
        BY <3>1, <4>1 DEF Inv, ProviderInv, RequestsOpen, OperationsStay, Legs
    <3>2. ASSUME NEW p \in In({"processing", "unknown"}), r = Request(p)
          PROVE  Executed(r[1])' /\ r[2] \in Legs(r[1])' /\ r[3] > 0 /\ scenario'[r[1]] # "failed"
      BY <1>1, <3>2 DEF Legs
    <3> QED
      BY <1>2, <3>1, <3>2
  <2>2. ASSUME NEW r1 \in outstanding', NEW r2 \in outstanding', r1[1] = r2[1], r1[2] = r2[2]
        PROVE  r1 = r2
    <3>1. CASE r1 \in outstanding /\ r2 \in outstanding
      BY <2>2, <3>1 DEF Inv, ProviderInv, RequestsOpen, OneRequestInFlight
    <3>2. CASE \E p \in In({"processing", "unknown"}) : r1 = Request(p) \/ r2 = Request(p)
      <4>1. (\A r \in outstanding : r[1] # q) /\ (r1[1] = q \/ r2[1] = q)
        BY <3>2
      <4>2. r1 \notin outstanding /\ r2 \notin outstanding
        BY <2>2, <4>1
      <4>3. \E p \in P : r1 = Request(p)
        BY <1>2, <4>2
      <4>4. \E p \in P : r2 = Request(p)
        BY <1>2, <4>2
      <4> QED
        BY <2>2, <4>3, <4>4
    <3> QED
      BY <1>2, <3>1, <3>2
  <2> QED
    BY <2>1, <2>2 DEF RequestsOpen, OneRequestInFlight
<1> QED
  BY <1>3, <1>4, <1>5, <1>6, <1>7, <1>8

\* Open requests of q are paid.
LEMMA Settled ==
    ASSUME Inv, NEW q \in Quotes, NEW settled \in SUBSET {r \in outstanding : r[1] = q},
           paid' = paid \cup settled, outstanding' = outstanding \ settled,
           events' = events \cup {Webhook(q, r[2], "succeeded") : r \in settled},
           OperationsStay
    PROVE  /\ Remembers /\ EventsTold' /\ RequestsOpen'
           /\ paid' \subseteq Calls /\ outstanding' \subseteq Calls /\ events' \subseteq Event
<1> DEFINE hook == [p \in Payments |-> Webhook(q, p, "succeeded")]
           new == {Webhook(q, r[2], "succeeded") : r \in settled}
<1>1. Remembers /\ paid' \subseteq Calls /\ outstanding' \subseteq Calls
  BY DEF Remembers, Inv, ProviderInv, CallsTyped
<1>2. \A r \in settled : r \in outstanding /\ r[1] = q /\ r[2] \in Payments
  BY DEF Inv, ProviderInv, CallsTyped, Calls
<1>3. EventsTold' /\ events' \subseteq Event
  <2>1. ASSUME NEW e \in new PROVE e \in Event /\ EventTold(e)'
    <3>1. PICK r \in settled : e = Webhook(q, r[2], "succeeded")
      OBVIOUS
    <3>2. e \in Event /\ e.op = q /\ e.pay = r[2] /\ e.state = "succeeded"
      BY <1>2, <3>1, WebhookTyped DEF ProviderState, Inv, ProviderInv, EventsTold
    <3>3. Executed(q) /\ r[2] \in Legs(q) /\ r[3] > 0
      BY <1>2 DEF Inv, ProviderInv, RequestsOpen
    <3>4. Executed(q)' /\ (r[2] \in Legs(q))'
      BY <3>3 DEF OperationsStay, Legs
    <3>5. PaidFor(q, r[2])'
      BY <1>2, <3>3 DEF PaidFor
    <3> QED
      BY <3>2, <3>4, <3>5 DEF EventTold
  <2>2. \E f : new \subseteq {f[p] : p \in Payments}
    <3>1. new \subseteq {hook[p] : p \in Payments}
      BY <1>2
    <3> QED
      BY <3>1
  <2>3. events' = events \cup new
    OBVIOUS
  <2> HIDE DEF new
  <2> QED
    BY <1>1, <2>1, <2>2, <2>3, EventsStay DEF Inv, ProviderInv
<1>4. RequestsOpen'
  <2>1. ASSUME NEW r \in outstanding
        PROVE  Executed(r[1])' /\ r[2] \in Legs(r[1])' /\ r[3] > 0 /\ scenario'[r[1]] # "failed"
    <3>1. r[1] \in Quotes /\ r[2] \in Payments
      BY DEF Inv, ProviderInv, CallsTyped, Calls
    <3> QED
      BY <3>1 DEF Inv, ProviderInv, RequestsOpen, OperationsStay, Legs
  <2> QED
    BY <2>1 DEF Inv, ProviderInv, RequestsOpen, OneRequestInFlight
<1> QED
  BY <1>1, <1>3, <1>4

LEMMA Inquired ==
    ASSUME Inv, NEW q \in Quotes, NEW P, NEW reply, ProviderInquired(q, P, reply),
           OperationsStay
    PROVE  /\ Remembers /\ EventsTold' /\ RequestsOpen'
           /\ paid' \subseteq Calls /\ outstanding' \subseteq Calls /\ events' \subseteq Event
           /\ \A p \in P : reply[p] = "succeeded" /\ Asked(q, p) => PaidFor(q, p)'
<1> DEFINE settled == {r \in outstanding : r[1] = q /\ r[2] \in P /\ reply[r[2]] = "succeeded"}
<1>1. /\ paid' = paid \cup settled /\ outstanding' = outstanding \ settled
      /\ events' = events \cup {Webhook(q, r[2], "succeeded") : r \in settled}
  BY DEF ProviderInquired
<1>2. settled \in SUBSET {r \in outstanding : r[1] = q}
  OBVIOUS
<1>3. \A p \in P : reply[p] = "succeeded" /\ Asked(q, p) => PaidFor(q, p)'
  BY <1>1 DEF Asked, PaidFor, Inv, ProviderInv, RequestsOpen
<1> HIDE DEF settled
<1> QED
  BY <1>1, <1>2, <1>3, Settled

\* A step in which the provider is not called.
LEMMA Uncalled ==
    ASSUME Inv, UNCHANGED <<outstanding, events>>, paid \subseteq paid', paid' \subseteq Calls,
           OperationsStay
    PROVE  /\ Remembers /\ EventsTold' /\ RequestsOpen'
           /\ outstanding' \subseteq Calls /\ events' \subseteq Event
<1>1. Remembers
  BY DEF Remembers
<1>2. EventsTold'
  BY <1>1, EventStays DEF EventsTold, Inv, ProviderInv
<1>3. RequestsOpen'
  <2>1. ASSUME NEW r \in outstanding
        PROVE  Executed(r[1])' /\ r[2] \in Legs(r[1])' /\ r[3] > 0 /\ scenario'[r[1]] # "failed"
    <3>1. r[1] \in Quotes /\ r[2] \in Payments
      BY DEF Inv, ProviderInv, CallsTyped, Calls
    <3> QED
      BY <3>1 DEF Inv, ProviderInv, RequestsOpen, OperationsStay, Legs
  <2> QED
    BY <2>1 DEF Inv, ProviderInv, RequestsOpen, OneRequestInFlight
<1> QED
  BY <1>1, <1>2, <1>3 DEF Inv, ProviderInv, CallsTyped

--------------------------------------------------------------------------------
(* A step that settles an operation *)

\* Executing takes the sale to its next version and consumes the quote; any other
\* handler finds the operation there.
Starts(q, v) ==
    /\ Executable(q) /\ v = version + 1
    /\ quote' = [quote EXCEPT ![q].state = "consumed"]
    /\ \E s \in Scenarios : scenario' = [scenario EXCEPT ![q] = s]
Continues(q, v) == Executed(q) /\ v = version /\ UNCHANGED <<quote, scenario>>

Settles(q, legs, v) ==
    /\ Settle(q, legs, v) /\ (Starts(q, v) \/ Continues(q, v))
    /\ legs \in [Payments -> LegStatus]
    /\ \A p \in Payments : legs[p] # "none" <=> p \in Legs(q)
    /\ \A p \in Payments : legs[p] = "failed" => scenario'[q] = "failed"
    /\ UNCHANGED <<shift, shiftOpen, others>>

LEMMA QuoteStays ==
    ASSUME BooksTyped, QuotesKnown, OperationsKnown, NEW q \in Quotes, NEW v,
           Starts(q, v) \/ Continues(q, v)
    PROVE  /\ quote' \in [Quotes -> QuoteRow] /\ TermsKept /\ quote'[q].state = "consumed"
           /\ \A r \in Quotes \ {q} : quote'[r] = quote[r] /\ scenario'[r] = scenario[r]
           /\ scenario' \in [Quotes -> Scenarios \cup {"none"}] /\ scenario'[q] # "none"
           /\ scenario[q] # "none" => scenario'[q] = scenario[q]
<1>1. CASE Starts(q, v)
  <2> PICK row \in {quote[q]} : TRUE
    OBVIOUS
  <2> PICK new \in {[row EXCEPT !.state = "consumed"]} : TRUE
    OBVIOUS
  <2>1. row \in QuoteRow /\ row = quote[q]
    BY DEF BooksTyped
  <2>2. /\ new \in QuoteRow /\ new.state = "consumed" /\ new.alloc = row.alloc
        /\ new.total = row.total /\ new.shift = row.shift
        /\ new.order_version = row.order_version
    BY <2>1 DEF QuoteRow
  <2>3. quote' = [quote EXCEPT ![q] = new] /\ quote \in [Quotes -> QuoteRow]
    BY <1>1, <2>1 DEF Starts, BooksTyped
  <2>4. PICK s \in Scenarios : scenario' = [scenario EXCEPT ![q] = s]
    BY <1>1 DEF Starts
  <2>5. scenario[q] = "none" /\ s # "none"
    BY <1>1, ScenarioAssumption DEF Starts, Executable, QuotesKnown, OperationsKnown
  <2> QED
    BY <2>1, <2>2, <2>3, <2>4, <2>5 DEF BooksTyped, TermsKept
<1>2. CASE Continues(q, v)
  BY <1>2 DEF Continues, BooksTyped, TermsKept, QuotesKnown, OperationsKnown
<1> QED
  BY <1>1, <1>2

\* What a settling step does to the operation and to the books.
Finalizes(q, legs, v) == AllSucceeded(q, legs) /\ q \notin finalized /\ CanFinalize(q) /\ Finalize(q, v)
Unbooked(v) == version' = v /\ UNCHANGED <<finalized, refunded, negative, shiftSales>>

LEMMA LessTyped ==
    ASSUME NEW sales \in Nat, NEW total \in Nat
    PROVE  /\ LessRefund(sales, total) \in Nat /\ LessRefund(sales, total) <= sales
           /\ sales <= LessRefund(sales, total) + total
           /\ total <= sales => sales = LessRefund(sales, total) + total
  BY DEF LessRefund

LEMMA SettleKinds ==
    ASSUME NEW q \in Quotes, NEW legs, NEW v, Settle(q, legs, v)
    PROVE  /\ leg' = [leg EXCEPT ![q] = legs]
           /\ \/ Finalizes(q, legs, v)
              \/ Unbooked(v) /\ q \in finalized /\ UNCHANGED status
              \/ /\ Unbooked(v) /\ ~AllSucceeded(q, legs)
                 /\ status' = [status EXCEPT ![q] = Derived(States(q, legs))]
  BY DEF Settle, CanSettle, Finalizes, Unbooked

\* The other operations are left alone.
LEMMA SettleTyped ==
    ASSUME BooksInv, NEW q \in Quotes, NEW legs, NEW v, Settles(q, legs, v)
    PROVE  /\ BooksTyped' /\ TermsKept /\ OperationsStay
           /\ \A r \in Quotes \ {q} :
                 /\ quote'[r] = quote[r] /\ scenario'[r] = scenario[r]
                 /\ status'[r] = status[r] /\ leg'[r] = leg[r]
                 /\ r \in finalized' <=> r \in finalized
           /\ leg'[q] = legs /\ status'[q] # "none" /\ quote'[q].state = "consumed"
           /\ scenario'[q] # "none" /\ (scenario[q] # "none" => scenario'[q] = scenario[q])
           /\ q \in finalized => q \in finalized'
           /\ v \in Nat /\ version <= v /\ v <= version'
<1>1. /\ quote' \in [Quotes -> QuoteRow] /\ TermsKept /\ quote'[q].state = "consumed"
      /\ \A r \in Quotes \ {q} : quote'[r] = quote[r] /\ scenario'[r] = scenario[r]
      /\ scenario' \in [Quotes -> Scenarios \cup {"none"}] /\ scenario'[q] # "none"
      /\ scenario[q] # "none" => scenario'[q] = scenario[q]
  BY QuoteStays DEF Settles, BooksInv
<1>2. version \in Nat /\ v \in Nat /\ version <= v
  BY DEF Settles, Starts, Continues, BooksInv, BooksTyped
<1>3. leg' = [leg EXCEPT ![q] = legs] /\ legs \in [Payments -> LegStatus]
  BY SettleKinds DEF Settles
<1>4. leg' \in [Quotes -> [Payments -> LegStatus]] /\ leg'[q] = legs
      /\ \A r \in Quotes \ {q} : leg'[r] = leg[r]
  BY <1>3 DEF BooksInv, BooksTyped
<1>5. quote[q].total \in Nat
  BY DEF BooksInv, BooksTyped, QuoteRow
<1>6. /\ status' \in [Quotes -> OperationStatus] /\ status'[q] # "none"
      /\ \A r \in Quotes \ {q} : status'[r] = status[r]
      /\ finalized' \in {finalized, finalized \cup {q}}
      /\ refunded' \in Nat /\ version' \in Nat /\ v <= version'
      /\ negative' \subseteq Quotes \X Payments
      /\ shiftSales' \in [1..MaxShifts -> Nat]
  <2>1. CASE Finalizes(q, legs, v)
    <3>1. \E s \in {"completed", "tax_pending"} : status' = [status EXCEPT ![q] = s]
      BY <2>1 DEF Finalizes, Finalize
    <3>2. status' \in [Quotes -> OperationStatus] /\ status'[q] # "none"
          /\ \A r \in Quotes \ {q} : status'[r] = status[r]
      BY <3>1 DEF BooksInv, BooksTyped, OperationStatus
    <3>3. shiftSales' \in [1..MaxShifts -> Nat]
      BY <1>5, <2>1, LessTyped DEF Finalizes, Finalize, BooksInv, BooksTyped
    <3>4. negative' \subseteq Quotes \X Payments
      BY <2>1 DEF Finalizes, Finalize, BooksInv, BooksTyped, Legs
    <3> QED
      BY <1>2, <1>5, <2>1, <3>2, <3>3, <3>4 DEF Finalizes, Finalize, BooksInv, BooksTyped
  <2>2. CASE Unbooked(v) /\ q \in finalized /\ UNCHANGED status
    <3>1. status[q] # "none"
      BY <2>2 DEF BooksInv, OperationsKnown, Executed
    <3> QED
      BY <1>2, <2>2, <3>1 DEF Unbooked, BooksInv, BooksTyped
  <2>3. CASE Unbooked(v) /\ status' = [status EXCEPT ![q] = Derived(States(q, legs))]
    <3>1. Derived(States(q, legs)) \in OperationStatus \ {"none"}
      BY DerivedKinds DEF OperationStatus
    <3> QED
      BY <1>2, <2>3, <3>1 DEF Unbooked, BooksInv, BooksTyped
  <2> QED
    BY <2>1, <2>2, <2>3, SettleKinds DEF Settles
<1>7. BooksTyped'
  BY <1>1, <1>4, <1>6 DEF BooksInv, BooksTyped, Settles
<1>8. OperationsStay
  <2> SUFFICES ASSUME NEW r \in Quotes, Executed(r)
               PROVE  Executed(r)' /\ scenario'[r] = scenario[r] /\ quote'[r].alloc = quote[r].alloc
    BY DEF OperationsStay
  <2> QED
    BY <1>1, <1>6 DEF TermsKept, Executed, BooksInv, OperationsKnown
<1> QED
  BY <1>1, <1>2, <1>4, <1>6, <1>7, <1>8

LEMMA SettleKeepsQuotes ==
    ASSUME BooksInv, NEW q \in Quotes, NEW legs, NEW v, Settles(q, legs, v)
    PROVE  QuotesKnown' /\ OperationsKnown' /\ PartialsBlock'
<1>1. /\ BooksTyped' /\ TermsKept /\ shift' = shift
      /\ \A r \in Quotes \ {q} :
            /\ quote'[r] = quote[r] /\ scenario'[r] = scenario[r]
            /\ status'[r] = status[r] /\ leg'[r] = leg[r]
            /\ r \in finalized' <=> r \in finalized
      /\ leg'[q] = legs /\ status'[q] # "none" /\ quote'[q].state = "consumed"
      /\ scenario'[q] # "none" /\ version <= version'
  <2>1. v \in Nat /\ version <= v /\ v <= version' /\ version \in Nat /\ version' \in Nat
    BY SettleTyped DEF BooksInv, BooksTyped
  <2> QED
    BY <2>1, SettleTyped DEF Settles
<1>2. \A r \in Quotes : /\ Legs(r)' = Legs(r)
                        /\ quote[r].order_version \in Nat
  BY <1>1 DEF Legs, TermsKept, BooksInv, BooksTyped, QuoteRow
<1>3. QuotesKnown'
  <2>1. version \in Nat /\ version' \in Nat
    BY <1>1 DEF BooksInv, BooksTyped
  <2>2. \A r \in Quotes : quote'[r].order_version <= version'
    BY <1>1, <1>2, <2>1 DEF TermsKept, BooksInv, QuotesKnown
  <2>3. \A r \in Quotes : quote'[r].state = "consumed" <=> Executed(r)'
    BY <1>1 DEF BooksInv, QuotesKnown, Executed
  <2>4. \A r \in Quotes : /\ quote'[r].total = SumFunctionOnSet(quote'[r].alloc, Payments)
                          /\ quote'[r].shift <= shift'
    BY <1>1 DEF TermsKept, BooksInv, QuotesKnown
  <2> QED
    BY <2>2, <2>3, <2>4 DEF QuotesKnown
<1>4. /\ \A p \in Payments : legs[p] # "none" <=> p \in Legs(q)
      /\ \A p \in Payments : legs[p] = "failed" => scenario'[q] = "failed"
  BY DEF Settles
<1>5. /\ scenario'[q] # "failed" => q \in finalized' \/ status'[q] \in Blocking
      /\ q \notin finalized' /\ (\E p \in Payments : legs[p] = "succeeded") => status'[q] \in Blocking
  <2>1. CASE q \in finalized'
    BY <2>1
  <2>2. CASE q \notin finalized'
    <3>1. status'[q] = Derived(States(q, legs))
      BY <2>2, SettleKinds DEF Settles, Finalizes, Finalize, Unbooked, BooksInv, BooksTyped
    <3>2. scenario'[q] # "failed" => "failed" \notin States(q, legs)
      BY <1>4 DEF States, Legs
    <3>3. (\E p \in Payments : legs[p] = "succeeded") => "succeeded" \in States(q, legs)
      BY <1>4 DEF States
    <3> QED
      BY <3>1, <3>2, <3>3, DerivedKinds DEF Blocking
  <2> QED
    BY <2>1, <2>2
<1>6. OperationsKnown'
  <2> SUFFICES ASSUME NEW r \in Quotes
               PROVE  /\ (Executed(r) <=> scenario[r] # "none")'
                      /\ (r \in finalized => Executed(r))'
                      /\ \A p \in Payments : (leg[r][p] # "none" <=> p \in Legs(r) /\ Executed(r))'
                      /\ \A p \in Payments : (leg[r][p] = "failed" => scenario[r] = "failed")'
                      /\ (Executed(r) /\ scenario[r] # "failed"
                            => r \in finalized \/ status[r] \in Blocking)'
    BY DEF OperationsKnown
  <2>1. CASE r = q
    BY <1>1, <1>2, <1>4, <1>5, <2>1 DEF Executed
  <2>2. CASE r # q
    BY <1>1, <1>2, <2>2 DEF Executed, BooksInv, OperationsKnown
  <2> QED
    BY <2>1, <2>2
<1>7. PartialsBlock'
  BY <1>1, <1>5 DEF BooksInv, PartialsBlock
<1> QED
  BY <1>3, <1>6, <1>7

--------------------------------------------------------------------------------
(* The books in a step that settles an operation *)

Alloc(p) == [q \in Quotes |-> quote[q].alloc[p]]
Booked(p) == {q \in Quotes : <<q, p>> \in negative}

LEMMA AllocTyped ==
    ASSUME BooksTyped, NEW p \in Payments
    PROVE  \A q \in Quotes : Alloc(p)[q] \in Nat /\ Alloc(p)[q] \in Int /\ Alloc(p)[q] = quote[q].alloc[p]
  BY DEF BooksTyped, QuoteRow, Alloc

LEMMA AllocStays == ASSUME TermsKept, NEW p \in Payments PROVE Alloc(p)' = Alloc(p)
  BY DEF TermsKept, Alloc

LEMMA RefundedIs ==
    ASSUME BooksTyped, NEW p \in Payments
    PROVE  Refunded(p) = SumFunctionOnSet(Alloc(p), Booked(p)) /\ Refunded(p) \in Nat
<1>1. Refunded(p) = SumFunctionOnSet(Alloc(p), Booked(p))
  BY DEF Refunded, Allocated, Alloc, Booked
<1>2. Booked(p) \subseteq Quotes
  BY DEF Booked
<1>3. IsFiniteSet(Booked(p)) /\ \A q \in Booked(p) : Alloc(p)[q] \in Nat
  BY <1>2, FiniteAssumption, FiniteSubset, AllocTyped
<1> QED
  BY <1>1, <1>3, SumNat

\* Booking an operation adds its leg to each payment's refunds.
LEMMA RefundedGrows ==
    ASSUME BooksTyped, BooksTyped', TermsKept, BooksKnown, NEW q \in Quotes, q \notin finalized,
           negative' = negative \cup {<<q, p>> : p \in Legs(q)}, NEW p \in Payments
    PROVE  Refunded(p)' = Refunded(p) + quote[q].alloc[p]
<1>1. /\ Refunded(p) = SumFunctionOnSet(Alloc(p), Booked(p)) /\ Refunded(p) \in Nat
      /\ Refunded(p)' = SumFunctionOnSet(Alloc(p), Booked(p)')
  <2>1. Refunded(p) = SumFunctionOnSet(Alloc(p), Booked(p)) /\ Refunded(p) \in Nat
    BY RefundedIs
  <2>2. Refunded(p)' = SumFunctionOnSet(Alloc(p)', Booked(p)')
    BY DEF Refunded, Allocated, Alloc, Booked
  <2> QED
    BY <2>1, <2>2, AllocStays
<1>2. q \notin Booked(p)
  BY DEF BooksKnown, Booked
<1>3. quote[q].alloc[p] \in Nat
  BY DEF BooksTyped, QuoteRow
<1>4. CASE p \in Legs(q)
  <2>1. Booked(p)' = Booked(p) \cup {q}
    BY <1>4 DEF Booked
  <2>2. IsFiniteSet(Booked(p)) /\ \A r \in Booked(p) \cup {q} : Alloc(p)[r] \in Int
    <3>1. Booked(p) \subseteq Quotes
      BY DEF Booked
    <3> QED
      BY <3>1, FiniteAssumption, FiniteSubset, AllocTyped
  <2>3. SumFunctionOnSet(Alloc(p), Booked(p) \cup {q})
          = SumFunctionOnSet(Alloc(p), Booked(p)) + Alloc(p)[q]
    BY <1>2, <2>2, SumAdd
  <2>4. Alloc(p)[q] = quote[q].alloc[p]
    BY AllocTyped
  <2> QED
    BY <1>1, <2>1, <2>3, <2>4
<1>5. CASE p \notin Legs(q)
  <2>1. Booked(p)' = Booked(p)
    BY <1>5 DEF Booked
  <2>2. quote[q].alloc[p] = 0
    BY <1>3, <1>5 DEF Legs
  <2> QED
    BY <1>1, <2>1, <2>2
<1> QED
  BY <1>4, <1>5

LEMMA RefundedStays ==
    ASSUME BooksTyped, TermsKept, UNCHANGED negative, NEW p \in Payments
    PROVE  Refunded(p)' = Refunded(p)
  BY AllocStays DEF Refunded, Allocated, Alloc

\* What the refunds of a sale come to, those of the latest shift, and its takings.
RefundSum == SumFunctionOnSet([p \in Payments |-> Refunded(p)], Payments)
ShiftBooked == {q \in finalized : quote[q].shift = shift}
ShiftBack == SumFunctionOnSet(QuoteTotal, ShiftBooked)
TakingsAgree ==
    /\ shiftSales[shift] <= Sold(shift)
    /\ Sold(shift) <= shiftSales[shift] + ShiftBack
    /\ shift = SaleShift => Sold(shift) = shiftSales[shift] + ShiftBack

LEMMA LedgerIs ==
    LedgerMatchesSale <=>
        refunded <= Total /\ refunded = RefundSum /\ (shiftOpen => TakingsAgree)
  BY DEF LedgerMatchesSale, RefundSum, QuotedBack, QuoteTotal, ShiftBooked, ShiftBack, TakingsAgree

\* A shift gives back no more than the sale, and a refund of the shift that made the sale is
\* covered by its takings.
LEMMA BackTyped ==
    ASSUME BooksTyped, LedgerKnown
    PROVE  /\ IsFiniteSet(finalized) /\ IsFiniteSet(ShiftBooked)
           /\ \A q \in Quotes : QuoteTotal[q] \in Nat /\ QuoteTotal[q] = quote[q].total
           /\ ShiftBack \in Nat /\ ShiftBack <= refunded
           /\ Sold(shift) \in Nat /\ (shift = SaleShift => Total <= Sold(shift))
<1> PICK total : total = QuoteTotal
  OBVIOUS
<1>1. \A q \in Quotes : total[q] \in Nat /\ total[q] = quote[q].total
  BY DEF QuoteTotal, BooksTyped, QuoteRow
<1>2. finalized \in SUBSET Quotes /\ ShiftBooked \in SUBSET Quotes /\ ShiftBooked \subseteq finalized
  BY DEF BooksTyped, ShiftBooked
<1>3. IsFiniteSet(Quotes) /\ IsFiniteSet(finalized) /\ IsFiniteSet(ShiftBooked)
  BY <1>2, FiniteAssumption, FiniteSubset
<1>4. \A q \in ShiftBooked : total[q] = 0 \/ q \in finalized \/ q \in {}
  BY <1>2
<1>5. {} \in SUBSET Quotes
  OBVIOUS
<1>6. SumFunctionOnSet(total, ShiftBooked)
        <= SumFunctionOnSet(total, finalized) + SumFunctionOnSet(total, {})
  BY <1>1, <1>2, <1>3, <1>4, <1>5, SumCovered
<1>7. SumFunctionOnSet(total, {}) = 0
  BY SumEmpty
<1>8. ShiftBack \in Nat
  BY <1>1, <1>2, <1>3, SumNat DEF ShiftBack
<1>9. ShiftBack <= refunded
  BY <1>6, <1>7, <1>8 DEF ShiftBack, LedgerKnown, BooksTyped
<1>10. Sold(shift) \in Nat /\ (shift = SaleShift => Total <= Sold(shift))
  BY TotalAssumption DEF Sold, BooksTyped
<1> QED
  BY <1>1, <1>3, <1>8, <1>9, <1>10

LEMMA RefundSumGrows ==
    ASSUME BooksTyped, BooksTyped', TermsKept, BooksKnown, QuotesKnown,
           NEW q \in Quotes, q \notin finalized,
           negative' = negative \cup {<<q, p>> : p \in Legs(q)}
    PROVE  RefundSum' = RefundSum + quote[q].total
<1>0. \A p \in Payments : /\ Refunded(p) \in Nat /\ quote[q].alloc[p] \in Nat
                          /\ Refunded(p)' = Refunded(p) + quote[q].alloc[p]
  <2> SUFFICES ASSUME NEW p \in Payments
               PROVE  /\ Refunded(p) \in Nat /\ quote[q].alloc[p] \in Nat
                      /\ Refunded(p)' = Refunded(p) + quote[q].alloc[p]
    OBVIOUS
  <2>1. Refunded(p) \in Nat
    BY RefundedIs
  <2>2. quote[q].alloc[p] \in Nat
    BY DEF BooksTyped, QuoteRow
  <2>3. Refunded(p)' = Refunded(p) + quote[q].alloc[p]
    BY RefundedGrows
  <2> QED
    BY <2>1, <2>2, <2>3
<1> PICK fun : fun = [p \in Payments |-> Refunded(p)]
  OBVIOUS
<1> PICK gun : gun = quote[q].alloc
  OBVIOUS
<1> PICK hun : hun = [p \in Payments |-> Refunded(p)']
  OBVIOUS
<1>1. \A p \in Payments : fun[p] \in Int /\ gun[p] \in Int /\ hun[p] = fun[p] + gun[p]
  <2> SUFFICES ASSUME NEW p \in Payments
               PROVE  fun[p] \in Int /\ gun[p] \in Int /\ hun[p] = fun[p] + gun[p]
    OBVIOUS
  <2> QED
    BY <1>0
<1>2. RefundSum = SumFunctionOnSet(fun, Payments) /\ RefundSum' = SumFunctionOnSet(hun, Payments)
  BY DEF RefundSum
<1>3. quote[q].total = SumFunctionOnSet(gun, Payments)
  BY DEF QuotesKnown
<1>4. SumFunctionOnSet(hun, Payments)
        = SumFunctionOnSet(fun, Payments) + SumFunctionOnSet(gun, Payments)
  BY <1>1, FiniteAssumption, SumPlus
<1> QED
  BY <1>2, <1>3, <1>4

LEMMA RefundSumStays ==
    ASSUME BooksTyped, TermsKept, UNCHANGED negative
    PROVE  RefundSum' = RefundSum
<1>1. \A p \in Payments : Refunded(p)' = Refunded(p)
  BY RefundedStays
<1> QED
  BY <1>1 DEF RefundSum

LEMMA TotalsStay == ASSUME TermsKept PROVE QuoteTotal' = QuoteTotal
  BY DEF TermsKept, QuoteTotal

LEMMA SettleKeepsBooks ==
    ASSUME BooksInv, NEW q \in Quotes, NEW legs, NEW v, Settles(q, legs, v),
           paid \subseteq paid', \A p \in Payments : legs[p] = "succeeded" => PaidFor(q, p)'
    PROVE  BooksKnown' /\ LedgerKnown' /\ LedgerMatchesSale'
<1>1. BooksTyped /\ BooksTyped' /\ TermsKept /\ BooksKnown /\ QuotesKnown /\ LedgerKnown
  BY SettleTyped DEF BooksInv
<1>2. UNCHANGED <<shift, shiftOpen, others>> /\ \A r \in Quotes : Legs(r)' = Legs(r)
  BY <1>1 DEF Settles, Legs, TermsKept
<1>3. refunded <= Total /\ refunded = RefundSum /\ (shiftOpen => TakingsAgree)
  BY LedgerIs DEF BooksInv
<1>4. QuoteTotal' = QuoteTotal
  BY <1>1, TotalsStay
<1>5. CASE Finalizes(q, legs, v)
  <2>1. /\ q \notin finalized /\ finalized' = finalized \cup {q} /\ CanFinalize(q)
        /\ refunded' = refunded + quote[q].total
        /\ negative' = negative \cup {<<q, p>> : p \in Legs(q)}
        /\ shiftSales' = [shiftSales EXCEPT ![shift] = LessRefund(@, quote[q].total)]
        /\ \A p \in Legs(q) : legs[p] = "succeeded"
    BY <1>5 DEF Finalizes, Finalize, AllSucceeded, States
  <2>2. negative' = {row \in Quotes \X Payments :
                        row[1] \in finalized' /\ row[2] \in Legs(row[1])'}
    <3>1. negative = {row \in Quotes \X Payments : row[1] \in finalized /\ row[2] \in Legs(row[1])}
      BY <1>1 DEF BooksKnown
    <3>2. \A r \in Quotes : Legs(r) \subseteq Payments
      BY DEF Legs
    <3>3. {row \in Quotes \X Payments : row[1] \in finalized' /\ row[2] \in Legs(row[1])'}
            = {row \in Quotes \X Payments : row[1] \in finalized' /\ row[2] \in Legs(row[1])}
      BY <1>2
    <3> QED
      BY <2>1, <3>1, <3>2, <3>3
  <2>3. RecordedRefundWasPaid'
    <3> SUFFICES ASSUME NEW row \in negative'
                 PROVE  \E r \in paid' : r[1] = row[1] /\ r[2] = row[2] /\ r[3] > 0
      BY DEF RecordedRefundWasPaid
    <3>1. CASE row \in negative
      BY <1>1, <3>1 DEF BooksKnown, RecordedRefundWasPaid
    <3>2. ASSUME NEW p \in Legs(q), row = <<q, p>>
          PROVE  \E r \in paid' : r[1] = row[1] /\ r[2] = row[2] /\ r[3] > 0
      BY <2>1, <3>2 DEF PaidFor, Legs
    <3> QED
      BY <2>1, <3>1, <3>2
  <2>4. \A s \in 1..MaxShifts : s > shift' => shiftSales'[s] = 0 /\ others'[s] = 0
    BY <1>1, <1>2, <2>1 DEF LedgerKnown, BooksTyped
  <2>5. refunded' <= Total /\ refunded' = RefundSum'
    BY <1>1, <1>3, <2>1, RefundSumGrows DEF CanFinalize
  <2>6. /\ IsFiniteSet(finalized) /\ IsFiniteSet(ShiftBooked)
        /\ \A r \in Quotes : QuoteTotal[r] \in Nat /\ QuoteTotal[r] = quote[r].total
        /\ ShiftBack \in Nat /\ ShiftBack <= refunded
        /\ Sold(shift) \in Nat /\ (shift = SaleShift => Total <= Sold(shift))
    BY <1>1, BackTyped
  <2>7. finalized \subseteq Quotes /\ ShiftBooked \subseteq finalized
    BY <1>1 DEF BooksTyped, ShiftBooked
  <2>8. refunded' = SumFunctionOnSet(QuoteTotal', finalized')
    <3>1. SumFunctionOnSet(QuoteTotal, finalized \cup {q})
            = SumFunctionOnSet(QuoteTotal, finalized) + QuoteTotal[q]
      <4>1. \A r \in finalized \cup {q} : QuoteTotal[r] \in Int
        BY <2>6, <2>7
      <4>2. IsFiniteSet(finalized) /\ q \notin finalized
        BY <2>1, <2>6
      <4> QED
        BY <4>1, <4>2, SumAdd
    <3> QED
      BY <1>1, <1>4, <2>1, <2>6, <3>1 DEF LedgerKnown
  <2>9. ShiftBack' = ShiftBack + quote[q].total
    <3>1. q \notin ShiftBooked /\ ShiftBooked' = ShiftBooked \cup {q}
      BY <1>1, <1>2, <2>1 DEF ShiftBooked, CanFinalize, TermsKept, BooksTyped
    <3>2. SumFunctionOnSet(QuoteTotal, ShiftBooked \cup {q})
            = SumFunctionOnSet(QuoteTotal, ShiftBooked) + QuoteTotal[q]
      <4>1. \A r \in ShiftBooked \cup {q} : QuoteTotal[r] \in Int
        BY <2>6, <2>7
      <4>2. IsFiniteSet(ShiftBooked) /\ q \notin ShiftBooked
        BY <2>6, <3>1
      <4> QED
        BY <4>1, <4>2, SumAdd
    <3> QED
      BY <1>4, <2>6, <3>1, <3>2 DEF ShiftBack
  <2>10. TakingsAgree'
    <3>1. /\ quote[q].total \in Nat /\ shiftSales[shift] \in Nat /\ refunded \in Nat
          /\ shift' = shift /\ Sold(shift)' = Sold(shift)
          /\ shiftSales'[shift] = LessRefund(shiftSales[shift], quote[q].total)
      BY <1>1, <1>2, <2>1 DEF BooksTyped, QuoteRow, Sold
    <3> PICK n \in Nat : n = quote[q].total
      BY <3>1
    <3> PICK m \in Nat : m = shiftSales[shift]
      BY <3>1
    <3>2. TakingsAgree /\ refunded + n <= Total
      BY <1>3, <2>1 DEF CanFinalize
    <3>3. shift = SaleShift => n <= m
      BY <2>6, <3>1, <3>2, TotalAssumption DEF TakingsAgree
    <3>4. /\ LessRefund(m, n) \in Nat /\ LessRefund(m, n) <= m /\ m <= LessRefund(m, n) + n
          /\ shift = SaleShift => m = LessRefund(m, n) + n
      BY <3>3, LessTyped
    <3>5. /\ LessRefund(m, n) <= Sold(shift)
          /\ Sold(shift) <= LessRefund(m, n) + (ShiftBack + n)
          /\ shift = SaleShift => Sold(shift) = LessRefund(m, n) + (ShiftBack + n)
      BY <2>6, <3>2, <3>4 DEF TakingsAgree
    <3> QED
      BY <2>9, <3>1, <3>5 DEF TakingsAgree
  <2>11. LedgerKnown' /\ BooksKnown'
    BY <2>2, <2>3, <2>4, <2>8 DEF BooksKnown, LedgerKnown
  <2>12. refunded' <= Total /\ refunded' = RefundSum' /\ (shiftOpen' => TakingsAgree')
    BY <2>5, <2>10
  <2>13. LedgerMatchesSale'
    BY <2>12 DEF LedgerMatchesSale, RefundSum, QuotedBack, QuoteTotal, ShiftBooked, ShiftBack,
                 TakingsAgree
  <2> QED
    BY <2>11, <2>13
<1>6. CASE Unbooked(v)
  <2>1. UNCHANGED <<finalized, refunded, negative, shiftSales>>
    BY <1>6 DEF Unbooked
  <2>2. BooksKnown'
    <3>1. {row \in Quotes \X Payments : row[1] \in finalized' /\ row[2] \in Legs(row[1])'}
            = {row \in Quotes \X Payments : row[1] \in finalized /\ row[2] \in Legs(row[1])}
      BY <1>2, <2>1
    <3> QED
      BY <1>1, <1>2, <2>1, <3>1 DEF BooksKnown, RecordedRefundWasPaid
  <2>3. ShiftBooked' = ShiftBooked
    BY <1>1, <1>2, <2>1 DEF ShiftBooked, TermsKept, BooksTyped
  <2>4. RefundSum' = RefundSum
    BY <1>1, <2>1, RefundSumStays
  <2>5. TakingsAgree' = TakingsAgree
    BY <1>2, <1>4, <2>1, <2>3 DEF TakingsAgree, ShiftBack, Sold
  <2>6. LedgerMatchesSale'
    <3>1. refunded' <= Total /\ refunded' = RefundSum' /\ (shiftOpen' => TakingsAgree')
      BY <1>2, <1>3, <2>1, <2>4, <2>5
    <3> QED
      BY <3>1 DEF LedgerMatchesSale, RefundSum, QuotedBack, QuoteTotal, ShiftBooked, ShiftBack,
                  TakingsAgree
  <2>7. LedgerKnown'
    BY <1>1, <1>2, <1>4, <2>1 DEF LedgerKnown
  <2> QED
    BY <2>2, <2>6, <2>7
<1> QED
  BY <1>5, <1>6, SettleKinds DEF Settles

--------------------------------------------------------------------------------
(* What a payment has committed *)

CommittedTo == {q \in Quotes : q \in finalized \/ status[q] \in Blocking}

LEMMA CommittedIs ==
    ASSUME BooksTyped, NEW p \in Payments
    PROVE  Committed(p) = SumFunctionOnSet(Alloc(p), CommittedTo) /\ Committed(p) \in Nat
<1>1. Committed(p) = SumFunctionOnSet(Alloc(p), CommittedTo)
  BY DEF Committed, Allocated, Alloc, CommittedTo
<1>2. CommittedTo \subseteq Quotes
  BY DEF CommittedTo
<1>3. IsFiniteSet(CommittedTo) /\ \A q \in CommittedTo : Alloc(p)[q] \in Nat
  BY <1>2, FiniteAssumption, FiniteSubset, AllocTyped
<1> QED
  BY <1>1, <1>3, SumNat

LEMMA CommittedStays ==
    ASSUME BooksTyped, TermsKept, CommittedTo' = CommittedTo, NEW p \in Payments
    PROVE  Committed(p)' = Committed(p)
<1>1. Committed(p)' = SumFunctionOnSet(Alloc(p)', CommittedTo')
  BY DEF Committed, Allocated, Alloc, CommittedTo
<1> QED
  BY <1>1, AllocStays, CommittedIs

LEMMA CommittedGrows ==
    ASSUME BooksTyped, TermsKept, NEW q \in Quotes, q \notin CommittedTo,
           CommittedTo' = CommittedTo \cup {q}, NEW p \in Payments
    PROVE  Committed(p)' = Committed(p) + quote[q].alloc[p]
<1>1. Committed(p)' = SumFunctionOnSet(Alloc(p)', CommittedTo')
  BY DEF Committed, Allocated, Alloc, CommittedTo
<1>2. CommittedTo \subseteq Quotes
  BY DEF CommittedTo
<1>3. IsFiniteSet(CommittedTo) /\ \A r \in CommittedTo \cup {q} : Alloc(p)[r] \in Int
  BY <1>2, FiniteAssumption, FiniteSubset, AllocTyped
<1>4. SumFunctionOnSet(Alloc(p), CommittedTo \cup {q})
        = SumFunctionOnSet(Alloc(p), CommittedTo) + Alloc(p)[q]
  BY <1>3, SumAdd
<1>5. Alloc(p)[q] = quote[q].alloc[p]
  BY AllocTyped
<1> QED
  BY <1>1, <1>4, <1>5, AllocStays, CommittedIs

\* While nothing is declined, an executed operation is committed and stays so.
LEMMA CommittedOperations ==
    ASSUME BooksInv, Undeclined, NEW q \in Quotes
    PROVE  q \in CommittedTo <=> Executed(q)
  BY DEF BooksInv, OperationsKnown, Undeclined, CommittedTo, Blocking, Executed

LEMMA SettleFits ==
    ASSUME BooksInv, NEW q \in Quotes, NEW legs, NEW v, Settles(q, legs, v)
    PROVE  FitsWithQuotes'
<1> SUFFICES ASSUME Undeclined', NEW p \in Payments
             PROVE  /\ Committed(p)' <= Amount[p]
                    /\ \A r \in Quotes : Executable(r)' => Committed(p)' + quote'[r].alloc[p] <= Amount[p]
  BY DEF FitsWithQuotes
<1>1. /\ BooksTyped /\ TermsKept /\ OperationsKnown'
      /\ \A r \in Quotes \ {q} : /\ quote'[r] = quote[r] /\ scenario'[r] = scenario[r]
                                 /\ status'[r] = status[r] /\ (r \in finalized' <=> r \in finalized)
      /\ scenario[q] # "none" => scenario'[q] = scenario[q]
      /\ status'[q] # "none" /\ quote'[q].state = "consumed"
      /\ version \in Nat /\ v \in Nat /\ version' \in Nat /\ version <= v /\ v <= version'
  <2>1. BooksTyped' /\ OperationsKnown'
    BY SettleTyped, SettleKeepsQuotes
  <2> QED
    BY <2>1, SettleTyped DEF BooksInv, BooksTyped
<1>2. Undeclined
  BY <1>1 DEF Undeclined, BooksInv
<1>3. /\ Committed(p) <= Amount[p]
      /\ \A r \in Quotes : Executable(r) => Committed(p) + quote[r].alloc[p] <= Amount[p]
  BY <1>2 DEF BooksInv, FitsWithQuotes
<1>4. \A r \in Quotes : Executable(r)' => version' = version /\ Executable(r)
  <2> SUFFICES ASSUME NEW r \in Quotes, Executable(r)' PROVE version' = version /\ Executable(r)
    OBVIOUS
  <2>1. r # q /\ quote'[r] = quote[r] /\ quote[r].order_version = version'
    BY <1>1 DEF Executable
  <2>2. quote[r].order_version <= version
    BY DEF BooksInv, QuotesKnown
  <2> QED
    BY <1>1, <2>1, <2>2 DEF Executable
<1>5. q \in CommittedTo'
  BY <1>1 DEF OperationsKnown, Undeclined, CommittedTo, Executed
<1>6. CASE Continues(q, v)
  <2>1. q \in CommittedTo
    BY <1>2, <1>6, CommittedOperations DEF Continues
  <2>2. CommittedTo' = CommittedTo
    BY <1>1, <1>5, <2>1 DEF CommittedTo
  <2>3. Committed(p)' = Committed(p)
    BY <1>1, <2>2, CommittedStays
  <2>4. \A r \in Quotes : quote'[r].alloc = quote[r].alloc
    BY <1>1 DEF TermsKept
  <2> QED
    BY <1>3, <1>4, <2>3, <2>4
<1>7. CASE Starts(q, v)
  <2>1. Executable(q) /\ version' > version
    BY <1>1, <1>7 DEF Starts
  <2>2. q \notin CommittedTo
    BY <1>2, <2>1, CommittedOperations DEF Executable, BooksInv, QuotesKnown
  <2>3. CommittedTo' = CommittedTo \cup {q}
    BY <1>1, <1>5 DEF CommittedTo
  <2>4. Committed(p)' = Committed(p) + quote[q].alloc[p]
    BY <1>1, <2>2, <2>3, CommittedGrows
  <2> QED
    BY <1>1, <1>3, <1>4, <2>1, <2>4
<1> QED
  BY <1>6, <1>7 DEF Settles

\* A step that settles an operation preserves the invariant.
LEMMA SettleKeepsInv ==
    ASSUME Inv, NEW q \in Quotes, NEW legs, NEW v, Settles(q, legs, v),
           Remembers, EventsTold', RequestsOpen', CallsTyped',
           \A p \in Payments : legs[p] = "succeeded" => PaidFor(q, p)',
           \A p \in Payments : legs[p] \in {"processing", "unknown"} => Asked(q, p)'
    PROVE  Inv'
<1>1. BooksTyped' /\ QuotesKnown' /\ OperationsKnown' /\ PartialsBlock'
  BY SettleTyped, SettleKeepsQuotes DEF Inv
<1>2. BooksKnown' /\ LedgerKnown' /\ LedgerMatchesSale'
  BY SettleKeepsBooks DEF Inv, Remembers
<1>3. FitsWithQuotes'
  BY SettleFits DEF Inv
<1>4. LegsTold'
  <2> SUFFICES ASSUME NEW r \in Quotes, NEW p \in Payments
               PROVE  /\ leg'[r][p] = "succeeded" => PaidFor(r, p)'
                      /\ leg'[r][p] \in {"processing", "unknown"} => Asked(r, p)'
    BY DEF LegsTold
  <2>1. leg'[q] = legs /\ (r # q => leg'[r] = leg[r])
    BY SettleTyped DEF Inv
  <2>2. CASE r = q
    BY <2>1, <2>2
  <2>3. CASE r # q
    BY <2>1, <2>3, ToldStays DEF Inv, ProviderInv, LegsTold
  <2> QED
    BY <2>2, <2>3
<1> QED
  BY <1>1, <1>2, <1>3, <1>4 DEF Inv, BooksInv, ProviderInv

--------------------------------------------------------------------------------
(* The handlers *)

\* The provider declines, if anything, in its scenario "failed" only.
Answers(s, P, reply) ==
    /\ reply \in [P -> ProviderState]
    /\ \A p \in P : reply[p] = "failed" => s = "failed"
    /\ \A p \in P : reply[p] \in {"processing", "unknown"} => s # "failed"

LEMMA ReplyAnswers ==
    ASSUME CallsTyped, NEW q \in Quotes, NEW s \in Scenarios, NEW P \in SUBSET Payments,
           NEW inquiry \in BOOLEAN
    PROVE  Answers(s, P, Reply(q, s, P, inquiry))
<1> PICK reply : reply = Reply(q, s, P, inquiry)
  OBVIOUS
<1>1. \A p \in P : attempts[q][p] + 1 \in Nat
  BY DEF CallsTyped
<1>2. ASSUME NEW p \in P
      PROVE  /\ reply[p] \in ProviderState /\ (reply[p] = "failed" => s = "failed")
             /\ reply[p] \in {"processing", "unknown"} => s # "failed"
  <2>1. reply[p] = Result(s, attempts[q][p] + 1, inquiry)
    BY DEF Reply
  <2> QED
    BY <1>1, <2>1, ResultKinds
<1>3. reply = [p \in P |-> reply[p]]
  BY DEF Reply
<1> QED
  BY <1>2, <1>3 DEF Answers

LEMMA ExecuteSettles ==
    ASSUME Inv, NEW q \in Quotes, Execute(q), NEW s \in Scenarios,
           scenario' = [scenario EXCEPT ![q] = s],
           NEW reply, reply = Reply(q, s, ProviderLegs(q), FALSE),
           NEW legs, legs = OpenedLegs(q, reply), Settle(q, legs, version + 1)
    PROVE  /\ Answers(s, ProviderLegs(q), reply)
           /\ scenario'[q] = s /\ Starts(q, version + 1) /\ Settles(q, legs, version + 1)
           /\ \A p \in Payments :
                 legs[p] \in ProviderState => p \in ProviderLegs(q) /\ legs[p] = reply[p]
<1>1. /\ reply \in [ProviderLegs(q) -> ProviderState]
      /\ \A p \in ProviderLegs(q) : reply[p] = "failed" => s = "failed"
      /\ \A p \in ProviderLegs(q) : reply[p] \in {"processing", "unknown"} => s # "failed"
  <2>1. CallsTyped /\ ProviderLegs(q) \in SUBSET Payments
    BY DEF Inv, ProviderInv, ProviderLegs, Legs
  <2>2. \A inquiry \in BOOLEAN :
            Answers(s, ProviderLegs(q), Reply(q, s, ProviderLegs(q), inquiry))
    BY <2>1, ReplyAnswers
  <2>3. Answers(s, ProviderLegs(q), reply)
    BY <2>2, Zenon
  <2> QED
    BY <2>3 DEF Answers
<1>2. scenario'[q] = s
  BY DEF Inv, BooksInv, BooksTyped
<1>3. /\ legs \in [Payments -> LegStatus]
      /\ \A p \in Payments : legs[p] # "none" <=> p \in Legs(q)
      /\ \A p \in Payments : legs[p] \in ProviderState => p \in ProviderLegs(q) /\ legs[p] = reply[p]
  <2>1. legs = [p \in Payments |-> legs[p]]
    BY DEF OpenedLegs
  <2>2. ASSUME NEW p \in Payments
        PROVE  legs[p] = IF p \in ProviderLegs(q) THEN reply[p]
                         ELSE IF p \in Legs(q) THEN "cash_due" ELSE "none"
    BY DEF OpenedLegs, CashLegs, ProviderLegs
  <2>3. \A p \in ProviderLegs(q) : reply[p] \in ProviderState /\ p \in Legs(q)
    BY <1>1 DEF ProviderLegs
  <2> QED
    BY <2>1, <2>2, <2>3 DEF LegStatus, ProviderState
<1>4. Starts(q, version + 1)
  BY DEF Starts, Execute
<1>5. Settles(q, legs, version + 1)
  BY <1>1, <1>2, <1>3, <1>4 DEF Settles, Execute, ProviderState
<1> QED
  BY <1>1, <1>2, <1>3, <1>4, <1>5 DEF Answers

LEMMA ExecuteKeepsInv == ASSUME Inv, NEW q \in Quotes, Execute(q) PROVE Inv'
<1> PICK s \in Scenarios :
        /\ scenario' = [scenario EXCEPT ![q] = s]
        /\ ProviderRequested(q, ProviderLegs(q), Reply(q, s, ProviderLegs(q), FALSE))
        /\ Settle(q, OpenedLegs(q, Reply(q, s, ProviderLegs(q), FALSE)), version + 1)
  BY DEF Execute
<1> PICK reply : reply = Reply(q, s, ProviderLegs(q), FALSE)
  OBVIOUS
<1> PICK legs : legs = OpenedLegs(q, reply)
  OBVIOUS
<1>1. /\ Answers(s, ProviderLegs(q), reply)
      /\ scenario'[q] = s /\ Starts(q, version + 1) /\ Settles(q, legs, version + 1)
      /\ \A p \in Payments :
            legs[p] \in ProviderState => p \in ProviderLegs(q) /\ legs[p] = reply[p]
  <2>1. Settle(q, legs, version + 1) /\ legs = OpenedLegs(q, reply)
    OBVIOUS
  <2>2. Answers(s, ProviderLegs(q), reply)
    BY <2>1, ExecuteSettles, Zenon
  <2>3. scenario'[q] = s /\ Starts(q, version + 1)
    BY <2>1, ExecuteSettles, Zenon
  <2>4. Settles(q, legs, version + 1)
    BY <2>1, ExecuteSettles, Zenon
  <2>5. \A p \in Payments :
           legs[p] \in ProviderState => p \in ProviderLegs(q) /\ legs[p] = reply[p]
    BY DEF OpenedLegs, CashLegs, ProviderLegs, Legs, ProviderState
  <2> QED
    BY <2>2, <2>3, <2>4, <2>5
<1>2. OperationsStay /\ Executed(q)' /\ quote'[q].alloc = quote[q].alloc
  BY <1>1, SettleTyped DEF Inv, Executed, TermsKept
<1>3. \A r \in outstanding : r[1] # q
  BY <1>1 DEF Starts, Executable, Inv, BooksInv, QuotesKnown, ProviderInv, RequestsOpen
<1>4. /\ Remembers /\ EventsTold' /\ RequestsOpen'
      /\ paid' \subseteq Calls /\ outstanding' \subseteq Calls /\ events' \subseteq Event
      /\ \A p \in ProviderLegs(q) : reply[p] = "succeeded" => PaidFor(q, p)'
      /\ \A p \in ProviderLegs(q) : reply[p] \in {"processing", "unknown"} => Asked(q, p)'
  <2>1. ProviderLegs(q) \in SUBSET Legs(q) /\ ProviderRequested(q, ProviderLegs(q), reply)
    BY DEF ProviderLegs
  <2>2. /\ reply \in [ProviderLegs(q) -> ProviderState]
        /\ \A p \in ProviderLegs(q) : reply[p] = "failed" => scenario'[q] = "failed"
        /\ \A p \in ProviderLegs(q) : reply[p] \in {"processing", "unknown"} =>
               scenario'[q] # "failed" /\ \A r \in outstanding : r[1] # q
    BY <1>1, <1>3 DEF Answers
  <2> QED
    BY <1>2, <2>1, <2>2, Requested
<1>5. CallsTyped'
  BY <1>4 DEF Execute, CountAttempts, Inv, ProviderInv, CallsTyped
<1>6. /\ \A p \in Payments : legs[p] = "succeeded" => PaidFor(q, p)'
      /\ \A p \in Payments : legs[p] \in {"processing", "unknown"} => Asked(q, p)'
  BY <1>1, <1>4 DEF ProviderState
<1>7. Settles(q, legs, version + 1)
  BY <1>1
<1> QED
  BY <1>4, <1>5, <1>6, <1>7, SettleKeepsInv

LEMMA ContinuesStay ==
    ASSUME Inv, NEW q \in Quotes, NEW legs, Settles(q, legs, version), UNCHANGED <<quote, scenario>>
    PROVE  OperationsStay
  BY SettleTyped DEF Inv

LEMMA ConfirmSettles ==
    ASSUME Inv, NEW q \in Quotes, ConfirmCash(q), NEW legs,
           legs = [p \in Payments |-> IF p \in CashLegs(q) THEN "succeeded" ELSE leg[q][p]]
    PROVE  Settles(q, legs, version)
<1>1. /\ Executed(q) /\ Settle(q, legs, version)
      /\ paid' = paid \cup {<<q, p, 1>> : p \in CashLegs(q)}
      /\ UNCHANGED <<quote, scenario, attempts, lastSeq, shift, shiftOpen, others, outstanding, events>>
  BY DEF ConfirmCash, CashReady
<1>2. CashLegs(q) \subseteq Legs(q) /\ Legs(q) \subseteq Payments
  BY DEF CashLegs, Legs
<1>3. /\ legs \in [Payments -> LegStatus]
      /\ \A p \in Payments : legs[p] # "none" <=> p \in Legs(q)
      /\ \A p \in Payments : legs[p] = "failed" => scenario'[q] = "failed"
  BY <1>1, <1>2 DEF LegStatus, ProviderState, Inv, BooksInv, BooksTyped, OperationsKnown
<1> QED
  BY <1>1, <1>3 DEF Settles, Continues

LEMMA ConfirmCashKeepsInv == ASSUME Inv, NEW q \in Quotes, ConfirmCash(q) PROVE Inv'
<1> PICK legs : legs = [p \in Payments |-> IF p \in CashLegs(q) THEN "succeeded" ELSE leg[q][p]]
  OBVIOUS
<1>1. /\ Executed(q) /\ Settle(q, legs, version)
      /\ paid' = paid \cup {<<q, p, 1>> : p \in CashLegs(q)}
      /\ UNCHANGED <<quote, scenario, attempts, lastSeq, shift, shiftOpen, others, outstanding, events>>
  BY DEF ConfirmCash, CashReady
<1>2. CashLegs(q) \subseteq Legs(q) /\ Legs(q) \subseteq Payments
  BY DEF CashLegs, Legs
<1>4. Settles(q, legs, version)
  BY ConfirmSettles
<1>5. OperationsStay
  BY <1>1, <1>4, ContinuesStay
<1>6. paid \subseteq paid' /\ paid' \subseteq Calls
  BY <1>1, <1>2 DEF Inv, ProviderInv, CallsTyped, Calls
<1>7. /\ Remembers /\ EventsTold' /\ RequestsOpen'
      /\ outstanding' \subseteq Calls /\ events' \subseteq Event
  BY <1>1, <1>5, <1>6, Uncalled
<1>8. CallsTyped'
  BY <1>1, <1>6, <1>7 DEF Inv, ProviderInv, CallsTyped
<1>9. \A p \in Payments : legs[p] = "succeeded" => PaidFor(q, p)'
  <2> SUFFICES ASSUME NEW p \in Payments, legs[p] = "succeeded" PROVE PaidFor(q, p)'
    OBVIOUS
  <2>1. CASE p \in CashLegs(q)
    <3>1. <<q, p, 1>> \in paid'
      BY <1>1, <2>1
    <3> QED
      BY <3>1 DEF PaidFor
  <2>2. CASE p \notin CashLegs(q)
    <3>1. PaidFor(q, p)
      BY <2>2 DEF Inv, ProviderInv, LegsTold
    <3> QED
      BY <1>7, <3>1, ToldStays DEF Inv, ProviderInv
  <2> QED
    BY <2>1, <2>2
<1>10. \A p \in Payments : legs[p] \in {"processing", "unknown"} => Asked(q, p)'
  <2> SUFFICES ASSUME NEW p \in Payments, legs[p] \in {"processing", "unknown"} PROVE Asked(q, p)'
    OBVIOUS
  <2>1. Asked(q, p)
    BY DEF Inv, ProviderInv, LegsTold
  <2> QED
    BY <1>7, <2>1, ToldStays DEF Inv, ProviderInv
<1> QED
  BY <1>4, <1>7, <1>8, <1>9, <1>10, SettleKeepsInv

LEMMA WebhookSettles ==
    ASSUME Inv, NEW e \in events, DeliverWebhook(e), NEW q \in Quotes, q = e.op,
           NEW w \in Payments, w = e.pay, NEW legs, legs = [leg[q] EXCEPT ![w] = e.state]
    PROVE  Settles(q, legs, version)
<1>1. /\ Executed(q) /\ Settle(q, legs, version)
      /\ lastSeq' = [lastSeq EXCEPT ![q][w] = e.seq]
      /\ UNCHANGED <<quote, scenario, attempts, shift, shiftOpen, others, providerVars>>
  BY DEF DeliverWebhook
<1>2. /\ w \in Legs(q) /\ e.state \in ProviderState /\ e.seq \in Nat
      /\ e.state = "succeeded" => PaidFor(q, w)
      /\ e.state \in {"processing", "unknown"} => Asked(q, w)
      /\ e.state = "failed" => scenario[q] = "failed"
  BY DEF Inv, ProviderInv, CallsTyped, Event, EventsTold, EventTold
<1>3. /\ legs = [p \in Payments |-> IF p = w THEN e.state ELSE leg[q][p]]
      /\ leg[q] \in [Payments -> LegStatus]
  BY DEF Inv, BooksInv, BooksTyped
<1>4. /\ legs \in [Payments -> LegStatus]
      /\ \A p \in Payments : legs[p] # "none" <=> p \in Legs(q)
      /\ \A p \in Payments : legs[p] = "failed" => scenario'[q] = "failed"
  <2>1. e.state \in LegStatus /\ e.state # "none"
    BY <1>2 DEF LegStatus, ProviderState
  <2> QED
    BY <1>1, <1>2, <1>3, <2>1 DEF Inv, BooksInv, OperationsKnown
<1> QED
  BY <1>1, <1>4 DEF Settles, Continues

LEMMA WebhookKeepsInv == ASSUME Inv, NEW e \in events, DeliverWebhook(e) PROVE Inv'
<1> PICK q \in Quotes : q = e.op
  BY DEF Inv, ProviderInv, CallsTyped, Event
<1> PICK w \in Payments : w = e.pay
  BY DEF Inv, ProviderInv, CallsTyped, Event
<1> PICK legs : legs = [leg[q] EXCEPT ![w] = e.state]
  OBVIOUS
<1>1. /\ Executed(q) /\ Settle(q, legs, version)
      /\ lastSeq' = [lastSeq EXCEPT ![q][w] = e.seq]
      /\ UNCHANGED <<quote, scenario, attempts, shift, shiftOpen, others, providerVars>>
  BY DEF DeliverWebhook
<1>2. /\ w \in Legs(q) /\ e.state \in ProviderState /\ e.seq \in Nat
      /\ e.state = "succeeded" => PaidFor(q, w)
      /\ e.state \in {"processing", "unknown"} => Asked(q, w)
      /\ e.state = "failed" => scenario[q] = "failed"
  BY DEF Inv, ProviderInv, CallsTyped, Event, EventsTold, EventTold
<1>3. /\ legs = [p \in Payments |-> IF p = w THEN e.state ELSE leg[q][p]]
      /\ leg[q] \in [Payments -> LegStatus]
  BY DEF Inv, BooksInv, BooksTyped
<1>5. Settles(q, legs, version)
  BY WebhookSettles
<1>6. OperationsStay /\ paid \subseteq paid' /\ paid' \subseteq Calls
  BY <1>1, <1>5, ContinuesStay DEF providerVars, Inv, ProviderInv, CallsTyped
<1>7. /\ Remembers /\ EventsTold' /\ RequestsOpen'
      /\ outstanding' \subseteq Calls /\ events' \subseteq Event
  BY <1>1, <1>6, Uncalled DEF providerVars
<1>8. CallsTyped'
  BY <1>1, <1>2, <1>6, <1>7 DEF Inv, ProviderInv, CallsTyped
<1>9. /\ \A p \in Payments : legs[p] = "succeeded" => PaidFor(q, p)
      /\ \A p \in Payments : legs[p] \in {"processing", "unknown"} => Asked(q, p)
  BY <1>2, <1>3 DEF Inv, ProviderInv, LegsTold
<1>10. /\ \A p \in Payments : legs[p] = "succeeded" => PaidFor(q, p)'
       /\ \A p \in Payments : legs[p] \in {"processing", "unknown"} => Asked(q, p)'
  BY <1>7, <1>9, ToldStays DEF Inv, ProviderInv
<1> QED
  BY <1>5, <1>7, <1>8, <1>10, SettleKeepsInv

\* Inquiring and retrying: the answers settle the operation, or the request is rolled back
\* and only the provider has seen it.
CallOutcome(q, P, reply) ==
    \/ /\ Settle(q, Answered(q, reply), version) /\ CountAttempts(q, P)
       /\ UNCHANGED <<quote, scenario, lastSeq, shift, shiftOpen, others>>
    \/ ~CanFinalize(q) /\ UNCHANGED <<saleVars, quote, operationVars, shiftVars>>

LEMMA InquireCalls ==
    ASSUME NEW q \in Quotes, Inquire(q)
    PROVE  \E P, reply : /\ P = LegsIn(q, {"processing", "unknown"})
                         /\ reply = Reply(q, scenario[q], P, TRUE)
                         /\ Executed(q) /\ ProviderInquired(q, P, reply)
                         /\ CallOutcome(q, P, reply)
  BY ZenonT(30) DEF Inquire, CallAndSettle, CallOutcome, CanSettle

LEMMA RetryCalls ==
    ASSUME NEW q \in Quotes, Retry(q)
    PROVE  \E P, reply : /\ P = Retryable(q) /\ P # {}
                         /\ reply = Reply(q, scenario[q], P, FALSE)
                         /\ Executed(q) /\ ProviderRequested(q, P, reply)
                         /\ CallOutcome(q, P, reply)
  BY ZenonT(30) DEF Retry, CallAndSettle, CallOutcome, CanSettle

LEMMA BooksStay ==
    ASSUME BooksInv, UNCHANGED <<saleVars, quote, status, scenario, leg, shiftVars>>,
           paid \subseteq paid'
    PROVE  BooksInv'
<1>1. BooksTyped' /\ QuotesKnown' /\ OperationsKnown' /\ PartialsBlock'
  BY DEF saleVars, shiftVars, BooksInv, BooksTyped, QuotesKnown, OperationsKnown,
         PartialsBlock, Executed, Legs
<1>2. BooksKnown'
  BY DEF saleVars, shiftVars, BooksInv, BooksKnown, RecordedRefundWasPaid, Legs
<1>3. LedgerMatchesSale' /\ LedgerKnown'
  BY DEF saleVars, shiftVars, BooksInv, LedgerMatchesSale, Refunded, Allocated, QuotedBack, Sold,
         LedgerKnown, QuoteTotal
<1>4. FitsWithQuotes'
  BY DEF saleVars, shiftVars, BooksInv, FitsWithQuotes, Undeclined, Committed, Allocated, Executable
<1> QED
  BY <1>1, <1>2, <1>3, <1>4 DEF BooksInv

LEMMA AnsweredLegs ==
    ASSUME Inv, NEW q \in Quotes, NEW P \in SUBSET Legs(q), NEW reply,
           Answers(scenario[q], P, reply), Executed(q), NEW legs, legs = Answered(q, reply)
    PROVE  /\ legs \in [Payments -> LegStatus]
           /\ \A p \in Payments : legs[p] = IF p \in P THEN reply[p] ELSE leg[q][p]
           /\ \A p \in Payments : legs[p] # "none" <=> p \in Legs(q)
           /\ \A p \in Payments : legs[p] = "failed" => scenario[q] = "failed"
<1>1. DOMAIN reply = P /\ \A p \in P : reply[p] \in ProviderState
  BY DEF Answers
<1>2. legs = [p \in Payments |-> IF p \in P THEN reply[p] ELSE leg[q][p]]
  BY <1>1 DEF Answered
<1>3. /\ \A p \in Payments : leg[q][p] \in LegStatus
      /\ \A p \in Payments : leg[q][p] # "none" <=> p \in Legs(q)
      /\ \A p \in Payments : leg[q][p] = "failed" => scenario[q] = "failed"
  BY DEF Inv, BooksInv, BooksTyped, OperationsKnown
<1>4. \A p \in P : reply[p] # "none" /\ reply[p] \in LegStatus
  BY <1>1 DEF LegStatus, ProviderState
<1> QED
  BY <1>2, <1>3, <1>4 DEF Answers

LEMMA CallStays ==
    ASSUME Inv, NEW q \in Quotes, NEW P \in SUBSET Legs(q), NEW reply,
           Answers(scenario[q], P, reply), Executed(q), CallOutcome(q, P, reply)
    PROVE  OperationsStay /\ scenario' = scenario /\ quote' = quote
<1>1. CASE UNCHANGED <<saleVars, quote, operationVars, shiftVars>>
  BY <1>1 DEF OperationsStay, operationVars, Executed
<1>2. CASE /\ Settle(q, Answered(q, reply), version)
           /\ UNCHANGED <<quote, scenario, lastSeq, shift, shiftOpen, others>>
  <2> PICK legs : legs = Answered(q, reply)
    OBVIOUS
  <2>1. Settles(q, legs, version)
    BY <1>2, AnsweredLegs DEF Settles, Continues
  <2> QED
    BY <1>2, <2>1, ContinuesStay
<1> QED
  BY <1>1, <1>2 DEF CallOutcome

LEMMA CallKeepsInv ==
    ASSUME Inv, NEW q \in Quotes, NEW P \in SUBSET Legs(q), NEW reply,
           Answers(scenario[q], P, reply), Executed(q), CallOutcome(q, P, reply),
           Remembers, EventsTold', RequestsOpen',
           paid' \subseteq Calls, outstanding' \subseteq Calls, events' \subseteq Event,
           \A p \in P : reply[p] = "succeeded" => PaidFor(q, p)',
           \A p \in P : reply[p] \in {"processing", "unknown"} => Asked(q, p)'
    PROVE  Inv'
<1>1. \A r \in Quotes, p \in Payments :
         /\ leg[r][p] = "succeeded" => PaidFor(r, p)'
         /\ leg[r][p] \in {"processing", "unknown"} => Asked(r, p)'
  BY ToldStays DEF Inv, ProviderInv, LegsTold
<1>2. CASE UNCHANGED <<saleVars, quote, operationVars, shiftVars>>
  <2>1. BooksInv'
    BY <1>2, BooksStay DEF Inv, Remembers, operationVars
  <2>2. LegsTold' /\ CallsTyped'
    BY <1>1, <1>2 DEF LegsTold, CallsTyped, Inv, ProviderInv, operationVars
  <2> QED
    BY <2>1, <2>2 DEF Inv, ProviderInv
<1>3. CASE /\ Settle(q, Answered(q, reply), version) /\ CountAttempts(q, P)
           /\ UNCHANGED <<quote, scenario, lastSeq, shift, shiftOpen, others>>
  <2> PICK legs : legs = Answered(q, reply)
    OBVIOUS
  <2>1. Settles(q, legs, version)
    BY <1>3, AnsweredLegs DEF Settles, Continues
  <2>2. /\ \A p \in Payments : legs[p] = "succeeded" => PaidFor(q, p)'
        /\ \A p \in Payments : legs[p] \in {"processing", "unknown"} => Asked(q, p)'
    <3>1. \A p \in Payments : legs[p] = IF p \in P THEN reply[p] ELSE leg[q][p]
      BY AnsweredLegs
    <3> QED
      BY <1>1, <3>1
  <2>3. CallsTyped'
    BY <1>3 DEF CountAttempts, CallsTyped, Inv, ProviderInv
  <2> QED
    BY <2>1, <2>2, <2>3, SettleKeepsInv
<1> QED
  BY <1>2, <1>3 DEF CallOutcome

LEMMA InquireKeepsInv == ASSUME Inv, NEW q \in Quotes, Inquire(q) PROVE Inv'
<1>1. PICK P, reply : /\ P = LegsIn(q, {"processing", "unknown"})
                      /\ reply = Reply(q, scenario[q], P, TRUE)
                      /\ Executed(q) /\ ProviderInquired(q, P, reply)
                      /\ CallOutcome(q, P, reply)
  BY InquireCalls, Zenon
<1>2. P \in SUBSET Legs(q) /\ P \in SUBSET Payments
  BY <1>1 DEF LegsIn, ProviderLegs, Legs
<1>3. scenario[q] \in Scenarios /\ CallsTyped
  BY <1>1 DEF Inv, BooksInv, BooksTyped, OperationsKnown, ProviderInv
<1>4. Answers(scenario[q], P, reply)
  BY <1>1, <1>2, <1>3, ReplyAnswers, Zenon
<1>5. \A p \in P : Asked(q, p)
  BY <1>1, <1>2 DEF LegsIn, Inv, ProviderInv, LegsTold
<1>6. OperationsStay
  BY <1>1, <1>2, <1>4, CallStays, Zenon
<1>7. /\ Remembers /\ EventsTold' /\ RequestsOpen'
      /\ paid' \subseteq Calls /\ outstanding' \subseteq Calls /\ events' \subseteq Event
      /\ \A p \in P : reply[p] = "succeeded" /\ Asked(q, p) => PaidFor(q, p)'
  BY <1>1, <1>6, Inquired, Zenon
<1>8. /\ \A p \in P : reply[p] = "succeeded" => PaidFor(q, p)'
      /\ \A p \in P : reply[p] \in {"processing", "unknown"} => Asked(q, p)'
  BY <1>5, <1>7, ToldStays DEF Inv, ProviderInv
<1> QED
  BY <1>1, <1>2, <1>4, <1>7, <1>8, CallKeepsInv, Zenon

LEMMA RetryKeepsInv == ASSUME Inv, NEW q \in Quotes, Retry(q) PROVE Inv'
<1>1. PICK P, reply : /\ P = Retryable(q) /\ P # {}
                      /\ reply = Reply(q, scenario[q], P, FALSE)
                      /\ Executed(q) /\ ProviderRequested(q, P, reply)
                      /\ CallOutcome(q, P, reply)
  BY RetryCalls, Zenon
<1>2. P \in SUBSET Legs(q) /\ P \in SUBSET Payments
  BY <1>1 DEF Retryable, LegsIn, ProviderLegs, Legs
<1>3. scenario[q] \in Scenarios /\ CallsTyped
  BY <1>1 DEF Inv, BooksInv, BooksTyped, OperationsKnown, ProviderInv
<1>4. Answers(scenario[q], P, reply)
  BY <1>1, <1>2, <1>3, ReplyAnswers, Zenon
<1>5. scenario[q] = "failed"
  <2>1. PICK p \in Legs(q) : p \in Payments /\ leg[q][p] = "failed"
    BY <1>1 DEF Retryable, LegsIn, ProviderLegs, Legs
  <2> QED
    BY <2>1 DEF Inv, BooksInv, OperationsKnown
<1>6. OperationsStay /\ scenario' = scenario /\ quote' = quote
  BY <1>1, <1>2, <1>4, CallStays, Zenon
<1>7. Executed(q)' /\ quote'[q].alloc = quote[q].alloc
  BY <1>1, <1>6 DEF OperationsStay
<1>8. /\ reply \in [P -> ProviderState]
      /\ \A p \in P : reply[p] = "failed" => scenario'[q] = "failed"
      /\ \A p \in P : reply[p] \in {"processing", "unknown"} =>
             scenario'[q] # "failed" /\ \A r \in outstanding : r[1] # q
  BY <1>4, <1>5, <1>6 DEF Answers
<1>9. /\ Remembers /\ EventsTold' /\ RequestsOpen'
      /\ paid' \subseteq Calls /\ outstanding' \subseteq Calls /\ events' \subseteq Event
      /\ \A p \in P : reply[p] = "succeeded" => PaidFor(q, p)'
      /\ \A p \in P : reply[p] \in {"processing", "unknown"} => Asked(q, p)'
  BY <1>1, <1>2, <1>6, <1>7, <1>8, Requested, Zenon
<1> QED
  BY <1>1, <1>2, <1>4, <1>9, CallKeepsInv, Zenon

LEMMA RollsBackKeepsInv == ASSUME Inv, NEW q \in Quotes, ExecuteRollsBack(q) PROVE Inv'
<1>1. /\ paid' = paid \cup {<<q, p, 0>> : p \in ProviderLegs(q)}
      /\ UNCHANGED <<saleVars, quote, operationVars, shiftVars, outstanding, events>>
  BY DEF ExecuteRollsBack
<1>2. paid \subseteq paid' /\ paid' \subseteq Calls
  BY <1>1 DEF Inv, ProviderInv, CallsTyped, Calls, ProviderLegs, Legs
<1>3. OperationsStay
  BY <1>1 DEF OperationsStay, operationVars, Executed
<1>4. /\ Remembers /\ EventsTold' /\ RequestsOpen'
      /\ outstanding' \subseteq Calls /\ events' \subseteq Event
  BY <1>1, <1>2, <1>3, Uncalled
<1>5. BooksInv'
  BY <1>1, <1>2, BooksStay DEF Inv, operationVars
<1>6. LegsTold'
  BY <1>1, <1>4, ToldStays DEF LegsTold, Inv, ProviderInv, operationVars
<1>7. CallsTyped'
  BY <1>1, <1>2, <1>4 DEF CallsTyped, Inv, ProviderInv, operationVars
<1> QED
  BY <1>4, <1>5, <1>6, <1>7 DEF Inv, ProviderInv

LEMMA ProviderSettlesKeepsInv == ASSUME Inv, NEW r \in outstanding, ProviderSettles(r) PROVE Inv'
<1> PICK q \in Quotes : q = r[1]
  BY DEF Inv, ProviderInv, CallsTyped, Calls
<1> PICK settled \in SUBSET {s \in outstanding : s[1] = q} : settled = {r}
  OBVIOUS
<1>1. /\ paid' = paid \cup settled /\ outstanding' = outstanding \ settled
      /\ events' = events \cup {Webhook(q, s[2], "succeeded") : s \in settled}
      /\ UNCHANGED <<saleVars, quote, operationVars, shiftVars>>
  BY DEF ProviderSettles
<1>2. OperationsStay
  BY <1>1 DEF OperationsStay, operationVars, Executed
<1>3. /\ Remembers /\ EventsTold' /\ RequestsOpen'
      /\ paid' \subseteq Calls /\ outstanding' \subseteq Calls /\ events' \subseteq Event
  BY <1>1, <1>2, Settled
<1>4. BooksInv'
  BY <1>1, <1>3, BooksStay DEF Inv, operationVars, Remembers
<1>5. LegsTold'
  BY <1>1, <1>3, ToldStays DEF LegsTold, Inv, ProviderInv, operationVars
<1>6. CallsTyped'
  BY <1>1, <1>3 DEF CallsTyped, Inv, ProviderInv, operationVars
<1> QED
  BY <1>3, <1>4, <1>5, <1>6 DEF Inv, ProviderInv

\* A step that neither calls the provider nor touches a leg.
LEMMA ProviderIdle ==
    ASSUME Inv, OperationsStay, UNCHANGED <<leg, attempts, lastSeq, providerVars>>
    PROVE  ProviderInv'
<1>1. paid \subseteq paid' /\ paid' \subseteq Calls
  BY DEF providerVars, Inv, ProviderInv, CallsTyped
<1>2. /\ Remembers /\ EventsTold' /\ RequestsOpen'
      /\ outstanding' \subseteq Calls /\ events' \subseteq Event
  BY <1>1, Uncalled DEF providerVars
<1>3. LegsTold'
  BY <1>2, ToldStays DEF LegsTold, Inv, ProviderInv
<1> QED
  BY <1>1, <1>2, <1>3 DEF ProviderInv, CallsTyped, Inv

LEMMA RetryTaxKeepsInv == ASSUME Inv, NEW q \in Quotes, RetryTax(q) PROVE Inv'
<1>1. /\ q \in finalized /\ status[q] = "tax_pending"
      /\ UNCHANGED <<saleVars, quote, scenario, leg, attempts, lastSeq, shiftVars, providerVars>>
  BY DEF RetryTax
<1>2. PICK s \in {"completed", "tax_pending"} : status' = [status EXCEPT ![q] = s]
  BY DEF RetryTax
<1>3. /\ status' \in [Quotes -> OperationStatus] /\ status'[q] # "none"
      /\ \A r \in Quotes \ {q} : status'[r] = status[r]
  BY <1>2 DEF Inv, BooksInv, BooksTyped, OperationStatus
<1>4. \A r \in Quotes : Executed(r)' <=> Executed(r)
  BY <1>1, <1>3 DEF Executed
<1>5. OperationsStay
  BY <1>1, <1>4 DEF OperationsStay
<1>6. ProviderInv'
  BY <1>1, <1>5, ProviderIdle
<1>7. BooksTyped' /\ QuotesKnown' /\ TermsKept
  BY <1>1, <1>3, <1>4 DEF Inv, BooksInv, BooksTyped, QuotesKnown, TermsKept, saleVars, shiftVars
<1>8. OperationsKnown' /\ PartialsBlock'
  <2>1. \A r \in Quotes : Legs(r)' = Legs(r)
    BY <1>1 DEF Legs
  <2> QED
    BY <1>1, <1>3, <1>4, <2>1
       DEF Inv, BooksInv, OperationsKnown, PartialsBlock, saleVars
<1>9. BooksKnown' /\ LedgerMatchesSale' /\ LedgerKnown'
  BY <1>1 DEF Inv, BooksInv, BooksKnown, RecordedRefundWasPaid, LedgerMatchesSale, Refunded,
              Allocated, QuotedBack, Sold, LedgerKnown, QuoteTotal, Legs,
              saleVars, shiftVars, providerVars
<1>10. FitsWithQuotes'
  <2>1. CommittedTo' = CommittedTo
    BY <1>1, <1>3 DEF CommittedTo, saleVars
  <2>2. \A p \in Payments : Committed(p)' = Committed(p)
    BY <1>7, <2>1, CommittedStays DEF Inv, BooksInv
  <2> QED
    BY <1>1, <2>2 DEF Inv, BooksInv, FitsWithQuotes, Undeclined, Executable, saleVars
<1> QED
  BY <1>6, <1>7, <1>8, <1>9, <1>10 DEF Inv, BooksInv

LEMMA ShiftKeepsInv == ASSUME Inv, SellAnother \/ CloseShift \/ OpenShift PROVE Inv'
<1>1. UNCHANGED <<saleVars, quote, operationVars, providerVars>>
  BY DEF SellAnother, CloseShift, OpenShift
<1>2. OperationsStay /\ TermsKept
  BY <1>1 DEF OperationsStay, TermsKept, operationVars, Executed
<1>3. ProviderInv'
  BY <1>1, <1>2, ProviderIdle DEF operationVars
<1>4. /\ shift \in 1..MaxShifts /\ shift' \in 1..MaxShifts /\ shift <= shift' /\ shiftOpen' \in BOOLEAN
      /\ shiftSales' \in [1..MaxShifts -> Nat] /\ others' \in [1..MaxShifts -> Nat]
      /\ \A s \in 1..MaxShifts : s # shift => shiftSales'[s] = shiftSales[s] /\ others'[s] = others[s]
  <2>1. /\ shift \in 1..MaxShifts /\ shiftOpen \in BOOLEAN /\ MaxShifts \in Nat
        /\ shiftSales \in [1..MaxShifts -> Nat] /\ others \in [1..MaxShifts -> Nat]
    BY BoundAssumption DEF Inv, BooksInv, BooksTyped
  <2>2. CASE SellAnother
    <3> PICK n \in Nat : n = shiftSales[shift] + 1
      BY <2>1
    <3> PICK m \in Nat : m = others[shift] + 1
      BY <2>1
    <3>1. /\ shiftSales' = [shiftSales EXCEPT ![shift] = n] /\ others' = [others EXCEPT ![shift] = m]
          /\ shift' = shift /\ shiftOpen' = shiftOpen
      BY <2>2 DEF SellAnother
    <3>2. shift \in Nat
      BY <2>1
    <3> QED
      BY <2>1, <3>1, <3>2
  <2>3. CASE CloseShift
    <3>1. Sold(shift) - (IF shift = SaleShift THEN refunded ELSE 0) \in Nat
      <4>1. refunded <= Total /\ refunded \in Nat
        BY LedgerIs DEF Inv, BooksInv, BooksTyped
      <4>2. Sold(shift) \in Nat /\ (shift = SaleShift => Total <= Sold(shift))
        BY BackTyped DEF Inv, BooksInv
      <4> QED
        BY <4>1, <4>2, TotalAssumption
    <3> PICK n \in Nat : n = Sold(shift) - (IF shift = SaleShift THEN refunded ELSE 0)
      BY <3>1
    <3>2. /\ shiftSales' = [shiftSales EXCEPT ![shift] = n] /\ others' = others
          /\ shift' = shift /\ shiftOpen' = FALSE
      BY <2>3 DEF CloseShift
    <3>3. shiftSales' \in [1..MaxShifts -> Nat] /\ others' \in [1..MaxShifts -> Nat]
      BY <2>1, <3>2
    <3>4. \A s \in 1..MaxShifts : s # shift => shiftSales'[s] = shiftSales[s] /\ others'[s] = others[s]
      BY <2>1, <3>2
    <3>5. shift' \in 1..MaxShifts /\ shift <= shift' /\ shiftOpen' \in BOOLEAN
      <4>1. shift \in Nat
        BY <2>1
      <4>2. shiftOpen' \in BOOLEAN
        BY <3>2
      <4>3. shift' = shift
        BY <3>2
      <4> QED
        BY <2>1, <4>1, <4>2, <4>3
    <3> QED
      BY <2>1, <3>3, <3>4, <3>5
  <2>4. CASE OpenShift
    <3>1. /\ shiftSales' = shiftSales /\ others' = others
          /\ shift' = shift + 1 /\ shift < MaxShifts /\ shiftOpen' = TRUE
      BY <2>4 DEF OpenShift
    <3> QED
      BY <2>1, <3>1
  <2> QED
    BY <2>2, <2>3, <2>4
<1>5. BooksTyped'
  BY <1>1, <1>4 DEF Inv, BooksInv, BooksTyped, saleVars, operationVars
<1>6. QuotesKnown'
  <2>1. \A q \in Quotes : quote[q].shift \in Nat /\ quote[q].shift <= shift
    BY DEF Inv, BooksInv, BooksTyped, QuoteRow, QuotesKnown
  <2>2. \A q \in Quotes : quote[q].shift <= shift'
    BY <1>4, <2>1
  <2> QED
    BY <1>1, <2>2 DEF Inv, BooksInv, QuotesKnown, Executed, saleVars, operationVars
<1>7. OperationsKnown' /\ PartialsBlock' /\ FitsWithQuotes'
  BY <1>1 DEF Inv, BooksInv, OperationsKnown, PartialsBlock, FitsWithQuotes, Undeclined,
              Committed, Allocated, Executable, Executed, Legs, saleVars, operationVars
<1>8. BooksKnown' /\ LedgerKnown'
  <2>1. BooksKnown'
    BY <1>1 DEF Inv, BooksInv, BooksKnown, RecordedRefundWasPaid, Legs, saleVars, providerVars
  <2>2. refunded' = SumFunctionOnSet(QuoteTotal', finalized')
    BY <1>1 DEF Inv, BooksInv, LedgerKnown, QuoteTotal, saleVars
  <2>3. ASSUME NEW s \in 1..MaxShifts, s > shift' PROVE shiftSales'[s] = 0 /\ others'[s] = 0
    <3>1. s > shift /\ s # shift
      BY <1>4, <2>3
    <3> QED
      BY <1>4, <3>1 DEF Inv, BooksInv, LedgerKnown
  <2> QED
    BY <2>1, <2>2, <2>3 DEF LedgerKnown
<1>9. LedgerMatchesSale'
  <2>1. refunded <= Total /\ refunded = RefundSum /\ (shiftOpen => TakingsAgree)
    BY LedgerIs DEF Inv, BooksInv
  <2>2. RefundSum' = RefundSum
    BY <1>1, <1>2, RefundSumStays DEF Inv, BooksInv, saleVars
  <2>3. ASSUME SellAnother PROVE TakingsAgree'
    <3>1. /\ shiftOpen /\ shift' = shift
          /\ shiftSales'[shift] = shiftSales[shift] + 1 /\ others'[shift] = others[shift] + 1
          /\ shiftSales[shift] \in Nat /\ others[shift] \in Nat
      BY <2>3 DEF SellAnother, Inv, BooksInv, BooksTyped
    <3>2. ShiftBack' = ShiftBack /\ ShiftBack \in Nat /\ Sold(shift) \in Nat
      BY <1>1, <3>1, BackTyped DEF ShiftBack, ShiftBooked, QuoteTotal, saleVars, Inv, BooksInv
    <3>3. Sold(shift)' = Sold(shift) + 1
      BY <3>1, TotalAssumption DEF Sold
    <3>4. shiftSales'[shift'] = shiftSales[shift] + 1 /\ Sold(shift)' = Sold(shift) + 1
      BY <3>1, <3>3
    <3> PICK m \in Nat : m = shiftSales[shift]
      BY <3>1
    <3> PICK n \in Nat : n = Sold(shift)
      BY <3>2
    <3> PICK back \in Nat : back = ShiftBack
      BY <3>2
    <3>5. m <= n /\ n <= m + back /\ (shift = SaleShift => n = m + back)
      BY <2>1, <3>1 DEF TakingsAgree
    <3>6. m + 1 <= n + 1 /\ n + 1 <= (m + 1) + back /\ (shift = SaleShift => n + 1 = (m + 1) + back)
      BY <3>5
    <3>7. shiftSales'[shift'] = m + 1 /\ Sold(shift)' = n + 1 /\ ShiftBack' = back /\ shift' = shift
      BY <3>1, <3>2, <3>4
    <3> QED
      BY <3>6, <3>7 DEF TakingsAgree, SaleShift
  <2>4. ASSUME OpenShift PROVE TakingsAgree'
    <3>1. shift' = shift + 1 /\ shift' \in 1..MaxShifts /\ shift' # SaleShift
      BY <1>4, <2>4 DEF OpenShift, SaleShift
    <3>2. shiftSales'[shift'] = 0 /\ others'[shift'] = 0
      BY <1>4, <2>4, <3>1 DEF OpenShift, Inv, BooksInv, LedgerKnown, BooksTyped
    <3>3. Sold(shift)' = 0
      BY <3>1, <3>2 DEF Sold
    <3>4. ShiftBack' = 0
      <4>1. \A q \in Quotes : quote[q].shift \in Nat /\ quote[q].shift <= shift
        BY DEF Inv, BooksInv, BooksTyped, QuoteRow, QuotesKnown
      <4>2. \A q \in finalized : quote[q].shift # shift + 1
        BY <1>4, <4>1 DEF Inv, BooksInv, BooksTyped
      <4>3. ShiftBooked' = {}
        BY <1>1, <3>1, <4>2 DEF ShiftBooked, saleVars
      <4> QED
        BY <4>3, SumEmpty DEF ShiftBack
    <3> QED
      BY <3>1, <3>2, <3>3, <3>4 DEF TakingsAgree, SaleShift
  <2>5. refunded' <= Total /\ refunded' = RefundSum' /\ (shiftOpen' => TakingsAgree')
    BY <1>1, <2>1, <2>2, <2>3, <2>4 DEF CloseShift, saleVars
  <2> QED
    BY <2>5 DEF LedgerMatchesSale, RefundSum, QuotedBack, QuoteTotal, ShiftBooked, ShiftBack,
                TakingsAgree
<1> QED
  BY <1>3, <1>5, <1>6, <1>7, <1>8, <1>9 DEF Inv, BooksInv

--------------------------------------------------------------------------------
(* Creating a quote *)

\* What a quote may take fits beside everything the payment has committed.
LEMMA AvailableFits ==
    ASSUME BooksInv, NEW p \in Payments, Committed(p) <= Amount[p],
           NEW n \in Nat, n <= Available(p)
    PROVE  Committed(p) + n <= Amount[p]
<1> DEFINE A == {q \in Quotes : <<q, p>> \in negative}
           B == {q \in Quotes : status[q] \in Blocking}
           alloc == Alloc(p)
<1>1. /\ \A q \in Quotes : alloc[q] \in Nat /\ alloc[q] = quote[q].alloc[p]
      /\ Committed(p) = SumFunctionOnSet(alloc, CommittedTo) /\ Committed(p) \in Nat
  BY AllocTyped, CommittedIs DEF BooksInv
<1>2. /\ Refunded(p) = SumFunctionOnSet(alloc, A)
      /\ Reserved(p) = SumFunctionOnSet(alloc, B)
  BY DEF Refunded, Reserved, Allocated, Alloc
<1>3. \A q \in CommittedTo : alloc[q] = 0 \/ q \in A \/ q \in B
  <2> SUFFICES ASSUME NEW q \in finalized, alloc[q] # 0, q \in Quotes PROVE <<q, p>> \in negative
    BY DEF CommittedTo
  <2>1. p \in Legs(q)
    BY <1>1 DEF Legs
  <2> QED
    BY <2>1 DEF BooksInv, BooksKnown
<1>4. A \in SUBSET Quotes /\ B \in SUBSET Quotes /\ CommittedTo \in SUBSET Quotes
  BY DEF CommittedTo
<1>5. IsFiniteSet(Quotes) /\ IsFiniteSet(A) /\ IsFiniteSet(B)
  BY <1>4, FiniteAssumption, FiniteSubset
<1> HIDE DEF A, B, alloc
<1>6. Committed(p) <= Refunded(p) + Reserved(p)
  BY <1>1, <1>2, <1>3, <1>4, <1>5, SumCovered
<1>7. Refunded(p) \in Nat /\ Reserved(p) \in Nat
  BY <1>1, <1>2, <1>4, <1>5, SumNat
<1>8. Amount[p] \in Nat
  BY AmountAssumption
<1> QED
  BY <1>1, <1>6, <1>7, <1>8 DEF Available

LEMMA CreateQuoteKeepsInv == ASSUME Inv, NEW q \in Quotes, CreateQuote(q) PROVE Inv'
<1>1. PICK total \in 1..(Total - refunded), alloc \in [Payments -> 0..Total] :
         /\ Allocates(alloc, total)
         /\ quote' = [quote EXCEPT ![q] =
               [state |-> "active", order_version |-> version, total |-> total,
                shift |-> shift, alloc |-> alloc]]
  BY DEF CreateQuote
<1>2. /\ quote[q].state = "none" /\ ~Executed(q)
      /\ UNCHANGED <<saleVars, operationVars, shiftVars, providerVars>>
  BY DEF CreateQuote, Inv, BooksInv, QuotesKnown
<1> PICK row : row = [state |-> "active", order_version |-> version, total |-> total,
                      shift |-> shift, alloc |-> alloc]
  OBVIOUS
<1>3. /\ total \in Nat /\ version \in Nat /\ shift \in Nat /\ alloc \in [Payments -> Nat]
      /\ total = SumFunctionOnSet(alloc, Payments)
      /\ \A p \in Payments : alloc[p] <= Available(p)
  BY <1>1, TotalAssumption DEF Allocates, Inv, BooksInv, BooksTyped
<1>4. /\ row \in QuoteRow /\ row.state = "active" /\ row.order_version = version
      /\ row.total = total /\ row.shift = shift /\ row.alloc = alloc
  BY <1>3 DEF QuoteRow
<1>5. /\ quote' \in [Quotes -> QuoteRow] /\ quote'[q] = row
      /\ \A r \in Quotes \ {q} : quote'[r] = quote[r]
  BY <1>1, <1>4 DEF Inv, BooksInv, BooksTyped
<1>6. OperationsStay
  BY <1>2, <1>5 DEF OperationsStay, operationVars, Executed
<1>7. ProviderInv'
  BY <1>2, <1>6, ProviderIdle DEF operationVars
<1>8. BooksTyped' /\ QuotesKnown'
  <2>1. BooksTyped'
    BY <1>2, <1>5 DEF Inv, BooksInv, BooksTyped, saleVars, operationVars, shiftVars
  <2>2. ASSUME NEW r \in Quotes
        PROVE  /\ quote'[r].state = "consumed" <=> Executed(r)'
               /\ quote'[r].total = SumFunctionOnSet(quote'[r].alloc, Payments)
               /\ quote'[r].shift <= shift' /\ quote'[r].order_version <= version'
    <3>1. Executed(r)' = Executed(r) /\ shift' = shift /\ version' = version
      BY <1>2 DEF Executed, operationVars, shiftVars, saleVars
    <3>2. CASE r = q
      BY <1>2, <1>3, <1>4, <1>5, <3>1, <3>2
    <3>3. CASE r # q
      BY <1>5, <3>1, <3>3 DEF Inv, BooksInv, QuotesKnown
    <3> QED
      BY <3>2, <3>3
  <2> QED
    BY <2>1, <2>2 DEF QuotesKnown
<1>9. \A r \in Quotes : r # q => Legs(r)' = Legs(r)
  BY <1>5 DEF Legs
<1>10. OperationsKnown' /\ PartialsBlock'
  <2>1. OperationsKnown'
    BY <1>2, <1>9 DEF Inv, BooksInv, OperationsKnown, Executed, saleVars, operationVars
  <2> QED
    BY <1>2, <2>1 DEF Inv, BooksInv, PartialsBlock, saleVars, operationVars
<1>11. q \notin finalized /\ status[q] \notin Blocking
  BY <1>2 DEF Inv, BooksInv, OperationsKnown, Executed, Blocking
<1>12. BooksKnown'
  <2>1. {entry \in Quotes \X Payments : entry[1] \in finalized' /\ entry[2] \in Legs(entry[1])'}
          = {entry \in Quotes \X Payments : entry[1] \in finalized /\ entry[2] \in Legs(entry[1])}
    BY <1>2, <1>9, <1>11 DEF saleVars
  <2> QED
    BY <1>2, <2>1 DEF Inv, BooksInv, BooksKnown, RecordedRefundWasPaid, saleVars, shiftVars,
                      providerVars
\* The sums are over operations, and q is none.
<1>13. ASSUME NEW p \in Payments, NEW T \in SUBSET Quotes, q \notin T
       PROVE  SumFunctionOnSet(Alloc(p)', T) = SumFunctionOnSet(Alloc(p), T)
  <2>1. \A r \in T : Alloc(p)'[r] = Alloc(p)[r]
    BY <1>5, <1>13 DEF Alloc
  <2>2. IsFiniteSet(T)
    BY FiniteAssumption, FiniteSubset
  <2> HIDE DEF Alloc
  <2> QED
    BY <2>1, <2>2, SumSame
<1>14. LedgerMatchesSale'
  <2>1. ASSUME NEW p \in Payments PROVE Refunded(p)' = Refunded(p)
    <3>1. Booked(p) \in SUBSET Quotes /\ q \notin Booked(p) /\ Booked(p)' = Booked(p)
      BY <1>2, <1>11 DEF Booked, Inv, BooksInv, BooksKnown, saleVars
    <3>2. /\ Refunded(p) = SumFunctionOnSet(Alloc(p), Booked(p))
          /\ Refunded(p)' = SumFunctionOnSet(Alloc(p)', Booked(p)')
      BY DEF Refunded, Allocated, Alloc, Booked
    <3> QED
      BY <1>13, <3>1, <3>2
  <2>2. RefundSum' = RefundSum
    BY <2>1 DEF RefundSum
  <2>3. ShiftBooked' = ShiftBooked /\ ShiftBooked \in SUBSET Quotes /\ q \notin ShiftBooked
    BY <1>2, <1>5, <1>11 DEF ShiftBooked, saleVars, shiftVars, Inv, BooksInv, BooksTyped
  <2>4. SumFunctionOnSet(QuoteTotal', ShiftBooked) = SumFunctionOnSet(QuoteTotal, ShiftBooked)
    <3>1. \A r \in ShiftBooked : QuoteTotal'[r] = QuoteTotal[r]
      BY <1>5, <2>3 DEF QuoteTotal
    <3>2. IsFiniteSet(ShiftBooked)
      BY <2>3, FiniteAssumption, FiniteSubset
    <3> QED
      BY <3>1, <3>2, SumSame
  <2>5. refunded <= Total /\ refunded = RefundSum /\ (shiftOpen => TakingsAgree)
    BY LedgerIs DEF Inv, BooksInv
  <2>6. TakingsAgree' = TakingsAgree
    BY <1>2, <2>3, <2>4 DEF TakingsAgree, ShiftBack, Sold, shiftVars
  <2>7. refunded' <= Total /\ refunded' = RefundSum' /\ (shiftOpen' => TakingsAgree')
    BY <1>2, <2>2, <2>5, <2>6 DEF saleVars, shiftVars
  <2> QED
    BY <2>7 DEF LedgerMatchesSale, RefundSum, QuotedBack, QuoteTotal, ShiftBooked, ShiftBack,
                TakingsAgree
<1>16. LedgerKnown'
  <2>1. finalized \in SUBSET Quotes /\ \A r \in finalized : QuoteTotal'[r] = QuoteTotal[r]
    BY <1>5, <1>11 DEF QuoteTotal, Inv, BooksInv, BooksTyped
  <2>2. IsFiniteSet(finalized)
    BY <2>1, FiniteAssumption, FiniteSubset
  <2>3. SumFunctionOnSet(QuoteTotal', finalized) = SumFunctionOnSet(QuoteTotal, finalized)
    BY <2>1, <2>2, SumSame
  <2> QED
    BY <1>2, <2>3 DEF LedgerKnown, Inv, BooksInv, saleVars, shiftVars
<1>15. FitsWithQuotes'
  <2> SUFFICES ASSUME Undeclined', NEW p \in Payments
               PROVE  /\ Committed(p)' <= Amount[p]
                      /\ \A r \in Quotes : Executable(r)' =>
                            Committed(p)' + quote'[r].alloc[p] <= Amount[p]
    BY DEF FitsWithQuotes
  <2>1. Committed(p)' = Committed(p)
    <3>1. CommittedTo \in SUBSET Quotes /\ q \notin CommittedTo /\ CommittedTo' = CommittedTo
      BY <1>2, <1>11 DEF CommittedTo, saleVars, operationVars
    <3>2. /\ Committed(p) = SumFunctionOnSet(Alloc(p), CommittedTo)
          /\ Committed(p)' = SumFunctionOnSet(Alloc(p)', CommittedTo')
      BY DEF Committed, Allocated, Alloc, CommittedTo
    <3> QED
      BY <1>13, <3>1, <3>2
  <2>2. /\ Committed(p) <= Amount[p]
        /\ \A r \in Quotes : Executable(r) => Committed(p) + quote[r].alloc[p] <= Amount[p]
    BY <1>2 DEF Undeclined, Inv, BooksInv, FitsWithQuotes, operationVars
  <2>3. Committed(p) + alloc[p] <= Amount[p]
    BY <1>3, <2>2, AvailableFits DEF Inv
  <2>4. \A r \in Quotes \ {q} : Executable(r)' => Executable(r)
    BY <1>2, <1>5 DEF Executable, saleVars
  <2> QED
    BY <1>4, <1>5, <2>1, <2>2, <2>3, <2>4
<1> QED
  BY <1>7, <1>8, <1>10, <1>12, <1>14, <1>15, <1>16 DEF Inv, BooksInv

--------------------------------------------------------------------------------
LEMMA InvInit == Init => Inv
<1> SUFFICES ASSUME Init PROVE Inv
  OBVIOUS
<1>1. /\ NoQuote \in QuoteRow /\ NoQuote.state = "none" /\ NoQuote.total = 0 /\ NoQuote.shift = 0
      /\ NoQuote.order_version = 0 /\ \A p \in Payments : NoQuote.alloc[p] = 0
  BY DEF NoQuote, QuoteRow
<1>2. \A q \in Quotes : quote[q] = NoQuote /\ status[q] = "none"
  BY DEF Init
<1>3. BooksTyped
  BY <1>1, BoundAssumption, TotalAssumption DEF Init, BooksTyped, OperationStatus, LegStatus, SaleShift
<1>4. QuotesKnown
  <2>1. SumFunctionOnSet(NoQuote.alloc, Payments) = 0
    BY <1>1, FiniteAssumption, SumZero
  <2> QED
    BY <1>1, <1>2, <2>1 DEF Init, QuotesKnown, Executed
<1>5. OperationsKnown /\ PartialsBlock
  BY <1>2 DEF Init, OperationsKnown, PartialsBlock, Executed
<1>6. BooksKnown
  BY DEF Init, BooksKnown, RecordedRefundWasPaid
<1>7. LedgerMatchesSale
  <2>1. \A p \in Payments : Refunded(p) = 0
    <3>1. \A p \in Payments : {q \in Quotes : <<q, p>> \in negative} = {}
      BY DEF Init
    <3> QED
      BY <3>1, SumEmpty DEF Refunded, Allocated
  <2>2. RefundSum = 0
    <3> PICK fun : fun = [p \in Payments |-> Refunded(p)]
      OBVIOUS
    <3>1. \A p \in Payments : fun[p] = 0
      BY <2>1
    <3>2. SumFunctionOnSet(fun, Payments) = 0
      BY <3>1, FiniteAssumption, SumZero
    <3> QED
      BY <3>2 DEF RefundSum
  <2>3. ShiftBooked = {} /\ shift = SaleShift /\ others[shift] = 0 /\ shiftSales[shift] = Total
    BY BoundAssumption DEF Init, ShiftBooked, SaleShift
  <2>4. ShiftBack = 0
    BY <2>3, SumEmpty DEF ShiftBack
  <2>5. TakingsAgree
    BY <2>3, <2>4, TotalAssumption DEF TakingsAgree, Sold
  <2> QED
    BY <2>2, <2>5, LedgerIs, TotalAssumption DEF Init
<1>10. LedgerKnown
  <2>1. refunded = SumFunctionOnSet(QuoteTotal, finalized)
    BY SumEmpty DEF Init
  <2> QED
    BY <2>1, BoundAssumption DEF Init, LedgerKnown, SaleShift
<1>8. FitsWithQuotes
  <2>1. CommittedTo = {}
    BY DEF Init, CommittedTo, Blocking
  <2>2. \A p \in Payments : Committed(p) = 0
    BY <2>1, <1>3, CommittedIs, SumEmpty
  <2> QED
    BY <1>1, <1>2, <2>2, AmountAssumption DEF FitsWithQuotes, Executable
<1>9. ProviderInv
  BY FS_EmptySet DEF Init, ProviderInv, CallsTyped, LegsTold, EventsTold, RequestsOpen, OneRequestInFlight
<1> QED
  BY <1>3, <1>4, <1>5, <1>6, <1>7, <1>8, <1>9, <1>10 DEF Inv, BooksInv

LEMMA InvStep == Inv /\ [Next]_vars => Inv'
<1> SUFFICES ASSUME Inv, [Next]_vars PROVE Inv'
  OBVIOUS
<1>1. CASE UNCHANGED vars
  <2>1. OperationsStay /\ ProviderInv'
    <3>1. OperationsStay
      BY <1>1 DEF vars, OperationsStay, operationVars, Executed
    <3> QED
      BY <1>1, <3>1, ProviderIdle DEF vars, operationVars
  <2>2. BooksInv'
    BY <1>1, BooksStay DEF vars, operationVars, providerVars, Inv
  <2> QED
    BY <2>1, <2>2 DEF Inv
<1>2. ASSUME NEW q \in Quotes,
             \/ CreateQuote(q) \/ Execute(q) \/ ExecuteRollsBack(q) \/ ConfirmCash(q)
             \/ Inquire(q) \/ Retry(q) \/ RetryTax(q)
      PROVE  Inv'
  BY <1>2, CreateQuoteKeepsInv, ExecuteKeepsInv, RollsBackKeepsInv, ConfirmCashKeepsInv,
     InquireKeepsInv, RetryKeepsInv, RetryTaxKeepsInv
<1>3. ASSUME NEW r \in outstanding, ProviderSettles(r) PROVE Inv'
  BY <1>3, ProviderSettlesKeepsInv
<1>4. ASSUME NEW e \in events, DeliverWebhook(e) PROVE Inv'
  BY <1>4, WebhookKeepsInv
<1>5. CASE SellAnother \/ CloseShift \/ OpenShift
  BY <1>5, ShiftKeepsInv
<1> QED
  BY <1>1, <1>2, <1>3, <1>4, <1>5 DEF Next

LEMMA InvHolds == Spec => []Inv
  BY InvInit, InvStep, PTL DEF Spec

--------------------------------------------------------------------------------
(* Money that has left *)

\* A request the provider has paid belongs to an operation that is in the books or never
\* will be, or that the provider did not decline, or whose leg shows the payment, unless a
\* webhook declined the leg after it.
Shown(q, p) ==
    \/ q \in finalized \/ ~CanFinalize(q)
    \/ /\ Executed(q)
       /\ \/ scenario[q] # "failed"
          \/ leg[q][p] = "succeeded"
          \/ leg[q][p] = "failed" /\ lastSeq[q][p] > 0
PaidKnown == \A r \in paid : quote[r[1]].state # "none" /\ Shown(r[1], r[2])

\* What can no longer be booked stays so: the sale's balance shrinks, the shifts go on.
LEMMA NeverFinalizes ==
    ASSUME BooksTyped, BooksTyped', QuotesKnown, NEW q \in Quotes, ~CanFinalize(q),
           quote'[q].total = quote[q].total, quote'[q].shift = quote[q].shift,
           refunded <= refunded', \/ shift' = shift /\ (shiftOpen' => shiftOpen)
                                  \/ shift' > shift
    PROVE  ~CanFinalize(q)'
<1>1. /\ quote[q].shift \in Nat /\ quote[q].total \in Nat /\ quote[q].shift <= shift
      /\ shift \in Nat /\ shift' \in Nat /\ refunded \in Nat /\ refunded' \in Nat
  BY DEF BooksTyped, QuoteRow, QuotesKnown
<1> QED
  BY <1>1, TotalAssumption DEF CanFinalize

\* A request that leaves the operations, the books and the shift alone.
LEMMA PaidApart ==
    ASSUME Inv, PaidKnown, UNCHANGED <<quote, finalized, refunded, shift, shiftOpen, status,
                                       scenario, leg, lastSeq>>,
           \A r \in paid' \ paid : quote[r[1]].state # "none" /\ Shown(r[1], r[2])
    PROVE  PaidKnown'
  BY DEF PaidKnown, Shown, CanFinalize, Executed

\* A settling step: only q and what was paid for it need a look.
PaidElsewhere(q) == \A r \in paid' : r[1] # q => r \in paid /\ lastSeq'[r[1]] = lastSeq[r[1]]
PaidHere(q, legs) ==
    \A r \in paid' : r[1] = q =>
        \/ q \in finalized \/ ~CanFinalize(q) \/ scenario'[q] # "failed"
        \/ legs[r[2]] = "succeeded"
        \/ legs[r[2]] = "failed" /\ lastSeq'[q][r[2]] > 0

LEMMA SettlePaid ==
    ASSUME Inv, Inv', PaidKnown, NEW q \in Quotes, NEW legs, NEW v, Settles(q, legs, v),
           PaidElsewhere(q), PaidHere(q, legs)
    PROVE  PaidKnown'
<1>1. /\ BooksTyped /\ BooksTyped' /\ QuotesKnown /\ TermsKept
      /\ \A r \in Quotes \ {q} : /\ quote'[r] = quote[r] /\ scenario'[r] = scenario[r]
                                 /\ status'[r] = status[r] /\ leg'[r] = leg[r]
                                 /\ r \in finalized' <=> r \in finalized
      /\ leg'[q] = legs /\ status'[q] # "none" /\ quote'[q].state = "consumed"
      /\ q \in finalized => q \in finalized'
  BY SettleTyped DEF Inv, BooksInv
<1>2. refunded <= refunded' /\ shift' = shift /\ shiftOpen' = shiftOpen
  <2>1. UNCHANGED <<shift, shiftOpen>> /\ Settle(q, legs, v)
    BY DEF Settles
  <2>2. refunded' = refunded \/ refunded' = refunded + quote[q].total
    BY <2>1, SettleKinds DEF Finalizes, Finalize, Unbooked
  <2>3. refunded \in Nat /\ quote[q].total \in Nat
    BY <1>1 DEF BooksTyped, QuoteRow
  <2> QED
    BY <2>1, <2>2, <2>3
<1>3. \A r \in Quotes : ~CanFinalize(r) => ~CanFinalize(r)'
  <2> SUFFICES ASSUME NEW r \in Quotes, ~CanFinalize(r) PROVE ~CanFinalize(r)'
    OBVIOUS
  <2>1. quote'[r].total = quote[r].total /\ quote'[r].shift = quote[r].shift
    BY <1>1 DEF TermsKept
  <2> QED
    BY <1>1, <1>2, <2>1, NeverFinalizes
<1> SUFFICES ASSUME NEW r \in paid' PROVE quote'[r[1]].state # "none" /\ Shown(r[1], r[2])'
  BY DEF PaidKnown
<1>4. r[1] \in Quotes
  BY DEF Inv, ProviderInv, CallsTyped, Calls
<1>5. CASE r[1] = q
  <2>1. \/ q \in finalized' \/ ~CanFinalize(q)' \/ scenario'[q] # "failed"
        \/ leg'[q][r[2]] = "succeeded"
        \/ leg'[q][r[2]] = "failed" /\ lastSeq'[q][r[2]] > 0
    BY <1>1, <1>3, <1>5 DEF PaidHere
  <2> QED
    BY <1>1, <1>5, <2>1 DEF Shown, Executed
<1>6. CASE r[1] # q
  <2> PICK o \in Quotes \ {q} : o = r[1]
    BY <1>4, <1>6
  <2>1. r \in paid /\ lastSeq'[o] = lastSeq[o]
    BY <1>6 DEF PaidElsewhere
  <2>2. quote[o].state # "none" /\ Shown(o, r[2])
    BY <2>1 DEF PaidKnown
  <2>3. Shown(o, r[2])'
    BY <1>1, <1>3, <2>1, <2>2 DEF Shown, Executed
  <2> QED
    BY <1>1, <2>2, <2>3
<1> QED
  BY <1>5, <1>6

\* A request pays the legs it is answered "succeeded" for.
LEMMA PaidByRequest ==
    ASSUME NEW q, NEW P, NEW reply, ProviderRequested(q, P, reply)
    PROVE  \A r \in paid' \ paid : r[1] = q /\ r[2] \in P /\ reply[r[2]] = "succeeded"
<1> DEFINE Request(p) == <<q, p, attempts[q][p] + 1>>
           New == {p \in P : Request(p) \notin paid}
           In(states) == {p \in New : reply[p] \in states}
<1>1. paid' = paid \cup {Request(p) : p \in In({"succeeded"})}
  BY DEF ProviderRequested
<1>2. \A p : Request(p)[1] = q /\ Request(p)[2] = p
  OBVIOUS
<1> HIDE DEF Request
<1> QED
  BY <1>1, <1>2

LEMMA ExecutePaid ==
    ASSUME Inv, Inv', PaidKnown, NEW q \in Quotes, Execute(q) PROVE PaidKnown'
<1> PICK s \in Scenarios :
        /\ scenario' = [scenario EXCEPT ![q] = s]
        /\ ProviderRequested(q, ProviderLegs(q), Reply(q, s, ProviderLegs(q), FALSE))
        /\ Settle(q, OpenedLegs(q, Reply(q, s, ProviderLegs(q), FALSE)), version + 1)
  BY DEF Execute
<1> PICK reply : reply = Reply(q, s, ProviderLegs(q), FALSE)
  OBVIOUS
<1> PICK legs : legs = OpenedLegs(q, reply)
  OBVIOUS
<1>1. Settles(q, legs, version + 1)
  <2>1. Settle(q, legs, version + 1) /\ legs = OpenedLegs(q, reply)
    OBVIOUS
  <2> QED
    BY <2>1, ExecuteSettles, Zenon
<1>2. ~Executed(q)
  BY DEF Execute, Executable, Inv, BooksInv, QuotesKnown
<1>3. ASSUME NEW r \in paid'
      PROVE  r \in paid \/ (r[1] = q /\ r[2] \in ProviderLegs(q) /\ reply[r[2]] = "succeeded")
  <2>1. PICK P : P = ProviderLegs(q) /\ ProviderRequested(q, P, reply)
    OBVIOUS
  <2>2. ProviderRequested(q, P, reply)
    BY <2>1
  <2>3. \A t \in paid' \ paid : t[1] = q /\ t[2] \in P /\ reply[t[2]] = "succeeded"
    BY <2>2, PaidByRequest, Zenon
  <2> QED
    BY <2>1, <2>3
<1>4. \A p \in ProviderLegs(q) : p \in Payments /\ legs[p] = reply[p]
  BY DEF OpenedLegs, ProviderLegs, CashLegs, Legs
<1>5. ASSUME NEW r \in paid', r[1] = q
      PROVE  q \in finalized \/ ~CanFinalize(q) \/ legs[r[2]] = "succeeded"
  <2>1. r \in paid => q \in finalized \/ ~CanFinalize(q)
    BY <1>2, <1>5 DEF PaidKnown, Shown
  <2> QED
    BY <1>3, <1>4, <2>1
<1>6. lastSeq' = lastSeq /\ \A r \in paid' : r[1] # q => r \in paid
  BY <1>3 DEF Execute
<1>7. PaidElsewhere(q) /\ PaidHere(q, legs)
  BY <1>5, <1>6 DEF PaidElsewhere, PaidHere
<1> QED
  BY <1>1, <1>7, SettlePaid, Zenon

LEMMA ConfirmCashPaid ==
    ASSUME Inv, Inv', PaidKnown, NEW q \in Quotes, ConfirmCash(q) PROVE PaidKnown'
<1> PICK legs : legs = [p \in Payments |-> IF p \in CashLegs(q) THEN "succeeded" ELSE leg[q][p]]
  OBVIOUS
<1>1. Settles(q, legs, version) /\ UNCHANGED <<scenario, lastSeq>>
      /\ paid' = paid \cup {<<q, p, 1>> : p \in CashLegs(q)}
  BY ConfirmSettles DEF ConfirmCash
<1>2. \A p \in Payments : legs[p] = IF p \in CashLegs(q) THEN "succeeded" ELSE leg[q][p]
  OBVIOUS
<1>3. ASSUME NEW r \in paid', r[1] = q
      PROVE  \/ q \in finalized \/ ~CanFinalize(q) \/ scenario'[q] # "failed"
             \/ legs[r[2]] = "succeeded"
             \/ legs[r[2]] = "failed" /\ lastSeq'[q][r[2]] > 0
  <2>1. r[2] \in Payments
    BY DEF Inv, ProviderInv, CallsTyped, Calls
  <2>2. r \in paid \/ r[2] \in CashLegs(q)
    BY <1>1
  <2>3. r \in paid => Shown(q, r[2])
    BY <1>3 DEF PaidKnown
  <2> QED
    BY <1>1, <1>2, <2>1, <2>2, <2>3 DEF Shown
<1>4. PaidElsewhere(q) /\ PaidHere(q, legs)
  BY <1>1, <1>3 DEF PaidElsewhere, PaidHere
<1> QED
  BY <1>1, <1>4, SettlePaid

LEMMA WebhookPaid ==
    ASSUME Inv, Inv', PaidKnown, NEW e \in events, DeliverWebhook(e) PROVE PaidKnown'
<1> PICK q \in Quotes : q = e.op
  BY DEF Inv, ProviderInv, CallsTyped, Event
<1> PICK w \in Payments : w = e.pay
  BY DEF Inv, ProviderInv, CallsTyped, Event
<1> PICK legs : legs = [leg[q] EXCEPT ![w] = e.state]
  OBVIOUS
<1>1. /\ Settles(q, legs, version) /\ lastSeq' = [lastSeq EXCEPT ![q][w] = e.seq]
      /\ scenario' = scenario /\ paid' = paid /\ e.seq > lastSeq[q][w]
  BY WebhookSettles DEF DeliverWebhook, providerVars
<1>2. /\ lastSeq \in [Quotes -> [Payments -> Nat]] /\ e.seq \in Nat
      /\ e.state \in ProviderState
      /\ e.state \in {"processing", "unknown"} => scenario[q] # "failed"
  BY DEF Inv, ProviderInv, CallsTyped, Event, EventsTold, EventTold
<1>3. \A o \in Quotes \ {q} : lastSeq'[o] = lastSeq[o]
  BY <1>1, <1>2
<1>4. lastSeq'[q][w] > 0 /\ \A p \in Payments \ {w} : lastSeq'[q][p] = lastSeq[q][p]
  BY <1>1, <1>2
<1>5. leg[q] \in [Payments -> LegStatus]
  BY DEF Inv, BooksInv, BooksTyped
<1>6. legs[w] = e.state /\ \A p \in Payments \ {w} : legs[p] = leg[q][p]
  BY <1>5
<1>7. ASSUME NEW r \in paid'
      PROVE  r[1] \in Quotes /\ r[2] \in Payments /\ Shown(r[1], r[2])
  BY <1>1 DEF PaidKnown, Inv, ProviderInv, CallsTyped, Calls
<1>8. ASSUME NEW r \in paid', r[1] = q
      PROVE  \/ q \in finalized \/ ~CanFinalize(q) \/ scenario'[q] # "failed"
             \/ legs[r[2]] = "succeeded"
             \/ legs[r[2]] = "failed" /\ lastSeq'[q][r[2]] > 0
  <2>1. r[2] \in Payments /\ Shown(q, r[2])
    BY <1>7, <1>8
  <2>2. CASE r[2] = w
    BY <1>1, <1>2, <1>4, <1>6, <2>2 DEF ProviderState
  <2>3. CASE r[2] # w
    BY <1>1, <1>4, <1>6, <2>1, <2>3 DEF Shown
  <2> QED
    BY <2>2, <2>3
<1>9. PaidElsewhere(q)
  BY <1>1, <1>3, <1>7 DEF PaidElsewhere
<1>10. PaidHere(q, legs)
  BY <1>8 DEF PaidHere
<1> QED
  BY <1>1, <1>9, <1>10, SettlePaid

\* Inquiring and retrying.
LEMMA CallPaid ==
    ASSUME Inv, Inv', PaidKnown, NEW q \in Quotes, NEW P \in SUBSET Legs(q), NEW reply,
           Answers(scenario[q], P, reply), Executed(q), CallOutcome(q, P, reply),
           \A r \in paid' \ paid :
               r[1] = q /\ (scenario[q] # "failed" \/ (r[2] \in P /\ reply[r[2]] = "succeeded")),
           scenario[q] = "failed" =>
               \A p \in P : leg[q][p] # "succeeded"
    PROVE  PaidKnown'
<1>1. quote[q].state # "none"
  BY DEF Inv, BooksInv, QuotesKnown
<1>2. CASE ~CanFinalize(q) /\ UNCHANGED <<saleVars, quote, operationVars, shiftVars>>
  <2>1. \A r \in paid' \ paid : quote[r[1]].state # "none" /\ Shown(r[1], r[2])
    BY <1>1, <1>2 DEF Shown
  <2> QED
    BY <1>2, <2>1, PaidApart DEF saleVars, operationVars, shiftVars
<1>3. CASE /\ Settle(q, Answered(q, reply), version)
           /\ UNCHANGED <<quote, scenario, lastSeq, shift, shiftOpen, others>>
  <2> PICK legs : legs = Answered(q, reply)
    OBVIOUS
  <2>1. Settles(q, legs, version)
    BY <1>3, AnsweredLegs DEF Settles, Continues
  <2>2. \A p \in Payments : legs[p] = IF p \in P THEN reply[p] ELSE leg[q][p]
    BY AnsweredLegs
  <2>3. lastSeq' = lastSeq /\ scenario' = scenario
    BY <1>3
  <2>4. PaidElsewhere(q)
    BY <2>3 DEF PaidElsewhere
  <2>5. ASSUME NEW r \in paid', r[1] = q
        PROVE  \/ q \in finalized \/ ~CanFinalize(q) \/ scenario'[q] # "failed"
               \/ legs[r[2]] = "succeeded"
               \/ legs[r[2]] = "failed" /\ lastSeq'[q][r[2]] > 0
    <3>1. r[2] \in Payments
      BY DEF Inv, ProviderInv, CallsTyped, Calls
    <3>2. CASE r \notin paid
      BY <2>2, <2>3, <3>1, <3>2
    <3>3. CASE r \in paid
      <4>1. Shown(q, r[2])
        BY <2>5, <3>3 DEF PaidKnown
      <4>2. scenario[q] = "failed" /\ r[2] \in P => reply[r[2]] \in {"failed", "succeeded"}
        BY DEF Answers, ProviderState
      <4> QED
        BY <2>2, <2>3, <3>1, <4>1, <4>2 DEF Shown
    <3> QED
      BY <3>2, <3>3
  <2>6. PaidHere(q, legs)
    BY <2>5 DEF PaidHere
  <2> QED
    BY <2>1, <2>4, <2>6, SettlePaid
<1> QED
  BY <1>2, <1>3 DEF CallOutcome

LEMMA InquirePaid ==
    ASSUME Inv, Inv', PaidKnown, NEW q \in Quotes, Inquire(q) PROVE PaidKnown'
<1>1. PICK P, reply : /\ P = LegsIn(q, {"processing", "unknown"})
                      /\ reply = Reply(q, scenario[q], P, TRUE)
                      /\ Executed(q) /\ ProviderInquired(q, P, reply)
                      /\ CallOutcome(q, P, reply)
  BY InquireCalls, Zenon
<1>2. P \in SUBSET Legs(q) /\ P \in SUBSET Payments
  BY <1>1 DEF LegsIn, ProviderLegs, Legs
<1>3. scenario[q] \in Scenarios /\ CallsTyped
  BY <1>1 DEF Inv, BooksInv, BooksTyped, OperationsKnown, ProviderInv
<1>4. Answers(scenario[q], P, reply)
  BY <1>1, <1>2, <1>3, ReplyAnswers, Zenon
<1>5. \A r \in paid' \ paid : r[1] = q /\ scenario[q] # "failed"
  BY <1>1 DEF ProviderInquired, Inv, ProviderInv, RequestsOpen
<1>6. \A p \in P : leg[q][p] # "succeeded"
  BY <1>1 DEF LegsIn
<1>7. /\ Executed(q) /\ CallOutcome(q, P, reply)
      /\ \A r \in paid' \ paid :
            r[1] = q /\ (scenario[q] # "failed" \/ (r[2] \in P /\ reply[r[2]] = "succeeded"))
      /\ scenario[q] = "failed" => \A p \in P : leg[q][p] # "succeeded"
  BY <1>1, <1>5, <1>6
<1> QED
  BY <1>2, <1>4, <1>7, CallPaid

LEMMA RetryPaid ==
    ASSUME Inv, Inv', PaidKnown, NEW q \in Quotes, Retry(q) PROVE PaidKnown'
<1>1. PICK P, reply : /\ P = Retryable(q) /\ P # {}
                      /\ reply = Reply(q, scenario[q], P, FALSE)
                      /\ Executed(q) /\ ProviderRequested(q, P, reply)
                      /\ CallOutcome(q, P, reply)
  BY RetryCalls, Zenon
<1>2. P \in SUBSET Legs(q) /\ P \in SUBSET Payments
  BY <1>1 DEF Retryable, LegsIn, ProviderLegs, Legs
<1>3. scenario[q] \in Scenarios /\ CallsTyped
  BY <1>1 DEF Inv, BooksInv, BooksTyped, OperationsKnown, ProviderInv
<1>4. Answers(scenario[q], P, reply)
  BY <1>1, <1>2, <1>3, ReplyAnswers, Zenon
<1>5. \A r \in paid' \ paid : r[1] = q /\ r[2] \in P /\ reply[r[2]] = "succeeded"
  BY <1>1, PaidByRequest, Zenon
<1>6. \A p \in P : leg[q][p] # "succeeded"
  BY <1>1 DEF Retryable, LegsIn
<1>7. /\ Executed(q) /\ CallOutcome(q, P, reply)
      /\ \A r \in paid' \ paid :
            r[1] = q /\ (scenario[q] # "failed" \/ (r[2] \in P /\ reply[r[2]] = "succeeded"))
      /\ scenario[q] = "failed" => \A p \in P : leg[q][p] # "succeeded"
  BY <1>1, <1>5, <1>6
<1> QED
  BY <1>2, <1>4, <1>7, CallPaid

LEMMA RollsBackPaid ==
    ASSUME Inv, PaidKnown, NEW q \in Quotes, ExecuteRollsBack(q) PROVE PaidKnown'
<1>1. quote[q].state # "none" /\ ~CanFinalize(q)
  BY DEF ExecuteRollsBack, Executable
<1>2. \A r \in paid' \ paid : r[1] = q
  BY DEF ExecuteRollsBack
<1>3. \A r \in paid' \ paid : quote[r[1]].state # "none" /\ Shown(r[1], r[2])
  BY <1>1, <1>2 DEF Shown
<1> QED
  BY <1>3, PaidApart DEF ExecuteRollsBack, saleVars, operationVars, shiftVars

LEMMA ProviderSettlesPaid ==
    ASSUME Inv, PaidKnown, NEW r \in outstanding, ProviderSettles(r) PROVE PaidKnown'
<1>1. Executed(r[1]) /\ scenario[r[1]] # "failed" /\ r[1] \in Quotes
  BY DEF Inv, ProviderInv, RequestsOpen, CallsTyped, Calls
<1>2. quote[r[1]].state # "none" /\ Shown(r[1], r[2])
  BY <1>1 DEF Shown, Inv, BooksInv, QuotesKnown
<1>3. \A s \in paid' \ paid : quote[s[1]].state # "none" /\ Shown(s[1], s[2])
  BY <1>2 DEF ProviderSettles
<1> QED
  BY <1>3, PaidApart DEF ProviderSettles, saleVars, operationVars, shiftVars

\* Steps in which nothing is paid.
LEMMA UnpaidStep ==
    ASSUME Inv, Inv', PaidKnown,
           \/ \E q \in Quotes : CreateQuote(q) \/ RetryTax(q)
           \/ SellAnother \/ CloseShift \/ OpenShift
    PROVE  PaidKnown'
<1>1. /\ UNCHANGED <<finalized, refunded, paid, scenario, leg, lastSeq>>
      /\ \/ shift' = shift /\ (shiftOpen' => shiftOpen)
         \/ shift' = shift + 1
  BY DEF CreateQuote, RetryTax, SellAnother, CloseShift, OpenShift, saleVars, operationVars,
         shiftVars, providerVars
<1>2. BooksTyped /\ BooksTyped' /\ QuotesKnown
  BY DEF Inv, BooksInv
<1> SUFFICES ASSUME NEW r \in paid PROVE quote'[r[1]].state # "none" /\ Shown(r[1], r[2])'
  BY <1>1 DEF PaidKnown
<1> PICK o \in Quotes : o = r[1]
  BY DEF Inv, ProviderInv, CallsTyped, Calls
<1>3. quote[o].state # "none" /\ Shown(o, r[2])
  BY DEF PaidKnown
<1>4. quote'[o] = quote[o]
  <2>1. ASSUME NEW q \in Quotes, CreateQuote(q) PROVE quote'[o] = quote[o]
    <3>1. quote[q].state = "none" /\ \E row : quote' = [quote EXCEPT ![q] = row]
      BY <2>1 DEF CreateQuote
    <3> QED
      BY <1>3, <3>1
  <2> QED
    BY <2>1 DEF RetryTax, SellAnother, CloseShift, OpenShift
<1>5. Executed(o) => Executed(o)'
  BY <1>2 DEF Executed, CreateQuote, RetryTax, SellAnother, CloseShift, OpenShift, operationVars,
              BooksTyped
<1>6. ~CanFinalize(o) => ~CanFinalize(o)'
  <2>1. refunded <= refunded' /\ (shift' = shift + 1 => shift' > shift)
    BY <1>1, <1>2 DEF BooksTyped
  <2> QED
    BY <1>1, <1>2, <1>4, <2>1, NeverFinalizes
<1> QED
  BY <1>1, <1>3, <1>4, <1>5, <1>6 DEF Shown

LEMMA PaidStep == Inv /\ Inv' /\ PaidKnown /\ [Next]_vars => PaidKnown'
<1> SUFFICES ASSUME Inv, Inv', PaidKnown, [Next]_vars PROVE PaidKnown'
  OBVIOUS
<1>1. CASE UNCHANGED vars
  BY <1>1 DEF vars, saleVars, operationVars, shiftVars, providerVars, PaidKnown, Shown,
              CanFinalize, Executed
<1>2. ASSUME NEW q \in Quotes, CreateQuote(q) \/ RetryTax(q) PROVE PaidKnown'
  BY <1>2, UnpaidStep
<1>3. CASE SellAnother \/ CloseShift \/ OpenShift
  BY <1>3, UnpaidStep
<1>4. ASSUME NEW q \in Quotes,
             \/ Execute(q) \/ ExecuteRollsBack(q) \/ ConfirmCash(q) \/ Inquire(q) \/ Retry(q)
      PROVE  PaidKnown'
  BY <1>4, ExecutePaid, RollsBackPaid, ConfirmCashPaid, InquirePaid, RetryPaid
<1>5. ASSUME NEW r \in outstanding, ProviderSettles(r) PROVE PaidKnown'
  BY <1>5, ProviderSettlesPaid
<1>6. ASSUME NEW e \in events, DeliverWebhook(e) PROVE PaidKnown'
  BY <1>6, WebhookPaid
<1> QED
  BY <1>1, <1>2, <1>3, <1>4, <1>5, <1>6 DEF Next

LEMMA PaidKnownHolds == Spec => []PaidKnown
<1>1. Init => PaidKnown
  BY DEF Init, PaidKnown
<1> QED
  BY <1>1, InvHolds, PaidStep, PTL DEF Spec

--------------------------------------------------------------------------------
\* Type invariant of the refund tables and of what the provider has seen.
THEOREM TypeCorrect == Spec => []TypeOK
<1>1. Inv => TypeOK
  BY DEF Inv, BooksInv, BooksTyped, ProviderInv, CallsTyped, TypeOK, QuoteRow, Calls, Event
<1> QED
  BY InvHolds, <1>1, PTL

\* A sale never gives back more than it took, and its refund amount, the negative payments
\* and the open shift's running total agree, exactly in the shift of the sale and within
\* the refunds quoted there in a later one, whose total _finalize stops at zero, in every
\* history of quotes, retries, webhooks and other sales.
THEOREM LedgersMatchSales == Spec => []LedgerMatchesSale
<1>1. Inv => LedgerMatchesSale
  BY DEF Inv, BooksInv
<1> QED
  BY InvHolds, <1>1, PTL

\* A refund in the books was paid, and a leg has one open request at most: retry is for
\* declined legs only (retry, inquire and the provider's own settling interleave).
THEOREM BooksMatchProvider == Spec => []ProviderMatchesBooks
<1>1. Inv => ProviderMatchesBooks
  BY DEF Inv, BooksInv, BooksKnown, ProviderInv, RequestsOpen, ProviderMatchesBooks
<1> QED
  BY InvHolds, <1>1, PTL

\* Money that left is in the books or blocks the shift close, unless its operation can no
\* longer be booked or a webhook declined the leg last; a leg recorded as succeeded always
\* blocks (_derive_and_finalize, and the rollbacks of execute, inquire and retry).
THEOREM PartialSuccessesBlock == Spec => []PartialSuccessIsVisible
<1>1. Inv /\ PaidKnown => PartialSuccessIsVisible
  <2> SUFFICES ASSUME Inv, PaidKnown PROVE PartialSuccessIsVisible
    OBVIOUS
  <2>1. PartialsBlock
    BY DEF Inv, BooksInv
  <2>2. ASSUME NEW r \in paid PROVE PaidIsVisible(r[1], r[2])
    <3>1. r[1] \in Quotes /\ r[2] \in Payments
      BY DEF Inv, ProviderInv, CallsTyped, Calls
    <3>2. Executed(r[1]) /\ scenario[r[1]] # "failed" => r[1] \in finalized \/ status[r[1]] \in Blocking
      BY <3>1 DEF Inv, BooksInv, OperationsKnown
    <3>3. leg[r[1]][r[2]] = "succeeded" => r[1] \in finalized \/ status[r[1]] \in Blocking
      BY <2>1, <3>1 DEF PartialsBlock
    <3> QED
      BY <3>2, <3>3 DEF PaidKnown, PaidIsVisible, Shown
  <2> QED
    BY <2>1, <2>2 DEF PartialsBlock, PartialSuccessIsVisible
<1> QED
  BY InvHolds, PaidKnownHolds, <1>1, PTL

\* While the provider declines nothing, no payment gives back more than it brought in: the
\* version of the sale reserves what create_quote has seen.
THEOREM RefundsFitPayments == Spec => []UndeclinedRefundsFit
<1>1. Inv => UndeclinedRefundsFit
  BY DEF Inv, BooksInv, FitsWithQuotes, Undeclined, UndeclinedRefundsFit
<1> QED
  BY InvHolds, <1>1, PTL

\* No handler writes the totals of a shift that is not the latest, or is closed: _finalize
\* checks the shift of the quote under its lock.
THEOREM ClosedShiftsKeepTotals == Spec => ClosedShiftUntouched
<1>1. Inv /\ [Next]_vars =>
        [\A s \in 1..MaxShifts :
            s # shift \/ ~shiftOpen => shiftSales'[s] = shiftSales[s]]_vars
  <2> SUFFICES ASSUME Inv, [Next]_vars, NEW s \in 1..MaxShifts, s # shift \/ ~shiftOpen
               PROVE  shiftSales'[s] = shiftSales[s]
    OBVIOUS
  <2>1. ASSUME NEW q \in Quotes, NEW legs, NEW v, Settle(q, legs, v)
        PROVE  shiftSales'[s] = shiftSales[s]
    <3>1. CASE Finalizes(q, legs, v)
      BY <3>1 DEF Finalizes, Finalize, CanFinalize, Inv, BooksInv, BooksTyped
    <3> QED
      BY <2>1, <3>1, SettleKinds DEF Unbooked
  <2>2. CASE UNCHANGED shiftSales
    BY <2>2
  <2>3. ASSUME NEW q \in Quotes, Execute(q) \/ ConfirmCash(q) PROVE shiftSales'[s] = shiftSales[s]
    BY <2>1, <2>3, Zenon DEF Execute, ConfirmCash
  <2>4. ASSUME NEW q \in Quotes, Inquire(q) \/ Retry(q) PROVE shiftSales'[s] = shiftSales[s]
    <3>1. \E P, reply : CallOutcome(q, P, reply)
      BY <2>4, InquireCalls, RetryCalls, Zenon
    <3> QED
      BY <2>1, <3>1 DEF CallOutcome, shiftVars
  <2>5. ASSUME NEW e \in events, DeliverWebhook(e) PROVE shiftSales'[s] = shiftSales[s]
    <3>1. e.op \in Quotes
      BY DEF Inv, ProviderInv, CallsTyped, Event
    <3> QED
      BY <2>1, <2>5, <3>1 DEF DeliverWebhook
  <2>6. CASE SellAnother \/ CloseShift
    BY <2>6 DEF SellAnother, CloseShift, Inv, BooksInv, BooksTyped
  <2>7. ASSUME NEW q \in Quotes, CreateQuote(q) \/ ExecuteRollsBack(q) \/ RetryTax(q)
        PROVE  UNCHANGED shiftSales
    BY <2>7 DEF CreateQuote, ExecuteRollsBack, RetryTax, shiftVars
  <2>8. ASSUME (\E r \in outstanding : ProviderSettles(r)) \/ OpenShift \/ UNCHANGED vars
        PROVE  UNCHANGED shiftSales
    BY <2>8 DEF ProviderSettles, OpenShift, vars, shiftVars
  <2> QED
    BY <2>2, <2>3, <2>4, <2>5, <2>6, <2>7, <2>8 DEF Next
<1> QED
  BY InvHolds, <1>1, PTL DEF Spec, ClosedShiftUntouched

================================================================================
