----------------------------- MODULE SaleShiftProofs -----------------------------
(***************************************************************************)
(* Proofs about SaleShift, for any tills, handlers, processes and sales: a *)
(* shift that is closed is sealed, its sales have reached the ledger, and  *)
(* its total is what they brought in; with one handler at a time serving   *)
(* voids, stock is sold once for every sale that stands.                   *)
(*                                                                         *)
(* All of it rests on the row lock of the shift: between the lock and the  *)
(* end of its transaction a handler is alone with the shift, which stays   *)
(* open and stays the cashier's latest.                                    *)
(***************************************************************************)
EXTENDS SaleShift, Sums

Selling(h) == pc[h] \in {"locked", "insert", "inserted"}
Voiding(h) == pc[h] \in {"voiding", "returned"}
Holds(h) == Selling(h) \/ Voiding(h)
Held(h) == IF Voiding(h) THEN operator[h] ELSE Owner[req[h]]

\* Who holds a shift holds the open one it was asked for, and holds it alone.
LocksHold ==
    /\ \A h \in Handlers : Holds(h) => Held(h) \in open
    /\ \A h \in Handlers : Selling(h) => asked[h] = shiftNo[Owner[req[h]]]
    /\ \A g, h \in Handlers : Holds(g) /\ Holds(h) /\ Held(g) = Held(h) => g = h

\* What is posted or voided exists, what is inserted does not exist yet, only free sales
\* are voided, and a sale belongs to a shift that its cashier has opened.
OrdersKnown ==
    /\ \A h \in Handlers : pc[h] = "post" \/ pc[h] = "void" \/ Voiding(h) => req[h] \in Existing
    /\ \A h \in Handlers : pc[h] = "inserted" => order[req[h]] = "none"
    /\ \A h \in Handlers : pc[h] = "void" \/ Voiding(h) => req[h] \in Free
    /\ \A s \in Existing : orderShift[s] \in 1..shiftNo[Owner[s]]

Inv == TypeOK /\ LocksHold /\ OrdersKnown

LEMMA InvInit == Init => Inv
  BY SaleAssumption, BoundAssumption
     DEF Init, Inv, TypeOK, LocksHold, OrdersKnown, Holds, Selling, Voiding,
         Existing, PC

\* The holders of a shift row, seen from the handlers.
LEMMA HoldersHold ==
    ASSUME NEW c, NEW h \in Handlers
    PROVE  h \in ShiftHolders(c) <=> Holds(h) /\ Held(h) = c
  BY DEF ShiftHolders, Holds, Held, Selling, Voiding

LEMMA TakingsType == ASSUME NEW S \in SUBSET Sales PROVE Takings(S) \in Nat
<1>1. IsFiniteSet(S)
  BY SaleAssumption, FiniteSubset
<1>2. \A s \in S : Price[s] \in Nat
  BY DEF Price
<1> QED
  BY <1>1, <1>2, SumNat DEF Takings

\* A handler that is done is as typed as an idle one.
LEMMA DoneTyped ==
    ASSUME TypeOK, NEW h \in Handlers, Done(h)
    PROVE  /\ pc' \in [Handlers -> PC] /\ req' \in [Handlers -> Sales \cup {NoSale}]
           /\ \A g \in Handlers : pc'[g] # "idle" => req'[g] \in Sales
           /\ asked' \in [Handlers -> 0..MaxShifts] /\ num' \in [Handlers -> Nat]
           /\ operator' \in [Handlers -> Cashiers \cup {NoCashier}]
           /\ \A g \in Handlers : pc'[g] \in {"void", "voiding", "returned"} =>
                                      operator'[g] \in Cashiers
  BY BoundAssumption DEF TypeOK, Done, Goto, PC

LEMMA InvStep == Inv /\ [Next]_vars => Inv'
<1> SUFFICES ASSUME Inv, [Next]_vars PROVE Inv'
  OBVIOUS
<1> USE HandlerAssumption, SaleAssumption, BoundAssumption
    DEF Inv, Holds, Held, Selling, Voiding, Existing, shiftVars, orderVars, handlerVars
<1>1. ASSUME NEW c \in Cashiers, OpenShift(c) PROVE Inv'
  <2>1. TypeOK'
    <3>1. shiftNo' \in [Cashiers -> 0..MaxShifts] /\ shiftNo'[c] = shiftNo[c] + 1
      BY <1>1 DEF OpenShift, TypeOK
    <3>2. open' \subseteq {d \in Cashiers : shiftNo'[d] > 0}
      BY <1>1, <3>1 DEF OpenShift, TypeOK
    <3> QED
      BY <1>1, <3>1, <3>2 DEF OpenShift, TypeOK
  <2>2. LocksHold'
    <3>1. \A h \in Handlers : Holds(h) => Held(h) # c
      BY <1>1 DEF OpenShift, LocksHold
    <3>2. \A d \in Cashiers : d # c => shiftNo'[d] = shiftNo[d]
      BY <1>1 DEF OpenShift, TypeOK
    <3>3. \A h \in Handlers : Selling(h) => Owner[req[h]] # c /\ Owner[req[h]] \in Cashiers
      BY <3>1 DEF TypeOK
    <3> QED
      BY <1>1, <3>2, <3>3 DEF OpenShift, LocksHold
  <2>3. OrdersKnown'
    BY <1>1 DEF OpenShift, TypeOK, LocksHold, OrdersKnown
  <2> QED
    BY <2>1, <2>2, <2>3
<1>2. ASSUME NEW c \in Cashiers, CloseShift(c) PROVE Inv'
  <2>1. TypeOK'
    <3> PICK taken \in {Takings(SalesOf(c, shiftNo[c]) \cap Completed)} :
               total' = [total EXCEPT ![c][shiftNo[c]] = taken]
      BY <1>2 DEF CloseShift
    <3>1. taken \in Nat
      BY TakingsType DEF SalesOf
    <3>2. total' \in [Cashiers -> [1..MaxShifts -> Nat]]
      BY <3>1 DEF TypeOK
    <3>3. open' \subseteq open
      BY <1>2 DEF CloseShift
    <3> QED
      BY <1>2, <3>2, <3>3 DEF CloseShift, TypeOK
  <2>2. LocksHold'
    <3>1. \A h \in Handlers : Holds(h) => Held(h) # c
      BY <1>2, HoldersHold DEF CloseShift
    <3> QED
      BY <1>2, <3>1 DEF CloseShift, TypeOK, LocksHold
  <2>3. OrdersKnown'
    BY <1>2 DEF CloseShift, TypeOK, LocksHold, OrdersKnown
  <2> QED
    BY <2>1, <2>2, <2>3
<1>3. ASSUME NEW h \in Handlers, NEW s \in Sales, Look(h, s) PROVE Inv'
  <2>1. TypeOK'
    BY <1>3 DEF Look, Goto, PC, TypeOK, OrdersKnown
  <2>2. LocksHold'
    <3>1. \A g \in Handlers : Holds(g)' => g # h
      BY <1>3 DEF Look, Goto, TypeOK
    <3>2. \A g \in Handlers : g # h =>
             pc'[g] = pc[g] /\ req'[g] = req[g] /\ asked'[g] = asked[g] /\ operator'[g] = operator[g]
      BY <1>3 DEF Look, Goto, TypeOK
    <3> QED
      BY <1>3, <3>1, <3>2 DEF Look, LocksHold
  <2>3. OrdersKnown'
    BY <1>3 DEF Look, Goto, TypeOK, LocksHold, OrdersKnown
  <2> QED
    BY <2>1, <2>2, <2>3
<1>4. ASSUME NEW h \in Handlers, NEW s \in Sales, NEW c \in Cashiers, VoidRead(h, s, c)
      PROVE  Inv'
  <2>1. TypeOK'
    BY <1>4 DEF VoidRead, Completed, Goto, PC, TypeOK, OrdersKnown
  <2>2. LocksHold'
    BY <1>4 DEF VoidRead, Completed, Goto, TypeOK, LocksHold
  <2>3. OrdersKnown'
    BY <1>4 DEF VoidRead, Completed, Goto, TypeOK, LocksHold, OrdersKnown
  <2> QED
    BY <2>1, <2>2, <2>3
<1>5. ASSUME NEW h \in Handlers, LockShift(h) PROVE Inv'
  <2>1. TypeOK'
    BY <1>5 DEF LockShift, ShiftAccepts, Goto, PC, TypeOK, OrdersKnown
  <2>2. LocksHold'
    <3>1. \A g \in Handlers : g # h => pc'[g] = pc[g]
      BY <1>5 DEF LockShift, Goto, TypeOK
    <3>2. ShiftHolders(Owner[req[h]]) = {}
      BY <1>5 DEF LockShift, Granted, WaitsFor
    <3>3. \A g \in Handlers : Holds(g) => Held(g) # Owner[req[h]]
      BY <3>2, HoldersHold
    <3>4. pc'[h] = "locked"
      BY <1>5 DEF LockShift, Goto, TypeOK
    <3> QED
      BY <1>5, <3>1, <3>3, <3>4 DEF LockShift, ShiftAccepts, LocksHold
  <2>3. OrdersKnown'
    BY <1>5 DEF LockShift, ShiftAccepts, Goto, TypeOK, LocksHold, OrdersKnown
  <2> QED
    BY <2>1, <2>2, <2>3
<1>6. ASSUME NEW h \in Handlers, RefuseSale(h) PROVE Inv'
  <2>1. TypeOK'
    BY <1>6, DoneTyped DEF RefuseSale, TypeOK, OrdersKnown
  <2>2. LocksHold'
    BY <1>6 DEF RefuseSale, Done, Goto, TypeOK, LocksHold
  <2>3. OrdersKnown'
    BY <1>6 DEF RefuseSale, Done, Goto, TypeOK, LocksHold, OrdersKnown
  <2> QED
    BY <2>1, <2>2, <2>3
<1>7. ASSUME NEW h \in Handlers, Number(h) PROVE Inv'
  <2>1. TypeOK'
    <3>1. Cardinality(Existing) + 1 \in Nat
      BY FiniteSubset, FS_CardinalityType
    <3> QED
      BY <1>7, <3>1 DEF Number, Goto, PC, TypeOK
  <2>2. LocksHold'
    BY <1>7 DEF Number, Goto, TypeOK, LocksHold
  <2>3. OrdersKnown'
    BY <1>7 DEF Number, Goto, TypeOK, LocksHold, OrdersKnown
  <2> QED
    BY <2>1, <2>2, <2>3
<1>16. ASSUME NEW h \in Handlers, Insert(h) PROVE Inv'
  <2>1. TypeOK'
    BY <1>16 DEF Insert, Goto, PC, TypeOK, OrdersKnown
  <2>2. LocksHold'
    BY <1>16 DEF Insert, Goto, TypeOK, LocksHold
  <2>3. OrdersKnown'
    BY <1>16 DEF Insert, Inserts, Goto, TypeOK, LocksHold, OrdersKnown
  <2> QED
    BY <2>1, <2>2, <2>3
<1>8. ASSUME NEW h \in Handlers, Commit(h) PROVE Inv'
  <2>1. TypeOK'
    <3> PICK s \in {req[h]} : TRUE
      OBVIOUS
    <3>1. s \in Sales /\ asked[h] \in 1..MaxShifts
      BY <1>8 DEF Commit, TypeOK, LocksHold
    <3>2. order' = [order EXCEPT ![s] = "completed"] /\ Existing \subseteq Existing'
      BY <1>8, <3>1 DEF Commit, TypeOK
    <3>3. total' \in [Cashiers -> [1..MaxShifts -> Nat]]
      BY <1>8, <3>1 DEF Commit, TypeOK, Price
    <3>4. stock' \in Nat
      BY <1>8 DEF Commit, StockHolds, TypeOK
    <3>5. /\ order' \in [Sales -> {"none", "completed", "voided"}]
          /\ orderShift' \in [Sales -> 0..MaxShifts] /\ number' \in [Sales -> Nat]
      BY <1>8, <3>1 DEF Commit, TypeOK
    <3>6. pc' \in [Handlers -> PC] /\ \A g \in Handlers : pc'[g] # "idle" => pc[g] # "idle"
      BY <1>8 DEF Commit, TypeOK, Goto, PC
    <3>7. \A g \in Handlers : pc'[g] \in {"void", "voiding", "returned"} => pc'[g] = pc[g]
      BY <1>8 DEF Commit, TypeOK, Goto
    <3>8. /\ \A g \in Handlers : pc'[g] # "idle" => req'[g] \in Sales
          /\ \A g \in Handlers : pc'[g] \in {"void", "voiding", "returned"} =>
                                     operator'[g] \in Cashiers
      BY <1>8, <3>6, <3>7 DEF Commit, TypeOK
    <3>9. posted' \subseteq Existing'
      BY <1>8, <3>2 DEF Commit, TypeOK
    <3> QED
      BY <1>8, <3>3, <3>4, <3>5, <3>6, <3>8, <3>9 DEF Commit, TypeOK
  <2>2. LocksHold'
    BY <1>8 DEF Commit, StockHolds, Goto, TypeOK, LocksHold
  <2>3. OrdersKnown'
    <3>1. \A g \in Handlers : pc[g] = "inserted" /\ g # h => req[g] # req[h]
      BY <1>8 DEF Commit, LocksHold
    <3> QED
      BY <1>8, <3>1 DEF Commit, Goto, TypeOK, LocksHold, OrdersKnown
  <2> QED
    BY <2>1, <2>2, <2>3
<1>9. ASSUME NEW h \in Handlers, CommitReplays(h) PROVE Inv'
  <2>1. TypeOK'
    BY <1>9 DEF CommitReplays, Inserts, Goto, PC, TypeOK, OrdersKnown
  <2>2. LocksHold'
    BY <1>9 DEF CommitReplays, Inserts, Goto, TypeOK, LocksHold
  <2>3. OrdersKnown'
    BY <1>9 DEF CommitReplays, Inserts, Goto, TypeOK, LocksHold, OrdersKnown
  <2> QED
    BY <2>1, <2>2, <2>3
<1>10. ASSUME NEW h \in Handlers, CommitFails(h) PROVE Inv'
  <2>1. TypeOK'
    BY <1>10, DoneTyped DEF CommitFails, TypeOK, OrdersKnown
  <2>2. LocksHold'
    BY <1>10 DEF CommitFails, Done, Goto, TypeOK, LocksHold
  <2>3. OrdersKnown'
    BY <1>10 DEF CommitFails, Done, Goto, TypeOK, LocksHold, OrdersKnown
  <2> QED
    BY <2>1, <2>2, <2>3
<1>11. ASSUME NEW h \in Handlers, Post(h) PROVE Inv'
  <2>1. TypeOK'
    <3>1. posted' \subseteq Existing /\ Existing' = Existing
      BY <1>11 DEF Post, TypeOK, OrdersKnown
    <3> QED
      BY <1>11, <3>1, DoneTyped DEF Post, TypeOK
  <2>2. LocksHold'
    BY <1>11 DEF Post, Done, Goto, TypeOK, LocksHold
  <2>3. OrdersKnown'
    BY <1>11 DEF Post, Done, Goto, TypeOK, LocksHold, OrdersKnown
  <2> QED
    BY <2>1, <2>2, <2>3
<1>12. ASSUME NEW h \in Handlers, VoidCommit(h) PROVE Inv'
  <2>1. TypeOK'
    <3>1. order' \in [Sales -> {"none", "completed", "voided"}] /\ Existing \subseteq Existing'
      BY <1>12 DEF VoidCommit, TypeOK
    <3>2. stock' \in Nat /\ posted' \subseteq Existing'
      BY <1>12, <3>1 DEF VoidCommit, TypeOK
    <3> QED
      BY <1>12, <3>1, <3>2, DoneTyped DEF VoidCommit, TypeOK
  <2>2. LocksHold'
    BY <1>12 DEF VoidCommit, Done, Goto, TypeOK, LocksHold
  <2>3. OrdersKnown'
    BY <1>12 DEF VoidCommit, Done, Goto, TypeOK, LocksHold, OrdersKnown
  <2> QED
    BY <2>1, <2>2, <2>3
<1>13. ASSUME NEW h \in Handlers, VoidRefused(h) PROVE Inv'
  <2>1. TypeOK'
    BY <1>13, DoneTyped DEF VoidRefused, TypeOK, OrdersKnown
  <2>2. LocksHold'
    BY <1>13 DEF VoidRefused, Done, Goto, TypeOK, LocksHold
  <2>3. OrdersKnown'
    BY <1>13 DEF VoidRefused, Done, Goto, TypeOK, LocksHold, OrdersKnown
  <2> QED
    BY <2>1, <2>2, <2>3
<1>17. ASSUME NEW h \in Handlers, VoidLock(h) PROVE Inv'
  <2>1. TypeOK'
    BY <1>17 DEF VoidLock, Goto, PC, TypeOK, OrdersKnown
  <2>2. LocksHold'
    <3>1. \A g \in Handlers : g # h => pc'[g] = pc[g]
      BY <1>17 DEF VoidLock, Goto, TypeOK
    <3>2. ShiftHolders(operator[h]) = {}
      BY <1>17 DEF VoidLock, Granted, WaitsFor
    <3>3. \A g \in Handlers : Holds(g) => Held(g) # operator[h]
      BY <3>2, HoldersHold
    <3>4. pc'[h] = "voiding"
      BY <1>17 DEF VoidLock, Goto, TypeOK
    <3> QED
      BY <1>17, <3>1, <3>3, <3>4 DEF VoidLock, LocksHold
  <2>3. OrdersKnown'
    BY <1>17 DEF VoidLock, Goto, TypeOK, LocksHold, OrdersKnown
  <2> QED
    BY <2>1, <2>2, <2>3
<1>18. ASSUME NEW h \in Handlers, VoidStock(h) PROVE Inv'
  <2>1. TypeOK'
    BY <1>18 DEF VoidStock, Goto, PC, TypeOK, OrdersKnown
  <2>2. LocksHold'
    BY <1>18 DEF VoidStock, Goto, TypeOK, LocksHold
  <2>3. OrdersKnown'
    BY <1>18 DEF VoidStock, Goto, TypeOK, LocksHold, OrdersKnown
  <2> QED
    BY <2>1, <2>2, <2>3
<1>19. ASSUME NEW h \in Handlers, Deadlock(h) PROVE Inv'
  <2>1. TypeOK'
    BY <1>19, DoneTyped DEF Deadlock, TypeOK, OrdersKnown
  <2>2. LocksHold'
    BY <1>19 DEF Deadlock, Done, Goto, TypeOK, LocksHold
  <2>3. OrdersKnown'
    BY <1>19 DEF Deadlock, Done, Goto, TypeOK, LocksHold, OrdersKnown
  <2> QED
    BY <2>1, <2>2, <2>3
<1>14. ASSUME NEW h \in Handlers, Crash(h) PROVE Inv'
  <2>1. TypeOK'
    <3>1. faults' \in 0..MaxFaults
      BY <1>14 DEF Crash, CountFault, TypeOK
    <3> QED
      BY <1>14, <3>1, DoneTyped DEF Crash, TypeOK
  <2>2. LocksHold'
    BY <1>14 DEF Crash, CountFault, Done, Goto, TypeOK, LocksHold
  <2>3. OrdersKnown'
    BY <1>14 DEF Crash, CountFault, Done, Goto, TypeOK, LocksHold, OrdersKnown
  <2> QED
    BY <2>1, <2>2, <2>3
<1>15. CASE UNCHANGED vars
  BY <1>15 DEF vars, TypeOK, LocksHold, OrdersKnown
<1> QED
  BY <1>1, <1>2, <1>3, <1>4, <1>5, <1>6, <1>7, <1>8, <1>9, <1>10, <1>11, <1>12,
     <1>13, <1>14, <1>15, <1>16, <1>17, <1>18, <1>19 DEF Next, Proceed

\* Rows keep their types however requests interleave or die, and stock never runs below
\* zero: the movement is refused behind the lock of the balance.
THEOREM TypeCorrect == Spec => []TypeOK
<1>1. Spec => []Inv
  BY InvInit, InvStep, PTL DEF Spec
<1> QED
  BY <1>1, PTL DEF Inv

--------------------------------------------------------------------------------
(* What a step does to the sales of a shift *)

\* A sale is made by a commit, into the open shift that the handler holds; no other step
\* gives an order, or the shift of an existing one, another place.
LEMMA OrdersStay ==
    ASSUME Inv, Next
    PROVE  \/ /\ Existing' = Existing /\ \A s \in Existing : orderShift'[s] = orderShift[s]
              /\ \A c \in Cashiers : \A n \in Nat : SalesOf(c, n)' = SalesOf(c, n)
           \/ \E h \in Handlers : Commit(h)
<1> SUFFICES ASSUME \A h \in Handlers : ~Commit(h)
             PROVE  Existing' = Existing /\ \A s \in Existing : orderShift'[s] = orderShift[s]
  BY DEF SalesOf
<1> USE DEF Existing
<1>1. CASE UNCHANGED <<order, orderShift>>
  BY <1>1
<1>2. ASSUME NEW h \in Handlers, VoidCommit(h)
      PROVE  Existing' = Existing /\ orderShift' = orderShift
  <2>1. order[req[h]] # "none" /\ req[h] \in Sales /\ order' = [order EXCEPT ![req[h]] = "voided"]
    BY <1>2 DEF VoidCommit, Inv, OrdersKnown, Voiding
  <2> QED
    BY <1>2, <2>1 DEF VoidCommit, Inv, TypeOK
<1> QED
  BY <1>1, <1>2 DEF Next, Proceed, OpenShift, CloseShift, Look, VoidRead, LockShift,
     RefuseSale, Number, Insert, CommitReplays, CommitFails, Post, VoidLock, VoidStock, VoidRefused, Crash, Deadlock, orderVars

\* The commit of a handler, in the terms of the properties.
LEMMA CommitMakes ==
    ASSUME Inv, NEW h \in Handlers, Commit(h), NEW s \in {req[h]}
    PROVE  /\ s \in Sales \ Existing /\ asked[h] = shiftNo[Owner[s]] /\ Owner[s] \in open
           /\ asked[h] \in 1..MaxShifts /\ Owner[s] \in Cashiers
           /\ order' = [order EXCEPT ![s] = "completed"]
           /\ orderShift' = [orderShift EXCEPT ![s] = asked[h]]
           /\ total' = [total EXCEPT ![Owner[s]][asked[h]] = @ + Price[s]]
           /\ Existing' = Existing \cup {s} /\ Completed' = Completed \cup {s}
<1> USE SaleAssumption
    DEF Inv, TypeOK, LocksHold, Holds, Held, Selling, Voiding, Existing, Completed
<1>1. s \in Sales /\ order[s] = "none" /\ order' = [order EXCEPT ![s] = "completed"]
  BY DEF Commit, OrdersKnown
<1>2. asked[h] = shiftNo[Owner[s]] /\ Owner[s] \in open /\ asked[h] \in 1..MaxShifts
  <2>1. asked[h] = shiftNo[Owner[s]] /\ Owner[s] \in open
    <3>1. pc[h] = "inserted"
      BY DEF Commit
    <3>2. Held(h) \in open /\ asked[h] = shiftNo[Owner[req[h]]]
      BY <3>1
    <3> QED
      BY <3>1, <3>2
  <2> QED
    BY <2>1, <1>1
<1>3. Existing' = Existing \cup {s} /\ Completed' = Completed \cup {s}
  BY <1>1
<1> QED
  BY <1>1, <1>2, <1>3 DEF Commit

LEMMA CommitEnters ==
    ASSUME Inv, NEW h \in Handlers, Commit(h), NEW s \in {req[h]},
           NEW c \in Cashiers, NEW n \in Nat
    PROVE  SalesOf(c, n)' = IF c = Owner[s] /\ n = asked[h] THEN SalesOf(c, n) \cup {s}
                            ELSE SalesOf(c, n)
<1>1. /\ Existing' = Existing \cup {s} /\ s \in Sales \ Existing
      /\ orderShift' = [orderShift EXCEPT ![s] = asked[h]]
  BY CommitMakes
<1>2. orderShift'[s] = asked[h] /\ \A r \in Existing : orderShift'[r] = orderShift[r]
  BY <1>1 DEF Inv, TypeOK, Existing
<1> QED
  BY <1>1, <1>2 DEF SalesOf

\* Only opening and closing touch the shift rows themselves.
LEMMA ShiftsStay ==
    ASSUME Next
    PROVE  UNCHANGED shiftVars \/ \E c \in Cashiers : OpenShift(c) \/ CloseShift(c)
  BY DEF Next, Proceed, Look, VoidRead, LockShift, RefuseSale, Number, Insert, Commit, CommitReplays,
     CommitFails, Post, VoidCommit, VoidLock, VoidStock, VoidRefused, Crash, Deadlock

\* A closed shift is not the one a commit sells into, and stays closed.
LEMMA ClosedStays ==
    ASSUME Inv, Next, NEW c \in Cashiers, NEW n \in 1..MaxShifts, ClosedShift(c, n)
    PROVE  ClosedShift(c, n)' /\ SalesOf(c, n)' = SalesOf(c, n)
<1>1. ClosedShift(c, n)'
  <2>1. \A d \in Cashiers : shiftNo[d] \in Nat
    BY BoundAssumption DEF Inv, TypeOK
  <2>2. ASSUME NEW d \in Cashiers, OpenShift(d) PROVE ClosedShift(c, n)'
    BY <2>1, <2>2 DEF OpenShift, ClosedShift, Inv, TypeOK
  <2>3. ASSUME NEW d \in Cashiers, CloseShift(d) PROVE ClosedShift(c, n)'
    BY <2>3 DEF CloseShift, ClosedShift
  <2> QED
    BY <2>2, <2>3, ShiftsStay DEF ClosedShift, shiftVars
<1>2. ASSUME NEW h \in Handlers, Commit(h) PROVE SalesOf(c, n)' = SalesOf(c, n)
  <2> PICK s \in {req[h]} : TRUE
    OBVIOUS
  <2>1. ~(c = Owner[s] /\ n = asked[h])
    BY <1>2, CommitMakes DEF ClosedShift
  <2> QED
    BY <1>2, <2>1, CommitEnters
<1> QED
  BY <1>1, <1>2, OrdersStay

\* No sale enters a shift once it is closed, for any number of tills, retries and crashes.
THEOREM ClosedShiftsAreSealed == Spec => ClosedShiftIsSealed
<1>1. Inv /\ [Next]_vars =>
        [\A c \in Cashiers : \A n \in 1..MaxShifts :
            ClosedShift(c, n) => SalesOf(c, n)' = SalesOf(c, n)]_vars
  BY ClosedStays
<1> QED
  BY <1>1, InvInit, InvStep, PTL DEF Spec, ClosedShiftIsSealed

--------------------------------------------------------------------------------
(* Lock circles *)

\* Every lock but one is taken in one order: the operator's or the sale's own shift, the
\* numbering, the unique keys of the order, the stock balance.
LEMMA OwnVoidsGoOn ==
    ASSUME Inv, NEW h \in Handlers, pc[h] = "returned", operator[h] = Owner[req[h]]
    PROVE  WaitsFor(h) = {}
<1>1. Holds(h) /\ Held(h) = Owner[req[h]]
  BY DEF Holds, Held, Voiding
<1>2. ShiftHolders(Owner[req[h]]) \subseteq {h}
  <2> SUFFICES ASSUME NEW g \in ShiftHolders(Owner[req[h]]) PROVE g = h
    OBVIOUS
  <2>1. g \in Handlers
    BY DEF ShiftHolders
  <2>2. Holds(g) /\ Held(g) = Owner[req[h]]
    BY <2>1, HoldersHold
  <2> QED
    BY <1>1, <2>1, <2>2 DEF Inv, LocksHold
<1> QED
  BY <1>2 DEF WaitsFor, SaleShiftHolders

LEMMA CirclesNeedVoids == Inv => CirclesAreVoids
<1> SUFFICES ASSUME Inv, NEW S \in SUBSET Handlers, Stuck(S),
                    \A h \in S : pc[h] = "returned" => operator[h] = Owner[req[h]]
             PROVE  FALSE
  BY DEF CirclesAreVoids
<1>1. \A h \in S : h \in Handlers /\ \E g \in S : g \in WaitsFor(h)
  BY DEF Stuck
<1>2. \A h \in S : pc[h] # "returned"
  BY <1>1, OwnVoidsGoOn
<1>3. \A h \in S : pc[h] \notin {"inserted", "voiding"}
  BY <1>1, <1>2 DEF WaitsFor, BalanceHolders
<1>4. \A h \in S : pc[h] # "insert"
  BY <1>1, <1>3 DEF WaitsFor, Unsettled
<1>5. \A h \in S : pc[h] # "locked"
  BY <1>1, <1>3, <1>4 DEF WaitsFor, NumberHolders
<1>6. \A h \in S : pc[h] \notin {"checked", "void"}
  <2> SUFFICES ASSUME NEW h \in S, pc[h] \in {"checked", "void"} PROVE FALSE
    OBVIOUS
  <2>1. PICK g \in S : g \in WaitsFor(h)
    BY <1>1
  <2>2. pc[g] \in {"locked", "insert", "inserted", "voiding", "returned"}
    BY <2>1 DEF WaitsFor, ShiftHolders
  <2> QED
    BY <2>2, <1>2, <1>3, <1>4, <1>5
<1>7. \A h \in S : WaitsFor(h) = {}
  BY <1>1, <1>2, <1>3, <1>4, <1>5, <1>6 DEF WaitsFor
<1> QED
  BY <1>1, <1>7 DEF Stuck

\* For any number of tills, processes and void requests: whoever waits in a circle waits for
\* a void that holds the stock balance and wants the shift of another cashier.
THEOREM OnlyVoidsMakeCircles == Spec => []CirclesAreVoids
  BY InvInit, InvStep, CirclesNeedVoids, PTL DEF Spec

--------------------------------------------------------------------------------
(* Journal, totals and stock *)

LEMMA JournalStep == Inv /\ ClosedShiftIsJournaled /\ [Next]_vars => ClosedShiftIsJournaled'
<1> SUFFICES ASSUME Inv, ClosedShiftIsJournaled, Next PROVE ClosedShiftIsJournaled'
  BY DEF ClosedShiftIsJournaled, ClosedShift, SalesOf, Existing, vars, shiftVars, orderVars
<1>1. posted \subseteq posted'
  BY DEF Next, Proceed, OpenShift, CloseShift, Look, VoidRead, LockShift, RefuseSale, Number, Insert,
     Commit, CommitReplays, CommitFails, Post, VoidCommit, VoidLock, VoidStock, VoidRefused, Crash, Deadlock
<1>2. ASSUME NEW c \in Cashiers, NEW n \in 1..MaxShifts, ClosedShift(c, n)'
      PROVE  SalesOf(c, n)' \subseteq posted'
  <2>1. CASE ClosedShift(c, n)
    BY <1>1, <1>2, <2>1, ClosedStays DEF ClosedShiftIsJournaled
  <2>2. CASE ~ClosedShift(c, n)
    <3>1. CloseShift(c) /\ n = shiftNo[c]
      <4>1. CASE UNCHANGED shiftVars
        BY <1>2, <2>2, <4>1 DEF ClosedShift, shiftVars
      <4>2. ASSUME NEW d \in Cashiers, OpenShift(d) PROVE FALSE
        <5>1. \A e \in Cashiers : shiftNo[e] \in Nat
          BY BoundAssumption DEF Inv, TypeOK
        <5>2. /\ open' = open \cup {d} /\ d \notin open
              /\ shiftNo' = [shiftNo EXCEPT ![d] = shiftNo[d] + 1] /\ DOMAIN shiftNo = Cashiers
          BY <4>2 DEF OpenShift, Inv, TypeOK
        <5> QED
          BY <1>2, <2>2, <5>1, <5>2 DEF ClosedShift
      <4>3. ASSUME NEW d \in Cashiers, CloseShift(d)
            PROVE  CloseShift(c) /\ n = shiftNo[c]
        BY <1>2, <2>2, <4>3 DEF CloseShift, ClosedShift
      <4> QED
        BY <4>1, <4>2, <4>3, ShiftsStay
    <3>2. SalesOf(c, n)' = SalesOf(c, n)
      BY <3>1 DEF CloseShift, SalesOf, Existing, orderVars
    <3> QED
      BY <1>1, <3>1, <3>2 DEF CloseShift, Journaled
  <2> QED
    BY <2>1, <2>2
<1> QED
  BY <1>2 DEF ClosedShiftIsJournaled

\* Every sale of a closed shift is in the ledger, also when the handler died between the
\* commit of the sale and its posting.
THEOREM ClosedShiftsAreJournaled == Spec => []ClosedShiftIsJournaled
<1>1. Init => ClosedShiftIsJournaled
  BY DEF Init, ClosedShiftIsJournaled, SalesOf, Existing
<1> QED
  BY <1>1, InvInit, InvStep, JournalStep, PTL DEF Spec

LEMMA SaleAdds ==
    ASSUME NEW S \in SUBSET Sales, NEW s \in Sales \ S
    PROVE  Takings(S \cup {s}) = Takings(S) + Price[s]
<1>1. IsFiniteSet(S) /\ \A x \in S \cup {s} : Price[x] \in Int
  BY SaleAssumption, FiniteSubset DEF Price
<1> QED
  BY <1>1, SumAdd DEF Takings

\* What a void takes from a shift is free.
LEMMA FreeTakesNothing ==
    ASSUME NEW S \in SUBSET Sales, NEW s \in Free
    PROVE  Takings(S \ {s}) = Takings(S)
<1>1. CASE s \notin S
  <2>1. S \ {s} = S
    BY <1>1
  <2> QED
    BY <2>1
<1>2. CASE s \in S
  <2>1. IsFiniteSet(S) /\ IsFiniteSet(S \ {s}) /\ \A x \in S : Price[x] \in Int
    BY SaleAssumption, FiniteSubset DEF Price
  <2>2. Takings(S) = Price[s] + Takings(S \ {s})
    BY <1>2, <2>1, SumRemove DEF Takings
  <2>3. Price[s] = 0
    BY SaleAssumption DEF Price
  <2>4. Takings(S \ {s}) \in Nat
    BY TakingsType
  <2> QED
    BY <2>2, <2>3, <2>4
<1> QED
  BY <1>1, <1>2

LEMMA TotalsStep == Inv /\ TotalsMatchSales /\ [Next]_vars => TotalsMatchSales'
<1> SUFFICES ASSUME Inv, TotalsMatchSales, [Next]_vars,
                    NEW c \in Cashiers, NEW n \in 1..MaxShifts
             PROVE  total'[c][n] = Takings((SalesOf(c, n) \cap Completed)')
  BY DEF TotalsMatchSales, Takings, Price
<1> DEFINE S == SalesOf(c, n) \cap Completed
<1>1. total[c][n] = Takings(S) /\ S \subseteq Sales
  BY DEF TotalsMatchSales, Completed
<1>2. CASE UNCHANGED <<total, order, orderShift>>
  BY <1>1, <1>2 DEF SalesOf, Existing, Completed
<1>3. ASSUME NEW d \in Cashiers, CloseShift(d)
      PROVE  total'[c][n] = Takings(S')
  <2>1. S' = S
    BY <1>3 DEF CloseShift, SalesOf, Existing, Completed, orderVars
  <2>2. CASE c = d /\ n = shiftNo[d]
    BY <1>3, <2>1, <2>2 DEF CloseShift, Inv, TypeOK
  <2>3. CASE ~(c = d /\ n = shiftNo[d])
    <3> PICK taken \in {Takings(SalesOf(d, shiftNo[d]) \cap Completed)} :
                 total' = [total EXCEPT ![d][shiftNo[d]] = taken]
      BY <1>3 DEF CloseShift
    <3>1. total'[c][n] = total[c][n]
      BY <2>3 DEF Inv, TypeOK
    <3> QED
      BY <1>1, <2>1, <3>1
  <2> QED
    BY <2>2, <2>3
<1>4. ASSUME NEW h \in Handlers, Commit(h)
      PROVE  total'[c][n] = Takings(S')
  <2> PICK s \in {req[h]} : TRUE
    OBVIOUS
  <2>1. /\ s \in Sales \ Existing /\ Completed' = Completed \cup {s}
        /\ asked[h] \in 1..MaxShifts /\ Owner[s] \in Cashiers
        /\ total' = [total EXCEPT ![Owner[s]][asked[h]] = @ + Price[s]]
    BY <1>4, CommitMakes
  <2>2. SalesOf(c, n)' = IF c = Owner[s] /\ n = asked[h] THEN SalesOf(c, n) \cup {s}
                         ELSE SalesOf(c, n)
    BY <1>4, CommitEnters
  <2>3. s \notin S /\ s \notin SalesOf(c, n)
    BY <2>1 DEF SalesOf
  <2>4. CASE c = Owner[s] /\ n = asked[h]
    <3>1. S' = S \cup {s}
      BY <2>1, <2>2, <2>4
    <3>2. Takings(S \cup {s}) = Takings(S) + Price[s]
      <4>1. S \in SUBSET Sales /\ s \in Sales \ S
        BY <1>1, <2>1, <2>3
      <4> HIDE DEF S
      <4> QED
        BY <4>1, SaleAdds
    <3>3. total'[c][n] = total[c][n] + Price[s]
      BY <2>1, <2>4 DEF Inv, TypeOK
    <3> QED
      BY <1>1, <3>1, <3>2, <3>3
  <2>5. CASE ~(c = Owner[s] /\ n = asked[h])
    <3>1. S' = S
      BY <2>1, <2>2, <2>3, <2>5
    <3>2. total'[c][n] = total[c][n]
      BY <2>1, <2>5 DEF Inv, TypeOK
    <3> QED
      BY <1>1, <3>1, <3>2
  <2> QED
    BY <2>4, <2>5
<1>5. ASSUME NEW h \in Handlers, VoidCommit(h)
      PROVE  total'[c][n] = Takings(S')
  <2> PICK s \in {req[h]} : TRUE
    OBVIOUS
  <2>1. s \in Existing /\ s \in Free /\ order' = [order EXCEPT ![s] = "voided"]
    BY <1>5 DEF VoidCommit, Inv, OrdersKnown, Voiding
  <2>2. S' = S \ {s}
    BY <1>5, <2>1 DEF VoidCommit, SalesOf, Existing, Completed, Inv, TypeOK
  <2>3. Takings(S \ {s}) = Takings(S)
    <3> HIDE DEF S
    <3> QED
      BY <1>1, <2>1, FreeTakesNothing
  <2> QED
    BY <1>1, <1>5, <2>2, <2>3 DEF VoidCommit
<1> QED
  BY <1>2, <1>3, <1>4, <1>5 DEF Next, Proceed, OpenShift, Look, VoidRead, LockShift,
     RefuseSale, Number, Insert, CommitReplays, CommitFails, Post, VoidLock, VoidStock, VoidRefused, Crash, Deadlock, orderVars, vars

\* The total of every shift, kept up sale by sale and overwritten at its close, is what its
\* standing sales brought in.
THEOREM TotalsFollowSales == Spec => []TotalsMatchSales
<1>1. Init => TotalsMatchSales
  <2> SUFFICES ASSUME Init, NEW c \in Cashiers, NEW n \in 1..MaxShifts
               PROVE  total[c][n] = Takings(SalesOf(c, n) \cap Completed)
    BY DEF TotalsMatchSales
  <2>1. SalesOf(c, n) \cap Completed = {}
    BY DEF Init, SalesOf, Existing
  <2> QED
    BY <2>1, SumEmpty DEF Init, Takings
<1> QED
  BY <1>1, InvInit, InvStep, TotalsStep, PTL DEF Spec

\* One void at a time: at most one handler serves them.
OneVoider == \A g, h \in Voiders : g = h

\* The sale that a lone voider is about to void stands.
VoidsStanding ==
    \A h \in Handlers : pc[h] = "void" \/ Voiding(h) => h \in Voiders /\ req[h] \in Completed

LEMMA VoidsStandingStep ==
    ASSUME OneVoider, Inv, VoidsStanding, [Next]_vars PROVE VoidsStanding'
<1> USE HandlerAssumption DEF Inv, TypeOK, VoidsStanding, Voiding
<1>1. ASSUME NEW h \in Handlers, NEW s \in Sales, NEW c \in Cashiers, VoidRead(h, s, c)
      PROVE  VoidsStanding'
  BY <1>1 DEF VoidRead, Goto, Completed, orderVars
<1>2. ASSUME NEW h \in Handlers, VoidCommit(h) PROVE VoidsStanding'
  <2>1. \A g \in Handlers : pc'[g] \notin {"void", "voiding", "returned"}
    BY <1>2 DEF VoidCommit, Done, Goto, OneVoider
  <2> QED
    BY <2>1
<1>3. ASSUME NEW h \in Handlers, Commit(h) PROVE VoidsStanding'
  <2>1. Completed \subseteq Completed'
    BY <1>3, CommitMakes
  <2> QED
    BY <1>3, <2>1 DEF Commit, Goto
<1>4. CASE UNCHANGED Completed /\ \A h \in Handlers :
             pc'[h] \in {"void", "voiding", "returned"} =>
                 pc[h] \in {"void", "voiding", "returned"} /\ req'[h] = req[h]
  BY <1>4
<1>5. ASSUME NEW h \in Handlers,
             \/ \E s \in Sales : Look(h, s)
             \/ VoidLock(h) \/ VoidRefused(h) \/ VoidStock(h)
             \/ LockShift(h) \/ RefuseSale(h) \/ Number(h) \/ Insert(h) \/ CommitReplays(h)
             \/ CommitFails(h) \/ Post(h) \/ Crash(h) \/ Deadlock(h)
      PROVE  VoidsStanding'
  BY <1>4, <1>5 DEF Look, VoidLock, VoidStock, VoidRefused, LockShift, RefuseSale, Number, Insert,
     CommitReplays, CommitFails, Post, Crash, Deadlock, Done, Goto, Completed, orderVars
<1>6. CASE UNCHANGED <<pc, req, order>>
  BY <1>6 DEF Completed
<1> QED
  BY <1>1, <1>2, <1>3, <1>5, <1>6 DEF Next, Proceed, OpenShift, CloseShift, vars,
     handlerVars, orderVars

LEMMA StockStep ==
    ASSUME Inv, VoidsStanding, StockMatchesSales, [Next]_vars PROVE StockMatchesSales'
<1>1. IsFiniteSet(Completed) /\ Cardinality(Completed) \in Nat
  BY SaleAssumption, FiniteSubset, FS_CardinalityType DEF Completed
<1>2. CASE UNCHANGED <<stock, order>>
  BY <1>2 DEF StockMatchesSales, Completed
<1>3. ASSUME NEW h \in Handlers, Commit(h) PROVE StockMatchesSales'
  <2> PICK s \in {req[h]} : TRUE
    OBVIOUS
  <2>1. Completed' = Completed \cup {s} /\ s \notin Completed
    BY <1>3, CommitMakes DEF Existing, Completed
  <2>2. Cardinality(Completed') = Cardinality(Completed) + 1
    BY <1>1, <2>1, FS_AddElement
  <2>3. stock' = stock - 1 /\ stock \in Nat
    BY <1>3 DEF Commit, Inv, TypeOK
  <2> QED
    BY <1>1, <2>2, <2>3 DEF StockMatchesSales
<1>4. ASSUME NEW h \in Handlers, VoidCommit(h)
      PROVE  StockMatchesSales'
  <2> PICK s \in {req[h]} : TRUE
    OBVIOUS
  <2>1. s \in Completed /\ order' = [order EXCEPT ![s] = "voided"]
    BY <1>4 DEF VoidCommit, VoidsStanding, Voiding
  <2>2. Completed' = Completed \ {s}
    BY <2>1 DEF Completed, Inv, TypeOK
  <2>3. Cardinality(Completed') = Cardinality(Completed) - 1
    BY <1>1, <2>1, <2>2, FS_RemoveElement
  <2>4. stock' = stock + 1 /\ stock \in Nat
    BY <1>4 DEF VoidCommit, Inv, TypeOK
  <2> QED
    BY <1>1, <2>3, <2>4 DEF StockMatchesSales
<1> QED
  BY <1>2, <1>3, <1>4 DEF Next, Proceed, OpenShift, CloseShift, Look, VoidRead, LockShift,
     RefuseSale, Number, Insert, CommitReplays, CommitFails, Post, VoidLock, VoidStock, VoidRefused, Crash, Deadlock, orderVars, vars

\* With one void at a time, a client order id takes its unit of stock once and a void gives
\* it back once, however often requests are repeated.  Two voids at a time break it.
THEOREM StockFollowsSales == OneVoider => (Spec => []StockMatchesSales)
<1> SUFFICES ASSUME OneVoider PROVE Spec => []StockMatchesSales
  OBVIOUS
<1>1. Init => VoidsStanding /\ StockMatchesSales
  <2> SUFFICES ASSUME Init PROVE VoidsStanding /\ StockMatchesSales
    OBVIOUS
  <2>1. Completed = {}
    BY DEF Init, Completed
  <2> QED
    BY <2>1, FS_EmptySet, BoundAssumption DEF Init, VoidsStanding, Voiding, StockMatchesSales
<1>2. Inv /\ VoidsStanding /\ StockMatchesSales /\ [Next]_vars
          => VoidsStanding' /\ StockMatchesSales'
  BY VoidsStandingStep, StockStep
<1> QED
  BY <1>1, <1>2, InvInit, InvStep, PTL DEF Spec

================================================================================
