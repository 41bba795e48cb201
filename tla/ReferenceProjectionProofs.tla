----------------------- MODULE ReferenceProjectionProofs -----------------------
(***************************************************************************)
(* Proofs about ReferenceProjection, for any number of workers, rows,      *)
(* events and faults, and that it implements OutboxDelivery: the initial   *)
(* states map to initial states and every step of a writer, a worker, the  *)
(* clock or a fault maps to one step of the abstract queue or to a stutter. *)
(***************************************************************************)
EXTENDS ReferenceProjection, TLAPS

\* A worker between the Restaurant commit and the acknowledgement holds an applied event.
AckingIsApplied == \A w \in Workers : pc[w] = "ack" => job[w] \in ledger

\* No event and no read is ahead of the row it is about.
NothingFromTheFuture ==
    /\ \A e \in outbox : e.at <= platform[e.agg]
    /\ \A w \in Workers : pc[w] = "apply" => copy[w] <= platform[job[w].agg]
    /\ \A a \in Aggregates : replica[a] <= platform[a]

\* A worker about to upsert an event that is not in the ledger.
Carries(w) == pc[w] = "apply" /\ job[w] \notin ledger

\* What "no two events of one row were in flight together" keeps true of such workers:
\* they carry the same event if it is about the same row, a read that is out of date has a
\* second event behind it, and no read is older than what the Restaurant already has.
CarriedReads ==
    ~overlapped =>
        /\ \A v, w \in Workers :
              Carries(v) /\ Carries(w) /\ job[v].agg = job[w].agg => job[v] = job[w]
        /\ \A w \in Workers :
              Carries(w) /\ copy[w] # platform[job[w].agg] =>
                  \E e \in outbox \ ledger : e.agg = job[w].agg /\ e # job[w]
        /\ \A w \in Workers : Carries(w) => replica[job[w].agg] <= copy[w]

--------------------------------------------------------------------------------
(* Type correctness *)

LEMMA InitType == Init => TypeOK
<1> SUFFICES ASSUME Init PROVE TypeOK
  OBVIOUS
<1>1. 0 \in Versions
  BY BoundAssumption DEF Versions
<1>2. /\ job \in [Workers -> outbox \cup {NoJob}]
      /\ \A w \in Workers : pc[w] = "idle"
  BY DEF Init
<1> QED
  BY <1>1, <1>2 DEF Init, TypeOK, PC

\* Every step keeps the variables in their types and claims on pending events only.
LEMMA TypeStep == TypeOK /\ [Next]_vars => TypeOK'
<1> SUFFICES ASSUME TypeOK, [Next]_vars PROVE TypeOK'
  OBVIOUS
<1> USE BoundAssumption DEF TypeOK
<1>1. ASSUME NEW a \in Aggregates, Write(a) PROVE TypeOK'
  <2>1. platform[a] + 1 \in Versions \ {0}
    BY <1>1 DEF Write, Versions
  <2>2. WriteEvent(a) \in Event
    BY <2>1 DEF WriteEvent, Event
  <2>3. platform' \in [Aggregates -> Versions]
    BY <1>1, <2>1 DEF Write
  <2> QED
    BY <1>1, <2>2, <2>3 DEF Write, outboxVars, restaurantVars, workerVars
<1>2. ASSUME SeedSnapshot PROVE TypeOK'
  <2>1. ASSUME NEW a \in Aggregates, platform[a] > 0
        PROVE  [agg |-> a, at |-> platform[a], snapshot |-> TRUE] \in Event
    <3>1. platform[a] \in Versions \ {0}
      BY <2>1 DEF Versions
    <3> QED
      BY <3>1 DEF Event
  <2>2. Snapshots \subseteq Event
    BY <2>1 DEF Snapshots
  <2> QED
    BY <1>2, <2>2 DEF SeedSnapshot, outboxVars, restaurantVars, workerVars
<1>3. ASSUME NEW e \in outbox, ClaimExpires(e) PROVE TypeOK'
  BY <1>3 DEF ClaimExpires, restaurantVars, workerVars
<1>4. ASSUME NEW e \in outbox, BackoffElapses(e) PROVE TypeOK'
  BY <1>4 DEF BackoffElapses, restaurantVars, workerVars
<1>5. ASSUME NEW w \in Workers, Claim(w) PROVE TypeOK'
  BY <1>5 DEF Claim, Claimable, Candidates, PC, restaurantVars
<1>6. ASSUME NEW w \in Workers, Load(w) PROVE TypeOK'
  <2> PICK e \in batch[w] :
        /\ batch' = [batch EXCEPT ![w] = @ \ {e}]
        /\ job' = [job EXCEPT ![w] = e]
        /\ copy' = [copy EXCEPT ![w] = platform[e.agg]]
        /\ overlapped' = (overlapped \/ Overlaps(w, e))
    BY <1>6 DEF Load
  <2>1. e \in outbox /\ e \in Event /\ e.agg \in Aggregates
    BY DEF Event
  <2>2. e # NoJob
    BY <2>1, NoParentAssumption DEF NoJob
  <2>3. platform[e.agg] \in Versions
    BY <2>1
  <2>4. Overlaps(w, e) \in BOOLEAN
    BY DEF Overlaps
  <2> QED
    BY <1>6, <2>1, <2>2, <2>3, <2>4 DEF Load, PC, outboxVars, restaurantVars
<1>7. ASSUME NEW w \in Workers, Rest(w) PROVE TypeOK'
  BY <1>7 DEF Rest, PC, outboxVars, restaurantVars
<1>8. ASSUME NEW w \in Workers, pc[w] = "apply", ApplyToRestaurant(job[w], copy[w])
      PROVE ledger' \subseteq outbox /\ replica' \in [Aggregates -> Versions]
  <2>1. job[w] \in outbox /\ job[w].agg \in Aggregates
    BY <1>8 DEF Event
  <2> QED
    BY <1>8, <2>1 DEF ApplyToRestaurant
<1>9. ASSUME NEW w \in Workers, Apply(w) PROVE TypeOK'
  BY <1>8, <1>9 DEF Apply, PC, Versions, outboxVars
<1>10. ASSUME NEW w \in Workers, RejectApply(w) PROVE TypeOK'
  BY <1>10 DEF RejectApply, PC, Versions, outboxVars, restaurantVars
<1>11. ASSUME NEW w \in Workers, Ack(w) PROVE TypeOK'
  BY <1>11 DEF Ack, MarkProcessed, PC, outboxVars, restaurantVars
<1>12. ASSUME NEW w \in Workers, Fail(w) PROVE TypeOK'
  BY <1>12 DEF Fail, MarkFailed, PC, outboxVars, restaurantVars
<1>13. ASSUME NEW w \in Workers, StepRaises(w) PROVE TypeOK'
  BY <1>13 DEF StepRaises, CountFault, PC, Versions, outboxVars, restaurantVars
<1>14. ASSUME NEW w \in Workers, ApplyReplyLost(w) PROVE TypeOK'
  BY <1>8, <1>14 DEF ApplyReplyLost, CountFault, PC, Versions, outboxVars
<1>15. ASSUME NEW w \in Workers, Abort(w) PROVE TypeOK'
  BY <1>15 DEF Abort, CountFault, PC, Versions, outboxVars, restaurantVars
<1>16. ASSUME UNCHANGED vars PROVE TypeOK'
  BY <1>16 DEF vars, outboxVars, restaurantVars, workerVars
<1> QED
  BY <1>1, <1>2, <1>3, <1>4, <1>5, <1>6, <1>7, <1>9, <1>10, <1>11, <1>12, <1>13, <1>14,
     <1>15, <1>16 DEF Next, WorkerStep

\* Every reachable state is well typed, and no acknowledged event keeps a claim
\* (claim_outbox_events, mark_outbox_processed, mark_outbox_failed).
THEOREM TypeCorrect == Spec => []TypeOK
  BY InitType, TypeStep, PTL DEF Spec

--------------------------------------------------------------------------------
(* Acknowledgement follows application *)

LEMMA AckedStep ==
    TypeOK /\ AckedIsApplied /\ AckingIsApplied /\ [Next]_vars
        => AckedIsApplied' /\ AckingIsApplied'
<1> SUFFICES ASSUME TypeOK, AckedIsApplied, AckingIsApplied, [Next]_vars
             PROVE  AckedIsApplied' /\ AckingIsApplied'
  OBVIOUS
<1> USE DEF TypeOK, AckedIsApplied, AckingIsApplied
<1>1. CASE processed' = processed /\ ledger' = ledger /\ pc' = pc /\ job' = job
  BY <1>1
<1>2. ASSUME NEW a \in Aggregates, Write(a) PROVE AckedIsApplied' /\ AckingIsApplied'
  BY <1>1, <1>2 DEF Write, outboxVars, restaurantVars, workerVars
<1>3. ASSUME SeedSnapshot PROVE AckedIsApplied' /\ AckingIsApplied'
  BY <1>1, <1>3 DEF SeedSnapshot, outboxVars, restaurantVars, workerVars
<1>4. ASSUME NEW e \in outbox, ClaimExpires(e) \/ BackoffElapses(e)
      PROVE  AckedIsApplied' /\ AckingIsApplied'
  BY <1>1, <1>4 DEF ClaimExpires, BackoffElapses, restaurantVars, workerVars
<1>5. ASSUME NEW w \in Workers, Claim(w) PROVE AckedIsApplied' /\ AckingIsApplied'
  BY <1>5 DEF Claim, restaurantVars
<1>6. ASSUME NEW w \in Workers, Load(w) PROVE AckedIsApplied' /\ AckingIsApplied'
  BY <1>6 DEF Load, outboxVars, restaurantVars
<1>7. ASSUME NEW w \in Workers, Rest(w) PROVE AckedIsApplied' /\ AckingIsApplied'
  BY <1>7 DEF Rest, outboxVars, restaurantVars
<1>8. ASSUME NEW w \in Workers, ApplyToRestaurant(job[w], copy[w])
      PROVE  ledger' = ledger \cup {job[w]}
  BY <1>8 DEF ApplyToRestaurant
<1>9. ASSUME NEW w \in Workers, Apply(w) PROVE AckedIsApplied' /\ AckingIsApplied'
  BY <1>8, <1>9 DEF Apply, outboxVars
<1>10. ASSUME NEW w \in Workers, RejectApply(w) PROVE AckedIsApplied' /\ AckingIsApplied'
  BY <1>10 DEF RejectApply, outboxVars, restaurantVars
<1>11. ASSUME NEW w \in Workers, Ack(w) PROVE AckedIsApplied' /\ AckingIsApplied'
  BY <1>11 DEF Ack, MarkProcessed, outboxVars, restaurantVars
<1>12. ASSUME NEW w \in Workers, Fail(w) PROVE AckedIsApplied' /\ AckingIsApplied'
  BY <1>12 DEF Fail, MarkFailed, outboxVars, restaurantVars
<1>13. ASSUME NEW w \in Workers, StepRaises(w) PROVE AckedIsApplied' /\ AckingIsApplied'
  BY <1>13 DEF StepRaises, outboxVars, restaurantVars
<1>14. ASSUME NEW w \in Workers, ApplyReplyLost(w) PROVE AckedIsApplied' /\ AckingIsApplied'
  BY <1>8, <1>14 DEF ApplyReplyLost, outboxVars
<1>15. ASSUME NEW w \in Workers, Abort(w) PROVE AckedIsApplied' /\ AckingIsApplied'
  BY <1>15 DEF Abort, outboxVars, restaurantVars
<1>16. ASSUME UNCHANGED vars PROVE AckedIsApplied' /\ AckingIsApplied'
  BY <1>1, <1>16 DEF vars, outboxVars, restaurantVars, workerVars
<1> QED
  BY <1>2, <1>3, <1>4, <1>5, <1>6, <1>7, <1>9, <1>10, <1>11, <1>12, <1>13, <1>14, <1>15,
     <1>16 DEF Next, WorkerStep

\* An outbox event is acknowledged only after the Restaurant transaction that recorded it
\* (process_projection_batch: claim, apply, acknowledge), for every interleaving of any
\* number of workers, expired claims, lost replies and crashes.
THEOREM AckedImpliesApplied == Spec => []AckedIsApplied
<1>1. Init => AckedIsApplied /\ AckingIsApplied
  BY DEF Init, AckedIsApplied, AckingIsApplied
<1> QED
  BY <1>1, TypeCorrect, AckedStep, PTL DEF Spec

--------------------------------------------------------------------------------
(* Reads are never ahead of their row *)

LEMMA FutureStep ==
    TypeOK /\ TypeOK' /\ NothingFromTheFuture /\ [Next]_vars => NothingFromTheFuture'
<1> SUFFICES ASSUME TypeOK, TypeOK', NothingFromTheFuture, [Next]_vars
             PROVE  NothingFromTheFuture'
  OBVIOUS
<1> USE BoundAssumption DEF TypeOK, NothingFromTheFuture, Event, Versions
<1>1. CASE /\ platform' = platform /\ outbox' = outbox /\ replica' = replica
           /\ \A w \in Workers :
                 pc'[w] = "apply" => pc[w] = "apply" /\ job'[w] = job[w] /\ copy'[w] = copy[w]
  BY <1>1
<1>2. ASSUME NEW a \in Aggregates, Write(a) PROVE NothingFromTheFuture'
  <2>1. \A b \in Aggregates : platform[b] <= platform'[b] /\ platform'[a] = platform[a] + 1
    BY <1>2 DEF Write
  <2>2. \A e \in outbox' : e.at <= platform'[e.agg]
    BY <1>2, <2>1 DEF Write, WriteEvent
  <2>3. \A w \in Workers : pc[w] = "apply" => job[w] \in outbox
    OBVIOUS
  <2>4. \A w \in Workers : pc[w] = "apply" => copy[w] <= platform'[job[w].agg]
    BY <2>1, <2>3
  <2> QED
    BY <1>2, <2>1, <2>2, <2>4 DEF Write, restaurantVars, workerVars
<1>3. ASSUME SeedSnapshot PROVE NothingFromTheFuture'
  <2>1. \A e \in Snapshots : e.at = platform[e.agg]
    BY DEF Snapshots
  <2> QED
    BY <1>3, <2>1 DEF SeedSnapshot, restaurantVars, workerVars
<1>4. ASSUME NEW e \in outbox, ClaimExpires(e) \/ BackoffElapses(e)
      PROVE  NothingFromTheFuture'
  BY <1>1, <1>4 DEF ClaimExpires, BackoffElapses, restaurantVars, workerVars
<1>5. ASSUME NEW w \in Workers, Load(w) PROVE NothingFromTheFuture'
  BY <1>5 DEF Load, outboxVars, restaurantVars
<1>6. ASSUME NEW w \in Workers, pc[w] = "apply", ApplyToRestaurant(job[w], copy[w]),
             platform' = platform, outbox' = outbox, job' = job,
             pc'[w] # "apply",
             \A v \in Workers \ {w} : pc'[v] = pc[v] /\ copy'[v] = copy[v]
      PROVE  NothingFromTheFuture'
  <2>1. \A a \in Aggregates : replica'[a] <= platform[a]
    BY <1>6 DEF ApplyToRestaurant
  <2> QED
    BY <1>6, <2>1
<1>7. ASSUME NEW w \in Workers, Apply(w) \/ ApplyReplyLost(w) PROVE NothingFromTheFuture'
  BY <1>6, <1>7 DEF Apply, ApplyReplyLost
<1>8. ASSUME NEW w \in Workers,
             \/ Claim(w) \/ Rest(w) \/ RejectApply(w) \/ Ack(w) \/ Fail(w)
             \/ StepRaises(w) \/ Abort(w)
      PROVE  NothingFromTheFuture'
  BY <1>1, <1>8 DEF Claim, Rest, RejectApply, Ack, Fail, StepRaises, Abort, outboxVars,
                   restaurantVars
<1>9. ASSUME UNCHANGED vars PROVE NothingFromTheFuture'
  BY <1>1, <1>9 DEF vars, outboxVars, restaurantVars, workerVars
<1> QED
  BY <1>2, <1>3, <1>4, <1>5, <1>7, <1>8, <1>9 DEF Next, WorkerStep

--------------------------------------------------------------------------------
(* Convergence: a stale row always has a pending event *)

Convergent == StaleRowHasPendingEvent /\ CarriedReads

\* Steps that leave both databases alone and start no new read.
LEMMA QuietStep ==
    ASSUME Convergent,
           platform' = platform, outbox' = outbox, ledger' = ledger, replica' = replica,
           overlapped' = overlapped,
           \A w \in Workers :
              pc'[w] = "apply" => pc[w] = "apply" /\ job'[w] = job[w] /\ copy'[w] = copy[w]
    PROVE  Convergent'
  BY DEF Convergent, StaleRowHasPendingEvent, CarriedReads, Carries

\* A Platform write makes its row stale and brings the event that will repair it.
LEMMA WriteStep ==
    ASSUME TypeOK, NothingFromTheFuture, Convergent, NEW a \in Aggregates, Write(a)
    PROVE  Convergent'
<1> USE DEF TypeOK
<1> DEFINE e == WriteEvent(a)
<1>1. e.agg = a /\ e \in outbox' /\ e \notin outbox
  <2>1. e.at = platform[a] + 1 /\ platform[a] \in Nat
    BY BoundAssumption DEF WriteEvent, Versions
  <2> QED
    BY <2>1 DEF Write, WriteEvent, NothingFromTheFuture
<1>2. e \notin ledger
  BY <1>1
<1>3. \A w \in Workers : pc[w] = "apply" => job[w] \in outbox /\ job[w] # e
  BY <1>1
<1>4. /\ outbox \subseteq outbox' /\ ledger' = ledger /\ replica' = replica
      /\ overlapped' = overlapped /\ pc' = pc /\ job' = job /\ copy' = copy
      /\ \A b \in Aggregates \ {a} : platform'[b] = platform[b]
  BY DEF Write, restaurantVars, workerVars
<1>5. StaleRowHasPendingEvent'
  <2> SUFFICES ASSUME ~overlapped', NEW b \in Aggregates, replica'[b] # platform'[b]
               PROVE  \E f \in outbox' \ ledger' : f.agg = b
    BY DEF StaleRowHasPendingEvent
  <2>1. CASE b = a
    BY <1>1, <1>2, <1>4, <2>1
  <2>2. CASE b # a
    BY <1>4, <2>2 DEF Convergent, StaleRowHasPendingEvent
  <2> QED
    BY <2>1, <2>2
<1>6. CarriedReads'
  <2> SUFFICES ASSUME ~overlapped' PROVE
        /\ \A v, w \in Workers :
              Carries(v)' /\ Carries(w)' /\ job'[v].agg = job'[w].agg => job'[v] = job'[w]
        /\ \A w \in Workers :
              Carries(w)' /\ copy'[w] # platform'[job'[w].agg] =>
                  \E f \in outbox' \ ledger' : f.agg = job'[w].agg /\ f # job'[w]
        /\ \A w \in Workers : Carries(w)' => replica'[job'[w].agg] <= copy'[w]
    BY DEF CarriedReads
  <2>1. \A w \in Workers : Carries(w)' <=> Carries(w)
    BY <1>4 DEF Carries
  <2>2. ASSUME NEW w \in Workers, Carries(w), copy[w] # platform'[job[w].agg]
        PROVE  \E f \in outbox' \ ledger : f.agg = job[w].agg /\ f # job[w]
    <3>1. CASE job[w].agg = a
      BY <1>1, <1>2, <1>3, <2>2, <3>1 DEF Carries
    <3>2. CASE job[w].agg # a
      <4>1. job[w].agg \in Aggregates \ {a}
        BY <1>3, <2>2, <3>2 DEF Carries, Event
      <4> QED
        BY <1>4, <2>2, <4>1 DEF Convergent, CarriedReads
    <3> QED
      BY <3>1, <3>2
  <2> QED
    BY <1>4, <2>1, <2>2 DEF Convergent, CarriedReads
<1> QED
  BY <1>5, <1>6 DEF Convergent

\* A snapshot seed only adds events.
LEMMA SeedStep == Convergent /\ SeedSnapshot => Convergent'
  BY DEF Convergent, StaleRowHasPendingEvent, CarriedReads, Carries, SeedSnapshot,
         restaurantVars, workerVars

\* A read carries the current version, and sets overlapped when it joins another read.
LEMMA LoadStep ==
    ASSUME TypeOK, NothingFromTheFuture, Convergent, NEW w \in Workers, Load(w)
    PROVE  Convergent'
<1> USE DEF TypeOK
<1> PICK e \in batch[w] :
      /\ job' = [job EXCEPT ![w] = e]
      /\ copy' = [copy EXCEPT ![w] = platform[e.agg]]
      /\ overlapped' = (overlapped \/ Overlaps(w, e))
  BY DEF Load
<1>1. e \in outbox /\ e.agg \in Aggregates
  BY DEF Event
<1>2. /\ job'[w] = e /\ copy'[w] = platform[e.agg]
      /\ \A v \in Workers \ {w} : pc'[v] = pc[v] /\ job'[v] = job[v] /\ copy'[v] = copy[v]
      /\ platform' = platform /\ outbox' = outbox /\ ledger' = ledger /\ replica' = replica
  BY DEF Load, restaurantVars
<1>3. StaleRowHasPendingEvent'
  BY <1>2 DEF Convergent, StaleRowHasPendingEvent
<1>4. CarriedReads'
  <2> SUFFICES ASSUME ~overlapped' PROVE
        /\ \A u, v \in Workers :
              Carries(u)' /\ Carries(v)' /\ job'[u].agg = job'[v].agg => job'[u] = job'[v]
        /\ \A v \in Workers :
              Carries(v)' /\ copy'[v] # platform'[job'[v].agg] =>
                  \E f \in outbox' \ ledger' : f.agg = job'[v].agg /\ f # job'[v]
        /\ \A v \in Workers : Carries(v)' => replica'[job'[v].agg] <= copy'[v]
    BY DEF CarriedReads
  <2>1. ~overlapped /\ ~Overlaps(w, e)
    OBVIOUS
  <2>2. \A v \in Workers \ {w} : Carries(v)' <=> Carries(v)
    BY <1>2 DEF Carries
  <2>3. ASSUME NEW v \in Workers \ {w}, Carries(v), Carries(w)', job[v].agg = e.agg
        PROVE  job[v] = e
    BY <1>2, <2>1, <2>3 DEF Overlaps, Carries
  <2>4. replica[e.agg] <= platform[e.agg]
    BY <1>1 DEF NothingFromTheFuture
  <2> QED
    BY <1>2, <2>1, <2>2, <2>3, <2>4 DEF Convergent, CarriedReads
<1> QED
  BY <1>3, <1>4 DEF Convergent

\* The upsert installs the carried version.  If that version is out of date the row keeps
\* the second event the read had behind it, and no other carried read is disturbed,
\* because it would be of the same event, which is now in the ledger.
LEMMA ApplyStep ==
    ASSUME TypeOK, Convergent, NEW w \in Workers, pc[w] = "apply",
           ApplyToRestaurant(job[w], copy[w]),
           platform' = platform, outbox' = outbox, job' = job, overlapped' = overlapped,
           pc'[w] # "apply",
           \A v \in Workers \ {w} : pc'[v] = pc[v] /\ copy'[v] = copy[v]
    PROVE  Convergent'
<1> USE DEF TypeOK
<1>1. CASE job[w] \in ledger
  BY <1>1, QuietStep DEF ApplyToRestaurant
<1>2. CASE job[w] \notin ledger
  <2> DEFINE e == job[w]
  <2>1. e \in outbox /\ e.agg \in Aggregates /\ Carries(w)
    BY <1>2 DEF Carries, Event
  <2>2. /\ ledger' = ledger \cup {e}
        /\ replica'[e.agg] = copy[w]
        /\ \A a \in Aggregates \ {e.agg} : replica'[a] = replica[a]
    BY <1>2, <2>1 DEF ApplyToRestaurant
  <2>3. ASSUME NEW v \in Workers, Carries(v)'
        PROVE  Carries(v) /\ v # w /\ job[v] # e /\ copy'[v] = copy[v]
               /\ job[v].agg \in Aggregates
    <3>1. v # w /\ job[v] # e /\ Carries(v)
      BY <2>2, <2>3 DEF Carries
    <3>2. job[v] \in outbox
      BY <3>1 DEF Carries
    <3> QED
      BY <3>1, <3>2 DEF Event
  <2>4. ASSUME ~overlapped, NEW v \in Workers, Carries(v)'
        PROVE  job[v].agg # e.agg
    BY <2>1, <2>3, <2>4 DEF Convergent, CarriedReads
  <2>5. StaleRowHasPendingEvent'
    <3> SUFFICES ASSUME ~overlapped, NEW a \in Aggregates, replica'[a] # platform[a]
                 PROVE  \E f \in outbox \ ledger' : f.agg = a
      BY DEF StaleRowHasPendingEvent
    <3>1. CASE a = e.agg
      BY <2>1, <2>2, <3>1 DEF Convergent, CarriedReads
    <3>2. CASE a # e.agg
      BY <2>2, <3>2 DEF Convergent, StaleRowHasPendingEvent
    <3> QED
      BY <3>1, <3>2
  <2>6. CarriedReads'
    <3> SUFFICES ASSUME ~overlapped PROVE
          /\ \A u, v \in Workers :
                Carries(u)' /\ Carries(v)' /\ job[u].agg = job[v].agg => job[u] = job[v]
          /\ \A v \in Workers :
                Carries(v)' /\ copy'[v] # platform[job[v].agg] =>
                    \E f \in outbox \ ledger' : f.agg = job[v].agg /\ f # job[v]
          /\ \A v \in Workers : Carries(v)' => replica'[job[v].agg] <= copy'[v]
      BY DEF CarriedReads
    <3>1. ASSUME NEW v \in Workers, Carries(v)', copy'[v] # platform[job[v].agg]
          PROVE  \E f \in outbox \ ledger' : f.agg = job[v].agg /\ f # job[v]
      BY <2>2, <2>3, <2>4, <3>1 DEF Convergent, CarriedReads
    <3>2. ASSUME NEW v \in Workers, Carries(v)'
          PROVE  replica'[job[v].agg] <= copy'[v]
      BY <2>2, <2>3, <2>4, <3>2 DEF Convergent, CarriedReads
    <3>3. ASSUME NEW u \in Workers, NEW v \in Workers, Carries(u)', Carries(v)',
                 job[u].agg = job[v].agg
          PROVE  job[u] = job[v]
      BY <2>3, <3>3 DEF Convergent, CarriedReads
    <3> QED
      BY <3>1, <3>2, <3>3
  <2> QED
    BY <2>5, <2>6 DEF Convergent
<1> QED
  BY <1>1, <1>2

LEMMA ConvergentStep ==
    TypeOK /\ NothingFromTheFuture /\ Convergent /\ [Next]_vars => Convergent'
<1> SUFFICES ASSUME TypeOK, NothingFromTheFuture, Convergent, [Next]_vars
             PROVE  Convergent'
  OBVIOUS
<1> USE DEF TypeOK
<1>1. ASSUME NEW a \in Aggregates, Write(a) PROVE Convergent'
  BY <1>1, WriteStep
<1>2. ASSUME SeedSnapshot PROVE Convergent'
  BY <1>2, SeedStep
<1>3. ASSUME NEW e \in outbox, ClaimExpires(e) \/ BackoffElapses(e) PROVE Convergent'
  BY <1>3, QuietStep DEF ClaimExpires, BackoffElapses, restaurantVars, workerVars
<1>4. ASSUME NEW w \in Workers, Load(w) PROVE Convergent'
  BY <1>4, LoadStep
<1>5. ASSUME NEW w \in Workers, Apply(w) \/ ApplyReplyLost(w) PROVE Convergent'
  BY <1>5, ApplyStep DEF Apply, ApplyReplyLost
<1>6. ASSUME NEW w \in Workers,
             \/ Claim(w) \/ Rest(w) \/ RejectApply(w) \/ Ack(w) \/ Fail(w)
             \/ StepRaises(w) \/ Abort(w)
      PROVE  Convergent'
  BY <1>6, QuietStep DEF Claim, Rest, RejectApply, Ack, Fail, StepRaises, Abort,
                         outboxVars, restaurantVars
<1>7. ASSUME UNCHANGED vars PROVE Convergent'
  BY <1>7, QuietStep DEF vars, outboxVars, restaurantVars, workerVars
<1> QED
  BY <1>1, <1>2, <1>3, <1>4, <1>5, <1>6, <1>7 DEF Next, WorkerStep

--------------------------------------------------------------------------------
(* The inductive invariant and what follows from it *)

IInv ==
    /\ TypeOK
    /\ AckedIsApplied
    /\ AckingIsApplied
    /\ NothingFromTheFuture
    /\ Convergent

LEMMA IInvInit == Init => IInv
<1> SUFFICES ASSUME Init PROVE IInv
  OBVIOUS
<1>1. TypeOK
  BY InitType
<1>2. NothingFromTheFuture
  BY DEF Init, NothingFromTheFuture
<1>3. AckedIsApplied /\ AckingIsApplied /\ Convergent
  BY DEF Init, AckedIsApplied, AckingIsApplied, Convergent, StaleRowHasPendingEvent,
         CarriedReads, Carries
<1> QED
  BY <1>1, <1>2, <1>3 DEF IInv

LEMMA IInvStep == IInv /\ [Next]_vars => IInv'
<1> SUFFICES ASSUME IInv, [Next]_vars PROVE IInv'
  OBVIOUS
<1>1. TypeOK'
  BY TypeStep DEF IInv
<1>2. AckedIsApplied' /\ AckingIsApplied'
  BY AckedStep DEF IInv
<1>3. NothingFromTheFuture'
  BY <1>1, FutureStep DEF IInv
<1>4. Convergent'
  BY ConvergentStep DEF IInv
<1> QED
  BY <1>1, <1>2, <1>3, <1>4 DEF IInv

THEOREM Invariance == Spec => []IInv
  BY IInvInit, IInvStep, PTL DEF Spec

\* Unless two events of one row were in flight together, a Restaurant row that differs
\* from Platform has an event no worker has applied: the projector will read it again.
THEOREM StaleRowsStayPending == Spec => []StaleRowHasPendingEvent
<1>1. IInv => StaleRowHasPendingEvent
  BY DEF IInv, Convergent
<1> QED
  BY <1>1, Invariance, PTL

\* Under the same condition no step takes a Restaurant row back to an older version: the
\* ledger discards the stale read of a worker whose event was applied by another one.
THEOREM NoRegression == Spec => ReplicaNeverRegresses
<1>1. ASSUME IInv, [Next]_vars, ~overlapped, NEW a \in Aggregates
      PROVE  replica'[a] >= replica[a]
  <2> USE <1>1, BoundAssumption DEF IInv, TypeOK, Versions
  <2>1. ASSUME NEW w \in Workers, pc[w] = "apply", ApplyToRestaurant(job[w], copy[w])
        PROVE  replica'[a] >= replica[a]
    <3>1. CASE job[w] \in ledger
      BY <2>1, <3>1 DEF ApplyToRestaurant
    <3>2. CASE job[w] \notin ledger
      <4>1. replica[job[w].agg] <= copy[w]
        BY <2>1, <3>2 DEF Convergent, CarriedReads, Carries
      <4> QED
        BY <2>1, <3>2, <4>1 DEF ApplyToRestaurant
    <3> QED
      BY <3>1, <3>2
  <2>2. ASSUME NEW w \in Workers, Apply(w) \/ ApplyReplyLost(w)
        PROVE  replica'[a] >= replica[a]
    BY <2>1, <2>2 DEF Apply, ApplyReplyLost
  <2>3. CASE replica' = replica
    BY <2>3
  <2> QED
    BY <2>2, <2>3 DEF Next, WorkerStep, Write, SeedSnapshot, ClaimExpires, BackoffElapses,
       Claim, Load, Rest, RejectApply, Ack, Fail, StepRaises, Abort, vars, restaurantVars
<1>2. IInv /\ [Next]_vars =>
        [~overlapped => \A a \in Aggregates : replica'[a] >= replica[a]]_vars
  BY <1>1
<1> QED
  BY <1>2, Invariance, PTL DEF Spec, ReplicaNeverRegresses

LEMMA ParityWithoutOverlap ==
    IInv /\ ~overlapped /\ outbox = processed => replica = platform
<1> SUFFICES ASSUME IInv, ~overlapped, outbox = processed PROVE replica = platform
  OBVIOUS
<1>1. \A a \in Aggregates : replica[a] = platform[a]
  BY DEF IInv, Convergent, StaleRowHasPendingEvent, AckedIsApplied
<1>2. replica \in [Aggregates -> Versions] /\ platform \in [Aggregates -> Versions]
  BY DEF IInv, TypeOK
<1> QED
  BY <1>1, <1>2

\* With a single projector replica the drained outbox implies parity, as the --verify
\* switch of the CLI expects: one worker never has two events in flight.
THEOREM SingleWorkerParity ==
    ASSUME NEW only, Workers = {only}
    PROVE  Spec => []DrainedParity
<1>1. Init => ~overlapped
  BY DEF Init
<1>2. ~overlapped /\ [Next]_vars => ~overlapped'
  BY DEF Next, WorkerStep, Write, SeedSnapshot, ClaimExpires, BackoffElapses, Claim, Load,
     Rest, Apply, RejectApply, Ack, Fail, StepRaises, ApplyReplyLost, Abort, vars, Overlaps
<1>3. IInv /\ ~overlapped => DrainedParity
  BY ParityWithoutOverlap DEF DrainedParity
<1> QED
  BY <1>1, <1>2, <1>3, Invariance, PTL DEF Spec

--------------------------------------------------------------------------------
(* The refinement *)

\* A worker about to upsert has read a row that exists.
ReadsARow == \A w \in Workers : pc[w] = "apply" => copy[w] > 0

LEMMA ReadsARowStep == IInv /\ ReadsARow /\ [Next]_vars => ReadsARow'
<1> SUFFICES ASSUME IInv, ReadsARow, [Next]_vars PROVE ReadsARow'
  OBVIOUS
<1> USE BoundAssumption DEF IInv, TypeOK, ReadsARow
<1>1. CASE \A w \in Workers : pc'[w] = "apply" => pc[w] = "apply" /\ copy'[w] = copy[w]
  BY <1>1
<1>2. ASSUME NEW w \in Workers, Load(w) PROVE ReadsARow'
  <2> PICK e \in batch[w] : copy' = [copy EXCEPT ![w] = platform[e.agg]]
    BY <1>2 DEF Load
  <2>1. e \in outbox /\ e \in Event
    OBVIOUS
  <2>2. e.at <= platform[e.agg] /\ e.at > 0
    BY <2>1 DEF NothingFromTheFuture, Event, Versions
  <2>3. platform[e.agg] > 0
    BY <2>1, <2>2 DEF Event, Versions
  <2> QED
    BY <1>2, <2>3 DEF Load
<1>3. ASSUME NEW w \in Workers,
             \/ Claim(w) \/ Rest(w) \/ Apply(w) \/ RejectApply(w) \/ Ack(w) \/ Fail(w)
             \/ StepRaises(w) \/ ApplyReplyLost(w) \/ Abort(w)
      PROVE  ReadsARow'
  BY <1>1, <1>3 DEF Claim, Rest, Apply, RejectApply, Ack, Fail, StepRaises,
                    ApplyReplyLost, Abort
<1>4. ASSUME \/ \E a \in Aggregates : Write(a)
             \/ SeedSnapshot
             \/ \E e \in outbox : ClaimExpires(e) \/ BackoffElapses(e)
             \/ UNCHANGED vars
      PROVE  ReadsARow'
  BY <1>1, <1>4 DEF Write, SeedSnapshot, ClaimExpires, BackoffElapses, vars, workerVars
<1> QED
  BY <1>2, <1>3, <1>4 DEF Next, WorkerStep

--------------------------------------------------------------------------------
(* The simulation *)

LEMMA DeliveryInit == Init => Delivery!Init
  BY DEF Init, Delivery!Init

\* The upsert of an event is a delivery the first time and a stutter ever after.
LEMMA UpsertDelivers ==
    ASSUME TypeOK, NothingFromTheFuture, ReadsARow, NEW w \in Workers,
           pc[w] = "apply", ~ApplyRejected(job[w]), ApplyToRestaurant(job[w], copy[w]),
           platform' = platform, outbox' = outbox, processed' = processed
    PROVE  Delivery!Next \/ UNCHANGED Delivery!vars
<1> USE BoundAssumption DEF TypeOK
<1>1. CASE job[w] \in ledger
  BY <1>1 DEF ApplyToRestaurant, Delivery!vars
<1>2. CASE job[w] \notin ledger
  <2> DEFINE e == job[w]
  <2>1. e \in outbox /\ e \in Event
    OBVIOUS
  <2>2. Parent[e.agg] # NoParent => replica[Parent[e.agg]] > 0
    BY <1>2 DEF ApplyRejected, ForeignKeyHolds
  <2>3. copy[w] \in 1..platform[e.agg]
    BY <2>1 DEF NothingFromTheFuture, ReadsARow, Event, Versions
  <2>4. Delivery!Deliver(e)
    BY <1>2, <2>1, <2>2, <2>3 DEF ApplyToRestaurant, Delivery!Deliver
  <2> QED
    BY <2>1, <2>4 DEF Delivery!Next
<1> QED
  BY <1>1, <1>2

LEMMA DeliveryStep ==
    IInv /\ ReadsARow /\ [Next]_vars => [Delivery!Next]_(Delivery!vars)
<1> SUFFICES ASSUME IInv, ReadsARow, [Next]_vars
             PROVE  Delivery!Next \/ UNCHANGED Delivery!vars
  OBVIOUS
<1> USE BoundAssumption DEF IInv, TypeOK
<1>1. CASE UNCHANGED <<platform, outbox, ledger, processed, replica>>
  BY <1>1 DEF Delivery!vars
<1>2. ASSUME NEW a \in Aggregates, Write(a)
      PROVE  Delivery!Next \/ UNCHANGED Delivery!vars
  <2>1. WriteEvent(a) \in Event /\ WriteEvent(a).agg = a
    BY <1>2 DEF Write, WriteEvent, Event, Versions
  <2>2. WriteEvent(a) \notin outbox
    BY DEF NothingFromTheFuture, WriteEvent, Versions
  <2>3. Delivery!Publish(a)
    BY <1>2, <2>1, <2>2 DEF Write, restaurantVars, outboxVars, Delivery!Publish
  <2> QED
    BY <2>3 DEF Delivery!Next
<1>3. ASSUME SeedSnapshot PROVE Delivery!Next \/ UNCHANGED Delivery!vars
  <2>1. ASSUME NEW b \in Aggregates, platform[b] > 0
        PROVE  /\ [agg |-> b, at |-> platform[b], snapshot |-> TRUE] \in Event
               /\ [agg |-> b, at |-> platform[b], snapshot |-> TRUE].agg = b
    BY <2>1 DEF Event, Versions
  <2>2. Snapshots \subseteq {e \in Event : platform[e.agg] > 0}
    BY <2>1 DEF Snapshots
  <2>3. Delivery!Announce
    BY <1>3, <2>2 DEF SeedSnapshot, restaurantVars, outboxVars, Delivery!Announce
  <2> QED
    BY <2>3 DEF Delivery!Next
<1>4. ASSUME NEW w \in Workers, Apply(w) \/ ApplyReplyLost(w)
      PROVE  Delivery!Next \/ UNCHANGED Delivery!vars
  BY <1>4, UpsertDelivers DEF Apply, ApplyReplyLost, outboxVars
<1>5. ASSUME NEW w \in Workers, Ack(w)
      PROVE  Delivery!Next \/ UNCHANGED Delivery!vars
  <2>1. CASE job[w] \in processed
    BY <1>1, <1>5, <2>1 DEF Ack, MarkProcessed, outboxVars, restaurantVars
  <2>2. CASE job[w] \notin processed
    <3>1. job[w] \in ledger /\ job[w] \in Event
      BY <1>5 DEF Ack, AckingIsApplied
    <3>2. Delivery!Acknowledge(job[w])
      BY <1>5, <2>2, <3>1 DEF Ack, MarkProcessed, restaurantVars, Delivery!Acknowledge
    <3> QED
      BY <3>1, <3>2 DEF Delivery!Next
  <2> QED
    BY <2>1, <2>2
<1>6. ASSUME NEW w \in Workers,
             \/ Claim(w) \/ Load(w) \/ Rest(w) \/ RejectApply(w) \/ Fail(w)
             \/ StepRaises(w) \/ Abort(w)
      PROVE  Delivery!Next \/ UNCHANGED Delivery!vars
  BY <1>1, <1>6 DEF Claim, Load, Rest, RejectApply, Fail, MarkFailed, StepRaises, Abort,
                    outboxVars, restaurantVars
<1>7. ASSUME NEW e \in outbox, ClaimExpires(e) \/ BackoffElapses(e)
      PROVE  Delivery!Next \/ UNCHANGED Delivery!vars
  BY <1>1, <1>7 DEF ClaimExpires, BackoffElapses, restaurantVars
<1>8. CASE UNCHANGED vars
  BY <1>1, <1>8 DEF vars, outboxVars, restaurantVars
<1> QED
  BY <1>2, <1>3, <1>4, <1>5, <1>6, <1>7, <1>8 DEF Next, WorkerStep

\* The projector implements the abstract queue: for any number of workers, rows, events
\* and faults, an event takes effect at most once, with a version its row had, after its
\* parent row, and is acknowledged only afterwards.
THEOREM Refinement == Spec => ImplementsDelivery
<1>1. Init => ReadsARow
  BY DEF Init, ReadsARow
<1>2. Spec => [](IInv /\ ReadsARow)
  BY <1>1, ReadsARowStep, Invariance, PTL DEF Spec
<1>3. Spec => Delivery!Spec
  BY <1>2, DeliveryInit, DeliveryStep, PTL DEF Spec, Delivery!Spec
<1> QED
  BY <1>3 DEF ImplementsDelivery

================================================================================
