-------------------------- MODULE ReferenceProjection --------------------------
(***************************************************************************)
(* The outbox projection of Platform reference rows into the Restaurant    *)
(* database (services/platform_reference_projection.py) and the worker loop *)
(* that drives it (services/reference_projector_worker.py).                *)
(*                                                                         *)
(* A Platform transaction bumps a row (company, branch, user, ...) and     *)
(* enqueues an event naming the row, never its content.  Backend replicas  *)
(* run one worker each.  A worker claims a batch, and for every event runs *)
(* three independently committed transactions: it reads the current        *)
(* Platform row, it inserts the event in the Restaurant ledger and upserts *)
(* the row, it acknowledges the outbox event.  Nothing but the row locks   *)
(* of each single transaction keeps workers apart.                         *)
(***************************************************************************)
EXTENDS Naturals, FiniteSets

CONSTANTS
    Workers,        \* backend replicas running the projector
    Aggregates,     \* reference rows
    Parent,         \* [Aggregates -> Aggregates \cup {NoParent}], the foreign key
    NoParent,
    Priority,       \* [Aggregates -> Nat], REFERENCE_PRIORITY of the row's type
    BatchLimit,     \* reference_projector_batch_size
    MaxVersion,     \* bound: updates of one Platform row
    MaxEvents,      \* bound: rows of the outbox
    MaxFaults       \* bound: exceptions, lost replies and crashes

ASSUME ParentAssumption == Parent \in [Aggregates -> Aggregates \cup {NoParent}]
ASSUME NoParentAssumption == NoParent \notin Aggregates
ASSUME PriorityAssumption == Priority \in [Aggregates -> Nat]
ASSUME BoundAssumption ==
    /\ BatchLimit \in Nat \ {0}
    /\ MaxVersion \in Nat
    /\ MaxEvents \in Nat
    /\ MaxFaults \in Nat

\* The version of a row stands for its content; 0 is a row that does not exist.
Versions == 0..MaxVersion

(***************************************************************************)
(* The identity of an outbox event.  A write's event is unique to that     *)
(* write (uuid4); a snapshot event's id is derived from the row and its    *)
(* updated_at (uuid5), so seeding the same version twice gives one event.  *)
(***************************************************************************)
Event == [agg : Aggregates, at : Versions \ {0}, snapshot : BOOLEAN]

\* What a worker that is between two events is processing.
NoJob == [agg |-> NoParent, at |-> 0, snapshot |-> FALSE]

PC == {"idle", "next", "apply", "ack", "fail"}

VARIABLES
    platform,    \* version of each row in the Platform database
    outbox,      \* reference_outbox: the events enqueued so far
    claimed,     \* events with claimed_at set
    expired,     \* claimed events older than CLAIM_TIMEOUT_SECONDS
    delayed,     \* events whose available_at lies in the future
    processed,   \* events with processed_at set
    ledger,      \* platform_projection_events of the Restaurant database
    replica,     \* version of each row in the Restaurant database
    pc,          \* where each worker is in process_projection_batch
    batch,       \* events of the worker's batch it has not started
    job,         \* the event the worker is processing
    copy,        \* the version of the row the worker has read
    faults,      \* number of faults so far
    overlapped   \* history: two events of one row were in flight together

outboxVars == <<claimed, expired, delayed, processed>>
restaurantVars == <<ledger, replica>>
workerVars == <<pc, batch, job, copy>>
vars == <<platform, outbox, outboxVars, restaurantVars, workerVars, faults, overlapped>>

Init ==
    /\ platform = [a \in Aggregates |-> 0]
    /\ outbox = {}
    /\ claimed = {} /\ expired = {} /\ delayed = {} /\ processed = {}
    /\ ledger = {}
    /\ replica = [a \in Aggregates |-> 0]
    /\ pc = [w \in Workers |-> "idle"]
    /\ batch = [w \in Workers |-> {}]
    /\ job = [w \in Workers |-> NoJob]
    /\ copy = [w \in Workers |-> 0]
    /\ faults = 0
    /\ overlapped = FALSE

--------------------------------------------------------------------------------
(* Platform writers *)

Room(events) == Cardinality(outbox \cup events) <= MaxEvents

\* enqueue_reference_event, called in the transaction that writes the row.
WriteEvent(a) == [agg |-> a, at |-> platform[a] + 1, snapshot |-> FALSE]

\* A Platform transaction that creates or updates a row and enqueues its event.
Write(a) ==
    /\ platform[a] < MaxVersion
    /\ Parent[a] # NoParent => platform[Parent[a]] > 0
    /\ Room({WriteEvent(a)})
    /\ platform' = [platform EXCEPT ![a] = @ + 1]
    /\ outbox' = outbox \cup {WriteEvent(a)}
    /\ UNCHANGED <<outboxVars, restaurantVars, workerVars, faults, overlapped>>

\* seed_snapshot_events: one event per existing row and version, ON CONFLICT DO NOTHING.
Snapshots ==
    {[agg |-> a, at |-> platform[a], snapshot |-> TRUE] : a \in {b \in Aggregates : platform[b] > 0}}

SeedSnapshot ==
    /\ Room(Snapshots)
    /\ outbox' = outbox \cup Snapshots
    /\ UNCHANGED <<platform, outboxVars, restaurantVars, workerVars, faults, overlapped>>

--------------------------------------------------------------------------------
(* The passing of time *)

ClaimExpires(e) ==
    /\ e \in claimed \ expired
    /\ expired' = expired \cup {e}
    /\ UNCHANGED <<platform, outbox, claimed, delayed, processed, restaurantVars,
                   workerVars, faults, overlapped>>

BackoffElapses(e) ==
    /\ e \in delayed
    /\ delayed' = delayed \ {e}
    /\ UNCHANGED <<platform, outbox, claimed, expired, processed, restaurantVars,
                   workerVars, faults, overlapped>>

--------------------------------------------------------------------------------
(* The worker *)

\* ORDER BY priority, occurred_at (id breaks ties, in no particular order).
Before(e, f) ==
    \/ Priority[e.agg] < Priority[f.agg]
    \/ e.agg = f.agg /\ e.at < f.at
    \/ e.agg = f.agg /\ e.at = f.at /\ ~e.snapshot /\ f.snapshot

\* Bug variant: a claim is never reclaimed, so a crashed worker keeps its events for good.
CandidatesWithoutReclaim == ((outbox \ processed) \ delayed) \ claimed

Candidates == {e \in (outbox \ processed) \ delayed : e \notin claimed \/ e \in expired}

\* The first BatchLimit candidates, in order.
Claimable(S) ==
    /\ S # {}
    /\ Cardinality(S) <= BatchLimit
    /\ S # Candidates => Cardinality(S) = BatchLimit
    /\ \A e \in S, f \in Candidates \ S : ~Before(f, e)

Claim(w) ==
    /\ pc[w] = "idle"
    /\ \E S \in SUBSET Candidates :
          /\ Claimable(S)
          /\ claimed' = claimed \cup S
          /\ expired' = expired \ S
          /\ batch' = [batch EXCEPT ![w] = S]
    /\ pc' = [pc EXCEPT ![w] = "next"]
    /\ UNCHANGED <<platform, outbox, delayed, processed, restaurantVars, job, copy,
                   faults, overlapped>>

\* Two different events of one row, neither applied yet, both past their read.
Overlaps(w, e) ==
    \E v \in Workers \ {w} :
        /\ pc[v] = "apply"
        /\ job[v].agg = e.agg
        /\ job[v] # e
        /\ job[v] \notin ledger
        /\ e \notin ledger

\* load_platform_reference, in a Platform transaction that is closed before the write.
Load(w) ==
    /\ pc[w] = "next"
    /\ \E e \in batch[w] :
          /\ \A f \in batch[w] : ~Before(f, e)
          /\ batch' = [batch EXCEPT ![w] = @ \ {e}]
          /\ job' = [job EXCEPT ![w] = e]
          /\ copy' = [copy EXCEPT ![w] = platform[e.agg]]
          /\ overlapped' = (overlapped \/ Overlaps(w, e))
    /\ pc' = [pc EXCEPT ![w] = "apply"]
    /\ UNCHANGED <<platform, outbox, outboxVars, restaurantVars, faults>>

\* The batch is used up: the loop waits and calls process_projection_batch again.
Rest(w) ==
    /\ pc[w] = "next" /\ batch[w] = {}
    /\ pc' = [pc EXCEPT ![w] = "idle"]
    /\ UNCHANGED <<platform, outbox, outboxVars, restaurantVars, batch, job, copy,
                   faults, overlapped>>

ForeignKeyHolds(a) == Parent[a] # NoParent => replica[Parent[a]] > 0

\* Bug variant: the upsert runs even when the ledger insert hits its conflict.
ApplyWithoutLedgerGuard(e, v) ==
    /\ ledger' = ledger \cup {e}
    /\ replica' = [replica EXCEPT ![e.agg] = v]

\* apply_restaurant_projection: the ledger insert decides whether the row is upserted.
ApplyToRestaurant(e, v) ==
    IF e \in ledger
    THEN UNCHANGED <<ledger, replica>>
    ELSE /\ ledger' = ledger \cup {e}
         /\ replica' = [replica EXCEPT ![e.agg] = v]

ApplyRejected(e) == e \notin ledger /\ ~ForeignKeyHolds(e.agg)

Apply(w) ==
    /\ pc[w] = "apply"
    /\ ~ApplyRejected(job[w])
    /\ ApplyToRestaurant(job[w], copy[w])
    /\ pc' = [pc EXCEPT ![w] = "ack"]
    /\ copy' = [copy EXCEPT ![w] = 0]
    /\ UNCHANGED <<platform, outbox, outboxVars, batch, job, faults, overlapped>>

\* Bug variant: the foreign key error is swallowed and the event acknowledged.
RejectApplySwallowed(w) ==
    /\ pc[w] = "apply"
    /\ ApplyRejected(job[w])
    /\ pc' = [pc EXCEPT ![w] = "ack"]
    /\ copy' = [copy EXCEPT ![w] = 0]
    /\ UNCHANGED <<platform, outbox, outboxVars, restaurantVars, batch, job,
                   faults, overlapped>>

\* The upsert violates a foreign key: the transaction rolls back, the ledger row with it.
RejectApply(w) ==
    /\ pc[w] = "apply"
    /\ ApplyRejected(job[w])
    /\ pc' = [pc EXCEPT ![w] = "fail"]
    /\ copy' = [copy EXCEPT ![w] = 0]
    /\ UNCHANGED <<platform, outbox, outboxVars, restaurantVars, batch, job,
                   faults, overlapped>>

\* Bug variant: the acknowledgement leaves claimed_at and claim_expires_at behind.
MarkProcessedKeepsClaim(e) ==
    /\ processed' = processed \cup {e}
    /\ UNCHANGED <<claimed, expired, delayed>>

\* mark_outbox_processed (WHERE processed_at IS NULL).
MarkProcessed(e) ==
    IF e \in processed
    THEN UNCHANGED outboxVars
    ELSE /\ processed' = processed \cup {e}
         /\ claimed' = claimed \ {e}
         /\ expired' = expired \ {e}
         /\ UNCHANGED delayed

Ack(w) ==
    /\ pc[w] = "ack"
    /\ MarkProcessed(job[w])
    /\ pc' = [pc EXCEPT ![w] = "next"]
    /\ job' = [job EXCEPT ![w] = NoJob]
    /\ UNCHANGED <<platform, outbox, restaurantVars, batch, copy, faults, overlapped>>

\* mark_outbox_failed (WHERE processed_at IS NULL): drops whatever claim the event has.
MarkFailed(e) ==
    IF e \in processed
    THEN UNCHANGED outboxVars
    ELSE /\ claimed' = claimed \ {e}
         /\ expired' = expired \ {e}
         /\ delayed' = delayed \cup {e}
         /\ UNCHANGED processed

Fail(w) ==
    /\ pc[w] = "fail"
    /\ MarkFailed(job[w])
    /\ pc' = [pc EXCEPT ![w] = "next"]
    /\ job' = [job EXCEPT ![w] = NoJob]
    /\ UNCHANGED <<platform, outbox, restaurantVars, batch, copy, faults, overlapped>>

--------------------------------------------------------------------------------
(* Faults *)

CountFault == faults < MaxFaults /\ faults' = faults + 1

\* A database error in the read, the upsert or the acknowledgement: its transaction rolls
\* back and the handler marks the event failed.  (An acknowledgement that committed before
\* the error leaves the event processed, and mark_outbox_failed then changes nothing.)
StepRaises(w) ==
    /\ CountFault
    /\ pc[w] \in {"apply", "ack"}
    /\ pc' = [pc EXCEPT ![w] = "fail"]
    /\ copy' = [copy EXCEPT ![w] = 0]
    /\ UNCHANGED <<platform, outbox, outboxVars, restaurantVars, batch, job, overlapped>>

\* The Restaurant commit succeeds and its reply is lost: the worker takes it for a failure.
ApplyReplyLost(w) ==
    /\ CountFault
    /\ pc[w] = "apply"
    /\ ~ApplyRejected(job[w])
    /\ ApplyToRestaurant(job[w], copy[w])
    /\ pc' = [pc EXCEPT ![w] = "fail"]
    /\ copy' = [copy EXCEPT ![w] = 0]
    /\ UNCHANGED <<platform, outbox, outboxVars, batch, job, overlapped>>

\* The process dies, or marking the failure raises and ends the batch: claims stay behind.
Abort(w) ==
    /\ CountFault
    /\ pc[w] # "idle"
    /\ pc' = [pc EXCEPT ![w] = "idle"]
    /\ batch' = [batch EXCEPT ![w] = {}]
    /\ job' = [job EXCEPT ![w] = NoJob]
    /\ copy' = [copy EXCEPT ![w] = 0]
    /\ UNCHANGED <<platform, outbox, outboxVars, restaurantVars, overlapped>>

--------------------------------------------------------------------------------
WorkerStep(w) ==
    Claim(w) \/ Load(w) \/ Rest(w) \/ Apply(w) \/ RejectApply(w) \/ Ack(w) \/ Fail(w)

Next ==
    \/ \E a \in Aggregates : Write(a)
    \/ SeedSnapshot
    \/ \E e \in outbox : ClaimExpires(e) \/ BackoffElapses(e)
    \/ \E w \in Workers : WorkerStep(w) \/ StepRaises(w) \/ ApplyReplyLost(w) \/ Abort(w)

Spec == Init /\ [][Next]_vars

(***************************************************************************)
(* Workers keep polling (run_reference_projector loops until shutdown) and *)
(* time passes.  Platform writes and faults are never forced.              *)
(***************************************************************************)
FairSpec ==
    /\ Spec
    /\ \A w \in Workers : WF_vars(WorkerStep(w))
    /\ \A e \in Event : WF_vars(ClaimExpires(e)) /\ WF_vars(BackoffElapses(e))

--------------------------------------------------------------------------------
(* Properties *)

\* Type invariant.  An acknowledged event keeps no claim, and a claim only ages while held.
TypeOK ==
    /\ platform \in [Aggregates -> Versions]
    /\ outbox \subseteq Event
    /\ claimed \subseteq outbox \ processed
    /\ expired \subseteq claimed
    /\ delayed \subseteq outbox
    /\ processed \subseteq outbox
    /\ ledger \subseteq outbox
    /\ replica \in [Aggregates -> Versions]
    /\ pc \in [Workers -> PC]
    /\ batch \in [Workers -> SUBSET outbox]
    /\ job \in [Workers -> outbox \cup {NoJob}]
    /\ \A w \in Workers : pc[w] \in {"apply", "ack", "fail"} => job[w] # NoJob
    /\ copy \in [Workers -> Versions]
    /\ faults \in Nat
    /\ overlapped \in BOOLEAN

\* An event is acknowledged on Platform only after the Restaurant transaction that
\* recorded it committed, whatever claims expired, replies were lost or workers died
\* between the three transactions of process_projection_batch.
AckedIsApplied == processed \subseteq ledger

\* A Restaurant row that differs from its Platform row still has an event that no worker
\* has applied, so some later delivery will read the row again.  This is what makes the
\* "read the current state" design of load_platform_reference converge; it holds as long
\* as no two events of the row were in flight between read and upsert at once.
StaleRowHasPendingEvent ==
    ~overlapped =>
        \A a \in Aggregates :
            replica[a] # platform[a] => \E e \in outbox \ ledger : e.agg = a

\* Under the same condition the Restaurant copy never goes back to an older version of a
\* row: a worker that wakes up after its claim expired finds its event in the ledger and
\* its stale read is discarded.
ReplicaNeverRegresses ==
    [][~overlapped => \A a \in Aggregates : replica'[a] >= replica[a]]_vars

\* Once Platform stops writing (its writes are bounded here), every enqueued event is
\* acknowledged for good: a claim that died with its worker is reclaimed after the
\* timeout, a failed event is retried after its backoff, and a row whose foreign key was
\* not there yet is retried until its parent has been projected.
EveryEventIsProcessed == <>[](outbox = processed)

\* What project_platform_references.py --drain --verify requires: once no event is pending
\* and every worker is idle, both databases hold the same rows.
DrainedParity ==
    outbox = processed /\ (\A w \in Workers : pc[w] = "idle") => replica = platform

\* Abstract delivery: the workers, their claims, their three transactions per event and
\* every fault together behave like a queue that applies an event at most once, to a
\* version its row had, parents first, and acknowledges it afterwards.
Delivery == INSTANCE OutboxDelivery WITH
    Rows <- Aggregates, Events <- Event, source <- platform, enqueued <- outbox,
    applied <- ledger, acked <- processed, copy <- replica

ImplementsDelivery == Delivery!Spec

================================================================================
