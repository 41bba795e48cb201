------------------------------- MODULE HoldDraft -------------------------------
(***************************************************************************)
(* Hold drafts: carts a cashier puts aside and some counter restores later *)
(* (services/hold_draft_service.py).                                       *)
(*                                                                         *)
(* A request names the version of the draft its counter has read (and the  *)
(* claim id that came with it); handlers lock the draft's row, refuse any  *)
(* version but the current one, and raise it.  Every counter may read the  *)
(* draft at any time, so an action is a request that names the current     *)
(* version.  Deadlines are enforced lazily, by whoever touches the draft.  *)
(* Three handlers take longer than one step: resume checks the claim's     *)
(* deadline and revalidates prices behind the row lock before it writes;   *)
(* list reads without a lock and writes the deadlines it found passed;     *)
(* reopen reads the source in one transaction and creates in another.      *)
(*                                                                         *)
(* Drafts are counter carts, so the table checks fall away; what is in a   *)
(* cart, its prices and stock only refuse requests.  A repeated request    *)
(* with a known idempotency key is answered without a state change.        *)
(***************************************************************************)
EXTENDS Naturals, FiniteSets

CONSTANTS
    Drafts,
    Fresh,          \* bound: drafts that may hold a new cart; the others reopen one
    NoDraft,
    Counters,       \* devices, each with a signed-in user
    NoCounter,
    Users,
    User,           \* [Counters -> Users]
    MaxShifts,      \* bound: shifts of a user
    MaxVersion      \* bound: [Drafts -> Nat], the versions up to which they are claimed and edited

ASSUME DraftAssumption == Fresh \subseteq Drafts /\ NoDraft \notin Drafts
ASSUME NoCounterAssumption == NoCounter \notin Counters
ASSUME UserAssumption == User \in [Counters -> Users]
ASSUME BoundAssumption == MaxShifts \in Nat /\ MaxVersion \in [Drafts -> Nat]

VARIABLES
    draft,          \* the rows of pos_hold_drafts
    parent,         \* PosHoldDraft.parent_draft_id
    lapsed,         \* pending drafts past expires_at
    claimLapsed,    \* claimed drafts past claim_expires_at
    expiries,       \* audit keys of expiries, unique by index (see Audits)
    shiftNo,        \* number of each user's latest shift, 0 before the first
    open,           \* users whose latest shift is open
    listing,        \* what each counter's list request is about to write
    resuming,       \* the draft each counter's resume request has locked
    reopening,      \* the draft each counter's reopen request has read
    restored,       \* history: how often each draft was restored
    sold,           \* history: how many orders were made from each draft
    reassigned,     \* history: drafts that changed hands
    overwritten     \* history: a list wrote over a row that had changed

timeVars == <<lapsed, claimLapsed>>
shiftVars == <<shiftNo, open>>
requestVars == <<listing, resuming, reopening>>
historyVars == <<restored, sold, reassigned, overwritten>>
vars == <<draft, parent, timeVars, expiries, shiftVars, requestVars, historyVars>>

Pending == {"active", "claimed"}
Status == {"none", "active", "claimed", "resumed", "expired", "cancelled", "converted"}

\* owner and assignee are users, origin is the number of the owner's shift.
NoRow == [status |-> "none", version |-> 0, owner |-> "none", origin |-> 0,
          assignee |-> "none", claimedBy |-> NoCounter, resumedBy |-> "none"]

Init ==
    /\ draft = [d \in Drafts |-> NoRow]
    /\ parent = [d \in Drafts |-> NoDraft]
    /\ lapsed = {} /\ claimLapsed = {} /\ expiries = {}
    /\ shiftNo = [u \in Users |-> 0] /\ open = {}
    /\ listing = [c \in Counters |-> {}]
    /\ resuming = [c \in Counters |-> NoDraft]
    /\ reopening = [c \in Counters |-> NoDraft]
    /\ restored = [d \in Drafts |-> 0] /\ sold = [d \in Drafts |-> 0]
    /\ reassigned = {} /\ overwritten = FALSE

--------------------------------------------------------------------------------
(* Helpers of the handlers *)

Exists(d) == draft[d].status # "none"
Locked(d) == \E c \in Counters : resuming[c] = d

\* _lock_draft; _assert_version holds for a request that names the current version.
Locks(d) == Exists(d) /\ ~Locked(d)

\* Bug variant: the shift a request names is trusted.
ShiftUnchecked(c) == shiftNo[User[c]] > 0

\* _validate_shift, behind the row lock of the shift.
ShiftOpen(c) == User[c] \in open

\* What _expire_if_needed will do to a row.
Expiry(d) ==
    IF draft[d].status \in Pending /\ d \in lapsed THEN "expire"
    ELSE IF draft[d].status = "claimed" /\ d \in claimLapsed THEN "claim_expire" ELSE "none"

\* Bug variant: the claim stays in the row.
AfterExpiryKeepsClaim(row, action, v, claimed) ==
    [row EXCEPT !.status = IF action = "expire" THEN "expired" ELSE "active", !.version = v + 1]

\* The row after an expiry found at version v; only a claim that was seen is cleared.
AfterExpiry(row, action, v, claimed) ==
    LET cleared == IF claimed THEN [row EXCEPT !.claimedBy = NoCounter] ELSE row
    IN  [cleared EXCEPT !.status = IF action = "expire" THEN "expired" ELSE "active",
                        !.version = v + 1]

\* The audit key of an expiry.  claim writes claim expiries under a key of its own.
ExpiryKey(d, action, v, handler) == [draft |-> d, action |-> action, version |-> v,
    key |-> IF handler = "claim" THEN action ELSE "expire"]

\* Writes the rows; only pending drafts have deadlines.
SaveAll(rows) ==
    /\ draft' = rows
    /\ lapsed' = {d \in lapsed : rows[d].status \in Pending}
    /\ claimLapsed' = {d \in claimLapsed : rows[d].status = "claimed"}

Save(d, row) == SaveAll([draft EXCEPT ![d] = row])

\* Adds audit keys, and forgets those that no list request under way can collide with.
Audits(keys) ==
    expiries' = {k \in expiries \cup keys : \E c \in Counters : \E n \in listing[c] :
                    n.draft = k.draft /\ n.version = k.version}

--------------------------------------------------------------------------------
(* Shifts and time *)

OpenShift(u) ==
    /\ u \notin open /\ shiftNo[u] < MaxShifts
    /\ shiftNo' = [shiftNo EXCEPT ![u] = @ + 1]
    /\ open' = open \cup {u}
    /\ UNCHANGED <<draft, parent, timeVars, expiries, requestVars, historyVars>>

\* count_pending_for_shift
PendingForShift(u) ==
    {d \in Drafts : /\ draft[d].owner = u /\ draft[d].origin = shiftNo[u]
                    /\ draft[d].status \in Pending /\ d \notin lapsed
                    /\ draft[d].assignee = u}

CloseShift(u) ==
    /\ u \in open
    /\ PendingForShift(u) = {}
    /\ open' = open \ {u}
    /\ UNCHANGED <<draft, parent, timeVars, expiries, shiftNo, requestVars,
                   historyVars>>

Lapse(d) ==
    /\ draft[d].status \in Pending /\ d \notin lapsed
    /\ lapsed' = lapsed \cup {d}
    /\ UNCHANGED <<draft, parent, claimLapsed, expiries, shiftVars, requestVars,
                   historyVars>>

ClaimLapses(d) ==
    /\ draft[d].status = "claimed" /\ d \notin claimLapsed
    /\ claimLapsed' = claimLapsed \cup {d}
    /\ UNCHANGED <<draft, parent, lapsed, expiries, shiftVars, requestVars,
                   historyVars>>

--------------------------------------------------------------------------------
(* Reading: both reads enforce deadlines *)

Get(d) ==
    LET row == draft[d]
        key == ExpiryKey(d, Expiry(d), row.version, "get")
    IN  /\ Locks(d)
        /\ Expiry(d) # "none" /\ key \notin expiries
        /\ Audits({key})
        /\ Save(d, AfterExpiry(row, Expiry(d), row.version, TRUE))
        /\ UNCHANGED <<parent, shiftVars, requestVars, historyVars>>

\* list reads the rows without a lock and notes the deadlines it has to write.
ListRead(c) ==
    /\ listing[c] = {}
    /\ LET due == {d \in Drafts : Expiry(d) # "none"}
       IN  /\ due # {}
           /\ listing' = [listing EXCEPT ![c] =
                 {[draft |-> d, action |-> Expiry(d), version |-> draft[d].version,
                   claimed |-> draft[d].status = "claimed"] : d \in due}]
    /\ UNCHANGED <<draft, parent, timeVars, expiries, shiftVars, resuming,
                   reopening, historyVars>>

\* Its update names the row by id only: whatever was committed in between is written over.
\* Rows whose expiry was audited in between fail the whole request.
ListWrite(c) ==
    LET keys == {ExpiryKey(n.draft, n.action, n.version, "list") : n \in listing[c]}
        Note(d) == CHOOSE n \in listing[c] : n.draft = d
        written == {n.draft : n \in listing[c]}
        rows == [d \in Drafts |->
                   IF d \in written
                   THEN AfterExpiry(draft[d], Note(d).action, Note(d).version, Note(d).claimed)
                   ELSE draft[d]]
    IN  /\ listing[c] # {} /\ \A d \in written : ~Locked(d)
        /\ listing' = [listing EXCEPT ![c] = {}]
        /\ \/ /\ keys \cap expiries = {}
              /\ Audits(keys)
              /\ SaveAll(rows)
              /\ overwritten' =
                    (overwritten \/ \E n \in listing[c] : draft[n.draft].version # n.version)
           \/ /\ keys \cap expiries # {}
              /\ UNCHANGED <<draft, timeVars, expiries, overwritten>>
        /\ UNCHANGED <<parent, shiftVars, resuming, reopening, restored, sold,
                       reassigned>>

--------------------------------------------------------------------------------
(* Writing *)

NewRow(c) == [NoRow EXCEPT !.status = "active", !.version = 1, !.owner = User[c],
                           !.origin = shiftNo[User[c]], !.assignee = User[c]]

Create(c, d) ==
    /\ d \in Fresh /\ ~Exists(d)
    /\ ShiftOpen(c)
    /\ Save(d, NewRow(c))
    /\ UNCHANGED <<parent, expiries, shiftVars, requestVars, historyVars>>

\* A claim that meets a passed deadline writes that instead, and is refused.
ClaimExpires(c, d) ==
    LET row == draft[d]
        key == ExpiryKey(d, Expiry(d), row.version, "claim")
    IN  /\ Exists(d) /\ ~Locked(d)
        /\ Expiry(d) # "none" /\ key \notin expiries
        /\ Audits({key})
        /\ Save(d, AfterExpiry(row, Expiry(d), row.version, TRUE))
        /\ UNCHANGED <<parent, shiftVars, requestVars, historyVars>>

Claim(c, d) ==
    /\ Locks(d) /\ ShiftOpen(c)
    /\ Expiry(d) = "none" /\ draft[d].status = "active"
    /\ draft[d].version < MaxVersion[d]
    /\ Save(d, [draft[d] EXCEPT !.status = "claimed", !.version = @ + 1,
                                   !.claimedBy = c])
    /\ UNCHANGED <<parent, expiries, shiftVars, requestVars, historyVars>>

\* The checks of resume, up to the revalidation of the prices; the row stays locked.
ResumeChecks(c, d) ==
    /\ resuming[c] = NoDraft
    /\ Locks(d)
    /\ draft[d].status = "claimed" /\ draft[d].claimedBy = c /\ d \notin claimLapsed
    /\ ShiftOpen(c)
    /\ resuming' = [resuming EXCEPT ![c] = d]
    /\ UNCHANGED <<draft, parent, timeVars, expiries, shiftVars, listing,
                   reopening, historyVars>>

Resume(c) ==
    LET d == resuming[c]
    IN  /\ d # NoDraft
        /\ resuming' = [resuming EXCEPT ![c] = NoDraft]
        /\ restored' = [restored EXCEPT ![d] = @ + 1]
        /\ Save(d, [draft[d] EXCEPT !.status = "resumed", !.version = @ + 1,
                                       !.resumedBy = User[c]])
        /\ UNCHANGED <<parent, expiries, shiftVars, listing, reopening,
                       sold, reassigned, overwritten>>

\* The revalidation finds a change the counter has not accepted, or the process dies.
ResumeRefused(c) ==
    /\ resuming[c] # NoDraft
    /\ resuming' = [resuming EXCEPT ![c] = NoDraft]
    /\ UNCHANGED <<draft, parent, timeVars, expiries, shiftVars, listing,
                   reopening, historyVars>>

Releasable(c, d) ==
    /\ draft[d].status = "claimed"
    /\ User[draft[d].claimedBy] = User[c]

Release(c, d) ==
    /\ Locks(d) /\ Releasable(c, d)
    /\ Save(d, [draft[d] EXCEPT !.status = "active", !.version = @ + 1,
                                   !.claimedBy = NoCounter])
    /\ UNCHANGED <<parent, expiries, shiftVars, requestVars, historyVars>>

Discard(c, d) ==
    /\ Locks(d)
    /\ draft[d].status \in Pending
    /\ draft[d].status = "claimed" => User[draft[d].claimedBy] = User[c]
    /\ Save(d, [draft[d] EXCEPT !.status = "cancelled", !.version = @ + 1,
                                   !.claimedBy = NoCounter])
    /\ UNCHANGED <<parent, expiries, shiftVars, requestVars, historyVars>>

\* An edit; with the permission to reassign it may hand the draft to another user.
Update(c, d, u) ==
    /\ Locks(d)
    /\ draft[d].status = "active" /\ draft[d].version < MaxVersion[d]
    /\ reassigned' = IF u = draft[d].assignee THEN reassigned ELSE reassigned \cup {d}
    /\ Save(d, [draft[d] EXCEPT !.assignee = u, !.version = @ + 1])
    /\ UNCHANGED <<parent, expiries, shiftVars, requestVars, restored, sold,
                   overwritten>>

\* reopen reads the source behind its lock, rolls back, and then creates a new draft.
ReopenRead(c, d) ==
    /\ reopening[c] = NoDraft /\ \E free \in Drafts : ~Exists(free)
    /\ Locks(d)
    /\ draft[d].status \in {"resumed", "expired", "cancelled"}
    /\ reopening' = [reopening EXCEPT ![c] = d]
    /\ UNCHANGED <<draft, parent, timeVars, expiries, shiftVars, listing,
                   resuming, historyVars>>

ReopenCreate(c, d) ==
    /\ reopening[c] # NoDraft
    /\ ~Exists(d) /\ ShiftOpen(c)
    /\ parent' = [parent EXCEPT ![d] = reopening[c]]
    /\ reopening' = [reopening EXCEPT ![c] = NoDraft]
    /\ Save(d, NewRow(c))
    /\ UNCHANGED <<expiries, shiftVars, listing, resuming, historyVars>>

\* Bug variant: the status is not checked, only who restored the draft.
ConvertibleByRestorer(c, d) == draft[d].resumedBy = User[c]

Convertible(c, d) == draft[d].status = "resumed" /\ draft[d].resumedBy = User[c]

\* convert_into_sale, in the transaction of a sale at the user's open shift.
Convert(c, d) ==
    /\ Locks(d) /\ ShiftOpen(c)
    /\ Convertible(c, d)
    /\ sold' = [sold EXCEPT ![d] = @ + 1]
    /\ Save(d, [draft[d] EXCEPT !.status = "converted", !.version = @ + 1])
    /\ UNCHANGED <<parent, expiries, shiftVars, requestVars, restored,
                   reassigned, overwritten>>

--------------------------------------------------------------------------------
Next ==
    \/ \E u \in Users : OpenShift(u) \/ CloseShift(u)
    \/ \E d \in Drafts : Lapse(d) \/ ClaimLapses(d) \/ Get(d)
    \/ \E c \in Counters : ListRead(c) \/ ListWrite(c) \/ Resume(c) \/ ResumeRefused(c)
    \/ \E c \in Counters, d \in Drafts :
          \/ Create(c, d) \/ ClaimExpires(c, d) \/ Claim(c, d)
          \/ ResumeChecks(c, d) \/ Release(c, d) \/ Discard(c, d)
          \/ ReopenRead(c, d) \/ ReopenCreate(c, d) \/ Convert(c, d)
          \/ \E u \in Users : Update(c, d, u)

Spec == Init /\ [][Next]_vars

--------------------------------------------------------------------------------
(* Properties *)

Row == [status : Status, version : Nat, owner : Users \cup {"none"}, origin : 0..MaxShifts,
        assignee : Users \cup {"none"}, claimedBy : Counters \cup {NoCounter}, resumedBy : Users \cup {"none"}]

\* Type invariant of the rows and requests; only a claimed or restored draft names a holder.
TypeOK ==
    /\ draft \in [Drafts -> Row]
    /\ parent \in [Drafts -> Drafts \cup {NoDraft}]
    /\ lapsed \subseteq Drafts /\ claimLapsed \subseteq Drafts
    /\ expiries \subseteq [draft : Drafts, action : {"expire", "claim_expire"}, version : Nat,
                           key : {"expire", "claim_expire"}]
    /\ shiftNo \in [Users -> 0..MaxShifts] /\ open \subseteq Users
    /\ resuming \in [Counters -> Drafts \cup {NoDraft}]
    /\ reopening \in [Counters -> Drafts \cup {NoDraft}]
    /\ \A d \in Drafts : draft[d].status = "claimed" => draft[d].claimedBy # NoCounter
    /\ \A d \in Drafts : draft[d].status \in {"active", "expired", "cancelled"} /\ ~overwritten
          => draft[d].claimedBy = NoCounter

\* A version names one state of a draft: no change of a row, nor a late expiry that was
\* found on an earlier version, leaves or lowers its version, so a counter that names the
\* version it has read acts on the row it has read.  (Until a list writes over a row.)
VersionNamesRow ==
    [][\A d \in Drafts :
          draft'[d] # draft[d] /\ ~overwritten' => draft'[d].version > draft[d].version]_vars

\* A cart is restored once, and paid at most once for having been restored, whatever
\* claims lapse, are released or raced for by other counters.
RestoredOnceUnlessOverwritten ==
    ~overwritten =>
        \A d \in Drafts : restored[d] <= 1 /\ sold[d] <= restored[d]

\* A closed shift leaves none of its cashier's own drafts behind: creating, reopening,
\* claiming and releasing a draft all race with the close, which counts them once.
ClosedShiftHasNoDraft ==
    ~overwritten =>
        \A d \in Drafts \ reassigned :
            LET row == draft[d]
            IN  (row.status \in Pending /\ d \notin lapsed) =>
                    row.owner \in open /\ row.origin = shiftNo[row.owner]

\* The lifecycle of WP44-SERVER-BACKED-HOLD-DRAFT-01.md:30, "restored exactly once", for
\* every history.  It does not hold: list overwrites a restore that commits between its
\* read and its write.
RestoredOnce == \A d \in Drafts : restored[d] <= 1

================================================================================
