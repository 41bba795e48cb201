----------------------------- MODULE HoldDraftProofs -----------------------------
(***************************************************************************)
(* Proofs about HoldDraft, for any drafts, counters and cashiers: until a  *)
(* list request writes over a row that has changed, a version names one    *)
(* state of a draft, a cart is restored once and paid once, and a closed   *)
(* shift leaves none of its cashier's drafts behind.                       *)
(*                                                                         *)
(* Every handler that writes rows makes a Write: the rows it touches move  *)
(* on as Moves says, the others stay.  The invariant is shown to follow    *)
(* from that once, and each handler is shown to be such a step.            *)
(***************************************************************************)
EXTENDS HoldDraft, TLAPS

RowsTyped ==
    /\ draft \in [Drafts -> Row]
    /\ lapsed \subseteq Drafts /\ claimLapsed \subseteq Drafts
    /\ \A d \in Drafts : draft[d].status = "claimed" => draft[d].claimedBy # NoCounter
    /\ \A d \in Drafts : draft[d].status \in {"active", "expired", "cancelled"} /\ ~overwritten
          => draft[d].claimedBy = NoCounter

AuditKey == [draft : Drafts, action : {"expire", "claim_expire"}, version : Nat,
             key : {"expire", "claim_expire"}]

RequestsTyped ==
    /\ parent \in [Drafts -> Drafts \cup {NoDraft}]
    /\ expiries \subseteq AuditKey
    /\ shiftNo \in [Users -> 0..MaxShifts] /\ open \subseteq Users
    /\ resuming \in [Counters -> Drafts \cup {NoDraft}]
    /\ reopening \in [Counters -> Drafts \cup {NoDraft}]
    /\ restored \in [Drafts -> Nat] /\ sold \in [Drafts -> Nat]

\* A row that does not exist has version 0, so its creation raises the version too.
RowsKnown ==
    \A d \in Drafts : IF Exists(d) THEN draft[d].owner \in Users ELSE draft[d].version = 0

\* The row a counter is restoring stays claimed by that counter.
LocksHold ==
    \A c \in Counters : resuming[c] # NoDraft =>
        draft[resuming[c]].status = "claimed" /\ draft[resuming[c]].claimedBy = c

\* What a list has noted was true of the version it names, one note for each draft.
Note == [draft : Drafts, action : {"expire", "claim_expire"}, version : Nat, claimed : BOOLEAN]
NotesTrue ==
    /\ listing = [c \in Counters |-> listing[c]]
    /\ \A c \in Counters : \A n \in listing[c] : n \in Note /\ Exists(n.draft)
    /\ \A c \in Counters : \A n, m \in listing[c] : n.draft = m.draft => n = m
    /\ ~overwritten => \A c \in Counters : \A n \in listing[c] :
          /\ n.version <= draft[n.draft].version
          /\ n.version = draft[n.draft].version =>
                /\ draft[n.draft].status \in Pending
                /\ n.claimed <=> draft[n.draft].status = "claimed"

\* A draft was restored, and sold, as often as its status says.
Counted(d) ==
    /\ restored[d] = IF draft[d].status \in {"resumed", "converted"} THEN 1 ELSE 0
    /\ sold[d] = IF draft[d].status = "converted" THEN 1 ELSE 0
CountsFollow == ~overwritten => \A d \in Drafts : Counted(d)

\* A draft is its owner's until it is handed to somebody else.
Owned == \A d \in Drafts \ reassigned : Exists(d) => draft[d].assignee = draft[d].owner

Inv ==
    /\ RowsTyped /\ RequestsTyped /\ RowsKnown /\ LocksHold
    /\ NotesTrue /\ CountsFollow /\ Owned

--------------------------------------------------------------------------------
(* Steps that write rows *)

\* The row of a draft is written.
Moves(d) ==
    /\ draft'[d] \in Row /\ draft'[d].status # "none" /\ draft'[d].owner \in Users
    /\ draft'[d].status = "claimed" => draft'[d].claimedBy # NoCounter
    /\ \A c \in Counters : resuming'[c] # d
    /\ draft'[d].assignee = draft'[d].owner \/ d \in reassigned'
    /\ ~overwritten' =>
          /\ draft'[d].version > draft[d].version
          /\ draft'[d].status \in {"active", "expired", "cancelled"}
                => draft'[d].claimedBy = NoCounter
          /\ Counted(d)'
          /\ draft'[d].status \in Pending =>
                \/ draft'[d].owner \in open /\ draft'[d].origin = shiftNo[draft'[d].owner]
                \/ /\ draft[d].status \in Pending
                   /\ draft'[d].owner = draft[d].owner /\ draft'[d].origin = draft[d].origin

Stays(d) == draft'[d] = draft[d] /\ restored'[d] = restored[d] /\ sold'[d] = sold[d]

Write ==
    /\ draft' = [d \in Drafts |-> draft'[d]]
    /\ \A d \in Drafts : Moves(d) \/ Stays(d)
    /\ lapsed' \subseteq lapsed /\ claimLapsed' \subseteq claimLapsed
    /\ \A d \in lapsed : draft'[d].status \in Pending => d \in lapsed'
    /\ listing' = [c \in Counters |-> listing'[c]]
    /\ \A c \in Counters : listing'[c] \subseteq listing[c]
    /\ \A c \in Counters : resuming'[c] \in {resuming[c], NoDraft}
    /\ overwritten => overwritten'
    /\ reassigned \subseteq reassigned'
    /\ UNCHANGED shiftVars
    /\ RequestsTyped'

LEMMA WriteKeepsInv == ASSUME Inv, Write PROVE Inv'
<1> USE DEF Inv
<1>1. RowsTyped'
  <2>1. draft' \in [Drafts -> Row]
    BY DEF Write, Moves, Stays, RowsTyped
  <2> QED
    BY <2>1 DEF Write, Moves, Stays, RowsTyped
<1>2. RowsKnown'
  BY DEF Write, Moves, Stays, RowsKnown, Exists
<1>3. LocksHold'
  BY DEF Write, Moves, Stays, LocksHold, RequestsTyped
<1>4. NotesTrue'
  <2>1. /\ listing' = [c \in Counters |-> listing'[c]]
        /\ \A c \in Counters : \A n \in listing'[c] : n \in Note /\ Exists(n.draft)'
        /\ \A c \in Counters : \A n, m \in listing'[c] : n.draft = m.draft => n = m
    BY DEF Write, NotesTrue, Moves, Stays, Exists, Note
  <2>2. ASSUME ~overwritten', NEW c \in Counters, NEW n \in listing'[c]
        PROVE  /\ n.version <= draft'[n.draft].version
               /\ n.version = draft'[n.draft].version =>
                     /\ draft'[n.draft].status \in Pending
                     /\ n.claimed <=> draft'[n.draft].status = "claimed"
    <3>1. n \in listing[c] /\ n.draft \in Drafts /\ n.version \in Nat /\ ~overwritten
      BY <2>2 DEF Write, NotesTrue, Note
    <3> PICK d \in Drafts : d = n.draft
      BY <3>1
    <3>2. /\ n.version <= draft[d].version
          /\ n.version = draft[d].version =>
                draft[d].status \in Pending /\ (n.claimed <=> draft[d].status = "claimed")
      BY <3>1 DEF NotesTrue
    <3>3. draft[d].version \in Nat
      BY DEF RowsTyped, Row
    <3>4. CASE Stays(d)
      BY <3>2, <3>4 DEF Stays
    <3>5. CASE Moves(d)
      <4>1. draft'[d].version > draft[d].version /\ draft'[d].version \in Nat
        BY <2>2, <3>5 DEF Moves, Row
      <4> QED
        BY <3>1, <3>2, <3>3, <4>1
    <3> QED
      BY <3>4, <3>5 DEF Write
  <2> QED
    BY <2>1, <2>2 DEF NotesTrue
<1>5. CountsFollow'
  BY DEF Write, Moves, Stays, CountsFollow, Counted
<1>6. Owned'
  BY DEF Write, Moves, Stays, Owned, Exists
<1> QED
  BY <1>1, <1>2, <1>3, <1>4, <1>5, <1>6 DEF Write

--------------------------------------------------------------------------------
(* The handlers are such steps *)

LEMMA AfterExpiryRow ==
    ASSUME NEW row \in Row, NEW action, NEW v \in Nat, NEW claimed,
           NEW new, new = AfterExpiry(row, action, v, claimed)
    PROVE  /\ new \in Row /\ new.version = v + 1
           /\ new.status = IF action = "expire" THEN "expired" ELSE "active"
           /\ new.claimedBy = IF claimed THEN NoCounter ELSE row.claimedBy
           /\ new.owner = row.owner /\ new.origin = row.origin
           /\ new.assignee = row.assignee /\ new.resumedBy = row.resumedBy
<1> PICK cleared \in {IF claimed THEN [row EXCEPT !.claimedBy = NoCounter] ELSE row} : TRUE
  OBVIOUS
<1>1. /\ cleared \in Row /\ cleared.claimedBy = IF claimed THEN NoCounter ELSE row.claimedBy
      /\ cleared.owner = row.owner /\ cleared.origin = row.origin
      /\ cleared.assignee = row.assignee /\ cleared.resumedBy = row.resumedBy
  BY DEF Row
<1> PICK status \in {IF action = "expire" THEN "expired" ELSE "active"} : TRUE
  OBVIOUS
<1>2. status \in Status
  BY DEF Status
<1> PICK moved \in {[cleared EXCEPT !.status = status]} : TRUE
  OBVIOUS
<1>3. /\ moved \in Row /\ moved.status = status /\ moved.claimedBy = cleared.claimedBy
      /\ moved.owner = row.owner /\ moved.origin = row.origin
      /\ moved.assignee = row.assignee /\ moved.resumedBy = row.resumedBy
  BY <1>1, <1>2 DEF Row
<1>4. new = [moved EXCEPT !.version = v + 1]
  BY DEF AfterExpiry
<1> QED
  BY <1>1, <1>3, <1>4 DEF Row

\* A handler that looks at the deadline itself sees the claim and clears it.
Expired(row, action) ==
    [[row EXCEPT !.claimedBy = NoCounter]
        EXCEPT !.status = IF action = "expire" THEN "expired" ELSE "active",
               !.version = row.version + 1]

LEMMA ExpiredRow ==
    ASSUME NEW row \in Row, NEW action, NEW new, new = Expired(row, action)
    PROVE  /\ new \in Row /\ new.version > row.version
           /\ new.status \in {"expired", "active"} /\ new.claimedBy = NoCounter
           /\ new.owner = row.owner /\ new.origin = row.origin
           /\ new.assignee = row.assignee
<1> PICK cleared \in {[row EXCEPT !.claimedBy = NoCounter]} : TRUE
  OBVIOUS
<1>1. /\ cleared \in Row /\ cleared.claimedBy = NoCounter
      /\ cleared.owner = row.owner /\ cleared.origin = row.origin
      /\ cleared.assignee = row.assignee
  BY DEF Row
<1> PICK status \in {IF action = "expire" THEN "expired" ELSE "active"} : TRUE
  OBVIOUS
<1>2. status \in Status /\ status \in {"expired", "active"}
  BY DEF Status
<1> PICK moved \in {[cleared EXCEPT !.status = status]} : TRUE
  OBVIOUS
<1>3. /\ moved \in Row /\ moved.status = status /\ moved.claimedBy = cleared.claimedBy
      /\ moved.owner = row.owner /\ moved.origin = row.origin
      /\ moved.assignee = row.assignee
  BY <1>1, <1>2 DEF Row
<1>4. new = [moved EXCEPT !.version = row.version + 1] /\ row.version \in Nat
  BY DEF Expired, Row
<1> QED
  BY <1>1, <1>2, <1>3, <1>4 DEF Row

\* A handler that writes one row and nothing else of what requests have read.
LEMMA OneRow ==
    ASSUME Inv, NEW d \in Drafts, NEW new, Save(d, new), draft'[d] = new => Moves(d),
           \A e \in Drafts \ {d} : restored'[e] = restored[e] /\ sold'[e] = sold[e],
           UNCHANGED <<listing, shiftVars, overwritten>>,
           \A c \in Counters : resuming'[c] \in {resuming[c], NoDraft},
           reassigned \subseteq reassigned', RequestsTyped'
    PROVE  Write
<1>1. /\ draft' = [draft EXCEPT ![d] = new] /\ draft \in [Drafts -> Row]
      /\ lapsed' = {e \in lapsed : draft'[e].status \in Pending}
      /\ claimLapsed' = {e \in claimLapsed : draft'[e].status = "claimed"}
  BY DEF Save, SaveAll, Inv, RowsTyped
<1>2. draft' = [e \in Drafts |-> draft'[e]] /\ \A e \in Drafts : Moves(e) \/ Stays(e)
  BY <1>1 DEF Stays
<1>3. listing' = [c \in Counters |-> listing'[c]]
  BY DEF Inv, NotesTrue
<1> QED
  BY <1>1, <1>2, <1>3 DEF Write

LEMMA AuditsTyped ==
    ASSUME expiries \subseteq AuditKey, NEW keys \in SUBSET AuditKey, Audits(keys)
    PROVE  expiries' \subseteq AuditKey
  BY DEF Audits

LEMMA KeyTyped ==
    ASSUME NEW d \in Drafts, NEW action \in {"expire", "claim_expire"}, NEW v \in Nat, NEW h
    PROVE  ExpiryKey(d, action, v, h) \in AuditKey
  BY DEF ExpiryKey, AuditKey

LEMMA Expiring ==
    ASSUME Inv, NEW d \in Drafts, Expiry(d) # "none"
    PROVE  /\ Expiry(d) \in {"expire", "claim_expire"} /\ draft[d].status \in Pending
           /\ draft[d] \in Row /\ draft[d].owner \in Users
  BY DEF Expiry, Pending, Inv, RowsTyped, RowsKnown, Exists

LEMMA ExpiryMoves ==
    ASSUME Inv, NEW d \in Drafts, Expiry(d) # "none", ~Locked(d),
           draft'[d] = Expired(draft[d], Expiry(d)),
           UNCHANGED <<resuming, restored, sold, reassigned, overwritten>>
    PROVE  Moves(d)
<1>1. /\ draft[d].status \in Pending /\ draft[d].owner \in Users
      /\ draft'[d] \in Row /\ draft'[d].version > draft[d].version
      /\ draft'[d].status \in {"expired", "active"} /\ draft'[d].claimedBy = NoCounter
      /\ draft'[d].owner = draft[d].owner /\ draft'[d].origin = draft[d].origin
      /\ draft'[d].assignee = draft[d].assignee
  BY Expiring, ExpiredRow
<1>2. draft[d].assignee = draft[d].owner \/ d \in reassigned'
  BY <1>1 DEF Inv, Owned, Exists, Pending
<1>3. ~overwritten' => Counted(d)'
  BY <1>1 DEF Inv, CountsFollow, Counted, Pending
<1>4. \A c \in Counters : resuming'[c] # d
  BY DEF Locked
<1>5. draft'[d].status # "claimed" /\ draft'[d].status # "none"
  BY <1>1
<1> QED
  BY <1>1, <1>2, <1>3, <1>4, <1>5 DEF Moves

\* get and claim write a deadline they find passed.
LEMMA ExpiryWrites ==
    ASSUME Inv, NEW d \in Drafts, NEW h, NEW key \in {ExpiryKey(d, Expiry(d), draft[d].version, h)},
           ~Locked(d), Expiry(d) # "none", Audits({key}),
           Save(d, Expired(draft[d], Expiry(d))),
           UNCHANGED <<parent, shiftVars, requestVars, historyVars>>
    PROVE  Write
<1>1. Expiry(d) \in {"expire", "claim_expire"} /\ draft[d].version \in Nat
  BY Expiring DEF Row
<1>3. draft'[d] = Expired(draft[d], Expiry(d)) => Moves(d)
  BY ExpiryMoves DEF requestVars, historyVars
<1>4. expiries' \subseteq AuditKey
  <2>1. {key} \subseteq AuditKey
    BY <1>1, KeyTyped
  <2> QED
    BY <2>1, AuditsTyped DEF Inv, RequestsTyped
<1>5. RequestsTyped'
  BY <1>4 DEF Inv, RequestsTyped, shiftVars, requestVars, historyVars
<1> QED
  BY <1>3, <1>5, OneRow DEF requestVars, historyVars

\* list: with no row overwritten, every note was true of its row.
LEMMA ListWrites == ASSUME Inv, NEW c \in Counters, ListWrite(c) PROVE Write
<1> DEFINE keys == {ExpiryKey(n.draft, n.action, n.version, "list") : n \in listing[c]}
           note(d) == CHOOSE n \in listing[c] : n.draft = d
           written == {n.draft : n \in listing[c]}
           rows == [d \in Drafts |->
                      IF d \in written
                      THEN AfterExpiry(draft[d], note(d).action, note(d).version, note(d).claimed)
                      ELSE draft[d]]
<1>1. listing' = [listing EXCEPT ![c] = {}] /\ listing = [e \in Counters |-> listing[e]]
  BY DEF ListWrite, Inv, NotesTrue
<1>2. /\ listing' = [e \in Counters |-> listing'[e]]
      /\ \A e \in Counters : listing'[e] \subseteq listing[e]
  BY <1>1
<1>3. /\ UNCHANGED <<parent, shiftVars, resuming, reopening, restored, sold, reassigned>>
      /\ \A d \in written : ~Locked(d)
  BY DEF ListWrite
<1>4. CASE UNCHANGED <<draft, timeVars, expiries, overwritten>>
  <2>1. /\ \A d \in Drafts : Stays(d)
        /\ draft' = [d \in Drafts |-> draft'[d]]
    BY <1>3, <1>4 DEF Stays, Inv, RowsTyped
  <2>2. RequestsTyped'
    BY <1>3, <1>4 DEF Inv, RequestsTyped, shiftVars
  <2> QED
    BY <1>2, <1>3, <1>4, <2>1, <2>2 DEF Write, timeVars, Inv, RequestsTyped
<1>5. CASE /\ Audits(keys) /\ SaveAll(rows)
           /\ overwritten' =
                 (overwritten \/ \E n \in listing[c] : draft[n.draft].version # n.version)
  <2>1. \A n \in listing[c] : n \in Note /\ Exists(n.draft)
    BY DEF Inv, NotesTrue
  <2>2. keys \subseteq AuditKey
    BY <2>1, KeyTyped DEF Note
  <2>3. expiries' \subseteq AuditKey
    <3> HIDE DEF keys
    <3> QED
      BY <1>5, <2>2, AuditsTyped DEF Inv, RequestsTyped
  <2>4. RequestsTyped'
    BY <1>3, <2>3 DEF Inv, RequestsTyped, shiftVars
  <2>5. draft' = rows /\ \A d \in lapsed : draft'[d].status \in Pending => d \in lapsed'
    BY <1>5 DEF SaveAll
  <2>6. lapsed' \subseteq lapsed /\ claimLapsed' \subseteq claimLapsed
    BY <1>5 DEF SaveAll
  <2>7. ASSUME NEW d \in Drafts PROVE Moves(d) \/ Stays(d)
    <3>1. CASE d \notin written
      BY <1>3, <2>5, <3>1 DEF Stays
    <3>2. CASE d \in written
      <4>1. note(d) \in listing[c] /\ note(d).draft = d
        BY <3>2
      <4> PICK n \in {note(d)} : TRUE
        OBVIOUS
      <4>2. n \in listing[c] /\ n.draft = d /\ n \in Note /\ Exists(d)
        BY <2>1, <4>1
      <4>3. draft'[d] = AfterExpiry(draft[d], n.action, n.version, n.claimed)
        BY <2>5, <3>2
      <4> HIDE DEF note, rows, written, keys
      <4>4. draft[d] \in Row /\ n.version \in Nat /\ n.claimed \in BOOLEAN
        BY <4>2 DEF Inv, RowsTyped, Note
      <4>5. /\ draft'[d] \in Row /\ draft'[d].version = n.version + 1
            /\ draft'[d].status \in {"expired", "active"}
            /\ draft'[d].claimedBy = IF n.claimed THEN NoCounter ELSE draft[d].claimedBy
            /\ draft'[d].owner = draft[d].owner /\ draft'[d].origin = draft[d].origin
            /\ draft'[d].assignee = draft[d].assignee
        BY <4>3, <4>4, AfterExpiryRow
      <4>6. \A e \in Counters : resuming'[e] # d
        BY <1>3, <3>2 DEF Locked
      <4>7. draft[d].owner \in Users /\ (draft[d].assignee = draft[d].owner \/ d \in reassigned')
        BY <1>3, <4>2 DEF Inv, RowsKnown, Owned
      <4>8. ASSUME ~overwritten'
            PROVE  /\ draft'[d].version > draft[d].version
                   /\ draft'[d].claimedBy = NoCounter
                   /\ Counted(d)'
                   /\ draft[d].status \in Pending
        <5>1. ~overwritten /\ draft[d].version = n.version
          BY <1>5, <4>2, <4>8
        <5>2. draft[d].status \in Pending /\ (n.claimed <=> draft[d].status = "claimed")
          BY <4>2, <5>1 DEF Inv, NotesTrue
        <5>3. ~n.claimed => draft[d].claimedBy = NoCounter
          BY <5>1, <5>2 DEF Inv, RowsTyped, Pending
        <5>4. Counted(d)'
          BY <1>3, <4>5, <5>1, <5>2 DEF Inv, CountsFollow, Counted, Pending
        <5> QED
          BY <4>4, <4>5, <5>1, <5>2, <5>3, <5>4
      <4>9. draft'[d].status # "claimed" /\ draft'[d].status # "none"
        BY <4>5
      <4> QED
        BY <4>5, <4>6, <4>7, <4>8, <4>9 DEF Moves
    <3> QED
      BY <3>1, <3>2
  <2>8. draft' = [d \in Drafts |-> draft'[d]]
    BY <2>5
  <2>9. (overwritten => overwritten') /\ reassigned \subseteq reassigned'
    BY <1>3, <1>5
  <2>10. \A e \in Counters : resuming'[e] \in {resuming[e], NoDraft}
    BY <1>3
  <2>11. UNCHANGED shiftVars /\ \A d \in lapsed : draft'[d].status \in Pending => d \in lapsed'
    BY <1>3, <2>5
  <2> HIDE DEF note, rows, written, keys
  <2> QED
    BY <1>2, <2>4, <2>6, <2>7, <2>8, <2>9, <2>10, <2>11 DEF Write
<1> QED
  BY <1>4, <1>5 DEF ListWrite

\* A new row, or a row with some columns changed, at a version raised by one.
LEMMA NewRowRow ==
    ASSUME NEW c \in Counters, RequestsTyped, ShiftOpen(c), NEW new, new = NewRow(c)
    PROVE  /\ new \in Row /\ new.version = 1 /\ new.status = "active"
           /\ new.claimedBy = NoCounter
           /\ new.owner = User[c] /\ new.origin = shiftNo[User[c]] /\ new.assignee = User[c]
           /\ User[c] \in Users /\ User[c] \in open
<1>1. User[c] \in Users /\ User[c] \in open /\ shiftNo[User[c]] \in 0..MaxShifts
  BY UserAssumption DEF RequestsTyped, ShiftOpen
<1>2. new = [status |-> "active", version |-> 1, owner |-> User[c],
             origin |-> shiftNo[User[c]], assignee |-> User[c], claimedBy |-> NoCounter,
             resumedBy |-> "none"]
  BY DEF NewRow, NoRow
<1> QED
  BY <1>1, <1>2 DEF Row, Status

LEMMA CreateWrites ==
    ASSUME Inv, NEW c \in Counters, NEW d \in Drafts, ~Exists(d), ShiftOpen(c),
           Save(d, NewRow(c)), UNCHANGED <<expiries, shiftVars, listing, resuming, historyVars>>,
           parent' \in [Drafts -> Drafts \cup {NoDraft}],
           reopening' \in [Counters -> Drafts \cup {NoDraft}]
    PROVE  Write
<1> PICK new \in {NewRow(c)} : TRUE
  OBVIOUS
<1>1. /\ new \in Row /\ new.version = 1 /\ new.status = "active"
      /\ new.claimedBy = NoCounter
      /\ new.owner = User[c] /\ new.origin = shiftNo[User[c]] /\ new.assignee = User[c]
      /\ User[c] \in Users /\ User[c] \in open
  BY NewRowRow DEF Inv
<1>2. draft'[d] = new => Moves(d)
  <2> SUFFICES ASSUME draft'[d] = new PROVE Moves(d)
    OBVIOUS
  <2>1. draft[d].version = 0 /\ draft[d].status = "none"
    BY DEF Inv, RowsKnown, Exists
  <2>2. \A e \in Counters : resuming'[e] # d
    BY <2>1, DraftAssumption DEF Inv, LocksHold
  <2>3. ~overwritten' => Counted(d)'
    BY <1>1, <2>1 DEF Inv, CountsFollow, Counted, historyVars
  <2> QED
    BY <1>1, <2>1, <2>2, <2>3 DEF Moves, shiftVars
<1>3. RequestsTyped'
  BY DEF Inv, RequestsTyped, shiftVars, historyVars
<1> QED
  BY <1>2, <1>3, OneRow DEF historyVars

\* The columns that claim, release, discard, edit, resume and convert set.
Columns(row, status, to, by, who) ==
    [status |-> status, version |-> row.version + 1, owner |-> row.owner, origin |-> row.origin,
     assignee |-> to, claimedBy |-> by, resumedBy |-> who]

\* A handler that holds the row of an existing draft and changes it.
LEMMA ChangeMoves ==
    ASSUME Inv, NEW d \in Drafts, Exists(d),
           draft'[d] \in Row, draft'[d].version > draft[d].version,
           draft'[d].status # "none",
           draft'[d].owner = draft[d].owner, draft'[d].origin = draft[d].origin,
           draft'[d].assignee = draft[d].assignee \/ d \in reassigned',
           reassigned \subseteq reassigned',
           draft'[d].status = "claimed" => draft'[d].claimedBy # NoCounter,
           draft'[d].status \in {"active", "cancelled"} /\ ~overwritten'
                => draft'[d].claimedBy = NoCounter,
           draft'[d].status # "expired",
           draft'[d].status \in Pending => draft[d].status \in Pending,
           \A c \in Counters : resuming'[c] # d,
           ~overwritten' => Counted(d)'
    PROVE  Moves(d)
<1>1. draft[d].owner \in Users
  BY DEF Inv, RowsKnown
<1>2. draft[d].assignee = draft[d].owner \/ d \in reassigned'
  BY DEF Inv, Owned
<1> QED
  BY <1>1, <1>2 DEF Moves

LEMMA ClaimWrites == ASSUME Inv, NEW c \in Counters, NEW d \in Drafts, Claim(c, d) PROVE Write
<1> PICK row \in {draft[d]} : TRUE
  OBVIOUS
<1> PICK new \in {[row EXCEPT !.status = "claimed", !.version = @ + 1, !.claimedBy = c]} : TRUE
  OBVIOUS
<1>1. row \in Row /\ row = draft[d]
  BY DEF Inv, RowsTyped
<1>2. new = Columns(row, "claimed", row.assignee, c, row.resumedBy)
  BY <1>1 DEF Columns, Row
<1>3. /\ Save(d, new) /\ Exists(d) /\ ~Locked(d) /\ row.status = "active"
      /\ UNCHANGED <<parent, expiries, shiftVars, requestVars, historyVars>>
  BY <1>1 DEF Claim, Locks
<1>4. /\ new \in Row /\ new.version > row.version /\ new.status = "claimed"
      /\ new.claimedBy = c /\ new.assignee = row.assignee
      /\ new.owner = row.owner /\ new.origin = row.origin
  BY <1>1, <1>2, <1>3 DEF Columns, Row, Status
<1>5. draft'[d] = new => Moves(d)
  <2> SUFFICES ASSUME draft'[d] = new PROVE Moves(d)
    OBVIOUS
  <2>1. ~overwritten' => Counted(d)'
    BY <1>1, <1>3, <1>4 DEF Inv, CountsFollow, Counted, historyVars, Pending
  <2> QED
    BY <1>1, <1>3, <1>4, <2>1, ChangeMoves, NoCounterAssumption
       DEF Locked, requestVars, historyVars, Pending
<1>6. RequestsTyped'
  BY <1>3 DEF Inv, RequestsTyped, shiftVars, requestVars, historyVars
<1> QED
  BY <1>3, <1>5, <1>6, OneRow DEF requestVars, historyVars

LEMMA ReleaseWrites == ASSUME Inv, NEW c \in Counters, NEW d \in Drafts, Release(c, d) PROVE Write
<1> PICK row \in {draft[d]} : TRUE
  OBVIOUS
<1> PICK new \in {[row EXCEPT !.status = "active", !.version = @ + 1, !.claimedBy = NoCounter]} : TRUE
  OBVIOUS
<1>1. row \in Row /\ row = draft[d]
  BY DEF Inv, RowsTyped
<1>2. new = Columns(row, "active", row.assignee, NoCounter, row.resumedBy)
  BY <1>1 DEF Columns, Row
<1>3. /\ Save(d, new) /\ Exists(d) /\ ~Locked(d) /\ row.status = "claimed"
      /\ UNCHANGED <<parent, expiries, shiftVars, requestVars, historyVars>>
  BY <1>1 DEF Release, Releasable, Locks
<1>4. /\ new \in Row /\ new.version > row.version /\ new.status = "active"
      /\ new.claimedBy = NoCounter /\ new.assignee = row.assignee
      /\ new.owner = row.owner /\ new.origin = row.origin
  BY <1>1, <1>2, <1>3 DEF Columns, Row, Status
<1>5. draft'[d] = new => Moves(d)
  <2> SUFFICES ASSUME draft'[d] = new PROVE Moves(d)
    OBVIOUS
  <2>1. ~overwritten' => Counted(d)'
    BY <1>1, <1>3, <1>4 DEF Inv, CountsFollow, Counted, historyVars, Pending
  <2> QED
    BY <1>1, <1>3, <1>4, <2>1, ChangeMoves, NoCounterAssumption
       DEF Locked, requestVars, historyVars, Pending
<1>6. RequestsTyped'
  BY <1>3 DEF Inv, RequestsTyped, shiftVars, requestVars, historyVars
<1> QED
  BY <1>3, <1>5, <1>6, OneRow DEF requestVars, historyVars

LEMMA DiscardWrites == ASSUME Inv, NEW c \in Counters, NEW d \in Drafts, Discard(c, d) PROVE Write
<1> PICK row \in {draft[d]} : TRUE
  OBVIOUS
<1> PICK new \in {[row EXCEPT !.status = "cancelled", !.version = @ + 1, !.claimedBy = NoCounter]} : TRUE
  OBVIOUS
<1>1. row \in Row /\ row = draft[d]
  BY DEF Inv, RowsTyped
<1>2. new = Columns(row, "cancelled", row.assignee, NoCounter, row.resumedBy)
  BY <1>1 DEF Columns, Row
<1>3. /\ Save(d, new) /\ Exists(d) /\ ~Locked(d) /\ row.status \in Pending
      /\ UNCHANGED <<parent, expiries, shiftVars, requestVars, historyVars>>
  BY <1>1 DEF Discard, Locks
<1>4. /\ new \in Row /\ new.version > row.version /\ new.status = "cancelled"
      /\ new.claimedBy = NoCounter /\ new.assignee = row.assignee
      /\ new.owner = row.owner /\ new.origin = row.origin
  BY <1>1, <1>2, <1>3 DEF Columns, Row, Status
<1>5. draft'[d] = new => Moves(d)
  <2> SUFFICES ASSUME draft'[d] = new PROVE Moves(d)
    OBVIOUS
  <2>1. ~overwritten' => Counted(d)'
    BY <1>1, <1>3, <1>4 DEF Inv, CountsFollow, Counted, historyVars, Pending
  <2> QED
    BY <1>1, <1>3, <1>4, <2>1, ChangeMoves, NoCounterAssumption
       DEF Locked, requestVars, historyVars, Pending
<1>6. RequestsTyped'
  BY <1>3 DEF Inv, RequestsTyped, shiftVars, requestVars, historyVars
<1> QED
  BY <1>3, <1>5, <1>6, OneRow DEF requestVars, historyVars

LEMMA UpdateWrites == ASSUME Inv, NEW c \in Counters, NEW d \in Drafts, NEW u \in Users, Update(c, d, u) PROVE Write
<1> PICK row \in {draft[d]} : TRUE
  OBVIOUS
<1> PICK new \in {[row EXCEPT !.assignee = u, !.version = @ + 1]} : TRUE
  OBVIOUS
<1>1. row \in Row /\ row = draft[d]
  BY DEF Inv, RowsTyped
<1>2. new = Columns(row, row.status, u, row.claimedBy, row.resumedBy)
  BY <1>1 DEF Columns, Row
<1>3. /\ Save(d, new) /\ Exists(d) /\ ~Locked(d) /\ row.status = "active"
      /\ reassigned' = (IF u = row.assignee THEN reassigned ELSE reassigned \cup {d})
      /\ UNCHANGED <<parent, expiries, shiftVars, requestVars, restored, sold, overwritten>>
  BY <1>1 DEF Update, Locks
<1>4. /\ new \in Row /\ new.version > row.version /\ new.status = "active"
      /\ new.claimedBy = row.claimedBy /\ new.assignee = u
      /\ new.owner = row.owner /\ new.origin = row.origin
  BY <1>1, <1>2, <1>3 DEF Columns, Row, Status
<1>5. draft'[d] = new => Moves(d)
  <2> SUFFICES ASSUME draft'[d] = new PROVE Moves(d)
    OBVIOUS
  <2>1. ~overwritten' => Counted(d)'
    BY <1>1, <1>3, <1>4 DEF Inv, CountsFollow, Counted
  <2>2. ~overwritten' => row.claimedBy = NoCounter
    BY <1>1, <1>3 DEF Inv, RowsTyped
  <2>3. new.assignee = row.assignee \/ d \in reassigned'
    BY <1>3, <1>4
  <2>4. reassigned \subseteq reassigned'
    BY <1>3
  <2> QED
    BY <1>1, <1>3, <1>4, <2>1, <2>2, <2>3, <2>4, ChangeMoves DEF Locked, requestVars, Pending
<1>6. RequestsTyped'
  BY <1>3 DEF Inv, RequestsTyped, shiftVars, requestVars
<1> QED
  BY <1>3, <1>5, <1>6, OneRow DEF requestVars

LEMMA ConvertWrites == ASSUME Inv, NEW c \in Counters, NEW d \in Drafts, Convert(c, d) PROVE Write
<1> PICK row \in {draft[d]} : TRUE
  OBVIOUS
<1> PICK new \in {[row EXCEPT !.status = "converted", !.version = @ + 1]} : TRUE
  OBVIOUS
<1>1. row \in Row /\ row = draft[d]
  BY DEF Inv, RowsTyped
<1>2. new = Columns(row, "converted", row.assignee, row.claimedBy, row.resumedBy)
  BY <1>1 DEF Columns, Row
<1>3. /\ Save(d, new) /\ Exists(d) /\ ~Locked(d) /\ row.status = "resumed"
      /\ sold' = [sold EXCEPT ![d] = @ + 1]
      /\ UNCHANGED <<parent, expiries, shiftVars, requestVars, restored, reassigned, overwritten>>
  BY <1>1 DEF Convert, Convertible, Locks
<1>4. /\ new \in Row /\ new.version > row.version /\ new.status = "converted"
      /\ new.claimedBy = row.claimedBy /\ new.assignee = row.assignee
      /\ new.owner = row.owner /\ new.origin = row.origin
  BY <1>1, <1>2, <1>3 DEF Columns, Row, Status
<1>5. draft'[d] = new => Moves(d)
  <2> SUFFICES ASSUME draft'[d] = new PROVE Moves(d)
    OBVIOUS
  <2>1. ~overwritten' => Counted(d)'
    BY <1>1, <1>3, <1>4 DEF Inv, CountsFollow, Counted, RequestsTyped
  <2> QED
    BY <1>1, <1>3, <1>4, <2>1, ChangeMoves DEF Locked, requestVars, Pending
<1>6. RequestsTyped'
  BY <1>3 DEF Inv, RequestsTyped, shiftVars, requestVars
<1> QED
  BY <1>3, <1>5, <1>6, OneRow DEF requestVars, Inv, RequestsTyped

LEMMA ResumeWrites == ASSUME Inv, NEW c \in Counters, Resume(c) PROVE Write
<1> PICK d \in Drafts : d = resuming[c]
  BY DEF Resume, Inv, RequestsTyped
<1> PICK row \in {draft[d]} : TRUE
  OBVIOUS
<1> PICK new \in {[row EXCEPT !.status = "resumed", !.version = @ + 1, !.resumedBy = User[c]]} : TRUE
  OBVIOUS
<1>1. /\ row \in Row /\ row = draft[d]
      /\ row.status = "claimed" /\ row.claimedBy = c
  BY DraftAssumption DEF Inv, RowsTyped, LocksHold
<1>2. new = Columns(row, "resumed", row.assignee, row.claimedBy, User[c])
  BY <1>1 DEF Columns, Row
<1>3. /\ Save(d, new) /\ resuming' = [resuming EXCEPT ![c] = NoDraft]
      /\ restored' = [restored EXCEPT ![d] = @ + 1]
      /\ UNCHANGED <<parent, expiries, shiftVars, listing, reopening, sold, reassigned, overwritten>>
  BY <1>1 DEF Resume
<1>4. /\ new \in Row /\ new.version > row.version /\ new.status = "resumed"
      /\ new.assignee = row.assignee /\ new.owner = row.owner /\ new.origin = row.origin
  BY <1>1, <1>2, UserAssumption DEF Columns, Row, Status
<1>5. \A e \in Counters : resuming'[e] \in {resuming[e], NoDraft} /\ resuming'[e] # d
  BY <1>1, <1>3, DraftAssumption DEF Inv, LocksHold, RequestsTyped
<1>6. draft'[d] = new => Moves(d)
  <2> SUFFICES ASSUME draft'[d] = new PROVE Moves(d)
    OBVIOUS
  <2>1. ~overwritten' => Counted(d)'
    BY <1>1, <1>3, <1>4 DEF Inv, CountsFollow, Counted, RequestsTyped
  <2> QED
    BY <1>1, <1>3, <1>4, <1>5, <2>1, ChangeMoves DEF Exists, Pending
<1>7. RequestsTyped'
  BY <1>3 DEF Inv, RequestsTyped, shiftVars
<1> QED
  BY <1>3, <1>5, <1>6, <1>7, OneRow DEF Inv, RequestsTyped

LEMMA CreatesWrite ==
    ASSUME Inv, NEW c \in Counters, NEW d \in Drafts, Create(c, d) \/ ReopenCreate(c, d)
    PROVE  Write
<1>1. parent' \in [Drafts -> Drafts \cup {NoDraft}] /\ reopening' \in [Counters -> Drafts \cup {NoDraft}]
  BY DEF Create, ReopenCreate, Inv, RequestsTyped, requestVars
<1>2. /\ ~Exists(d) /\ ShiftOpen(c) /\ Save(d, NewRow(c))
      /\ UNCHANGED <<expiries, shiftVars, listing, resuming, historyVars>>
  BY DEF Create, ReopenCreate, requestVars
<1> QED
  BY <1>1, <1>2, CreateWrites

LEMMA ExpiriesWrite ==
    ASSUME Inv, NEW d \in Drafts, Get(d) \/ \E c \in Counters : ClaimExpires(c, d)
    PROVE  Write
<1>1. AfterExpiry(draft[d], Expiry(d), draft[d].version, TRUE) = Expired(draft[d], Expiry(d))
  BY DEF AfterExpiry, Expired
<1>2. CASE Get(d)
  <2> PICK key \in {ExpiryKey(d, Expiry(d), draft[d].version, "get")} : TRUE
    OBVIOUS
  <2>1. /\ ~Locked(d) /\ Expiry(d) # "none" /\ Audits({key})
        /\ Save(d, AfterExpiry(draft[d], Expiry(d), draft[d].version, TRUE))
        /\ UNCHANGED <<parent, shiftVars, requestVars, historyVars>>
    BY <1>2 DEF Get, Locks
  <2>2. Save(d, Expired(draft[d], Expiry(d)))
    BY <1>1, <2>1
  <2> QED
    BY <2>1, <2>2, ExpiryWrites
<1>3. CASE \E c \in Counters : ClaimExpires(c, d)
  <2> PICK key \in {ExpiryKey(d, Expiry(d), draft[d].version, "claim")} : TRUE
    OBVIOUS
  <2>1. /\ ~Locked(d) /\ Expiry(d) # "none" /\ Audits({key})
        /\ Save(d, AfterExpiry(draft[d], Expiry(d), draft[d].version, TRUE))
        /\ UNCHANGED <<parent, shiftVars, requestVars, historyVars>>
    BY <1>3 DEF ClaimExpires
  <2>2. Save(d, Expired(draft[d], Expiry(d)))
    BY <1>1, <2>1
  <2> QED
    BY <2>1, <2>2, ExpiryWrites
<1> QED
  BY <1>2, <1>3

--------------------------------------------------------------------------------
(* Steps that write no row *)

LEMMA IdleKeepsInv ==
    ASSUME Inv, UNCHANGED <<draft, historyVars>>,
           lapsed' \subseteq Drafts, claimLapsed' \subseteq Drafts,
           RequestsTyped', LocksHold', NotesTrue'
    PROVE  Inv'
  BY DEF Inv, RowsTyped, RowsKnown, CountsFollow, Counted, Owned, Exists, historyVars

Shifts == \E u \in Users : OpenShift(u) \/ CloseShift(u)

LEMMA ShiftsKeepInv == ASSUME Inv, Shifts PROVE Inv'
<1>1. /\ UNCHANGED <<draft, parent, timeVars, expiries, requestVars, historyVars>>
      /\ shiftNo' \in [Users -> 0..MaxShifts] /\ open' \subseteq Users
  BY BoundAssumption DEF Shifts, OpenShift, CloseShift, Inv, RequestsTyped
<1>2. RequestsTyped'
  BY <1>1 DEF Inv, RequestsTyped, requestVars, historyVars
<1>3. LocksHold' /\ NotesTrue'
  BY <1>1 DEF Inv, LocksHold, NotesTrue, Exists, requestVars, historyVars
<1> QED
  BY <1>1, <1>2, <1>3, IdleKeepsInv DEF Inv, RowsTyped, timeVars

\* A deadline passes, or a request reads.
Rests ==
    /\ UNCHANGED <<draft, parent, expiries, shiftVars, historyVars>>
    /\ lapsed \subseteq lapsed' /\ lapsed' \subseteq Drafts /\ claimLapsed' \subseteq Drafts

LEMMA TimeRests ==
    ASSUME Inv, NEW d \in Drafts, Lapse(d) \/ ClaimLapses(d)
    PROVE  Rests /\ Inv'
<1>1. Rests /\ UNCHANGED requestVars
  BY DEF Lapse, ClaimLapses, Rests, Inv, RowsTyped
<1>2. RequestsTyped' /\ LocksHold' /\ NotesTrue'
  BY <1>1 DEF Rests, Inv, RequestsTyped, LocksHold, NotesTrue, Exists, shiftVars, requestVars, historyVars
<1> QED
  BY <1>1, <1>2, IdleKeepsInv DEF Rests

LEMMA ListReadRests == ASSUME Inv, NEW c \in Counters, ListRead(c) PROVE Rests /\ Inv'
<1> DEFINE due == {d \in Drafts : Expiry(d) # "none"}
           noted(d) == [draft |-> d, action |-> Expiry(d), version |-> draft[d].version,
                        claimed |-> draft[d].status = "claimed"]
           notes == {noted(d) : d \in due}
<1>1. /\ listing' = [listing EXCEPT ![c] = notes]
      /\ UNCHANGED <<draft, parent, timeVars, expiries, shiftVars, resuming, reopening, historyVars>>
  BY DEF ListRead
<1>2. Rests
  BY <1>1 DEF Rests, timeVars, Inv, RowsTyped
<1>3. \A n \in notes : /\ n \in Note /\ Exists(n.draft) /\ n.version = draft[n.draft].version
                       /\ draft[n.draft].status \in Pending
                       /\ n.claimed <=> draft[n.draft].status = "claimed"
  <2> SUFFICES ASSUME NEW d \in due
               PROVE  /\ noted(d) \in Note /\ Exists(d) /\ draft[d].status \in Pending
                      /\ noted(d).draft = d /\ noted(d).version = draft[d].version
                      /\ noted(d).claimed <=> draft[d].status = "claimed"
    OBVIOUS
  <2>1. /\ Expiry(d) \in {"expire", "claim_expire"} /\ draft[d].status \in Pending
        /\ draft[d].version \in Nat
    BY Expiring DEF Row
  <2> QED
    BY <2>1 DEF Note, Exists, Pending
<1>4. \A n, m \in notes : n.draft = m.draft => n = m
  OBVIOUS
<1>5. listing' = [e \in Counters |-> IF e = c THEN notes ELSE listing[e]]
  BY <1>1 DEF Inv, NotesTrue
<1> HIDE DEF notes
<1>6. NotesTrue'
  <2>1. \A e \in Counters : \A n \in listing'[e] : n \in Note /\ Exists(n.draft)'
    BY <1>1, <1>3, <1>5 DEF Inv, NotesTrue, Exists
  <2>2. \A e \in Counters : \A n, m \in listing'[e] : n.draft = m.draft => n = m
    BY <1>4, <1>5 DEF Inv, NotesTrue
  <2>3. \A n \in notes : n.version <= draft[n.draft].version
    <3> SUFFICES ASSUME NEW n \in notes PROVE n.version <= draft[n.draft].version
      OBVIOUS
    <3>1. n.version \in Nat /\ n.version = draft[n.draft].version
      BY <1>3 DEF Note
    <3> QED
      BY <3>1
  <2>4. ~overwritten' => \A e \in Counters : \A n \in listing'[e] :
           /\ n.version <= draft[n.draft].version
           /\ n.version = draft[n.draft].version =>
                 /\ draft[n.draft].status \in Pending
                 /\ n.claimed <=> draft[n.draft].status = "claimed"
    BY <1>1, <1>3, <1>5, <2>3 DEF Inv, NotesTrue, historyVars
  <2> QED
    BY <1>1, <1>5, <2>1, <2>2, <2>4 DEF NotesTrue
<1>7. RequestsTyped' /\ LocksHold'
  BY <1>1 DEF Inv, RequestsTyped, LocksHold, shiftVars, historyVars
<1> QED
  BY <1>1, <1>2, <1>6, <1>7, IdleKeepsInv DEF Rests

LEMMA RequestRests ==
    ASSUME Inv, NEW c \in Counters,
           ResumeRefused(c) \/ \E d \in Drafts : ResumeChecks(c, d) \/ ReopenRead(c, d)
    PROVE  Rests /\ Inv'
<1>1. Rests /\ UNCHANGED listing
  BY DEF ResumeChecks, ResumeRefused, ReopenRead, Rests, timeVars, Inv, RowsTyped
<1>2. /\ resuming' \in [Counters -> Drafts \cup {NoDraft}]
      /\ reopening' \in [Counters -> Drafts \cup {NoDraft}]
      /\ LocksHold'
  BY DraftAssumption
     DEF ResumeChecks, ResumeRefused, ReopenRead, Inv, RequestsTyped, LocksHold
<1>3. RequestsTyped' /\ NotesTrue'
  BY <1>1, <1>2 DEF Rests, Inv, RequestsTyped, NotesTrue, Exists, shiftVars, historyVars
<1> QED
  BY <1>1, <1>2, <1>3, IdleKeepsInv DEF Rests

--------------------------------------------------------------------------------
LEMMA InvInit == Init => Inv
<1> SUFFICES ASSUME Init PROVE Inv
  OBVIOUS
<1>1. \A d \in Drafts : /\ draft[d] = NoRow /\ NoRow \in Row /\ NoRow.status = "none"
                        /\ NoRow.version = 0 /\ NoRow.claimedBy = NoCounter
  BY BoundAssumption DEF Init, NoRow, Row, Status
<1>2. RowsTyped /\ RowsKnown
  BY <1>1 DEF Init, RowsTyped, RowsKnown, Exists
<1>3. RequestsTyped /\ LocksHold /\ NotesTrue
  BY BoundAssumption DEF Init, RequestsTyped, LocksHold, NotesTrue
<1>4. CountsFollow /\ Owned
  BY <1>1 DEF Init, CountsFollow, Counted, Owned, Exists
<1> QED
  BY <1>2, <1>3, <1>4 DEF Inv

LEMMA Kinds == ASSUME Inv, Next PROVE (Write \/ Rests \/ Shifts) /\ Inv'
<1>1. CASE Shifts
  BY <1>1, ShiftsKeepInv
<1>2. ASSUME NEW d \in Drafts, Lapse(d) \/ ClaimLapses(d) PROVE Rests /\ Inv'
  BY <1>2, TimeRests
<1>3. ASSUME NEW c \in Counters, ListRead(c) PROVE Rests /\ Inv'
  BY <1>3, ListReadRests
<1>4. ASSUME NEW c \in Counters,
             ResumeRefused(c) \/ \E d \in Drafts : ResumeChecks(c, d) \/ ReopenRead(c, d)
      PROVE  Rests /\ Inv'
  BY <1>4, RequestRests
<1>5. ASSUME NEW c \in Counters, ListWrite(c) \/ Resume(c) PROVE Write /\ Inv'
  BY <1>5, ListWrites, ResumeWrites, WriteKeepsInv
<1>6. ASSUME NEW d \in Drafts, Get(d) \/ \E c \in Counters : ClaimExpires(c, d)
      PROVE  Write /\ Inv'
  BY <1>6, ExpiriesWrite, WriteKeepsInv
<1>7. ASSUME NEW c \in Counters, NEW d \in Drafts, Create(c, d) \/ ReopenCreate(c, d)
      PROVE  Write /\ Inv'
  BY <1>7, CreatesWrite, WriteKeepsInv
<1>8. ASSUME NEW c \in Counters, NEW d \in Drafts,
             \/ Claim(c, d) \/ Release(c, d) \/ Discard(c, d) \/ Convert(c, d)
             \/ \E u \in Users : Update(c, d, u)
      PROVE  Write /\ Inv'
  BY <1>8, ClaimWrites, ReleaseWrites, DiscardWrites, ConvertWrites, UpdateWrites, WriteKeepsInv
<1> QED
  BY <1>1, <1>2, <1>3, <1>4, <1>5, <1>6, <1>7, <1>8 DEF Next, Shifts

LEMMA IdleStep == ASSUME Inv, UNCHANGED vars PROVE Rests /\ Inv'
<1>1. Rests /\ UNCHANGED requestVars
  BY DEF vars, timeVars, Rests, Inv, RowsTyped
<1>2. RequestsTyped' /\ LocksHold' /\ NotesTrue'
  BY <1>1 DEF Rests, Inv, RequestsTyped, LocksHold, NotesTrue, Exists, shiftVars, requestVars, historyVars
<1> QED
  BY <1>1, <1>2, IdleKeepsInv DEF Rests

LEMMA InvSteps == ASSUME Inv, [Next]_vars PROVE (Write \/ Rests \/ Shifts) /\ Inv'
  BY Kinds, IdleStep

LEMMA InvHolds == Spec => []Inv
<1>1. Inv /\ [Next]_vars => Inv'
  BY InvSteps
<1> QED
  BY InvInit, <1>1, PTL DEF Spec

--------------------------------------------------------------------------------
\* The rows, requests and shifts are well formed, and only a claimed or restored draft
\* names a holder, in every reachable state (the columns of pos_hold_drafts).
THEOREM TypeCorrect == Spec => []TypeOK
<1>1. Inv => TypeOK
  BY DEF Inv, RowsTyped, RequestsTyped, AuditKey, TypeOK
<1> QED
  BY InvHolds, <1>1, PTL

\* No handler leaves or lowers the version of a row it changes, and no late expiry does,
\* for any number of drafts and counters (_assert_version relies on it).
THEOREM VersionsNameRows == Spec => VersionNamesRow
<1>1. Inv /\ [Next]_vars =>
        [\A d \in Drafts : draft'[d] # draft[d] /\ ~overwritten'
             => draft'[d].version > draft[d].version]_vars
  <2> SUFFICES ASSUME Inv, [Next]_vars, NEW d \in Drafts, draft'[d] # draft[d], ~overwritten'
               PROVE  draft'[d].version > draft[d].version
    OBVIOUS
  <2>1. Write
    BY InvSteps DEF Rests, Shifts, OpenShift, CloseShift
  <2> QED
    BY <2>1 DEF Write, Moves, Stays
<1> QED
  BY InvHolds, <1>1, PTL DEF Spec, VersionNamesRow

\* A cart is restored at most once and paid at most once for it, however claims lapse, are
\* released and raced for, until a list request writes over a row that has changed.
THEOREM RestoredOnceUntilOverwritten == Spec => []RestoredOnceUnlessOverwritten
<1>1. Inv => RestoredOnceUnlessOverwritten
  BY DEF Inv, CountsFollow, Counted, RestoredOnceUnlessOverwritten
<1> QED
  BY InvHolds, <1>1, PTL

\* Closing a shift leaves no pending draft of its cashier behind, whatever races with it
\* (count_pending_for_shift counts once, behind the shift's lock).
THEOREM ClosedShiftsLeaveNoDraft == Spec => []ClosedShiftHasNoDraft
<1>1. Init => ClosedShiftHasNoDraft
  BY DEF Init, NoRow, ClosedShiftHasNoDraft, Pending
<1>2. ASSUME Inv, ClosedShiftHasNoDraft, Write PROVE ClosedShiftHasNoDraft'
  <2> SUFFICES ASSUME NEW d \in Drafts, ~overwritten', d \notin reassigned',
                      draft'[d].status \in Pending, d \notin lapsed'
               PROVE  draft'[d].owner \in open' /\ draft'[d].origin = shiftNo'[draft'[d].owner]
    BY DEF ClosedShiftHasNoDraft
  <2>1. UNCHANGED shiftVars /\ ~overwritten /\ d \notin reassigned /\ d \notin lapsed
    BY <1>2 DEF Write
  <2>2. draft[d].status \in Pending
          => draft[d].owner \in open /\ draft[d].origin = shiftNo[draft[d].owner]
    BY <1>2, <2>1 DEF ClosedShiftHasNoDraft
  <2>3. CASE Stays(d)
    BY <2>1, <2>2, <2>3 DEF Stays, shiftVars
  <2>4. CASE Moves(d)
    BY <2>1, <2>2, <2>4 DEF Moves, shiftVars
  <2> QED
    BY <1>2, <2>3, <2>4 DEF Write
<1>3. ASSUME Inv, ClosedShiftHasNoDraft, Rests PROVE ClosedShiftHasNoDraft'
  BY <1>3 DEF Rests, ClosedShiftHasNoDraft, shiftVars, historyVars
<1>4. ASSUME Inv, ClosedShiftHasNoDraft, Shifts PROVE ClosedShiftHasNoDraft'
  <2> SUFFICES ASSUME NEW d \in Drafts, ~overwritten, d \notin reassigned,
                      draft[d].status \in Pending, d \notin lapsed
               PROVE  draft[d].owner \in open' /\ draft[d].origin = shiftNo'[draft[d].owner]
    BY <1>4 DEF Shifts, OpenShift, CloseShift, ClosedShiftHasNoDraft, historyVars, timeVars
  <2>1. draft[d].owner \in open /\ draft[d].origin = shiftNo[draft[d].owner]
    BY <1>4 DEF ClosedShiftHasNoDraft
  <2>2. draft[d].assignee = draft[d].owner
    BY <1>4 DEF Inv, Owned, Exists, Pending
  <2>3. ASSUME NEW u \in Users, OpenShift(u)
        PROVE  draft[d].owner \in open' /\ draft[d].origin = shiftNo'[draft[d].owner]
    BY <1>4, <2>1, <2>3 DEF OpenShift, Inv, RequestsTyped
  <2>4. ASSUME NEW u \in Users, CloseShift(u)
        PROVE  draft[d].owner \in open' /\ draft[d].origin = shiftNo'[draft[d].owner]
    BY <2>1, <2>2, <2>4 DEF CloseShift, PendingForShift
  <2> QED
    BY <1>4, <2>3, <2>4 DEF Shifts
<1>5. Inv /\ ClosedShiftHasNoDraft /\ [Next]_vars => ClosedShiftHasNoDraft'
  BY <1>2, <1>3, <1>4, InvSteps
<1> QED
  BY InvHolds, <1>1, <1>5, PTL DEF Spec

================================================================================
