----------------------------- MODULE OutboxDelivery -----------------------------
(***************************************************************************)
(* What the reference projection promises, without workers, claims,        *)
(* transactions or faults: Platform publishes a change together with an    *)
(* event about the row, each event takes effect at most once, that effect   *)
(* is some version of its row that Platform had by then, a row is never     *)
(* copied before the row it references, and an event is acknowledged only   *)
(* after it took effect.  ReferenceProjection implements this.             *)
(***************************************************************************)
EXTENDS Naturals

CONSTANTS
    Rows,       \* reference rows
    Parent,     \* the foreign key of a row, or NoParent
    NoParent,
    Events      \* records whose field agg is the row they are about

VARIABLES
    source,     \* version of each row in the Platform database, 0 for none
    enqueued,   \* events committed with the writes of the rows
    applied,    \* events that took effect
    acked,      \* events that will never be delivered again
    copy        \* version of each row in the Restaurant database

vars == <<source, enqueued, applied, acked, copy>>

Init ==
    /\ source = [r \in Rows |-> 0]
    /\ enqueued = {} /\ applied = {} /\ acked = {}
    /\ copy = [r \in Rows |-> 0]

\* A row changes and the change is announced, in one step.
Publish(r) ==
    /\ source' = [source EXCEPT ![r] = @ + 1]
    /\ \E e \in Events \ enqueued : e.agg = r /\ enqueued' = enqueued \cup {e}
    /\ UNCHANGED <<applied, acked, copy>>

\* Existing rows are announced again.
Announce ==
    /\ enqueued' \in SUBSET (enqueued \cup {e \in Events : source[e.agg] > 0})
    /\ enqueued \subseteq enqueued'
    /\ UNCHANGED <<source, applied, acked, copy>>

\* An event takes effect: the row is copied, and nothing else is.
Deliver(e) ==
    /\ e \in enqueued \ applied
    /\ Parent[e.agg] # NoParent => copy[Parent[e.agg]] > 0
    /\ \E v \in 1..source[e.agg] : copy' = [copy EXCEPT ![e.agg] = v]
    /\ applied' = applied \cup {e}
    /\ UNCHANGED <<source, enqueued, acked>>

Acknowledge(e) ==
    /\ e \in applied \ acked
    /\ acked' = acked \cup {e}
    /\ UNCHANGED <<source, enqueued, applied, copy>>

Next ==
    \/ \E r \in Rows : Publish(r)
    \/ Announce
    \/ \E e \in Events : Deliver(e) \/ Acknowledge(e)

Spec == Init /\ [][Next]_vars

================================================================================
