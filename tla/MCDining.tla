-------------------------------- MODULE MCDining -------------------------------
(* A table or pickup session with an order of two dishes and another of one, and *)
(* a paid order of a waiter or a till.                                           *)
EXTENDS OfflineSync, TLC

CONSTANTS s1, s2, o1, o2, o3, i1, i2, i3, i4, r1, r2

MCOrderOf == (i1 :> o1) @@ (i2 :> o1) @@ (i3 :> o2) @@ (i4 :> o3)

MCMaxVersion == (o1 :> 3) @@ (o2 :> 1) @@ (o3 :> 3)

Alike == Permutations({s1, s2}) \cup Permutations({i1, i2}) \cup Permutations({r1, r2})

\* The instance is explored as three: one session with the plain orders, the waiter's paid
\* order with the sessions of its attempts, and the till's, which is not cooked.
TableService == broken = {} /\ order[o3].session = NoSession /\ Attempting(o3) = {}
                /\ \E s \in Sessions : session[s].status = "none"
WaiterService == \A o \in {o1, o2} : order[o].session = NoSession
TillAtRest == till[o3].status = "none"
ForOrder(s) == \/ o3 \in broken \/ order[o3].session = s
               \/ \E r \in Attempting(o3) : request[r].session = s
TillService ==
    /\ WaiterService
    /\ ticket[i4] = "none" /\ item[i4] \in {"none", "pending"} /\ begun = {}
    /\ \A s \in Sessions : /\ session[s].status = "none" \/ session[s].quick
                           /\ session[s].status \in {"none", "open"}
                           /\ bill[s] = NoBill
                           /\ session[s].status = "open" => ForOrder(s)
    /\ \A r \in Requests : request[r] = Idle \/ r \in Attempting(o3)
    /\ turnedAway = {} \/ contended \cup broken = {}
    /\ till[o3].waits = Idle \/ till[o3].status = "syncing"
    /\ \E r \in Requests : ~InSync(r, "arrived")
    /\ TillAtRest \/ \E r \in Requests : handler[r] # Idle \/ request[r] = Idle
    /\ desk[o3] = Idle \/ \E r \in Requests : handler[r] = Idle /\ request[r] = Idle
OneService == (TillAtRest /\ (TableService \/ WaiterService)) \/ TillService
================================================================================
