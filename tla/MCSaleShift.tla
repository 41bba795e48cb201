------------------------------ MODULE MCSaleShift ------------------------------
(* Two cashiers, three sales, two of them free, two units in stock. *)
EXTENDS SaleShift

CONSTANTS h1, h2, p1, p2, ann, bob, s1, s2, s3

MCProcess == [h \in {h1, h2} |-> IF h = h1 THEN p1 ELSE p2]
MCOwner == [s \in {s1, s2, s3} |-> IF s = s3 THEN bob ELSE ann]

\* Both handlers serve voids, of different orders (two voids of one order are the run
\* SaleShiftDoubleVoid).  Ann has two shifts, in the second of which, or after a fault,
\* only one handler does.
AtVoid(h) == pc[h] \in {"void", "voiding", "returned"}
VoidsApart ==
    /\ AtVoid(h1) /\ AtVoid(h2) => req[h1] # req[h2]
    /\ AtVoid(h2) => faults = 0 /\ shiftNo[ann] < 2
    /\ shiftNo[bob] < 2
================================================================================
