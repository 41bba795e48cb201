------------------------------ MODULE MCHoldDraft ------------------------------
(* Instance: two cashiers, each at a counter.                                *)
EXTENDS HoldDraft, TLC

CONSTANTS d1, d2, c1, c2, ann, bob

\* The first draft is claimed twice; the second one reopens it.
MCMaxVersion == [d \in Drafts |-> IF d = d1 THEN 4 ELSE 1]

MCUser == [c \in {c1, c2} |-> IF c = c1 THEN ann ELSE bob]

\* The two cashiers change places together with their counters.
MCSymmetry ==
    {[c \in {c1, c2} |-> IF c = c1 THEN c2 ELSE c1] @@ (ann :> bob) @@ (bob :> ann),
     [x \in {c1, c2, ann, bob} |-> x]}

\* After a list has written over a row the properties promise nothing more.
MCNotOverwritten == ~overwritten

================================================================================
