------------------------- MODULE MCReferenceProjection -------------------------
(* Instance: one company row and one user row that references it.            *)
EXTENDS ReferenceProjection

CONSTANTS company, user, w1, w2

MCParent == [a \in {company, user} |-> IF a = user THEN company ELSE NoParent]
MCPriority == [a \in {company, user} |-> IF a = company THEN 10 ELSE 50]

================================================================================
