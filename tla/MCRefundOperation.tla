--------------------------- MODULE MCRefundOperation ---------------------------
(* Instance: a sale of three units, paid with two cards and then in cash.    *)
EXTENDS RefundOperation

CONSTANTS q1, q2, visa, card, cash

MCAmount == [p \in {visa, card, cash} |-> 1]
MCRank == [p \in {visa, card, cash} |-> IF p = visa THEN 1 ELSE IF p = card THEN 2 ELSE 3]

================================================================================
