---------------------- MODULE MCPaymentReconciliation ----------------------
(* PaymentReconciliation with one order, and a gift after which its credits  *)
(* do not fit into the balance; without the gift they would fit twice.       *)
EXTENDS PaymentReconciliation, TLC

CONSTANTS u1, p1, g1, q1

MCOwner   == [p \in {p1} |-> u1]
MCCredits == [r \in {p1, g1} |-> IF r = g1 THEN 2 ELSE 1]
=============================================================================
