--------------------------- MODULE MCCreditLedger ---------------------------
(* CreditLedger on small accounts: two orders that may belong to one user    *)
(* or to two, a cost below, at and above the price, one code, one grant.     *)
EXTENDS CreditLedger, TLC

CONSTANTS u1, u2, o1, o2, c1, r1

MCValue       == [s \in {c1, r1} |-> 1]
MCAdjustments == {-1, 1}
Symmetry      == Permutations({u1, u2}) \cup Permutations({o1, o2})
=============================================================================
