------------------------- MODULE MCCreditAccounting -------------------------
(* Small instances of CreditAccounting.  c1 and c2 share an AI account, c3  *)
(* spends a data account; one provider serves all three.  The balance keeps *)
(* costs in steps of Grain, of which neither 18 nor 9 is a multiple.        *)
EXTENDS CreditAccounting

CONSTANTS c1, c2, c3, k1, k2, k3, ai, data, star, provider, r1, r2

OwnKeys == [c \in Calls |-> IF c = c1 THEN k1 ELSE IF c = c2 THEN k2 ELSE k3]
SharedKey == [c \in Calls |-> IF c = c1 THEN k1 ELSE k2]
Budgets == [c \in Calls |-> IF c = c3 THEN data ELSE ai]
NoControls == [c \in Calls |-> {}]
CappedControls == [c \in Calls |-> IF c = c2 THEN {} ELSE Controls]
TightCaps == [n \in Controls |-> 27]
NoCaps == [n \in Controls |-> 0]
Debit == {18}
=============================================================================
