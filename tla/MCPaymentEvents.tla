--------------------------- MODULE MCPaymentEvents ---------------------------
(* A small instance of PaymentEvents: two attempts and, perhaps, a session  *)
(* from before the attempts were recorded.                                  *)
EXTENDS PaymentEvents, TLC

CONSTANTS a1, a2, legacy, h1, h2

Versions == [s \in Sessions |-> IF s = a2 THEN 3 ELSE 2]
Symmetry == Permutations(Handlers)
=============================================================================
