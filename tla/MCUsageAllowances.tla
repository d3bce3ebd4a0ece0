-------------------------- MODULE MCUsageAllowances --------------------------
(* A small instance: q1 and q2 ask for one report under one key, q3 for     *)
(* another.                                                                 *)
EXTENDS UsageAllowances, TLC

CONSTANTS q1, q2, q3, k1, k2, x, y

Limits == [f \in Features |-> IF f = "monthly_reports" THEN 1 ELSE 2]
OneKey == [r \in Requests |-> IF r = q3 THEN k2 ELSE k1]
Asked == [r \in Requests |-> IF r = q3 THEN y ELSE x]
Symmetry == Permutations(Batches) \cup Permutations(Requests \ {q3})
=============================================================================
