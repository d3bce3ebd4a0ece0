---------------------------- MODULE MCImageJobs ----------------------------
(* Small instances of ImageJobs: company a owns the jobs a1 and a2, company *)
(* b owns b1 and b2.                                                        *)
EXTENDS ImageJobs, TLC

CONSTANTS a, b, a1, a2, b1, b2, ua, va, ub

Owners == [j \in Jobs |-> IF j \in {a1, a2} THEN a ELSE b]
Companies == [u \in Users |-> IF u \in {ua, va} THEN a ELSE b]
Symmetry == Permutations(Workers) \cup Permutations({a1, a2})
=============================================================================
