------------------------------ MODULE MCReceipts ------------------------------
(* Small instances of OperationReceipts: all workers share one worker_id.   *)
EXTENDS OperationReceipts, TLC

OneName(n) == [w \in Workers |-> n]
CONSTANT n1
SharedName == OneName(n1)
Symmetry == Permutations(Workers) \cup Permutations(Callers) \cup Permutations(Requests) \cup Permutations(Receipts)
=============================================================================
