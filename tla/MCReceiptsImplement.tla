-------------------------- MODULE MCReceiptsImplement --------------------------
(* The refinement, for a plain target and for a store whose reads replay.   *)
EXTENDS ReceiptsImplement

CONSTANT n1
SharedName == [w \in Workers |-> n1]
=============================================================================
