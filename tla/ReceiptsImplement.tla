-------------------------- MODULE ReceiptsImplement --------------------------
(* OperationReceipts implements ProviderEffects: the refinement mapping.    *)
EXTENDS OperationReceipts

\* The phase a row stands for.  A row put back for a retry after its provider
\* was started still counts as stopped: a claim will only park it.
PhaseOf(row) ==
  CASE row.state = "absent" -> "none"
    [] row.state \in Settled -> "closed"
    [] row.state = "provider_started" -> "running"
    [] row.state \in Active \ (Settled \cup {"provider_started"}) ->
         IF row.started THEN "stopped" ELSE "intended"

Effects == INSTANCE ProviderEffects WITH
  phase <- [r \in Receipts |-> PhaseOf(rows[r])],
  safe  <- [r \in Receipts |-> rows[r].target \in StoreTargets]

\* Every sequence of claims, crashes, recoveries and late workers is one that
\* the contract of operation_receipts.py allows.
ImplementsProviderEffects == Effects!Spec
=============================================================================
