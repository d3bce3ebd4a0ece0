--------------------------- MODULE ProviderEffects ---------------------------
(***************************************************************************)
(* What an operation receipt promises about effects outside the database,  *)
(* without rows, leases, workers or clocks: an intended operation runs     *)
(* against its provider at most once unless its reads are safe to replay,  *)
(* results land only from the newest run while that run is open, and a     *)
(* closed operation stays closed.  The contract is the module comment and  *)
(* the docstrings of src/backend/src/ai/core/operation_receipts.py read    *)
(* against its statements; OperationReceipts is shown to implement it.     *)
(***************************************************************************)
EXTENDS Integers

CONSTANT Receipts

VARIABLES
  phase,   \* how far the operation is
  safe,    \* its provider calls are reads that may be replayed
  runs,    \* the runs against the provider, numbered upwards
  landed   \* the runs with committed results

vars == <<phase, safe, runs, landed>>

Phases == {"none", "intended", "running", "stopped", "closed"}

Init ==
  /\ phase = [r \in Receipts |-> "none"]
  /\ safe \in [Receipts -> BOOLEAN]
  /\ runs = [r \in Receipts |-> {}]
  /\ landed = [r \in Receipts |-> {}]

Keeps(r) == safe'[r] = safe[r] /\ runs'[r] = runs[r] /\ landed'[r] = landed[r]

Intend(r) == phase[r] = "none" /\ phase'[r] = "intended"
             /\ runs'[r] = runs[r] /\ landed'[r] = landed[r]

Run(r) ==
  /\ phase[r] = "intended" /\ phase'[r] = "running"
  /\ \E g \in runs'[r] :
       g \in Nat /\ (\A h \in runs[r] : h < g) /\ runs'[r] = runs[r] \cup {g}
  /\ safe'[r] = safe[r] /\ landed'[r] = landed[r]

Land(r) ==
  /\ phase[r] = "running" /\ phase'[r] = "running"
  /\ \E g \in runs[r] : (\A h \in runs[r] : h <= g) /\ landed'[r] = landed[r] \cup {g}
  /\ safe'[r] = safe[r] /\ runs'[r] = runs[r]

\* The run is over without an outcome that allows another one.
Stop(r) == phase[r] = "running" /\ phase'[r] = "stopped" /\ Keeps(r)

Replay(r) == safe[r] /\ phase[r] = "running" /\ phase'[r] = "intended" /\ Keeps(r)

Close(r) == phase[r] \in {"intended", "running", "stopped"} /\ phase'[r] = "closed" /\ Keeps(r)

Stay(r) == phase'[r] = phase[r] /\ Keeps(r)

Step(r) == Stay(r) \/ Intend(r) \/ Run(r) \/ Land(r) \/ Stop(r) \/ Replay(r) \/ Close(r)

\* One recovery pass may move several operations at once.
Next ==
  /\ DOMAIN phase' = Receipts /\ DOMAIN safe' = Receipts
  /\ DOMAIN runs' = Receipts /\ DOMAIN landed' = Receipts
  /\ \A r \in Receipts : Step(r)

Spec == Init /\ [][Next]_vars
=============================================================================
