---------------------------- MODULE UsageCounters ----------------------------
(***************************************************************************)
(* The metered allowances of one company: tenant_usage_counters and the    *)
(* statements of src/backend/src/ai/core/usage.py that move them.  One row *)
(* counts one feature in one billing period.  An unlimited plan is one     *)
(* whose limit is not reached.                                             *)
(***************************************************************************)
EXTENDS Naturals, FiniteSets

Features == {"monthly_reports", "sentiment_analysis"}

CONSTANTS
    Limit,       \* [Features -> Nat], the plan's limits
    MaxPeriod    \* bound on the billing periods that end

ASSUME UsageAssumption == Limit \in [Features -> Nat] /\ MaxPeriod \in Nat

VARIABLES
    period,   \* the billing period get_plan() finds
    used      \* tenant_usage_counters.used

usageVars == <<period, used>>

Periods == 0 .. MaxPeriod

UsageTypeOK == period \in Periods /\ used \in [Features -> [Periods -> Nat]]

UsageInit == period = 0 /\ used = [f \in Features |-> [p \in Periods |-> 0]]

\* remaining()
Left(f) == IF used[f][period] < Limit[f] THEN Limit[f] - used[f][period] ELSE 0

\* reserve(): the condition of its upsert
Room(f, n) == used[f][period] + n <= Limit[f]

Counted(f, p, n) == [used EXCEPT ![f][p] = @ + n]

\* release(): GREATEST(0, used - amount)
GivenBack(f, p, n) == [used EXCEPT ![f][p] = IF @ < n THEN 0 ELSE @ - n]

\* The billing period ends
NewPeriod ==
    /\ period < MaxPeriod
    /\ period' = period + 1
    /\ UNCHANGED used
=============================================================================
