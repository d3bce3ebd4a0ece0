--------------------------- MODULE UsageAllowances ---------------------------
(***************************************************************************)
(* The metered allowances of a company with the two users of them whose    *)
(* units outlive a request: the report requests with their keys, and the   *)
(* sentiment batches with their labels.  Each has a counter of its own;    *)
(* they share the billing period and what usage.py does to a counter.      *)
(***************************************************************************)
EXTENDS ReportRequests, SentimentBatches

vars == <<usageVars, requestVars, sentimentVars>>

TypeOK == UsageTypeOK /\ RequestsTypeOK /\ SentimentTypeOK

Init == UsageInit /\ RequestsInit /\ SentimentInit

Next ==
    \/ RequestStep /\ UNCHANGED sentimentVars
    \/ SentimentStep /\ UNCHANGED requestVars
    \/ NewPeriod /\ UNCHANGED <<requestVars, sentimentVars>>

Spec == Init /\ [][Next]_vars

-----------------------------------------------------------------------------
(* Properties *)

\* A counter holds a unit for each thing it was moved for, in the period it
\* was moved in, through retries, failures given back and concurrent batches.
CountersAgree == ReportsCounted /\ RecordsCounted

\* Whatever a customer got is counted, and counted once.
PaidOnce == DeliveredIsCounted /\ LabelPaidOnce
=============================================================================
