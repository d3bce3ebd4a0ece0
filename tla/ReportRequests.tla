---------------------------- MODULE ReportRequests ----------------------------
(***************************************************************************)
(* Counted requests: usage.reserve_request() and release_request() as the  *)
(* report exports of src/backend/src/ai/routers/reports.py call them.      *)
(*                                                                         *)
(* A request names its report by an idempotency key.  reserve_request()    *)
(* locks the company's feature, looks the key up and either counts the     *)
(* request and inserts the key, or marks the key replayed and lets the     *)
(* request through uncounted.  A counted request whose work failed deletes *)
(* its key and takes its unit back, under the same lock, unless the key    *)
(* was replayed meanwhile.  A retry of the client is a request of its own. *)
(***************************************************************************)
EXTENDS UsageCounters

CONSTANTS
    Requests,    \* report requests, the retries among them
    Keys,        \* idempotency keys
    KeyOf,       \* [Requests -> Keys]
    ReportOf,    \* what each request asks for, and who asks (the fingerprint and the actor)
    NoRequest    \* no request

ASSUME RequestsAssumption ==
    /\ KeyOf \in [Requests -> Keys] /\ NoRequest \notin Requests
    /\ IsFiniteSet(Keys)

VARIABLES
    keys,      \* metered_request_keys, per period
    request    \* how far each request has come, its receipt

requestVars == <<keys, request>>

NoKey == [by |-> NoRequest, replayed |-> FALSE]
NewRequest == [at |-> "new", period |-> 0, found |-> NoRequest, counted |-> FALSE]

RequestsTypeOK ==
    /\ keys \in [Periods -> [Keys -> [by : Requests \cup {NoRequest}, replayed : BOOLEAN]]]
    /\ request \in [Requests ->
        [at : {"new", "locked", "working", "delivered", "broken", "ended"}, period : Periods,
         found : Requests \cup {NoRequest}, counted : BOOLEAN]]

RequestsInit ==
    /\ keys = [p \in Periods |-> [k \in Keys |-> NoKey]]
    /\ request = [r \in Requests |-> NewRequest]

-----------------------------------------------------------------------------
At(r, step) == request[r].at = step
Unlocked == \A q \in Requests : ~At(q, "locked")
Goes(r, step) == request' = [request EXCEPT ![r].at = step, ![r].found = NoRequest]
Ends(r) == request' = [request EXCEPT ![r] = [NewRequest EXCEPT !.at = "ended"]]
Row(r) == keys[request[r].period][KeyOf[r]]

\* The locks of reserve_request(), the plan, and the key's row
Begin(r) ==
    /\ At(r, "new") /\ Unlocked
    /\ request' = [request EXCEPT ![r] = [at |-> "locked", period |-> period,
                        found |-> keys[period][KeyOf[r]].by, counted |-> FALSE]]
    /\ UNCHANGED <<usageVars, keys>>

\* Not a member, no active plan, nothing left, another's key, another report,
\* or an error: rolled back
Refuse(r) ==
    /\ At(r, "locked")
    /\ Ends(r)
    /\ UNCHANGED <<usageVars, keys>>

\* The same person asks for the same report again
Replay(r) ==
    LET f == request[r].found IN
    /\ At(r, "locked") /\ f # NoRequest /\ ReportOf[f] = ReportOf[r]
    /\ keys' = IF Row(r).by = NoRequest THEN keys
               ELSE [keys EXCEPT ![request[r].period][KeyOf[r]].replayed = TRUE]
    /\ Goes(r, "working")
    /\ UNCHANGED usageVars

\* reserve() reads the plan again; the key is inserted under its period
Count(r) ==
    /\ At(r, "locked") /\ request[r].found = NoRequest
    /\ Room("monthly_reports", 1) /\ keys[period][KeyOf[r]].by = NoRequest
    /\ used' = Counted("monthly_reports", period, 1)
    /\ keys' = [keys EXCEPT ![period][KeyOf[r]] = [by |-> r, replayed |-> FALSE]]
    /\ request' = [request EXCEPT ![r] = [@ EXCEPT !.at = "working", !.period = period, !.counted = TRUE]]
    /\ UNCHANGED period

-----------------------------------------------------------------------------
\* export_sales_report(), price_comparison_report(): the report is made and sent
Deliver(r) ==
    /\ At(r, "working")
    /\ Goes(r, "delivered")
    /\ UNCHANGED <<usageVars, keys>>

\* An exception, while the rows are streamed too; an uncounted request has
\* nothing to give back
Break(r) ==
    /\ At(r, "working")
    /\ IF request[r].counted THEN Goes(r, "broken") ELSE Ends(r)
    /\ UNCHANGED <<usageVars, keys>>

\* The process ends, the client leaves in mid-stream (no Exception), or
\* release_request() itself fails: the unit stays counted
Vanish(r) ==
    /\ request[r].at \in {"working", "broken"}
    /\ Ends(r)
    /\ UNCHANGED <<usageVars, keys>>

\* The DELETE of release_request(), and release() if it found the row
FreesKey(r) ==
    /\ keys' = [keys EXCEPT ![request[r].period][KeyOf[r]] = NoKey]
    /\ used' = GivenBack("monthly_reports", request[r].period, 1)

\* mutant: the lock is not taken
ReleaseUnlocked(r) ==
    /\ At(r, "broken")
    /\ IF Row(r) = [by |-> r, replayed |-> FALSE] THEN FreesKey(r) ELSE UNCHANGED <<keys, used>>
    /\ Ends(r)
    /\ UNCHANGED period

Release(r) ==
    /\ At(r, "broken") /\ Unlocked
    /\ IF Row(r) = [by |-> r, replayed |-> FALSE] THEN FreesKey(r) ELSE UNCHANGED <<keys, used>>
    /\ Ends(r)
    /\ UNCHANGED period

RequestStep ==
    \E r \in Requests :
        \/ Begin(r) \/ Refuse(r) \/ Replay(r) \/ Count(r)
        \/ Deliver(r) \/ Break(r) \/ Vanish(r) \/ Release(r)

-----------------------------------------------------------------------------
CountedKeys(p) == {k \in Keys : keys[p][k].by # NoRequest}

\* Each unit of the counter belongs to one key: no retry of a key is counted
\* twice and no failure gives back what another request still uses.
ReportsCounted == \A p \in Periods : used["monthly_reports"][p] = Cardinality(CountedKeys(p))

\* A report that was delivered is counted, also one that was let through
\* uncounted while the request that had paid for it failed.
DeliveredIsCounted ==
    \A r \in Requests : At(r, "working") \/ At(r, "delivered") => KeyOf[r] \in CountedKeys(request[r].period)
=============================================================================
