-------------------------- MODULE CreditAccounting --------------------------
(***************************************************************************)
(* The per-company credit budgets around every paid provider call          *)
(* (src/backend/src/ai/billing/credits.py).  One element of Calls is one   *)
(* use of provider_call(): it reserves the estimated cost, runs the block  *)
(* that calls the provider, and settles.  Around the calls run the upkeep  *)
(* pass that charges reservations whose process died, the operator's       *)
(* reconciliation of pending rows and the operator's manual adjustments.   *)
(*                                                                         *)
(* An account is one (company, budget kind) of one billing period.  Money  *)
(* is counted in units of the ledger's cost column, eight decimals: one    *)
(* credit is one unit of provider cost and the safety margin is a constant *)
(* number of credits, so that the credits and the cost of a row differ.    *)
(* The balance keeps six decimals of a cost, and rounds what is added.     *)
(*                                                                         *)
(* reserve() is one transaction of several statements, modelled statement  *)
(* by statement because it reads before it writes.  What settle(),         *)
(* expire_stale_reservations(), reconcile() and adjust_credits() read they *)
(* hold locked until they commit, so each is one step.                     *)
(***************************************************************************)
EXTENDS Integers, FiniteSets, FiniteSetsExt

CONSTANTS
    Calls,          \* uses of provider_call()
    Keys,           \* idempotency keys of the ledger, unique per company
    KeyOf,          \* [Calls -> Keys]; a retried request has the first one's key
    Accounts,       \* (company, budget kind) balances of the period
    AccountOf,      \* [Calls -> Accounts]
    AIAccounts,     \* the accounts of the budget kind 'ai'
    Controls,       \* provider_spend_controls rows with a monthly cap
    ControlsOf,     \* [Calls -> SUBSET Controls]: '*', the provider, the model
    Cap,            \* [Controls -> Nat]
    Limit,          \* the plan's credits for the period
    MaxConcurrency, \* policy max_ai_concurrency
    Estimate,       \* estimated cost of a call
    Margin,         \* safety margin, in credits
    Grain,          \* units of the ledger's cost column in the last digit of the balance's
    Costs,          \* what a provider may measure or finally bill
    Recovery,       \* calls of RECOVERY_OPERATIONS that may pass the limit
    BilledFailures, \* calls whose price rows say charged_on_failure
    FinalPrices,    \* calls whose price rows say cost_is_final
    References,     \* adjustment references an operator may use
    AdminDeltas,    \* credit deltas an operator may enter
    NoCall          \* a lock nobody holds

ASSUME CallsAssumption ==
    /\ IsFiniteSet(Calls)
    /\ KeyOf \in [Calls -> Keys]
    /\ AccountOf \in [Calls -> Accounts]
    /\ AIAccounts \subseteq Accounts
    /\ ControlsOf \in [Calls -> SUBSET Controls]
    /\ Recovery \subseteq Calls /\ BilledFailures \subseteq Calls /\ FinalPrices \subseteq Calls
    /\ NoCall \notin Calls
ASSUME AmountsAssumption ==
    /\ Cap \in [Controls -> Nat]
    /\ Limit \in Nat /\ MaxConcurrency \in Nat \ {0}
    /\ Estimate \in Nat \ {0} /\ Margin \in Nat /\ Grain \in Nat \ {0}
    /\ Costs \subseteq Nat /\ AdminDeltas \subseteq Int

VARIABLES
    pc,           \* where the code of each call is
    toLock,       \* the capped controls a reserving call has not yet checked
    accountLock,  \* pg_advisory_xact_lock('keel_credits', tenant, kind)
    capLock,      \* pg_advisory_xact_lock('keel_provider_cap', name)
    handle,       \* the ProviderCall of each call
    left,         \* has the request left this server (no column holds this)
    ledger,       \* usage_ledger: the row of each call
    balance,      \* tenant_credit_balances
    adjustments   \* usage_ledger_adjustments

vars == <<pc, toLock, accountLock, capLock, handle, left, ledger, balance, adjustments>>

Nothing == -1              \* a NULL amount, beside the costs, which are never negative
Amounts == Nat \cup {Nothing}
Statuses == {"none", "reserved", "consumed", "released", "failed_charged",
             "pending_reconciliation", "reconciled"}
NoRow == [status |-> "none", consumed |-> Nothing, actual |-> Nothing, stale |-> FALSE]
NewHandle == [reached |-> FALSE, units |-> Nothing, unreported |-> FALSE, failed |-> FALSE]

Reserving == {"locked", "caps", "counting", "charging"}
Running == {"reserved", "sending", "answered", "settling"}

TypeOK ==
    /\ pc \in [Calls -> {"start", "refused", "done", "dead"} \cup Reserving \cup Running]
    /\ toLock \in [Calls -> SUBSET Controls]
    /\ accountLock \in [Accounts -> Calls \cup {NoCall}]
    /\ capLock \in [Controls -> Calls \cup {NoCall}]
    /\ handle \in [Calls -> [reached : BOOLEAN, units : Amounts, unreported : BOOLEAN, failed : BOOLEAN]]
    /\ left \in [Calls -> BOOLEAN]
    /\ ledger \in [Calls -> [status : Statuses, consumed : Amounts, actual : Amounts, stale : BOOLEAN]]
    /\ balance \in [Accounts -> [reserved : Nat, consumed : Nat, cost : Nat]]
    /\ DOMAIN adjustments \subseteq References
    /\ \A r \in DOMAIN adjustments :
        adjustments[r] \in [account : Accounts, credits : Int, cost : Int]

Init ==
    /\ pc = [c \in Calls |-> "start"]
    /\ toLock = [c \in Calls |-> {}]
    /\ accountLock = [a \in Accounts |-> NoCall]
    /\ capLock = [n \in Controls |-> NoCall]
    /\ handle = [c \in Calls |-> NewHandle]
    /\ left = [c \in Calls |-> FALSE]
    /\ ledger = [c \in Calls |-> NoRow]
    /\ balance = [a \in Accounts |-> [reserved |-> 0, consumed |-> 0, cost |-> 0]]
    /\ adjustments = [r \in {} |-> 0]

-----------------------------------------------------------------------------
(* Amounts *)

\* reserve(): credits_needed, the estimate with the safety margin
Need == Estimate + Margin

Floor0(n) == IF n < 0 THEN 0 ELSE n

\* What adding n to consumed_cost_usd, NUMERIC(16,6), adds: the sum is rounded,
\* and the old value has no digits to round
Rounded(n) == ((2 * n + Grain) \div (2 * Grain)) * Grain

\* the row of c was inserted, in whatever status it is now
Inserted(c) == ledger[c].status # "none"

\* mutant: a released row frees its key
KeyTakenUnlessReleased(k) ==
    \E c \in Calls : KeyOf[c] = k /\ ledger[c].status \notin {"none", "released"}

\* The duplicate check, and the constraint UNIQUE (tenant_id, idempotency_key)
KeyTaken(k) == \E c \in Calls : KeyOf[c] = k /\ Inserted(c)

\* What the monthly caps count of a row: its measured cost, else its estimate
CountedCost(c) == IF ledger[c].actual # Nothing THEN ledger[c].actual ELSE Estimate

\* _provider_month_spend: every row of the control's scope that was not released
MonthSpend(n) ==
    SumFunctionOnSet([c \in Calls |-> CountedCost(c)],
                     {c \in Calls : n \in ControlsOf[c] /\ ledger[c].status \notin {"none", "released"}})

\* The reservations the concurrency limit counts: not yet older than the timeout
InFlight(a) ==
    {c \in Calls : AccountOf[c] = a /\ ledger[c].status = "reserved" /\ ~ledger[c].stale}

-----------------------------------------------------------------------------
(* reserve(): one transaction; its locks end with it *)

ReleaseLocks(c) ==
    /\ accountLock' = [a \in Accounts |-> IF accountLock[a] = c THEN NoCall ELSE accountLock[a]]
    /\ capLock' = [n \in Controls |-> IF capLock[n] = c THEN NoCall ELSE capLock[n]]
    /\ toLock' = [toLock EXCEPT ![c] = {}]

\* BudgetError, or any other failure of the transaction: rolled back, never sent
Refuse(c) ==
    /\ pc' = [pc EXCEPT ![c] = "refused"]
    /\ ReleaseLocks(c)
    /\ UNCHANGED <<handle, left, ledger, balance, adjustments>>

\* mutant: the per-company lock is not taken
LockAccountFree(c) ==
    /\ pc[c] = "start"
    /\ accountLock' = [accountLock EXCEPT ![AccountOf[c]] = c]
    /\ pc' = [pc EXCEPT ![c] = "locked"]
    /\ UNCHANGED <<toLock, capLock, handle, left, ledger, balance, adjustments>>

LockAccount(c) ==
    /\ pc[c] = "start"
    /\ accountLock[AccountOf[c]] = NoCall
    /\ accountLock' = [accountLock EXCEPT ![AccountOf[c]] = c]
    /\ pc' = [pc EXCEPT ![c] = "locked"]
    /\ UNCHANGED <<toLock, capLock, handle, left, ledger, balance, adjustments>>

\* The key, the plan's access and the kill switches are read; the refusals
\* that are not about the ledger (no access, switched off, no price) may
\* happen at will.
CheckKey(c) ==
    /\ pc[c] = "locked"
    /\ ~KeyTaken(KeyOf[c])
    /\ pc' = [pc EXCEPT ![c] = "caps"]
    /\ toLock' = [toLock EXCEPT ![c] = ControlsOf[c]]
    /\ UNCHANGED <<accountLock, capLock, handle, left, ledger, balance, adjustments>>

RefuseEarly(c) == pc[c] = "locked" /\ Refuse(c)

\* mutant: the cap is read without its lock
LockCapFree(c, n) ==
    /\ pc[c] = "caps" /\ n \in toLock[c]
    /\ MonthSpend(n) + Estimate <= Cap[n]
    /\ capLock' = [capLock EXCEPT ![n] = c]
    /\ toLock' = [toLock EXCEPT ![c] = @ \ {n}]
    /\ UNCHANGED <<pc, accountLock, handle, left, ledger, balance, adjustments>>

\* The rows of provider_spend_controls come in no stated order
LockCap(c, n) ==
    /\ pc[c] = "caps" /\ n \in toLock[c]
    /\ capLock[n] = NoCall
    /\ MonthSpend(n) + Estimate <= Cap[n]
    /\ capLock' = [capLock EXCEPT ![n] = c]
    /\ toLock' = [toLock EXCEPT ![c] = @ \ {n}]
    /\ UNCHANGED <<pc, accountLock, handle, left, ledger, balance, adjustments>>

RefuseCap(c, n) ==
    /\ pc[c] = "caps" /\ n \in toLock[c]
    /\ capLock[n] = NoCall
    /\ MonthSpend(n) + Estimate > Cap[n]
    /\ Refuse(c)

CapsChecked(c) ==
    /\ pc[c] = "caps" /\ toLock[c] = {}
    /\ pc' = [pc EXCEPT ![c] = IF AccountOf[c] \in AIAccounts THEN "counting" ELSE "charging"]
    /\ UNCHANGED <<toLock, accountLock, capLock, handle, left, ledger, balance, adjustments>>

\* Two transactions that wait for each other's cap locks: the database
\* aborts one of them.
Waits(c, d) == pc[c] = "caps" /\ c # d /\ \E n \in toLock[c] : capLock[n] = d
DeadlockAbort(c) ==
    /\ \A n \in toLock[c] : capLock[n] # NoCall
    /\ \E d \in Calls : Waits(c, d) /\ Waits(d, c)
    /\ Refuse(c)

CountInFlight(c) ==
    /\ pc[c] = "counting"
    /\ Cardinality(InFlight(AccountOf[c])) < MaxConcurrency
    /\ pc' = [pc EXCEPT ![c] = "charging"]
    /\ UNCHANGED <<toLock, accountLock, capLock, handle, left, ledger, balance, adjustments>>

RefuseConcurrency(c) ==
    /\ pc[c] = "counting"
    /\ Cardinality(InFlight(AccountOf[c])) >= MaxConcurrency
    /\ Refuse(c)

\* mutant: open reservations are not counted
FitsConsumedOnly(c) == c \in Recovery \/ balance[AccountOf[c]].consumed + Need <= Limit

Fits(c) ==
    \/ c \in Recovery
    \/ balance[AccountOf[c]].consumed + balance[AccountOf[c]].reserved + Need <= Limit

\* The conditional UPDATE of the balance, the INSERT of the row and the commit
Charge(c) ==
    /\ pc[c] = "charging"
    /\ Fits(c)
    /\ ~KeyTaken(KeyOf[c])
    /\ balance' = [balance EXCEPT ![AccountOf[c]].reserved = @ + Need]
    /\ ledger' = [ledger EXCEPT ![c] = [NoRow EXCEPT !.status = "reserved"]]
    /\ pc' = [pc EXCEPT ![c] = "reserved"]
    /\ ReleaseLocks(c)
    /\ UNCHANGED <<handle, left, adjustments>>

RefuseCharge(c) ==
    /\ pc[c] = "charging"
    /\ ~Fits(c) \/ KeyTaken(KeyOf[c])
    /\ Refuse(c)

-----------------------------------------------------------------------------
(* The block of provider_call() *)

\* metered_request() calls call.sent() first; the AI clients (_metered_post,
\* image generation) never do, so only an answer marks their call as reached.
Send(c) ==
    /\ pc[c] = "reserved"
    /\ pc' = [pc EXCEPT ![c] = "sending"]
    /\ left' = [left EXCEPT ![c] = TRUE]
    /\ handle' = [handle EXCEPT ![c].reached = AccountOf[c] \notin AIAccounts]
    /\ UNCHANGED <<toLock, accountLock, capLock, ledger, balance, adjustments>>

Answered(c, h) ==
    /\ pc[c] = "sending"
    /\ pc' = [pc EXCEPT ![c] = "answered"]
    /\ handle' = [handle EXCEPT ![c] = h]
    /\ UNCHANGED <<toLock, accountLock, capLock, left, ledger, balance, adjustments>>

\* call.measured(units)
Measured(c, cost) == Answered(c, [handle[c] EXCEPT !.reached = TRUE, !.units = cost])

\* call.billed_unreported(): a 200 without usage, which only _metered_post meets
BilledUnreported(c) ==
    AccountOf[c] \in AIAccounts /\ Answered(c, [handle[c] EXCEPT !.reached = TRUE, !.unreported = TRUE])

\* An error response an AI provider does not bill: the handle is left alone
ErrorResponse(c) == AccountOf[c] \in AIAccounts /\ Answered(c, handle[c])

\* The block ends, or raises at any point of it
Leave(c, failed) ==
    /\ pc[c] \in {"reserved", "sending", "answered"}
    /\ failed \/ pc[c] = "answered"
    /\ pc' = [pc EXCEPT ![c] = "settling"]
    /\ handle' = [handle EXCEPT ![c].failed = failed]
    /\ UNCHANGED <<toLock, accountLock, capLock, left, ledger, balance, adjustments>>

\* What provider_call() and settle() make of the handle: status, cost, credits
Outcome(c) ==
    LET h == handle[c]
        reached == h.reached /\ (h.failed \/ h.units # Nothing \/ h.unreported)
    IN  IF ~reached \/ (h.failed /\ c \notin BilledFailures)
        THEN [status |-> "released", cost |-> 0, consumed |-> 0, actual |-> 0]
        ELSE IF h.units = Nothing
        THEN [status |-> "pending_reconciliation", cost |-> Estimate, consumed |-> Need, actual |-> Nothing]
        ELSE IF c \in FinalPrices
        THEN [status |-> IF h.failed THEN "failed_charged" ELSE "consumed",
              cost |-> h.units, consumed |-> h.units, actual |-> h.units]
        ELSE [status |-> "pending_reconciliation",
              cost |-> h.units, consumed |-> h.units + Margin, actual |-> h.units]

\* mutant: only the difference to the reservation is booked
SettledDifference(b, consumed, cost) ==
    [reserved |-> Floor0(b.reserved - Need), consumed |-> b.consumed + consumed - Need, cost |-> b.cost + Rounded(cost)]

\* UPDATE tenant_credit_balances of settle() and expire_stale_reservations()
Settled(b, consumed, cost) ==
    [reserved |-> Floor0(b.reserved - Need), consumed |-> b.consumed + consumed, cost |-> b.cost + Rounded(cost)]

\* mutant: the status guard forgotten
UnsettledAnyStatus(c) == Inserted(c)

\* UPDATE usage_ledger ... WHERE status = 'reserved'
Unsettled(c) == ledger[c].status = "reserved"

\* settle(): charges the outcome, unless the row was settled meanwhile
Settle(c) ==
    /\ pc[c] = "settling"
    /\ accountLock[AccountOf[c]] = NoCall
    /\ IF Unsettled(c)
       THEN LET o == Outcome(c) IN
            /\ ledger' = [ledger EXCEPT ![c].status = o.status, ![c].consumed = o.consumed, ![c].actual = o.actual]
            /\ balance' = [balance EXCEPT ![AccountOf[c]] = Settled(@, o.consumed, o.cost)]
       ELSE UNCHANGED <<ledger, balance>>
    /\ pc' = [pc EXCEPT ![c] = "done"]
    /\ UNCHANGED <<toLock, accountLock, capLock, handle, left, adjustments>>

\* The process dies, or settle() cannot reach the database: the locks of an
\* open transaction go with its connection, the committed row stays.
Crash(c) ==
    /\ pc[c] \in Reserving \cup Running
    /\ pc' = [pc EXCEPT ![c] = "dead"]
    /\ ReleaseLocks(c)
    /\ UNCHANGED <<handle, left, ledger, balance, adjustments>>

-----------------------------------------------------------------------------
(* Upkeep and operators *)

\* created_at falls behind the policy's timeout, whatever the caller does
Age(c) ==
    /\ ledger[c].status = "reserved" /\ ~ledger[c].stale
    /\ ledger' = [ledger EXCEPT ![c].stale = TRUE]
    /\ UNCHANGED <<pc, toLock, accountLock, capLock, handle, left, balance, adjustments>>

\* mutant: only the data budget is looked at
ExpiredOfData(a) ==
    {c \in Calls : AccountOf[c] = a /\ a \notin AIAccounts
                    /\ ledger[c].status = "reserved" /\ ledger[c].stale}

\* The rows expire_stale_reservations() locks
Expired(a) ==
    {c \in Calls : AccountOf[c] = a /\ ledger[c].status = "reserved" /\ ledger[c].stale}

\* mutant: an expired reservation is given back
ExpiredReleased(r) == [r EXCEPT !.status = "released", !.consumed = Need]

\* what expiry makes of a row
ExpiredRow(r) == [r EXCEPT !.status = "pending_reconciliation", !.consumed = Need]

\* expire_stale_reservations(), run by billing/maintenance.py: one UPDATE of
\* the balance per row
Expire(a) ==
    /\ Expired(a) # {}
    /\ ledger' = [c \in Calls |-> IF c \in Expired(a) THEN ExpiredRow(ledger[c]) ELSE ledger[c]]
    /\ LET n == Cardinality(Expired(a)) IN
       balance' = [balance EXCEPT ![a] = [reserved |-> Floor0(@.reserved - n * Need),
                                          consumed |-> @.consumed + n * Need, cost |-> @.cost + n * Rounded(Estimate)]]
    /\ UNCHANGED <<pc, toLock, accountLock, capLock, handle, left, adjustments>>

\* INSERT INTO usage_ledger_adjustments, which a used reference refuses
AddAdjustment(ref, a, credits, cost) ==
    /\ ref \notin DOMAIN adjustments
    /\ adjustments' = [r \in DOMAIN adjustments \cup {ref} |->
                        IF r = ref THEN [account |-> a, credits |-> credits, cost |-> cost] ELSE adjustments[r]]

\* reconcile(): the provider's final cost of a pending row, once per reference
Reconcile(c, actual, ref) ==
    LET a == AccountOf[c]
        delta == actual - ledger[c].consumed
        costDelta == actual - CountedCost(c)
    IN  /\ ledger[c].status = "pending_reconciliation"
        /\ AddAdjustment(ref, a, delta, costDelta)
        /\ ledger' = [ledger EXCEPT ![c].status = "reconciled", ![c].actual = actual]
        /\ balance' = [balance EXCEPT ![a].consumed = Floor0(@ + delta), ![a].cost = Floor0(@ + Rounded(costDelta))]
        /\ UNCHANGED <<pc, toLock, accountLock, capLock, handle, left>>

\* adjust_credits(): an operator's credit (negative) or debit
AdjustCredits(a, delta, ref) ==
    /\ AddAdjustment(ref, a, delta, 0)
    /\ balance' = [balance EXCEPT ![a].consumed = Floor0(@ + delta)]
    /\ UNCHANGED <<pc, toLock, accountLock, capLock, handle, left, ledger>>

-----------------------------------------------------------------------------
Reserve(c) ==
    \/ LockAccount(c)
    \/ CheckKey(c)
    \/ RefuseEarly(c)
    \/ \E n \in Controls : LockCap(c, n)
    \/ \E n \in Controls : RefuseCap(c, n)
    \/ CapsChecked(c)
    \/ DeadlockAbort(c)
    \/ CountInFlight(c)
    \/ RefuseConcurrency(c)
    \/ Charge(c)
    \/ RefuseCharge(c)

CallProvider(c) ==
    \/ Send(c)
    \/ \E cost \in Costs : Measured(c, cost)
    \/ BilledUnreported(c)
    \/ ErrorResponse(c)
    \/ \E failed \in BOOLEAN : Leave(c, failed)

Operator ==
    \/ \E c \in Calls, actual \in Costs, ref \in References : Reconcile(c, actual, ref)
    \/ \E a \in Accounts, delta \in AdminDeltas, ref \in References : AdjustCredits(a, delta, ref)

Next ==
    \/ \E c \in Calls : Reserve(c)
    \/ \E c \in Calls : CallProvider(c)
    \/ \E c \in Calls : Settle(c)
    \/ \E c \in Calls : Crash(c)
    \/ \E c \in Calls : Age(c)
    \/ \E a \in Accounts : Expire(a)
    \/ Operator

Spec == Init /\ [][Next]_vars

\* Time passes, and the upkeep thread passes every few minutes; callers and
\* operators promise nothing.
FairSpec ==
    /\ Spec
    /\ \A c \in Calls : WF_vars(Age(c))
    /\ \A a \in Accounts : WF_vars(Expire(a))

-----------------------------------------------------------------------------
(* Properties *)

Rows(a) == {c \in Calls : AccountOf[c] = a /\ Inserted(c)}
Adjusted(a) == {r \in DOMAIN adjustments : adjustments[r].account = a}

ReservedOf(c) == IF ledger[c].status = "reserved" THEN Need ELSE 0
ConsumedOf(c) == IF ledger[c].consumed = Nothing THEN 0 ELSE ledger[c].consumed
LedgerConsumed(a) ==
    SumFunctionOnSet([c \in Calls |-> ConsumedOf(c)], Rows(a))
        + SumFunctionOnSet([r \in DOMAIN adjustments |-> adjustments[r].credits], Adjusted(a))
LedgerReserved(a) == SumFunctionOnSet([c \in Calls |-> ReservedOf(c)], Rows(a))

\* What a row finally cost, the estimate where the provider has not said
CostOf(c) == IF ledger[c].status \in {"none", "reserved", "released"} THEN 0 ELSE CountedCost(c)
LedgerCost(a) == SumFunctionOnSet([c \in Calls |-> CostOf(c)], Rows(a))

\* How often a row's cost was added to the balance: at its settlement or expiry,
\* and at its reconciliation.
Bookings(c) == CASE ledger[c].status \in {"none", "reserved", "released"} -> 0
                 [] ledger[c].status = "reconciled" -> 2
                 [] OTHER -> 1

\* What rounding may leave between the two, doubled: half of the balance's last
\* digit at each booking, and half of the ledger's, whose amounts the code adds
\* before they are rounded to the column.
Slack(a) == SumFunctionOnSet([c \in Calls |-> Bookings(c) * (Grain + 1)], Rows(a))

\* The balance row, which every admission reads, is what the ledger and its
\* adjustments add up to in reservations and credits, however calls, expiry,
\* late settlements and reconciliation interleave (credits.py keeps the two in
\* separate updates).  In provider cost it is that sum up to the rounding of
\* each booking: no row is booked twice, or not at all.
\* An operator credit may be cut at zero, so it is stated without credits.
BalanceIsLedger ==
    \A a \in Accounts :
        /\ balance[a].reserved = LedgerReserved(a)
        /\ balance[a].consumed = LedgerConsumed(a)
        /\ 2 * (balance[a].cost - LedgerCost(a)) \in -Slack(a) .. Slack(a)

\* No customer call is admitted past the plan's limit, counted over the ledger
\* itself and not over the balance row the UPDATE of reserve() looks at.
AdmittedWithinLimit ==
    [][\A c \in Calls \ Recovery :
        (ledger[c].status = "none" /\ ledger'[c].status = "reserved")
            => LedgerConsumed(AccountOf[c]) + LedgerReserved(AccountOf[c]) + Need <= Limit]_vars

\* The (tenant, idempotency key) pair reaches a provider at most once, also
\* when the first use of it was refused by the provider and released.
KeySentOnce ==
    \A c, d \in Calls : c # d /\ KeyOf[c] = KeyOf[d] => ~(left[c] /\ left[d])

\* Two companies cannot both spend the last of a provider's monthly cap.
\* Stated where no call costs more than its estimate and nothing is
\* reconciled upwards: only admission is limited, not what a call turns out
\* to cost.
WithinCaps == \A n \in Controls : MonthSpend(n) <= Cap[n]

\* A company never has more young AI reservations than max_ai_concurrency.
InFlightBound == \A a \in AIAccounts : Cardinality(InFlight(a)) <= MaxConcurrency

\* A data request that left the server is never given back when its provider
\* bills failures: neither a failing block nor a dead process makes it free.
SentIsCharged ==
    \A c \in BilledFailures :
        left[c] /\ AccountOf[c] \notin AIAccounts => ledger[c].status # "released"

\* Every reservation is settled in the end, whoever dies.
ReservationsEnd == \A c \in Calls : (ledger[c].status = "reserved") ~> (ledger[c].status # "reserved")

\* credits.py: "A call that reached the provider and failed is still charged
\* when that provider bills failures".  Not so for the AI clients.
ReachedFailureCharged ==
    \A c \in BilledFailures :
        left[c] /\ handle[c].failed => ledger[c].status # "released"
=============================================================================
