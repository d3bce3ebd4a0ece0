----------------------------- MODULE BillingStore -----------------------------
(***************************************************************************)
(* The billing tables of one company and the functions that change them:   *)
(* store.apply_subscription() and record_payment() for subscriptions, plan *)
(* and payments (src/backend/src/ai/billing/store.py), and the states of a *)
(* promotion redemption (src/backend/src/ai/billing/promotions.py).  The   *)
(* operators below are what one statement or function makes of a row; who  *)
(* runs them, and when, is in CheckoutAttempts and PaymentEvents.          *)
(***************************************************************************)
EXTENDS PaymentProvider

CONSTANTS
    MaxUses,    \* the cap of the promotion
    NoSession   \* NULL

ASSUME StoreAssumption == MaxUses \in Nat /\ NoSession \notin Sessions

VARIABLES
    recorded,    \* billing_subscriptions
    assignment,  \* tenant_plan_assignments: whose plan is in force
    payments,    \* billing_payments
    redemption   \* billing_promotion_redemptions, by the attempt that reserved it

storeVars == <<recorded, assignment, payments, redemption>>

Invoices == {"first", "renewal"}
InvoiceOf(kind) == IF kind = "first_settled" THEN "first" ELSE "renewal"
RedemptionStates == {"none", "pending", "settled", "rejected", "reconciliation_required"}
NoRedemption == [state |-> "none", started |-> FALSE, bound |-> FALSE]
NoPlan == [session |-> NoSession, status |-> "none"]
GivenPlan == [session |-> NoSession, status |-> "active"]  \* a source other than 'stripe'

StoreTypeOK ==
    /\ recorded \in [Sessions -> [status : CurrentStatuses \cup {"none", "cancelled"}, version : Nat]]
    /\ assignment \in [session : Sessions \cup {NoSession}, status : CurrentStatuses \cup {"none", "cancelled"}]
    /\ payments \in [Sessions -> [Invoices -> {"none", "failed", "succeeded"}]]
    /\ redemption \in [Attempts -> [state : RedemptionStates, started : BOOLEAN, bound : BOOLEAN]]

StoreInit ==
    /\ recorded = [s \in Sessions |-> NoSubscription]
    /\ assignment \in {NoPlan, GivenPlan}
    /\ payments = [s \in Sessions |-> [i \in Invoices |-> "none"]]
    /\ redemption = [a \in Attempts |-> NoRedemption]

-----------------------------------------------------------------------------
(* Subscriptions and payments *)

Recorded(s) == recorded[s].status \in CurrentStatuses

\* current_subscription()
HasCurrent == \E s \in Sessions : Recorded(s)

\* checkout_subscription_ended()
RecordedEnded(s) == recorded[s].status = "cancelled"

\* apply_subscription(): does another subscription hold the plan
Others(s) == \E t \in Sessions \ {s} : Recorded(t)

\* The plan follows a subscription unless another one holds it; an ended one is
\* inserted where there is no plan, and replaces only one that came from the provider.
Assigned(s, status, others) ==
    IF others \/ (status \notin CurrentStatuses /\ assignment = GivenPlan)
    THEN assignment
    ELSE [session |-> s, status |-> status]

\* record_payment(): a success is never downgraded
Paid(s, invoice, paid) ==
    [payments EXCEPT ![s][invoice] = IF paid \/ @ = "succeeded" THEN "succeeded" ELSE "failed"]

-----------------------------------------------------------------------------
(* Promotion redemptions *)

\* mutant: a settled redemption no longer counts
SlotsUndecided == {a \in Attempts : redemption[a].state \in {"pending", "reconciliation_required"}}

\* reserve(): an uncertain reservation keeps its slot
Slots == {a \in Attempts : redemption[a].state \in {"pending", "settled", "reconciliation_required"}}

HasSlot == Cardinality(Slots) < MaxUses

\* _set_state(): settled and rejected are final
SetState(r, state) == IF r.state \in {"settled", "rejected"} THEN r ELSE [r EXCEPT !.state = state]

\* attach_checkout(): may the session be written on the redemption
MayAttach(r) == r.state = "pending" \/ (r.state = "settled" /\ r.bound)

\* checkout_expired(): the session is bound; only a pending redemption is let go
AfterExpiry(r) ==
    [r EXCEPT !.bound = r.state # "none", !.state = IF r.state = "pending" THEN "rejected" ELSE r.state]

\* mutant: a redemption that was uncertain is not settled
AfterPaymentPending(r, recordedPaid) ==
    IF r.state # "pending" THEN r ELSE SetState(r, IF recordedPaid THEN "settled" ELSE "reconciliation_required")

\* invoice_event() of a paid first invoice: settled once the payment row is there
AfterPayment(r, recordedPaid) ==
    IF r.state = "none" THEN r ELSE SetState(r, IF recordedPaid THEN "settled" ELSE "reconciliation_required")

\* checkout_completed(): binds the session, then tries the first invoice, paid by now
AfterCompletion(r, recordedPaid) ==
    IF r.state \in {"none", "rejected"} THEN r ELSE AfterPayment([r EXCEPT !.bound = TRUE], recordedPaid)
=============================================================================
