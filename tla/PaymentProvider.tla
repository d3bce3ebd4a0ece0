--------------------------- MODULE PaymentProvider ---------------------------
(***************************************************************************)
(* The payment provider as the billing code meets it through               *)
(* src/backend/src/ai/billing/stripe_gateway.py: Checkout sessions of one  *)
(* company, the subscription each completed session starts, its invoices,  *)
(* and the events the provider owes a delivery for.  Nothing here is code  *)
(* of the repository except what the gateway's calls rely on.              *)
(*                                                                         *)
(* A session, its subscription and the durable attempt it was created for  *)
(* have one name.  Every change of a subscription raises its version, so   *)
(* that an older answer can be told from a newer one.                      *)
(***************************************************************************)
EXTENDS Integers, FiniteSets

CONSTANTS
    Attempts,     \* attempts the company may make through this code
    Legacies,     \* sessions opened before attempts were recorded
    Renewing,     \* sessions whose subscription reaches its second invoice
    MaxVersion,   \* bound: [Sessions -> the changes of its subscription]
    MaxPending    \* bound: the provider changes nothing while more events wait

Sessions == Attempts \cup Legacies

ASSUME ProviderAssumption ==
    /\ Attempts \cap Legacies = {}
    /\ Renewing \subseteq Sessions
    /\ MaxVersion \in [Sessions -> Nat \ {0}]
    /\ MaxPending \in Nat

VARIABLES
    session,       \* [Sessions -> status of the Checkout session]
    subscription,  \* [Sessions -> the provider's subscription object]
    renewal,       \* [Sessions -> the second invoice]; the first is paid on completion
    pending        \* events the provider delivers until they are acknowledged

providerVars == <<session, subscription, renewal, pending>>

NoSubscription == [status |-> "none", version |-> 0]

\* CURRENT_STATUSES of config.py and the two that end a subscription
CurrentStatuses == {"active", "past_due"}
Event(kind, s, v) == [kind |-> kind, session |-> s, version |-> v]
Kinds == {"checkout_completed", "checkout_expired", "subscription_changed",
          "first_settled", "renewal_settled", "renewal_failed"}
Events == [kind : Kinds, session : Sessions, version : Nat]

Live(s) == subscription[s].status \in CurrentStatuses

ProviderTypeOK ==
    /\ session \in [Sessions -> {"none", "open", "complete", "expired"}]
    /\ subscription \in [Sessions -> [status : CurrentStatuses \cup {"none", "cancelled"}, version : Nat]]
    /\ renewal \in [Sessions -> {"none", "open", "paid"}]
    /\ pending \subseteq Events

\* A legacy session may be open when this code is deployed
ProviderInit ==
    /\ session \in {[s \in Sessions |-> IF s \in L THEN "open" ELSE "none"] : L \in SUBSET Legacies}
    /\ subscription = [s \in Sessions |-> NoSubscription]
    /\ renewal = [s \in Sessions |-> "none"]
    /\ pending = {}

\* The customer pays: the subscription starts and its first invoice is paid.
Complete(s) ==
    /\ session[s] = "open"
    /\ session' = [session EXCEPT ![s] = "complete"]
    /\ subscription' = [subscription EXCEPT ![s] = [status |-> "active", version |-> 1]]
    /\ pending' = pending \cup {Event("checkout_completed", s, 0), Event("subscription_changed", s, 1),
                                Event("first_settled", s, 0)}
    /\ UNCHANGED renewal

\* expire_checkout(), or the provider's own 24 hours
Expired(s) ==
    /\ session[s] = "open"
    /\ session' = [session EXCEPT ![s] = "expired"]
    /\ pending' = pending \cup {Event("checkout_expired", s, 0)}
    /\ UNCHANGED <<subscription, renewal>>

\* The handlers read nothing of a change event but the subscription it names:
\* an undelivered one is replaced by the newer one
Changes(s) == {e \in pending : e.kind = "subscription_changed" /\ e.session = s}

Changed(s, status, invoiceEvents) ==
    /\ subscription[s].version < MaxVersion[s]
    /\ LET v == subscription[s].version + 1 IN
        /\ subscription' = [subscription EXCEPT ![s] = [status |-> status, version |-> v]]
        /\ pending' = (pending \ Changes(s)) \cup {Event("subscription_changed", s, v)} \cup invoiceEvents
    /\ UNCHANGED session

RenewalFails(s) ==
    /\ s \in Renewing /\ subscription[s].status = "active" /\ renewal[s] = "none"
    /\ renewal' = [renewal EXCEPT ![s] = "open"]
    /\ Changed(s, "past_due", {Event("renewal_failed", s, 0)})

RenewalPaid(s) ==
    /\ subscription[s].status = "past_due" /\ renewal[s] = "open"
    /\ renewal' = [renewal EXCEPT ![s] = "paid"]
    /\ Changed(s, "active", {Event("renewal_settled", s, 0)})

Ends(s) ==
    /\ Live(s)
    /\ Changed(s, "cancelled", {})
    /\ UNCHANGED renewal

\* An invoice as get_invoice() shows it
InvoicePaid(s, kind) ==
    IF kind = "first_settled" THEN session[s] = "complete" ELSE renewal[s] = "paid"

ProviderStep ==
    /\ Cardinality(pending) <= MaxPending
    /\ \E s \in Sessions : Complete(s) \/ Expired(s) \/ RenewalFails(s) \/ RenewalPaid(s) \/ Ends(s)
=============================================================================
