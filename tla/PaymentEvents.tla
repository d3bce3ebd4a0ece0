---------------------------- MODULE PaymentEvents ----------------------------
(***************************************************************************)
(* The webhook handlers of src/backend/src/ai/billing/webhooks.py beside   *)
(* the company's own requests (CheckoutAttempts) and the provider          *)
(* (PaymentProvider).  Each handler delivers one event at a time:          *)
(* handle_event() takes the event's lock and claims it, sync_subscription()*)
(* takes the subscription's lock and reads the provider's subscription     *)
(* again, apply_subscription() takes the company's lock and writes, and    *)
(* one commit makes all of it visible and marks the event processed.  A    *)
(* failure at any point rolls back; the provider delivers the event again. *)
(*                                                                         *)
(* An event is pending until it is processed.  The deliveries of an event  *)
(* that was processed change nothing and are left out.  Custom quotes,     *)
(* schedules, trials and the customer's identity are left out too.         *)
(***************************************************************************)
EXTENDS CheckoutAttempts

CONSTANTS Handlers   \* deliveries in progress at once

VARIABLES handler    \* what each delivery holds and has read

vars == <<providerVars, storeVars, checkoutVars, handler>>

NoEvent == Event("none", NoSession, 0)
Free == [pc |-> "free", event |-> NoEvent, snapshot |-> NoSubscription, paid |-> FALSE, others |-> FALSE]

TypeOK ==
    /\ ProviderTypeOK /\ StoreTypeOK /\ CheckoutTypeOK
    /\ handler \in [Handlers ->
        [pc : {"free", "claimed", "invoiced", "synced", "writing"}, event : Events \cup {NoEvent},
         snapshot : [status : CurrentStatuses \cup {"none", "cancelled"}, version : Nat],
         paid : BOOLEAN, others : BOOLEAN]]

Init ==
    /\ ProviderInit /\ StoreInit /\ CheckoutInit
    /\ handler = [h \in Handlers |-> Free]

-----------------------------------------------------------------------------
InvoiceKinds == {"first_settled", "renewal_settled", "renewal_failed"}
About(h) == handler[h].event.session
Kind(h) == handler[h].event.kind
At(h, pc) == handler[h].pc = pc
Advance(h, hd) == handler' = [handler EXCEPT ![h] = hd]
Elsewhere == UNCHANGED <<providerVars, storeVars, checkoutVars>>

\* _lock_event() and claim_event(): the event is not processed, and no other
\* delivery of it is under way
Deliver(h, e) ==
    /\ At(h, "free") /\ e \in pending
    /\ \A g \in Handlers : handler[g].event # e
    /\ Advance(h, [Free EXCEPT !.pc = "claimed", !.event = e])
    /\ Elsewhere

\* get_invoice() under the invoice's lock
ReadInvoice(h) ==
    /\ At(h, "claimed") /\ Kind(h) \in InvoiceKinds
    /\ \A g \in Handlers \ {h} :
        ~(handler[g].pc \in {"invoiced", "synced", "writing"} /\ Kind(g) \in InvoiceKinds
            /\ About(g) = About(h) /\ InvoiceOf(Kind(g)) = InvoiceOf(Kind(h)))
    /\ Advance(h, [handler[h] EXCEPT !.pc = "invoiced", !.paid = InvoicePaid(About(h), Kind(h))])
    /\ Elsewhere

ReadyToSync(h) ==
    \/ At(h, "invoiced")
    \/ At(h, "claimed") /\ Kind(h) \in {"checkout_completed", "subscription_changed"}

\* mutant: the subscription is not locked
SyncUnlocked(h) ==
    /\ ReadyToSync(h)
    /\ Advance(h, [handler[h] EXCEPT !.pc = "synced", !.snapshot = subscription[About(h)]])
    /\ Elsewhere

\* sync_subscription(): the subscription as the provider has it now, read
\* under the subscription's lock
Sync(h) ==
    /\ ReadyToSync(h)
    /\ \A g \in Handlers \ {h} : handler[g].pc \in {"synced", "writing"} => About(g) # About(h)
    /\ Advance(h, [handler[h] EXCEPT !.pc = "synced", !.snapshot = subscription[About(h)]])
    /\ Elsewhere

\* mutant: the company is not locked
WriteUnlocked(h) ==
    /\ At(h, "synced")
    /\ Advance(h, [handler[h] EXCEPT !.pc = "writing", !.others = Others(About(h))])
    /\ Elsewhere

\* apply_subscription() under the company's lock, up to the check for another
\* subscription; the rows it wrote are not visible yet
Write(h) ==
    /\ At(h, "synced")
    /\ \A g \in Handlers : ~At(g, "writing")
    /\ Advance(h, [handler[h] EXCEPT !.pc = "writing", !.others = Others(About(h))])
    /\ Elsewhere

Redeem(s, r) == redemption' = IF s \in Attempts THEN [redemption EXCEPT ![s] = r] ELSE redemption

\* What the handler of each kind does after the subscription was applied
Reconcile(h) ==
    LET s == About(h)
        r == IF s \in Attempts THEN redemption[s] ELSE NoRedemption
        invoice == InvoiceOf(Kind(h))
    IN  CASE Kind(h) = "subscription_changed" -> UNCHANGED <<payments, redemption>>
          [] Kind(h) = "checkout_completed" ->
                /\ Redeem(s, AfterCompletion(r, payments[s]["first"] = "succeeded"))
                /\ UNCHANGED payments
          [] Kind(h) \in InvoiceKinds ->
                /\ handler[h].paid \/ Kind(h) = "renewal_failed"
                /\ payments' = Paid(s, invoice, handler[h].paid)
                /\ IF invoice = "first" THEN Redeem(s, AfterPayment(r, TRUE)) ELSE UNCHANGED redemption

\* The rows, the payment, the redemption and processed_at in one commit
Commit(h) ==
    /\ At(h, "writing")
    /\ recorded' = [recorded EXCEPT ![About(h)] = handler[h].snapshot]
    /\ assignment' = Assigned(About(h), handler[h].snapshot.status, handler[h].others)
    /\ Reconcile(h)
    /\ pending' = pending \ {handler[h].event}
    /\ Advance(h, Free)
    /\ UNCHANGED <<session, subscription, renewal, checkoutVars>>

\* CHECKOUT_EXPIRED touches no subscription
CommitExpired(h) ==
    /\ At(h, "claimed") /\ Kind(h) = "checkout_expired"
    /\ Redeem(About(h), AfterExpiry(IF About(h) \in Attempts THEN redemption[About(h)] ELSE NoRedemption))
    /\ pending' = pending \ {handler[h].event}
    /\ Advance(h, Free)
    /\ UNCHANGED <<session, subscription, renewal, recorded, assignment, payments, checkoutVars>>

\* An error or the end of the process: rolled back, delivered again
Fail(h) ==
    /\ ~At(h, "free")
    /\ Advance(h, Free)
    /\ Elsewhere

Handle(h) ==
    \/ \E e \in pending : Deliver(h, e)
    \/ ReadInvoice(h) \/ Sync(h) \/ Write(h) \/ Commit(h) \/ CommitExpired(h) \/ Fail(h)

Next ==
    \/ ProviderStep /\ UNCHANGED <<storeVars, checkoutVars, handler>>
    \/ CheckoutStep /\ UNCHANGED handler
    \/ \E h \in Handlers : Handle(h)

Spec == Init /\ [][Next]_vars

-----------------------------------------------------------------------------
(* Properties *)

\* A company buys once: over crashes, lost answers, cancellations and retries
\* there is never a second session that can still be paid, or was paid for a
\* subscription that lives (create_checkout() and cancel_pending_checkout()).
\* "missed" is the one hole: a session from before the attempts is paid
\* between the two lists of _check_legacy_provider_contracts().  Two sessions
\* from before are none of its doing.
Standing(s) == session[s] = "open" \/ Live(s)

OnePurchase ==
    /\ \A s, t \in Sessions \ missed :
        Standing(s) /\ Standing(t) => s = t \/ {s, t} \subseteq Legacies
    /\ second = {}

\* The promotion is given at most MaxUses times, counted over what customers
\* paid at the provider: an uncertain request never gives its slot back
\* (promotions.reserve()).
DiscountsWithinCap ==
    Cardinality({a \in Attempts : attempts[a].offer = "promoted" /\ session[a] = "complete"}) <= MaxUses

\* A late, repeated or concurrent event never rolls a subscription back to an
\* older state of the provider (apply_subscription()'s docstring).
RecordNeverOlder ==
    [][\A s \in Sessions : recorded'[s].version >= recorded[s].version]_vars

\* The plan in force is that of the subscription the records say is current,
\* whatever order the events of an ended and of a new subscription come in
\* (apply_subscription(): "Different subscription objects share one
\* commercial assignment").  Not so where two subscriptions are: beside a
\* session that was missed, or of two sessions from before.
OneOlder == \A k, l \in Legacies : session[k] # "none" /\ session[l] # "none" => k = l

AssignmentFollows ==
    missed = {} /\ OneOlder => \A s \in Sessions :
        Recorded(s) => assignment = [session |-> s, status |-> recorded[s].status]

\* When every event was processed, nothing was lost on the way: records,
\* payments and redemptions say what the provider says.
Reconciled ==
    pending = {} =>
        \A s \in Sessions :
            /\ recorded[s] = subscription[s]
            /\ session[s] = "complete" => payments[s]["first"] = "succeeded"
            /\ renewal[s] = "paid" => payments[s]["renewal"] = "succeeded"
            /\ s \in Attempts /\ attempts[s].offer = "promoted" /\ session[s] = "complete"
                => redemption[s].state = "settled"
=============================================================================
