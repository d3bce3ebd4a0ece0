--------------------------- MODULE CheckoutAttempts ---------------------------
(***************************************************************************)
(* Buying a plan: create_checkout() and cancel_pending_checkout() of       *)
(* src/backend/src/ai/billing/service.py over the durable attempts of      *)
(* checkout_attempts.py, with the promotion reserved for a discounted      *)
(* offer.  Every request of a company runs under tenant_lock(), a session  *)
(* lock that only the holder's end or crash frees, so one request runs at  *)
(* a time and one variable holds it.  Each action is one commit or one     *)
(* provider call of the request.                                           *)
(*                                                                         *)
(* A refusal of the code (an HTTP error) changes nothing and is the end of *)
(* the request, like a failed read or the death of the process: all of     *)
(* them are Stop, or the absence of a step.  "Old" is an attempt past the  *)
(* 23 hours; the provider forgets its idempotency key after 24, and no     *)
(* request takes the hour in between.                                      *)
(***************************************************************************)
EXTENDS BillingStore

CONSTANTS MaxAttempts   \* bound: attempts and older sessions together

ASSUME CheckoutAssumption == Attempts \subseteq Nat /\ IsFiniteSet(Attempts)

VARIABLES
    attempts,  \* billing_checkout_attempts
    old,       \* the attempts created more than 23 hours ago
    request,   \* the request that holds the tenant lock
    missed,    \* history: sessions paid for between the two lists of a request
    second     \* history: an attempt's key opened a second session

checkoutVars == <<attempts, old, request, missed, second>>

Offers == {"plain", "promoted"}
NoAttempt == [state |-> "none", offer |-> "plain", known |-> FALSE]
Idle == [pc |-> "idle", offer |-> "plain", attempt |-> NoSession]
Pcs == {"idle", "listed", "reserving", "adopting", "creating", "promised", "sending", "accepted",
        "attaching", "unknown", "rejected", "releasing", "cancelled"}

CheckoutTypeOK ==
    /\ attempts \in [Sessions -> [state : {"none", "preparing", "open", "expired"},
                                  offer : Offers \cup {"legacy"}, known : BOOLEAN]]
    /\ \A s \in Sessions : attempts[s].state = "open" => attempts[s].known
    /\ old \subseteq Attempts
    /\ request \in [pc : Pcs, offer : Offers, attempt : Sessions \cup {NoSession}]
    /\ missed \subseteq Sessions
    /\ second \subseteq Attempts

CheckoutInit ==
    /\ attempts = [s \in Sessions |-> NoAttempt]
    /\ old = {} /\ request = Idle /\ missed = {} /\ second = {}

-----------------------------------------------------------------------------
\* active()
Active(s) == attempts[s].state \in {"preparing", "open"}
Now(pc) == request.pc = pc
Goto(pc) == request' = [request EXCEPT !.pc = pc]
Mine == request.attempt
Promoted == request.offer = "promoted"

Attempt(s, state) == attempts' = [attempts EXCEPT ![s].state = state]

\* What a step of a request may leave alone
KeepProvider == UNCHANGED providerVars
KeepStore == UNCHANGED storeVars
KeepRecords == UNCHANGED <<recorded, assignment, payments>>
KeepHistory == UNCHANGED <<old, missed, second>>

\* create_checkout() without an attempt: no current subscription here, and
\* none that lives at the provider
ListSubscriptions(offer) ==
    /\ Now("idle") /\ ~HasCurrent
    /\ \A s \in Sessions : ~Active(s) /\ ~Live(s)
    /\ request' = [pc |-> "listed", offer |-> offer, attempt |-> NoSession]
    /\ UNCHANGED attempts /\ KeepHistory /\ KeepStore /\ KeepProvider

OpenCheckouts == {s \in Sessions : session[s] = "open"}

\* What neither list showed
Overlooked == {s \in Sessions : session[s] = "complete" /\ ~RecordedEnded(s)}

\* ... then, in a second call, no open Checkout
ListCheckouts ==
    /\ Now("listed") /\ OpenCheckouts = {}
    /\ Goto("reserving")
    /\ missed' = missed \cup Overlooked
    /\ UNCHANGED <<attempts, old, second>> /\ KeepStore /\ KeepProvider

\* An open one is adopted as an attempt of its own, in two commits
Adopt(s) ==
    /\ Now("listed") /\ OpenCheckouts = {s}
    /\ attempts' = [attempts EXCEPT ![s] = [state |-> "preparing", offer |-> "legacy", known |-> FALSE]]
    /\ request' = [request EXCEPT !.pc = "adopting", !.attempt = s]
    /\ missed' = missed \cup Overlooked
    /\ UNCHANGED <<old, second>> /\ KeepStore /\ KeepProvider

\* mutant: a paid Checkout is over
OverWhenPaid(s) == session[s] \in {"expired", "complete"}

\* The session of an attempt that no longer stands in the way
Over(s) == session[s] = "expired" \/ (session[s] = "complete" /\ RecordedEnded(s))

\* create_checkout() with an attempt whose session is known
Supersede(offer, s) ==
    /\ Now("idle") /\ ~HasCurrent
    /\ Active(s) /\ attempts[s].known /\ Over(s)
    /\ Attempt(s, "expired")
    /\ request' = [pc |-> "reserving", offer |-> offer, attempt |-> NoSession]
    /\ KeepHistory /\ KeepStore /\ KeepProvider

\* create_checkout() of the same selection, with an attempt whose session is not known
Retry(a) ==
    /\ Now("idle") /\ ~HasCurrent
    /\ Active(a) /\ ~attempts[a].known /\ a \notin old
    /\ request' = [pc |-> "creating", offer |-> attempts[a].offer, attempt |-> a]
    /\ UNCHANGED attempts /\ KeepHistory /\ KeepStore /\ KeepProvider

\* reserve(); one pending attempt per company by a unique index
ReserveAttempt(a) ==
    /\ Now("reserving") /\ attempts[a].state = "none"
    /\ Cardinality({s \in Sessions : session[s] # "none"} \cup {s \in Attempts : attempts[s].state # "none"}) < MaxAttempts
    /\ \A b \in Attempts : attempts[b].state = "none" => a <= b
    /\ \A s \in Sessions : ~Active(s)
    /\ attempts' = [attempts EXCEPT ![a] = [state |-> "preparing", offer |-> request.offer, known |-> FALSE]]
    /\ request' = [request EXCEPT !.pc = "creating", !.attempt = a]
    /\ KeepHistory /\ KeepStore /\ KeepProvider

-----------------------------------------------------------------------------
(* _create_checkout() *)

\* promotions.reserve(): the attempt's own redemption, or a new one while no
\* other is undecided.  (The redemption of another attempt is never reusable:
\* its session is closed, or its one request was made.)
ReservePromotion ==
    /\ Now("creating") /\ Promoted /\ ~HasCurrent
    /\ \/ redemption[Mine].state = "pending"
       \/ /\ redemption[Mine].state = "none" /\ HasSlot
          /\ \A a \in Attempts : redemption[a].state \notin {"pending", "reconciliation_required"}
    /\ redemption' = [redemption EXCEPT ![Mine].state = "pending"]
    /\ Goto("promised")
    /\ UNCHANGED attempts /\ KeepHistory /\ KeepRecords /\ KeepProvider

\* begin_checkout_request(): the one provider attempt a redemption has
BeginRequest ==
    /\ Now("promised")
    /\ redemption[Mine].state = "pending"
    /\ redemption[Mine].bound \/ ~redemption[Mine].started
    /\ redemption' = [redemption EXCEPT ![Mine].started = TRUE]
    /\ Goto("sending")
    /\ UNCHANGED attempts /\ KeepHistory /\ KeepRecords /\ KeepProvider

Prepare ==
    /\ Now("creating") /\ ~Promoted /\ ~HasCurrent
    /\ Goto("sending")
    /\ UNCHANGED attempts /\ KeepHistory /\ KeepStore /\ KeepProvider

\* submit_checkout() with the frozen parameters and the key of the attempt:
\* the provider answers a known key with the session it opened for it.
Submitted(answer) ==
    /\ Now("sending")
    /\ session' = [session EXCEPT ![Mine] = IF @ = "none" THEN "open" ELSE @]
    /\ second' = IF session[Mine] # "none" /\ Mine \in old THEN second \cup {Mine} ELSE second
    /\ Goto(answer)
    /\ UNCHANGED <<subscription, renewal, pending, attempts, old, missed>> /\ KeepStore

\* ... and the answer arrives, or is lost
Accepted == Submitted("accepted")
AnswerLost == Submitted("unknown")

NotSent ==
    /\ Now("sending")
    /\ Goto("unknown")
    /\ UNCHANGED attempts /\ KeepHistory /\ KeepStore /\ KeepProvider

\* A 400: the request was not executed
Rejected ==
    /\ Now("sending") /\ session[Mine] = "none"
    /\ Goto("rejected")
    /\ UNCHANGED attempts /\ KeepHistory /\ KeepStore /\ KeepProvider

\* mutant: the session is not written on the attempt
OpenedUnknown ==
    /\ Now("accepted") \/ Now("adopting")
    /\ attempts' = [attempts EXCEPT ![Mine].state = "open"]
    /\ request' = IF Now("accepted") /\ Promoted THEN [request EXCEPT !.pc = "attaching"] ELSE Idle
    /\ KeepHistory /\ KeepStore /\ KeepProvider

\* opened(), for a new and for an adopted attempt
Opened ==
    /\ Now("accepted") \/ Now("adopting")
    /\ attempts' = [attempts EXCEPT ![Mine].state = "open", ![Mine].known = TRUE]
    /\ request' = IF Now("accepted") /\ Promoted THEN [request EXCEPT !.pc = "attaching"] ELSE Idle
    /\ KeepHistory /\ KeepStore /\ KeepProvider

OpenFails ==
    /\ Now("accepted")
    /\ Goto("unknown")
    /\ UNCHANGED attempts /\ KeepHistory /\ KeepStore /\ KeepProvider

\* attach_checkout(), or provider_outcome_unknown() when it cannot: the redemption
\* may have changed, or the database fails
Attach ==
    /\ Now("attaching")
    /\ \/ /\ MayAttach(redemption[Mine])
          /\ redemption' = [redemption EXCEPT ![Mine].bound = TRUE]
       \/ redemption' = [redemption EXCEPT ![Mine] = SetState(@, "reconciliation_required")]
    /\ request' = Idle
    /\ UNCHANGED attempts /\ KeepHistory /\ KeepRecords /\ KeepProvider

\* provider_outcome_unknown()
MarkUnknown ==
    /\ Now("unknown") /\ Promoted
    /\ redemption' = [redemption EXCEPT ![Mine] = SetState(@, "reconciliation_required")]
    /\ request' = Idle
    /\ UNCHANGED attempts /\ KeepHistory /\ KeepRecords /\ KeepProvider

\* provider_request_rejected(), whose own failure is passed over
RejectRedemption ==
    /\ Now("rejected")
    /\ \/ Promoted /\ redemption' = [redemption EXCEPT ![Mine] = SetState(@, "rejected")]
       \/ UNCHANGED redemption
    /\ Goto("releasing")
    /\ UNCHANGED attempts /\ KeepHistory /\ KeepRecords /\ KeepProvider

\* expire() after a rejection or a cancellation
Release ==
    /\ Now("releasing") \/ Now("cancelled")
    /\ Attempt(Mine, "expired")
    /\ request' = Idle
    /\ KeepHistory /\ KeepStore /\ KeepProvider

\* cancel_pending_checkout() up to the provider's answer
Cancel(s) ==
    /\ Now("idle") /\ Active(s) /\ attempts[s].known
    /\ request' = [pc |-> "cancelled", offer |-> "plain", attempt |-> s]
    /\ \/ Expired(s)
       \/ session[s] = "expired" /\ KeepProvider
    /\ UNCHANGED attempts /\ KeepHistory /\ KeepStore

Stop ==
    /\ ~Now("idle")
    /\ request' = Idle
    /\ UNCHANGED attempts /\ KeepHistory /\ KeepStore /\ KeepProvider

Age(a) ==
    /\ Now("idle") /\ attempts[a].state = "preparing"
    /\ old' = old \cup {a}
    /\ UNCHANGED <<attempts, request, missed, second>> /\ KeepStore /\ KeepProvider

CreateCheckout ==
    \/ \E o \in Offers : ListSubscriptions(o) \/ \E s \in Sessions : Supersede(o, s)
    \/ ListCheckouts \/ \E s \in Sessions : Adopt(s)
    \/ \E a \in Attempts : Retry(a) \/ ReserveAttempt(a)
    \/ ReservePromotion \/ BeginRequest \/ Prepare
    \/ Accepted \/ AnswerLost \/ NotSent \/ Rejected
    \/ Opened \/ OpenFails \/ Attach \/ MarkUnknown \/ RejectRedemption \/ Release

CheckoutStep ==
    \/ CreateCheckout
    \/ \E s \in Sessions : Cancel(s)
    \/ Stop
    \/ \E a \in Attempts : Age(a)
=============================================================================
