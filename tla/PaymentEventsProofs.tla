-------------------------- MODULE PaymentEventsProofs --------------------------
(***************************************************************************)
(* Theorems of PaymentEvents for every set of attempts, of older sessions  *)
(* and of deliveries in progress, and for every bound.                     *)
(*                                                                         *)
(* First what the records, the purchases and the discounts keep.  Then     *)
(* what the tables still owe the provider: for each fact that they do not  *)
(* state, an event waits that will make them state it.  Last the plan in   *)
(* force: the company's lock makes the check for another current           *)
(* subscription good until it is written.                                  *)
(***************************************************************************)
EXTENDS PaymentEvents, FiniteSetTheorems, TLAPS

Statuses == CurrentStatuses \cup {"none", "cancelled"}
SubscriptionRow == [status : Statuses, version : Nat]
AttemptRow ==
    [state : {"none", "preparing", "open", "expired"}, offer : Offers \cup {"legacy"}, known : BOOLEAN]
RedemptionRow == [state : RedemptionStates, started : BOOLEAN, bound : BOOLEAN]
RequestRow == [pc : Pcs, offer : Offers, attempt : Sessions \cup {NoSession}]
HandlerRow ==
    [pc : {"free", "claimed", "invoiced", "synced", "writing"}, event : Events \cup {NoEvent},
     snapshot : SubscriptionRow, paid : BOOLEAN, others : BOOLEAN]

\* A delivery under way is the delivery of an event; that of an expired
\* Checkout reads no subscription.
Delivers ==
    \A h \in Handlers : ~At(h, "free") =>
        handler[h].event \in Events /\ (At(h, "claimed") \/ Kind(h) # "checkout_expired")

\* Only an older session is adopted.
OwnOffers == \A a \in Attempts : attempts[a].offer \in Offers

(* ---------------------------- Type correctness --------------------------- *)

\* The initial values are of these types, and nothing is being delivered.
LEMMA InitTypeOK == Init => TypeOK /\ Delivers
<1> SUFFICES ASSUME Init PROVE TypeOK /\ Delivers
  OBVIOUS
<1>1. NoSubscription \in SubscriptionRow /\ NoAttempt \in AttemptRow /\ NoRedemption \in RedemptionRow
  BY DEF NoSubscription, SubscriptionRow, Statuses, NoAttempt, AttemptRow, Offers, NoRedemption,
         RedemptionRow, RedemptionStates
<1>2. ProviderTypeOK
  <2>1. session \in [Sessions -> {"none", "open", "complete", "expired"}]
    BY DEF Init, ProviderInit
  <2> QED
    BY <2>1, <1>1 DEF Init, ProviderInit, ProviderTypeOK, SubscriptionRow, Statuses
<1>3. StoreTypeOK
  <2>1. NoPlan \in [session : Sessions \cup {NoSession}, status : Statuses]
        /\ GivenPlan \in [session : Sessions \cup {NoSession}, status : Statuses]
    BY DEF NoPlan, GivenPlan, Statuses, CurrentStatuses
  <2>2. payments \in [Sessions -> [Invoices -> {"none", "failed", "succeeded"}]]
    BY DEF Init, StoreInit
  <2> QED
    BY <2>1, <2>2, <1>1 DEF Init, StoreInit, StoreTypeOK, SubscriptionRow, Statuses, RedemptionRow
<1>4. CheckoutTypeOK
  <2>1. Idle \in RequestRow
    BY DEF Idle, RequestRow, Pcs, Offers
  <2> QED
    BY <2>1, <1>1 DEF Init, CheckoutInit, CheckoutTypeOK, AttemptRow, RequestRow, NoAttempt
<1>5. Free \in HandlerRow /\ Free.pc = "free"
  BY <1>1 DEF Free, HandlerRow, NoEvent
<1> QED
  BY <1>2, <1>3, <1>4, <1>5
  DEF Init, TypeOK, Delivers, At, HandlerRow, SubscriptionRow, Statuses

\* The provider's steps, one of which a cancellation takes, keep its types.
LEMMA ProviderTyped ==
  ASSUME ProviderTypeOK, NEW s \in Sessions,
         Complete(s) \/ Expired(s) \/ RenewalFails(s) \/ RenewalPaid(s) \/ Ends(s)
  PROVE  ProviderTypeOK'
<1>1. /\ session \in [Sessions -> {"none", "open", "complete", "expired"}]
      /\ subscription \in [Sessions -> SubscriptionRow]
      /\ renewal \in [Sessions -> {"none", "open", "paid"}]
      /\ pending \subseteq Events
  BY DEF ProviderTypeOK, SubscriptionRow, Statuses
<1> SUFFICES /\ session' \in [Sessions -> {"none", "open", "complete", "expired"}]
             /\ subscription' \in [Sessions -> SubscriptionRow]
             /\ renewal' \in [Sessions -> {"none", "open", "paid"}]
             /\ pending' \subseteq Events
  BY DEF ProviderTypeOK, SubscriptionRow, Statuses
<1>2. \A k \in Kinds, v \in Nat : Event(k, s, v) \in Events
  BY DEF Event, Events
<1>3. subscription[s].version + 1 \in Nat
  BY <1>1 DEF SubscriptionRow
<1>4. \A c \in Statuses, v \in Nat : [status |-> c, version |-> v] \in SubscriptionRow
  BY DEF SubscriptionRow
<1>5. ASSUME NEW status \in Statuses, NEW events \in SUBSET Events, Changed(s, status, events)
      PROVE  /\ session' = session /\ subscription' \in [Sessions -> SubscriptionRow]
             /\ pending' \subseteq Events
  <2>1. Event("subscription_changed", s, subscription[s].version + 1) \in Events
    BY <1>2, <1>3 DEF Kinds
  <2>2. [status |-> status, version |-> subscription[s].version + 1] \in SubscriptionRow
    BY <1>3, <1>4, <1>5
  <2> QED
    BY <1>1, <1>5, <2>1, <2>2 DEF Changed, Changes
<1>6. CASE Complete(s)
  <2>1. [status |-> "active", version |-> 1] \in SubscriptionRow
    BY <1>4 DEF Statuses, CurrentStatuses
  <2>2. {Event("checkout_completed", s, 0), Event("subscription_changed", s, 1),
         Event("first_settled", s, 0)} \subseteq Events
    BY <1>2 DEF Kinds
  <2> QED
    BY <1>1, <1>6, <2>1, <2>2 DEF Complete
<1>7. CASE Expired(s)
  <2>1. Event("checkout_expired", s, 0) \in Events
    BY <1>2 DEF Kinds
  <2> QED
    BY <1>1, <1>7, <2>1 DEF Expired
<1>8. CASE RenewalFails(s)
  <2>1. Event("renewal_failed", s, 0) \in Events /\ "past_due" \in Statuses
    BY <1>2 DEF Kinds, Statuses, CurrentStatuses
  <2> QED
    BY <1>1, <1>5, <1>8, <2>1 DEF RenewalFails
<1>9. CASE RenewalPaid(s)
  <2>1. Event("renewal_settled", s, 0) \in Events /\ "active" \in Statuses
    BY <1>2 DEF Kinds, Statuses, CurrentStatuses
  <2> QED
    BY <1>1, <1>5, <1>9, <2>1 DEF RenewalPaid
<1>10. CASE Ends(s)
  <2>1. {} \subseteq Events /\ "cancelled" \in Statuses
    BY DEF Statuses
  <2> QED
    BY <1>1, <1>5, <1>10, <2>1 DEF Ends
<1> QED
  BY <1>6, <1>7, <1>8, <1>9, <1>10

\* The states of a redemption stay states of a redemption.
LEMMA RedemptionTyped ==
  ASSUME NEW r \in RedemptionRow, NEW b \in BOOLEAN
  PROVE  /\ \A c \in RedemptionStates : SetState(r, c) \in RedemptionRow
         /\ [r EXCEPT !.bound = TRUE] \in RedemptionRow
         /\ [r EXCEPT !.state = "pending"] \in RedemptionRow
         /\ [r EXCEPT !.started = TRUE] \in RedemptionRow
         /\ AfterExpiry(r) \in RedemptionRow
         /\ AfterPayment(r, b) \in RedemptionRow
         /\ AfterCompletion(r, b) \in RedemptionRow
<1>1. \A q \in RedemptionRow, c \in RedemptionStates : SetState(q, c) \in RedemptionRow
  BY DEF SetState, RedemptionRow
<1>2. [r EXCEPT !.bound = TRUE] \in RedemptionRow
  BY DEF RedemptionRow
<1>3. [r EXCEPT !.state = "pending"] \in RedemptionRow /\ [r EXCEPT !.started = TRUE] \in RedemptionRow
  BY DEF RedemptionRow, RedemptionStates
<1>4. AfterExpiry(r) \in RedemptionRow
  BY DEF AfterExpiry, RedemptionRow, RedemptionStates
<1>5. \A q \in RedemptionRow : AfterPayment(q, b) \in RedemptionRow
  BY <1>1 DEF AfterPayment, RedemptionStates
<1>6. AfterCompletion(r, b) \in RedemptionRow
  BY <1>2, <1>5 DEF AfterCompletion
<1> QED
  BY <1>1, <1>2, <1>3, <1>4, <1>5, <1>6

\* The steps of the requests keep the types.
LEMMA CheckoutStepTypeOK ==
  ASSUME ProviderTypeOK, StoreTypeOK, CheckoutTypeOK, OwnOffers, CheckoutStep
  PROVE  ProviderTypeOK' /\ StoreTypeOK' /\ CheckoutTypeOK'
<1>1. /\ attempts \in [Sessions -> AttemptRow] /\ \A s \in Sessions : attempts[s].state = "open" => attempts[s].known
      /\ old \subseteq Attempts /\ request \in RequestRow /\ missed \subseteq Sessions /\ second \subseteq Attempts
      /\ redemption \in [Attempts -> RedemptionRow]
      /\ session \in [Sessions -> {"none", "open", "complete", "expired"}]
  BY DEF CheckoutTypeOK, AttemptRow, RequestRow, StoreTypeOK, RedemptionRow, ProviderTypeOK
<1> DEFINE Known(f) == \A s \in Sessions : f[s].state = "open" => f[s].known
           AttemptsTyped == attempts' \in [Sessions -> AttemptRow] /\ Known(attempts')
           HistoryTyped == old' \subseteq Attempts /\ missed' \subseteq Sessions /\ second' \subseteq Attempts
<1>2. ASSUME AttemptsTyped, HistoryTyped, request' \in RequestRow PROVE CheckoutTypeOK'
  BY <1>2 DEF CheckoutTypeOK, AttemptRow, RequestRow
<1>3. UNCHANGED attempts => AttemptsTyped
  BY <1>1
<1>4. KeepHistory => HistoryTyped
  BY <1>1 DEF KeepHistory
<1>5. KeepProvider => ProviderTypeOK'
  BY DEF KeepProvider, providerVars, ProviderTypeOK
<1>6. KeepStore => StoreTypeOK'
  BY DEF KeepStore, storeVars, StoreTypeOK
<1>7. ASSUME KeepRecords, redemption' \in [Attempts -> RedemptionRow] PROVE StoreTypeOK'
  BY <1>7 DEF KeepRecords, StoreTypeOK, RedemptionRow
<1>8. Idle \in RequestRow
  BY DEF Idle, RequestRow, Pcs, Offers
<1>9. \A pc \in Pcs, o \in Offers, s \in Sessions \cup {NoSession} :
        /\ [pc |-> pc, offer |-> o, attempt |-> s] \in RequestRow
        /\ [request EXCEPT !.pc = pc] \in RequestRow
        /\ [request EXCEPT !.pc = pc, !.attempt = s] \in RequestRow
  BY <1>1 DEF RequestRow
<1>10. \A pc \in Pcs : Goto(pc) => request' \in RequestRow
  BY <1>9, <1>8 DEF Goto, RequestRow, Offers
<1>11. ASSUME NEW s, Attempt(s, "expired") PROVE AttemptsTyped
  <2>1. \A row \in AttemptRow : [row EXCEPT !.state = "expired"] \in AttemptRow
    BY DEF AttemptRow
  <2>2. attempts' = [attempts EXCEPT ![s].state = "expired"]
    BY <1>11 DEF Attempt
  <2>3. \A t \in Sessions : attempts'[t] = IF t = s THEN [attempts[t] EXCEPT !.state = "expired"] ELSE attempts[t]
    BY <2>2, <1>1
  <2>4. \A t \in Sessions : attempts'[t].state = "open" => attempts'[t].known
    BY <2>3, <1>1 DEF AttemptRow
  <2> QED
    BY <2>1, <2>2, <2>3, <2>4, <1>1
<1>12. ASSUME NEW s \in Sessions, NEW o \in Offers \cup {"legacy"},
              attempts' = [attempts EXCEPT ![s] = [state |-> "preparing", offer |-> o, known |-> FALSE]]
       PROVE  AttemptsTyped
  <2>1. [state |-> "preparing", offer |-> o, known |-> FALSE] \in AttemptRow
    BY DEF AttemptRow
  <2> QED
    BY <2>1, <1>1, <1>12
<1>13. ASSUME NEW o \in Offers, ListSubscriptions(o) PROVE ProviderTypeOK' /\ StoreTypeOK' /\ CheckoutTypeOK'
  BY <1>13, <1>2, <1>3, <1>4, <1>5, <1>6, <1>9 DEF ListSubscriptions, Pcs
<1>14. CASE ListCheckouts
  <2>1. HistoryTyped
    BY <1>14, <1>1 DEF ListCheckouts, Overlooked
  <2> QED
    BY <2>1, <1>14, <1>2, <1>3, <1>5, <1>6, <1>10 DEF ListCheckouts, Pcs
<1>15. ASSUME NEW s \in Sessions, Adopt(s) PROVE ProviderTypeOK' /\ StoreTypeOK' /\ CheckoutTypeOK'
  <2>1. HistoryTyped
    BY <1>15, <1>1 DEF Adopt, Overlooked
  <2> QED
    BY <2>1, <1>15, <1>2, <1>5, <1>6, <1>9, <1>12 DEF Adopt, Pcs, Offers
<1>16. ASSUME NEW o \in Offers, NEW s \in Sessions, Supersede(o, s)
       PROVE  ProviderTypeOK' /\ StoreTypeOK' /\ CheckoutTypeOK'
  BY <1>16, <1>2, <1>4, <1>5, <1>6, <1>9, <1>11 DEF Supersede, Pcs
<1>17. ASSUME NEW a \in Attempts, Retry(a) \/ ReserveAttempt(a)
       PROVE  ProviderTypeOK' /\ StoreTypeOK' /\ CheckoutTypeOK'
  <2>1. a \in Sessions
    BY DEF Sessions
  <2>2. CASE Retry(a)
    <3>1. attempts[a].offer \in Offers
      BY DEF OwnOffers
    <3> QED
      BY <3>1, <2>1, <2>2, <1>2, <1>3, <1>4, <1>5, <1>6, <1>9 DEF Retry, Pcs
  <2>3. CASE ReserveAttempt(a)
    <3>1. request.offer \in Offers
      BY <1>1 DEF RequestRow
    <3> QED
      BY <3>1, <2>1, <2>3, <1>2, <1>4, <1>5, <1>6, <1>9, <1>12 DEF ReserveAttempt, Pcs
  <2> QED
    BY <2>2, <2>3, <1>17
<1>18. CASE ReservePromotion \/ BeginRequest
  <2>1. \A r \in RedemptionRow :
          [r EXCEPT !.state = "pending"] \in RedemptionRow /\ [r EXCEPT !.started = TRUE] \in RedemptionRow
    BY RedemptionTyped
  <2>2. redemption' \in [Attempts -> RedemptionRow]
    <3>1. CASE ReservePromotion
      BY <3>1, <2>1, <1>1 DEF ReservePromotion
    <3>2. CASE BeginRequest
      BY <3>2, <2>1, <1>1 DEF BeginRequest
    <3> QED
      BY <3>1, <3>2, <1>18
  <2> QED
    BY <2>2, <1>18, <1>2, <1>3, <1>4, <1>5, <1>7, <1>10 DEF ReservePromotion, BeginRequest, Pcs
<1>19. CASE Prepare \/ NotSent \/ Rejected \/ OpenFails
  BY <1>19, <1>2, <1>3, <1>4, <1>5, <1>6, <1>10 DEF Prepare, NotSent, Rejected, OpenFails, Pcs
<1>20. CASE Accepted \/ AnswerLost
  <2>1. PICK answer \in Pcs : Submitted(answer)
    BY <1>20 DEF Accepted, AnswerLost, Pcs
  <2>2. session' \in [Sessions -> {"none", "open", "complete", "expired"}]
    BY <2>1, <1>1 DEF Submitted
  <2>3. ProviderTypeOK'
    BY <2>1, <2>2 DEF Submitted, ProviderTypeOK
  <2>4. HistoryTyped
    BY <2>1, <1>1 DEF Submitted
  <2> QED
    BY <2>1, <2>3, <2>4, <1>2, <1>3, <1>6, <1>10 DEF Submitted
<1>21. CASE Opened
  <2>1. attempts' = [attempts EXCEPT ![Mine].state = "open", ![Mine].known = TRUE]
    BY <1>21 DEF Opened
  <2>2. \A row \in AttemptRow :
          LET after == [row EXCEPT !.state = "open", !.known = TRUE] IN after \in AttemptRow /\ after.known
    BY DEF AttemptRow
  <2>3. \A t \in Sessions : attempts'[t] =
          IF t = Mine THEN [attempts[t] EXCEPT !.state = "open", !.known = TRUE] ELSE attempts[t]
    BY <2>1, <1>1
  <2>4. AttemptsTyped
    BY <2>1, <2>2, <2>3, <1>1
  <2>5. request' \in RequestRow
    BY <1>21, <1>8, <1>10 DEF Opened, Pcs, Goto
  <2> QED
    BY <2>4, <2>5, <1>21, <1>2, <1>4, <1>5, <1>6 DEF Opened
<1>22. CASE Attach \/ MarkUnknown
  <2>1. \A r \in RedemptionRow :
          /\ SetState(r, "reconciliation_required") \in RedemptionRow
          /\ [r EXCEPT !.bound = TRUE] \in RedemptionRow
    BY RedemptionTyped DEF RedemptionStates
  <2>2. redemption' \in [Attempts -> RedemptionRow]
    <3>1. CASE Attach
      <4>1. \/ redemption' = [redemption EXCEPT ![Mine] = [redemption[Mine] EXCEPT !.bound = TRUE]]
            \/ redemption' = [redemption EXCEPT ![Mine] = SetState(redemption[Mine], "reconciliation_required")]
        BY <3>1 DEF Attach
      <4>2. \A a \in Attempts : /\ SetState(redemption[a], "reconciliation_required") \in RedemptionRow
                               /\ [redemption[a] EXCEPT !.bound = TRUE] \in RedemptionRow
        BY <2>1, <1>1
      <4>3. ASSUME NEW row, redemption' = [redemption EXCEPT ![Mine] = row],
                   Mine \in Attempts => row \in RedemptionRow
            PROVE  redemption' \in [Attempts -> RedemptionRow]
        BY <4>3, <1>1
      <4> QED
        BY <4>1, <4>2, <4>3
    <3>2. CASE MarkUnknown
      BY <3>2, <2>1, <1>1 DEF MarkUnknown
    <3> QED
      BY <3>1, <3>2, <1>22
  <2> QED
    BY <2>2, <1>22, <1>2, <1>3, <1>4, <1>5, <1>7, <1>8 DEF Attach, MarkUnknown
<1>23. CASE RejectRedemption
  <2>1. \A r \in RedemptionRow : SetState(r, "rejected") \in RedemptionRow
    BY RedemptionTyped DEF RedemptionStates
  <2>2. redemption' \in [Attempts -> RedemptionRow]
    BY <1>23, <2>1, <1>1 DEF RejectRedemption
  <2> QED
    BY <2>2, <1>23, <1>2, <1>3, <1>4, <1>5, <1>7, <1>10 DEF RejectRedemption, Pcs
<1>24. CASE Release
  BY <1>24, <1>2, <1>4, <1>5, <1>6, <1>8, <1>11 DEF Release
<1>25. ASSUME NEW s \in Sessions, Cancel(s) PROVE ProviderTypeOK' /\ StoreTypeOK' /\ CheckoutTypeOK'
  <2>1. ProviderTypeOK'
    BY <1>25, <1>5, ProviderTyped DEF Cancel
  <2> QED
    BY <2>1, <1>25, <1>2, <1>3, <1>4, <1>6, <1>9 DEF Cancel, Pcs, Offers
<1>26. CASE Stop
  BY <1>26, <1>2, <1>3, <1>4, <1>5, <1>6, <1>8 DEF Stop
<1>27. ASSUME NEW a \in Attempts, Age(a) PROVE ProviderTypeOK' /\ StoreTypeOK' /\ CheckoutTypeOK'
  <2>1. HistoryTyped
    BY <1>27, <1>1 DEF Age
  <2> QED
    BY <2>1, <1>27, <1>1, <1>2, <1>3, <1>5, <1>6 DEF Age
<1> QED
  BY <1>13, <1>14, <1>15, <1>16, <1>17, <1>18, <1>19, <1>20, <1>21, <1>22, <1>23, <1>24, <1>25,
     <1>26, <1>27 DEF CheckoutStep, CreateCheckout

\* The steps of a delivery keep the types.
LEMMA HandleTypeOK ==
  ASSUME TypeOK, Delivers, NEW h \in Handlers, Handle(h)
  PROVE  TypeOK' /\ Delivers'
<1>1. /\ ProviderTypeOK /\ StoreTypeOK /\ CheckoutTypeOK
      /\ handler \in [Handlers -> HandlerRow]
      /\ handler[h] \in HandlerRow
      /\ pending \subseteq Events /\ subscription \in [Sessions -> SubscriptionRow]
  BY DEF TypeOK, HandlerRow, SubscriptionRow, Statuses, ProviderTypeOK
<1>2. /\ recorded \in [Sessions -> SubscriptionRow]
      /\ assignment \in [session : Sessions \cup {NoSession}, status : Statuses]
      /\ payments \in [Sessions -> [Invoices -> {"none", "failed", "succeeded"}]]
      /\ redemption \in [Attempts -> RedemptionRow]
  BY <1>1 DEF StoreTypeOK, SubscriptionRow, Statuses, RedemptionRow
<1>3. Free \in HandlerRow /\ Free.pc = "free"
  BY DEF Free, HandlerRow, NoSubscription, SubscriptionRow, Statuses
<1>4. ~At(h, "free") => handler[h].event \in Events /\ About(h) \in Sessions
  BY DEF Delivers, About, Events
<1> DEFINE Delivering(row) ==
      row.event \in Events /\ (row.pc = "claimed" \/ row.event.kind # "checkout_expired")
<1>5. ASSUME NEW row \in HandlerRow, Advance(h, row), row.pc = "free" \/ Delivering(row)
      PROVE  handler' \in [Handlers -> HandlerRow] /\ Delivers'
  BY <1>1, <1>5 DEF Advance, Delivers, At, Kind
<1> HIDE DEF Delivering
<1>6. ASSUME Elsewhere, handler' \in [Handlers -> HandlerRow] PROVE TypeOK'
  BY <1>1, <1>6 DEF Elsewhere, providerVars, storeVars, checkoutVars, TypeOK, ProviderTypeOK,
                    StoreTypeOK, CheckoutTypeOK, HandlerRow, SubscriptionRow, Statuses
<1>7. ASSUME NEW e \in pending, Deliver(h, e) PROVE TypeOK' /\ Delivers'
  <2>1. e \in Events
    BY <1>1
  <2> DEFINE row == [Free EXCEPT !.pc = "claimed", !.event = e]
  <2>2. row \in HandlerRow /\ row.event = e /\ row.pc = "claimed"
    BY <2>1, <1>3 DEF HandlerRow, Free
  <2>3. Advance(h, row) /\ Elsewhere
    BY <1>7 DEF Deliver
  <2> HIDE DEF row
  <2> QED
    BY <2>1, <2>2, <2>3, <1>5, <1>6 DEF Delivering
<1>8. CASE ReadInvoice(h)
  <2>1. InvoicePaid(About(h), Kind(h)) \in BOOLEAN
    BY DEF InvoicePaid
  <2> DEFINE row == [handler[h] EXCEPT !.pc = "invoiced", !.paid = InvoicePaid(About(h), Kind(h))]
  <2>2. row \in HandlerRow /\ row.event = handler[h].event
    BY <2>1, <1>1 DEF HandlerRow
  <2>3. Advance(h, row) /\ Elsewhere /\ handler[h].event \in Events
        /\ handler[h].event.kind # "checkout_expired"
    BY <1>8, <1>4 DEF ReadInvoice, At, Kind, InvoiceKinds
  <2> HIDE DEF row
  <2> QED
    BY <2>2, <2>3, <1>5, <1>6 DEF Delivering
<1>9. CASE Sync(h)
  <2>1. ~At(h, "free") /\ handler[h].event.kind # "checkout_expired"
    BY <1>9 DEF Sync, ReadyToSync, At, Delivers, Kind
  <2>2. subscription[About(h)] \in SubscriptionRow
    BY <2>1, <1>1, <1>4
  <2> DEFINE row == [handler[h] EXCEPT !.pc = "synced", !.snapshot = subscription[About(h)]]
  <2>3. row \in HandlerRow /\ row.event = handler[h].event
    BY <2>2, <1>1 DEF HandlerRow
  <2>4. Advance(h, row) /\ Elsewhere
    BY <1>9 DEF Sync
  <2> HIDE DEF row
  <2> QED
    BY <2>1, <2>3, <2>4, <1>4, <1>5, <1>6 DEF Delivering
<1>10. CASE Write(h)
  <2>1. Others(About(h)) \in BOOLEAN
    BY DEF Others
  <2> DEFINE row == [handler[h] EXCEPT !.pc = "writing", !.others = Others(About(h))]
  <2>2. row \in HandlerRow /\ row.event = handler[h].event
    BY <2>1, <1>1 DEF HandlerRow
  <2>3. Advance(h, row) /\ Elsewhere /\ handler[h].event \in Events
        /\ handler[h].event.kind # "checkout_expired"
    BY <1>10, <1>4 DEF Write, At, Delivers, Kind
  <2> HIDE DEF row
  <2> QED
    BY <2>2, <2>3, <1>5, <1>6 DEF Delivering
<1>11. ASSUME NEW s, NEW r \in RedemptionRow, Redeem(s, r) PROVE redemption' \in [Attempts -> RedemptionRow]
  BY <1>2, <1>11 DEF Redeem
<1>12. ASSUME handler' \in [Handlers -> HandlerRow], pending' \subseteq Events,
              recorded' \in [Sessions -> SubscriptionRow],
              assignment' \in [session : Sessions \cup {NoSession}, status : Statuses],
              payments' \in [Sessions -> [Invoices -> {"none", "failed", "succeeded"}]],
              redemption' \in [Attempts -> RedemptionRow],
              UNCHANGED <<session, subscription, renewal, checkoutVars>>
       PROVE  TypeOK'
  <2>1. ProviderTypeOK'
    BY <1>1, <1>12 DEF ProviderTypeOK
  <2>2. StoreTypeOK'
    BY <1>12 DEF StoreTypeOK, SubscriptionRow, Statuses, RedemptionRow
  <2>3. CheckoutTypeOK'
    BY <1>1, <1>12 DEF CheckoutTypeOK, checkoutVars
  <2> QED
    BY <2>1, <2>2, <2>3, <1>12 DEF TypeOK, HandlerRow, SubscriptionRow, Statuses
<1>13. NoRedemption \in RedemptionRow
  BY DEF NoRedemption, RedemptionRow, RedemptionStates
<1>14. CASE Commit(h)
  <2> DEFINE s == About(h)
             r == IF s \in Attempts THEN redemption[s] ELSE NoRedemption
  <2>1. s \in Sessions /\ r \in RedemptionRow /\ handler[h].snapshot \in SubscriptionRow
    BY <1>14, <1>1, <1>2, <1>4, <1>13 DEF Commit, At, HandlerRow
  <2>2. recorded' \in [Sessions -> SubscriptionRow]
    BY <1>14, <2>1, <1>2 DEF Commit
  <2>3. assignment' \in [session : Sessions \cup {NoSession}, status : Statuses]
    BY <1>14, <2>1, <1>2 DEF Commit, Assigned, SubscriptionRow
  <2>4. handler' \in [Handlers -> HandlerRow] /\ Delivers'
    BY <1>14, <1>3, <1>5 DEF Commit
  <2>5. payments' \in [Sessions -> [Invoices -> {"none", "failed", "succeeded"}]]
        /\ redemption' \in [Attempts -> RedemptionRow]
    <3>1. \A b \in BOOLEAN : AfterPayment(r, b) \in RedemptionRow /\ AfterCompletion(r, b) \in RedemptionRow
      BY <2>1, RedemptionTyped
    <3>2. (payments[s]["first"] = "succeeded") \in BOOLEAN
      OBVIOUS
    <3>3. handler[h].event.kind \in Kinds
      BY <1>14, <1>4 DEF Commit, At, Events
    <3> HIDE DEF s, r
    <3>4. CASE Kind(h) = "subscription_changed"
      <4>1. UNCHANGED <<payments, redemption>>
        <5>1. Kind(h) \notin InvoiceKinds /\ Kind(h) # "checkout_completed"
          BY <3>4 DEF InvoiceKinds
        <5> QED
          BY <1>14, <3>4, <5>1 DEF Commit, Reconcile
      <4> QED
        BY <4>1, <1>2
    <3>5. CASE Kind(h) = "checkout_completed"
      <4>1. UNCHANGED payments /\ Redeem(s, AfterCompletion(r, payments[s]["first"] = "succeeded"))
        <5>1. Kind(h) \notin InvoiceKinds /\ Kind(h) # "subscription_changed"
          BY <3>5 DEF InvoiceKinds
        <5> QED
          BY <1>14, <3>5, <5>1 DEF Commit, Reconcile, s, r
      <4> QED
        BY <4>1, <3>1, <3>2, <1>2, <1>11
    <3>6. CASE Kind(h) \in InvoiceKinds
      <4>1. /\ payments' = Paid(s, InvoiceOf(Kind(h)), handler[h].paid)
            /\ Redeem(s, AfterPayment(r, TRUE)) \/ UNCHANGED redemption
        BY <1>14, <3>6 DEF Commit, Reconcile, InvoiceKinds, s, r
      <4>2. payments' \in [Sessions -> [Invoices -> {"none", "failed", "succeeded"}]]
        BY <4>1, <1>2 DEF Paid
      <4> QED
        BY <4>1, <4>2, <3>1, <1>2, <1>11
    <3>7. Kind(h) # "checkout_expired"
      BY <1>14 DEF Commit, Delivers, At
    <3> QED
      BY <3>3, <3>4, <3>5, <3>6, <3>7 DEF Kind, Kinds, InvoiceKinds
  <2>6. pending' \subseteq Events /\ UNCHANGED <<session, subscription, renewal, checkoutVars>>
    BY <1>14, <1>1 DEF Commit
  <2> QED
    BY <2>2, <2>3, <2>4, <2>5, <2>6, <1>12
<1>15. CASE CommitExpired(h)
  <2> DEFINE r == IF About(h) \in Attempts THEN redemption[About(h)] ELSE NoRedemption
  <2>1. r \in RedemptionRow
    BY <1>2, <1>13
  <2>2. AfterExpiry(r) \in RedemptionRow
    BY <2>1, RedemptionTyped
  <2>3. redemption' \in [Attempts -> RedemptionRow]
    BY <1>15, <2>2, <1>11 DEF CommitExpired
  <2>4. handler' \in [Handlers -> HandlerRow] /\ Delivers'
    BY <1>15, <1>3, <1>5 DEF CommitExpired
  <2> QED
    BY <1>15, <2>3, <2>4, <1>1, <1>2, <1>12 DEF CommitExpired
<1>16. CASE Fail(h)
  BY <1>16, <1>3, <1>5, <1>6 DEF Fail
<1> QED
  BY <1>7, <1>8, <1>9, <1>10, <1>14, <1>15, <1>16 DEF Handle

(* --------------------- Subscriptions and their records ------------------- *)

\* A later state of a subscription: what has ended stays so
Follows(q, r) == q.version <= r.version /\ (q.status = "cancelled" => r.status = "cancelled")

\* A delivery that has read the subscription and holds its lock
Holds(h) == handler[h].pc \in {"synced", "writing"}

\* Between the record and the provider lies what a delivery has read, and one
\* delivery of a subscription has read it at a time.
RecordsInv ==
    /\ \A s \in Sessions : session[s] # "complete" => subscription[s] = NoSubscription
    /\ \A s \in Sessions : Follows(recorded[s], subscription[s])
    /\ \A h \in Handlers : Holds(h) =>
          /\ Follows(recorded[About(h)], handler[h].snapshot)
          /\ Follows(handler[h].snapshot, subscription[About(h)])
    /\ \A g, h \in Handlers : Holds(g) /\ Holds(h) /\ About(g) = About(h) => g = h

LEMMA FollowsIsOrder ==
  ASSUME NEW p \in SubscriptionRow, NEW q \in SubscriptionRow, NEW r \in SubscriptionRow
  PROVE  Follows(p, p) /\ (Follows(p, q) /\ Follows(q, r) => Follows(p, r))
BY DEF Follows, SubscriptionRow

\* What a step of the provider may do to a session and its subscription.
LEMMA ProviderMoves ==
  ASSUME TypeOK, RecordsInv, NEW s \in Sessions,
         Complete(s) \/ Expired(s) \/ RenewalFails(s) \/ RenewalPaid(s) \/ Ends(s)
  PROVE  /\ \A t \in Sessions : session'[t] # "complete" => subscription'[t] = NoSubscription
         /\ \A t \in Sessions : Follows(subscription[t], subscription'[t])
         /\ \A t \in Sessions : session[t] = "none" <=> session'[t] = "none"
         /\ \A t \in Sessions : session[t] = "complete" => session'[t] = "complete"
         /\ \A t \in Sessions : session[t] = "expired" => session'[t] = "expired"
<1>1. /\ session \in [Sessions -> {"none", "open", "complete", "expired"}]
      /\ subscription \in [Sessions -> SubscriptionRow]
      /\ \A t \in Sessions : session[t] # "complete" => subscription[t] = NoSubscription
  BY DEF TypeOK, ProviderTypeOK, SubscriptionRow, Statuses, RecordsInv
<1>2. \A t \in Sessions : Follows(subscription[t], subscription[t])
  BY <1>1, FollowsIsOrder
<1>3. NoSubscription.version = 0 /\ NoSubscription.status = "none"
  BY DEF NoSubscription
<1>4. ASSUME NEW status, NEW events, Changed(s, status, events), Live(s), session' = session
      PROVE  /\ \A t \in Sessions : session'[t] # "complete" => subscription'[t] = NoSubscription
             /\ \A t \in Sessions : Follows(subscription[t], subscription'[t])
  <2>1. subscription' = [subscription EXCEPT ![s] = [status |-> status, version |-> subscription[s].version + 1]]
    BY <1>4 DEF Changed
  <2>2. session[s] = "complete"
    BY <1>1, <1>3, <1>4 DEF Live, CurrentStatuses
  <2>3. Follows(subscription[s], [status |-> status, version |-> subscription[s].version + 1])
    BY <1>1, <1>4 DEF Follows, Live, CurrentStatuses, SubscriptionRow
  <2> QED
    BY <2>1, <2>2, <2>3, <1>1, <1>2, <1>4
<1>5. CASE Complete(s)
  <2>1. subscription[s] = NoSubscription /\ session[s] = "open"
    BY <1>1, <1>5 DEF Complete
  <2>2. Follows(NoSubscription, [status |-> "active", version |-> 1])
    BY DEF Follows, NoSubscription
  <2>3. session' = [session EXCEPT ![s] = "complete"]
        /\ subscription' = [subscription EXCEPT ![s] = [status |-> "active", version |-> 1]]
    BY <1>5 DEF Complete
  <2> QED
    BY <2>1, <2>2, <2>3, <1>1, <1>2
<1>6. CASE Expired(s)
  BY <1>6, <1>1, <1>2 DEF Expired
<1>7. CASE RenewalFails(s) \/ RenewalPaid(s) \/ Ends(s)
  <2>1. PICK status, events : Changed(s, status, events) /\ Live(s) /\ session' = session
    BY <1>7 DEF RenewalFails, RenewalPaid, Ends, Changed, Live, CurrentStatuses
  <2> QED
    BY <2>1, <1>4
<1> QED
  BY <1>5, <1>6, <1>7

\* The steps of the provider leave the records behind it.
LEMMA ProviderKeepsRecords ==
  ASSUME TypeOK, Delivers, RecordsInv, UNCHANGED <<recorded, handler>>,
         TypeOK', \A t \in Sessions : session'[t] # "complete" => subscription'[t] = NoSubscription,
         \A t \in Sessions : Follows(subscription[t], subscription'[t])
  PROVE  RecordsInv'
<1>1. /\ subscription \in [Sessions -> SubscriptionRow] /\ subscription' \in [Sessions -> SubscriptionRow]
      /\ recorded \in [Sessions -> SubscriptionRow] /\ handler \in [Handlers -> HandlerRow]
  BY DEF TypeOK, ProviderTypeOK, StoreTypeOK, SubscriptionRow, HandlerRow, Statuses
<1>2. \A s \in Sessions : Follows(recorded[s], subscription'[s])
  BY <1>1, FollowsIsOrder DEF RecordsInv
<1>3. ASSUME NEW h \in Handlers, Holds(h) PROVE Follows(handler[h].snapshot, subscription'[About(h)])
  <2>1. About(h) \in Sessions /\ handler[h].snapshot \in SubscriptionRow
    BY <1>1, <1>3 DEF Delivers, At, Holds, Events, About, HandlerRow
  <2> QED
    BY <2>1, <1>1, <1>3, FollowsIsOrder DEF RecordsInv
<1> QED
  BY <1>2, <1>3 DEF RecordsInv, Holds, About

\* A step of a delivery reads the provider under the lock or writes what it
\* has read.
LEMMA HandleKeepsRecords ==
  ASSUME TypeOK, Delivers, RecordsInv, NEW h \in Handlers, Handle(h)
  PROVE  /\ RecordsInv' /\ UNCHANGED <<session, subscription>>
         /\ \A s \in Sessions : Follows(recorded[s], recorded'[s])
<1>1. /\ subscription \in [Sessions -> SubscriptionRow] /\ recorded \in [Sessions -> SubscriptionRow]
      /\ handler \in [Handlers -> HandlerRow] /\ handler[h] \in HandlerRow
  BY DEF TypeOK, ProviderTypeOK, StoreTypeOK, SubscriptionRow, HandlerRow, Statuses
<1>2. \A s \in Sessions : Follows(recorded[s], recorded[s]) /\ Follows(subscription[s], subscription[s])
  BY <1>1, FollowsIsOrder
<1>3. ~At(h, "free") => About(h) \in Sessions
  BY DEF Delivers, About, Events
<1>4. Free.pc = "free"
  BY DEF Free
<1>5. ASSUME Elsewhere, NEW row, Advance(h, row), row.pc \notin {"synced", "writing"}
      PROVE  RecordsInv' /\ UNCHANGED <<session, subscription, recorded>>
  <2>1. UNCHANGED <<session, subscription, recorded>>
    BY <1>5 DEF Elsewhere, providerVars, storeVars
  <2>2. \A g \in Handlers : handler'[g] = IF g = h THEN row ELSE handler[g]
    BY <1>1, <1>5 DEF Advance
  <2> QED
    BY <2>1, <2>2, <1>5 DEF RecordsInv, Holds, About
<1>6. CASE \E e \in pending : Deliver(h, e)
  <2>1. PICK e \in pending : Deliver(h, e)
    BY <1>6
  <2> DEFINE row == [Free EXCEPT !.pc = "claimed", !.event = e]
  <2>2. Elsewhere /\ Advance(h, row) /\ row.pc = "claimed"
    BY <2>1 DEF Deliver, Free
  <2> HIDE DEF row
  <2> QED
    BY <2>2, <1>2, <1>5
<1>7. CASE ReadInvoice(h)
  <2> DEFINE row == [handler[h] EXCEPT !.pc = "invoiced", !.paid = InvoicePaid(About(h), Kind(h))]
  <2>1. Elsewhere /\ Advance(h, row) /\ row.pc = "invoiced"
    BY <1>7, <1>1 DEF ReadInvoice, HandlerRow
  <2> HIDE DEF row
  <2> QED
    BY <2>1, <1>2, <1>5
<1>8. CASE Fail(h)
  BY <1>8, <1>2, <1>4, <1>5 DEF Fail
<1>9. CASE CommitExpired(h)
  <2>1. UNCHANGED <<session, subscription, recorded>>
    BY <1>9 DEF CommitExpired
  <2>2. \A g \in Handlers : handler'[g] = IF g = h THEN Free ELSE handler[g]
    BY <1>1, <1>9 DEF CommitExpired, Advance
  <2> QED
    BY <2>1, <2>2, <1>2, <1>4 DEF RecordsInv, Holds, About
<1>10. CASE Sync(h)
  <2> DEFINE row == [handler[h] EXCEPT !.pc = "synced", !.snapshot = subscription[About(h)]]
  <2>1. row.snapshot = subscription[About(h)] /\ row.event = handler[h].event
    BY <1>1 DEF HandlerRow
  <2>2. /\ UNCHANGED <<session, subscription, recorded>>
        /\ \A g \in Handlers : handler'[g] = IF g = h THEN row ELSE handler[g]
        /\ \A g \in Handlers \ {h} : Holds(g) => About(g) # About(h)
        /\ About(h) \in Sessions
    BY <1>10, <1>1, <1>3 DEF Sync, Advance, Elsewhere, providerVars, storeVars, Holds, ReadyToSync, At
  <2> HIDE DEF row
  <2>3. About(h)' = About(h) /\ \A g \in Handlers \ {h} : About(g)' = About(g) /\ (Holds(g)' <=> Holds(g))
    BY <2>1, <2>2 DEF About, Holds
  <2>4. /\ Follows(recorded[About(h)], row.snapshot)
        /\ Follows(row.snapshot, subscription[About(h)])
    BY <2>1, <2>2, <1>2 DEF RecordsInv
  <2> QED
    BY <2>2, <2>3, <2>4, <1>2 DEF RecordsInv
<1>11. CASE Write(h)
  <2> DEFINE row == [handler[h] EXCEPT !.pc = "writing", !.others = Others(About(h))]
  <2>1. row.snapshot = handler[h].snapshot /\ row.event = handler[h].event
    BY <1>1 DEF HandlerRow
  <2>2. /\ UNCHANGED <<session, subscription, recorded>>
        /\ \A g \in Handlers : handler'[g] = IF g = h THEN row ELSE handler[g]
        /\ Holds(h)
    BY <1>11, <1>1 DEF Write, Advance, Elsewhere, providerVars, storeVars, Holds, At
  <2> HIDE DEF row
  <2>3. \A g \in Handlers : About(g)' = About(g) /\ handler'[g].snapshot = handler[g].snapshot
    BY <2>1, <2>2 DEF About
  <2>4. \A g \in Handlers : Holds(g)' => Holds(g)
    BY <2>2 DEF Holds
  <2> QED
    BY <2>2, <2>3, <2>4, <1>2 DEF RecordsInv
<1>12. CASE Commit(h)
  <2>1. /\ UNCHANGED <<session, subscription>>
        /\ recorded' = [recorded EXCEPT ![About(h)] = handler[h].snapshot]
        /\ \A g \in Handlers : handler'[g] = IF g = h THEN Free ELSE handler[g]
        /\ Holds(h) /\ About(h) \in Sessions
    BY <1>12, <1>1, <1>3 DEF Commit, Advance, Holds, At
  <2>2. \A s \in Sessions : recorded'[s] = IF s = About(h) THEN handler[h].snapshot ELSE recorded[s]
    BY <2>1, <1>1
  <2>3. \A g \in Handlers : Holds(g)' => g # h /\ Holds(g)
    BY <2>1, <1>4 DEF Holds
  <2>4. \A g \in Handlers \ {h} : About(g)' = About(g) /\ handler'[g].snapshot = handler[g].snapshot
    BY <2>1 DEF About
  <2>5. \A g \in Handlers : Holds(g)' => About(g) # About(h) /\ About(g) \in Sessions
    BY <2>1, <2>3 DEF RecordsInv, Delivers, Holds, At, About, Events
  <2>6. \A g \in Handlers : Holds(g)' =>
          /\ Follows(recorded'[About(g)'], handler'[g].snapshot)
          /\ Follows(handler'[g].snapshot, subscription'[About(g)'])
    BY <2>1, <2>2, <2>3, <2>4, <2>5 DEF RecordsInv
  <2>7. \A f, g \in Handlers : Holds(f)' /\ Holds(g)' /\ About(f)' = About(g)' => f = g
    BY <2>3, <2>4 DEF RecordsInv
  <2>8. \A s \in Sessions : Follows(recorded'[s], subscription'[s]) /\ Follows(recorded[s], recorded'[s])
    BY <2>1, <2>2, <1>2 DEF RecordsInv
  <2> QED
    BY <2>1, <2>6, <2>7, <2>8 DEF RecordsInv
<1> QED
  BY <1>6, <1>7, <1>8, <1>9, <1>10, <1>11, <1>12, <1>2 DEF Handle

(* --------------------------- Buying at most once ------------------------- *)

\* A request that works on an attempt it reserved or found
Owning == {"creating", "promised", "sending", "accepted", "attaching", "unknown", "rejected"}

\* What the request that holds the tenant lock knows
RequestInv ==
    /\ request.pc \in {"listed", "reserving"} => \A s \in Sessions : ~Active(s)
    /\ request.pc \in Owning => Mine \in Attempts /\ Active(Mine)
    /\ Now("adopting") => Mine \in Legacies /\ Active(Mine)
    /\ request.pc \in {"creating", "promised", "sending"} => Mine \notin old
    /\ request.pc \in {"rejected", "releasing"} => Mine \in Attempts /\ session[Mine] = "none"
    /\ Now("cancelled") => Mine \in Sessions /\ session[Mine] = "expired"

\* A session that was opened for an attempt is that of the company's one
\* active attempt, until it is over.
AttemptsInv ==
    /\ OwnOffers
    /\ \A s, t \in Sessions : Active(s) /\ Active(t) => s = t
    /\ \A a \in Attempts : session[a] = "none" \/ Active(a) \/ Over(a)
    /\ \A a \in old : attempts[a].state # "none"
    /\ second = {}

\* What a request must have seen the end of
InTheWay(s) == session[s] # "none" /\ ~Over(s)

\* An older session that nobody missed is over beside an attempt.
ClearedBut(s) == \A l \in Legacies \ missed : l = s \/ ~InTheWay(l)
LegaciesInv ==
    /\ Now("reserving") => ClearedBut(NoSession)
    /\ \A s \in Sessions : Active(s) => ClearedBut(s)

PurchaseInv == RequestInv /\ AttemptsInv /\ LegaciesInv

\* A session that stands is in the way.
LEMMA StandingInTheWay ==
  ASSUME RecordsInv, NEW s \in Sessions, Standing(s) PROVE InTheWay(s)
<1>1. /\ session[s] # "complete" => subscription[s] = NoSubscription
      /\ recorded[s].status = "cancelled" => subscription[s].status = "cancelled"
  BY DEF RecordsInv, Follows
<1> QED
  BY <1>1 DEF InTheWay, Over, Standing, Live, RecordedEnded, NoSubscription, CurrentStatuses

\* One that neither list of a request showed, and that is not counted as
\* missed, is not.
LEMMA ListedIsClear ==
  ASSUME TypeOK, NEW s \in Sessions, session[s] # "open", s \notin Overlooked PROVE ~InTheWay(s)
<1>1. session[s] \in {"none", "open", "complete", "expired"}
  BY DEF TypeOK, ProviderTypeOK
<1> QED
  BY <1>1 DEF InTheWay, Overlooked, Over

\* What happens beside the requests keeps it.
LEMMA OthersKeepPurchase ==
  ASSUME TypeOK, PurchaseInv, UNCHANGED checkoutVars,
         \A s \in Sessions : session[s] = "none" <=> session'[s] = "none",
         \A s \in Sessions : session[s] = "expired" => session'[s] = "expired",
         \A s \in Sessions : Over(s) => Over(s)'
  PROVE  PurchaseInv'
<1>1. UNCHANGED <<attempts, old, request, missed, second>>
  BY DEF checkoutVars
<1>2. \A s : Active(s)' <=> Active(s)
  BY <1>1 DEF Active
<1>3. Attempts \subseteq Sessions /\ Legacies \subseteq Sessions
  BY DEF Sessions
<1>4. RequestInv'
  BY <1>1, <1>2, <1>3 DEF PurchaseInv, RequestInv, Now, Mine
<1>5. AttemptsInv'
  BY <1>1, <1>2, <1>3 DEF PurchaseInv, AttemptsInv, OwnOffers
<1>6. \A s : ClearedBut(s) => ClearedBut(s)'
  BY <1>1, <1>3 DEF ClearedBut, InTheWay
<1>7. LegaciesInv'
  BY <1>1, <1>2, <1>6 DEF PurchaseInv, LegaciesInv, Now
<1> QED
  BY <1>4, <1>5, <1>7 DEF PurchaseInv

\* The steps of the requests keep it.
LEMMA RequestsKeepPurchase ==
  ASSUME TypeOK, PurchaseInv, CheckoutStep PROVE PurchaseInv'
<1>1. /\ attempts \in [Sessions -> AttemptRow] /\ request \in RequestRow /\ old \subseteq Attempts
      /\ session \in [Sessions -> {"none", "open", "complete", "expired"}]
  BY DEF TypeOK, CheckoutTypeOK, AttemptRow, RequestRow, ProviderTypeOK
<1>2. Attempts \subseteq Sessions /\ Legacies \subseteq Sessions /\ Attempts \cap Legacies = {}
      /\ NoSession \notin Sessions
  BY ProviderAssumption, StoreAssumption DEF Sessions
<1>3. RequestInv /\ AttemptsInv /\ LegaciesInv
  BY DEF PurchaseInv
<1> DEFINE Quiet == UNCHANGED <<session, subscription, recorded>>
<1>4. /\ KeepProvider => UNCHANGED <<session, subscription>>
      /\ KeepStore => UNCHANGED <<recorded, redemption>>
      /\ KeepRecords => UNCHANGED recorded
      /\ KeepHistory => UNCHANGED <<old, missed, second>>
  BY DEF KeepProvider, providerVars, KeepStore, storeVars, KeepRecords, KeepHistory
<1>5. Quiet => \A s : (InTheWay(s)' <=> InTheWay(s)) /\ (Over(s)' <=> Over(s))
  BY DEF InTheWay, Over, RecordedEnded
<1>6. \A pc : Goto(pc) => request'.pc = pc /\ request'.attempt = request.attempt
  BY <1>1 DEF Goto, RequestRow
<1>7. Idle.pc = "idle"
  BY DEF Idle
\* A step of the request alone
<1>8. ASSUME Quiet, UNCHANGED attempts, KeepHistory, RequestInv', ~Now("reserving")'
      PROVE  PurchaseInv'
  <2>1. UNCHANGED <<old, missed, second>> /\ \A s : Active(s)' <=> Active(s)
    BY <1>4, <1>8 DEF Active
  <2>2. AttemptsInv'
    BY <2>1, <1>3, <1>5, <1>8 DEF AttemptsInv, OwnOffers
  <2>3. LegaciesInv'
    BY <2>1, <1>3, <1>5, <1>8 DEF LegaciesInv, ClearedBut
  <2> QED
    BY <2>2, <2>3, <1>8 DEF PurchaseInv
<1>9. ASSUME NEW o \in Offers, ListSubscriptions(o) PROVE PurchaseInv'
  <2>1. request'.pc = "listed" /\ \A s \in Sessions : ~Active(s)
    BY <1>9 DEF ListSubscriptions
  <2>2. RequestInv'
    BY <2>1, <1>9 DEF ListSubscriptions, RequestInv, Active, Owning, Now
  <2> QED
    BY <2>1, <2>2, <1>9, <1>4, <1>8 DEF ListSubscriptions, Now
<1>10. CASE ListCheckouts
  <2>1. /\ request'.pc = "reserving" /\ missed' = missed \cup Overlooked /\ OpenCheckouts = {}
        /\ \A s \in Sessions : ~Active(s)
        /\ Quiet /\ UNCHANGED <<attempts, old, second>>
    BY <1>10, <1>3, <1>4, <1>6 DEF ListCheckouts, RequestInv, Now
  <2>2. \A s : Active(s)' <=> Active(s)
    BY <2>1 DEF Active
  <2>3. RequestInv'
    BY <2>1, <2>2 DEF RequestInv, Owning, Now
  <2>4. AttemptsInv'
    BY <2>1, <2>2, <1>3, <1>5 DEF AttemptsInv, OwnOffers
  <2>5. \A l \in Legacies \ missed' : ~InTheWay(l)
    BY <2>1, <1>2, ListedIsClear DEF OpenCheckouts
  <2>6. LegaciesInv'
    BY <2>5, <1>5, <2>1 DEF LegaciesInv, ClearedBut
  <2> QED
    BY <2>3, <2>4, <2>6 DEF PurchaseInv
<1>11. ASSUME NEW s \in Sessions, Adopt(s) PROVE PurchaseInv'
  <2>1. /\ request'.pc = "adopting" /\ request'.attempt = s /\ missed' = missed \cup Overlooked
        /\ OpenCheckouts = {s} /\ \A t \in Sessions : ~Active(t)
        /\ Quiet /\ UNCHANGED <<old, second>>
    BY <1>11, <1>1, <1>3, <1>4 DEF Adopt, RequestInv, Now, RequestRow
  <2>2. attempts' = [attempts EXCEPT ![s] = [state |-> "preparing", offer |-> "legacy", known |-> FALSE]]
    BY <1>11 DEF Adopt
  <2>3. session[s] = "open"
    BY <2>1 DEF OpenCheckouts
  <2>4. s \in Legacies
    BY <2>1, <2>3, <1>3 DEF AttemptsInv, Over, Sessions
  <2>5. Active(s)' /\ \A t \in Sessions \ {s} : ~Active(t)'
    BY <2>1, <2>2, <1>1 DEF Active
  <2>6. RequestInv'
    BY <2>1, <2>4, <2>5 DEF RequestInv, Owning, Now, Mine
  <2>7. \A a \in Attempts : a # s /\ attempts'[a] = attempts[a]
    BY <2>2, <2>4, <1>1, <1>2
  <2>8. AttemptsInv'
    <3>1. \A a \in Attempts : session[a] = "none" \/ Over(a)
      BY <2>1, <1>2, <1>3 DEF AttemptsInv
    <3>2. \A a \in Attempts : session'[a] = "none" \/ Active(a)' \/ Over(a)'
      BY <3>1, <2>1, <1>5
    <3>3. \A t, u \in Sessions : Active(t)' /\ Active(u)' => t = u
      BY <2>5
    <3>4. OwnOffers' /\ (\A a \in old' : attempts'[a].state # "none") /\ second' = {}
      BY <2>1, <2>7, <1>1, <1>3 DEF AttemptsInv, OwnOffers
    <3> QED
      BY <3>2, <3>3, <3>4 DEF AttemptsInv
  <2>9. \A l \in Legacies \ missed' : l = s \/ ~InTheWay(l)
    BY <2>1, <1>2, ListedIsClear DEF OpenCheckouts
  <2>10. LegaciesInv'
    BY <2>1, <2>5, <2>9, <1>5 DEF LegaciesInv, ClearedBut, Now
  <2> QED
    BY <2>6, <2>8, <2>10 DEF PurchaseInv
\* An attempt is closed whose session was never opened, or is over
<1>12. ASSUME NEW s \in Sessions, Attempt(s, "expired"), Quiet, KeepHistory,
              s \in Attempts => session[s] = "none" \/ Over(s), RequestInv',
              Now("reserving")' => ClearedBut(NoSession)
       PROVE  PurchaseInv'
  <2>1. /\ UNCHANGED <<old, missed, second>>
        /\ attempts' = [attempts EXCEPT ![s].state = "expired"]
    BY <1>12, <1>4 DEF Attempt
  <2>2. \A t \in Sessions : /\ attempts'[t].offer = attempts[t].offer
                            /\ attempts'[t].state = IF t = s THEN "expired" ELSE attempts[t].state
    BY <2>1, <1>1 DEF AttemptRow
  <2>3. \A t \in Sessions : Active(t)' <=> Active(t) /\ t # s
    BY <2>2 DEF Active
  <2>4. AttemptsInv'
    <3>1. \A a \in Attempts : session'[a] = "none" \/ Active(a)' \/ Over(a)'
      BY <2>3, <1>2, <1>3, <1>5, <1>12 DEF AttemptsInv
    <3>2. OwnOffers' /\ (\A a \in old' : attempts'[a].state # "none") /\ second' = {}
      BY <2>1, <2>2, <1>1, <1>2, <1>3 DEF AttemptsInv, OwnOffers
    <3>3. \A t, u \in Sessions : Active(t)' /\ Active(u)' => t = u
      BY <2>3, <1>3 DEF AttemptsInv
    <3> QED
      BY <3>1, <3>2, <3>3 DEF AttemptsInv
  <2>5. LegaciesInv'
    BY <2>1, <2>3, <1>3, <1>5, <1>12 DEF LegaciesInv, ClearedBut, Now
  <2> QED
    BY <2>4, <2>5, <1>12 DEF PurchaseInv
<1>13. ASSUME NEW o \in Offers, NEW s \in Sessions, Supersede(o, s) PROVE PurchaseInv'
  <2>1. /\ Attempt(s, "expired") /\ Quiet /\ KeepHistory /\ Over(s) /\ Active(s)
        /\ request'.pc = "reserving"
    BY <1>13, <1>4 DEF Supersede
  <2>2. ClearedBut(NoSession)
    BY <2>1, <1>3 DEF LegaciesInv, ClearedBut, InTheWay
  <2>3. \A t \in Sessions : ~Active(t)'
    <3>1. attempts' = [attempts EXCEPT ![s].state = "expired"]
      BY <2>1 DEF Attempt
    <3>2. \A t \in Sessions : attempts'[t].state = IF t = s THEN "expired" ELSE attempts[t].state
      BY <3>1, <1>1 DEF AttemptRow
    <3> QED
      BY <3>2, <2>1, <1>3 DEF AttemptsInv, Active
  <2>4. RequestInv'
    BY <2>1, <2>3 DEF RequestInv, Owning, Now
  <2> QED
    BY <2>1, <2>2, <2>4, <1>12
<1>14. ASSUME NEW a \in Attempts, Retry(a) PROVE PurchaseInv'
  <2>1. /\ request'.pc = "creating" /\ request'.attempt = a /\ Active(a) /\ a \notin old
        /\ UNCHANGED attempts /\ KeepHistory /\ Quiet
    BY <1>14, <1>4 DEF Retry
  <2>2. RequestInv'
    BY <2>1, <1>4 DEF RequestInv, Owning, Now, Mine, Active
  <2> QED
    BY <2>1, <2>2, <1>8 DEF Now
<1>15. ASSUME NEW a \in Attempts, ReserveAttempt(a) PROVE PurchaseInv'
  <2>1. /\ request'.pc = "creating" /\ request'.attempt = a /\ attempts[a].state = "none"
        /\ \A s \in Sessions : ~Active(s)
        /\ attempts' = [attempts EXCEPT ![a] = [state |-> "preparing", offer |-> request.offer, known |-> FALSE]]
        /\ Quiet /\ UNCHANGED <<old, missed, second>> /\ Now("reserving") /\ request.offer \in Offers
    BY <1>15, <1>1, <1>4 DEF ReserveAttempt, RequestRow
  <2>2. \A t \in Sessions : attempts'[t] =
            IF t = a THEN [state |-> "preparing", offer |-> request.offer, known |-> FALSE] ELSE attempts[t]
    BY <2>1, <1>1
  <2>3. a \in Sessions /\ \A t \in Sessions : Active(t)' <=> t = a
    BY <2>1, <2>2, <1>2 DEF Active
  <2>4. a \notin old
    BY <2>1, <1>3 DEF AttemptsInv
  <2>5. RequestInv'
    BY <2>1, <2>3, <2>4 DEF RequestInv, Owning, Now, Mine
  <2>6. AttemptsInv'
    <3>1. \A b \in Attempts : session'[b] = "none" \/ Active(b)' \/ Over(b)'
      BY <2>1, <2>3, <1>2, <1>3, <1>5 DEF AttemptsInv
    <3>2. OwnOffers' /\ (\A b \in old' : attempts'[b].state # "none") /\ second' = {}
      BY <2>1, <2>2, <1>1, <1>2, <1>3 DEF AttemptsInv, OwnOffers
    <3> QED
      BY <3>1, <3>2, <2>3 DEF AttemptsInv
  <2>7. LegaciesInv'
    BY <2>1, <2>3, <1>2, <1>3, <1>5 DEF LegaciesInv, ClearedBut, Now
  <2> QED
    BY <2>5, <2>6, <2>7 DEF PurchaseInv
<1>16. CASE ReservePromotion \/ BeginRequest \/ Prepare
  <2>1. /\ Quiet /\ UNCHANGED attempts /\ KeepHistory /\ request.pc \in {"creating", "promised"}
        /\ request'.pc \in {"promised", "sending"} /\ request'.attempt = request.attempt
    BY <1>16, <1>4, <1>6 DEF ReservePromotion, BeginRequest, Prepare, Now
  <2>2. RequestInv'
    BY <2>1, <1>3, <1>4 DEF RequestInv, Owning, Now, Mine, Active
  <2> QED
    BY <2>1, <2>2, <1>8 DEF Now
<1>17. CASE NotSent \/ OpenFails
  <2>1. /\ Quiet /\ UNCHANGED attempts /\ KeepHistory /\ request.pc \in {"sending", "accepted"}
        /\ request'.pc = "unknown" /\ request'.attempt = request.attempt
    BY <1>17, <1>4, <1>6 DEF NotSent, OpenFails, Now
  <2>2. RequestInv'
    BY <2>1, <1>3 DEF RequestInv, Owning, Now, Mine, Active
  <2> QED
    BY <2>1, <2>2, <1>8 DEF Now
<1>18. CASE Rejected
  <2>1. /\ Quiet /\ UNCHANGED attempts /\ KeepHistory /\ request.pc = "sending" /\ session[Mine] = "none"
        /\ request'.pc = "rejected" /\ request'.attempt = request.attempt
    BY <1>18, <1>4, <1>6 DEF Rejected, Now
  <2>2. RequestInv'
    BY <2>1, <1>3 DEF RequestInv, Owning, Now, Mine, Active
  <2> QED
    BY <2>1, <2>2, <1>8 DEF Now
<1>19. CASE RejectRedemption
  <2>1. /\ Quiet /\ UNCHANGED attempts /\ KeepHistory /\ request.pc = "rejected"
        /\ request'.pc = "releasing" /\ request'.attempt = request.attempt
    BY <1>19, <1>4, <1>6 DEF RejectRedemption, Now
  <2>2. RequestInv'
    BY <2>1, <1>3 DEF RequestInv, Owning, Now, Mine, Active
  <2> QED
    BY <2>1, <2>2, <1>8 DEF Now
<1>20. CASE Attach \/ MarkUnknown \/ Stop
  <2>1. Quiet /\ UNCHANGED attempts /\ KeepHistory /\ request'.pc = "idle"
    BY <1>20, <1>4, <1>7 DEF Attach, MarkUnknown, Stop
  <2>2. RequestInv'
    BY <2>1 DEF RequestInv, Owning, Now
  <2> QED
    BY <2>1, <2>2, <1>8 DEF Now
<1>21. CASE Accepted \/ AnswerLost
  <2>1. PICK answer \in {"accepted", "unknown"} : Submitted(answer)
    BY <1>21 DEF Accepted, AnswerLost
  <2>2. /\ Mine \in Attempts /\ Mine \notin old /\ Active(Mine)
        /\ UNCHANGED <<subscription, attempts, old, missed, recorded>> /\ second' = second
        /\ request'.pc = answer /\ request'.attempt = request.attempt
        /\ session' = [session EXCEPT ![Mine] = IF @ = "none" THEN "open" ELSE @]
    BY <2>1, <1>3, <1>4, <1>6 DEF Submitted, RequestInv, Owning, Now
  <2>3. \A t \in Sessions : t # Mine => session'[t] = session[t]
    BY <2>2, <1>1
  <2>4. \A t \in Sessions : (Active(t)' <=> Active(t)) /\ (session'[t] = "complete" <=> session[t] = "complete")
                            /\ (session'[t] = "expired" <=> session[t] = "expired")
    BY <2>2, <1>1 DEF Active
  <2>5. RequestInv'
    BY <2>2, <2>4, <1>2 DEF RequestInv, Owning, Now, Mine
  <2>6. \A t \in Sessions : Over(t)' <=> Over(t)
    BY <2>2, <2>4 DEF Over, RecordedEnded
  <2>7. AttemptsInv'
    BY <2>2, <2>3, <2>4, <2>6, <1>2, <1>3 DEF AttemptsInv, OwnOffers
  <2>8. \A l \in Legacies : InTheWay(l)' <=> InTheWay(l)
    BY <2>2, <2>3, <2>6, <1>2 DEF InTheWay
  <2>9. LegaciesInv'
    BY <2>2, <2>4, <2>8, <1>3 DEF LegaciesInv, ClearedBut, Now
  <2> QED
    BY <2>5, <2>7, <2>9 DEF PurchaseInv
<1>22. CASE Opened
  <2>1. /\ Mine \in Sessions /\ Active(Mine) /\ Quiet /\ UNCHANGED <<old, missed, second>>
        /\ attempts' = [attempts EXCEPT ![Mine].state = "open", ![Mine].known = TRUE]
        /\ \/ request'.pc = "idle"
           \/ Now("accepted") /\ request'.pc = "attaching" /\ request'.attempt = request.attempt
    BY <1>22, <1>1, <1>2, <1>3, <1>4, <1>7 DEF Opened, RequestInv, Owning, Now, RequestRow
  <2>2. \A t \in Sessions : /\ attempts'[t].offer = attempts[t].offer
                            /\ attempts'[t].state = IF t = Mine THEN "open" ELSE attempts[t].state
    BY <2>1, <1>1 DEF AttemptRow
  <2>3. \A t \in Sessions : Active(t)' <=> Active(t)
    BY <2>1, <2>2 DEF Active
  <2>4. RequestInv'
    BY <2>1, <2>3, <1>2, <1>3 DEF RequestInv, Owning, Now, Mine
  <2>5. AttemptsInv'
    BY <2>1, <2>2, <2>3, <1>1, <1>2, <1>3, <1>5 DEF AttemptsInv, OwnOffers
  <2>6. LegaciesInv'
    BY <2>1, <2>3, <1>3, <1>5 DEF LegaciesInv, ClearedBut, Now
  <2> QED
    BY <2>4, <2>5, <2>6 DEF PurchaseInv
<1>23. CASE Release
  <2>1. /\ Mine \in Sessions /\ (session[Mine] = "none" \/ Over(Mine))
        /\ Attempt(Mine, "expired") /\ Quiet /\ KeepHistory /\ request'.pc = "idle"
    BY <1>23, <1>2, <1>3, <1>4, <1>7 DEF Release, RequestInv, Now, Over
  <2>2. RequestInv'
    BY <2>1 DEF RequestInv, Owning, Now
  <2> QED
    BY <2>1, <2>2, <1>12 DEF Now
<1>24. ASSUME NEW s \in Sessions, Cancel(s) PROVE PurchaseInv'
  <2>1. /\ UNCHANGED <<attempts, old, missed, second, recorded, subscription>>
        /\ request'.pc = "cancelled" /\ request'.attempt = s
        /\ \A t \in Sessions : session'[t] = IF t = s THEN "expired" ELSE session[t]
        /\ session[s] # "none"
    BY <1>24, <1>1, <1>4 DEF Cancel, Expired
  <2>2. \A t : Active(t)' <=> Active(t)
    BY <2>1 DEF Active
  <2>3. RequestInv'
    BY <2>1 DEF RequestInv, Owning, Now, Mine
  <2>4. AttemptsInv'
    BY <2>1, <2>2, <1>2, <1>3 DEF AttemptsInv, OwnOffers, Over, RecordedEnded
  <2>5. \A l \in Legacies : InTheWay(l)' => InTheWay(l)
    BY <2>1, <1>2 DEF InTheWay, Over, RecordedEnded
  <2>6. LegaciesInv'
    BY <2>1, <2>2, <2>5, <1>3 DEF LegaciesInv, ClearedBut, Now
  <2> QED
    BY <2>3, <2>4, <2>6 DEF PurchaseInv
<1>25. ASSUME NEW a \in Attempts, Age(a) PROVE PurchaseInv'
  <2>1. /\ Quiet /\ UNCHANGED <<attempts, request, missed, second>> /\ old' = old \cup {a}
        /\ Now("idle") /\ attempts[a].state = "preparing"
    BY <1>25, <1>4 DEF Age
  <2>2. \A t : Active(t)' <=> Active(t)
    BY <2>1 DEF Active
  <2>3. RequestInv'
    BY <2>1 DEF RequestInv, Owning, Now
  <2>4. AttemptsInv'
    BY <2>1, <2>2, <1>3, <1>5 DEF AttemptsInv, OwnOffers
  <2>5. LegaciesInv'
    BY <2>1, <2>2, <1>3, <1>5 DEF LegaciesInv, ClearedBut, Now
  <2> QED
    BY <2>3, <2>4, <2>5 DEF PurchaseInv
<1> QED
  BY <1>9, <1>10, <1>11, <1>13, <1>14, <1>15, <1>16, <1>17, <1>18, <1>19, <1>20, <1>21, <1>22, <1>23,
     <1>24, <1>25 DEF CheckoutStep, CreateCheckout

(* ------------------------ Discounts within the cap ----------------------- *)

Taken == {"pending", "settled", "reconciliation_required"}

SlotsCapped == Cardinality(Slots) <= MaxUses

\* A session that a discounted attempt opened has its slot, up to its expiry.
DiscountsHaveSlots ==
    \A a \in Attempts :
        /\ attempts[a].state = "none" => session[a] = "none"
        /\ attempts[a].offer = "promoted" /\ session[a] \in {"open", "complete"} => a \in Slots

\* A discounted request has reserved a slot, and keeps it until it was sent.
RequestHasSlot ==
    /\ request.pc \in Owning => attempts[Mine].offer = request.offer
    /\ request.pc = "attaching" => Promoted
    /\ request.pc \in Owning \ {"creating"} /\ Promoted => redemption[Mine].state # "none"
    /\ request.pc \in {"promised", "sending"} /\ Promoted /\ session[Mine] = "none" => Mine \in Slots

\* Only a Checkout that has expired is said to have.
ExpiriesTrue ==
    /\ \A e \in pending : e.kind = "checkout_expired" => session[e.session] = "expired"
    /\ \A h \in Handlers : ~At(h, "free") /\ Kind(h) = "checkout_expired" => session[About(h)] = "expired"

DiscountInv == SlotsCapped /\ DiscountsHaveSlots /\ RequestHasSlot /\ ExpiriesTrue

\* No slot is taken while none is added.
LEMMA FewerSlots == ASSUME SlotsCapped, Slots' \subseteq Slots PROVE SlotsCapped'
<1>1. IsFiniteSet(Slots)
  BY CheckoutAssumption, FS_Subset DEF Slots
<1>2. Cardinality(Slots') <= Cardinality(Slots) /\ Cardinality(Slots') \in Nat /\ Cardinality(Slots) \in Nat
  BY <1>1, FS_Subset, FS_CardinalityType
<1> QED
  BY <1>2, StoreAssumption DEF SlotsCapped

\* A request that was not refused makes its redemption certain or uncertain,
\* and gives up no slot.
LEMMA SlotsKept ==
  ASSUME NEW r \in RedemptionRow, NEW b \in BOOLEAN
  PROVE  /\ AfterPayment(r, b).state \in Taken <=> r.state \in Taken
         /\ AfterCompletion(r, b).state \in Taken <=> r.state \in Taken
         /\ AfterPayment(r, b).state = "none" <=> r.state = "none"
         /\ AfterCompletion(r, b).state = "none" <=> r.state = "none"
         /\ AfterExpiry(r).state \in Taken => r.state \in Taken
         /\ AfterExpiry(r).state = "none" <=> r.state = "none"
         /\ SetState(r, "reconciliation_required").state \in Taken <=> r.state \in Taken \cup {"none"}
         /\ SetState(r, "reconciliation_required").state # "none"
<1>1. ASSUME NEW q \in RedemptionRow, NEW c \in {"settled", "reconciliation_required"}
      PROVE  /\ SetState(q, c).state \in Taken <=> q.state \in Taken \cup {"none"}
             /\ SetState(q, c).state # "none"
  BY DEF SetState, Taken, RedemptionRow, RedemptionStates
<1>2. ASSUME NEW q \in RedemptionRow
      PROVE  /\ AfterPayment(q, b).state \in Taken <=> q.state \in Taken
             /\ AfterPayment(q, b).state = "none" <=> q.state = "none"
  BY <1>1 DEF AfterPayment, Taken
<1>3. LET q == [r EXCEPT !.bound = TRUE] IN q \in RedemptionRow /\ q.state = r.state
  BY DEF RedemptionRow
<1>4. /\ AfterCompletion(r, b).state \in Taken <=> r.state \in Taken
      /\ AfterCompletion(r, b).state = "none" <=> r.state = "none"
  BY <1>2, <1>3 DEF AfterCompletion
<1>5. /\ AfterExpiry(r).state \in Taken => r.state \in Taken
      /\ AfterExpiry(r).state = "none" <=> r.state = "none"
  BY DEF AfterExpiry, Taken, RedemptionRow
<1> QED
  BY <1>1, <1>2, <1>4, <1>5

\* The provider's steps keep it.
LEMMA ProviderKeepsDiscounts ==
  ASSUME TypeOK, RecordsInv, Delivers, PurchaseInv, DiscountInv, UNCHANGED <<storeVars, checkoutVars, handler>>, ProviderStep
  PROVE  DiscountInv'
<1>1. PICK s \in Sessions : Complete(s) \/ Expired(s) \/ RenewalFails(s) \/ RenewalPaid(s) \/ Ends(s)
  BY DEF ProviderStep
<1>2. /\ session \in [Sessions -> {"none", "open", "complete", "expired"}]
      /\ session' \in [Sessions -> {"none", "open", "complete", "expired"}]
      /\ Attempts \subseteq Sessions /\ pending \subseteq Events
  BY <1>1, ProviderTyped DEF TypeOK, ProviderTypeOK, Sessions
<1>3. /\ \A t \in Sessions : session[t] = "none" <=> session'[t] = "none"
      /\ \A t \in Sessions : session[t] = "expired" => session'[t] = "expired"
  BY <1>1, ProviderMoves
<1>4. UNCHANGED <<redemption, attempts, request, old, missed, second, handler>>
  BY DEF storeVars, checkoutVars
<1>5. Slots' = Slots
  BY <1>4 DEF Slots
<1>6. SlotsCapped' /\ DiscountsHaveSlots'
  BY <1>2, <1>3, <1>4, <1>5 DEF DiscountInv, SlotsCapped, DiscountsHaveSlots
<1>7. RequestHasSlot'
  <2>1. request.pc \in Owning => Mine \in Sessions
    BY <1>2 DEF PurchaseInv, RequestInv
  <2> QED
    BY <2>1, <1>3, <1>4, <1>5 DEF DiscountInv, RequestHasSlot, Mine, Promoted, Owning
<1>8. ExpiriesTrue'
  <2>1. \A e \in pending : e.session \in Sessions
    BY <1>2 DEF Events
  <2>2. \A h \in Handlers : ~At(h, "free") => About(h) \in Sessions
    BY DEF Delivers, About, Events
  <2>3. \A h \in Handlers : ~At(h, "free") /\ Kind(h) = "checkout_expired" => session'[About(h)] = "expired"
    BY <2>2, <1>3 DEF DiscountInv, ExpiriesTrue
  <2>4. \A e \in pending' \ pending : e.kind = "checkout_expired" => session'[e.session] = "expired"
    <3>1. CASE Expired(s)
      BY <3>1, <1>2 DEF Expired, Event
    <3>2. CASE Complete(s)
      BY <3>2 DEF Complete, Event
    <3>3. CASE RenewalFails(s) \/ RenewalPaid(s) \/ Ends(s)
      BY <3>3 DEF RenewalFails, RenewalPaid, Ends, Changed, Event
    <3> QED
      BY <3>1, <3>2, <3>3, <1>1
  <2>5. \A e \in pending : e.kind = "checkout_expired" => session'[e.session] = "expired"
    BY <2>1, <1>3 DEF DiscountInv, ExpiriesTrue
  <2> QED
    BY <2>3, <2>4, <2>5, <1>4 DEF ExpiriesTrue, Kind, About, At
<1> QED
  BY <1>6, <1>7, <1>8 DEF DiscountInv

\* The steps of the deliveries keep it: a payment gives up no slot, and only
\* the expiry of a Checkout does.
LEMMA HandleKeepsDiscounts ==
  ASSUME TypeOK, TypeOK', Delivers, PurchaseInv, DiscountInv, NEW h \in Handlers, Handle(h)
  PROVE  DiscountInv'
<1>1. /\ redemption \in [Attempts -> RedemptionRow] /\ redemption' \in [Attempts -> RedemptionRow]
      /\ handler \in [Handlers -> HandlerRow] /\ handler[h] \in HandlerRow
      /\ Attempts \subseteq Sessions
  BY DEF TypeOK, StoreTypeOK, RedemptionRow, HandlerRow, SubscriptionRow, Statuses, Sessions
<1>2. DiscountsHaveSlots /\ SlotsCapped /\ RequestHasSlot /\ ExpiriesTrue
  BY DEF DiscountInv
<1>3. \A f \in {redemption, redemption'} : {a \in Attempts : f[a].state \in Taken}
        = {a \in Attempts : f[a].state \in {"pending", "settled", "reconciliation_required"}}
  BY DEF Taken
<1>4. /\ Slots = {a \in Attempts : redemption[a].state \in Taken}
      /\ Slots' = {a \in Attempts : redemption'[a].state \in Taken}
  BY <1>3 DEF Slots
<1>5. UNCHANGED <<session, attempts, request>>
  BY DEF Handle, Deliver, ReadInvoice, Sync, Write, Commit, CommitExpired, Fail, Elsewhere,
         providerVars, checkoutVars
<1>6. ExpiriesTrue'
  <2>1. pending' \subseteq pending
    BY DEF Handle, Deliver, ReadInvoice, Sync, Write, Commit, CommitExpired, Fail, Elsewhere, providerVars
  <2>2. PICK row : handler' = [handler EXCEPT ![h] = row]
        /\ (row.pc = "free" \/ row.event \in pending \/ (~At(h, "free") /\ row.event = handler[h].event))
    <3>1. ASSUME NEW e \in pending, Deliver(h, e)
          PROVE  \E row : handler' = [handler EXCEPT ![h] = row] /\ row.event \in pending
      <4>1. [Free EXCEPT !.pc = "claimed", !.event = e].event = e
        BY DEF Free
      <4> QED
        BY <3>1, <4>1 DEF Deliver, Advance
    <3>2. CASE ReadInvoice(h)
      <4>1. [handler[h] EXCEPT !.pc = "invoiced", !.paid = InvoicePaid(About(h), Kind(h))].event = handler[h].event
        BY <1>1 DEF HandlerRow
      <4>2. handler' = [handler EXCEPT ![h] =
                [handler[h] EXCEPT !.pc = "invoiced", !.paid = InvoicePaid(About(h), Kind(h))]]
            /\ ~At(h, "free")
        BY <3>2 DEF ReadInvoice, Advance, At
      <4> QED
        BY <4>1, <4>2
    <3>3. CASE Sync(h)
      <4>1. [handler[h] EXCEPT !.pc = "synced", !.snapshot = subscription[About(h)]].event = handler[h].event
        BY <1>1 DEF HandlerRow
      <4>2. handler' = [handler EXCEPT ![h] =
                [handler[h] EXCEPT !.pc = "synced", !.snapshot = subscription[About(h)]]]
            /\ ~At(h, "free")
        BY <3>3 DEF Sync, ReadyToSync, Advance, At
      <4> QED
        BY <4>1, <4>2
    <3>4. CASE Write(h)
      <4>1. [handler[h] EXCEPT !.pc = "writing", !.others = Others(About(h))].event = handler[h].event
        BY <1>1 DEF HandlerRow
      <4>2. handler' = [handler EXCEPT ![h] = [handler[h] EXCEPT !.pc = "writing", !.others = Others(About(h))]]
            /\ ~At(h, "free")
        BY <3>4 DEF Write, Advance, At
      <4> QED
        BY <4>1, <4>2
    <3>5. CASE Commit(h) \/ CommitExpired(h) \/ Fail(h)
      BY <3>5 DEF Commit, CommitExpired, Fail, Advance, Free
    <3> QED
      BY <3>1, <3>2, <3>3, <3>4, <3>5 DEF Handle
  <2>3. \A g \in Handlers : handler'[g] = IF g = h THEN row ELSE handler[g]
    BY <2>2, <1>1
  <2>4. row.pc = "free" \/ row.event.kind # "checkout_expired" \/ session[row.event.session] = "expired"
    BY <2>2, <1>2 DEF ExpiriesTrue, Kind, About
  <2> QED
    BY <2>1, <2>3, <2>4, <1>2, <1>5 DEF ExpiriesTrue, Kind, About, At
\* What becomes of a redemption
<1>7. ASSUME NEW a \in Attempts
      PROVE  /\ redemption'[a].state = "none" <=> redemption[a].state = "none"
             /\ redemption'[a].state \in Taken => redemption[a].state \in Taken
             /\ redemption[a].state \in Taken /\ redemption'[a].state \notin Taken => session[a] = "expired"
  <2>1. redemption[a] \in RedemptionRow
    BY <1>1
  <2>2. CASE UNCHANGED redemption
    BY <2>2
  <2>3. ASSUME NEW s, NEW r, Redeem(s, r), s # a PROVE UNCHANGED redemption[a]
    BY <1>1, <2>3 DEF Redeem
  <2>4. ASSUME NEW r, Redeem(a, r) PROVE redemption'[a] = r
    BY <1>1, <2>4 DEF Redeem
  <2>5. CASE CommitExpired(h)
    <3>1. About(h) = a => session[a] = "expired"
      BY <2>5, <1>2 DEF CommitExpired, ExpiriesTrue, At
    <3>2. CASE About(h) = a
      <4>1. redemption'[a] = AfterExpiry(redemption[a])
        BY <3>2, <2>5, <2>4 DEF CommitExpired
      <4> QED
        BY <4>1, <3>1, <3>2, <2>1, SlotsKept
    <3>3. CASE About(h) # a
      BY <3>3, <2>5, <2>3 DEF CommitExpired
    <3> QED
      BY <3>2, <3>3
  <2>6. CASE Commit(h)
    <3> DEFINE s == About(h)
               r == IF s \in Attempts THEN redemption[s] ELSE NoRedemption
    <3>1. \/ UNCHANGED redemption
          \/ \E b \in BOOLEAN : Redeem(s, AfterCompletion(r, b)) \/ Redeem(s, AfterPayment(r, b))
      <4> HIDE DEF s, r
      <4>1. Kind(h) \in Kinds \ {"checkout_expired"}
        BY <2>6 DEF Commit, Delivers, At, Events, Kind
      <4>2. CASE Kind(h) = "subscription_changed"
        <5>1. Kind(h) \notin InvoiceKinds /\ Kind(h) # "checkout_completed"
          BY <4>2 DEF InvoiceKinds
        <5> QED
          BY <2>6, <4>2, <5>1 DEF Commit, Reconcile
      <4>3. CASE Kind(h) = "checkout_completed"
        <5>1. Kind(h) \notin InvoiceKinds /\ Kind(h) # "subscription_changed"
          BY <4>3 DEF InvoiceKinds
        <5>2. Redeem(s, AfterCompletion(r, payments[s]["first"] = "succeeded"))
          BY <2>6, <4>3, <5>1 DEF Commit, Reconcile, s, r
        <5> QED
          BY <5>2
      <4>4. CASE Kind(h) \in InvoiceKinds
        <5>1. Redeem(s, AfterPayment(r, TRUE)) \/ UNCHANGED redemption
          BY <2>6, <4>4 DEF Commit, Reconcile, InvoiceKinds, s, r
        <5> QED
          BY <5>1
      <4> QED
        BY <4>1, <4>2, <4>3, <4>4 DEF Kinds, InvoiceKinds
    <3>2. ASSUME NEW b \in BOOLEAN, Redeem(s, AfterCompletion(r, b)) \/ Redeem(s, AfterPayment(r, b))
          PROVE  /\ redemption'[a].state = "none" <=> redemption[a].state = "none"
                 /\ redemption'[a].state \in Taken <=> redemption[a].state \in Taken
      <4>1. CASE s = a
        <5>1. redemption'[a] = AfterCompletion(redemption[a], b) \/ redemption'[a] = AfterPayment(redemption[a], b)
          BY <4>1, <3>2, <2>4
        <5> QED
          BY <5>1, <2>1, SlotsKept
      <4>2. CASE s # a
        BY <4>2, <3>2, <2>3
      <4> QED
        BY <4>1, <4>2
    <3> HIDE DEF s, r
    <3> QED
      BY <3>1, <3>2
  <2> QED
    BY <2>2, <2>5, <2>6 DEF Handle, Deliver, ReadInvoice, Sync, Write, Fail, Elsewhere, storeVars
<1>8. SlotsCapped'
  BY <1>2, <1>4, <1>7, FewerSlots
<1>9. DiscountsHaveSlots'
  BY <1>2, <1>4, <1>5, <1>7 DEF DiscountsHaveSlots
<1>10. RequestHasSlot'
  <2>1. request.pc \in Owning => Mine \in Attempts
    BY DEF PurchaseInv, RequestInv
  <2> QED
    BY <2>1, <1>2, <1>4, <1>5, <1>7 DEF RequestHasSlot, Mine, Promoted, Owning
<1> QED
  BY <1>6, <1>8, <1>9, <1>10 DEF DiscountInv

\* Every event is about a session.
LEMMA EventsKnown ==
  ASSUME TypeOK, Delivers
  PROVE  /\ \A e \in pending : e.session \in Sessions
         /\ \A h \in Handlers : ~At(h, "free") => About(h) \in Sessions
BY DEF TypeOK, ProviderTypeOK, Delivers, About, Events

\* The steps of the requests keep it: a slot is taken while one is left, and
\* given back by a request the provider did not execute.
LEMMA RequestsKeepDiscounts ==
  ASSUME TypeOK, TypeOK', Delivers, PurchaseInv, PurchaseInv', DiscountInv, CheckoutStep, UNCHANGED handler
  PROVE  DiscountInv'
<1>1. /\ redemption \in [Attempts -> RedemptionRow] /\ redemption' \in [Attempts -> RedemptionRow]
      /\ attempts \in [Sessions -> AttemptRow] /\ request \in RequestRow
      /\ session \in [Sessions -> {"none", "open", "complete", "expired"}]
      /\ Attempts \subseteq Sessions /\ Attempts \cap Legacies = {}
  BY ProviderAssumption
  DEF TypeOK, StoreTypeOK, RedemptionRow, CheckoutTypeOK, AttemptRow, RequestRow, ProviderTypeOK, Sessions
<1>2. DiscountsHaveSlots /\ SlotsCapped /\ RequestHasSlot /\ ExpiriesTrue /\ RequestInv
  BY DEF DiscountInv, PurchaseInv
<1>3. Slots = {a \in Attempts : redemption[a].state \in Taken}
      /\ Slots' = {a \in Attempts : redemption'[a].state \in Taken}
  BY DEF Slots, Taken
<1>4. /\ KeepProvider => UNCHANGED <<session, pending>>
      /\ KeepStore => UNCHANGED redemption
  BY DEF KeepProvider, providerVars, KeepStore, storeVars
<1>5. \A pc : Goto(pc) => request'.pc = pc /\ request'.attempt = request.attempt /\ request'.offer = request.offer
  BY <1>1 DEF Goto, RequestRow
<1>6. Idle.pc = "idle"
  BY DEF Idle
<1>7. UNCHANGED <<session, pending>> => ExpiriesTrue'
  BY <1>2 DEF ExpiriesTrue, Kind, About, At
<1>8. ASSUME UNCHANGED redemption PROVE Slots' = Slots /\ SlotsCapped'
  BY <1>2, <1>8 DEF Slots, SlotsCapped
\* Steps that leave the redemptions alone
<1>9. ASSUME UNCHANGED <<session, pending, redemption>>, RequestHasSlot',
             \A a \in Attempts : attempts'[a].offer = attempts[a].offer
                                 /\ (attempts'[a].state = "none" => attempts[a].state = "none")
      PROVE  DiscountInv'
  <2>1. DiscountsHaveSlots'
    BY <1>2, <1>8, <1>9 DEF DiscountsHaveSlots
  <2> QED
    BY <2>1, <1>7, <1>8, <1>9 DEF DiscountInv
\* Steps that change the redemption of the request
<1>10. ASSUME UNCHANGED <<session, pending, attempts>>, RequestHasSlot', SlotsCapped',
              \A a \in Slots \ Slots' : session[a] \notin {"open", "complete"}
       PROVE  DiscountInv'
  <2>1. DiscountsHaveSlots'
    BY <1>2, <1>3, <1>10 DEF DiscountsHaveSlots
  <2> QED
    BY <2>1, <1>7, <1>10 DEF DiscountInv
<1>11. ASSUME request'.pc \notin Owning PROVE RequestHasSlot'
  BY <1>11 DEF RequestHasSlot, Owning
<1>12. CASE \/ ListCheckouts \/ Release \/ Stop
            \/ \E o \in Offers : ListSubscriptions(o) \/ \E s \in Sessions : Supersede(o, s)
            \/ \E a \in Attempts : Age(a)
  <2>1. request'.pc \notin Owning /\ UNCHANGED <<session, pending, redemption>>
        /\ (UNCHANGED attempts \/ \E s : Attempt(s, "expired"))
    BY <1>12, <1>4, <1>5, <1>6
    DEF ListCheckouts, Release, Stop, ListSubscriptions, Supersede, Age, Owning, Now
  <2>2. \A a \in Attempts : attempts'[a].offer = attempts[a].offer
                            /\ (attempts'[a].state = "none" => attempts[a].state = "none")
    BY <2>1, <1>1 DEF Attempt, AttemptRow
  <2> QED
    BY <2>1, <2>2, <1>9, <1>11
<1>13. ASSUME NEW s \in Sessions, Adopt(s) PROVE DiscountInv'
  <2>1. request'.pc = "adopting" /\ request'.attempt = s /\ UNCHANGED <<session, pending, redemption>>
        /\ attempts' = [attempts EXCEPT ![s] = [state |-> "preparing", offer |-> "legacy", known |-> FALSE]]
    BY <1>13, <1>1, <1>4 DEF Adopt, RequestRow
  <2>2. s \in Legacies
    BY <2>1 DEF PurchaseInv, RequestInv, Now, Mine
  <2>3. \A a \in Attempts : attempts'[a] = attempts[a]
    BY <2>1, <2>2, <1>1
  <2> QED
    BY <2>1, <2>3, <1>9, <1>11 DEF Owning
<1>14. ASSUME NEW a \in Attempts, Retry(a) PROVE DiscountInv'
  <2>1. request' = [pc |-> "creating", offer |-> attempts[a].offer, attempt |-> a]
        /\ UNCHANGED <<attempts, session, pending, redemption>>
    BY <1>14, <1>4 DEF Retry
  <2>2. RequestHasSlot'
    BY <2>1 DEF RequestHasSlot, Mine
  <2> QED
    BY <2>1, <2>2, <1>9
<1>15. ASSUME NEW a \in Attempts, ReserveAttempt(a) PROVE DiscountInv'
  <2>1. /\ request'.pc = "creating" /\ request'.attempt = a /\ request'.offer = request.offer
        /\ attempts[a].state = "none" /\ UNCHANGED <<session, pending, redemption>>
        /\ attempts' = [attempts EXCEPT ![a] = [state |-> "preparing", offer |-> request.offer, known |-> FALSE]]
    BY <1>15, <1>1, <1>4 DEF ReserveAttempt, RequestRow
  <2>2. session[a] = "none"
    BY <2>1, <1>2 DEF DiscountsHaveSlots
  <2>3. \A b \in Attempts : attempts'[b] =
          IF b = a THEN [state |-> "preparing", offer |-> request.offer, known |-> FALSE] ELSE attempts[b]
    BY <2>1, <1>1
  <2>4. RequestHasSlot'
    BY <2>1, <2>3 DEF RequestHasSlot, Mine
  <2>5. DiscountsHaveSlots'
    BY <2>1, <2>2, <2>3, <1>2, <1>8 DEF DiscountsHaveSlots
  <2> QED
    BY <2>1, <2>4, <2>5, <1>7, <1>8 DEF DiscountInv
<1>16. CASE ReservePromotion
  <2>1. /\ request'.pc = "promised" /\ request'.attempt = request.attempt /\ request'.offer = request.offer
        /\ UNCHANGED <<attempts, session, pending>> /\ request.pc = "creating" /\ Mine \in Attempts
        /\ redemption' = [redemption EXCEPT ![Mine].state = "pending"]
        /\ (redemption[Mine].state = "pending" \/ (redemption[Mine].state = "none" /\ HasSlot))
    <3>1. request.pc = "creating" /\ Mine \in Attempts
      BY <1>16, <1>2 DEF ReservePromotion, Now, RequestInv, Owning
    <3>2. Goto("promised") /\ KeepProvider /\ UNCHANGED attempts
      BY <1>16 DEF ReservePromotion
    <3>3. /\ redemption' = [redemption EXCEPT ![Mine].state = "pending"]
          /\ (redemption[Mine].state = "pending" \/ (redemption[Mine].state = "none" /\ HasSlot))
      BY <1>16 DEF ReservePromotion
    <3> QED
      BY <3>1, <3>2, <3>3, <1>4, <1>5
  <2>2. \A a \in Attempts : redemption'[a].state = IF a = Mine THEN "pending" ELSE redemption[a].state
    BY <2>1, <1>1 DEF RedemptionRow
  <2>3. Slots' = Slots \cup {Mine}
    BY <2>1, <2>2, <1>3 DEF Taken
  <2>4. SlotsCapped'
    <3>1. CASE redemption[Mine].state = "pending"
      <4>1. Slots' \subseteq Slots
        BY <3>1, <2>1, <2>3, <1>3 DEF Taken
      <4> QED
        BY <4>1, <1>2, FewerSlots
    <3>2. CASE redemption[Mine].state = "none" /\ HasSlot
      <4>1. IsFiniteSet(Slots) /\ Mine \notin Slots
        BY <3>2, <1>3, CheckoutAssumption, FS_Subset DEF Taken, Slots
      <4>2. Cardinality(Slots \cup {Mine}) = Cardinality(Slots) + 1 /\ Cardinality(Slots) \in Nat
        BY <4>1, FS_AddElement, FS_CardinalityType
      <4>3. Cardinality(Slots) < MaxUses
        BY <3>2 DEF HasSlot
      <4> QED
        BY <4>2, <4>3, <2>3, StoreAssumption DEF SlotsCapped
    <3> QED
      BY <3>1, <3>2, <2>1
  <2>5. RequestHasSlot'
    BY <2>1, <2>2, <2>3, <1>2 DEF RequestHasSlot, Mine, Promoted, Owning
  <2> QED
    BY <2>1, <2>3, <2>4, <2>5, <1>10
<1>17. CASE BeginRequest
  <2>1. /\ request'.pc = "sending" /\ request'.attempt = request.attempt /\ request'.offer = request.offer
        /\ UNCHANGED <<attempts, session, pending>> /\ request.pc = "promised" /\ Mine \in Attempts
        /\ redemption' = [redemption EXCEPT ![Mine].started = TRUE]
    BY <1>17, <1>2, <1>4, <1>5 DEF BeginRequest, KeepProvider, providerVars, Now, RequestInv, Owning
  <2>2. \A a \in Attempts : redemption'[a].state = redemption[a].state
    BY <2>1, <1>1 DEF RedemptionRow
  <2>3. Slots' = Slots
    BY <2>2, <1>3
  <2>4. SlotsCapped'
    BY <2>3, <1>2 DEF SlotsCapped
  <2>5. RequestHasSlot'
    BY <2>1, <2>2, <2>3, <1>2 DEF RequestHasSlot, Mine, Promoted, Owning
  <2> QED
    BY <2>1, <2>3, <2>4, <2>5, <1>10
<1>18. CASE Prepare
  <2>1. /\ request'.pc = "sending" /\ request'.attempt = request.attempt /\ request'.offer = request.offer
        /\ UNCHANGED <<attempts, session, pending, redemption>> /\ request.pc = "creating" /\ ~Promoted
    BY <1>18, <1>4, <1>5 DEF Prepare, Now
  <2>2. RequestHasSlot'
    BY <2>1, <1>2 DEF RequestHasSlot, Mine, Promoted, Owning
  <2> QED
    BY <2>1, <2>2, <1>9
<1>19. CASE NotSent \/ Rejected \/ OpenFails
  <2>1. /\ request'.pc \in {"unknown", "rejected"} /\ request'.attempt = request.attempt
        /\ request'.offer = request.offer /\ request.pc \in {"sending", "accepted"}
        /\ UNCHANGED <<attempts, session, pending, redemption>>
    BY <1>19, <1>4, <1>5 DEF NotSent, Rejected, OpenFails, Now
  <2>2. RequestHasSlot'
    BY <2>1, <1>2 DEF RequestHasSlot, Mine, Promoted, Owning
  <2> QED
    BY <2>1, <2>2, <1>9
<1>20. CASE Accepted \/ AnswerLost
  <2>1. PICK answer \in {"accepted", "unknown"} : Submitted(answer)
    BY <1>20 DEF Accepted, AnswerLost
  <2>2. /\ request'.pc = answer /\ request'.attempt = request.attempt /\ request'.offer = request.offer
        /\ request.pc = "sending" /\ Mine \in Attempts /\ Active(Mine)
        /\ UNCHANGED <<attempts, pending, redemption>>
        /\ session' = [session EXCEPT ![Mine] = IF @ = "none" THEN "open" ELSE @]
    BY <2>1, <1>2, <1>4, <1>5 DEF Submitted, Now, RequestInv, Owning
  <2>3. \A s \in Sessions : session'[s] = IF s = Mine /\ session[s] = "none" THEN "open" ELSE session[s]
    BY <2>2, <1>1
  <2>4. RequestHasSlot'
    BY <2>2, <1>2 DEF RequestHasSlot, Mine, Promoted, Owning
  <2>5. DiscountsHaveSlots'
    <3>1. attempts[Mine].state # "none"
      BY <2>2 DEF Active
    <3>2. attempts[Mine].offer = "promoted" /\ session[Mine] = "none" => Mine \in Slots
      BY <2>2, <1>2 DEF RequestHasSlot, Promoted, Owning
    <3> QED
      BY <3>1, <3>2, <2>2, <2>3, <1>1, <1>2, <1>8 DEF DiscountsHaveSlots
  <2>6. ExpiriesTrue'
    <3>1. \A s \in Sessions : session[s] = "expired" => session'[s] = "expired"
      BY <2>3
    <3> QED
      BY <3>1, <2>2, <1>2, EventsKnown DEF ExpiriesTrue, Kind, About, At
  <2> QED
    BY <2>2, <2>4, <2>5, <2>6, <1>8 DEF DiscountInv
<1>21. CASE Opened
  <2>1. /\ UNCHANGED <<session, pending, redemption>>
        /\ attempts' = [attempts EXCEPT ![Mine].state = "open", ![Mine].known = TRUE]
        /\ \/ request'.pc = "idle"
           \/ /\ Now("accepted") /\ Promoted /\ request'.pc = "attaching"
              /\ request'.attempt = request.attempt /\ request'.offer = request.offer
    BY <1>21, <1>1, <1>4, <1>6 DEF Opened, RequestRow
  <2>2. \A s \in Sessions : attempts'[s].offer = attempts[s].offer
                            /\ (attempts'[s].state = "none" => attempts[s].state = "none")
    BY <2>1, <1>1 DEF AttemptRow
  <2>3. RequestHasSlot'
    <3>1. CASE request'.pc = "idle"
      BY <3>1, <1>11 DEF Owning
    <3>2. CASE Now("accepted") /\ request'.pc # "idle"
      <4>1. Mine \in Sessions
        BY <3>2, <1>1, <1>2 DEF RequestInv, Now, Owning
      <4> QED
        BY <4>1, <3>2, <2>1, <2>2, <1>2 DEF RequestHasSlot, Mine, Promoted, Owning, Now
    <3> QED
      BY <3>1, <3>2, <2>1
  <2> QED
    BY <2>1, <2>2, <2>3, <1>1, <1>9
<1>22. CASE Attach \/ MarkUnknown
  <2>1. /\ request'.pc = "idle" /\ UNCHANGED <<attempts, session, pending>> /\ Mine \in Attempts
        /\ redemption[Mine].state # "none"
        /\ \/ redemption' = [redemption EXCEPT ![Mine] = [redemption[Mine] EXCEPT !.bound = TRUE]]
           \/ redemption' = [redemption EXCEPT ![Mine] = SetState(redemption[Mine], "reconciliation_required")]
    <3>1. /\ request'.pc = "idle" /\ UNCHANGED <<attempts, session, pending>>
          /\ request.pc \in {"attaching", "unknown"} /\ Promoted
          /\ \/ redemption' = [redemption EXCEPT ![Mine] = [redemption[Mine] EXCEPT !.bound = TRUE]]
             \/ redemption' = [redemption EXCEPT ![Mine] = SetState(redemption[Mine], "reconciliation_required")]
      BY <1>22, <1>2, <1>4, <1>6 DEF Attach, MarkUnknown, Now, RequestHasSlot
    <3> QED
      BY <3>1, <1>2 DEF RequestInv, RequestHasSlot, Owning
  <2>2. redemption'[Mine].state \in Taken <=> redemption[Mine].state \in Taken
    <3>1. redemption[Mine] \in RedemptionRow
      BY <2>1, <1>1
    <3>2. [redemption[Mine] EXCEPT !.bound = TRUE].state = redemption[Mine].state
      BY <3>1 DEF RedemptionRow
    <3>3. SetState(redemption[Mine], "reconciliation_required").state \in Taken
            <=> redemption[Mine].state \in Taken
      BY <3>1, <2>1, SlotsKept
    <3> QED
      BY <3>2, <3>3, <2>1, <1>1
  <2>3. Slots' = Slots
    BY <2>1, <2>2, <1>1, <1>3
  <2>4. SlotsCapped'
    BY <2>3, <1>2 DEF SlotsCapped
  <2> QED
    BY <2>1, <2>3, <2>4, <1>10, <1>11 DEF Owning
<1>23. CASE RejectRedemption
  <2>1. /\ request'.pc = "releasing" /\ UNCHANGED <<attempts, session, pending>> /\ Mine \in Attempts
        /\ session[Mine] = "none"
        /\ \/ redemption' = [redemption EXCEPT ![Mine] = SetState(redemption[Mine], "rejected")]
           \/ UNCHANGED redemption
    BY <1>23, <1>2, <1>4, <1>5 DEF RejectRedemption, Now, RequestInv
  <2>2. Slots' \subseteq Slots /\ Slots \ Slots' \subseteq {Mine}
    <3>1. SetState(redemption[Mine], "rejected").state \in Taken => redemption[Mine].state \in Taken
      BY <2>1, <1>1 DEF SetState, Taken, RedemptionRow
    <3> QED
      BY <3>1, <2>1, <1>1, <1>3
  <2>3. SlotsCapped'
    BY <2>2, <1>2, FewerSlots
  <2> QED
    BY <2>1, <2>2, <2>3, <1>10, <1>11 DEF Owning
<1>24. ASSUME NEW s \in Sessions, Cancel(s) PROVE DiscountInv'
  <2>1. /\ UNCHANGED <<attempts, redemption>> /\ request'.pc = "cancelled" /\ Active(s)
        /\ \A t \in Sessions : session'[t] = IF t = s THEN "expired" ELSE session[t]
        /\ pending' \subseteq pending \cup {Event("checkout_expired", s, 0)}
    BY <1>24, <1>1, <1>4 DEF Cancel, Expired
  <2>2. DiscountsHaveSlots'
    BY <2>1, <1>1, <1>2, <1>8 DEF DiscountsHaveSlots, Active
  <2>3. ExpiriesTrue'
    BY <2>1, <1>2, EventsKnown DEF ExpiriesTrue, Kind, About, At, Event
  <2> QED
    BY <2>1, <2>2, <2>3, <1>8, <1>11 DEF DiscountInv, Owning
<1> QED
  BY <1>12, <1>13, <1>14, <1>15, <1>16, <1>17, <1>18, <1>19, <1>20, <1>21, <1>22, <1>23, <1>24
  DEF CheckoutStep, CreateCheckout

(* ---------------------------- The whole invariant ------------------------ *)

PaymentInv == TypeOK /\ Delivers /\ RecordsInv /\ PurchaseInv /\ DiscountInv

\* At first no attempt was made, nothing is recorded and nothing was paid.
LEMMA InitPaymentInv == Init => PaymentInv
<1> SUFFICES ASSUME Init PROVE PaymentInv
  OBVIOUS
<1>1. TypeOK /\ Delivers
  BY InitTypeOK
<1>2. /\ subscription = [s \in Sessions |-> NoSubscription] /\ recorded = [s \in Sessions |-> NoSubscription]
      /\ \A h \in Handlers : handler[h].pc = "free"
      /\ attempts = [s \in Sessions |-> NoAttempt] /\ request = Idle /\ old = {} /\ second = {}
      /\ redemption = [a \in Attempts |-> NoRedemption] /\ pending = {}
  BY DEF Init, ProviderInit, StoreInit, CheckoutInit, Free
<1>3. \A a \in Attempts : session[a] = "none"
  BY ProviderAssumption DEF Init, ProviderInit, Sessions
<1>4. RecordsInv
  BY <1>2 DEF RecordsInv, Follows, Holds, NoSubscription
<1>5. \A s \in Sessions : ~Active(s)
  BY <1>2 DEF Active, NoAttempt
<1>6. request.pc = "idle"
  BY <1>2 DEF Idle
<1>7. PurchaseInv
  <2>1. OwnOffers
    BY <1>2 DEF OwnOffers, NoAttempt, Sessions, Offers
  <2> QED
    BY <2>1, <1>2, <1>3, <1>5, <1>6 DEF PurchaseInv, RequestInv, AttemptsInv, LegaciesInv, Owning, Now
<1>8. DiscountInv
  <2>1. Slots = {}
    BY <1>2 DEF Slots, NoRedemption
  <2>2. SlotsCapped
    BY <2>1, FS_EmptySet, StoreAssumption DEF SlotsCapped
  <2> QED
    BY <2>2, <1>2, <1>3, <1>6 DEF DiscountInv, DiscountsHaveSlots, RequestHasSlot, ExpiriesTrue, Owning, At
<1> QED
  BY <1>1, <1>4, <1>7, <1>8 DEF PaymentInv

\* Every step keeps the invariant, and leads a record to a later state.
LEMMA NextPaymentInv ==
  ASSUME PaymentInv, [Next]_vars
  PROVE  /\ PaymentInv'
         /\ \A s \in Sessions : recorded'[s].version >= recorded[s].version
<1>1. TypeOK /\ Delivers /\ RecordsInv /\ PurchaseInv /\ DiscountInv
  BY DEF PaymentInv
<1>2. ProviderTypeOK /\ StoreTypeOK /\ CheckoutTypeOK /\ recorded \in [Sessions -> SubscriptionRow]
  BY <1>1 DEF TypeOK, StoreTypeOK, SubscriptionRow, Statuses
<1>3. UNCHANGED recorded => \A s \in Sessions : recorded'[s].version >= recorded[s].version
  BY <1>2 DEF SubscriptionRow
<1>4. CASE ProviderStep /\ UNCHANGED <<storeVars, checkoutVars, handler>>
  <2>1. PICK s \in Sessions : Complete(s) \/ Expired(s) \/ RenewalFails(s) \/ RenewalPaid(s) \/ Ends(s)
    BY <1>4 DEF ProviderStep
  <2>2. UNCHANGED <<recorded, assignment, payments, redemption, attempts, old, request, missed, second, handler>>
    BY <1>4 DEF storeVars, checkoutVars
  <2>3. TypeOK' /\ Delivers'
    <3>1. ProviderTypeOK'
      BY <2>1, <1>2, ProviderTyped
    <3>2. StoreTypeOK' /\ CheckoutTypeOK'
      BY <2>2, <1>2 DEF StoreTypeOK, CheckoutTypeOK
    <3> QED
      BY <3>1, <3>2, <2>2, <1>1 DEF TypeOK, Delivers, At, Kind
  <2>4. RecordsInv'
    BY <2>1, <2>2, <2>3, <1>1, ProviderMoves, ProviderKeepsRecords
  <2>5. PurchaseInv'
    <3>1. \A t \in Sessions : Over(t) => Over(t)'
      BY <2>1, <2>2, <1>1, ProviderMoves DEF Over, RecordedEnded
    <3> QED
      BY <3>1, <2>1, <1>1, <1>4, ProviderMoves, OthersKeepPurchase
  <2>6. DiscountInv'
    BY <1>1, <1>4, ProviderKeepsDiscounts
  <2> QED
    BY <2>2, <2>3, <2>4, <2>5, <2>6, <1>3 DEF PaymentInv
<1>5. CASE CheckoutStep /\ UNCHANGED handler
  <2>1. TypeOK' /\ Delivers'
    <3>1. ProviderTypeOK' /\ StoreTypeOK' /\ CheckoutTypeOK'
      BY <1>1, <1>2, <1>5, CheckoutStepTypeOK DEF PurchaseInv, AttemptsInv
    <3> QED
      BY <3>1, <1>1, <1>5 DEF TypeOK, Delivers, At, Kind
  <2>2. UNCHANGED recorded
    BY <1>5 DEF CheckoutStep, CreateCheckout, ListSubscriptions, ListCheckouts, Adopt, Supersede, Retry,
                ReserveAttempt, ReservePromotion, BeginRequest, Prepare, Accepted, AnswerLost, Submitted,
                NotSent, Rejected, Opened, OpenFails, Attach, MarkUnknown, RejectRedemption, Release,
                Cancel, Stop, Age, KeepStore, storeVars, KeepRecords
  <2>3. /\ \A t \in Sessions : session'[t] # "complete" => subscription'[t] = NoSubscription
        /\ \A t \in Sessions : Follows(subscription[t], subscription'[t])
    <3>1. CASE \E s \in Sessions : Expired(s)
      BY <3>1, <1>1, ProviderMoves
    <3>2. CASE UNCHANGED subscription /\ \A t \in Sessions : session'[t] # "complete" => session[t] # "complete"
      <4>1. subscription \in [Sessions -> SubscriptionRow]
        BY <1>2 DEF ProviderTypeOK, SubscriptionRow, Statuses
      <4> QED
        BY <4>1, <3>2, <1>1, FollowsIsOrder DEF RecordsInv
    <3>3. CASE UNCHANGED <<session, subscription>>
      BY <3>2, <3>3
    <3>4. CASE \E answer : Submitted(answer)
      <4>1. UNCHANGED subscription /\ session' = [session EXCEPT ![Mine] = IF @ = "none" THEN "open" ELSE @]
        BY <3>4 DEF Submitted
      <4>2. \A t \in Sessions : session'[t] # "complete" => session[t] # "complete"
        BY <4>1, <1>2 DEF ProviderTypeOK
      <4> QED
        BY <4>1, <4>2, <3>2
    <3> QED
      BY <3>1, <3>3, <3>4, <1>5
      DEF CheckoutStep, CreateCheckout, ListSubscriptions, ListCheckouts, Adopt, Supersede, Retry,
          ReserveAttempt, ReservePromotion, BeginRequest, Prepare, Accepted, AnswerLost,
          NotSent, Rejected, Opened, OpenFails, Attach, MarkUnknown, RejectRedemption, Release,
          Cancel, Stop, Age, KeepProvider, providerVars
  <2>4. RecordsInv'
    BY <2>1, <2>2, <2>3, <1>1, <1>5, ProviderKeepsRecords
  <2>5. PurchaseInv'
    BY <1>1, <1>5, RequestsKeepPurchase
  <2>6. DiscountInv'
    BY <2>1, <2>5, <1>1, <1>5, RequestsKeepDiscounts
  <2> QED
    BY <2>1, <2>2, <2>4, <2>5, <2>6, <1>3 DEF PaymentInv
<1>6. ASSUME NEW h \in Handlers, Handle(h)
      PROVE  PaymentInv' /\ \A s \in Sessions : recorded'[s].version >= recorded[s].version
  <2>1. TypeOK' /\ Delivers'
    BY <1>1, <1>6, HandleTypeOK
  <2>2. /\ RecordsInv' /\ UNCHANGED <<session, subscription>>
        /\ \A s \in Sessions : Follows(recorded[s], recorded'[s])
    BY <1>1, <1>6, HandleKeepsRecords
  <2>3. UNCHANGED checkoutVars
    BY <1>6 DEF Handle, Deliver, ReadInvoice, Sync, Write, Commit, CommitExpired, Fail, Elsewhere
  <2>4. PurchaseInv'
    <3>1. \A t \in Sessions : Over(t) => Over(t)'
      BY <2>2 DEF Over, RecordedEnded, Follows
    <3> QED
      BY <3>1, <2>2, <2>3, <1>1, OthersKeepPurchase
  <2>5. DiscountInv'
    BY <2>1, <1>1, <1>6, HandleKeepsDiscounts
  <2>6. \A s \in Sessions : recorded'[s].version >= recorded[s].version
    <3>1. recorded' \in [Sessions -> SubscriptionRow]
      BY <2>1 DEF TypeOK, StoreTypeOK, SubscriptionRow, Statuses
    <3> QED
      BY <3>1, <2>2, <1>2 DEF Follows, SubscriptionRow
  <2> QED
    BY <2>1, <2>2, <2>4, <2>5, <2>6 DEF PaymentInv
<1>7. CASE UNCHANGED vars
  <2>1. UNCHANGED <<session, subscription, renewal, pending, recorded, assignment, payments, redemption,
                    attempts, old, request, missed, second, handler>>
    BY <1>7 DEF vars, providerVars, storeVars, checkoutVars
  <2>2. TypeOK' /\ Delivers'
    BY <2>1, <1>1 DEF TypeOK, ProviderTypeOK, StoreTypeOK, CheckoutTypeOK, Delivers, At, Kind
  <2>3. RecordsInv'
    BY <2>1, <1>1 DEF RecordsInv, Holds, About
  <2>4. PurchaseInv'
    BY <2>1, <1>1, OthersKeepPurchase DEF checkoutVars, Over, RecordedEnded
  <2>5. DiscountInv'
    BY <2>1, <1>1 DEF DiscountInv, SlotsCapped, Slots, DiscountsHaveSlots, RequestHasSlot, ExpiriesTrue,
                      Mine, Promoted, Kind, About, At
  <2> QED
    BY <2>1, <2>2, <2>3, <2>4, <2>5, <1>3 DEF PaymentInv
<1> QED
  BY <1>4, <1>5, <1>6, <1>7 DEF Next

(* --------------------------- What is still owed -------------------------- *)

\* The event of the newest change of a subscription waits for delivery.
ChangeDue(s) == Event("subscription_changed", s, subscription[s].version) \in pending
Due(kind, s) == Event(kind, s, 0) \in pending

\* An event is no newer than the subscription, and every one but an expiry is
\* of a session that was paid.
EventTrue(e) ==
    /\ e.kind = "subscription_changed" => e.version <= subscription[e.session].version
    /\ e.kind # "checkout_expired" => session[e.session] = "complete"

\* What a delivery has read is as new as its event, and the provider's own
\* state unless a newer change waits.
ReadIsDue(h) ==
    /\ Kind(h) = "subscription_changed" => handler[h].event.version <= handler[h].snapshot.version
    /\ handler[h].snapshot.version = subscription[About(h)].version => handler[h].snapshot = subscription[About(h)]
    /\ handler[h].snapshot # subscription[About(h)] => ChangeDue(About(h))

RecordIsDue(s) ==
    /\ recorded[s] # subscription[s] => ChangeDue(s)
    /\ Recorded(s) => session[s] = "complete"

PaymentIsDue(s) ==
    /\ session[s] = "complete" => payments[s]["first"] = "succeeded" \/ Due("first_settled", s)
    /\ renewal[s] = "paid" => payments[s]["renewal"] = "succeeded" \/ Due("renewal_settled", s)
    /\ s \in Attempts /\ attempts[s].offer = "promoted" /\ session[s] = "complete"
         => redemption[s].state = "settled" \/ Due("first_settled", s)

\* Whatever the tables do not say yet, an event that is still to be delivered
\* will make them say.
EventsInv ==
    /\ \A e \in pending : EventTrue(e)
    /\ \A h \in Handlers : ~At(h, "free") => EventTrue(handler[h].event)
    /\ \A h \in Handlers : Holds(h) => ReadIsDue(h)
    /\ \A s \in Sessions : RecordIsDue(s) /\ PaymentIsDue(s)

\* A step of the provider changes one session, and owes the events that say so.
ProviderOwes(s) ==
    /\ \A t \in Sessions \ {s} : /\ session'[t] = session[t] /\ subscription'[t] = subscription[t]
                                 /\ renewal'[t] = renewal[t]
    /\ \A e : e \in pending /\ (e.session # s \/ e.kind # "subscription_changed") => e \in pending'
    /\ \/ subscription'[s] = subscription[s] /\ pending \subseteq pending'
       \/ subscription'[s].version = subscription[s].version + 1 /\ ChangeDue(s)'
    /\ session'[s] = "complete" /\ session[s] # "complete" => Due("first_settled", s)'
    /\ renewal'[s] = "paid" /\ renewal[s] # "paid" => Due("renewal_settled", s)'
    /\ \A e \in pending' \ pending : EventTrue(e)'
    /\ \A t \in Sessions : session[t] = "complete" => session'[t] = "complete"

LEMMA ProviderStepOwes ==
  ASSUME TypeOK, RecordsInv, NEW s \in Sessions,
         Complete(s) \/ Expired(s) \/ RenewalFails(s) \/ RenewalPaid(s) \/ Ends(s)
  PROVE  ProviderOwes(s)
<1>1. /\ session \in [Sessions -> {"none", "open", "complete", "expired"}]
      /\ subscription \in [Sessions -> SubscriptionRow] /\ renewal \in [Sessions -> {"none", "open", "paid"}]
      /\ \A t \in Sessions : session[t] # "complete" => subscription[t] = NoSubscription
  BY DEF TypeOK, ProviderTypeOK, SubscriptionRow, Statuses, RecordsInv
<1>2. NoSubscription.version = 0 /\ NoSubscription.status = "none"
  BY DEF NoSubscription
<1>3. \A k, t, v : /\ Event(k, t, v).kind = k /\ Event(k, t, v).session = t /\ Event(k, t, v).version = v
  BY DEF Event
<1>4. CASE Complete(s)
  <2>1. /\ session[s] = "open" /\ session' = [session EXCEPT ![s] = "complete"] /\ renewal' = renewal
        /\ subscription' = [subscription EXCEPT ![s] = [status |-> "active", version |-> 1]]
        /\ pending' = pending \cup {Event("checkout_completed", s, 0), Event("subscription_changed", s, 1),
                                    Event("first_settled", s, 0)}
    BY <1>4 DEF Complete
  <2>2. session'[s] = "complete" /\ subscription'[s].version = 1 /\ subscription[s].version = 0
    BY <2>1, <1>1, <1>2
  <2>3. ChangeDue(s)' /\ Due("first_settled", s)'
    BY <2>1, <2>2 DEF ChangeDue, Due
  <2>4. \A e \in pending' \ pending : EventTrue(e)'
    BY <2>1, <2>2, <1>3 DEF EventTrue
  <2> QED
    BY <2>1, <2>2, <2>3, <2>4, <1>1 DEF ProviderOwes
<1>5. CASE Expired(s)
  <2>1. /\ session[s] = "open" /\ session' = [session EXCEPT ![s] = "expired"] /\ renewal' = renewal
        /\ subscription' = subscription /\ pending' = pending \cup {Event("checkout_expired", s, 0)}
    BY <1>5 DEF Expired
  <2>2. \A e \in pending' \ pending : EventTrue(e)'
    BY <2>1, <1>3 DEF EventTrue
  <2> QED
    BY <2>1, <2>2, <1>1 DEF ProviderOwes
<1>6. ASSUME NEW status, NEW events, Changed(s, status, events), Live(s), session' = session,
             \A e \in events : e.kind \notin {"subscription_changed", "checkout_expired"} /\ e.session = s,
             \A t \in Sessions \ {s} : renewal'[t] = renewal[t],
             renewal'[s] = "paid" /\ renewal[s] # "paid" => Event("renewal_settled", s, 0) \in events
      PROVE  ProviderOwes(s)
  <2>1. /\ subscription' = [subscription EXCEPT ![s] = [status |-> status, version |-> subscription[s].version + 1]]
        /\ pending' = (pending \ Changes(s)) \cup {Event("subscription_changed", s, subscription[s].version + 1)}
                        \cup events
    BY <1>6 DEF Changed
  <2>2. session[s] = "complete" /\ subscription'[s].version = subscription[s].version + 1
    BY <2>1, <1>1, <1>2, <1>6 DEF Live, CurrentStatuses
  <2>3. ChangeDue(s)' /\ (renewal'[s] = "paid" /\ renewal[s] # "paid" => Due("renewal_settled", s)')
    BY <2>1, <2>2, <1>6 DEF ChangeDue, Due
  <2>4. \A e \in pending' \ pending : EventTrue(e)'
    <3>1. subscription[s].version + 1 <= subscription'[s].version
      BY <2>2, <1>1 DEF SubscriptionRow
    <3> QED
      BY <3>1, <2>1, <2>2, <1>3, <1>6 DEF EventTrue
  <2>5. \A e : e \in pending /\ (e.session # s \/ e.kind # "subscription_changed") => e \in pending'
    BY <2>1 DEF Changes
  <2> QED
    BY <2>1, <2>2, <2>3, <2>4, <2>5, <1>1, <1>6 DEF ProviderOwes
<1>7. CASE RenewalFails(s)
  <2>1. /\ Changed(s, "past_due", {Event("renewal_failed", s, 0)}) /\ Live(s) /\ session' = session
        /\ renewal' = [renewal EXCEPT ![s] = "open"]
    BY <1>7 DEF RenewalFails, Changed, Live, CurrentStatuses
  <2> QED
    BY <2>1, <1>1, <1>3, <1>6
<1>8. CASE RenewalPaid(s)
  <2>1. /\ Changed(s, "active", {Event("renewal_settled", s, 0)}) /\ Live(s) /\ session' = session
        /\ renewal' = [renewal EXCEPT ![s] = "paid"]
    BY <1>8 DEF RenewalPaid, Changed, Live, CurrentStatuses
  <2> QED
    BY <2>1, <1>1, <1>3, <1>6
<1>9. CASE Ends(s)
  <2>1. Changed(s, "cancelled", {}) /\ Live(s) /\ session' = session /\ renewal' = renewal
    BY <1>9 DEF Ends, Changed
  <2> QED
    BY <2>1, <1>1, <1>6
<1> QED
  BY <1>4, <1>5, <1>7, <1>8, <1>9

\* What the provider owes keeps what is owed.
LEMMA OwedKept ==
  ASSUME TypeOK, TypeOK', Delivers, RecordsInv, EventsInv, NEW s \in Sessions, ProviderOwes(s),
         UNCHANGED <<recorded, payments, handler>>,
         \A a \in Attempts : attempts'[a].offer = "promoted" /\ session[a] # "none" => attempts[a].offer = "promoted",
         \A a \in Attempts : session'[a] = "complete" => session[a] # "none",
         \A a \in Attempts : redemption[a].state = "settled" => redemption'[a].state = "settled"
  PROVE  EventsInv'
<1>1. /\ subscription \in [Sessions -> SubscriptionRow] /\ subscription' \in [Sessions -> SubscriptionRow]
      /\ handler \in [Handlers -> HandlerRow] /\ pending \subseteq Events /\ Attempts \subseteq Sessions
  BY DEF TypeOK, ProviderTypeOK, SubscriptionRow, HandlerRow, Statuses, Sessions
<1>2. \A t \in Sessions : /\ subscription[t].version \in Nat
                          /\ subscription[t].version <= subscription'[t].version
                          /\ session[t] = "complete" => session'[t] = "complete"
  BY <1>1 DEF ProviderOwes, SubscriptionRow
<1>3. ASSUME NEW e \in Events, EventTrue(e) PROVE EventTrue(e)'
  <2>1. e.session \in Sessions /\ e.version \in Nat
    BY DEF Events
  <2> QED
    BY <2>1, <1>1, <1>2, <1>3 DEF EventTrue, SubscriptionRow
<1>4. \A e \in pending' : EventTrue(e)'
  BY <1>1, <1>3 DEF ProviderOwes, EventsInv
<1>5. \A h \in Handlers : ~At(h, "free")' => EventTrue(handler[h].event)'
  BY <1>3 DEF EventsInv, Delivers, At
\* The subscription is the same, or its newest change waits
<1>6. ASSUME NEW t \in Sessions
      PROVE  \/ subscription'[t] = subscription[t] /\ (ChangeDue(t) => ChangeDue(t)')
             \/ subscription'[t].version = subscription[t].version + 1 /\ ChangeDue(t)'
  <2>1. CASE t = s
    BY <2>1 DEF ProviderOwes, ChangeDue
  <2>2. CASE t # s
    <3>1. subscription'[t] = subscription[t]
      BY <2>2 DEF ProviderOwes
    <3>2. Event("subscription_changed", t, subscription[t].version).session # s
      BY <2>2 DEF Event
    <3> QED
      BY <3>1, <3>2 DEF ProviderOwes, ChangeDue
  <2> QED
    BY <2>1, <2>2
<1>7. ASSUME NEW h \in Handlers, Holds(h)' PROVE ReadIsDue(h)'
  <2>1. About(h) \in Sessions /\ handler[h].snapshot \in SubscriptionRow
    BY <1>1, <1>7 DEF Delivers, At, Holds, Events, About, HandlerRow
  <2>2. ReadIsDue(h) /\ handler[h].snapshot.version <= subscription[About(h)].version
    BY <1>7 DEF EventsInv, Holds, RecordsInv, Follows
  <2>3. PICK t \in Sessions : t = About(h)
    BY <2>1
  <2>4. CASE subscription'[t] = subscription[t] /\ (ChangeDue(t) => ChangeDue(t)')
    BY <2>2, <2>3, <2>4 DEF ReadIsDue, About, Kind
  <2>5. CASE subscription'[t].version = subscription[t].version + 1 /\ ChangeDue(t)'
    <3>1. handler[h].snapshot.version # subscription'[t].version
      BY <2>1, <2>2, <2>3, <2>5, <1>2 DEF SubscriptionRow
    <3> QED
      BY <3>1, <2>2, <2>3, <2>5 DEF ReadIsDue, About, Kind
  <2> QED
    BY <2>4, <2>5, <1>6
<1>8. ASSUME NEW t \in Sessions PROVE RecordIsDue(t)'
  <2>1. RecordIsDue(t)
    BY DEF EventsInv
  <2> QED
    BY <2>1, <1>2, <1>6 DEF RecordIsDue, Recorded
<1>9. ASSUME NEW t \in Sessions PROVE PaymentIsDue(t)'
  <2>1. PaymentIsDue(t)
    BY DEF EventsInv
  <2>2. /\ Due("first_settled", t) => Due("first_settled", t)'
        /\ Due("renewal_settled", t) => Due("renewal_settled", t)'
    BY DEF ProviderOwes, Due, Event
  <2>3. /\ session'[t] = "complete" /\ session[t] # "complete" => Due("first_settled", t)'
        /\ renewal'[t] = "paid" /\ renewal[t] # "paid" => Due("renewal_settled", t)'
    BY DEF ProviderOwes
  <2> QED
    BY <2>1, <2>2, <2>3 DEF PaymentIsDue
<1> QED
  BY <1>4, <1>5, <1>7, <1>8, <1>9 DEF EventsInv

\* A request owes nothing of its own, and gives back no settled redemption.
LEMMA RequestsKeepOwed ==
  ASSUME PaymentInv, TypeOK', EventsInv, CheckoutStep, UNCHANGED handler PROVE EventsInv'
<1>1. /\ TypeOK /\ Delivers /\ RecordsInv /\ PurchaseInv /\ DiscountInv
  BY DEF PaymentInv
<1>2. /\ attempts \in [Sessions -> AttemptRow] /\ request \in RequestRow /\ redemption \in [Attempts -> RedemptionRow]
      /\ session \in [Sessions -> {"none", "open", "complete", "expired"}]
      /\ Attempts \subseteq Sessions /\ Attempts \cap Legacies = {}
  BY <1>1, ProviderAssumption
  DEF TypeOK, CheckoutTypeOK, AttemptRow, RequestRow, StoreTypeOK, RedemptionRow, ProviderTypeOK, Sessions
<1>3. UNCHANGED <<recorded, payments>>
  BY DEF CheckoutStep, CreateCheckout, ListSubscriptions, ListCheckouts, Adopt, Supersede, Retry,
         ReserveAttempt, ReservePromotion, BeginRequest, Prepare, Accepted, AnswerLost, Submitted,
         NotSent, Rejected, Opened, OpenFails, Attach, MarkUnknown, RejectRedemption, Release,
         Cancel, Stop, Age, KeepStore, storeVars, KeepRecords
\* An attempt that has a session keeps its offer
<1>4. ASSUME NEW a \in Attempts, session[a] # "none" PROVE attempts'[a].offer = "promoted" => attempts[a].offer = "promoted"
  <2>1. attempts[a].state # "none"
    BY <1>1, <1>4 DEF DiscountInv, DiscountsHaveSlots
  <2>2. CASE UNCHANGED attempts
    BY <2>2
  <2>3. CASE \E s : Attempt(s, "expired")
    BY <2>3, <1>2 DEF Attempt, AttemptRow
  <2>4. CASE Opened
    BY <2>4, <1>2 DEF Opened, AttemptRow
  <2>5. ASSUME NEW s \in Sessions, Adopt(s) PROVE attempts'[a].offer = "promoted" => attempts[a].offer = "promoted"
    BY <2>5, <1>2 DEF Adopt
  <2>6. ASSUME NEW b \in Attempts, ReserveAttempt(b) PROVE attempts'[a].offer = "promoted" => attempts[a].offer = "promoted"
    BY <2>1, <2>6, <1>2 DEF ReserveAttempt
  <2> QED
    BY <2>2, <2>3, <2>4, <2>5, <2>6
    DEF CheckoutStep, CreateCheckout, ListSubscriptions, ListCheckouts, Supersede, Retry,
        ReservePromotion, BeginRequest, Prepare, Accepted, AnswerLost, Submitted,
        NotSent, Rejected, OpenFails, Attach, MarkUnknown, RejectRedemption, Release, Cancel, Stop, Age
<1>5. ASSUME NEW a \in Attempts, redemption[a].state = "settled" PROVE redemption'[a].state = "settled"
  <2>1. CASE UNCHANGED redemption
    BY <1>5, <2>1
  <2>2. CASE ReservePromotion
    BY <1>2, <1>5, <2>2 DEF ReservePromotion
  <2>3. CASE BeginRequest
    BY <1>2, <1>5, <2>3 DEF BeginRequest, RedemptionRow
  <2>4. CASE Attach
    BY <1>2, <1>5, <2>4 DEF Attach, SetState, RedemptionRow
  <2>5. CASE MarkUnknown \/ RejectRedemption
    BY <1>2, <1>5, <2>5 DEF MarkUnknown, RejectRedemption, SetState
  <2> QED
    BY <2>1, <2>2, <2>3, <2>4, <2>5
    DEF CheckoutStep, CreateCheckout, ListSubscriptions, ListCheckouts, Adopt, Supersede, Retry,
        ReserveAttempt, Prepare, Accepted, AnswerLost, Submitted, NotSent, Rejected, Opened,
        OpenFails, Release, Cancel, Stop, Age, KeepStore, storeVars
<1>6. ASSUME NEW s \in Sessions, ProviderOwes(s), \A a \in Attempts : session'[a] = "complete" => session[a] # "none"
      PROVE  EventsInv'
  BY <1>1, <1>3, <1>4, <1>5, <1>6, OwedKept
<1>7. ASSUME NEW s \in Sessions, Expired(s) PROVE EventsInv'
  <2>1. \A a \in Attempts : session'[a] = "complete" => session[a] # "none"
    BY <1>2, <1>7 DEF Expired
  <2> QED
    BY <2>1, <1>1, <1>6, <1>7, ProviderStepOwes
<1>8. ASSUME UNCHANGED <<subscription, renewal, pending>>,
             \A t \in Sessions : session'[t] = "complete" <=> session[t] = "complete"
      PROVE  EventsInv'
  <2>1. pending \subseteq Events
    BY <1>1 DEF TypeOK, ProviderTypeOK
  <2>2. ASSUME NEW e \in Events, EventTrue(e) PROVE EventTrue(e)'
    BY <1>8, <2>2 DEF EventTrue, Events
  <2>3. ASSUME NEW h \in Handlers, Holds(h)' PROVE ReadIsDue(h)'
    BY <1>8, <2>3 DEF EventsInv, Holds, ReadIsDue, About, Kind, ChangeDue
  <2>4. ASSUME NEW t \in Sessions PROVE RecordIsDue(t)'
    BY <1>3, <1>8 DEF EventsInv, RecordIsDue, Recorded, ChangeDue
  <2>5. ASSUME NEW t \in Sessions PROVE PaymentIsDue(t)'
    <3>1. PaymentIsDue(t)
      BY DEF EventsInv
    <3> QED
      BY <3>1, <1>3, <1>4, <1>5, <1>8 DEF PaymentIsDue, Due
  <2>6. \A h \in Handlers : ~At(h, "free")' => EventTrue(handler[h].event)'
    BY <1>1, <2>2 DEF EventsInv, Delivers, At
  <2> QED
    BY <2>1, <2>2, <2>3, <2>4, <2>5, <2>6, <1>8 DEF EventsInv
<1>9. CASE UNCHANGED providerVars
  BY <1>8, <1>9 DEF providerVars
<1>10. ASSUME NEW answer, Submitted(answer) PROVE EventsInv'
  <2>1. \A t \in Sessions : session'[t] = "complete" <=> session[t] = "complete"
    BY <1>2, <1>10 DEF Submitted
  <2> QED
    BY <2>1, <1>8, <1>10 DEF Submitted
<1> QED
  BY <1>7, <1>9, <1>10
  DEF CheckoutStep, CreateCheckout, ListSubscriptions, ListCheckouts, Adopt, Supersede, Retry,
      ReserveAttempt, ReservePromotion, BeginRequest, Prepare, Accepted, AnswerLost, NotSent, Rejected, Opened,
      OpenFails, Attach, MarkUnknown, RejectRedemption, Release, Cancel, Stop, Age, KeepProvider

\* What the commit of a delivery books, it need not be told again.
LEMMA CommitBooks ==
  ASSUME TypeOK, Delivers, DiscountInv, EventsInv, NEW h \in Handlers, Commit(h), NEW t \in Sessions
  PROVE  /\ \A i \in Invoices : payments[t][i] = "succeeded" => payments'[t][i] = "succeeded"
         /\ t = About(h) /\ Kind(h) = "first_settled" => payments'[t]["first"] = "succeeded"
         /\ t = About(h) /\ Kind(h) = "renewal_settled" => payments'[t]["renewal"] = "succeeded"
         /\ t \in Attempts /\ redemption[t].state = "settled" => redemption'[t].state = "settled"
         /\ t \in Attempts /\ attempts[t].offer = "promoted" /\ session[t] = "complete"
              /\ t = About(h) /\ Kind(h) = "first_settled" => redemption'[t].state = "settled"
<1>1. /\ payments \in [Sessions -> [Invoices -> {"none", "failed", "succeeded"}]]
      /\ redemption \in [Attempts -> RedemptionRow] /\ About(h) \in Sessions
  BY DEF TypeOK, StoreTypeOK, RedemptionRow, Commit, Delivers, At, About, Events
<1>2. Kind(h) \in Kinds \ {"checkout_expired"}
  BY DEF Commit, Delivers, At, Events, Kind
<1> DEFINE s == About(h)
           r == IF s \in Attempts THEN redemption[s] ELSE NoRedemption
<1>3. ASSUME NEW a \in Attempts, redemption[a].state = "settled", NEW b \in BOOLEAN
      PROVE  AfterPayment(redemption[a], b).state = "settled" /\ AfterCompletion(redemption[a], b).state = "settled"
  <2>1. redemption[a] \in RedemptionRow
    BY <1>1
  <2>2. [redemption[a] EXCEPT !.bound = TRUE].state = "settled"
    BY <2>1, <1>3 DEF RedemptionRow
  <2> QED
    BY <2>2, <1>3 DEF AfterPayment, AfterCompletion, SetState
<1>4. ASSUME NEW q, Redeem(s, q)
      PROVE  t \in Attempts => redemption'[t] = IF t = s THEN q ELSE redemption[t]
  BY <1>1, <1>4 DEF Redeem
<1> HIDE DEF s
<1>5. CASE Kind(h) = "subscription_changed"
  <2>1. UNCHANGED <<payments, redemption>>
    <3>1. Kind(h) \notin InvoiceKinds /\ Kind(h) # "checkout_completed"
      BY <1>5 DEF InvoiceKinds
    <3> QED
      BY <1>5, <3>1 DEF Commit, Reconcile
  <2> QED
    BY <2>1, <1>5
<1>6. CASE Kind(h) = "checkout_completed"
  <2>1. UNCHANGED payments /\ Redeem(s, AfterCompletion(r, payments[s]["first"] = "succeeded"))
    <3>1. Kind(h) \notin InvoiceKinds /\ Kind(h) # "subscription_changed"
      BY <1>6 DEF InvoiceKinds
    <3> QED
      BY <1>6, <3>1 DEF Commit, Reconcile, s
  <2>2. t \in Attempts /\ redemption[t].state = "settled" => redemption'[t].state = "settled"
    BY <2>1, <1>3, <1>4
  <2> QED
    BY <2>1, <2>2, <1>6
<1>7. CASE Kind(h) \in InvoiceKinds
  <2>1. /\ payments' = Paid(s, InvoiceOf(Kind(h)), handler[h].paid)
        /\ handler[h].paid \/ Kind(h) = "renewal_failed"
        /\ IF InvoiceOf(Kind(h)) = "first" THEN Redeem(s, AfterPayment(r, TRUE)) ELSE UNCHANGED redemption
    BY <1>7 DEF Commit, Reconcile, InvoiceKinds, s
  <2>2. /\ Kind(h) = "first_settled" <=> InvoiceOf(Kind(h)) = "first"
        /\ InvoiceOf(Kind(h)) \in Invoices
        /\ Kind(h) = "renewal_settled" => InvoiceOf(Kind(h)) = "renewal"
    BY DEF InvoiceOf, Invoices
  <2>3. /\ \A i \in Invoices : payments[t][i] = "succeeded" => payments'[t][i] = "succeeded"
        /\ t = s /\ handler[h].paid => payments'[t][InvoiceOf(Kind(h))] = "succeeded"
    BY <2>1, <2>2, <1>1 DEF Paid
  <2>4. t \in Attempts /\ redemption[t].state = "settled" => redemption'[t].state = "settled"
    BY <2>1, <1>3, <1>4
  <2>5. t \in Attempts /\ attempts[t].offer = "promoted" /\ session[t] = "complete"
          /\ t = s /\ Kind(h) = "first_settled" => redemption'[t].state = "settled"
    <3> SUFFICES ASSUME t \in Attempts, attempts[t].offer = "promoted", session[t] = "complete",
                        t = s, Kind(h) = "first_settled"
                 PROVE  redemption'[t].state = "settled"
      OBVIOUS
    <3>1. redemption[t].state \in Taken /\ redemption[t] \in RedemptionRow
      BY <1>1 DEF DiscountInv, DiscountsHaveSlots, Slots, Taken
    <3>2. redemption'[t] = AfterPayment(redemption[t], TRUE)
      BY <2>1, <2>2, <1>4
    <3>3. AfterPayment(redemption[t], TRUE).state = "settled"
      BY <3>1 DEF AfterPayment, SetState, Taken, RedemptionRow
    <3> QED
      BY <3>2, <3>3
  <2> QED
    BY <2>1, <2>2, <2>3, <2>4, <2>5, <1>7 DEF s
<1> QED
  BY <1>2, <1>5, <1>6, <1>7 DEF Kinds, InvoiceKinds

\* A delivery tells of what it was owed for, or nothing was lost.
LEMMA HandleKeepsOwed ==
  ASSUME PaymentInv, TypeOK', EventsInv, NEW h \in Handlers, Handle(h) PROVE EventsInv'
<1>1. TypeOK /\ Delivers /\ RecordsInv /\ DiscountInv
  BY DEF PaymentInv
<1>2. /\ handler \in [Handlers -> HandlerRow] /\ handler[h] \in HandlerRow /\ pending \subseteq Events
      /\ subscription \in [Sessions -> SubscriptionRow] /\ recorded \in [Sessions -> SubscriptionRow]
  BY <1>1 DEF TypeOK, HandlerRow, ProviderTypeOK, StoreTypeOK, SubscriptionRow, Statuses
<1>3. ~At(h, "free") => /\ handler[h].event \in Events /\ About(h) \in Sessions
                        /\ EventTrue(handler[h].event)
  BY <1>1 DEF Delivers, About, Events, EventsInv
<1>4. UNCHANGED <<session, subscription>> => \A e : EventTrue(e)' <=> EventTrue(e)
  BY DEF EventTrue
<1>5. Free.pc = "free"
  BY DEF Free
\* A step that writes nothing
<1>6. ASSUME Elsewhere, NEW row, Advance(h, row), row.pc = "free" \/ EventTrue(row.event),
             row.pc \in {"synced", "writing"} => ReadIsDue(h)'
      PROVE  EventsInv'
  <2>1. UNCHANGED <<session, subscription, renewal, pending, recorded, payments, redemption, attempts>>
    BY <1>6 DEF Elsewhere, providerVars, storeVars, checkoutVars
  <2>2. \A g \in Handlers : handler'[g] = IF g = h THEN row ELSE handler[g]
    BY <1>2, <1>6 DEF Advance
  <2>3. \A g \in Handlers : ~At(g, "free")' => EventTrue(handler[g].event)'
    BY <2>1, <2>2, <1>4, <1>6 DEF EventsInv, At
  <2>4. ASSUME NEW g \in Handlers, Holds(g)' PROVE ReadIsDue(g)'
    BY <2>1, <2>2, <2>4, <1>6 DEF EventsInv, Holds, ReadIsDue, About, Kind, ChangeDue
  <2>5. \A t \in Sessions : RecordIsDue(t)' /\ PaymentIsDue(t)'
    BY <2>1 DEF EventsInv, RecordIsDue, PaymentIsDue, Recorded, ChangeDue, Due
  <2> QED
    BY <2>1, <2>3, <2>4, <2>5, <1>4 DEF EventsInv
<1>7. ASSUME NEW e \in pending, Deliver(h, e) PROVE EventsInv'
  <2> DEFINE row == [Free EXCEPT !.pc = "claimed", !.event = e]
  <2>1. Elsewhere /\ Advance(h, row) /\ row.pc = "claimed" /\ row.event = e
    BY <1>7 DEF Deliver, Free
  <2> HIDE DEF row
  <2>2. EventTrue(row.event)
    BY <2>1 DEF EventsInv
  <2> QED
    BY <2>1, <2>2, <1>6
<1>8. CASE ReadInvoice(h)
  <2> DEFINE row == [handler[h] EXCEPT !.pc = "invoiced", !.paid = InvoicePaid(About(h), Kind(h))]
  <2>1. Elsewhere /\ Advance(h, row) /\ row.pc = "invoiced" /\ row.event = handler[h].event /\ ~At(h, "free")
    BY <1>8, <1>2 DEF ReadInvoice, HandlerRow, At
  <2> HIDE DEF row
  <2> QED
    BY <2>1, <1>3, <1>6
<1>9. CASE Fail(h)
  BY <1>9, <1>5, <1>6 DEF Fail
<1>10. CASE Sync(h)
  <2> DEFINE row == [handler[h] EXCEPT !.pc = "synced", !.snapshot = subscription[About(h)]]
  <2>1. /\ row.event = handler[h].event /\ row.snapshot = subscription[About(h)]
        /\ Elsewhere /\ Advance(h, row) /\ ~At(h, "free")
    BY <1>10, <1>2 DEF Sync, ReadyToSync, HandlerRow, At
  <2> HIDE DEF row
  <2>2. handler'[h] = row /\ UNCHANGED <<subscription, pending>>
    BY <2>1, <1>2 DEF Advance, Elsewhere, providerVars
  <2>3. ReadIsDue(h)'
    BY <2>1, <2>2, <1>3 DEF ReadIsDue, About, Kind, EventTrue
  <2> QED
    BY <2>1, <2>3, <1>3, <1>6
<1>11. CASE Write(h)
  <2> DEFINE row == [handler[h] EXCEPT !.pc = "writing", !.others = Others(About(h))]
  <2>1. /\ row.event = handler[h].event /\ row.snapshot = handler[h].snapshot
        /\ Elsewhere /\ Advance(h, row) /\ ~At(h, "free") /\ Holds(h)
    BY <1>11, <1>2 DEF Write, HandlerRow, At, Holds
  <2> HIDE DEF row
  <2>2. handler'[h] = row /\ UNCHANGED <<subscription, pending>>
    BY <2>1, <1>2 DEF Advance, Elsewhere, providerVars
  <2>3. ReadIsDue(h)'
    BY <2>1, <2>2 DEF EventsInv, ReadIsDue, About, Kind, ChangeDue
  <2> QED
    BY <2>1, <2>3, <1>3, <1>6
\* A step that acknowledges its event
<1>12. ASSUME Advance(h, Free), pending' = pending \ {handler[h].event}, UNCHANGED <<session, subscription>>
       PROVE  /\ \A e \in pending' : EventTrue(e)'
              /\ \A g \in Handlers : ~At(g, "free")' => EventTrue(handler[g].event)'
              /\ \A g \in Handlers : Holds(g)' => g # h /\ Holds(g) /\ handler'[g] = handler[g] /\ ReadIsDue(g)
  <2>1. \A g \in Handlers : handler'[g] = IF g = h THEN Free ELSE handler[g]
    BY <1>2, <1>12 DEF Advance
  <2> QED
    BY <2>1, <1>4, <1>5, <1>12 DEF EventsInv, At, Holds
<1>13. CASE CommitExpired(h)
  <2>1. /\ Advance(h, Free) /\ pending' = pending \ {handler[h].event} /\ Kind(h) = "checkout_expired"
        /\ UNCHANGED <<session, subscription, renewal, recorded, payments, attempts>>
    BY <1>13 DEF CommitExpired, checkoutVars
  <2>2. \A k, t, v : k # "checkout_expired" /\ Event(k, t, v) \in pending => Event(k, t, v) \in pending'
    BY <2>1 DEF Kind, Event
  <2>3. ASSUME NEW t \in Sessions
        PROVE  /\ ChangeDue(t) => ChangeDue(t)'
               /\ Due("first_settled", t) => Due("first_settled", t)'
               /\ Due("renewal_settled", t) => Due("renewal_settled", t)'
    BY <2>1, <2>2 DEF ChangeDue, Due
  <2>4. ASSUME NEW a \in Attempts, redemption[a].state = "settled" PROVE redemption'[a].state = "settled"
    <3>1. redemption[a] \in RedemptionRow /\ redemption \in [Attempts -> RedemptionRow]
      BY <1>1 DEF TypeOK, StoreTypeOK, RedemptionRow
    <3>2. AfterExpiry(redemption[a]).state = "settled"
      BY <3>1, <2>4 DEF AfterExpiry, RedemptionRow
    <3> QED
      BY <3>1, <3>2, <2>4, <1>13 DEF CommitExpired, Redeem
  <2>5. ASSUME NEW g \in Handlers, Holds(g)' PROVE ReadIsDue(g)'
    <3>1. ReadIsDue(g) /\ handler'[g] = handler[g] /\ Holds(g)
      BY <2>1, <2>5, <1>12
    <3>2. About(g) \in Sessions
      BY <3>1, <1>1 DEF Delivers, About, Events, Holds, At
    <3>3. PICK t \in Sessions : t = About(g)
      BY <3>2
    <3> QED
      BY <3>1, <3>3, <2>1, <2>3 DEF ReadIsDue, About, Kind
  <2>6. ASSUME NEW t \in Sessions PROVE RecordIsDue(t)' /\ PaymentIsDue(t)'
    <3>1. RecordIsDue(t) /\ PaymentIsDue(t)
      BY DEF EventsInv
    <3> QED
      BY <3>1, <2>1, <2>3, <2>4 DEF RecordIsDue, PaymentIsDue, Recorded
  <2> QED
    BY <2>1, <2>5, <2>6, <1>12 DEF EventsInv
<1>14. CASE Commit(h)
  <2>1. PICK s \in Sessions : s = About(h)
    BY <1>14, <1>3 DEF Commit, At
  <2>2. /\ Advance(h, Free) /\ pending' = pending \ {handler[h].event} /\ Holds(h) /\ ~At(h, "free")
        /\ UNCHANGED <<session, subscription, renewal, attempts>>
        /\ recorded' = [recorded EXCEPT ![s] = handler[h].snapshot]
    BY <1>14, <2>1 DEF Commit, checkoutVars, Holds, At
  <2>3. ASSUME NEW t \in Sessions, t # s
        PROVE  /\ recorded'[t] = recorded[t]
               /\ ChangeDue(t) => ChangeDue(t)'
               /\ Due("first_settled", t) => Due("first_settled", t)'
               /\ Due("renewal_settled", t) => Due("renewal_settled", t)'
    BY <2>1, <2>2, <2>3, <1>2 DEF ChangeDue, Due, Event, About
  <2>4. /\ Due("first_settled", s) /\ Kind(h) # "first_settled" => Due("first_settled", s)'
        /\ Due("renewal_settled", s) /\ Kind(h) # "renewal_settled" => Due("renewal_settled", s)'
    BY <2>2 DEF Due, Event, Kind
  <2>5. RecordIsDue(s)'
    <3>1. recorded'[s] = handler[h].snapshot /\ session'[s] = "complete"
      <4>1. handler[h].event.kind # "checkout_expired"
        BY <2>2, <1>1 DEF Delivers, Holds, At, Kind
      <4> QED
        BY <4>1, <2>1, <2>2, <1>2, <1>3 DEF EventTrue, About
    <3>2. ASSUME handler[h].snapshot # subscription[s] PROVE ChangeDue(s)'
      <4>1. /\ ChangeDue(s) /\ handler[h].snapshot.version # subscription[s].version
            /\ Kind(h) = "subscription_changed" => handler[h].event.version <= handler[h].snapshot.version
        BY <2>1, <2>2, <3>2 DEF EventsInv, ReadIsDue
      <4>2. handler[h].snapshot.version <= subscription[s].version
        BY <2>1, <2>2, <1>1 DEF RecordsInv, Follows
      <4>3. handler[h].snapshot.version \in Nat /\ subscription[s].version \in Nat
        BY <1>2 DEF HandlerRow, SubscriptionRow
      <4>4. handler[h].event \in Events
        BY <2>2, <1>3
      <4>5. Kind(h) = "subscription_changed" => handler[h].event.version < subscription[s].version
        BY <4>1, <4>2, <4>3, <4>4 DEF Events
      <4>6. handler[h].event # Event("subscription_changed", s, subscription[s].version)
        BY <4>3, <4>4, <4>5 DEF Event, Kind, Events
      <4> QED
        BY <4>1, <4>6, <2>2 DEF ChangeDue
    <3> QED
      BY <3>1, <3>2, <2>2 DEF RecordIsDue
  <2>6. ASSUME NEW t \in Sessions PROVE RecordIsDue(t)'
    <3>1. CASE t = s
      BY <3>1, <2>5
    <3>2. CASE t # s
      <4>1. RecordIsDue(t)
        BY DEF EventsInv
      <4> QED
        BY <4>1, <3>2, <2>2, <2>3 DEF RecordIsDue, Recorded
    <3> QED
      BY <3>1, <3>2
  <2>7. ASSUME NEW t \in Sessions PROVE PaymentIsDue(t)'
    <3>1. PaymentIsDue(t)
      BY DEF EventsInv
    <3>2. /\ \A i \in Invoices : payments[t][i] = "succeeded" => payments'[t][i] = "succeeded"
          /\ t = s /\ Kind(h) = "first_settled" => payments'[t]["first"] = "succeeded"
          /\ t = s /\ Kind(h) = "renewal_settled" => payments'[t]["renewal"] = "succeeded"
          /\ t \in Attempts /\ redemption[t].state = "settled" => redemption'[t].state = "settled"
          /\ t \in Attempts /\ attempts[t].offer = "promoted" /\ session[t] = "complete"
               /\ t = s /\ Kind(h) = "first_settled" => redemption'[t].state = "settled"
      BY <2>1, <1>1, <1>14, CommitBooks
    <3>3. "first" \in Invoices /\ "renewal" \in Invoices
      BY DEF Invoices
    <3> QED
      BY <3>1, <3>2, <3>3, <2>2, <2>3, <2>4 DEF PaymentIsDue
  <2>8. ASSUME NEW g \in Handlers, Holds(g)' PROVE ReadIsDue(g)'
    <3>1. ReadIsDue(g) /\ handler'[g] = handler[g] /\ Holds(g) /\ g # h
      BY <2>2, <2>8, <1>12
    <3>2. About(g) \in Sessions /\ About(g) # s
      BY <3>1, <2>1, <2>2, <1>1 DEF Delivers, About, Events, Holds, At, RecordsInv
    <3>3. PICK t \in Sessions : t = About(g) /\ t # s
      BY <3>2
    <3>4. ChangeDue(t) => ChangeDue(t)'
      BY <3>3, <2>3
    <3> QED
      BY <3>1, <3>3, <3>4, <2>2 DEF ReadIsDue, About, Kind
  <2> QED
    BY <2>2, <2>6, <2>7, <2>8, <1>12 DEF EventsInv
<1> QED
  BY <1>7, <1>8, <1>9, <1>10, <1>11, <1>13, <1>14 DEF Handle

LEMMA InitEventsInv == Init => EventsInv
<1> SUFFICES ASSUME Init PROVE EventsInv
  OBVIOUS
<1>1. /\ pending = {} /\ \A h \in Handlers : handler[h].pc = "free"
      /\ subscription = [s \in Sessions |-> NoSubscription] /\ recorded = [s \in Sessions |-> NoSubscription]
      /\ renewal = [s \in Sessions |-> "none"] /\ \A s \in Sessions : session[s] \in {"open", "none"}
  BY DEF Init, ProviderInit, StoreInit, Free
<1>2. \A h \in Handlers : ~Holds(h) /\ At(h, "free")
  BY <1>1 DEF Holds, At
<1>3. \A s \in Sessions : RecordIsDue(s) /\ PaymentIsDue(s)
  BY <1>1 DEF RecordIsDue, PaymentIsDue, Recorded, NoSubscription, CurrentStatuses
<1> QED
  BY <1>1, <1>2, <1>3 DEF EventsInv

LEMMA NextEventsInv == PaymentInv /\ EventsInv /\ [Next]_vars => EventsInv'
<1> SUFFICES ASSUME PaymentInv, EventsInv, [Next]_vars PROVE EventsInv'
  OBVIOUS
<1>1. TypeOK /\ TypeOK' /\ Delivers /\ RecordsInv
  BY NextPaymentInv DEF PaymentInv
<1>2. CASE ProviderStep /\ UNCHANGED <<storeVars, checkoutVars, handler>>
  <2>1. PICK s \in Sessions : Complete(s) \/ Expired(s) \/ RenewalFails(s) \/ RenewalPaid(s) \/ Ends(s)
    BY <1>2 DEF ProviderStep
  <2>2. ProviderOwes(s)
    BY <2>1, <1>1, ProviderStepOwes
  <2>3. UNCHANGED <<recorded, payments, redemption, attempts, handler>>
    BY <1>2 DEF storeVars, checkoutVars
  <2>4. \A a \in Attempts : session'[a] = "complete" => session[a] # "none"
    <3>1. Attempts \subseteq Sessions
      BY DEF Sessions
    <3> QED
      BY <3>1, <2>1, <1>1, ProviderMoves
  <2> QED
    BY <2>2, <2>3, <2>4, <1>1, OwedKept
<1>3. CASE CheckoutStep /\ UNCHANGED handler
  BY <1>1, <1>3, RequestsKeepOwed
<1>4. ASSUME NEW h \in Handlers, Handle(h) PROVE EventsInv'
  BY <1>1, <1>4, HandleKeepsOwed
<1>5. CASE UNCHANGED vars
  BY <1>5 DEF vars, providerVars, storeVars, checkoutVars, EventsInv, EventTrue, At, Holds, ReadIsDue, Kind, About,
              RecordIsDue, PaymentIsDue, ChangeDue, Due, Recorded
<1> QED
  BY <1>2, <1>3, <1>4, <1>5 DEF Next

(* ----------------------- The plan that is in force ----------------------- *)

\* The company's lock makes the check for another subscription good until the
\* commit.
WritingInv ==
    /\ \A h \in Handlers : At(h, "writing") => handler[h].others = Others(About(h))
    /\ \A g, h \in Handlers : At(g, "writing") /\ At(h, "writing") => g = h

\* Where no session was missed, one session at most is in the way of another
\* purchase; so one subscription at most is recorded as current.
LEMMA OneInTheWay ==
  ASSUME PaymentInv, missed = {}, OneOlder, NEW s \in Sessions, NEW t \in Sessions, InTheWay(s), InTheWay(t)
  PROVE  s = t
<1>1. AttemptsInv /\ LegaciesInv
  BY DEF PaymentInv, PurchaseInv
<1>2. \A a \in Attempts : a \in Sessions /\ (InTheWay(a) => Active(a))
  BY <1>1 DEF AttemptsInv, InTheWay, Sessions
<1>3. \A a \in Attempts, l \in Legacies : InTheWay(a) /\ InTheWay(l) => l = a
  BY <1>1, <1>2 DEF LegaciesInv, ClearedBut
<1>4. \A k, l \in Legacies : InTheWay(k) /\ InTheWay(l) => k = l
  BY DEF OneOlder, InTheWay
<1>5. \A a, b \in Attempts : InTheWay(a) /\ InTheWay(b) => a = b
  BY <1>1, <1>2 DEF AttemptsInv
<1> QED
  BY <1>3, <1>4, <1>5 DEF Sessions

\* What a step of the requests or of the provider leaves alone.
LEMMA NoPlanChanged ==
  ASSUME PaymentInv, [Next]_vars, ~\E h \in Handlers : Handle(h)
  PROVE  /\ UNCHANGED <<recorded, assignment, handler>> /\ missed \subseteq missed' /\ (OneOlder' => OneOlder)
<1>1. /\ session \in [Sessions -> {"none", "open", "complete", "expired"}] /\ Legacies \subseteq Sessions
      /\ TypeOK /\ RecordsInv
  BY DEF PaymentInv, TypeOK, ProviderTypeOK, Sessions
<1>2. UNCHANGED session => (OneOlder' => OneOlder)
  BY DEF OneOlder
<1>3. ASSUME NEW s \in Sessions, Complete(s) \/ Expired(s) \/ RenewalFails(s) \/ RenewalPaid(s) \/ Ends(s)
      PROVE  OneOlder' => OneOlder
  <2>1. \A t \in Sessions : session[t] = "none" <=> session'[t] = "none"
    BY <1>1, <1>3, ProviderMoves
  <2> QED
    BY <2>1, <1>1 DEF OneOlder
<1>4. CASE ProviderStep /\ UNCHANGED <<storeVars, checkoutVars, handler>>
  BY <1>3, <1>4 DEF ProviderStep, storeVars, checkoutVars
<1>5. CASE CheckoutStep /\ UNCHANGED handler
  <2>1. UNCHANGED <<recorded, assignment>> /\ missed \subseteq missed'
    BY <1>5 DEF CheckoutStep, CreateCheckout, ListSubscriptions, ListCheckouts, Adopt, Supersede, Retry,
                ReserveAttempt, ReservePromotion, BeginRequest, Prepare, Accepted, AnswerLost, Submitted,
                NotSent, Rejected, Opened, OpenFails, Attach, MarkUnknown, RejectRedemption, Release,
                Cancel, Stop, Age, KeepStore, storeVars, KeepRecords, KeepHistory
  <2>2. CASE UNCHANGED session
    BY <2>1, <2>2, <1>2, <1>5
  <2>3. CASE \E answer : Submitted(answer)
    <3>1. \A l \in Legacies : session[l] # "none" => session'[l] # "none"
      BY <2>3, <1>1 DEF Submitted
    <3> QED
      BY <3>1, <2>1, <1>5 DEF OneOlder
  <2>4. CASE \E s \in Sessions : Expired(s)
    BY <2>1, <2>4, <1>3, <1>5
  <2> QED
    BY <2>2, <2>3, <2>4, <1>5
    DEF CheckoutStep, CreateCheckout, ListSubscriptions, ListCheckouts, Adopt, Supersede, Retry,
        ReserveAttempt, ReservePromotion, BeginRequest, Prepare, Accepted, AnswerLost,
        NotSent, Rejected, Opened, OpenFails, Attach, MarkUnknown, RejectRedemption, Release,
        Cancel, Stop, Age, KeepProvider, providerVars
<1>6. CASE UNCHANGED vars
  BY <1>2, <1>6 DEF vars, storeVars, checkoutVars, providerVars
<1> QED
  BY <1>4, <1>5, <1>6 DEF Next

LEMMA NextWritingInv == PaymentInv /\ WritingInv /\ [Next]_vars => WritingInv'
<1> SUFFICES ASSUME PaymentInv, WritingInv, [Next]_vars PROVE WritingInv'
  OBVIOUS
<1>1. handler \in [Handlers -> HandlerRow] /\ Free.pc = "free"
  BY DEF PaymentInv, TypeOK, HandlerRow, SubscriptionRow, Statuses, Free
<1>2. CASE ~\E h \in Handlers : Handle(h)
  BY <1>2, NoPlanChanged DEF WritingInv, At, Others, Recorded, About
<1>3. ASSUME NEW h \in Handlers, Handle(h) PROVE WritingInv'
  <2>1. ASSUME NEW row, Advance(h, row), row.pc # "writing", UNCHANGED recorded \/ At(h, "writing")
        PROVE  WritingInv'
    <3>1. \A g \in Handlers : handler'[g] = IF g = h THEN row ELSE handler[g]
      BY <2>1, <1>1 DEF Advance
    <3>2. \A g \in Handlers : At(g, "writing")' => g # h /\ At(g, "writing") /\ handler'[g] = handler[g]
      BY <2>1, <3>1 DEF At
    <3>3. UNCHANGED recorded \/ ~\E g \in Handlers : At(g, "writing")'
      BY <2>1, <3>2 DEF WritingInv
    <3> QED
      BY <3>2, <3>3 DEF WritingInv, Others, Recorded, About
  <2>2. CASE Write(h)
    <3> DEFINE row == [handler[h] EXCEPT !.pc = "writing", !.others = Others(About(h))]
    <3>1. /\ row.event = handler[h].event /\ row.others = Others(About(h)) /\ UNCHANGED recorded
          /\ Advance(h, row) /\ \A g \in Handlers : ~At(g, "writing")
      BY <2>2, <1>1 DEF Write, HandlerRow, Elsewhere, storeVars
    <3> HIDE DEF row
    <3>2. \A g \in Handlers : handler'[g] = IF g = h THEN row ELSE handler[g]
      BY <3>1, <1>1 DEF Advance
    <3>3. \A g \in Handlers : At(g, "writing")' => g = h
      BY <3>1, <3>2 DEF At
    <3>4. handler'[h].others = Others(About(h))'
      BY <3>1, <3>2 DEF Others, Recorded, About
    <3> QED
      BY <3>3, <3>4 DEF WritingInv
  <2>3. CASE \E e \in pending : Deliver(h, e)
    BY <2>1, <2>3 DEF Deliver, Free, Elsewhere, storeVars
  <2>4. CASE ReadInvoice(h)
    <3>1. [handler[h] EXCEPT !.pc = "invoiced", !.paid = InvoicePaid(About(h), Kind(h))].pc = "invoiced"
      BY <1>1 DEF HandlerRow
    <3> QED
      BY <3>1, <2>1, <2>4 DEF ReadInvoice, Elsewhere, storeVars
  <2>5. CASE Sync(h)
    <3>1. [handler[h] EXCEPT !.pc = "synced", !.snapshot = subscription[About(h)]].pc = "synced"
      BY <1>1 DEF HandlerRow
    <3> QED
      BY <3>1, <2>1, <2>5 DEF Sync, Elsewhere, storeVars
  <2>6. CASE Commit(h) \/ CommitExpired(h) \/ Fail(h)
    BY <2>1, <2>6, <1>1 DEF Commit, CommitExpired, Fail, Elsewhere, storeVars
  <2> QED
    BY <2>2, <2>3, <2>4, <2>5, <2>6, <1>3 DEF Handle
<1> QED
  BY <1>2, <1>3

LEMMA NextAssigned ==
  PaymentInv /\ EventsInv /\ WritingInv /\ AssignmentFollows /\ [Next]_vars => AssignmentFollows'
<1> SUFFICES ASSUME PaymentInv, EventsInv, WritingInv, AssignmentFollows, [Next]_vars,
                    missed' = {}, OneOlder', NEW t \in Sessions, Recorded(t)'
             PROVE  assignment' = [session |-> t, status |-> recorded'[t].status]
  BY DEF AssignmentFollows
<1>1. CASE ~\E h \in Handlers : Handle(h)
  BY <1>1, NoPlanChanged DEF AssignmentFollows, Recorded
<1>2. ASSUME NEW h \in Handlers, Handle(h) PROVE assignment' = [session |-> t, status |-> recorded'[t].status]
  <2>1. missed = {} /\ OneOlder
    BY <1>2 DEF Handle, Deliver, ReadInvoice, Sync, Write, Commit, CommitExpired, Fail, Elsewhere,
                providerVars, checkoutVars, OneOlder
  <2>2. \A u \in Sessions : Recorded(u) => assignment = [session |-> u, status |-> recorded[u].status]
    BY <2>1 DEF AssignmentFollows
  <2>3. CASE UNCHANGED <<recorded, assignment>>
    BY <2>2, <2>3 DEF Recorded
  <2>4. CASE Commit(h)
    <3>1. PICK s \in Sessions : s = About(h)
      BY <2>4 DEF PaymentInv, Delivers, About, Events, Commit, At
    <3>2. /\ At(h, "writing") /\ Holds(h) /\ ~At(h, "free") /\ UNCHANGED session
          /\ recorded' = [recorded EXCEPT ![s] = handler[h].snapshot]
          /\ assignment' = Assigned(s, handler[h].snapshot.status, handler[h].others)
      BY <2>4, <3>1 DEF Commit, Holds, At
    <3>3. handler[h].others = \E u \in Sessions \ {s} : Recorded(u)
      BY <3>1, <3>2 DEF WritingInv, Others
    <3>4. recorded \in [Sessions -> SubscriptionRow]
      BY DEF PaymentInv, TypeOK, StoreTypeOK, SubscriptionRow, Statuses
    <3>5. \A u \in Sessions : recorded'[u] = IF u = s THEN handler[h].snapshot ELSE recorded[u]
      BY <3>2, <3>4
    \* Another subscription is recorded: then this one has ended
    <3>6. CASE handler[h].others
      <4>1. PICK u \in Sessions \ {s} : Recorded(u)
        BY <3>3, <3>6
      <4>2. InTheWay(u)
        BY <4>1 DEF EventsInv, RecordIsDue, InTheWay, Over, Recorded, RecordedEnded, CurrentStatuses
      <4>3. t # s
        <5> SUFFICES ASSUME t = s PROVE FALSE
          OBVIOUS
        <5>1. handler[h].snapshot.status \in CurrentStatuses
          BY <3>5 DEF Recorded
        <5>2. recorded[s].status # "cancelled"
          <6>1. Follows(recorded[s], handler[h].snapshot)
            BY <3>1, <3>2 DEF PaymentInv, RecordsInv
          <6> QED
            BY <6>1, <5>1 DEF Follows, CurrentStatuses
        <5>3. session[s] = "complete"
          <6>1. handler[h].event.kind # "checkout_expired" /\ EventTrue(handler[h].event)
            BY <3>2 DEF PaymentInv, Delivers, EventsInv, Kind, At
          <6> QED
            BY <6>1, <3>1 DEF EventTrue, About
        <5>4. InTheWay(s)
          BY <5>2, <5>3 DEF InTheWay, Over, RecordedEnded
        <5> QED
          BY <5>4, <4>1, <4>2, <2>1, OneInTheWay
      <4>4. Recorded(t) /\ recorded'[t] = recorded[t]
        BY <4>3, <3>5 DEF Recorded
      <4> QED
        BY <4>4, <2>2, <3>2, <3>6 DEF Assigned
    <3>7. CASE ~handler[h].others
      <4>1. t = s
        BY <3>3, <3>5, <3>7 DEF Recorded
      <4>2. handler[h].snapshot.status \in CurrentStatuses /\ recorded'[t].status = handler[h].snapshot.status
        BY <4>1, <3>5 DEF Recorded
      <4> QED
        BY <4>1, <4>2, <3>2, <3>7 DEF Assigned
    <3> QED
      BY <3>6, <3>7
  <2> QED
    BY <2>3, <2>4, <1>2 DEF Handle, Deliver, ReadInvoice, Sync, Write, CommitExpired, Fail, Elsewhere, storeVars
<1> QED
  BY <1>1, <1>2

(* --------------------------------- Theorems ------------------------------ *)

\* Every reachable state is well typed.
THEOREM TypeCorrect == Spec => []TypeOK
<1>1. PaymentInv => TypeOK
  BY DEF PaymentInv
<1> QED
  BY <1>1, InitPaymentInv, NextPaymentInv, PTL DEF Spec

\* A late, repeated or concurrent event never rolls a subscription back.
THEOREM NeverRolledBack == Spec => RecordNeverOlder
<1>1. PaymentInv /\ [Next]_vars => PaymentInv' /\ [\A s \in Sessions : recorded'[s].version >= recorded[s].version]_vars
  BY NextPaymentInv
<1> QED
  BY <1>1, InitPaymentInv, PTL DEF Spec, RecordNeverOlder

\* A company buys once, over crashes, lost answers, cancellations and retries,
\* but for an older session that was paid between the two lists.
THEOREM BoughtOnce == Spec => []OnePurchase
<1>1. PaymentInv => OnePurchase
  <2> SUFFICES ASSUME PaymentInv PROVE OnePurchase
    OBVIOUS
  <2>1. RecordsInv /\ AttemptsInv /\ LegaciesInv
    BY DEF PaymentInv, PurchaseInv
  <2>2. ASSUME NEW a \in Attempts, Standing(a) PROVE Active(a)
    <3>1. a \in Sessions /\ InTheWay(a)
      BY <2>1, <2>2, StandingInTheWay DEF Sessions
    <3> QED
      BY <3>1, <2>1 DEF AttemptsInv, InTheWay
  <2>3. ASSUME NEW a \in Attempts, NEW s \in Sessions \ missed, Standing(a), Standing(s) PROVE a = s
    <3>1. CASE s \in Attempts
      BY <3>1, <2>1, <2>2, <2>3 DEF AttemptsInv, Sessions
    <3>2. CASE s \in Legacies
      BY <3>2, <2>1, <2>2, <2>3, StandingInTheWay DEF LegaciesInv, ClearedBut, Sessions
    <3> QED
      BY <3>1, <3>2 DEF Sessions
  <2> QED
    BY <2>1, <2>3 DEF OnePurchase, AttemptsInv, Sessions
<1> QED
  BY <1>1, InitPaymentInv, NextPaymentInv, PTL DEF Spec

\* No more discounts are paid than the promotion allows.
THEOREM DiscountsCapped == Spec => []DiscountsWithinCap
<1>1. PaymentInv => DiscountsWithinCap
  <2> SUFFICES ASSUME PaymentInv PROVE DiscountsWithinCap
    OBVIOUS
  <2> DEFINE Discounted == {a \in Attempts : attempts[a].offer = "promoted" /\ session[a] = "complete"}
  <2>1. Discounted \subseteq Slots /\ SlotsCapped
    BY DEF PaymentInv, DiscountInv, DiscountsHaveSlots
  <2>2. IsFiniteSet(Slots)
    BY CheckoutAssumption, FS_Subset DEF Slots
  <2>3. IsFiniteSet(Discounted) /\ Cardinality(Discounted) <= Cardinality(Slots)
    BY <2>1, <2>2, FS_Subset
  <2>4. Cardinality(Discounted) \in Nat /\ Cardinality(Slots) \in Nat
    BY <2>2, <2>3, FS_CardinalityType
  <2> QED
    BY <2>1, <2>3, <2>4, StoreAssumption DEF SlotsCapped, DiscountsWithinCap
<1> QED
  BY <1>1, InitPaymentInv, NextPaymentInv, PTL DEF Spec

\* When every event was processed, records, payments and redemptions say what
\* the provider says: no crash, retry, reordering or concurrent delivery loses
\* what an event was to tell.
THEOREM NothingLost == Spec => []Reconciled
<1>1. EventsInv => Reconciled
  <2> SUFFICES ASSUME EventsInv, pending = {} PROVE Reconciled
    BY DEF Reconciled
  <2>1. \A s \in Sessions : RecordIsDue(s) /\ PaymentIsDue(s)
    BY DEF EventsInv
  <2>2. \A k, s : ~ChangeDue(s) /\ ~Due(k, s)
    BY DEF ChangeDue, Due
  <2> QED
    BY <2>1, <2>2 DEF Reconciled, RecordIsDue, PaymentIsDue
<1> QED
  BY <1>1, InitPaymentInv, NextPaymentInv, InitEventsInv, NextEventsInv, PTL DEF Spec

\* The plan in force is that of the current subscription of the records, in
\* whatever order the events of an ended and of a new one are written.
THEOREM PlanFollows == Spec => []AssignmentFollows
<1>1. Init => WritingInv /\ AssignmentFollows
  <2> SUFFICES ASSUME Init PROVE WritingInv /\ AssignmentFollows
    OBVIOUS
  <2>1. \A h \in Handlers : handler[h].pc = "free"
    BY DEF Init, Free
  <2>2. \A s \in Sessions : ~Recorded(s)
    BY DEF Init, StoreInit, Recorded, NoSubscription, CurrentStatuses
  <2> QED
    BY <2>1, <2>2 DEF WritingInv, At, AssignmentFollows
<1> QED
  BY <1>1, InitPaymentInv, NextPaymentInv, InitEventsInv, NextEventsInv, NextWritingInv, NextAssigned, PTL DEF Spec
=============================================================================
