------------------------- MODULE UsageAllowancesProofs -------------------------
(***************************************************************************)
(* Theorems of UsageAllowances for every set of requests, keys, reviews    *)
(* and batches, every limit and every number of billing periods.           *)
(***************************************************************************)
EXTENDS UsageAllowances, FiniteSetTheorems, WellFoundedInduction, TLAPS

(* ---------------------------- Type correctness --------------------------- *)

\* The shapes of a key's row, of a request and of a batch
KeyRow == [by : Requests \cup {NoRequest}, replayed : BOOLEAN]
RequestRow ==
    [at : {"new", "locked", "working", "delivered", "broken", "ended"}, period : Periods,
     found : Requests \cup {NoRequest}, counted : BOOLEAN]
BatchRow ==
    [at : {"idle", "hinted", "loaded", "reserved", "predicted", "rated"}, left : Nat,
     seen : SUBSET Reviews, new : SUBSET Reviews, period : Periods]

\* The initial values are of these types.
LEMMA InitTypeOK == Init => TypeOK
<1> SUFFICES ASSUME Init PROVE TypeOK
  OBVIOUS
<1>1. 0 \in Periods /\ "monthly_reports" \in Features /\ "sentiment_analysis" \in Features
  BY UsageAssumption DEF Periods, Features
<1>2. UsageTypeOK
  BY <1>1 DEF Init, UsageInit, UsageTypeOK
<1>3. RequestsTypeOK
  <2>1. NoKey \in KeyRow /\ NewRequest \in RequestRow
    BY <1>1 DEF NoKey, KeyRow, NewRequest, RequestRow
  <2> QED
    BY <2>1 DEF Init, RequestsInit, RequestsTypeOK, KeyRow, RequestRow
<1>4. SentimentTypeOK
  <2>1. Idle \in BatchRow
    BY <1>1 DEF Idle, BatchRow
  <2> QED
    BY <2>1 DEF Init, SentimentInit, SentimentTypeOK, BatchRow
<1> QED
  BY <1>2, <1>3, <1>4 DEF TypeOK

\* A unit more, or one less, leaves the counters counters.
LEMMA CountersTyped ==
  ASSUME used \in [Features -> [Periods -> Nat]], NEW f \in Features, NEW p \in Periods, NEW n \in Nat
  PROVE  /\ Counted(f, p, n) \in [Features -> [Periods -> Nat]]
         /\ GivenBack(f, p, n) \in [Features -> [Periods -> Nat]]
<1>1. used[f] \in [Periods -> Nat] /\ used[f][p] \in Nat
  OBVIOUS
<1>2. used[f][p] + n \in Nat /\ (used[f][p] >= n => used[f][p] - n \in Nat)
  BY <1>1
<1> QED
  BY <1>1, <1>2 DEF Counted, GivenBack

\* What a request's step writes about it.
LEMMA RequestTyped ==
  ASSUME RequestsTypeOK, NEW r \in Requests, NEW step \in {"working", "delivered", "broken"},
         Goes(r, step) \/ Ends(r)
  PROVE  request' \in [Requests -> RequestRow]
<1>1. request \in [Requests -> RequestRow] /\ 0 \in Periods
  BY UsageAssumption DEF RequestsTypeOK, RequestRow, Periods
<1>2. [request[r] EXCEPT !.at = step, !.found = NoRequest] \in RequestRow
  BY <1>1 DEF RequestRow
<1>3. [NewRequest EXCEPT !.at = "ended"] \in RequestRow
  BY <1>1 DEF NewRequest, RequestRow
<1> QED
  BY <1>1, <1>2, <1>3 DEF Goes, Ends

\* A key's row stays one when it is written as inserted, marked or freed.
LEMMA KeysTyped ==
  ASSUME RequestsTypeOK, NEW p \in Periods, NEW k \in Keys, NEW row \in KeyRow,
         keys' = [keys EXCEPT ![p][k] = row]
  PROVE  keys' \in [Periods -> [Keys -> KeyRow]]
BY DEF RequestsTypeOK, KeyRow

\* The steps of the report requests keep the types.
LEMMA RequestStepTypeOK ==
  ASSUME TypeOK, RequestStep, UNCHANGED sentimentVars PROVE TypeOK'
<1>1. UsageTypeOK /\ RequestsTypeOK /\ SentimentTypeOK
  BY DEF TypeOK
<1>2. SentimentTypeOK'
  BY <1>1 DEF SentimentTypeOK, sentimentVars
<1>3. request \in [Requests -> RequestRow] /\ keys \in [Periods -> [Keys -> KeyRow]]
  BY <1>1 DEF RequestsTypeOK, RequestRow, KeyRow
<1>4. period \in Periods /\ used \in [Features -> [Periods -> Nat]]
      /\ "monthly_reports" \in Features
  BY <1>1 DEF UsageTypeOK, Features
<1> SUFFICES UsageTypeOK' /\ keys' \in [Periods -> [Keys -> KeyRow]]
             /\ request' \in [Requests -> RequestRow]
  BY <1>2 DEF TypeOK, RequestsTypeOK, KeyRow, RequestRow
<1>5. PICK r \in Requests :
        \/ Begin(r) \/ Refuse(r) \/ Replay(r) \/ Count(r)
        \/ Deliver(r) \/ Break(r) \/ Vanish(r) \/ Release(r)
  BY DEF RequestStep
<1>6. KeyOf[r] \in Keys /\ request[r] \in RequestRow /\ request[r].period \in Periods
  BY <1>3, RequestsAssumption DEF RequestRow
<1>7. CASE Begin(r)
  <2>1. keys[period][KeyOf[r]].by \in Requests \cup {NoRequest}
    BY <1>3, <1>4, <1>6 DEF KeyRow
  <2>2. [at |-> "locked", period |-> period, found |-> keys[period][KeyOf[r]].by, counted |-> FALSE]
          \in RequestRow
    BY <2>1, <1>4 DEF RequestRow
  <2> QED
    BY <1>7, <2>2, <1>1, <1>3 DEF Begin, UsageTypeOK, usageVars
<1>8. CASE Refuse(r) \/ Deliver(r) \/ Break(r) \/ Vanish(r)
  <2>1. request' \in [Requests -> RequestRow]
    BY <1>8, <1>1, RequestTyped DEF Refuse, Deliver, Break, Vanish
  <2> QED
    BY <1>8, <2>1, <1>1, <1>3 DEF Refuse, Deliver, Break, Vanish, UsageTypeOK, usageVars
<1>9. CASE Replay(r)
  <2>1. request' \in [Requests -> RequestRow]
    BY <1>9, <1>1, RequestTyped DEF Replay
  <2>2. \A row \in KeyRow : [row EXCEPT !.replayed = TRUE] \in KeyRow
    BY DEF KeyRow
  <2>3. keys' \in [Periods -> [Keys -> KeyRow]]
    BY <1>9, <1>3, <1>6, <2>2 DEF Replay
  <2> QED
    BY <1>9, <2>1, <2>3, <1>1 DEF Replay, UsageTypeOK, usageVars
<1>10. CASE Count(r)
  <2>1. [by |-> r, replayed |-> FALSE] \in KeyRow
    BY DEF KeyRow
  <2>2. keys' \in [Periods -> [Keys -> KeyRow]]
    BY <1>10, <2>1, <1>1, <1>4, <1>6, KeysTyped DEF Count
  <2>3. [request[r] EXCEPT !.at = "working", !.period = period, !.counted = TRUE] \in RequestRow
    BY <1>4, <1>6 DEF RequestRow
  <2>4. request' \in [Requests -> RequestRow]
    BY <1>10, <2>3, <1>3 DEF Count
  <2>5. Counted("monthly_reports", period, 1) \in [Features -> [Periods -> Nat]]
    BY <1>4, CountersTyped
  <2>6. UsageTypeOK'
    BY <1>10, <1>4, <2>5 DEF Count, UsageTypeOK
  <2> QED
    BY <2>2, <2>4, <2>6
<1>11. CASE Release(r)
  <2>1. request' \in [Requests -> RequestRow]
    BY <1>11, <1>1, RequestTyped DEF Release
  <2>2. NoKey \in KeyRow
    BY DEF NoKey, KeyRow
  <2>3. keys' \in [Periods -> [Keys -> KeyRow]]
    BY <1>11, <2>2, <1>1, <1>3, <1>6, KeysTyped DEF Release, FreesKey
  <2>4. GivenBack("monthly_reports", request[r].period, 1) \in [Features -> [Periods -> Nat]]
    BY <1>4, <1>6, CountersTyped
  <2>5. UsageTypeOK'
    BY <1>11, <1>4, <2>4 DEF Release, FreesKey, UsageTypeOK
  <2> QED
    BY <2>1, <2>3, <2>5
<1> QED
  BY <1>5, <1>7, <1>8, <1>9, <1>10, <1>11

\* A part of the batch's reviews is a finite set, so that it can be counted.
LEMMA PartCounted ==
  ASSUME NEW S \in SUBSET Reviews PROVE IsFiniteSet(S) /\ Cardinality(S) \in Nat
BY BatchesAssumption, FS_Subset, FS_CardinalityType

\* What a batch reads next is a part of the reviews.
LEMMA FirstOf == ASSUME NEW S \in SUBSET Reviews, NEW n PROVE First(S, n) \in SUBSET S
BY DEF First

\* The steps of the sentiment batches keep the types.
LEMMA SentimentStepTypeOK ==
  ASSUME TypeOK, SentimentStep, UNCHANGED requestVars PROVE TypeOK'
<1>1. UsageTypeOK /\ RequestsTypeOK /\ SentimentTypeOK
  BY DEF TypeOK
<1>2. RequestsTypeOK'
  BY <1>1 DEF RequestsTypeOK, requestVars
<1>3. /\ batch \in [Batches -> BatchRow] /\ label \in [Reviews -> {"none", "rating", "model"}]
      /\ paid \in [Reviews -> Nat] /\ overtaken \subseteq Reviews
  BY <1>1 DEF SentimentTypeOK, BatchRow
<1>4. /\ period \in Periods /\ used \in [Features -> [Periods -> Nat]]
      /\ "sentiment_analysis" \in Features /\ 0 \in Periods
  BY <1>1, UsageAssumption DEF UsageTypeOK, Features, Periods
<1> SUFFICES /\ UsageTypeOK' /\ batch' \in [Batches -> BatchRow]
             /\ label' \in [Reviews -> {"none", "rating", "model"}]
             /\ paid' \in [Reviews -> Nat] /\ overtaken' \subseteq Reviews
  BY <1>2 DEF TypeOK, SentimentTypeOK, BatchRow
<1>5. PICK b \in Batches :
        Hint(b) \/ Load(b) \/ Reserve(b) \/ Predict(b) \/ Rate(b) \/ Store(b) \/ GiveUp(b)
  BY DEF SentimentStep
<1>6. batch[b] \in BatchRow /\ Idle \in BatchRow
  BY <1>3, <1>4 DEF BatchRow, Idle
<1>7. ASSUME NEW row \in BatchRow, Becomes(b, row) PROVE batch' \in [Batches -> BatchRow]
  BY <1>3, <1>7 DEF Becomes
<1>8. ASSUME Same, batch' \in [Batches -> BatchRow]
      PROVE  /\ UsageTypeOK' /\ batch' \in [Batches -> BatchRow]
             /\ label' \in [Reviews -> {"none", "rating", "model"}]
             /\ paid' \in [Reviews -> Nat] /\ overtaken' \subseteq Reviews
  BY <1>1, <1>3, <1>8 DEF Same, usageVars, UsageTypeOK
<1>9. CASE Hint(b)
  <2>1. Limit["sentiment_analysis"] \in Nat /\ used["sentiment_analysis"][period] \in Nat
    BY <1>4, UsageAssumption
  <2>2. Left("sentiment_analysis") \in Nat /\ BatchSize \in Nat
    BY <2>1, BatchesAssumption DEF Left
  <2>3. \A n \in Nat : [Idle EXCEPT !.at = "hinted", !.left = n] \in BatchRow
    BY <1>4 DEF Idle, BatchRow
  <2>4. batch' \in [Batches -> BatchRow]
    BY <1>9, <2>2, <2>3, <1>7 DEF Hint
  <2> QED
    BY <1>9, <2>4, <1>8 DEF Hint
<1>10. CASE Load(b)
  <2> DEFINE seen == First({r \in Reviews : label[r] # "model"}, batch[b].left)
  <2>1. seen \in SUBSET Reviews
    BY FirstOf
  <2>2. [Idle EXCEPT !.at = "loaded", !.seen = seen, !.new = {r \in seen : label[r] = "none"}] \in BatchRow
    BY <2>1, <1>4 DEF Idle, BatchRow
  <2>3. batch' \in [Batches -> BatchRow]
    BY <1>10, <2>2, <1>6, <1>7 DEF Load
  <2> QED
    BY <1>10, <2>3, <1>8 DEF Load
<1>11. CASE Reserve(b)
  <2>1. [batch[b] EXCEPT !.at = "reserved", !.period = period] \in BatchRow
    BY <1>4, <1>6 DEF BatchRow
  <2> QED
    BY <1>11, <2>1, <1>7, <1>8 DEF Reserve
<1>12. CASE Predict(b)
  <2>1. [batch[b] EXCEPT !.at = "predicted"] \in BatchRow
    BY <1>6 DEF BatchRow
  <2> QED
    BY <1>12, <2>1, <1>7, <1>8 DEF Predict
<1>13. CASE Rate(b)
  <2> DEFINE again == First({r \in Rated : label[r] = "none"}, Cardinality(batch[b].new))
  <2>1. again \in SUBSET Reviews
    BY FirstOf, BatchesAssumption
  <2>2. [batch[b] EXCEPT !.at = "rated", !.seen = again, !.new = again] \in BatchRow
    BY <2>1, <1>6 DEF BatchRow
  <2>3. batch' \in [Batches -> BatchRow]
    BY <1>13, <2>2, <1>6, <1>7 DEF Rate
  <2> QED
    BY <1>13, <2>3, <1>8 DEF Rate
<1>14. CASE Store(b)
  <2>1. PICK stored \in SUBSET batch[b].seen :
          /\ label' = [r \in Reviews |-> IF r \in stored THEN LabelOf(b) ELSE label[r]]
          /\ paid' = [r \in Reviews |-> IF r \in Charged(b, stored) THEN paid[r] + 1 ELSE paid[r]]
          /\ used' = Counted("sentiment_analysis", batch[b].period, Cardinality(Charged(b, stored)))
          /\ overtaken' = IF Is(b, "predicted") THEN overtaken
                ELSE overtaken \cup {r \in stored : \E c \in Batches \ {b} : r \in batch[c].new}
          /\ Becomes(b, Idle) /\ UNCHANGED period
    BY <1>14 DEF Store
  <2>2. stored \in SUBSET Reviews /\ Charged(b, stored) \in SUBSET Reviews /\ batch[b].period \in Periods
    BY <1>6 DEF BatchRow, Charged
  <2>3. Cardinality(Charged(b, stored)) \in Nat
    BY <2>2, PartCounted
  <2>4. Counted("sentiment_analysis", batch[b].period, Cardinality(Charged(b, stored)))
          \in [Features -> [Periods -> Nat]]
    BY <2>2, <2>3, <1>4, CountersTyped
  <2>5. UsageTypeOK'
    BY <2>1, <2>4, <1>4 DEF UsageTypeOK
  <2>6. label' \in [Reviews -> {"none", "rating", "model"}]
    BY <2>1, <1>3 DEF LabelOf
  <2>7. paid' \in [Reviews -> Nat]
    BY <2>1, <1>3
  <2>8. overtaken' \subseteq Reviews
    BY <2>1, <2>2, <1>3
  <2>9. batch' \in [Batches -> BatchRow]
    BY <2>1, <1>6, <1>7
  <2> QED
    BY <2>5, <2>6, <2>7, <2>8, <2>9
<1>15. CASE GiveUp(b)
  BY <1>15, <1>6, <1>7, <1>8 DEF GiveUp
<1> QED
  BY <1>5, <1>9, <1>10, <1>11, <1>12, <1>13, <1>14, <1>15

\* Every step keeps the types.
LEMMA NextTypeOK == TypeOK /\ [Next]_vars => TypeOK'
<1> SUFFICES ASSUME TypeOK, [Next]_vars PROVE TypeOK'
  OBVIOUS
<1>1. CASE RequestStep /\ UNCHANGED sentimentVars
  BY <1>1, RequestStepTypeOK
<1>2. CASE SentimentStep /\ UNCHANGED requestVars
  BY <1>2, SentimentStepTypeOK
<1>3. CASE NewPeriod /\ UNCHANGED <<requestVars, sentimentVars>>
  <2>1. period' \in Periods
    BY <1>3, UsageAssumption DEF NewPeriod, TypeOK, UsageTypeOK, Periods
  <2> QED
    BY <1>3, <2>1 DEF NewPeriod, TypeOK, UsageTypeOK, RequestsTypeOK, SentimentTypeOK,
                      requestVars, sentimentVars
<1>4. CASE UNCHANGED vars
  BY <1>4 DEF vars, TypeOK, UsageTypeOK, RequestsTypeOK, SentimentTypeOK,
              usageVars, requestVars, sentimentVars
<1> QED
  BY <1>1, <1>2, <1>3, <1>4 DEF Next

\* Every reachable state has the declared types.
THEOREM TypeCorrect == Spec => []TypeOK
<1>1. Init => TypeOK
  BY InitTypeOK
<1>2. TypeOK /\ [Next]_vars => TypeOK'
  BY NextTypeOK
<1> QED
  BY <1>1, <1>2, PTL DEF Spec

(* ------------------------- Requests and their keys ----------------------- *)

\* A request that found its key's row still finds it when it marks it; one at
\* work owns its row, or its row is marked and so outlives the owner's failure.
RequestInv ==
    \A r \in Requests :
        /\ At(r, "locked") =>
              ~request[r].counted /\ (request[r].found # NoRequest => Row(r).by # NoRequest)
        /\ request[r].at \in {"working", "delivered"} =>
              /\ Row(r).by # NoRequest
              /\ IF request[r].counted THEN Row(r).by = r ELSE Row(r).replayed

\* No request is under way at first.
LEMMA InitRequestInv == Init => RequestInv
BY DEF Init, RequestsInit, RequestInv, NewRequest, At

\* The steps of one request disturb neither its own row nor the others'.
LEMMA RequestStepInv ==
  ASSUME TypeOK, RequestInv, RequestStep PROVE RequestInv'
<1>1. /\ request \in [Requests -> RequestRow] /\ keys \in [Periods -> [Keys -> KeyRow]]
      /\ period \in Periods /\ NoRequest \notin Requests /\ KeyOf \in [Requests -> Keys]
  BY RequestsAssumption DEF TypeOK, UsageTypeOK, RequestsTypeOK, RequestRow, KeyRow
<1>2. PICK q \in Requests :
        \/ Begin(q) \/ Refuse(q) \/ Replay(q) \/ Count(q)
        \/ Deliver(q) \/ Break(q) \/ Vanish(q) \/ Release(q)
  BY DEF RequestStep
<1> SUFFICES ASSUME NEW r \in Requests
             PROVE  /\ At(r, "locked")' =>
                          ~request'[r].counted /\ (request'[r].found # NoRequest => Row(r)'.by # NoRequest)
                    /\ request'[r].at \in {"working", "delivered"} =>
                          /\ Row(r)'.by # NoRequest
                          /\ IF request'[r].counted THEN Row(r)'.by = r ELSE Row(r)'.replayed
  BY DEF RequestInv
<1>3. /\ KeyOf[r] \in Keys /\ KeyOf[q] \in Keys
      /\ request[r] \in RequestRow /\ request[q] \in RequestRow
      /\ request[r].period \in Periods /\ request[q].period \in Periods
  BY <1>1 DEF RequestRow
<1>4. /\ At(r, "locked") =>
            ~request[r].counted /\ (request[r].found # NoRequest => Row(r).by # NoRequest)
      /\ request[r].at \in {"working", "delivered"} =>
            /\ Row(r).by # NoRequest
            /\ IF request[r].counted THEN Row(r).by = r ELSE Row(r).replayed
  BY DEF RequestInv
<1>5. CASE Begin(q)
  BY <1>5, <1>1, <1>3, <1>4 DEF Begin, At, Row, RequestRow
<1>6. CASE Refuse(q) \/ Break(q) \/ Vanish(q)
  <2>1. UNCHANGED keys /\ (Goes(q, "broken") \/ Ends(q))
    BY <1>6 DEF Refuse, Break, Vanish
  <2>2. r # q => request'[r] = request[r]
    BY <2>1, <1>1 DEF Goes, Ends
  <2>3. r = q => request'[r].at \in {"broken", "ended"}
    BY <2>1, <1>1, <1>3 DEF Goes, Ends, NewRequest, RequestRow
  <2> QED
    BY <2>1, <2>2, <2>3, <1>4 DEF At, Row
<1>7. CASE Deliver(q)
  BY <1>7, <1>1, <1>3, <1>4 DEF Deliver, At, Row, Goes, RequestRow
<1>8. CASE Replay(q)
  <2>1. At(q, "locked") /\ request[q].found # NoRequest /\ Row(q).by # NoRequest /\ ~request[q].counted
    BY <1>8 DEF Replay, RequestInv
  <2>2. keys' = [keys EXCEPT ![request[q].period][KeyOf[q]].replayed = TRUE]
    BY <1>8, <2>1 DEF Replay
  <2>3. \A p \in Periods, k \in Keys :
          /\ keys'[p][k].by = keys[p][k].by
          /\ keys[p][k].replayed => keys'[p][k].replayed
    BY <2>2, <1>1, <1>3 DEF KeyRow
  <2>4. keys'[request[q].period][KeyOf[q]].replayed
    BY <2>2, <1>1, <1>3 DEF KeyRow
  <2>5. request' = [request EXCEPT ![q].at = "working", ![q].found = NoRequest]
    BY <1>8 DEF Replay, Goes
  <2>6. CASE r = q
    <3>1. request'[r].period = request[q].period /\ ~request'[r].counted /\ request'[r].at = "working"
      BY <2>6, <2>5, <2>1, <1>1, <1>3 DEF RequestRow
    <3> QED
      BY <3>1, <2>1, <2>3, <2>4, <2>6, <1>3 DEF At, Row
  <2>7. CASE r # q
    <3>1. request'[r] = request[r]
      BY <2>7, <2>5, <1>1
    <3> QED
      BY <3>1, <2>3, <1>3, <1>4 DEF At, Row
  <2> QED
    BY <2>6, <2>7
<1>9. CASE Count(q)
  <2>1. /\ keys[period][KeyOf[q]].by = NoRequest
        /\ keys' = [keys EXCEPT ![period][KeyOf[q]] = [by |-> q, replayed |-> FALSE]]
        /\ request' = [request EXCEPT ![q] =
              [request[q] EXCEPT !.at = "working", !.period = period, !.counted = TRUE]]
    BY <1>9, <1>1 DEF Count
  <2>2. keys'[period][KeyOf[q]] = [by |-> q, replayed |-> FALSE]
    BY <2>1, <1>1, <1>3
  <2>3. CASE r = q
    <3>1. request'[r].period = period /\ request'[r].counted /\ request'[r].at = "working"
      BY <2>3, <2>1, <1>1, <1>3 DEF RequestRow
    <3> QED
      BY <3>1, <2>2, <2>3, <1>1 DEF At, Row
  <2>4. CASE r # q
    <3>1. request'[r] = request[r]
      BY <2>4, <2>1, <1>1
    <3>2. CASE request[r].period = period /\ KeyOf[r] = KeyOf[q]
      <4>1. Row(r).by = NoRequest /\ Row(r)'.by # NoRequest
        BY <3>1, <3>2, <2>1, <2>2, <1>1 DEF Row
      <4> QED
        BY <4>1, <3>1, <1>4 DEF At
    <3>3. CASE ~(request[r].period = period /\ KeyOf[r] = KeyOf[q])
      <4>1. Row(r)' = Row(r)
        BY <3>1, <3>3, <2>1, <1>1, <1>3 DEF Row
      <4> QED
        BY <4>1, <3>1, <1>4 DEF At
    <3> QED
      BY <3>2, <3>3
  <2> QED
    BY <2>3, <2>4
<1>10. CASE Release(q)
  <2>1. ~At(r, "locked")
    BY <1>10 DEF Release, Unlocked
  <2>2. /\ request' = [request EXCEPT ![q] = [NewRequest EXCEPT !.at = "ended"]]
        /\ \/ keys' = keys
           \/ /\ Row(q) = [by |-> q, replayed |-> FALSE]
              /\ keys' = [keys EXCEPT ![request[q].period][KeyOf[q]] = NoKey]
    BY <1>10 DEF Release, FreesKey, Ends
  <2>3. CASE r = q
    <3>1. request'[r].at = "ended"
      BY <2>2, <2>3, <1>1 DEF NewRequest
    <3> QED
      BY <3>1 DEF At
  <2>4. CASE r # q
    <3>1. request'[r] = request[r]
      BY <2>4, <2>2, <1>1
    <3>2. CASE request[r].at \in {"working", "delivered"}
      <4>1. CASE keys' = keys
        BY <4>1, <3>1, <3>2, <2>1, <1>4 DEF At, Row
      <4>2. CASE /\ Row(q) = [by |-> q, replayed |-> FALSE]
                 /\ keys' = [keys EXCEPT ![request[q].period][KeyOf[q]] = NoKey]
        <5>1. ~(request[r].period = request[q].period /\ KeyOf[r] = KeyOf[q])
          BY <4>2, <3>2, <2>4, <1>4 DEF Row
        <5>2. Row(r)' = Row(r)
          BY <5>1, <4>2, <3>1, <1>1, <1>3 DEF Row
        <5> QED
          BY <5>2, <3>1, <2>1, <1>4 DEF At
      <4> QED
        BY <4>1, <4>2, <2>2
    <3> QED
      BY <3>1, <3>2, <2>1 DEF At
  <2> QED
    BY <2>3, <2>4
<1> QED
  BY <1>2, <1>5, <1>6, <1>7, <1>8, <1>9, <1>10

(* ---------------------- Labels and what they cost ------------------------ *)

\* A review a batch has read for new has no stand-in yet, unless it was
\* overtaken; one it has read as a stand-in has been paid for.
LabelInv ==
    /\ LabelPaidOnce
    /\ \A b \in Batches, r \in Reviews :
        /\ r \in batch[b].new /\ label[r] = "rating" => r \in overtaken
        /\ r \in batch[b].seen \ batch[b].new => label[r] # "none"

\* Nothing is labelled, nothing paid and nothing read at first.
LEMMA InitLabelInv == Init => LabelInv
BY DEF Init, SentimentInit, LabelInv, LabelPaidOnce, Idle

\* The steps of the batches keep it.
LEMMA SentimentStepInv ==
  ASSUME TypeOK, LabelInv, SentimentStep PROVE LabelInv'
<1>1. /\ batch \in [Batches -> BatchRow] /\ label \in [Reviews -> {"none", "rating", "model"}]
      /\ paid \in [Reviews -> Nat]
  BY DEF TypeOK, SentimentTypeOK, BatchRow
<1>2. PICK b \in Batches :
        Hint(b) \/ Load(b) \/ Reserve(b) \/ Predict(b) \/ Rate(b) \/ Store(b) \/ GiveUp(b)
  BY DEF SentimentStep
<1>3. batch[b] \in BatchRow
  BY <1>1
<1>4. ASSUME Same, NEW row, Becomes(b, row),
             \A r \in Reviews : /\ r \in row.new /\ label[r] = "rating" => r \in overtaken
                                /\ r \in row.seen \ row.new => label[r] # "none"
      PROVE  LabelInv'
  <2>1. LabelPaidOnce'
    BY <1>4 DEF LabelInv, LabelPaidOnce, Same
  <2>2. ASSUME NEW c \in Batches, NEW r \in Reviews
        PROVE  /\ r \in batch'[c].new /\ label'[r] = "rating" => r \in overtaken'
               /\ r \in batch'[c].seen \ batch'[c].new => label'[r] # "none"
    <3>1. batch'[c] = IF c = b THEN row ELSE batch[c]
      BY <1>1, <1>4 DEF Becomes
    <3> QED
      BY <3>1, <1>4 DEF LabelInv, Same
  <2> QED
    BY <2>1, <2>2 DEF LabelInv
<1>5. CASE Hint(b) \/ GiveUp(b)
  <2>1. PICK row : Same /\ Becomes(b, row) /\ row.new = {} /\ row.seen = {}
    <3>1. \A n : LET row == [Idle EXCEPT !.at = "hinted", !.left = n] IN row.new = {} /\ row.seen = {}
      BY DEF Idle
    <3>2. Idle.new = {} /\ Idle.seen = {}
      BY DEF Idle
    <3>3. CASE Hint(b)
      BY <3>1, <3>3 DEF Hint
    <3>4. CASE GiveUp(b)
      BY <3>2, <3>4 DEF GiveUp
    <3> QED
      BY <1>5, <3>3, <3>4
  <2> QED
    BY <2>1, <1>4
<1>6. CASE Load(b)
  <2>1. PICK row : /\ Same /\ Becomes(b, row)
                   /\ row.new = {r \in row.seen : label[r] = "none"}
    <3>1. Idle.new = {r \in Idle.seen : label[r] = "none"}
      BY DEF Idle
    <3>2. ASSUME NEW S
          PROVE  LET row == [Idle EXCEPT !.at = "loaded", !.seen = S, !.new = {r \in S : label[r] = "none"}]
                 IN  row.new = {r \in row.seen : label[r] = "none"}
      BY DEF Idle
    <3> QED
      BY <1>6, <3>1, <3>2 DEF Load
  <2> QED
    BY <2>1, <1>4
<1>7. CASE Reserve(b) \/ Predict(b)
  <2>1. PICK row : Same /\ Becomes(b, row) /\ row.new = batch[b].new /\ row.seen = batch[b].seen
    <3>1. LET row == [batch[b] EXCEPT !.at = "reserved", !.period = period]
          IN  row.new = batch[b].new /\ row.seen = batch[b].seen
      BY <1>3 DEF BatchRow
    <3>2. LET row == [batch[b] EXCEPT !.at = "predicted"]
          IN  row.new = batch[b].new /\ row.seen = batch[b].seen
      BY <1>3 DEF BatchRow
    <3>3. CASE Reserve(b)
      BY <3>1, <3>3 DEF Reserve
    <3>4. CASE Predict(b)
      BY <3>2, <3>4 DEF Predict
    <3> QED
      BY <1>7, <3>3, <3>4
  <2> QED
    BY <2>1, <1>4 DEF LabelInv
<1>8. CASE Rate(b)
  <2> DEFINE again == First({r \in Rated : label[r] = "none"}, Cardinality(batch[b].new))
  <2>1. \A r \in again : label[r] = "none"
    BY DEF First
  <2>2. PICK row : Same /\ Becomes(b, row) /\ row.new \subseteq again /\ row.seen = row.new
    <3>1. Idle.new \subseteq again /\ Idle.seen = Idle.new
      BY DEF Idle
    <3>2. LET row == [batch[b] EXCEPT !.at = "rated", !.seen = again, !.new = again]
          IN  row.new \subseteq again /\ row.seen = row.new
      BY <1>3 DEF BatchRow
    <3> QED
      BY <1>8, <3>1, <3>2 DEF Rate
  <2>3. \A r \in Reviews : r \in row.new => label[r] = "none"
    BY <2>1, <2>2
  <2> QED
    BY <2>2, <2>3, <1>4
<1>9. CASE Store(b)
  <2>1. PICK failed \in SUBSET batch[b].seen :
          LET stored == {r \in batch[b].seen \ failed : Overwritable(r)} IN
          /\ label' = [r \in Reviews |-> IF r \in stored THEN LabelOf(b) ELSE label[r]]
          /\ paid' = [r \in Reviews |-> IF r \in Charged(b, stored) THEN paid[r] + 1 ELSE paid[r]]
          /\ overtaken' = IF Is(b, "predicted") THEN overtaken
                ELSE overtaken \cup {r \in stored : \E c \in Batches \ {b} : r \in batch[c].new}
          /\ Becomes(b, Idle)
    BY <1>9 DEF Store
  <2> DEFINE stored == {r \in batch[b].seen \ failed : Overwritable(r)}
  <2>2. /\ \A r \in Reviews : label'[r] = IF r \in stored THEN LabelOf(b) ELSE label[r]
        /\ \A r \in Reviews : paid'[r] = IF r \in stored \cap batch[b].new THEN paid[r] + 1 ELSE paid[r]
        /\ overtaken \subseteq overtaken'
        /\ ~Is(b, "predicted") => \A r \in stored, c \in Batches \ {b} : r \in batch[c].new => r \in overtaken'
    BY <2>1 DEF Charged
  <2>3. LabelOf(b) # "none" /\ (LabelOf(b) = "rating" => ~Is(b, "predicted"))
    BY DEF LabelOf, Is
  <2>4. ASSUME NEW r \in Reviews
        PROVE  /\ label'[r] # "none" <=> paid'[r] > 0
               /\ r \notin overtaken' => paid'[r] <= 1
    <3>1. /\ paid[r] \in Nat /\ (label[r] # "none" <=> paid[r] > 0)
          /\ (r \notin overtaken => paid[r] <= 1)
          /\ r \in batch[b].new /\ label[r] = "rating" => r \in overtaken
          /\ r \in batch[b].seen \ batch[b].new => label[r] # "none"
      BY <1>1 DEF LabelInv, LabelPaidOnce
    <3>2. CASE r \notin stored
      BY <3>1, <3>2, <2>2
    <3>3. CASE r \in stored /\ r \notin batch[b].new
      BY <3>1, <3>3, <2>2, <2>3
    <3>4. CASE r \in stored /\ r \in batch[b].new
      <4>1. label[r] = "none" \/ label[r] = "rating"
        BY <3>4, <1>1 DEF Overwritable
      <4>2. label'[r] # "none" /\ paid'[r] = paid[r] + 1
        BY <3>4, <2>2, <2>3
      <4>3. r \notin overtaken' => paid[r] = 0
        BY <4>1, <3>1, <3>4, <2>2
      <4> QED
        BY <4>2, <4>3, <3>1
    <3> QED
      BY <3>2, <3>3, <3>4
  <2>5. ASSUME NEW c \in Batches, NEW r \in Reviews
        PROVE  /\ r \in batch'[c].new /\ label'[r] = "rating" => r \in overtaken'
               /\ r \in batch'[c].seen \ batch'[c].new => label'[r] # "none"
    <3>1. CASE c = b
      BY <3>1, <2>1, <1>1 DEF Becomes, Idle
    <3>2. CASE c # b
      <4>1. batch'[c] = batch[c]
        BY <3>2, <2>1, <1>1 DEF Becomes
      <4>2. r \in batch[c].new /\ label'[r] = "rating" => r \in overtaken'
        BY <3>2, <2>2, <2>3 DEF LabelInv
      <4>3. r \in batch[c].seen \ batch[c].new => label'[r] # "none"
        BY <2>2, <2>3 DEF LabelInv
      <4> QED
        BY <4>1, <4>2, <4>3
    <3> QED
      BY <3>1, <3>2
  <2> QED
    BY <2>4, <2>5 DEF LabelInv, LabelPaidOnce
<1> QED
  BY <1>2, <1>5, <1>6, <1>7, <1>8, <1>9

\* Whatever a customer got is counted, a delivered report also when the
\* request that had paid for it failed, and a label is paid for once unless
\* its review was overtaken by its stars.
THEOREM GotIsPaidOnce == Spec => []PaidOnce
<1>1. Init => TypeOK /\ RequestInv /\ LabelInv
  BY InitTypeOK, InitRequestInv, InitLabelInv
<1>2. TypeOK /\ RequestInv /\ LabelInv /\ [Next]_vars => (TypeOK /\ RequestInv /\ LabelInv)'
  <2> SUFFICES ASSUME TypeOK, RequestInv, LabelInv, [Next]_vars PROVE (RequestInv /\ LabelInv)'
    BY NextTypeOK
  <2>1. ASSUME UNCHANGED requestVars PROVE RequestInv'
    BY <2>1 DEF RequestInv, requestVars, At, Row
  <2>2. ASSUME UNCHANGED sentimentVars PROVE LabelInv'
    BY <2>2 DEF LabelInv, LabelPaidOnce, sentimentVars
  <2>3. CASE RequestStep /\ UNCHANGED sentimentVars
    BY <2>3, <2>2, RequestStepInv
  <2>4. CASE SentimentStep /\ UNCHANGED requestVars
    BY <2>4, <2>1, SentimentStepInv
  <2>5. CASE NewPeriod /\ UNCHANGED <<requestVars, sentimentVars>>
    BY <2>5, <2>1, <2>2
  <2>6. CASE UNCHANGED vars
    BY <2>6, <2>1, <2>2 DEF vars
  <2> QED
    BY <2>3, <2>4, <2>5, <2>6 DEF Next
<1>3. TypeOK /\ RequestInv /\ LabelInv => PaidOnce
  <2> SUFFICES ASSUME TypeOK, RequestInv, LabelInv PROVE DeliveredIsCounted
    BY DEF PaidOnce, LabelInv
  <2>1. \A r \in Requests : At(r, "working") \/ At(r, "delivered") => Row(r).by # NoRequest
    BY DEF RequestInv, At
  <2> QED
    BY <2>1, RequestsAssumption DEF DeliveredIsCounted, CountedKeys, Row
<1> QED
  BY <1>1, <1>2, <1>3, PTL DEF Spec

(* ------------------------ The counter of the reports --------------------- *)

\* The keys that hold a row are finitely many.
LEMMA KeysFinite ==
  ASSUME NEW p \in Periods
  PROVE  IsFiniteSet(CountedKeys(p)) /\ Cardinality(CountedKeys(p)) \in Nat
<1>1. CountedKeys(p) \in SUBSET Keys
  BY DEF CountedKeys
<1> QED
  BY <1>1, RequestsAssumption, FS_Subset, FS_CardinalityType

\* Counting a request adds its unit and its key's row together.
LEMMA CountAgrees ==
  ASSUME TypeOK, ReportsCounted, NEW r \in Requests, Count(r) PROVE ReportsCounted'
<1>1. /\ keys \in [Periods -> [Keys -> KeyRow]] /\ period \in Periods /\ KeyOf[r] \in Keys
      /\ used \in [Features -> [Periods -> Nat]] /\ "monthly_reports" \in Features
      /\ NoRequest \notin Requests
  BY RequestsAssumption DEF TypeOK, UsageTypeOK, RequestsTypeOK, KeyRow, Features
<1>2. /\ keys[period][KeyOf[r]].by = NoRequest
      /\ keys' = [keys EXCEPT ![period][KeyOf[r]] = [by |-> r, replayed |-> FALSE]]
      /\ used' = [used EXCEPT !["monthly_reports"][period] = @ + 1]
  BY DEF Count, Counted
<1> SUFFICES ASSUME NEW p \in Periods
             PROVE  used'["monthly_reports"][p] = Cardinality(CountedKeys(p)')
  BY DEF ReportsCounted
<1>3. used["monthly_reports"][p] = Cardinality(CountedKeys(p))
  BY DEF ReportsCounted
<1>4. CASE p = period
  <2>1. CountedKeys(p)' = CountedKeys(p) \cup {KeyOf[r]} /\ KeyOf[r] \notin CountedKeys(p)
    BY <1>1, <1>2, <1>4 DEF CountedKeys
  <2>2. Cardinality(CountedKeys(p) \cup {KeyOf[r]}) = Cardinality(CountedKeys(p)) + 1
    BY <2>1, KeysFinite, FS_AddElement
  <2>3. used'["monthly_reports"][p] = used["monthly_reports"][p] + 1
    BY <1>1, <1>2, <1>4
  <2> QED
    BY <2>1, <2>2, <2>3, <1>3
<1>5. CASE p # period
  <2>1. CountedKeys(p)' = CountedKeys(p)
    BY <1>1, <1>2, <1>5 DEF CountedKeys
  <2>2. used'["monthly_reports"][p] = used["monthly_reports"][p]
    BY <1>1, <1>2, <1>5
  <2> QED
    BY <2>1, <2>2, <1>3
<1> QED
  BY <1>4, <1>5

\* A failed request takes its unit back exactly when it frees its key.
LEMMA ReleaseAgrees ==
  ASSUME TypeOK, ReportsCounted, NEW r \in Requests, Release(r) PROVE ReportsCounted'
<1>1. /\ keys \in [Periods -> [Keys -> KeyRow]] /\ request[r].period \in Periods /\ KeyOf[r] \in Keys
      /\ used \in [Features -> [Periods -> Nat]] /\ "monthly_reports" \in Features
      /\ NoRequest \notin Requests
  BY RequestsAssumption DEF TypeOK, UsageTypeOK, RequestsTypeOK, KeyRow, Features
<1>2. CASE UNCHANGED <<keys, used>>
  BY <1>2 DEF ReportsCounted, CountedKeys
<1>3. CASE Row(r) = [by |-> r, replayed |-> FALSE] /\ FreesKey(r)
  <2> DEFINE then == request[r].period
  <2>1. /\ keys' = [keys EXCEPT ![then][KeyOf[r]] = NoKey]
        /\ used' = [used EXCEPT !["monthly_reports"][then] = IF @ < 1 THEN 0 ELSE @ - 1]
    BY <1>3 DEF FreesKey, GivenBack
  <2> SUFFICES ASSUME NEW p \in Periods
               PROVE  used'["monthly_reports"][p] = Cardinality(CountedKeys(p)')
    BY DEF ReportsCounted
  <2>2. used["monthly_reports"][p] = Cardinality(CountedKeys(p))
    BY DEF ReportsCounted
  <2>3. CASE p = then
    <3>1. CountedKeys(p)' = CountedKeys(p) \ {KeyOf[r]} /\ KeyOf[r] \in CountedKeys(p)
      BY <1>1, <1>3, <2>1, <2>3 DEF CountedKeys, NoKey, Row
    <3>2. Cardinality(CountedKeys(p) \ {KeyOf[r]}) = Cardinality(CountedKeys(p)) - 1
      BY <3>1, KeysFinite, FS_RemoveElement
    <3>3. Cardinality(CountedKeys(p) \ {KeyOf[r]}) \in Nat
      BY KeysFinite, FS_RemoveElement, FS_CardinalityType
    <3>4. used["monthly_reports"][p] \in Nat /\ used["monthly_reports"][p] >= 1
      BY <3>2, <3>3, <2>2, <1>1, KeysFinite
    <3>5. used'["monthly_reports"][p] = used["monthly_reports"][p] - 1
      BY <3>4, <2>1, <2>3, <1>1
    <3> QED
      BY <3>1, <3>2, <3>5, <2>2
  <2>4. CASE p # then
    <3>1. CountedKeys(p)' = CountedKeys(p)
      BY <1>1, <2>1, <2>4 DEF CountedKeys
    <3>2. used'["monthly_reports"][p] = used["monthly_reports"][p]
      BY <1>1, <2>1, <2>4
    <3> QED
      BY <3>1, <3>2, <2>2
  <2> QED
    BY <2>3, <2>4
<1> QED
  BY <1>2, <1>3 DEF Release

\* Every step keeps the reports' counter with the keys.
LEMMA NextReportsCounted ==
  ASSUME TypeOK, ReportsCounted, [Next]_vars PROVE ReportsCounted'
<1>1. ASSUME UNCHANGED keys, \A p \in Periods : used'["monthly_reports"][p] = used["monthly_reports"][p]
      PROVE  ReportsCounted'
  BY <1>1 DEF ReportsCounted, CountedKeys
<1>2. CASE RequestStep
  <2>1. PICK r \in Requests :
          \/ Begin(r) \/ Refuse(r) \/ Replay(r) \/ Count(r)
          \/ Deliver(r) \/ Break(r) \/ Vanish(r) \/ Release(r)
    BY <1>2 DEF RequestStep
  <2>2. CASE Begin(r) \/ Refuse(r) \/ Deliver(r) \/ Break(r) \/ Vanish(r)
    BY <2>2, <1>1 DEF Begin, Refuse, Deliver, Break, Vanish, usageVars
  <2>3. CASE Replay(r)
    <3>1. keys \in [Periods -> [Keys -> KeyRow]]
      BY DEF TypeOK, RequestsTypeOK, KeyRow
    <3>2. \A p \in Periods, k \in Keys : keys'[p][k].by = keys[p][k].by
      BY <2>3, <3>1 DEF Replay, KeyRow
    <3>3. \A p \in Periods : CountedKeys(p)' = CountedKeys(p)
      BY <3>2 DEF CountedKeys
    <3> QED
      BY <2>3, <3>3 DEF ReportsCounted, Replay, usageVars
  <2> QED
    BY <2>1, <2>2, <2>3, CountAgrees, ReleaseAgrees
<1>3. CASE SentimentStep /\ UNCHANGED requestVars
  <2>1. used \in [Features -> [Periods -> Nat]] /\ "monthly_reports" \in Features
    BY DEF TypeOK, UsageTypeOK, Features
  <2>2. UNCHANGED used \/ \E p, n : used' = Counted("sentiment_analysis", p, n)
    BY <1>3 DEF SentimentStep, Hint, Load, Reserve, Predict, Rate, Store, GiveUp, Same, usageVars
  <2>3. used'["monthly_reports"] = used["monthly_reports"]
    BY <2>1, <2>2 DEF Counted
  <2> QED
    BY <1>3, <2>3, <1>1 DEF requestVars
<1>4. CASE NewPeriod /\ UNCHANGED <<requestVars, sentimentVars>>
  BY <1>4, <1>1 DEF NewPeriod, requestVars
<1>5. CASE UNCHANGED vars
  BY <1>5, <1>1 DEF vars, usageVars, requestVars
<1> QED
  BY <1>2, <1>3, <1>4, <1>5 DEF Next

\* Each unit of the reports' counter belongs to one key: no retry of a key is
\* counted twice, no failure gives back what another request still uses.
THEOREM UnitsAreKeys == Spec => []ReportsCounted
<1>1. Init => TypeOK /\ ReportsCounted
  <2>1. ASSUME Init, NEW p \in Periods PROVE used["monthly_reports"][p] = Cardinality(CountedKeys(p))
    <3>1. CountedKeys(p) = {}
      BY <2>1 DEF Init, RequestsInit, CountedKeys, NoKey
    <3>2. used["monthly_reports"][p] = 0
      BY <2>1 DEF Init, UsageInit, Features
    <3> QED
      BY <3>1, <3>2, FS_EmptySet
  <2> QED
    BY <2>1, InitTypeOK DEF ReportsCounted
<1>2. TypeOK /\ ReportsCounted /\ [Next]_vars => (TypeOK /\ ReportsCounted)'
  BY NextTypeOK, NextReportsCounted
<1> QED
  BY <1>1, <1>2, PTL DEF Spec

(* ------------------------ The counter of the records --------------------- *)

\* Two finite sets without a common element count together what each counts.
LEMMA CountedTogether ==
  ASSUME NEW S, NEW T, IsFiniteSet(S), IsFiniteSet(T), S \cap T = {}
  PROVE  /\ IsFiniteSet(S \cup T)
         /\ Cardinality(S \cup T) = Cardinality(S) + Cardinality(T)
<1>1. Cardinality(S \cap T) = 0
  BY FS_EmptySet
<1>2. Cardinality(S) \in Nat /\ Cardinality(T) \in Nat
  BY FS_CardinalityType
<1>3. /\ IsFiniteSet(S \cup T)
      /\ Cardinality(S \cup T) = Cardinality(S) + Cardinality(T) - Cardinality(S \cap T)
  BY FS_Union
<1> QED
  BY <1>1, <1>2, <1>3

LEMMA IntervalCounted ==
  ASSUME NEW i \in Nat, NEW n \in Nat
  PROVE  IsFiniteSet((i + 1) .. (i + n)) /\ Cardinality((i + 1) .. (i + n)) = n
<1>1. \A a, b \in Int : IsFiniteSet(a .. b) /\ Cardinality(a .. b) = IF a > b THEN 0 ELSE b - a + 1
  BY FS_Interval
<1>2. i + 1 \in Int /\ i + n \in Int /\ (i + 1 > i + n <=> n = 0) /\ i + n - (i + 1) + 1 = n
  OBVIOUS
<1>3. IsFiniteSet((i + 1) .. (i + n))
      /\ Cardinality((i + 1) .. (i + n)) = IF i + 1 > i + n THEN 0 ELSE i + n - (i + 1) + 1
  BY <1>1, <1>2
<1> QED
  BY <1>2, <1>3

\* A counter that grows by n at one place holds n units more.
LEMMA UnitsOfOne ==
  ASSUME NEW S, NEW f \in [S -> Nat], NEW x \in S, NEW n \in Nat, IsFiniteSet(Units(S, f)),
         NEW g, g[x] = f[x] + n, \A y \in S : y # x => g[y] = f[y]
  PROVE  /\ IsFiniteSet(Units(S, g))
         /\ Cardinality(Units(S, g)) = Cardinality(Units(S, f)) + n
<1> DEFINE added == {x} \X ((f[x] + 1) .. (f[x] + n))
<1>1. f[x] \in Nat /\ g[x] = f[x] + n /\ \A y \in S : f[y] \in Nat /\ (y # x => g[y] = f[y])
  OBVIOUS
<1>2. IsFiniteSet(added) /\ Cardinality(added) = n
  <2>1. /\ IsFiniteSet((f[x] + 1) .. (f[x] + n))
        /\ Cardinality((f[x] + 1) .. (f[x] + n)) = n
    BY <1>1, IntervalCounted
  <2>2. IsFiniteSet({x}) /\ Cardinality({x}) = 1
    BY FS_Singleton
  <2>3. /\ IsFiniteSet({x} \X ((f[x] + 1) .. (f[x] + n)))
        /\ Cardinality({x} \X ((f[x] + 1) .. (f[x] + n)))
             = Cardinality({x}) * Cardinality((f[x] + 1) .. (f[x] + n))
    BY ONLY <2>1, <2>2, FS_Product
  <2>4. n \in Nat /\ 1 * n = n
    OBVIOUS
  <2> QED
    BY ONLY <2>1, <2>2, <2>3, <2>4 DEF added
<1>3. Units(S, g) = Units(S, f) \cup added
  <2>1. ASSUME NEW u PROVE u \in Units(S, g) <=> u \in Units(S, f) \cup added
    <3>1. u \in Units(S, g) <=> \E y \in S : \E k \in 1 .. g[y] : u = <<y, k>>
      BY DEF Units
    <3>2. u \in Units(S, f) <=> \E y \in S : \E k \in 1 .. f[y] : u = <<y, k>>
      BY DEF Units
    <3>3. u \in added <=> \E k \in (f[x] + 1) .. (f[x] + n) : u = <<x, k>>
      OBVIOUS
    <3>4. ASSUME NEW y \in S, NEW k \in 1 .. g[y], u = <<y, k>>
          PROVE  u \in Units(S, f) \cup added
      <4>1. CASE y = x /\ k > f[x]
        <5>1. k \in (f[x] + 1) .. (f[x] + n)
          BY <4>1, <1>1
        <5> QED
          BY <3>3, <3>4, <4>1, <5>1
      <4>2. CASE y # x \/ k <= f[x]
        <5>1. k \in 1 .. f[y]
          BY <4>2, <1>1
        <5> QED
          BY <3>2, <3>4, <5>1
      <4> QED
        BY <4>1, <4>2, <1>1
    <3>5. ASSUME NEW y \in S, NEW k \in 1 .. f[y], u = <<y, k>> PROVE u \in Units(S, g)
      <4>1. k \in 1 .. g[y]
        BY <1>1
      <4> QED
        BY <3>1, <3>5, <4>1
    <3>6. ASSUME NEW k \in (f[x] + 1) .. (f[x] + n), u = <<x, k>> PROVE u \in Units(S, g)
      <4>1. k \in 1 .. g[x]
        BY <1>1
      <4> QED
        BY <3>1, <3>6, <4>1
    <3> QED
      BY <3>1, <3>2, <3>3, <3>4, <3>5, <3>6
  <2> QED
    BY <2>1
<1>4. Units(S, f) \cap added = {}
  <2> SUFFICES ASSUME NEW u \in Units(S, f), u \in added PROVE FALSE
    OBVIOUS
  <2>1. PICK y \in S, k \in Nat : u = <<y, k>> /\ k \in 1 .. f[y]
    BY DEF Units
  <2>2. PICK i \in (f[x] + 1) .. (f[x] + n) : u = <<x, i>>
    OBVIOUS
  <2>3. y = x /\ k = i
    BY <2>1, <2>2
  <2> QED
    BY <2>1, <2>2, <2>3, <1>1
<1>5. /\ IsFiniteSet(Units(S, g))
      /\ Cardinality(Units(S, g)) = Cardinality(Units(S, f)) + n
  <2>1. /\ IsFiniteSet(Units(S, f) \cup added)
        /\ Cardinality(Units(S, f) \cup added) = Cardinality(Units(S, f)) + Cardinality(added)
    BY <1>2, <1>4, CountedTogether
  <2> QED
    BY <2>1, <1>2, <1>3
<1> QED
  BY <1>5

\* A counter that grows by one at each place of a set holds a unit more for each.
LEMMA UnitsOfEach ==
  ASSUME NEW S, NEW f \in [S -> Nat], NEW C \in SUBSET S, IsFiniteSet(C), IsFiniteSet(Units(S, f)),
         NEW g, \A x \in S : g[x] = IF x \in C THEN f[x] + 1 ELSE f[x]
  PROVE  /\ IsFiniteSet(Units(S, g))
         /\ Cardinality(Units(S, g)) = Cardinality(Units(S, f)) + Cardinality(C)
<1> DEFINE last == [x \in C |-> <<x, f[x] + 1>>]
           added == {last[x] : x \in C}
<1>1. IsFiniteSet(added) /\ Cardinality(added) = Cardinality(C)
  <2>1. last \in Bijection(C, added)
    <3>1. last \in [C -> added] /\ \A x, y \in C : last[x] = last[y] => x = y
      OBVIOUS
    <3>2. \A t \in added : \E x \in C : last[x] = t
      OBVIOUS
    <3> QED
      BY <3>1, <3>2 DEF Bijection, Injection, Surjection, IsInjective
  <2>2. ExistsBijection(C, added)
    BY <2>1 DEF ExistsBijection
  <2> QED
    BY <2>2, FS_Bijection
<1>2. \A x \in S : f[x] \in Nat /\ g[x] = IF x \in C THEN f[x] + 1 ELSE f[x]
  OBVIOUS
<1>3. \A u : u \in added <=> \E x \in C : u = <<x, f[x] + 1>>
  OBVIOUS
<1> HIDE DEF added
<1>4. ASSUME NEW u PROVE u \in Units(S, g) <=> u \in Units(S, f) \cup added
  <2>1. u \in Units(S, g) <=> \E y \in S : \E k \in 1 .. g[y] : u = <<y, k>>
    BY DEF Units
  <2>2. u \in Units(S, f) <=> \E y \in S : \E k \in 1 .. f[y] : u = <<y, k>>
    BY DEF Units
  <2>3. ASSUME NEW y \in S, NEW k \in 1 .. g[y], u = <<y, k>>
        PROVE  u \in Units(S, f) \cup added
    <3>1. CASE y \in C /\ k = f[y] + 1
      BY <1>3, <2>3, <3>1
    <3>2. CASE y \notin C \/ k # f[y] + 1
      <4>1. k \in 1 .. f[y]
        BY <3>2, <1>2
      <4> QED
        BY <2>2, <2>3, <4>1
    <3> QED
      BY <3>1, <3>2
  <2>4. ASSUME NEW y \in S, NEW k \in 1 .. f[y], u = <<y, k>> PROVE u \in Units(S, g)
    <3>1. k \in 1 .. g[y]
      BY <1>2
    <3> QED
      BY <2>1, <2>4, <3>1
  <2>5. ASSUME NEW y \in C, u = <<y, f[y] + 1>> PROVE u \in Units(S, g)
    <3>1. f[y] + 1 \in 1 .. g[y]
      BY <1>2
    <3> QED
      BY <2>1, <2>5, <3>1
  <2> QED
    BY <2>1, <2>2, <2>3, <2>4, <2>5, <1>3
<1>5. Units(S, f) \cap added = {}
  <2> SUFFICES ASSUME NEW u \in Units(S, f), u \in added PROVE FALSE
    OBVIOUS
  <2>1. PICK y \in S, k \in Nat : u = <<y, k>> /\ k \in 1 .. f[y]
    BY DEF Units
  <2>2. PICK x \in C : u = <<x, f[x] + 1>>
    BY <1>3
  <2>3. y = x /\ k = f[x] + 1
    BY <2>1, <2>2
  <2> QED
    BY <2>1, <2>3, <1>2
<1>6. /\ IsFiniteSet(Units(S, g))
      /\ Cardinality(Units(S, g)) = Cardinality(Units(S, f)) + Cardinality(C)
  <2>1. Units(S, g) = Units(S, f) \cup added
    BY <1>4
  <2>2. /\ IsFiniteSet(Units(S, f) \cup added)
        /\ Cardinality(Units(S, f) \cup added) = Cardinality(Units(S, f)) + Cardinality(added)
    BY <1>1, <1>5, CountedTogether
  <2> QED
    BY <2>1, <2>2, <1>1
<1> QED
  BY <1>6

\* LIMIT n: of reviews that are all without a label, at most n are picked.
LEMMA PickedAtMost ==
  ASSUME NEW S \in SUBSET Reviews, \A r \in S : label[r] = "none", NEW n \in Nat
  PROVE  Cardinality(First(S, n)) <= n
<1> DEFINE before(r) == {s \in S : Sooner(s, r)}
           picked == First(S, n)
<1>1. picked = {r \in S : Cardinality(before(r)) < n}
  BY DEF First
<1>2. \A r \in S : before(r) = {s \in S : s < r}
  BY DEF Sooner
<1>3. S \subseteq Nat /\ \A r \in S : Cardinality(before(r)) \in Nat /\ IsFiniteSet(before(r))
  <2>1. \A r \in S : before(r) \in SUBSET Reviews
    OBVIOUS
  <2> QED
    BY <2>1, BatchesAssumption, PartCounted
<1>4. picked \subseteq S /\ IsFiniteSet(picked) /\ Cardinality(picked) \in Nat
  BY <1>1, PartCounted
<1> HIDE DEF before, picked
<1>5. CASE picked = {}
  BY <1>5, FS_EmptySet DEF picked
<1>6. CASE picked # {}
  <2> DEFINE room == {k \in Nat : \E r \in picked : Cardinality(before(r)) + k + 1 = n}
  <2>1. room # {}
    <3>1. PICK r \in picked : TRUE
      BY <1>6
    <3>2. Cardinality(before(r)) \in Nat /\ Cardinality(before(r)) < n
      BY <1>1, <1>3
    <3>3. n - 1 - Cardinality(before(r)) \in Nat
          /\ Cardinality(before(r)) + (n - 1 - Cardinality(before(r))) + 1 = n
      BY <3>2
    <3> QED
      BY <3>3
  <2>2. PICK k \in room : \A m \in room : <<m, k>> \notin OpToRel(<, Nat)
    BY <2>1, NatLessThanWellFounded, WFMin
  <2>3. k \in Nat /\ \A m \in room : ~ (m < k)
    BY <2>2 DEF OpToRel
  <2>4. PICK r \in picked : Cardinality(before(r)) + k + 1 = n
    OBVIOUS
  <2>5. \A s \in picked \ {r} : s < r
    <3> SUFFICES ASSUME NEW s \in picked \ {r}, ~(s < r) PROVE FALSE
      OBVIOUS
    <3>1. s \in S /\ r \in S /\ r < s
      <4>1. s \in Nat /\ r \in Nat /\ s # r /\ s \in S /\ r \in S
        BY <1>3, <1>4
      <4> QED
        BY <4>1
    <3>2. before(r) \cup {r} \subseteq before(s) /\ r \notin before(r)
      <4>1. \A e \in S : e \in Nat
        BY <1>3
      <4>2. \A e \in S : (e \in before(r) <=> e < r) /\ (e \in before(s) <=> e < s)
        BY <1>2, <3>1
      <4>3. before(r) \subseteq S
        BY <1>2, <3>1
      <4> QED
        BY <3>1, <4>1, <4>2, <4>3
    <3>3. Cardinality(before(r) \cup {r}) = Cardinality(before(r)) + 1
      BY <1>3, <3>1, <3>2, FS_AddElement
    <3>4. Cardinality(before(r) \cup {r}) <= Cardinality(before(s))
      BY <1>3, <3>1, <3>2, FS_Subset
    <3>5. Cardinality(before(s)) < n /\ Cardinality(before(s)) \in Nat /\ Cardinality(before(r)) \in Nat
      BY <1>1, <1>3, <3>1
    <3>6. n - 1 - Cardinality(before(s)) \in room
      <4>1. n - 1 - Cardinality(before(s)) \in Nat
            /\ Cardinality(before(s)) + (n - 1 - Cardinality(before(s))) + 1 = n
        BY <3>5
      <4> QED
        BY <4>1
    <3>7. n - 1 - Cardinality(before(s)) < k
      BY <2>3, <2>4, <3>3, <3>4, <3>5
    <3> QED
      BY <2>3, <3>6, <3>7
  <2>6. picked \ {r} \subseteq before(r)
    BY <1>1, <1>2, <2>5
  <2>7. Cardinality(picked \ {r}) = Cardinality(picked) - 1
    BY <1>4, FS_RemoveElement
  <2>8. Cardinality(picked \ {r}) <= Cardinality(before(r))
    BY <1>1, <1>3, <2>6, FS_Subset
  <2>9. Cardinality(before(r)) \in Nat /\ Cardinality(before(r)) < n
    BY <1>1, <1>3
  <2> QED
    BY <1>4, <2>7, <2>8, <2>9 DEF picked
<1> QED
  BY <1>5, <1>6

Records == used["sentiment_analysis"]
MostRecords == Limit["sentiment_analysis"]

\* A reservation that is not committed keeps its room: its batch stores no more
\* labels than it reserved for, and the counter's row is locked for others.
RoomInv ==
    /\ \A p \in Periods : Records[p] <= MostRecords
    /\ \A b \in Batches : Holding(b) => Records[batch[b].period] + Cardinality(batch[b].new) <= MostRecords
    /\ \A b, c \in Batches : Holding(b) /\ Holding(c) /\ batch[b].period = batch[c].period => b = c

RecordsInv ==
    /\ IsFiniteSet(Units(Periods, Records)) /\ IsFiniteSet(Units(Reviews, paid))
    /\ Cardinality(Units(Periods, Records)) = Cardinality(Units(Reviews, paid))
    /\ RoomInv

\* A step that stores nothing keeps it, if its batch holds no more than before.
LEMMA HeldRoom ==
  ASSUME TypeOK, RoomInv, UNCHANGED used, NEW b \in Batches, NEW row \in BatchRow, Becomes(b, row),
         row.at \in {"reserved", "predicted", "rated"} /\ row.new # {} =>
           \/ /\ Holding(b) /\ row.period = batch[b].period
              /\ Cardinality(row.new) <= Cardinality(batch[b].new)
           \/ /\ ~Held(row.period)
              /\ Records[row.period] + Cardinality(row.new) <= MostRecords
  PROVE  RoomInv'
<1>1. /\ batch \in [Batches -> BatchRow]
      /\ used \in [Features -> [Periods -> Nat]] /\ "sentiment_analysis" \in Features
      /\ MostRecords \in Nat
  BY UsageAssumption DEF TypeOK, UsageTypeOK, SentimentTypeOK, BatchRow, Features, MostRecords
<1>2. /\ batch'[b] = row /\ \A c \in Batches : c # b => batch'[c] = batch[c]
      /\ Records' = Records
  BY <1>1 DEF Becomes, Records
<1>3. Holding(b)' <=> row.new # {} /\ row.at \in {"reserved", "predicted", "rated"}
  BY <1>2 DEF Holding
<1>4. \A c \in Batches : c # b => (Holding(c)' <=> Holding(c))
  BY <1>2 DEF Holding
<1>5. /\ row.period \in Periods /\ Cardinality(row.new) \in Nat
      /\ \A c \in Batches : Cardinality(batch[c].new) \in Nat /\ batch[c].period \in Periods
  BY <1>1, PartCounted DEF BatchRow
<1>6. \A p \in Periods : Records[p] \in Nat
  BY <1>1 DEF Records
<1>7. ASSUME NEW c \in Batches, Holding(c)'
      PROVE  Records[batch'[c].period] + Cardinality(batch'[c].new) <= MostRecords
  <2>1. CASE c # b
    BY <1>2, <1>4, <1>7, <2>1 DEF RoomInv
  <2>2. CASE c = b
    <3>1. Holding(b) => Records[batch[b].period] + Cardinality(batch[b].new) <= MostRecords
      BY DEF RoomInv
    <3> QED
      BY <1>1, <1>2, <1>3, <1>5, <1>6, <1>7, <2>2, <3>1
  <2> QED
    BY <2>1, <2>2
<1>8. ASSUME NEW c \in Batches, NEW d \in Batches, Holding(c)', Holding(d)',
             batch'[c].period = batch'[d].period
      PROVE  c = d
  <2>1. ASSUME NEW e \in Batches \ {b}, Holding(b)', Holding(e)', row.period = batch[e].period
        PROVE  FALSE
    <3>1. Holding(e) /\ Held(row.period)
      BY <1>4, <2>1 DEF Held
    <3>2. Holding(b) /\ row.period = batch[b].period
      BY <1>3, <2>1, <3>1
    <3> QED
      BY <2>1, <3>1, <3>2 DEF RoomInv
  <2>2. c # b /\ d # b => c = d
    BY <1>2, <1>4, <1>8 DEF RoomInv
  <2> QED
    BY <1>2, <1>8, <2>1, <2>2
<1> QED
  BY <1>2, <1>7, <1>8 DEF RoomInv

\* Storing labels uses what was reserved for them.
LEMMA StoredRoom ==
  ASSUME TypeOK, RoomInv, NEW b \in Batches, NEW C \in SUBSET batch[b].new,
         batch[b].at \in {"predicted", "rated"}, Becomes(b, Idle),
         used' = Counted("sentiment_analysis", batch[b].period, Cardinality(C))
  PROVE  RoomInv'
<1> DEFINE p == batch[b].period
           n == Cardinality(C)
<1>1. /\ batch \in [Batches -> BatchRow]
      /\ used \in [Features -> [Periods -> Nat]] /\ "sentiment_analysis" \in Features
      /\ MostRecords \in Nat /\ p \in Periods
  BY UsageAssumption DEF TypeOK, UsageTypeOK, SentimentTypeOK, BatchRow, Features, MostRecords
<1>2. /\ batch'[b] = Idle /\ \A c \in Batches : c # b => batch'[c] = batch[c]
  BY <1>1 DEF Becomes
<1>3. ~Holding(b)' /\ \A c \in Batches : c # b => (Holding(c)' <=> Holding(c))
  BY <1>2 DEF Holding, Idle
<1>4. n \in Nat /\ Cardinality(batch[b].new) \in Nat /\ n <= Cardinality(batch[b].new)
  <2>1. batch[b].new \in SUBSET Reviews
    BY <1>1 DEF BatchRow
  <2>2. IsFiniteSet(batch[b].new)
    BY <2>1, PartCounted
  <2>3. Cardinality(C) <= Cardinality(batch[b].new)
    BY <2>2, FS_Subset
  <2>4. C \in SUBSET Reviews
    BY <2>1
  <2> QED
    BY <2>1, <2>3, <2>4, PartCounted
<1>5. \A q \in Periods : Records[q] \in Nat /\ Records'[q] = IF q = p THEN Records[q] + n ELSE Records[q]
  BY <1>1 DEF Records, Counted
<1>6. C # {} => Holding(b)
  BY DEF Holding
<1>7. Records[p] + n <= MostRecords
  <2>1. CASE C = {}
    <3>1. n = 0
      BY <2>1, FS_EmptySet
    <3> QED
      BY <1>1, <1>5, <3>1 DEF RoomInv
  <2>2. CASE C # {}
    <3>1. Records[p] + Cardinality(batch[b].new) <= MostRecords
      BY <1>6, <2>2 DEF RoomInv
    <3>2. Records[p] \in Nat
      BY <1>1, <1>5
    <3> HIDE DEF n, p
    <3> QED
      BY <1>1, <1>4, <3>1, <3>2
  <2> QED
    BY <2>1, <2>2
<1> HIDE DEF n
<1>8. \A q \in Periods : Records'[q] <= MostRecords
  BY <1>5, <1>7 DEF RoomInv
<1>9. ASSUME NEW c \in Batches, Holding(c)'
      PROVE  c # b /\ Holding(c) /\ batch'[c] = batch[c] /\ batch[c].period \in Periods
  BY <1>1, <1>2, <1>3, <1>9 DEF BatchRow
<1>10. ASSUME NEW c \in Batches, Holding(c)'
       PROVE  Records'[batch'[c].period] + Cardinality(batch'[c].new) <= MostRecords
  <2>1. CASE batch[c].period = p
    <3>1. ~Holding(b)
      BY <1>9, <1>10, <2>1 DEF RoomInv
    <3>2. C = {}
      BY <1>6, <3>1
    <3>3. n = 0
      BY <3>2, FS_EmptySet DEF n
    <3>4. Records'[batch[c].period] = Records[batch[c].period]
      BY <1>5, <1>9, <1>10, <3>3
    <3> QED
      BY <1>9, <1>10, <3>4 DEF RoomInv
  <2>2. CASE batch[c].period # p
    <3>1. Records'[batch[c].period] = Records[batch[c].period]
      BY <1>5, <1>9, <1>10, <2>2
    <3> QED
      BY <1>9, <1>10, <3>1 DEF RoomInv
  <2> QED
    BY <2>1, <2>2
<1>11. ASSUME NEW c \in Batches, NEW d \in Batches, Holding(c)', Holding(d)',
              batch'[c].period = batch'[d].period
       PROVE  c = d
  BY <1>9, <1>11 DEF RoomInv
<1> QED
  BY <1>8, <1>10, <1>11 DEF RoomInv

LEMMA SentimentStepRoom ==
  ASSUME TypeOK, RecordsInv, SentimentStep PROVE RecordsInv'
<1>1. /\ batch \in [Batches -> BatchRow] /\ label \in [Reviews -> {"none", "rating", "model"}]
      /\ paid \in [Reviews -> Nat] /\ period \in Periods /\ 0 \in Periods
      /\ used \in [Features -> [Periods -> Nat]] /\ "sentiment_analysis" \in Features
  BY UsageAssumption DEF TypeOK, UsageTypeOK, SentimentTypeOK, BatchRow, Features, Periods
<1>2. PICK b \in Batches :
        Hint(b) \/ Load(b) \/ Reserve(b) \/ Predict(b) \/ Rate(b) \/ Store(b) \/ GiveUp(b)
  BY DEF SentimentStep
<1>3. batch[b] \in BatchRow /\ Idle \in BatchRow
  BY <1>1 DEF BatchRow, Idle
<1>4. ASSUME Same, NEW row \in BatchRow, Becomes(b, row),
             row.at \in {"reserved", "predicted", "rated"} /\ row.new # {} =>
               \/ /\ Holding(b) /\ row.period = batch[b].period
                  /\ Cardinality(row.new) <= Cardinality(batch[b].new)
               \/ /\ ~Held(row.period)
                  /\ Records[row.period] + Cardinality(row.new) <= MostRecords
      PROVE  RecordsInv'
  <2>1. RoomInv'
    BY <1>4, HeldRoom DEF RecordsInv, Same, usageVars
  <2>2. used' = used /\ paid' = paid
    BY <1>4 DEF Same, usageVars
  <2> QED
    BY <2>1, <2>2 DEF RecordsInv, Records
<1>5. ASSUME Same, NEW row \in BatchRow, Becomes(b, row),
             row.at \notin {"reserved", "predicted", "rated"}
      PROVE  RecordsInv'
  BY <1>4, <1>5
<1>6. CASE Hint(b)
  <2> DEFINE n == IF Left("sentiment_analysis") < BatchSize THEN Left("sentiment_analysis") ELSE BatchSize
             row == [Idle EXCEPT !.at = "hinted", !.left = n]
  <2>1. n \in Nat
    <3>1. Limit["sentiment_analysis"] \in Nat /\ used["sentiment_analysis"][period] \in Nat
      BY <1>1, UsageAssumption
    <3> QED
      BY <3>1, BatchesAssumption DEF Left
  <2>2. Same /\ Becomes(b, row)
    BY <1>6 DEF Hint
  <2> HIDE DEF n
  <2>3. row \in BatchRow /\ row.at = "hinted"
    BY <2>1, <1>1 DEF BatchRow, Idle
  <2> HIDE DEF row
  <2> QED
    BY <2>2, <2>3, <1>5
<1>7. CASE Load(b)
  <2> DEFINE seen == First({r \in Reviews : label[r] # "model"}, batch[b].left)
             new == {r \in seen : label[r] = "none"}
             row == [Idle EXCEPT !.at = "loaded", !.seen = seen, !.new = new]
  <2>1. seen \in SUBSET Reviews
    BY FirstOf
  <2>2. Same /\ (Becomes(b, row) \/ Becomes(b, Idle))
    BY <1>7 DEF Load
  <2>3. new \in SUBSET Reviews
    BY <2>1
  <2> HIDE DEF seen, new
  <2>4. row \in BatchRow /\ row.at = "loaded" /\ Idle.at = "idle"
    BY <2>1, <2>3, <1>1 DEF BatchRow, Idle
  <2> HIDE DEF row
  <2> QED
    BY <2>2, <2>4, <1>3, <1>5
<1>8. CASE Reserve(b)
  <2> DEFINE row == [batch[b] EXCEPT !.at = "reserved", !.period = period]
  <2>1. /\ Same /\ Becomes(b, row)
        /\ batch[b].new # {} => ~Held(period) /\ Room("sentiment_analysis", Cardinality(batch[b].new))
    BY <1>8 DEF Reserve
  <2>2. row \in BatchRow /\ row.new = batch[b].new /\ row.period = period
    BY <1>1, <1>3 DEF BatchRow
  <2>3. row.new # {} => ~Held(row.period) /\ Records[row.period] + Cardinality(row.new) <= MostRecords
    BY <2>1, <2>2 DEF Room, Records, MostRecords
  <2> HIDE DEF row
  <2> QED
    BY <2>1, <2>2, <2>3, <1>4
<1>9. CASE Predict(b)
  <2> DEFINE row == [batch[b] EXCEPT !.at = "predicted"]
  <2>1. Same /\ Becomes(b, row) /\ batch[b].at = "reserved"
    BY <1>9 DEF Predict, Is
  <2>2. row \in BatchRow /\ row.new = batch[b].new /\ row.period = batch[b].period
    BY <1>3 DEF BatchRow
  <2>3. row.new # {} => Holding(b)
    BY <2>1, <2>2 DEF Holding
  <2>4. Cardinality(row.new) \in Nat
    BY <2>2, PartCounted DEF BatchRow
  <2>5. Cardinality(row.new) <= Cardinality(batch[b].new)
    BY <2>2, <2>4
  <2> HIDE DEF row
  <2> QED
    BY <2>1, <2>2, <2>3, <2>5, <1>4
<1>10. CASE Rate(b)
  <2> DEFINE again == First({r \in Rated : label[r] = "none"}, Cardinality(batch[b].new))
             row == [batch[b] EXCEPT !.at = "rated", !.seen = again, !.new = again]
  <2>1. /\ Same /\ (Becomes(b, row) \/ Becomes(b, Idle)) /\ batch[b].at = "reserved"
    BY <1>10 DEF Rate, Is
  <2>2. again \in SUBSET Reviews
    BY FirstOf, BatchesAssumption
  <2>3. /\ IsFiniteSet(batch[b].new) /\ Cardinality(batch[b].new) \in Nat
        /\ IsFiniteSet(again) /\ Cardinality(again) \in Nat
    BY <2>2, <1>3, PartCounted DEF BatchRow
  <2>4. {r \in Rated : label[r] = "none"} \in SUBSET Reviews
    BY BatchesAssumption
  <2>5. Cardinality(again) <= Cardinality(batch[b].new)
    BY <2>3, <2>4, PickedAtMost
  <2> HIDE DEF again
  <2>6. row \in BatchRow /\ row.new = again /\ row.period = batch[b].period /\ Idle.at = "idle"
    BY <2>2, <1>3 DEF BatchRow, Idle
  <2>7. again # {} => Holding(b)
    <3>1. again # {} => Cardinality(again) # 0
      BY <2>3, FS_EmptySet
    <3>2. batch[b].new = {} => Cardinality(batch[b].new) = 0
      BY FS_EmptySet
    <3>3. again # {} => batch[b].new # {}
      BY <3>1, <3>2, <2>3, <2>5
    <3> QED
      BY <3>3, <2>1 DEF Holding
  <2> HIDE DEF row
  <2>8. CASE Becomes(b, row)
    BY <2>1, <2>5, <2>6, <2>7, <2>8, <1>4
  <2>9. CASE Becomes(b, Idle)
    BY <2>1, <2>6, <2>9, <1>3, <1>5
  <2> QED
    BY <2>1, <2>8, <2>9
<1>11. CASE GiveUp(b)
  <2>1. Idle.at = "idle" /\ Same /\ Becomes(b, Idle)
    BY <1>11 DEF Idle, GiveUp
  <2> QED
    BY <2>1, <1>3, <1>5
<1>12. CASE Store(b)
  <2>1. PICK C \in SUBSET batch[b].new :
          /\ paid' = [r \in Reviews |-> IF r \in C THEN paid[r] + 1 ELSE paid[r]]
          /\ used' = Counted("sentiment_analysis", batch[b].period, Cardinality(C))
          /\ Becomes(b, Idle) /\ batch[b].at \in {"predicted", "rated"}
    BY <1>12 DEF Store, Charged
  <2>2. batch[b].new \in SUBSET Reviews /\ batch[b].period \in Periods
    BY <1>3 DEF BatchRow
  <2>3. C \in SUBSET Reviews /\ IsFiniteSet(C) /\ Cardinality(C) \in Nat
    BY <2>2, PartCounted
  <2>4. RoomInv'
    BY <2>1, StoredRoom DEF RecordsInv
  <2>5. /\ IsFiniteSet(Units(Reviews, paid'))
        /\ Cardinality(Units(Reviews, paid')) = Cardinality(Units(Reviews, paid)) + Cardinality(C)
    <3>1. \A r \in Reviews : paid'[r] = IF r \in C THEN paid[r] + 1 ELSE paid[r]
      BY <2>1
    <3>2. IsFiniteSet(Units(Reviews, paid))
      BY DEF RecordsInv
    <3> QED
      BY <2>3, <1>1, <3>1, <3>2, UnitsOfEach
  <2>6. /\ Records \in [Periods -> Nat]
        /\ used'["sentiment_analysis"][batch[b].period] = Records[batch[b].period] + Cardinality(C)
        /\ \A q \in Periods : q # batch[b].period => used'["sentiment_analysis"][q] = Records[q]
    BY <2>1, <2>2, <1>1 DEF Records, Counted
  <2>7. /\ IsFiniteSet(Units(Periods, used'["sentiment_analysis"]))
        /\ Cardinality(Units(Periods, used'["sentiment_analysis"]))
             = Cardinality(Units(Periods, Records)) + Cardinality(C)
    <3>1. IsFiniteSet(Units(Periods, Records))
      BY DEF RecordsInv
    <3> QED
      BY <2>2, <2>3, <2>6, <3>1, UnitsOfOne
  <2> QED
    BY <2>4, <2>5, <2>7 DEF RecordsInv, Records
<1> QED
  BY <1>2, <1>6, <1>7, <1>8, <1>9, <1>10, <1>11, <1>12

LEMMA InitRecordsInv == Init => RecordsInv
<1> SUFFICES ASSUME Init PROVE RecordsInv
  OBVIOUS
<1>1. /\ \A p \in Periods : Records[p] = 0
      /\ \A r \in Reviews : paid[r] = 0
      /\ \A b \in Batches : batch[b].new = {}
  BY DEF Init, UsageInit, SentimentInit, Features, Records, Idle
<1>2. Units(Periods, Records) = {} /\ Units(Reviews, paid) = {}
  BY <1>1 DEF Units
<1>3. MostRecords \in Nat
  BY UsageAssumption DEF MostRecords, Features
<1> QED
  BY <1>1, <1>2, <1>3, FS_EmptySet DEF RecordsInv, RoomInv, Holding

\* The counters hold what they were moved for: the reports' one a unit for each key,
\* the records' one a unit for each label charged, and never more than the plan allows.
THEOREM CountersHold == Spec => []CountersAgree
<1>1. TypeOK /\ RecordsInv /\ [Next]_vars => RecordsInv'
  <2> SUFFICES ASSUME TypeOK, RecordsInv, [Next]_vars PROVE RecordsInv'
    OBVIOUS
  <2>1. ASSUME used'["sentiment_analysis"] = used["sentiment_analysis"], UNCHANGED sentimentVars
        PROVE  RecordsInv'
    BY <2>1 DEF RecordsInv, RoomInv, Records, Holding, sentimentVars
  <2>2. CASE RequestStep /\ UNCHANGED sentimentVars
    <3>1. used \in [Features -> [Periods -> Nat]] /\ "sentiment_analysis" \in Features
      BY DEF TypeOK, UsageTypeOK, Features
    <3>2. UNCHANGED used \/ \E p, n : used' = Counted("monthly_reports", p, n) \/ used' = GivenBack("monthly_reports", p, n)
      BY <2>2 DEF RequestStep, Begin, Refuse, Replay, Count, Deliver, Break, Vanish, Release, FreesKey, usageVars
    <3>3. used'["sentiment_analysis"] = used["sentiment_analysis"]
      BY <3>1, <3>2 DEF Counted, GivenBack
    <3> QED
      BY <2>1, <2>2, <3>3
  <2>3. CASE SentimentStep
    BY <2>3, SentimentStepRoom
  <2>4. CASE NewPeriod /\ UNCHANGED <<requestVars, sentimentVars>>
    BY <2>1, <2>4 DEF NewPeriod
  <2>5. CASE UNCHANGED vars
    BY <2>1, <2>5 DEF vars, usageVars
  <2> QED
    BY <2>2, <2>3, <2>4, <2>5 DEF Next
<1>2. RecordsInv /\ ReportsCounted => CountersAgree
  BY DEF RecordsInv, RoomInv, Records, MostRecords, CountersAgree, RecordsCounted
<1> QED
  BY <1>1, <1>2, InitRecordsInv, TypeCorrect, UnitsAreKeys, PTL DEF Spec

=============================================================================
