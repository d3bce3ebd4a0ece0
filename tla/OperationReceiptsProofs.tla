----------------------- MODULE OperationReceiptsProofs -----------------------
(***************************************************************************)
(* Theorems of OperationReceipts for every set of receipts, targets and    *)
(* workers, every lease length and every bound.  IInv is the inductive     *)
(* invariant: the row's own consistency, what a worker's memory of a       *)
(* receipt implies about the row, and what the histories record.  The last *)
(* part proves that OperationReceipts implements ProviderEffects.          *)
(***************************************************************************)
EXTENDS ReceiptsImplement, TLAPS

(* ---------------------------- Type correctness --------------------------- *)

\* Writing one well-formed row keeps the table well-formed.
LEMMA SetRowTyped ==
  ASSUME rows \in [Receipts -> Row], NEW r \in Receipts, NEW row \in Row, SetRow(r, row)
  PROVE  rows' \in [Receipts -> Row]
BY DEF SetRow

\* The interval bounds the updates below need.
LEMMA Bounds ==
  /\ LeaseLength \in -MaxStale..LeaseLength
  /\ -MaxStale \in -MaxStale..LeaseLength
  /\ 0 \in 0..MaxStale
  /\ \A g \in 0..MaxGeneration : g < MaxGeneration => g + 1 \in 0..MaxGeneration
  /\ \A a \in 0..MaxStale : /\ LeaseLength - a \in -MaxStale..LeaseLength
                            /\ 0..a \subseteq 0..MaxStale
                            /\ a < MaxStale => a + 1 \in 0..MaxStale
  /\ \A l \in -MaxStale..LeaseLength : l > -MaxStale => l - 1 \in -MaxStale..LeaseLength
BY ReceiptAssumption

\* The values the operations write are of the fields' types.
LEMMA FieldValues ==
  /\ {"dispatch_pending", "queued", "authorized", "provider_started", "retryable",
      "reconciliation_required", "completed", "failed", "denied"} \subseteq States
  /\ {"not_started", "unknown", "completed"} \subseteq Outcomes
BY DEF States, Active, Terminal, Outcomes

\* A state, a started flag and an outcome written together stay inside Row.
LEMMA RowUpdate ==
  ASSUME NEW row \in Row, NEW s \in States, NEW b \in BOOLEAN, NEW o \in Outcomes
  PROVE  /\ [row EXCEPT !.state = s, !.started = b, !.outcome = o] \in Row
         /\ [row EXCEPT !.state = s, !.outcome = o] \in Row
         /\ [row EXCEPT !.state = s] \in Row
BY DEF Row

\* So does a row whose lease is taken away.
LEMMA UnleaseTyped == ASSUME NEW row \in Row PROVE Unlease(row) \in Row
BY Bounds DEF Unlease, Row

\* A worker that holds no receipt is in no transaction.
LEMMA IdleFields == Idle.r = NoOne /\ ~Idle.fencing /\ ~Idle.pre
BY DEF Idle

\* Init establishes the types.
LEMMA InitTypeOK == Init => TypeOK
<1> SUFFICES ASSUME Init PROVE TypeOK
  OBVIOUS
<1>1. rows \in [Receipts -> Row]
  BY Bounds, ReceiptAssumption DEF Init, Row, States, Outcomes
<1>2. sessions \in [Workers -> Session] /\ ages \in [Workers -> 0..MaxStale]
      /\ calls \in [Callers -> Call]
  BY Bounds, ReceiptAssumption DEF Init, Session, Idle, Call
<1>3. allowed \in [Targets -> BOOLEAN] /\ verified \in [Targets -> BOOLEAN]
      /\ config \in [Targets -> Configs]
  BY DEF Init
<1>4. period \in 0..MaxPeriod
  BY ReceiptAssumption DEF Init
<1>5. runs \in [Receipts -> SUBSET (0..MaxGeneration)]
      /\ landed \in [Receipts -> SUBSET (0..MaxGeneration)]
  BY DEF Init
<1> QED
  BY <1>1, <1>2, <1>3, <1>4, <1>5 DEF TypeOK

\* A receipt of t is written when t has no active one: all that a caller does to
\* the table, and all that the other proofs need of the callers.
Written(t, q, p) ==
  /\ ActiveFor(t) = {}
  /\ \E r \in Receipts :
       /\ rows[r].state = "absent"
       /\ SetRow(r, [rows[r] EXCEPT !.state = "dispatch_pending", !.target = t,
                                    !.request = q, !.period = p])
  /\ UNCHANGED <<sessions, ages, allowed, verified, config, period, runs, landed>>

LEMMA CallerSteps ==
  ASSUME TypeOK, NEW c \in Callers, CallerStep(c)
  PROVE  /\ UNCHANGED <<sessions, ages, allowed, verified, config, period, runs, landed>>
         /\ \/ rows' = rows
            \/ \E t \in Targets, q \in Requests, p \in 0..MaxPeriod : Written(t, q, p)
<1>1. UNCHANGED <<sessions, ages, allowed, verified, config, period, runs, landed>>
  BY DEF CallerStep, Look, Insert, Refuse
<1>2. ASSUME NEW r \in Receipts, Insert(c), ActiveFor(calls[c].target) = {}, Created(c, r)
      PROVE  \E t \in Targets, q \in Requests, p \in 0..MaxPeriod : Written(t, q, p)
  <2>1. /\ calls[c].target \in Targets /\ calls[c].request \in Requests
        /\ calls[c].period \in 0..MaxPeriod
    BY <1>2 DEF TypeOK, Call, NoCall, Insert
  <2>2. Written(calls[c].target, calls[c].request, calls[c].period)
    BY <1>1, <1>2 DEF Written, Created
  <2> QED
    BY <2>1, <2>2
<1>3. CASE ~(rows' = rows)
  <2>1. Insert(c)
    BY <1>3 DEF CallerStep, Look, Refuse
  <2>2. PICK r \in Receipts : ActiveFor(calls[c].target) = {} /\ Created(c, r)
    BY <1>3, <2>1 DEF Insert
  <2> QED
    BY <1>1, <1>2, <2>1, <2>2
<1> QED
  BY <1>1, <1>3

\* Every step keeps them.
LEMMA NextTypeOK == TypeOK /\ [Next]_vars => TypeOK'
<1> SUFFICES ASSUME TypeOK, [Next]_vars PROVE TypeOK'
  OBVIOUS
<1>a. /\ \A r \in Receipts : rows[r] \in Row
      /\ \A w \in Workers : sessions[w] \in Session /\ ages[w] \in 0..MaxStale
  BY DEF TypeOK
<1>b. \A w \in Workers : sessions[w].r # NoOne => sessions[w].r \in Receipts
  BY <1>a DEF Session
<1>1. CASE UNCHANGED vars
  BY <1>1 DEF vars, env, TypeOK
<1>2. CASE Next
  <2>1. ASSUME NEW c \in Callers, CallerStep(c) PROVE TypeOK'
    <3>1. UNCHANGED <<sessions, ages, allowed, verified, config, period, runs, landed>>
      BY <2>1 DEF CallerStep, Look, Insert, Refuse
    <3>2. rows' \in [Receipts -> Row]
      <4>1. CASE rows' = rows
        BY <4>1 DEF TypeOK
      <4>2. CASE \E t \in Targets, q \in Requests, p \in 0..MaxPeriod : Written(t, q, p)
        <5>1. PICK t \in Targets, q \in Requests, p \in 0..MaxPeriod, r \in Receipts :
                SetRow(r, [rows[r] EXCEPT !.state = "dispatch_pending", !.target = t,
                                          !.request = q, !.period = p])
          BY <4>2 DEF Written
        <5>2. [rows[r] EXCEPT !.state = "dispatch_pending", !.target = t,
                              !.request = q, !.period = p] \in Row
          BY <1>a DEF Row, States, Active
        <5> QED
          BY <5>1, <5>2, SetRowTyped DEF TypeOK
      <4> QED
        BY <4>1, <4>2, <2>1, CallerSteps
    <3>3. calls' \in [Callers -> Call]
      <4>1. calls[c] \in Call /\ NoCall \in Call
        BY DEF TypeOK, Call
      <4>2. ASSUME NEW t \in Targets, NEW q \in Requests, Look(c, t, q)
            PROVE  calls' \in [Callers -> Call]
        <5> DEFINE call == [target |-> t, request |-> q, period |-> period, got |-> NoOne]
        <5>1. call \in Call /\ \A r \in Receipts : [call EXCEPT !.got = r] \in Call
          BY ReceiptAssumption DEF Call, TypeOK
        <5> QED
          BY <4>2, <5>1 DEF Look, ActiveFor, TypeOK
      <4>3. ASSUME Insert(c) PROVE calls' \in [Callers -> Call]
        <5>1. \A r \in Receipts : [calls[c] EXCEPT !.got = r] \in Call
          BY <4>1, <4>3 DEF Call, NoCall, Insert
        <5> QED
          BY <4>3, <5>1 DEF Insert, Created, ActiveFor, TypeOK
      <4>4. ASSUME Refuse(c) PROVE calls' \in [Callers -> Call]
        BY <4>4, <4>1 DEF Refuse, TypeOK
      <4> QED
        BY <2>1, <4>2, <4>3, <4>4 DEF CallerStep
    <3> QED
      BY <3>1, <3>2, <3>3 DEF TypeOK
  <2>2. ASSUME NEW r \in Receipts, MarkQueued(r) PROVE TypeOK'
    <3>1. [rows[r] EXCEPT !.state = "queued"] \in Row
      BY <1>a DEF Row, States, Active
    <3> QED
      BY <2>2, <3>1, SetRowTyped DEF MarkQueued, TypeOK, env
  <2>3. ASSUME NEW w \in Workers, NEW r \in Receipts, ClaimUncertain(w, r) PROVE TypeOK'
    <3>1. [rows[r] EXCEPT !.state = "reconciliation_required", !.outcome = "unknown"] \in Row
      BY <1>a DEF Row, States, Active, Outcomes
    <3>2. Unlease([rows[r] EXCEPT !.state = "reconciliation_required",
                                  !.outcome = "unknown"]) \in Row
      BY <3>1, Bounds DEF Unlease, Row
    <3> QED
      BY <2>3, <3>2, SetRowTyped DEF ClaimUncertain, TypeOK, env
  <2>4. ASSUME NEW w \in Workers, NEW r \in Receipts, ClaimDenied(w, r) PROVE TypeOK'
    <3>1. rows[r].gen \in 0..MaxGeneration
      BY <1>a DEF Row
    <3>2. rows[r].gen + 1 \in 0..MaxGeneration
      BY <2>4, <3>1, Bounds DEF ClaimDenied
    <3>3. [rows[r] EXCEPT !.state = "denied", !.gen = @ + 1] \in Row
      BY <1>a, <3>2 DEF Row, States, Terminal
    <3>4. Unlease([rows[r] EXCEPT !.state = "denied", !.gen = @ + 1]) \in Row
      BY <3>3, Bounds DEF Unlease, Row
    <3> QED
      BY <2>4, <3>4, SetRowTyped DEF ClaimDenied, TypeOK, env
  <2>5. ASSUME NEW w \in Workers, NEW r \in Receipts, ClaimGranted(w, r) PROVE TypeOK'
    <3>1. rows[r].gen \in 0..MaxGeneration
      BY <1>a DEF Row
    <3>2. rows[r].gen + 1 \in 0..MaxGeneration
      BY <2>5, <3>1, Bounds DEF ClaimGranted
    <3>3. NameOf[w] \in Names
      BY ReceiptAssumption
    <3>4. [rows[r] EXCEPT !.state = "authorized", !.gen = @ + 1,
                          !.owner = NameOf[w], !.lease = LeaseLength] \in Row
      BY <1>a, <3>2, <3>3, Bounds DEF Row, States, Active
    <3>5. [Idle EXCEPT !.r = r, !.gen = rows[r].gen + 1] \in Session
      BY <3>2 DEF Session, Idle
    <3> QED
      BY <2>5, <3>4, <3>5, SetRowTyped, Bounds DEF ClaimGranted, TypeOK, env
  <2>6. ASSUME NEW w \in Workers, LoadSource(w) PROVE TypeOK'
    <3>1. sessions[w].r \in Receipts
      BY <1>b, <2>6 DEF LoadSource
    <3>2. config[rows[sessions[w].r].target] \in Configs
      BY <2>6, ReceiptAssumption DEF LoadSource, TypeOK
    <3>3. [sessions[w] EXCEPT !.cfg = config[rows[sessions[w].r].target]] \in Session
      BY <1>a, <3>2 DEF Session
    <3> QED
      BY <2>6, <3>3 DEF LoadSource, TypeOK, env
  <2>7. ASSUME NEW w \in Workers, AttachJob(w) PROVE TypeOK'
    <3>1. sessions[w].r \in Receipts /\ sessions[w].gen \in 0..MaxGeneration
      BY <1>a, <1>b, <2>7 DEF AttachJob, Session
    <3>2. [rows[sessions[w].r] EXCEPT !.job = sessions[w].gen] \in Row
      BY <1>a, <3>1 DEF Row
    <3> QED
      BY <2>7, <3>1, <3>2, SetRowTyped, Bounds DEF AttachJob, TypeOK, env
  <2>8. ASSUME NEW w \in Workers, BeginProvider(w) PROVE TypeOK'
    <3>1. sessions[w].r \in Receipts /\ sessions[w].gen \in 0..MaxGeneration
      BY <1>a, <1>b, <2>8 DEF BeginProvider, Session
    <3>2. [rows[sessions[w].r] EXCEPT !.state = "provider_started", !.started = TRUE,
                                      !.outcome = "unknown"] \in Row
      BY <1>a, <3>1, FieldValues, RowUpdate
    <3> QED
      BY <2>8, <3>1, <3>2, SetRowTyped, Bounds DEF BeginProvider, TypeOK, env
  <2>9. ASSUME NEW w \in Workers, NEW pre \in BOOLEAN, Fence(w, pre) PROVE TypeOK'
    <3>1. [sessions[w] EXCEPT !.fencing = TRUE, !.pre = pre] \in Session
      BY <1>a DEF Session
    <3>2. sessions' \in [Workers -> Session]
      BY <2>9, <3>1 DEF Fence, TypeOK
    <3>3. ages' \in [Workers -> 0..MaxStale]
      BY <2>9, <1>a, Bounds DEF Fence, Stale, TypeOK
    <3> QED
      BY <2>9, <3>2, <3>3 DEF Fence, TypeOK, env
  <2>10. ASSUME NEW w \in Workers, Commit(w) PROVE TypeOK'
    <3> DEFINE r == sessions[w].r
    <3>1. SetRow(r, [rows[r] EXCEPT !.lease = LeaseLength - ages[w]])
      BY <2>10 DEF Commit
    <3>2. rows' \in [Receipts -> Row]
      <4>1. CASE r \in Receipts
        <5>1. [rows[r] EXCEPT !.lease = LeaseLength - ages[w]] \in Row
          BY <1>a, <4>1, Bounds DEF Row
        <5> QED
          BY <3>1, <4>1, <5>1, SetRowTyped DEF TypeOK
      <4>2. CASE r \notin Receipts
        BY <3>1, <4>2 DEF SetRow, TypeOK
      <4> QED
        BY <4>1, <4>2
    <3>3. [sessions[w] EXCEPT !.fencing = FALSE, !.pre = FALSE] \in Session
      BY <1>a DEF Session
    <3>4. sessions' \in [Workers -> Session] /\ ages' \in [Workers -> 0..MaxStale]
      BY <2>10, <3>3, Bounds DEF Commit, TypeOK
    <3>5. landed' \in [Receipts -> SUBSET (0..MaxGeneration)]
      BY <2>10, <1>a DEF Commit, TypeOK, Session
    <3> QED
      BY <2>10, <3>2, <3>4, <3>5 DEF Commit, TypeOK, env
  <2>11. ASSUME NEW w \in Workers, Crash(w) PROVE TypeOK'
    <3>1. Idle \in Session
      BY ReceiptAssumption DEF Session, Idle
    <3> QED
      BY <2>11, <3>1 DEF Crash, TypeOK, env
  <2>12. ASSUME NEW w \in Workers, NEW outcome \in Settled \cup {"retryable"},
                NEW replay \in BOOLEAN, Finish(w, outcome, replay)
         PROVE  TypeOK'
    <3> DEFINE r == sessions[w].r
               o == IF replay \/ ~rows[r].started THEN "not_started"
                    ELSE IF outcome = "completed" THEN "completed" ELSE "unknown"
               b == rows[r].started /\ ~replay
    <3>1. r \in Receipts /\ Idle \in Session
      BY <1>b, <2>12, ReceiptAssumption DEF Finish, Session, Idle
    <3>2. outcome \in States /\ o \in Outcomes /\ b \in BOOLEAN
      BY DEF Settled, Terminal, States, Active, Outcomes
    <3>3. [rows[r] EXCEPT !.state = outcome, !.started = b, !.outcome = o] \in Row
      BY <1>a, <3>1, <3>2, RowUpdate
    <3>4. Unlease([rows[r] EXCEPT !.state = outcome, !.started = b, !.outcome = o]) \in Row
      BY <3>3, Bounds DEF Unlease, Row
    <3>5. SetRow(r, Unlease([rows[r] EXCEPT !.state = outcome, !.started = b, !.outcome = o]))
      BY <2>12 DEF Finish
    <3>6. rows' \in [Receipts -> Row]
      BY <3>1, <3>4, <3>5, SetRowTyped DEF TypeOK
    <3> QED
      BY <2>12, <3>1, <3>6 DEF Finish, TypeOK, env
  <2>13. ASSUME RecoverExpired PROVE TypeOK'
    <3>1. ASSUME NEW r \in Receipts PROVE Recovered(r) \in Row
      <4>1. /\ [rows[r] EXCEPT !.state = "retryable"] \in Row
            /\ [rows[r] EXCEPT !.state = "retryable", !.started = FALSE,
                               !.outcome = "not_started"] \in Row
            /\ [rows[r] EXCEPT !.state = "reconciliation_required", !.outcome = "unknown"] \in Row
        BY <1>a, FieldValues, RowUpdate
      <4> QED
        BY <4>1, UnleaseTyped DEF Recovered
    <3>2. rows' \in [Receipts -> Row]
      BY <2>13, <3>1, <1>a DEF RecoverExpired
    <3> QED
      BY <2>13, <3>2 DEF RecoverExpired, TypeOK, env
  <2>14. ASSUME Tick PROVE TypeOK'
    <3>1. ASSUME NEW r \in Receipts
          PROVE  [rows[r] EXCEPT !.lease = IF @ > -MaxStale THEN @ - 1 ELSE @] \in Row
      BY <1>a, Bounds DEF Row
    <3>2. rows' \in [Receipts -> Row]
      BY <2>14, <3>1 DEF Tick
    <3>3. ages' \in [Workers -> 0..MaxStale]
      BY <2>14, <1>a, Bounds DEF Tick
    <3> QED
      BY <2>14, <3>2, <3>3 DEF Tick, TypeOK, env
  <2>15. ASSUME RollPeriod PROVE TypeOK'
    BY <2>15, ReceiptAssumption DEF RollPeriod, TypeOK
  <2>16. ASSUME NEW t \in Targets, SetAllowed(t) \/ SetVerified(t) \/ ChangeConfig(t)
         PROVE  TypeOK'
    BY <2>16 DEF SetAllowed, SetVerified, ChangeConfig, TypeOK
  <2> QED
    BY <1>2, <2>1, <2>2, <2>3, <2>4, <2>5, <2>6, <2>7, <2>8, <2>9, <2>10, <2>11, <2>12,
       <2>13, <2>14, <2>15, <2>16 DEF Next, WorkerStep, Claim, Environment
<1> QED
  BY <1>1, <1>2

\* The types of OperationReceipts hold in every reachable state.
THEOREM ReceiptsTypeCorrect == Spec => []TypeOK
BY InitTypeOK, NextTypeOK, PTL DEF Spec

(* -------------------------- The inductive invariant ---------------------- *)

\* A row is consistent with itself and with the history of its runs: a claimed
\* row has not been started, a started one remembers it, and only a store's
\* receipt can have runs and not be marked started.
RowInv(r) ==
  /\ (rows[r].owner # NoOne) = (rows[r].state \in Leased)
  /\ rows[r].started = (rows[r].outcome # "not_started")
  /\ rows[r].state \in {"claimed", "authorized", "absent"} => ~rows[r].started
  /\ rows[r].state = "provider_started" => rows[r].started /\ rows[r].gen \in runs[r]
  /\ rows[r].state = "absent" => runs[r] = {}
  /\ runs[r] # {} /\ rows[r].target \notin StoreTargets => rows[r].started
  /\ \A g \in runs[r] : g <= rows[r].gen
  /\ rows[r].state = "authorized" => \A g \in runs[r] : g < rows[r].gen
  /\ landed[r] \subseteq runs[r]
  /\ rows[r].target \notin StoreTargets => \A g1, g2 \in runs[r] : g1 = g2

\* What a worker remembers is of an existing row and not from its future; while
\* the worker is between its fence check and its commit, the row is still its own.
SessionInv(w) ==
  LET s == sessions[w] IN
  /\ s.fencing => s.r # NoOne
  /\ s.r # NoOne =>
       /\ rows[s.r].state # "absent"
       /\ s.gen <= rows[s.r].gen
       /\ s.fencing =>
            /\ Holds(w, s.r)
            /\ rows[s.r].state \in {"authorized", "provider_started"}
            /\ ~s.pre => rows[s.r].state = "provider_started"
       /\ /\ rows[s.r].state = "provider_started" /\ rows[s.r].gen = s.gen
          /\ rows[s.r].target \in ConnectorTargets
          => s.cfg # NoOne

\* The receipt a caller was answered is a written one of its own request.
CallInv(c) ==
  calls[c].got # NoOne =>
    /\ rows[calls[c].got].state # "absent"
    /\ rows[calls[c].got].target = calls[c].target
    /\ Matches(calls[c].got, calls[c].request, calls[c].period)

IInv ==
  /\ TypeOK
  /\ \A c \in Callers : CallInv(c)
  /\ \A r \in Receipts : RowInv(r)
  /\ \A w \in Workers : SessionInv(w)
  /\ OneHolder
  /\ OneActiveReceipt
  /\ LandsUnderLoadedConfig

\* What the proofs use of the types.
LEMMA TypeFacts ==
  ASSUME TypeOK
  PROVE  /\ \A r \in Receipts : rows[r] \in Row
         /\ \A w \in Workers : sessions[w] \in Session
         /\ \A w \in Workers : sessions[w].r # NoOne => sessions[w].r \in Receipts
         /\ rows = [r \in Receipts |-> rows[r]]
BY DEF TypeOK, Session

\* The row's consistency is kept by every step.
LEMMA RowInvStep ==
  ASSUME IInv, Next, NEW r \in Receipts
  PROVE  RowInv(r)'
<1>a. TypeOK /\ RowInv(r) /\ (\A w \in Workers : SessionInv(w))
  BY DEF IInv
<1>b. /\ rows[r] \in Row /\ rows \in [Receipts -> Row]
      /\ \A w \in Workers : sessions[w] \in Session
      /\ \A w \in Workers : sessions[w].r # NoOne => sessions[w].r \in Receipts
      /\ NoOne \notin Receipts \cup Targets \cup Names
      /\ NameOf \in [Workers -> Names]
      /\ runs \in [Receipts -> SUBSET (0..MaxGeneration)]
      /\ landed \in [Receipts -> SUBSET (0..MaxGeneration)]
  BY <1>a, TypeFacts, ReceiptAssumption DEF TypeOK
<1>1. ASSUME NEW t \in Targets, NEW q \in Requests, NEW p \in 0..MaxPeriod, Written(t, q, p) PROVE RowInv(r)'
  BY <1>1, <1>a, <1>b DEF Written, SetRow, RowInv, Row, Leased
<1>2. ASSUME NEW s \in Receipts, MarkQueued(s) PROVE RowInv(r)'
  BY <1>2, <1>a, <1>b DEF MarkQueued, SetRow, RowInv, Row, Leased
<1>3. ASSUME NEW w \in Workers, NEW s \in Receipts, ClaimUncertain(w, s) PROVE RowInv(r)'
  BY <1>3, <1>a, <1>b DEF ClaimUncertain, MayHaveRun, SetRow, Unlease, RowInv, Row, Leased
<1>4. ASSUME NEW w \in Workers, NEW s \in Receipts, ClaimDenied(w, s) PROVE RowInv(r)'
  BY <1>4, <1>a, <1>b DEF ClaimDenied, MayHaveRun, SetRow, Unlease, RowInv, Row, Leased
<1>5. ASSUME NEW w \in Workers, NEW s \in Receipts, ClaimGranted(w, s) PROVE RowInv(r)'
  BY <1>5, <1>a, <1>b DEF ClaimGranted, MayHaveRun, SetRow, RowInv, Row, Leased
<1>6. ASSUME NEW w \in Workers, LoadSource(w) PROVE RowInv(r)'
  BY <1>6, <1>a, <1>b DEF LoadSource, RowInv
<1>7. ASSUME NEW w \in Workers, AttachJob(w) PROVE RowInv(r)'
  BY <1>7, <1>a, <1>b DEF AttachJob, SetRow, RowInv, Row, Leased
<1>8. ASSUME NEW w \in Workers, BeginProvider(w) PROVE RowInv(r)'
  <2>1. CASE sessions[w].r # r
    BY <1>8, <2>1, <1>a, <1>b DEF BeginProvider, SetRow, RowInv
  <2>2. CASE sessions[w].r = r
    <3>1. /\ rows[r].state = "authorized" /\ sessions[w].gen = rows[r].gen
          /\ rows'[r] = [rows[r] EXCEPT !.state = "provider_started", !.started = TRUE,
                                        !.outcome = "unknown"]
          /\ runs'[r] = runs[r] \cup {rows[r].gen} /\ landed' = landed
      BY <1>8, <2>2, <1>b DEF BeginProvider, Holds, SetRow
    <3>2. /\ rows'[r].state = "provider_started" /\ rows'[r].started = TRUE
          /\ rows'[r].outcome = "unknown" /\ rows'[r].owner = rows[r].owner
          /\ rows'[r].gen = rows[r].gen /\ rows'[r].target = rows[r].target
      BY <3>1, <1>b DEF Row
    <3>3. rows[r].gen \in Nat /\ runs[r] \subseteq Nat
      BY <1>b, ReceiptAssumption DEF Row
    <3>4. rows[r].target \notin StoreTargets => runs[r] = {}
      BY <3>1, <1>a DEF RowInv
    <3>5. \A g \in runs'[r] : g <= rows'[r].gen
      BY <3>1, <3>2, <3>3, <1>a DEF RowInv
    <3>6. rows'[r].target \notin StoreTargets => \A g1, g2 \in runs'[r] : g1 = g2
      BY <3>1, <3>2, <3>4
    <3>7. landed'[r] \subseteq runs'[r] /\ rows'[r].gen \in runs'[r]
      BY <3>1, <3>2, <1>a DEF RowInv
    <3>8. rows'[r].owner # NoOne
      BY <3>1, <3>2, <1>a DEF RowInv, Leased
    <3> QED
      BY <3>2, <3>5, <3>6, <3>7, <3>8 DEF RowInv, Leased
  <2> QED
    BY <2>1, <2>2
<1>9. ASSUME NEW w \in Workers, NEW pre \in BOOLEAN, Fence(w, pre) PROVE RowInv(r)'
  BY <1>9, <1>a, <1>b DEF Fence, RowInv
<1>10. ASSUME NEW w \in Workers, Commit(w) PROVE RowInv(r)'
  BY <1>10, <1>a, <1>b DEF Commit, SessionInv, Holds, SetRow, RowInv, Row, Leased
<1>11. ASSUME NEW w \in Workers, Crash(w) PROVE RowInv(r)'
  BY <1>11, <1>a, <1>b DEF Crash, RowInv
<1>12. ASSUME NEW w \in Workers, NEW outcome \in Settled \cup {"retryable"},
              NEW replay \in BOOLEAN, Finish(w, outcome, replay)
       PROVE  RowInv(r)'
  BY <1>12, <1>a, <1>b DEF Finish, Replayable, SetRow, Unlease, RowInv, Row, Leased, Settled, Terminal
<1>13. ASSUME RecoverExpired PROVE RowInv(r)'
  <2>1. rows'[r] \in {rows[r], Recovered(r)} /\ (rows'[r] # rows[r] => Expired(r))
        /\ runs' = runs /\ landed' = landed
    BY <1>13, <1>b DEF RecoverExpired
  <2>2. CASE rows'[r] = rows[r]
    BY <2>1, <2>2, <1>a DEF RowInv
  <2>3. CASE rows'[r] = Recovered(r) /\ Expired(r)
    <3>1. /\ rows'[r].owner = NoOne /\ rows'[r].gen = rows[r].gen
          /\ rows'[r].target = rows[r].target
      BY <2>3, <1>b DEF Recovered, Unlease, Row
    <3>r. /\ \A g \in runs'[r] : g <= rows'[r].gen
          /\ landed'[r] \subseteq runs'[r]
          /\ rows'[r].target \notin StoreTargets => \A g1, g2 \in runs'[r] : g1 = g2
      BY <3>1, <2>1, <1>a DEF RowInv
    <3>2. CASE rows[r].state # "provider_started"
      <4>1. /\ rows'[r].state = "retryable" /\ rows'[r].started = rows[r].started
            /\ rows'[r].outcome = rows[r].outcome
        BY <2>3, <3>2, <1>b DEF Recovered, Unlease, Row
      <4> QED
        BY <4>1, <3>1, <2>1, <1>a DEF RowInv, Leased
    <3>3. CASE rows[r].state = "provider_started" /\ Replayable(rows[r].target)
      <4>1. /\ rows'[r].state = "retryable" /\ rows'[r].started = FALSE
            /\ rows'[r].outcome = "not_started"
        BY <2>3, <3>3, <1>b DEF Recovered, Unlease, Row
      <4>2. rows'[r].started = (rows'[r].outcome # "not_started")
        BY <4>1
      <4>3. (rows'[r].owner # NoOne) = (rows'[r].state \in Leased)
        BY <4>1, <3>1 DEF Leased
      <4>4. rows'[r].target \in StoreTargets
        BY <3>1, <3>3 DEF Replayable
      <4> QED
        BY <4>1, <4>2, <4>3, <4>4, <3>r DEF RowInv
    <3>4. CASE rows[r].state = "provider_started" /\ ~Replayable(rows[r].target)
      <4>1. /\ rows'[r].state = "reconciliation_required" /\ rows'[r].started = TRUE
            /\ rows'[r].outcome = "unknown"
        BY <2>3, <3>4, <1>a, <1>b DEF Recovered, Unlease, Row, RowInv
      <4>2. rows'[r].started = (rows'[r].outcome # "not_started")
        BY <4>1
      <4>3. (rows'[r].owner # NoOne) = (rows'[r].state \in Leased)
        BY <4>1, <3>1 DEF Leased
      <4> QED
        BY <4>1, <4>2, <4>3, <3>r DEF RowInv
    <3> QED
      BY <3>2, <3>3, <3>4
  <2> QED
    BY <2>1, <2>2, <2>3
<1>14. ASSUME Tick PROVE RowInv(r)'
  BY <1>14, <1>a, <1>b DEF Tick, RowInv, Row, Leased
<1>15. ASSUME UNCHANGED <<rows, runs, landed>> PROVE RowInv(r)'
  BY <1>15, <1>a DEF RowInv
<1>z. ASSUME NEW c \in Callers, CallerStep(c) PROVE RowInv(r)'
  BY <1>z, CallerSteps, <1>1, <1>a DEF RowInv
<1> QED
  BY <1>z, <1>1, <1>2, <1>3, <1>4, <1>5, <1>6, <1>7, <1>8, <1>9, <1>10, <1>11, <1>12, <1>13, <1>14,
     <1>15 DEF Next, WorkerStep, Claim, Environment, RollPeriod, SetAllowed, SetVerified, ChangeConfig

\* What the workers remember stays true of the rows; a fenced row moves for
\* nobody but the worker that fenced it.
LEMMA SessionInvStep ==
  ASSUME IInv, Next, NEW v \in Workers
  PROVE  SessionInv(v)'
<1>a. TypeOK /\ SessionInv(v) /\ (\A r \in Receipts : RowInv(r)) /\ OneHolder
      /\ (\A w \in Workers : SessionInv(w))
  BY DEF IInv
<1>b. /\ \A r \in Receipts : rows[r] \in Row
      /\ rows \in [Receipts -> Row] /\ sessions \in [Workers -> Session]
      /\ \A w \in Workers : sessions[w] \in Session
      /\ \A w \in Workers : sessions[w].r # NoOne => sessions[w].r \in Receipts
      /\ NoOne \notin Receipts \cup Targets \cup Names \cup Configs
      /\ NameOf \in [Workers -> Names]
      /\ config \in [Targets -> Configs] /\ ConnectorTargets \subseteq Targets
  BY <1>a, TypeFacts, ReceiptAssumption DEF TypeOK
<1>c. (\A r \in Receipts : rows[r].gen \in Nat) /\ (\A w \in Workers : sessions[w].gen \in Nat)
  BY <1>b, ReceiptAssumption DEF Row, Session
<1>1. ASSUME NEW t \in Targets, NEW q \in Requests, NEW p \in 0..MaxPeriod, Written(t, q, p) PROVE SessionInv(v)'
  BY <1>1, <1>a, <1>b DEF Written, SetRow, SessionInv, Holds, Row
<1>2. ASSUME NEW s \in Receipts, MarkQueued(s) PROVE SessionInv(v)'
  BY <1>2, <1>a, <1>b DEF MarkQueued, SetRow, SessionInv, Holds, Row
<1>3. ASSUME NEW w \in Workers, NEW s \in Receipts, ClaimUncertain(w, s) PROVE SessionInv(v)'
  BY <1>3, <1>a, <1>b DEF ClaimUncertain, Claimable, RowLocked, SetRow, Unlease, SessionInv, Holds, Row
<1>4. ASSUME NEW w \in Workers, NEW s \in Receipts, ClaimDenied(w, s) PROVE SessionInv(v)'
  <2>1. CASE sessions[v].r # s
    BY <1>4, <2>1, <1>a, <1>b DEF ClaimDenied, SetRow, SessionInv, Holds
  <2>2. CASE sessions[v].r = s
    <3>1. /\ rows'[s].state = "denied" /\ rows'[s].gen = rows[s].gen + 1
          /\ sessions' = sessions /\ ~sessions[v].fencing
      BY <1>4, <2>2, <1>b DEF ClaimDenied, Claimable, RowLocked, SetRow, Unlease, Row
    <3>2. sessions[v].gen <= rows[s].gen + 1
      BY <2>2, <1>a, <1>b, <1>c DEF SessionInv
    <3> QED
      BY <2>2, <3>1, <3>2, <1>a DEF SessionInv
  <2> QED
    BY <2>1, <2>2
<1>5. ASSUME NEW w \in Workers, NEW s \in Receipts, ClaimGranted(w, s) PROVE SessionInv(v)'
  BY <1>5, <1>a, <1>b DEF ClaimGranted, Claimable, RowLocked, SetRow, SessionInv, Holds, Row, Session, Idle
<1>6. ASSUME NEW w \in Workers, LoadSource(w) PROVE SessionInv(v)'
  BY <1>6, <1>a, <1>b DEF LoadSource, SessionInv, Holds, Session
<1>7. ASSUME NEW w \in Workers, AttachJob(w) PROVE SessionInv(v)'
  BY <1>7, <1>a, <1>b DEF AttachJob, SetRow, SessionInv, Holds, Row
<1>8. ASSUME NEW w \in Workers, BeginProvider(w) PROVE SessionInv(v)'
  BY <1>8, <1>a, <1>b DEF BeginProvider, SameConfig, RowLocked, OneHolder, SetRow, SessionInv, Holds, Row, Session
<1>9. ASSUME NEW w \in Workers, NEW pre \in BOOLEAN, Fence(w, pre) PROVE SessionInv(v)'
  BY <1>9, <1>a, <1>b DEF Fence, FenceStates, SessionInv, Holds, Session
<1>10. ASSUME NEW w \in Workers, Commit(w) PROVE SessionInv(v)'
  BY <1>10, <1>a, <1>b DEF Commit, SetRow, SessionInv, Holds, Row, Session
<1>11. ASSUME NEW w \in Workers, Crash(w) PROVE SessionInv(v)'
  BY <1>11, <1>a, <1>b DEF Crash, SessionInv, Holds, Idle
<1>12. ASSUME NEW w \in Workers, NEW outcome \in Settled \cup {"retryable"},
              NEW replay \in BOOLEAN, Finish(w, outcome, replay)
       PROVE  SessionInv(v)'
  BY <1>12, <1>a, <1>b DEF Finish, RowLocked, SetRow, Unlease, SessionInv, Holds, Row, Idle, Settled, Terminal
<1>13. ASSUME RecoverExpired PROVE SessionInv(v)'
  <2>1. CASE sessions[v].r = NoOne
    BY <1>13, <2>1, <1>a DEF RecoverExpired, SessionInv
  <2>2. CASE sessions[v].r # NoOne
    <3> DEFINE r == sessions[v].r
    <3>1. r \in Receipts /\ sessions' = sessions /\ config' = config
      BY <1>13, <2>2, <1>b DEF RecoverExpired, env
    <3>2. CASE ~Expired(r)
      <4>1. rows'[r] = rows[r]
        BY <1>13, <3>1, <3>2 DEF RecoverExpired
      <4> QED
        BY <4>1, <3>1, <1>a DEF SessionInv, Holds
    <3>3. CASE Expired(r)
      <4>1. rows'[r] = Recovered(r) /\ ~sessions[v].fencing
        BY <1>13, <3>1, <3>3 DEF RecoverExpired, RowLocked
      <4>2. /\ rows'[r].state \in {"retryable", "reconciliation_required"}
            /\ rows'[r].gen = rows[r].gen
        BY <4>1, <3>1, <1>b DEF Recovered, Unlease, Row
      <4> QED
        BY <4>1, <4>2, <3>1, <2>2, <1>a DEF SessionInv
    <3> QED
      BY <3>2, <3>3
  <2> QED
    BY <2>1, <2>2
<1>14. ASSUME Tick PROVE SessionInv(v)'
  BY <1>14, <1>a, <1>b DEF Tick, SessionInv, Holds, Row
<1>15. ASSUME UNCHANGED <<rows, sessions>> PROVE SessionInv(v)'
  BY <1>15, <1>a DEF SessionInv, Holds
<1>z. ASSUME NEW c \in Callers, CallerStep(c) PROVE SessionInv(v)'
  BY <1>z, CallerSteps, <1>1, <1>a DEF SessionInv, Holds
<1> QED
  BY <1>z, <1>1, <1>2, <1>3, <1>4, <1>5, <1>6, <1>7, <1>8, <1>9, <1>10, <1>11, <1>12, <1>13, <1>14,
     <1>15 DEF Next, WorkerStep, Claim, Environment, RollPeriod, SetAllowed, SetVerified, ChangeConfig

\* A claim takes a generation no worker has seen, so holders stay distinct.
LEMMA OneHolderStep == ASSUME IInv, Next PROVE OneHolder'
<1>a. TypeOK /\ OneHolder /\ (\A w \in Workers : SessionInv(w))
  BY DEF IInv
<1>b. /\ \A r \in Receipts : rows[r] \in Row /\ rows[r].gen \in Nat
      /\ sessions \in [Workers -> Session]
      /\ \A w \in Workers : sessions[w] \in Session /\ sessions[w].gen \in Nat
      /\ NoOne \notin Receipts
  BY <1>a, TypeFacts, ReceiptAssumption DEF TypeOK, Row, Session
<1>1. ASSUME NEW w \in Workers, NEW s \in Receipts, ClaimGranted(w, s) PROVE OneHolder'
  <2>1. sessions'[w].r = s /\ sessions'[w].gen = rows[s].gen + 1
    BY <1>1, <1>b DEF ClaimGranted, Idle
  <2>2. \A v \in Workers : v # w => sessions'[v] = sessions[v]
    BY <1>1, <1>b DEF ClaimGranted
  <2>3. \A v \in Workers : sessions[v].r = s => sessions[v].gen # rows[s].gen + 1
    BY <1>a, <1>b DEF SessionInv
  <2> QED
    BY <2>1, <2>2, <2>3, <1>a DEF OneHolder
<1>2. ASSUME \A w \in Workers : \/ sessions'[w].r = NoOne
                                \/ sessions'[w].r = sessions[w].r /\ sessions'[w].gen = sessions[w].gen
      PROVE  OneHolder'
  BY <1>2, <1>a DEF OneHolder
<1>3. ASSUME NEW w \in Workers, LoadSource(w) \/ Commit(w)
      PROVE  OneHolder'
  <2>1. \A v \in Workers : sessions'[v].r = sessions[v].r /\ sessions'[v].gen = sessions[v].gen
    <3>1. CASE LoadSource(w)
      BY <3>1, <1>b DEF LoadSource, Session
    <3>2. CASE Commit(w)
      BY <3>2, <1>b DEF Commit, Session
    <3> QED
      BY <1>3, <3>1, <3>2
  <2> QED
    BY <2>1, <1>2
<1>4. ASSUME NEW w \in Workers, NEW pre \in BOOLEAN, Fence(w, pre) PROVE OneHolder'
  BY <1>4, <1>2, <1>b DEF Fence, Session
<1>5. ASSUME NEW w \in Workers, sessions' = [sessions EXCEPT ![w] = Idle] PROVE OneHolder'
  <2>1. \A v \in Workers : \/ sessions'[v].r = NoOne
                           \/ sessions'[v].r = sessions[v].r /\ sessions'[v].gen = sessions[v].gen
    <3> TAKE v \in Workers
    <3>1. CASE v = w
      BY <1>5, <3>1, <1>b, IdleFields
    <3>2. CASE v # w
      BY <1>5, <3>2, <1>b
    <3> QED
      BY <3>1, <3>2
  <2> QED
    BY <2>1, <1>2
<1>6. ASSUME UNCHANGED sessions PROVE OneHolder'
  BY <1>6, <1>a DEF OneHolder
<1>z. ASSUME NEW c \in Callers, CallerStep(c) PROVE OneHolder'
  BY <1>z, CallerSteps, <1>6, <1>a
<1> QED
  BY <1>z, <1>1, <1>3, <1>4, <1>5, <1>6
  DEF Next, WorkerStep, Claim, Environment, MarkQueued, ClaimUncertain, ClaimDenied,
      AttachJob, BeginProvider, Crash, Finish, RecoverExpired, Tick, RollPeriod, SetAllowed,
      SetVerified, ChangeConfig

\* A receipt is created for a target only when the target has no active one,
\* and nothing makes a settled receipt active again.
LEMMA OneActiveStep == ASSUME IInv, Next PROVE OneActiveReceipt'
<1>a. TypeOK /\ OneActiveReceipt /\ (\A w \in Workers : SessionInv(w))
  BY DEF IInv
<1>b. /\ \A r \in Receipts : rows[r] \in Row
      /\ rows \in [Receipts -> Row]
      /\ \A w \in Workers : sessions[w].r # NoOne => sessions[w].r \in Receipts
  BY <1>a, TypeFacts DEF TypeOK
<1>1. ASSUME NEW t \in Targets, NEW q \in Requests, NEW p \in 0..MaxPeriod, Written(t, q, p) PROVE OneActiveReceipt'
  <2>1. PICK s \in Receipts :
          rows' = [rows EXCEPT ![s] = [rows[s] EXCEPT !.state = "dispatch_pending",
                     !.target = t, !.request = q, !.period = p]]
    BY <1>1 DEF Written, SetRow
  <2>2. rows'[s].target = t /\ \A r \in Receipts : r # s => rows'[r] = rows[r]
    BY <2>1, <1>b DEF Row
  <2>3. \A r \in Receipts : r # s /\ rows[r].target = t => rows[r].state \notin Active
    BY <1>1 DEF Written, ActiveFor
  <2> QED
    BY <2>2, <2>3, <1>a DEF OneActiveReceipt
<1>2. ASSUME \A r \in Receipts : /\ rows'[r].target = rows[r].target
                                 /\ rows'[r].state \in Active => rows[r].state \in Active
      PROVE  OneActiveReceipt'
  BY <1>2, <1>a DEF OneActiveReceipt
<1>3. ASSUME NEW s \in Receipts, NEW row \in Row, SetRow(s, row), rows[s].state \in Active,
             row.target = rows[s].target
      PROVE  OneActiveReceipt'
  BY <1>2, <1>3, <1>b DEF SetRow
<1>4. ASSUME NEW s \in Receipts, MarkQueued(s) PROVE OneActiveReceipt'
  BY <1>4, <1>2, <1>b DEF MarkQueued, SetRow, Row, Active
<1>5. ASSUME NEW w \in Workers, NEW s \in Receipts, ClaimUncertain(w, s) PROVE OneActiveReceipt'
  BY <1>5, <1>2, <1>b DEF ClaimUncertain, Claimable, SetRow, Unlease, Row
<1>6. ASSUME NEW w \in Workers, NEW s \in Receipts, ClaimDenied(w, s) PROVE OneActiveReceipt'
  BY <1>6, <1>2, <1>b DEF ClaimDenied, Claimable, SetRow, Unlease, Row
<1>7. ASSUME NEW w \in Workers, NEW s \in Receipts, ClaimGranted(w, s) PROVE OneActiveReceipt'
  BY <1>7, <1>2, <1>b DEF ClaimGranted, Claimable, SetRow, Row
<1>8. ASSUME NEW w \in Workers, AttachJob(w) PROVE OneActiveReceipt'
  BY <1>8, <1>2, <1>b DEF AttachJob, SetRow, Row
<1>9. ASSUME NEW w \in Workers, BeginProvider(w) PROVE OneActiveReceipt'
  BY <1>9, <1>2, <1>b DEF BeginProvider, SetRow, Row, Active
<1>10. ASSUME NEW w \in Workers, Commit(w) PROVE OneActiveReceipt'
  BY <1>10, <1>2, <1>a, <1>b DEF Commit, SetRow, Row, SessionInv
<1>11. ASSUME NEW w \in Workers, NEW outcome \in Settled \cup {"retryable"},
              NEW replay \in BOOLEAN, Finish(w, outcome, replay)
       PROVE  OneActiveReceipt'
  BY <1>11, <1>2, <1>b DEF Finish, SetRow, Unlease, Row, Active
<1>12. ASSUME RecoverExpired PROVE OneActiveReceipt'
  <2>1. ASSUME NEW r \in Receipts
        PROVE  /\ rows'[r].target = rows[r].target
               /\ rows'[r].state \in Active => rows[r].state \in Active
    <3>1. CASE ~Expired(r)
      BY <1>12, <3>1 DEF RecoverExpired
    <3>2. CASE Expired(r)
      <4>1. rows'[r] = Recovered(r) /\ rows[r].state \in Active
        BY <1>12, <3>2 DEF RecoverExpired, Expired, Leased, Active
      <4>2. rows'[r].target = rows[r].target
        BY <4>1, <1>b DEF Recovered, Unlease, Row
      <4> QED
        BY <4>1, <4>2
    <3> QED
      BY <3>1, <3>2
  <2> QED
    BY <2>1, <1>2
<1>13. ASSUME Tick PROVE OneActiveReceipt'
  BY <1>13, <1>2, <1>b DEF Tick, Row
<1>14. ASSUME UNCHANGED rows PROVE OneActiveReceipt'
  BY <1>14, <1>a DEF OneActiveReceipt
<1>z. ASSUME NEW c \in Callers, CallerStep(c) PROVE OneActiveReceipt'
  BY <1>z, CallerSteps, <1>1, <1>14, <1>a
<1> QED
  BY <1>z, <1>1, <1>4, <1>5, <1>6, <1>7, <1>8, <1>9, <1>10, <1>11, <1>12, <1>13, <1>14
  DEF Next, WorkerStep, Claim, Environment, LoadSource, Fence, Crash, RollPeriod,
      SetAllowed, SetVerified, ChangeConfig

\* A written row stays written, of the same target, request and period.
LEMMA RowIdentity ==
  ASSUME IInv, Next, NEW r \in Receipts, rows[r].state # "absent"
  PROVE  /\ rows'[r].state # "absent" /\ rows'[r].target = rows[r].target
         /\ rows'[r].request = rows[r].request /\ rows'[r].period = rows[r].period
<1> DEFINE Kept == /\ rows'[r].state # "absent" /\ rows'[r].target = rows[r].target
                   /\ rows'[r].request = rows[r].request /\ rows'[r].period = rows[r].period
<1> SUFFICES Kept
  OBVIOUS
<1>a. TypeOK
  BY DEF IInv
<1>b. /\ \A s \in Receipts : rows[s] \in Row
      /\ rows \in [Receipts -> Row]
  BY <1>a, TypeFacts DEF TypeOK
<1>1. ASSUME NEW s \in Receipts, MarkQueued(s) PROVE Kept
  BY <1>1, <1>b DEF MarkQueued, SetRow, Row
<1>2. ASSUME NEW w \in Workers, NEW s \in Receipts, Claim(w, s) PROVE Kept
  <2>1. CASE ClaimUncertain(w, s)
    BY <2>1, <1>b DEF ClaimUncertain, SetRow, Unlease, Row
  <2>2. CASE ClaimDenied(w, s)
    BY <2>2, <1>b DEF ClaimDenied, SetRow, Unlease, Row
  <2>3. CASE ClaimGranted(w, s)
    BY <2>3, <1>b DEF ClaimGranted, SetRow, Row
  <2> QED
    BY <1>2, <2>1, <2>2, <2>3 DEF Claim
<1>3. ASSUME NEW w \in Workers, AttachJob(w) PROVE Kept
  BY <1>3, <1>b DEF AttachJob, SetRow, Row
<1>4. ASSUME NEW w \in Workers, BeginProvider(w) PROVE Kept
  BY <1>4, <1>b DEF BeginProvider, SetRow, Row
<1>5. ASSUME NEW w \in Workers, Commit(w) PROVE Kept
  BY <1>5, <1>b DEF Commit, SetRow, Row
<1>6. ASSUME NEW w \in Workers, NEW outcome \in Settled \cup {"retryable"},
             NEW replay \in BOOLEAN, Finish(w, outcome, replay)
      PROVE  Kept
  BY <1>6, <1>b DEF Finish, SetRow, Unlease, Row, Settled, Terminal
<1>7. ASSUME RecoverExpired PROVE Kept
  BY <1>7, <1>b DEF RecoverExpired, Recovered, Unlease, Row
<1>8. ASSUME Tick PROVE Kept
  BY <1>8, <1>b DEF Tick, Row
<1>9. ASSUME NEW c \in Callers, CallerStep(c) PROVE Kept
  BY <1>9, <1>a, <1>b, CallerSteps DEF Written, SetRow
<1>10. ASSUME UNCHANGED rows PROVE Kept
  BY <1>10
<1> QED
  BY <1>1, <1>2, <1>3, <1>4, <1>5, <1>6, <1>7, <1>8, <1>9, <1>10
  DEF Next, WorkerStep, Environment, LoadSource, Fence, Crash, RollPeriod, SetAllowed,
      SetVerified, ChangeConfig

\* What a caller was answered stays its own, whatever happens to the receipt.
LEMMA CallInvStep ==
  ASSUME IInv, Next, NEW c \in Callers
  PROVE  CallInv(c)'
<1>a. /\ TypeOK /\ CallInv(c)
      /\ calls[c].got # NoOne => calls[c].got \in Receipts
  BY DEF IInv, TypeOK, Call, NoCall
<1>1. CASE calls'[c] = calls[c]
  BY <1>1, <1>a, RowIdentity DEF CallInv, Matches
<1>2. CASE calls'[c] # calls[c]
  <2>1. PICK d \in Callers : CallerStep(d)
    BY <1>2 DEF Next, WorkerStep, Claim, Environment, MarkQueued, ClaimUncertain, ClaimDenied,
       ClaimGranted, LoadSource, AttachJob, BeginProvider, Fence, Commit, Crash, Finish,
       RecoverExpired, Tick, RollPeriod, SetAllowed, SetVerified, ChangeConfig, env
  <2>2. d = c /\ calls \in [Callers -> Call]
    BY <2>1, <1>2, <1>a DEF CallerStep, Look, Insert, Created, Refuse, TypeOK
  <2>3. ASSUME NEW t \in Targets, NEW q \in Requests, Look(c, t, q) PROVE CallInv(c)'
    <3>1. CASE calls'[c].got = NoOne
      BY <3>1 DEF CallInv
    <3>2. CASE calls'[c].got # NoOne
      <4>1. PICK r \in ActiveFor(t) :
              /\ Matches(r, q, period) /\ rows' = rows
              /\ calls'[c] = [target |-> t, request |-> q, period |-> period, got |-> r]
        BY <2>2, <2>3, <3>2 DEF Look
      <4>2. rows[r].target = t /\ rows[r].state # "absent"
        BY <4>1 DEF ActiveFor, Active
      <4> QED
        BY <4>1, <4>2 DEF CallInv, Matches
    <3> QED
      BY <3>1, <3>2
  <2>4. ASSUME Insert(c) PROVE CallInv(c)'
    <3>1. /\ calls[c] \in Call /\ calls[c] # NoCall
          /\ \A r \in Receipts : /\ [calls[c] EXCEPT !.got = r].got = r
                                /\ [calls[c] EXCEPT !.got = r].target = calls[c].target
                                /\ [calls[c] EXCEPT !.got = r].request = calls[c].request
                                /\ [calls[c] EXCEPT !.got = r].period = calls[c].period
      BY <2>2, <2>4 DEF Insert, Call, NoCall
    <3>2. CASE \E r \in Receipts : Created(c, r)
      <4>1. PICK r \in Receipts : Created(c, r)
        BY <3>2
      <4>2. calls'[c] = [calls[c] EXCEPT !.got = r]
        BY <4>1, <2>2 DEF Created
      <4>3. /\ rows'[r].state = "dispatch_pending" /\ rows'[r].target = calls[c].target
            /\ rows'[r].request = calls[c].request /\ rows'[r].period = calls[c].period
        BY <4>1, <1>a DEF Created, SetRow, TypeOK, Row
      <4> QED
        BY <3>1, <4>2, <4>3 DEF CallInv, Matches
    <3>3. CASE ~\E r \in Receipts : Created(c, r)
      <4>1. PICK r \in ActiveFor(calls[c].target) :
              /\ Matches(r, calls[c].request, calls[c].period) /\ rows' = rows
              /\ calls'[c] = [calls[c] EXCEPT !.got = r]
        BY <2>2, <2>4, <3>3 DEF Insert
      <4>2. r \in Receipts /\ rows[r].target = calls[c].target /\ rows[r].state # "absent"
        BY <4>1 DEF ActiveFor, Active
      <4> QED
        BY <3>1, <4>1, <4>2 DEF CallInv, Matches
    <3> QED
      BY <3>2, <3>3
  <2>5. ASSUME Refuse(c) PROVE CallInv(c)'
    BY <2>2, <2>5 DEF Refuse, CallInv, NoCall
  <2> QED
    BY <2>1, <2>2, <2>3, <2>4, <2>5 DEF CallerStep
<1> QED
  BY <1>1, <1>2

\* The settings a fenced worker compared stay the connector's settings.
LEMMA LoadedConfigStep == ASSUME IInv, Next PROVE LandsUnderLoadedConfig'
<1>a. /\ TypeOK /\ LandsUnderLoadedConfig /\ (\A w \in Workers : SessionInv(w))
      /\ (\A r \in Receipts : RowInv(r))
  BY DEF IInv
<1>b. /\ \A r \in Receipts : rows[r] \in Row
      /\ rows \in [Receipts -> Row] /\ sessions \in [Workers -> Session]
      /\ \A w \in Workers : sessions[w] \in Session
      /\ \A w \in Workers : sessions[w].r # NoOne => sessions[w].r \in Receipts
      /\ NoOne \notin Receipts \cup Configs
      /\ config \in [Targets -> Configs] /\ ConnectorTargets \subseteq Targets
  BY <1>a, TypeFacts, ReceiptAssumption DEF TypeOK
<1>c. ASSUME NEW w \in Workers, sessions[w].fencing
      PROVE  sessions[w].r \in Receipts /\ rows[sessions[w].r].state # "absent"
  BY <1>a, <1>b, <1>c DEF SessionInv
\* A step that moves no target, no configuration and no fence.
<1>2. ASSUME config' = config,
             \A r \in Receipts : rows[r].state # "absent" => rows'[r].target = rows[r].target,
             \A w \in Workers : sessions'[w].fencing =>
               /\ sessions[w].fencing /\ sessions'[w].r = sessions[w].r
               /\ sessions'[w].cfg = sessions[w].cfg /\ sessions'[w].pre = sessions[w].pre
      PROVE  LandsUnderLoadedConfig'
  <2> SUFFICES ASSUME NEW w \in Workers, sessions'[w].fencing, ~sessions'[w].pre,
                      rows'[sessions'[w].r].target \in ConnectorTargets
               PROVE  sessions'[w].cfg = config'[rows'[sessions'[w].r].target]
    BY DEF LandsUnderLoadedConfig
  <2>1. rows'[sessions'[w].r].target = rows[sessions[w].r].target
    BY <1>2, <1>c
  <2> QED
    BY <1>2, <2>1, <1>a DEF LandsUnderLoadedConfig
<1>3. ASSUME NEW t \in Targets, NEW q \in Requests, NEW p \in 0..MaxPeriod, Written(t, q, p) PROVE LandsUnderLoadedConfig'
  BY <1>3, <1>2, <1>b DEF Written, SetRow, env
<1>4. ASSUME config' = config, sessions' = sessions,
             NEW s \in Receipts, NEW row, row.target = rows[s].target, SetRow(s, row)
      PROVE  LandsUnderLoadedConfig'
  BY <1>4, <1>2, <1>b DEF SetRow
<1>5. ASSUME NEW s \in Receipts, MarkQueued(s) PROVE LandsUnderLoadedConfig'
  BY <1>5, <1>2, <1>b DEF MarkQueued, SetRow, Row, env
<1>6. ASSUME NEW w \in Workers, NEW s \in Receipts, Claim(w, s) PROVE LandsUnderLoadedConfig'
  <2>1. CASE ClaimUncertain(w, s)
    BY <2>1, <1>2, <1>b DEF ClaimUncertain, SetRow, Unlease, Row, env
  <2>2. CASE ClaimDenied(w, s)
    BY <2>2, <1>2, <1>b DEF ClaimDenied, SetRow, Unlease, Row, env
  <2>3. CASE ClaimGranted(w, s)
    <3>1. \A r \in Receipts : rows'[r].target = rows[r].target
      BY <2>3, <1>b DEF ClaimGranted, SetRow, Row
    <3>2. \A v \in Workers : sessions'[v].fencing => sessions'[v] = sessions[v]
      BY <2>3, <1>b DEF ClaimGranted, Idle
    <3> QED
      BY <2>3, <3>1, <3>2, <1>2 DEF ClaimGranted, env
  <2> QED
    BY <1>6, <2>1, <2>2, <2>3 DEF Claim
<1>7. ASSUME NEW w \in Workers, LoadSource(w) PROVE LandsUnderLoadedConfig'
  <2>1. sessions' = [sessions EXCEPT ![w].cfg = config[rows[sessions[w].r].target]]
        /\ rows' = rows /\ config' = config /\ sessions[w].cfg = NoOne
        /\ sessions[w].r # NoOne /\ rows[sessions[w].r].target \in ConnectorTargets
    BY <1>7 DEF LoadSource, env
  <2> SUFFICES ASSUME NEW v \in Workers, sessions'[v].fencing, ~sessions'[v].pre,
                      rows'[sessions'[v].r].target \in ConnectorTargets
               PROVE  sessions'[v].cfg = config'[rows'[sessions'[v].r].target]
    BY DEF LandsUnderLoadedConfig
  <2>2. CASE v = w
    BY <2>1, <2>2, <1>b DEF Session
  <2>3. CASE v # w
    BY <2>1, <2>3, <1>a, <1>b DEF LandsUnderLoadedConfig
  <2> QED
    BY <2>2, <2>3
<1>8. ASSUME NEW w \in Workers, AttachJob(w) PROVE LandsUnderLoadedConfig'
  BY <1>8, <1>2, <1>b DEF AttachJob, SetRow, Row, env
<1>9. ASSUME NEW w \in Workers, BeginProvider(w) PROVE LandsUnderLoadedConfig'
  BY <1>9, <1>2, <1>b DEF BeginProvider, SetRow, Row, env
<1>10. ASSUME NEW w \in Workers, NEW pre \in BOOLEAN, Fence(w, pre) PROVE LandsUnderLoadedConfig'
  <2>1. /\ rows' = rows /\ config' = config
        /\ sessions' = [sessions EXCEPT ![w].fencing = TRUE, ![w].pre = pre]
    BY <1>10 DEF Fence, env
  <2>2. /\ rows[sessions[w].r].gen = sessions[w].gen
        /\ rows[sessions[w].r].target \in ConnectorTargets =>
             sessions[w].cfg \in {NoOne, config[rows[sessions[w].r].target]}
        /\ ~pre => rows[sessions[w].r].state = "provider_started"
        /\ sessions[w].r # NoOne
    BY <1>10 DEF Fence, FenceStates, Holds
  <2>3. ~pre /\ rows[sessions[w].r].target \in ConnectorTargets =>
          sessions[w].cfg = config[rows[sessions[w].r].target]
    BY <2>2, <1>a DEF SessionInv
  <2> SUFFICES ASSUME NEW v \in Workers, sessions'[v].fencing, ~sessions'[v].pre,
                      rows'[sessions'[v].r].target \in ConnectorTargets
               PROVE  sessions'[v].cfg = config'[rows'[sessions'[v].r].target]
    BY DEF LandsUnderLoadedConfig
  <2>4. CASE v = w
    BY <2>1, <2>3, <2>4, <1>b DEF Session
  <2>5. CASE v # w
    BY <2>1, <2>5, <1>a, <1>b DEF LandsUnderLoadedConfig
  <2> QED
    BY <2>4, <2>5
<1>11. ASSUME NEW w \in Workers, Commit(w) PROVE LandsUnderLoadedConfig'
  <2>1. \A r \in Receipts : rows'[r].target = rows[r].target
    BY <1>11, <1>c, <1>b DEF Commit, SetRow, Row
  <2>2. \A v \in Workers : sessions'[v].fencing => sessions'[v] = sessions[v]
    BY <1>11, <1>b DEF Commit, Session
  <2> QED
    BY <1>11, <2>1, <2>2, <1>2 DEF Commit, env
<1>12. ASSUME NEW w \in Workers, sessions' = [sessions EXCEPT ![w] = Idle], config' = config,
              \A r \in Receipts : rows'[r].target = rows[r].target
       PROVE  LandsUnderLoadedConfig'
  <2>1. \A v \in Workers : sessions'[v].fencing => sessions'[v] = sessions[v]
    BY <1>12, <1>b DEF Idle
  <2> QED
    BY <1>12, <2>1, <1>2
<1>13. ASSUME NEW w \in Workers, Crash(w) PROVE LandsUnderLoadedConfig'
  BY <1>13, <1>12 DEF Crash, env
<1>14. ASSUME NEW w \in Workers, NEW outcome \in Settled \cup {"retryable"},
              NEW replay \in BOOLEAN, Finish(w, outcome, replay)
       PROVE  LandsUnderLoadedConfig'
  <2>1. \A r \in Receipts : rows'[r].target = rows[r].target
    BY <1>14, <1>b DEF Finish, SetRow, Unlease, Row
  <2> QED
    BY <1>14, <2>1, <1>12 DEF Finish, env
<1>15. ASSUME RecoverExpired PROVE LandsUnderLoadedConfig'
  <2>1. \A r \in Receipts : rows'[r].target = rows[r].target
    BY <1>15, <1>b DEF RecoverExpired, Recovered, Unlease, Row
  <2> QED
    BY <1>15, <2>1, <1>2 DEF RecoverExpired, env
<1>16. ASSUME Tick PROVE LandsUnderLoadedConfig'
  <2>1. \A r \in Receipts : rows'[r].target = rows[r].target
    BY <1>16, <1>b DEF Tick, Row
  <2> QED
    BY <1>16, <2>1, <1>2 DEF Tick, env
<1>17. ASSUME NEW t \in Targets, ChangeConfig(t) PROVE LandsUnderLoadedConfig'
  <2>1. /\ rows' = rows /\ sessions' = sessions /\ ~SourceLocked(t)
        /\ \A u \in Targets : u # t => config'[u] = config[u]
    BY <1>17, <1>b DEF ChangeConfig
  <2> SUFFICES ASSUME NEW v \in Workers, sessions[v].fencing, ~sessions[v].pre,
                      rows[sessions[v].r].target \in ConnectorTargets
               PROVE  sessions[v].cfg = config'[rows[sessions[v].r].target]
    BY <2>1 DEF LandsUnderLoadedConfig
  <2>2. sessions[v].cfg = config[rows[sessions[v].r].target] /\ sessions[v].cfg # NoOne
    BY <1>a, <1>b DEF LandsUnderLoadedConfig
  <2>3. rows[sessions[v].r].target # t
    BY <2>1, <2>2 DEF SourceLocked
  <2> QED
    BY <2>1, <2>2, <2>3, <1>b
<1>18. ASSUME UNCHANGED <<rows, sessions, config>> PROVE LandsUnderLoadedConfig'
  BY <1>18, <1>a DEF LandsUnderLoadedConfig
<1>z. ASSUME NEW c \in Callers, CallerStep(c) PROVE LandsUnderLoadedConfig'
  BY <1>z, CallerSteps, <1>2, <1>3, <1>a
<1> QED
  BY <1>z, <1>3, <1>5, <1>6, <1>7, <1>8, <1>9, <1>10, <1>11, <1>13, <1>14, <1>15, <1>16, <1>17, <1>18
  DEF Next, WorkerStep, Environment, RollPeriod, SetAllowed, SetVerified

(* ------------------------------ The theorems ----------------------------- *)

LEMMA InitIInv == Init => IInv
<1> SUFFICES ASSUME Init PROVE IInv
  OBVIOUS
<1>1. TypeOK
  BY InitTypeOK
<1>2. ASSUME NEW r \in Receipts PROVE RowInv(r)
  <2>1. /\ rows[r].owner = NoOne /\ rows[r].state = "absent"
        /\ rows[r].outcome = "not_started" /\ ~rows[r].started
        /\ runs[r] = {} /\ landed[r] = {}
    BY DEF Init
  <2>2. rows[r].started = (rows[r].outcome # "not_started")
    BY <1>1, <2>1 DEF TypeOK, Row
  <2>3. (rows[r].owner # NoOne) = (rows[r].state \in Leased)
    BY <2>1 DEF Leased
  <2> QED
    BY <2>1, <2>2, <2>3 DEF RowInv
<1>3. ASSUME NEW w \in Workers PROVE SessionInv(w)
  <2>1. sessions[w].r = NoOne /\ ~sessions[w].fencing
    BY IdleFields DEF Init
  <2> QED
    BY <2>1 DEF SessionInv
<1>4. OneHolder /\ LandsUnderLoadedConfig
  BY DEF Init, OneHolder, LandsUnderLoadedConfig, Idle
<1>5. OneActiveReceipt
  BY DEF Init, OneActiveReceipt, Active
<1>6. \A c \in Callers : CallInv(c)
  BY DEF Init, CallInv, NoCall
<1> QED
  BY <1>1, <1>2, <1>3, <1>4, <1>5, <1>6 DEF IInv

LEMMA IInvStep == IInv /\ [Next]_vars => IInv'
<1> SUFFICES ASSUME IInv, [Next]_vars PROVE IInv'
  OBVIOUS
<1>1. CASE Next
  <2>1. TypeOK'
    BY <1>1, NextTypeOK DEF IInv
  <2> QED
    BY <1>1, <2>1, RowInvStep, SessionInvStep, OneHolderStep, OneActiveStep, LoadedConfigStep,
       CallInvStep
    DEF IInv
<1>2. CASE UNCHANGED vars
  <2>1. TypeOK'
    BY <1>2, NextTypeOK DEF IInv
  <2>2. ASSUME NEW r \in Receipts PROVE RowInv(r)'
    BY <1>2 DEF IInv, RowInv, vars
  <2>3. ASSUME NEW w \in Workers PROVE SessionInv(w)'
    BY <1>2 DEF IInv, SessionInv, Holds, vars
  <2>4. OneHolder' /\ OneActiveReceipt' /\ LandsUnderLoadedConfig'
    BY <1>2 DEF IInv, OneHolder, OneActiveReceipt, LandsUnderLoadedConfig, vars
  <2>5. ASSUME NEW c \in Callers PROVE CallInv(c)'
    BY <1>2 DEF IInv, CallInv, Matches, vars
  <2> QED
    BY <2>1, <2>2, <2>3, <2>4, <2>5 DEF IInv
<1> QED
  BY <1>1, <1>2

\* The invariant holds in every reachable state of every instance.
THEOREM ReceiptsInvariant == Spec => []IInv
BY InitIInv, IInvStep, PTL DEF Spec

\* The CHECK constraints of the receipts table are never about to be broken.
THEOREM ReceiptsKeepRowChecks == Spec => []RowChecks
<1>1. IInv => RowChecks
  BY DEF IInv, RowInv, RowChecks
<1> QED
  BY <1>1, ReceiptsInvariant, PTL

\* Callers that race between the SELECT and the INSERT share one active receipt,
\* and each is answered with one of its own request.
THEOREM ReceiptsAreShared == Spec => []CallersShareReceipt
<1>1. IInv => CallersShareReceipt
  <2> SUFFICES ASSUME IInv, NEW c1 \in Callers, NEW c2 \in Callers
               PROVE  LET r1 == calls[c1].got  r2 == calls[c2].got IN
                      /\ r1 # NoOne =>
                           /\ rows[r1].target = calls[c1].target
                           /\ Matches(r1, calls[c1].request, calls[c1].period)
                      /\ NoOne \notin {r1, r2} /\ calls[c1].target = calls[c2].target
                           /\ {rows[r1].state, rows[r2].state} \subseteq Active => r1 = r2
    BY DEF CallersShareReceipt
  <2>1. \A c \in Callers : calls[c].got # NoOne => calls[c].got \in Receipts
    BY DEF IInv, TypeOK, Call, NoCall
  <2>2. OneActiveReceipt /\ CallInv(c1) /\ CallInv(c2)
    BY DEF IInv
  <2> QED
    BY <2>1, <2>2 DEF CallInv, OneActiveReceipt
<1> QED
  BY <1>1, ReceiptsInvariant, PTL

\* No two workers hold one receipt under one generation.
THEOREM ReceiptsHaveOneHolder == Spec => []OneHolder
<1>1. IInv => OneHolder
  BY DEF IInv
<1> QED
  BY <1>1, ReceiptsInvariant, PTL

\* Whatever crashes, expires or is claimed again, a receipt that may not be
\* replayed has at most one run against its provider.
THEOREM ReceiptsRunOnce == Spec => []SingleProviderRun
<1>1. IInv => SingleProviderRun
  BY DEF IInv, RowInv, SingleProviderRun
<1> QED
  BY <1>1, ReceiptsInvariant, PTL

\* Canonical rows come only from generations that persisted their start.
THEOREM ReceiptsLandByRuns == Spec => []LandedByRuns
<1>1. IInv => LandedByRuns
  BY DEF IInv, RowInv, LandedByRuns
<1> QED
  BY <1>1, ReceiptsInvariant, PTL

\* A connector's canonical commit happens under the settings its worker loaded.
THEOREM ReceiptsLandUnderConfig == Spec => []LandsUnderLoadedConfig
<1>1. IInv => LandsUnderLoadedConfig
  BY DEF IInv
<1> QED
  BY <1>1, ReceiptsInvariant, PTL

(* --------------------------- The action properties ----------------------- *)

\* Only a fenced commit lands rows, and the fence still holds.
LEMMA LandingStepHolds ==
  ASSUME IInv, [Next]_vars, NEW r \in Receipts
  PROVE  LandingStep(r)
<1>a. TypeOK /\ (\A w \in Workers : SessionInv(w))
  BY DEF IInv
<1>b. landed \in [Receipts -> SUBSET (0..MaxGeneration)]
  BY <1>a DEF TypeOK
<1>1. ASSUME NEW w \in Workers, Commit(w) PROVE LandingStep(r)
  <2>1. CASE sessions[w].pre \/ sessions[w].r # r
    BY <1>1, <2>1, <1>b DEF Commit, LandingStep
  <2>2. CASE ~sessions[w].pre /\ sessions[w].r = r
    <3>1. rows[r].state = "provider_started" /\ rows[r].gen = sessions[w].gen
      BY <1>1, <2>2, <1>a DEF Commit, SessionInv, Holds
    <3>2. landed'[r] = landed[r] \cup {sessions[w].gen}
      BY <1>1, <2>2, <1>b DEF Commit
    <3> QED
      BY <3>1, <3>2 DEF LandingStep
  <2> QED
    BY <2>1, <2>2
<1>2. ASSUME UNCHANGED landed PROVE LandingStep(r)
  BY <1>2 DEF LandingStep
<1>z. ASSUME NEW c \in Callers, CallerStep(c) PROVE LandingStep(r)
  BY <1>z, CallerSteps, <1>2, <1>a
<1> QED
  BY <1>z, <1>1, <1>2
  DEF vars, Next, WorkerStep, Claim, Environment, MarkQueued, ClaimUncertain, ClaimDenied,
      ClaimGranted, LoadSource, AttachJob, BeginProvider, Fence, Crash, Finish, RecoverExpired,
      Tick, RollPeriod, SetAllowed, SetVerified, ChangeConfig

\* Canonical rows land only for the newest generation and while its run is open.
THEOREM ReceiptsLandInOpenRun == Spec => LandsInOpenRun
<1>1. IInv /\ [Next]_vars => [\A r \in Receipts : LandingStep(r)]_vars
  BY LandingStepHolds
<1> QED
  BY <1>1, ReceiptsInvariant, PTL DEF Spec, LandsInOpenRun

\* Every operation asks for a state a settled receipt is not in.
LEMMA SettledStepHolds ==
  ASSUME IInv, [Next]_vars, NEW r \in Receipts
  PROVE  SettledStep(r)
<1> SUFFICES ASSUME rows[r].state \in Settled
             PROVE  rows'[r].state = rows[r].state /\ runs'[r] = runs[r] /\ landed'[r] = landed[r]
  BY DEF SettledStep
<1>a. TypeOK /\ (\A w \in Workers : SessionInv(w)) /\ (\A s \in Receipts : RowInv(s))
  BY DEF IInv
<1>b. /\ rows \in [Receipts -> Row] /\ (\A s \in Receipts : rows[s] \in Row)
      /\ runs \in [Receipts -> SUBSET (0..MaxGeneration)]
      /\ landed \in [Receipts -> SUBSET (0..MaxGeneration)]
  BY <1>a DEF TypeOK
<1>c. rows[r].state \notin {"absent", "dispatch_pending", "retryable", "queued", "claimed",
                            "authorized", "provider_started"}
  BY DEF Settled, Terminal
<1>1. ASSUME NEW s \in Receipts, s # r, NEW row, SetRow(s, row)
      PROVE  rows'[r].state = rows[r].state
  BY <1>1, <1>b DEF SetRow
<1>2. ASSUME NEW t \in Targets, NEW q \in Requests, NEW p \in 0..MaxPeriod, Written(t, q, p)
      PROVE  rows'[r].state = rows[r].state /\ runs' = runs /\ landed' = landed
  BY <1>2, <1>c, <1>b DEF Written, SetRow
<1>3. ASSUME NEW s \in Receipts, MarkQueued(s)
      PROVE  rows'[r].state = rows[r].state /\ runs' = runs /\ landed' = landed
  BY <1>3, <1>c, <1>b DEF MarkQueued, SetRow
<1>4. ASSUME NEW w \in Workers, NEW s \in Receipts, Claim(w, s)
      PROVE  rows'[r].state = rows[r].state /\ runs' = runs /\ landed' = landed
  <2>1. s # r
    BY <1>4 DEF Claim, ClaimUncertain, ClaimDenied, ClaimGranted, Claimable, Active, Settled, Terminal
  <2> QED
    BY <1>4, <2>1, <1>1 DEF Claim, ClaimUncertain, ClaimDenied, ClaimGranted
<1>5. ASSUME NEW w \in Workers, AttachJob(w) \/ BeginProvider(w)
      PROVE  rows'[r].state = rows[r].state /\ runs'[r] = runs[r] /\ landed' = landed
  <2>1. sessions[w].r # r
    BY <1>5, <1>c DEF AttachJob, BeginProvider
  <2> QED
    BY <1>5, <2>1, <1>b DEF AttachJob, BeginProvider, SetRow
<1>6. ASSUME NEW w \in Workers, Commit(w)
      PROVE  rows'[r].state = rows[r].state /\ runs' = runs /\ landed'[r] = landed[r]
  <2>1. sessions[w].r # r
    BY <1>6, <1>a, <1>c DEF Commit, SessionInv
  <2> QED
    BY <1>6, <2>1, <1>b DEF Commit, SetRow
<1>7. ASSUME NEW w \in Workers, NEW outcome \in Settled \cup {"retryable"},
             NEW replay \in BOOLEAN, Finish(w, outcome, replay)
      PROVE  rows'[r].state = rows[r].state /\ runs' = runs /\ landed' = landed
  <2>1. sessions[w].r # r
    BY <1>7, <1>c DEF Finish
  <2> QED
    BY <1>7, <2>1, <1>b DEF Finish, SetRow
<1>8. ASSUME RecoverExpired
      PROVE  rows'[r].state = rows[r].state /\ runs' = runs /\ landed' = landed
  BY <1>8, <1>c DEF RecoverExpired, Expired, Leased
<1>9. ASSUME Tick PROVE rows'[r].state = rows[r].state /\ runs' = runs /\ landed' = landed
  BY <1>9, <1>b DEF Tick, Row
<1>z. ASSUME NEW c \in Callers, CallerStep(c) PROVE rows'[r].state = rows[r].state /\ runs' = runs /\ landed' = landed
  BY <1>z, CallerSteps, <1>2, <1>a
<1> QED
  BY <1>z, <1>2, <1>3, <1>4, <1>5, <1>6, <1>7, <1>8, <1>9
  DEF vars, Next, WorkerStep, Environment, LoadSource, Fence, Crash, RollPeriod, SetAllowed,
      SetVerified, ChangeConfig

\* A settled receipt is final.
THEOREM ReceiptsSettleOnce == Spec => SettledIsFinal
<1>1. IInv /\ [Next]_vars => [\A r \in Receipts : SettledStep(r)]_vars
  BY SettledStepHolds
<1> QED
  BY <1>1, ReceiptsInvariant, PTL DEF Spec, SettledIsFinal

\* Only a claim changes a generation, and a claim looks at the lease.
LEMMA TakeoverStepHolds ==
  ASSUME TypeOK, [Next]_vars, NEW r \in Receipts
  PROVE  TakeoverStep(r)
<1>a. /\ rows \in [Receipts -> Row] /\ (\A s \in Receipts : rows[s] \in Row)
      /\ \A w \in Workers : sessions[w].r # NoOne => sessions[w].r \in Receipts
  BY TypeFacts DEF TypeOK
<1>1. ASSUME rows'[r].gen = rows[r].gen PROVE TakeoverStep(r)
  BY <1>1 DEF TakeoverStep
<1>2. ASSUME NEW t \in Targets, NEW q \in Requests, NEW p \in 0..MaxPeriod, Written(t, q, p) PROVE TakeoverStep(r)
  BY <1>2, <1>1, <1>a DEF Written, SetRow, Row
<1>3. ASSUME NEW s \in Receipts, MarkQueued(s) PROVE TakeoverStep(r)
  BY <1>3, <1>1, <1>a DEF MarkQueued, SetRow, Row
<1>4. ASSUME NEW w \in Workers, NEW s \in Receipts, ClaimUncertain(w, s) PROVE TakeoverStep(r)
  BY <1>4, <1>1, <1>a DEF ClaimUncertain, SetRow, Unlease, Row
<1>5. ASSUME NEW w \in Workers, NEW s \in Receipts, ClaimDenied(w, s) \/ ClaimGranted(w, s)
      PROVE  TakeoverStep(r)
  <2>1. CASE s = r
    BY <1>5, <2>1 DEF ClaimDenied, ClaimGranted, Claimable, TakeoverStep
  <2>2. CASE s # r
    BY <1>5, <2>2, <1>1, <1>a DEF ClaimDenied, ClaimGranted, SetRow
  <2> QED
    BY <2>1, <2>2
<1>6. ASSUME NEW w \in Workers, AttachJob(w) PROVE TakeoverStep(r)
  BY <1>6, <1>1, <1>a DEF AttachJob, SetRow, Row
<1>7. ASSUME NEW w \in Workers, BeginProvider(w) PROVE TakeoverStep(r)
  BY <1>7, <1>1, <1>a DEF BeginProvider, SetRow, Row
<1>8. ASSUME NEW w \in Workers, Commit(w) PROVE TakeoverStep(r)
  BY <1>8, <1>1, <1>a DEF Commit, SetRow, Row
<1>9. ASSUME NEW w \in Workers, NEW outcome \in Settled \cup {"retryable"},
             NEW replay \in BOOLEAN, Finish(w, outcome, replay)
      PROVE  TakeoverStep(r)
  BY <1>9, <1>1, <1>a DEF Finish, SetRow, Unlease, Row
<1>10. ASSUME RecoverExpired PROVE TakeoverStep(r)
  BY <1>10, <1>1, <1>a DEF RecoverExpired, Recovered, Unlease, Row
<1>11. ASSUME Tick PROVE TakeoverStep(r)
  BY <1>11, <1>1, <1>a DEF Tick, Row
<1>12. ASSUME UNCHANGED rows PROVE TakeoverStep(r)
  BY <1>12, <1>1
<1>z. ASSUME NEW c \in Callers, CallerStep(c) PROVE TakeoverStep(r)
  BY <1>z, CallerSteps, <1>2, <1>12
<1> QED
  BY <1>z, <1>2, <1>3, <1>4, <1>5, <1>6, <1>7, <1>8, <1>9, <1>10, <1>11, <1>12
  DEF vars, Next, WorkerStep, Claim, Environment, LoadSource, Fence, Crash, RollPeriod,
      SetAllowed, SetVerified, ChangeConfig

\* A receipt changes hands only over an expired lease.
THEOREM ReceiptsRespectLeases == Spec => LeaseRespected
<1>1. TypeOK /\ [Next]_vars => [\A r \in Receipts : TakeoverStep(r)]_vars
  BY TakeoverStepHolds
<1> QED
  BY <1>1, ReceiptsTypeCorrect, PTL DEF Spec, LeaseRespected

(* ------------------------------- Refinement ------------------------------- *)
(* Initial states map to initial states, and every step to a step of each   *)
(* receipt's effects.                                                       *)

\* What the refinement mapping shows of one receipt.
Safe(r) == rows[r].target \in StoreTargets
Phase(r) == PhaseOf(rows[r])

\* The mapping, read from its second line on.
LEMMA PhaseIs ==
  ASSUME NEW row \in Row
  PROVE  /\ row.state = "absent" => PhaseOf(row) = "none"
         /\ row.state \in Settled => PhaseOf(row) = "closed"
         /\ row.state = "provider_started" => PhaseOf(row) = "running"
         /\ row.state \in {"dispatch_pending", "queued", "claimed", "authorized", "retryable"} =>
              PhaseOf(row) = IF row.started THEN "stopped" ELSE "intended"
BY DEF PhaseOf, Row, States, Active, Settled, Terminal

\* One receipt's part of a step, without the mapping.
Keeps(r) == Safe(r)' = Safe(r) /\ runs'[r] = runs[r] /\ landed'[r] = landed[r]
EffectStep(r) ==
  \/ Phase(r)' = Phase(r) /\ Keeps(r)
  \/ Phase(r) = "none" /\ Phase(r)' = "intended" /\ runs'[r] = runs[r] /\ landed'[r] = landed[r]
  \/ /\ Phase(r) = "intended" /\ Phase(r)' = "running"
     /\ \E g \in runs'[r] : g \in Nat /\ (\A h \in runs[r] : h < g) /\ runs'[r] = runs[r] \cup {g}
     /\ Safe(r)' = Safe(r) /\ landed'[r] = landed[r]
  \/ /\ Phase(r) = "running" /\ Phase(r)' = "running"
     /\ \E g \in runs[r] : (\A h \in runs[r] : h <= g) /\ landed'[r] = landed[r] \cup {g}
     /\ Safe(r)' = Safe(r) /\ runs'[r] = runs[r]
  \/ Phase(r) = "running" /\ Phase(r)' = "stopped" /\ Keeps(r)
  \/ Safe(r) /\ Phase(r) = "running" /\ Phase(r)' = "intended" /\ Keeps(r)
  \/ Phase(r) \in {"intended", "running", "stopped"} /\ Phase(r)' = "closed" /\ Keeps(r)

\* The mapped step is made of the receipts' parts.
LEMMA MappedStep ==
  ASSUME TypeOK, TypeOK', \A r \in Receipts : EffectStep(r)
  PROVE  Effects!Next
<1>1. ASSUME NEW r \in Receipts PROVE Effects!Step(r)
  BY DEF EffectStep, Keeps, Safe, Phase, Effects!Step, Effects!Stay, Effects!Intend, Effects!Run,
         Effects!Land, Effects!Stop, Effects!Replay, Effects!Close, Effects!Keeps
<1> QED
  BY <1>1 DEF TypeOK, Effects!Next

\* A receipt whose row and histories stay does nothing.
LEMMA Quiet ==
  ASSUME NEW r \in Receipts, rows'[r] = rows[r], runs'[r] = runs[r], landed'[r] = landed[r]
  PROVE  EffectStep(r)
BY DEF EffectStep, Keeps, Safe, Phase

\* Every step is, for each receipt, one that the contract allows.
LEMMA StepIsAllowed ==
  ASSUME IInv, Next, NEW r \in Receipts
  PROVE  EffectStep(r)
<1>a. TypeOK /\ TypeOK' /\ (\A w \in Workers : SessionInv(w)) /\ RowInv(r)
  BY NextTypeOK DEF IInv
<1>b. /\ rows \in [Receipts -> Row] /\ rows[r] \in Row /\ rows'[r] \in Row
      /\ runs \in [Receipts -> SUBSET (0..MaxGeneration)]
      /\ landed \in [Receipts -> SUBSET (0..MaxGeneration)]
      /\ \A w \in Workers : sessions[w] \in Session
      /\ \A w \in Workers : sessions[w].r # NoOne => sessions[w].r \in Receipts
  BY <1>a, TypeFacts DEF TypeOK
<1>p. /\ rows[r].state = "absent" => Phase(r) = "none"
      /\ rows[r].state \in Settled => Phase(r) = "closed"
      /\ rows[r].state = "provider_started" => Phase(r) = "running"
      /\ rows[r].state \in {"dispatch_pending", "queued", "claimed", "authorized", "retryable"} =>
           Phase(r) = IF rows[r].started THEN "stopped" ELSE "intended"
  BY <1>b, PhaseIs DEF Phase
<1>q. /\ rows'[r].state \in Settled => Phase(r)' = "closed"
      /\ rows'[r].state = "provider_started" => Phase(r)' = "running"
      /\ rows'[r].state \in {"dispatch_pending", "queued", "claimed", "authorized", "retryable"} =>
           Phase(r)' = IF rows'[r].started THEN "stopped" ELSE "intended"
  BY <1>b, PhaseIs DEF Phase
<1>1. ASSUME UNCHANGED <<rows, runs, landed>> PROVE EffectStep(r)
  BY <1>1, Quiet
<1>2. ASSUME NEW s \in Receipts, NEW row, SetRow(s, row), s # r, runs'[r] = runs[r], landed'[r] = landed[r]
      PROVE  EffectStep(r)
  BY <1>2, <1>b, Quiet DEF SetRow
<1>3. ASSUME NEW t \in Targets, NEW q \in Requests, NEW p \in 0..MaxPeriod, Written(t, q, p) PROVE EffectStep(r)
  <2>1. PICK s \in Receipts :
          /\ rows[s].state = "absent"
          /\ SetRow(s, [rows[s] EXCEPT !.state = "dispatch_pending", !.target = t,
                                       !.request = q, !.period = p])
    BY <1>3 DEF Written
  <2>2. CASE s # r
    BY <2>1, <2>2, <1>2, <1>3 DEF Written
  <2>3. CASE s = r
    <3>1. Phase(r) = "none" /\ Phase(r)' = "intended"
      BY <2>1, <2>3, <1>a, <1>b, <1>p, <1>q DEF SetRow, RowInv, Row
    <3> QED
      BY <3>1, <1>3 DEF Written, EffectStep
  <2> QED
    BY <2>2, <2>3
<1>4. ASSUME NEW s \in Receipts, MarkQueued(s) PROVE EffectStep(r)
  <2>1. CASE s # r
    BY <2>1, <1>2, <1>4 DEF MarkQueued
  <2>2. CASE s = r
    <3>1. Phase(r)' = Phase(r) /\ Safe(r)' = Safe(r)
      BY <2>2, <1>4, <1>b, <1>p, <1>q DEF MarkQueued, SetRow, Row, Safe
    <3> QED
      BY <3>1, <1>4 DEF MarkQueued, EffectStep, Keeps
  <2> QED
    BY <2>1, <2>2
<1>5. ASSUME NEW w \in Workers, NEW s \in Receipts, Claim(w, s) PROVE EffectStep(r)
  <2>1. CASE s # r
    BY <2>1, <1>2, <1>5 DEF Claim, ClaimUncertain, ClaimDenied, ClaimGranted
  <2>2. CASE s = r /\ ClaimUncertain(w, r)
    <3>1. Phase(r) \in {"running", "stopped"} /\ Phase(r)' = "closed" /\ Safe(r)' = Safe(r)
      BY <2>2, <1>b, <1>p, <1>q
      DEF ClaimUncertain, Claimable, MayHaveRun, SetRow, Unlease, Row, Safe, Active, Settled, Terminal
    <3> QED
      BY <3>1, <2>2 DEF ClaimUncertain, EffectStep, Keeps
  <2>3. CASE s = r /\ ClaimDenied(w, r)
    <3>1. Phase(r) = "intended" /\ Phase(r)' = "closed" /\ Safe(r)' = Safe(r)
      BY <2>3, <1>b, <1>p, <1>q
      DEF ClaimDenied, Claimable, MayHaveRun, SetRow, Unlease, Row, Safe, Active, Settled, Terminal
    <3> QED
      BY <3>1, <2>3 DEF ClaimDenied, EffectStep, Keeps
  <2>4. CASE s = r /\ ClaimGranted(w, r)
    <3>1. Phase(r) = "intended" /\ Phase(r)' = "intended" /\ Safe(r)' = Safe(r)
      BY <2>4, <1>b, <1>p, <1>q
      DEF ClaimGranted, Claimable, MayHaveRun, SetRow, Row, Safe, Active, Settled, Terminal
    <3> QED
      BY <3>1, <2>4 DEF ClaimGranted, EffectStep, Keeps
  <2> QED
    BY <2>1, <2>2, <2>3, <2>4, <1>5 DEF Claim
<1>6. ASSUME NEW w \in Workers, AttachJob(w) PROVE EffectStep(r)
  <2>1. CASE sessions[w].r # r
    BY <2>1, <1>2, <1>6, <1>b DEF AttachJob
  <2>2. CASE sessions[w].r = r
    <3>1. Phase(r)' = Phase(r) /\ Safe(r)' = Safe(r)
      BY <2>2, <1>6, <1>b, <1>p, <1>q DEF AttachJob, SetRow, Row, Safe
    <3> QED
      BY <3>1, <1>6 DEF AttachJob, EffectStep, Keeps
  <2> QED
    BY <2>1, <2>2
<1>7. ASSUME NEW w \in Workers, BeginProvider(w) PROVE EffectStep(r)
  <2>1. CASE sessions[w].r # r
    <3>1. runs'[r] = runs[r] /\ landed'[r] = landed[r] /\ sessions[w].r \in Receipts
      BY <2>1, <1>7, <1>b DEF BeginProvider
    <3> QED
      BY <3>1, <2>1, <1>2, <1>7 DEF BeginProvider
  <2>2. CASE sessions[w].r = r
    <3>1. Phase(r) = "intended" /\ Phase(r)' = "running" /\ Safe(r)' = Safe(r)
      BY <2>2, <1>7, <1>a, <1>b, <1>p, <1>q DEF BeginProvider, SetRow, Row, Safe, RowInv
    <3>2. /\ rows[r].gen \in Nat /\ (\A h \in runs[r] : h < rows[r].gen)
          /\ runs'[r] = runs[r] \cup {rows[r].gen}
      BY <2>2, <1>7, <1>a, <1>b DEF BeginProvider, Holds, Row, RowInv
    <3> QED
      BY <3>1, <3>2, <1>7 DEF BeginProvider, EffectStep
  <2> QED
    BY <2>1, <2>2
<1>8. ASSUME NEW w \in Workers, Commit(w) PROVE EffectStep(r)
  <2>1. CASE sessions[w].r # r
    <3>1. runs'[r] = runs[r] /\ landed'[r] = landed[r] /\ sessions[w].r \in Receipts
      BY <2>1, <1>8, <1>a, <1>b DEF Commit, SessionInv
    <3> QED
      BY <3>1, <2>1, <1>2, <1>8 DEF Commit
  <2>2. CASE sessions[w].r = r
    <3>1. Phase(r)' = Phase(r) /\ Safe(r)' = Safe(r)
      BY <2>2, <1>8, <1>a, <1>b, <1>p, <1>q DEF Commit, SetRow, Row, Safe, SessionInv
    <3>2. CASE sessions[w].pre
      BY <3>1, <3>2, <1>8 DEF Commit, EffectStep, Keeps
    <3>3. CASE ~sessions[w].pre
      <4>1. rows[r].state = "provider_started" /\ sessions[w].gen = rows[r].gen
        BY <2>2, <3>3, <1>8, <1>a DEF Commit, SessionInv, Holds
      <4>2. /\ rows[r].gen \in runs[r] /\ (\A h \in runs[r] : h <= rows[r].gen)
            /\ landed'[r] = landed[r] \cup {rows[r].gen} /\ runs'[r] = runs[r]
        BY <4>1, <2>2, <3>3, <1>8, <1>a, <1>b DEF Commit, RowInv
      <4> QED
        BY <3>1, <4>1, <4>2, <1>p DEF EffectStep
    <3> QED
      BY <3>2, <3>3
  <2> QED
    BY <2>1, <2>2
<1>9. ASSUME NEW w \in Workers, NEW outcome \in Settled \cup {"retryable"},
             NEW replay \in BOOLEAN, Finish(w, outcome, replay)
      PROVE  EffectStep(r)
  <2>1. CASE sessions[w].r # r
    BY <2>1, <1>2, <1>9, <1>b DEF Finish
  <2>2. CASE sessions[w].r = r
    <3>1. /\ rows'[r].state = outcome /\ rows'[r].started = (rows[r].started /\ ~replay)
          /\ rows'[r].target = rows[r].target
      BY <2>2, <1>9, <1>b DEF Finish, SetRow, Unlease, Row
    <3>2. /\ rows[r].state \in {"authorized", "provider_started"}
          /\ replay => outcome = "retryable" /\ Safe(r)
      BY <2>2, <1>9 DEF Finish, Replayable, Safe
    <3>3. Keeps(r)
      BY <3>1, <1>9 DEF Finish, Keeps, Safe
    <3>4. CASE outcome \in Settled
      BY <3>1, <3>2, <3>3, <3>4, <1>a, <1>p, <1>q DEF EffectStep, RowInv
    <3>5. CASE outcome = "retryable"
      BY <3>1, <3>2, <3>3, <3>5, <1>a, <1>p, <1>q DEF EffectStep, RowInv
    <3> QED
      BY <3>4, <3>5
  <2> QED
    BY <2>1, <2>2
<1>10. ASSUME RecoverExpired PROVE EffectStep(r)
  <2>1. CASE ~Expired(r)
    BY <2>1, <1>10, Quiet DEF RecoverExpired
  <2>2. CASE Expired(r)
    <3>1. rows'[r] = Recovered(r) /\ runs' = runs /\ landed' = landed
      BY <2>2, <1>10 DEF RecoverExpired
    <3>2. rows'[r].target = rows[r].target
      BY <3>1, <1>b DEF Recovered, Unlease, Row
    <3>3. Keeps(r)
      BY <3>1, <3>2 DEF Keeps, Safe
    <3>4. CASE rows[r].state # "provider_started"
      <4>1. rows[r].state \in {"claimed", "authorized"} /\ ~rows[r].started
        BY <2>2, <3>4, <1>a DEF Expired, Leased, RowInv
      <4>2. rows'[r].state = "retryable" /\ rows'[r].started = rows[r].started
        BY <3>1, <3>4, <1>b DEF Recovered, Unlease, Row
      <4> QED
        BY <3>3, <4>1, <4>2, <1>p, <1>q DEF EffectStep
    <3>5. CASE rows[r].state = "provider_started" /\ Replayable(rows[r].target)
      <4>1. rows'[r].state = "retryable" /\ ~rows'[r].started
        BY <3>1, <3>5, <1>b DEF Recovered, Unlease, Row
      <4> QED
        BY <3>3, <3>5, <4>1, <1>p, <1>q DEF EffectStep, Replayable, Safe
    <3>6. CASE rows[r].state = "provider_started" /\ ~Replayable(rows[r].target)
      <4>1. rows'[r].state = "reconciliation_required"
        BY <3>1, <3>6, <1>b DEF Recovered, Unlease, Row
      <4> QED
        BY <3>3, <3>6, <4>1, <1>p, <1>q DEF EffectStep, Settled
    <3> QED
      BY <3>4, <3>5, <3>6
  <2> QED
    BY <2>1, <2>2
<1>11. ASSUME Tick PROVE EffectStep(r)
  <2>1. /\ rows'[r].state = rows[r].state /\ rows'[r].started = rows[r].started
        /\ rows'[r].target = rows[r].target /\ runs' = runs /\ landed' = landed
    BY <1>11, <1>b DEF Tick, Row
  <2>2. Phase(r)' = Phase(r)
    BY <2>1 DEF Phase, PhaseOf
  <2> QED
    BY <2>1, <2>2 DEF EffectStep, Keeps, Safe
<1>z. ASSUME NEW c \in Callers, CallerStep(c) PROVE EffectStep(r)
  BY <1>z, CallerSteps, <1>1, <1>3, <1>a
<1> QED
  BY <1>z, <1>1, <1>3, <1>4, <1>5, <1>6, <1>7, <1>8, <1>9, <1>10, <1>11
  DEF Next, WorkerStep, Environment, LoadSource, Fence, Crash, RollPeriod, SetAllowed, SetVerified,
      ChangeConfig

\* Operation receipts keep the contract: whatever claims, crashes, recoveries
\* and late workers do, the effects are those ProviderEffects allows.
THEOREM ReceiptsKeepTheContract == Spec => ImplementsProviderEffects
<1>1. Init => Effects!Init
  <2> SUFFICES ASSUME Init PROVE Effects!Init
    OBVIOUS
  <2>1. \A r \in Receipts : rows[r] \in Row /\ rows[r].state = "absent"
    BY InitTypeOK, TypeFacts DEF Init
  <2>2. [r \in Receipts |-> PhaseOf(rows[r])] = [r \in Receipts |-> "none"]
    BY <2>1, PhaseIs
  <2>3. [r \in Receipts |-> rows[r].target \in StoreTargets] \in [Receipts -> BOOLEAN]
    OBVIOUS
  <2>4. runs = [r \in Receipts |-> {}] /\ landed = [r \in Receipts |-> {}]
    BY DEF Init
  <2> QED
    BY <2>2, <2>3, <2>4 DEF Effects!Init
<1>2. IInv /\ IInv' /\ [Next]_vars => [Effects!Next]_(Effects!vars)
  <2> SUFFICES ASSUME IInv, IInv', [Next]_vars PROVE [Effects!Next]_(Effects!vars)
    OBVIOUS
  <2>1. CASE Next
    BY <2>1, StepIsAllowed, MappedStep DEF IInv
  <2>2. CASE UNCHANGED vars
    BY <2>2 DEF vars, Effects!vars
  <2> QED
    BY <2>1, <2>2
<1> QED
  BY <1>1, <1>2, ReceiptsInvariant, PTL DEF Spec, ImplementsProviderEffects, Effects!Spec
=============================================================================
