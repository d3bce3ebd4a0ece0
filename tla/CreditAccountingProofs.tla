------------------------ MODULE CreditAccountingProofs ------------------------
(***************************************************************************)
(* What the credit accounting keeps for any number of calls, accounts,     *)
(* capped controls and references, any estimate, margin and costs.         *)
(*                                                                         *)
(* The order of reserve(), of the block and of settle() comes first: a     *)
(* request leaves the server only behind a row it inserted, keys are       *)
(* inserted once, the account's lock is held from the count of the open    *)
(* reservations to the insertion, and a data call that was sent says so in *)
(* its handle before anything can raise.                                   *)
(*                                                                         *)
(* Then the sums.  The balance row is the sum of the ledger because every  *)
(* step moves the two by the same amount, costs up to the rounding of one  *)
(* booking per row, and the month's spend of a cap leaves room for the     *)
(* estimate of whoever holds the lock of the cap.                          *)
(***************************************************************************)
EXTENDS CreditAccounting, FiniteSetTheorems, WellFoundedInduction, TLAPS

Handle  == [reached : BOOLEAN, units : Amounts, unreported : BOOLEAN, failed : BOOLEAN]
Row     == [status : Statuses, consumed : Amounts, actual : Amounts, stale : BOOLEAN]
Balance == [reserved : Nat, consumed : Nat, cost : Nat]
Places  == {"start", "refused", "done", "dead"} \cup Reserving \cup Running

CallsTyped ==
  /\ pc \in [Calls -> Places]
  /\ toLock \in [Calls -> SUBSET Controls]
  /\ accountLock \in [Accounts -> Calls \cup {NoCall}]
  /\ capLock \in [Controls -> Calls \cup {NoCall}]
  /\ handle \in [Calls -> Handle]
  /\ left \in [Calls -> BOOLEAN]
RowsTyped == ledger \in [Calls -> Row]
BalanceTyped == balance \in [Accounts -> Balance]
AdjustmentsTyped ==
  /\ DOMAIN adjustments \subseteq References
  /\ \A r \in DOMAIN adjustments : adjustments[r] \in [account : Accounts, credits : Int, cost : Int]

LEMMA TypeParts == TypeOK <=> CallsTyped /\ RowsTyped /\ BalanceTyped /\ AdjustmentsTyped
BY DEF TypeOK, CallsTyped, RowsTyped, BalanceTyped, AdjustmentsTyped, Handle, Row, Balance, Places

LEMMA AmountsTyped == /\ Need \in Nat /\ Estimate \in Nat /\ Nothing \in Amounts /\ Nat \subseteq Amounts
                      /\ Costs \subseteq Nat /\ Nothing \notin Nat /\ Amounts \subseteq Int
BY AmountsAssumption DEF Need, Amounts, Nothing

LEMMA FloorTyped == \A n \in Int : Floor0(n) \in Nat
BY DEF Floor0

LEMMA DivisionBounds ==
  ASSUME NEW m \in Int, NEW d \in Nat \ {0}
  PROVE  m \div d \in Int /\ d * (m \div d) <= m /\ m < d * (m \div d) + d
OBVIOUS

\* A booking is off by half of the balance's last digit at most.
LEMMA RoundedTyped ==
  /\ \A n \in Int : Rounded(n) \in Int /\ -Grain <= 2 * (Rounded(n) - n) /\ 2 * (Rounded(n) - n) <= Grain
  /\ \A n \in Nat : Rounded(n) \in Nat
  /\ Rounded(0) = 0
<1>g. Grain \in Nat \ {0} /\ 2 * Grain \in Nat \ {0} /\ Grain > 0
  BY AmountsAssumption
<1>p. \A x, y \in Int : x * y \in Int /\ (2 * y) * x = 2 * (x * y)
  OBVIOUS
<1>1. ASSUME NEW n \in Int
      PROVE  /\ Rounded(n) \in Int /\ -Grain <= 2 * (Rounded(n) - n) /\ 2 * (Rounded(n) - n) <= Grain
             /\ n \in Nat => Rounded(n) \in Nat
             /\ n = 0 => Rounded(n) = 0
  <2> DEFINE q == (2 * n + Grain) \div (2 * Grain)
  <2>1. 2 * n + Grain \in Int
    BY <1>g
  <2>2. q \in Int /\ (2 * Grain) * q <= 2 * n + Grain /\ 2 * n + Grain < (2 * Grain) * q + 2 * Grain
    BY <1>g, <2>1, DivisionBounds
  <2>3. Rounded(n) = q * Grain
    BY DEF Rounded
  <2> HIDE DEF q
  <2>4. q * Grain \in Int /\ (2 * Grain) * q = 2 * (q * Grain)
    BY <1>g, <1>p, <2>2
  <2>5. PICK x \in Int : x = q * Grain
    BY <2>4
  <2>6. -Grain <= 2 * (x - n) /\ 2 * (x - n) <= Grain
    BY <1>g, <2>2, <2>4, <2>5
  <2>7. n >= 0 => q >= 0
    <3>1. ASSUME n >= 0, q <= -1 PROVE FALSE
      <4>1. (2 * Grain) * q <= -(2 * Grain)
        BY <1>g, <2>2, <3>1
      <4> QED
        BY <1>g, <2>2, <4>1, <3>1
    <3> QED
      BY <2>2, <3>1
  <2>8. q >= 0 => x >= 0
    BY <1>g, <2>2, <2>5
  <2>9. n = 0 => q = 0
    <3>1. ASSUME n = 0, q >= 1 PROVE FALSE
      <4>1. (2 * Grain) * q >= 2 * Grain
        BY <1>g, <2>2, <3>1
      <4> QED
        BY <1>g, <2>2, <4>1, <3>1
    <3> QED
      BY <2>2, <2>7, <3>1
  <2>10. q = 0 => x = 0
    BY <1>g, <2>5
  <2> QED
    BY <2>3, <2>5, <2>6, <2>7, <2>8, <2>9, <2>10
<1> QED
  BY <1>1

LEMMA CallsFit == \A c \in Calls : AccountOf[c] \in Accounts /\ KeyOf[c] \in Keys /\ c # NoCall
BY CallsAssumption

\* What settle() makes of a handle is an end of the row that reserve() opened.
LEMMA OutcomeTyped ==
  ASSUME CallsTyped, NEW c \in Calls
  PROVE  /\ Outcome(c).status \in Statuses \ {"none", "reserved"}
         /\ Outcome(c).cost \in Nat /\ Outcome(c).consumed \in Nat /\ Outcome(c).actual \in Amounts
<1> DEFINE h == handle[c]
           reached == h.reached /\ (h.failed \/ h.units # Nothing \/ h.unreported)
<1>1. h.units \in Amounts /\ (h.units # Nothing => h.units \in Nat)
  BY DEF CallsTyped, Handle, Amounts
<1>2. h.units # Nothing => h.units + Margin \in Nat
  BY <1>1, AmountsAssumption
<1>3. CASE ~reached \/ (h.failed /\ c \notin BilledFailures)
  BY <1>3, AmountsTyped DEF Outcome, Statuses
<1>4. CASE ~(~reached \/ (h.failed /\ c \notin BilledFailures)) /\ h.units = Nothing
  BY <1>4, AmountsTyped DEF Outcome, Statuses
<1>5. CASE ~(~reached \/ (h.failed /\ c \notin BilledFailures)) /\ h.units # Nothing /\ c \in FinalPrices
  BY <1>5, <1>1, AmountsTyped DEF Outcome, Statuses
<1>6. CASE ~(~reached \/ (h.failed /\ c \notin BilledFailures)) /\ h.units # Nothing /\ c \notin FinalPrices
  BY <1>6, <1>1, <1>2, AmountsTyped DEF Outcome, Statuses
<1> QED
  BY <1>3, <1>4, <1>5, <1>6

-----------------------------------------------------------------------------
(* The steps, by what they write.                                           *)

\* A step of reserve(), of the block or of settle() on its call's own memory.
LEMMA CallsNext ==
  ASSUME TypeOK, [Next]_vars
  PROVE  CallsTyped'
<1>t. CallsTyped
  BY TypeParts
<1>n. NewHandle \in Handle
  BY AmountsTyped DEF NewHandle, Handle
<1>r. ASSUME NEW c \in Calls, NEW at \in Places, pc' = [pc EXCEPT ![c] = at], ReleaseLocks(c),
             UNCHANGED <<handle, left>>
      PROVE  CallsTyped'
  BY <1>r, <1>t DEF CallsTyped, ReleaseLocks
<1>1. ASSUME NEW c \in Calls, Reserve(c) PROVE CallsTyped'
  <2>1. CASE LockAccount(c)
    BY <2>1, <1>t DEF LockAccount, CallsTyped, Places, Reserving
  <2>2. CASE CheckKey(c)
    BY <2>2, <1>t, CallsAssumption DEF CheckKey, CallsTyped, Places, Reserving
  <2>3. CASE RefuseEarly(c) \/ DeadlockAbort(c) \/ RefuseConcurrency(c) \/ RefuseCharge(c)
             \/ \E n \in Controls : RefuseCap(c, n)
    BY <2>3, <1>r DEF RefuseEarly, DeadlockAbort, RefuseConcurrency, RefuseCharge, RefuseCap, Refuse, Places
  <2>4. CASE \E n \in Controls : LockCap(c, n)
    BY <2>4, <1>t DEF LockCap, CallsTyped
  <2>5. CASE CapsChecked(c)
    BY <2>5, <1>t DEF CapsChecked, CallsTyped, Places, Reserving
  <2>6. CASE CountInFlight(c)
    BY <2>6, <1>t DEF CountInFlight, CallsTyped, Places, Reserving
  <2>7. CASE Charge(c)
    BY <2>7, <1>r DEF Charge, Places, Running
  <2> QED
    BY <1>1, <2>1, <2>2, <2>3, <2>4, <2>5, <2>6, <2>7 DEF Reserve
<1>2. ASSUME NEW c \in Calls, CallProvider(c) PROVE CallsTyped'
  <2>1. CASE Send(c)
    <3>1. (AccountOf[c] \notin AIAccounts) \in BOOLEAN
      OBVIOUS
    <3> QED
      BY <2>1, <1>t DEF Send, CallsTyped, Places, Running, Handle
  <2>2. ASSUME NEW h \in Handle, Answered(c, h) PROVE CallsTyped'
    BY <2>2, <1>t DEF Answered, CallsTyped, Places, Running
  <2>3. handle[c] \in Handle
    BY <1>t DEF CallsTyped
  <2>4. ASSUME NEW cost \in Costs, Measured(c, cost) PROVE CallsTyped'
    <3>1. [handle[c] EXCEPT !.reached = TRUE, !.units = cost] \in Handle
      BY <2>3, AmountsTyped DEF Handle
    <3> QED
      BY <2>2, <2>4, <3>1 DEF Measured
  <2>5. CASE BilledUnreported(c) \/ ErrorResponse(c)
    <3>1. [handle[c] EXCEPT !.reached = TRUE, !.unreported = TRUE] \in Handle
      BY <2>3 DEF Handle
    <3> QED
      BY <2>2, <2>3, <2>5, <3>1 DEF BilledUnreported, ErrorResponse
  <2>6. ASSUME NEW failed \in BOOLEAN, Leave(c, failed) PROVE CallsTyped'
    BY <2>6, <1>t DEF Leave, CallsTyped, Places, Running, Handle
  <2> QED
    BY <1>2, <2>1, <2>4, <2>5, <2>6 DEF CallProvider
<1>3. ASSUME NEW c \in Calls, Settle(c) PROVE CallsTyped'
  BY <1>3, <1>t DEF Settle, CallsTyped, Places
<1>4. ASSUME NEW c \in Calls, Crash(c) PROVE CallsTyped'
  BY <1>4, <1>r DEF Crash, Places
<1>5. CASE UNCHANGED <<pc, toLock, accountLock, capLock, handle, left>>
  BY <1>5, <1>t DEF CallsTyped
<1> QED
  BY <1>1, <1>2, <1>3, <1>4, <1>5 DEF Next, Age, Expire, Operator, Reconcile, AdjustCredits, vars
\* How the row of a call may move: it is inserted, settled, or expired by the
\* upkeep, and reconciled from there.
RowMoves(c) ==
  \/ ledger'[c] = ledger[c]
  \/ /\ Charge(c) /\ ledger'[c] = [NoRow EXCEPT !.status = "reserved"]
  \/ /\ Settle(c) /\ Unsettled(c) /\ ledger'[c].status = Outcome(c).status
  \/ /\ ledger[c].status = "reserved" /\ ledger'[c].status = "reserved" /\ ledger'[c].stale
  \/ /\ ledger[c].status = "reserved" /\ ledger'[c].status = "pending_reconciliation"
  \/ /\ ledger[c].status = "pending_reconciliation" /\ ledger'[c].status = "reconciled"

LEMMA RowsNext ==
  ASSUME TypeOK, [Next]_vars
  PROVE  RowsTyped' /\ \A c \in Calls : RowMoves(c)
<1>t. CallsTyped /\ ledger \in [Calls -> Row]
  BY TypeParts DEF RowsTyped
<1>n. NoRow \in Row /\ [NoRow EXCEPT !.status = "reserved"] \in Row
  BY AmountsTyped DEF NoRow, Row, Statuses
<1>0. ASSUME ledger' = ledger PROVE RowsTyped' /\ \A c \in Calls : RowMoves(c)
  BY <1>0, <1>t DEF RowsTyped, RowMoves
<1>1. ASSUME NEW c \in Calls, Charge(c) PROVE RowsTyped' /\ \A d \in Calls : RowMoves(d)
  <2>1. ledger' = [ledger EXCEPT ![c] = [NoRow EXCEPT !.status = "reserved"]]
    BY <1>1 DEF Charge
  <2>2. RowsTyped'
    BY <2>1, <1>n, <1>t DEF RowsTyped
  <2>3. ASSUME NEW d \in Calls PROVE RowMoves(d)
    BY <2>1, <1>1, <1>t DEF RowMoves
  <2> QED
    BY <2>2, <2>3
<1>2. ASSUME NEW c \in Calls, Settle(c), Unsettled(c) PROVE RowsTyped' /\ \A d \in Calls : RowMoves(d)
  <2> DEFINE o == Outcome(c)
             row == [ledger[c] EXCEPT !.status = o.status, !.consumed = o.consumed, !.actual = o.actual]
  <2>1. ledger' = [ledger EXCEPT ![c].status = o.status, ![c].consumed = o.consumed, ![c].actual = o.actual]
    BY <1>2 DEF Settle
  <2>o. o.status \in Statuses /\ o.consumed \in Amounts /\ o.actual \in Amounts
    BY <1>t, OutcomeTyped, AmountsTyped
  <2> HIDE DEF o
  <2>2. ledger' = [ledger EXCEPT ![c] = row]
    BY <2>1, <1>t DEF Row
  <2>3. row \in Row /\ row.status = o.status
    BY <2>o, <1>t DEF Row
  <2> HIDE DEF row
  <2>4. RowsTyped'
    BY <2>2, <2>3, <1>t DEF RowsTyped
  <2>5. ledger'[c].status = Outcome(c).status /\ \A d \in Calls : d # c => ledger'[d] = ledger[d]
    BY <2>2, <2>3, <1>t DEF o
  <2>6. ASSUME NEW d \in Calls PROVE RowMoves(d)
    BY <2>5, <1>2 DEF RowMoves
  <2> QED
    BY <2>4, <2>6
<1>3. ASSUME NEW c \in Calls, Settle(c), ~Unsettled(c) PROVE ledger' = ledger
  BY <1>3 DEF Settle
<1>4. ASSUME NEW c \in Calls, Age(c) PROVE RowsTyped' /\ \A d \in Calls : RowMoves(d)
  <2>1. ledger' = [ledger EXCEPT ![c] = [ledger[c] EXCEPT !.stale = TRUE]] /\ ledger[c].status = "reserved"
    BY <1>4 DEF Age
  <2>2. [ledger[c] EXCEPT !.stale = TRUE] \in Row
    BY <1>t DEF Row
  <2>3. /\ ledger'[c].status = "reserved" /\ ledger'[c].stale
        /\ \A d \in Calls : d # c => ledger'[d] = ledger[d]
    BY <2>1, <1>t DEF Row
  <2>4. ASSUME NEW d \in Calls PROVE RowMoves(d)
    BY <2>1, <2>3 DEF RowMoves
  <2> QED
    BY <2>1, <2>2, <2>4, <1>t DEF RowsTyped
<1>5. ASSUME NEW a \in Accounts, Expire(a) PROVE RowsTyped' /\ \A d \in Calls : RowMoves(d)
  <2>1. ledger' = [c \in Calls |-> IF c \in Expired(a) THEN ExpiredRow(ledger[c]) ELSE ledger[c]]
    BY <1>5 DEF Expire
  <2>2. ASSUME NEW c \in Calls
        PROVE  ExpiredRow(ledger[c]) \in Row /\ ExpiredRow(ledger[c]).status = "pending_reconciliation"
    BY <1>t, AmountsTyped DEF ExpiredRow, Row, Statuses
  <2>3. RowsTyped'
    BY <2>1, <2>2, <1>t DEF RowsTyped
  <2>4. ASSUME NEW d \in Calls PROVE RowMoves(d)
    <3>1. CASE d \in Expired(a)
      BY <2>1, <2>2, <3>1 DEF RowMoves, Expired
    <3>2. CASE d \notin Expired(a)
      BY <2>1, <3>2 DEF RowMoves
    <3> QED
      BY <3>1, <3>2
  <2> QED
    BY <2>3, <2>4
<1>6. ASSUME NEW c \in Calls, NEW actual \in Costs, NEW ref \in References, Reconcile(c, actual, ref)
      PROVE  RowsTyped' /\ \A d \in Calls : RowMoves(d)
  <2>1. /\ ledger' = [ledger EXCEPT ![c].status = "reconciled", ![c].actual = actual]
        /\ ledger[c].status = "pending_reconciliation"
    BY <1>6 DEF Reconcile
  <2>2. actual \in Amounts
    BY AmountsTyped
  <2>3. RowsTyped'
    BY <2>1, <2>2, <1>t DEF RowsTyped, Row, Statuses
  <2>4. ledger'[c].status = "reconciled" /\ \A d \in Calls : d # c => ledger'[d] = ledger[d]
    BY <2>1, <1>t DEF Row
  <2>5. ASSUME NEW d \in Calls PROVE RowMoves(d)
    BY <2>1, <2>4 DEF RowMoves
  <2> QED
    BY <2>3, <2>5
<1>7. ASSUME NEW c \in Calls, Reserve(c), ~Charge(c) PROVE ledger' = ledger
  BY <1>7 DEF Reserve, LockAccount, CheckKey, RefuseEarly, LockCap, RefuseCap, CapsChecked, DeadlockAbort,
              CountInFlight, RefuseConcurrency, RefuseCharge, Refuse
<1>8. ASSUME NEW c \in Calls, CallProvider(c) \/ Crash(c) PROVE ledger' = ledger
  BY <1>8 DEF CallProvider, Send, Measured, BilledUnreported, ErrorResponse, Answered, Leave, Crash
<1>9. ASSUME NEW a \in Accounts, NEW delta \in AdminDeltas, NEW ref \in References, AdjustCredits(a, delta, ref)
      PROVE  ledger' = ledger
  BY <1>9 DEF AdjustCredits
<1> QED
  BY <1>0, <1>1, <1>2, <1>3, <1>4, <1>5, <1>6, <1>7, <1>8, <1>9 DEF Next, Operator, vars

LEMMA BalanceNext ==
  ASSUME TypeOK, [Next]_vars
  PROVE  BalanceTyped'
<1>t. CallsTyped /\ ledger \in [Calls -> Row] /\ balance \in [Accounts -> Balance]
  BY TypeParts DEF RowsTyped, BalanceTyped
<1>f. AIAccounts \subseteq Accounts /\ \A c \in Calls : AccountOf[c] \in Accounts
  BY CallsAssumption
<1>b. \A a \in Accounts : balance[a].reserved \in Nat /\ balance[a].consumed \in Nat /\ balance[a].cost \in Nat
  BY <1>t DEF Balance
<1>1. ASSUME NEW c \in Calls, Charge(c) PROVE BalanceTyped'
  <2>1. balance' = [balance EXCEPT ![AccountOf[c]] = [balance[AccountOf[c]] EXCEPT !.reserved = @ + Need]]
    BY <1>1 DEF Charge
  <2>2. balance[AccountOf[c]].reserved + Need \in Nat
    BY <1>b, <1>f, AmountsTyped
  <2>3. [balance[AccountOf[c]] EXCEPT !.reserved = balance[AccountOf[c]].reserved + Need] \in Balance
    <3>1. \A n \in Nat : [balance[AccountOf[c]] EXCEPT !.reserved = n] \in Balance
      BY <1>t, <1>f DEF Balance
    <3> QED
      BY <2>2, <3>1
  <2> QED
    BY <2>1, <2>3, <1>t DEF BalanceTyped
<1>2. ASSUME NEW c \in Calls, Settle(c) PROVE BalanceTyped'
  <2> DEFINE o == Outcome(c)
             b == balance[AccountOf[c]]
  <2>1. balance' = balance \/ balance' = [balance EXCEPT ![AccountOf[c]] = Settled(b, o.consumed, o.cost)]
    BY <1>2 DEF Settle
  <2>2. o.consumed \in Nat /\ o.cost \in Nat
    BY <1>t, OutcomeTyped
  <2>3. b.reserved \in Nat /\ b.consumed \in Nat /\ b.cost \in Nat
    BY <1>b, <1>f
  <2> HIDE DEF o, b
  <2>4. Settled(b, o.consumed, o.cost) \in Balance
    <3>0. Rounded(o.cost) \in Nat
      BY <2>2, RoundedTyped
    <3>1. b.reserved - Need \in Int /\ b.consumed + o.consumed \in Nat /\ b.cost + Rounded(o.cost) \in Nat
      BY <2>2, <2>3, <3>0, AmountsTyped
    <3>2. Floor0(b.reserved - Need) \in Nat
      BY <3>1, FloorTyped
    <3> QED
      BY <3>1, <3>2 DEF Settled, Balance
  <2> QED
    BY <2>1, <2>4, <1>t DEF BalanceTyped
<1>3. ASSUME NEW a \in Accounts, Expire(a) PROVE BalanceTyped'
  <2> DEFINE n == Cardinality(Expired(a))
             m == Rounded(Estimate)
  <2>1. n \in Nat /\ m \in Nat
    BY CallsAssumption, FS_Subset, FS_CardinalityType, RoundedTyped, AmountsTyped DEF Expired
  <2>2. balance' = [balance EXCEPT ![a] = [reserved |-> Floor0(balance[a].reserved - n * Need),
                      consumed |-> balance[a].consumed + n * Need, cost |-> balance[a].cost + n * m]]
    BY <1>3 DEF Expire
  <2> HIDE DEF n, m
  <2>3. n * Need \in Nat /\ n * m \in Nat
    <3>1. \A x, y \in Nat : x * y \in Nat
      OBVIOUS
    <3> QED
      BY <2>1, <3>1, AmountsTyped
  <2>4. balance[a].reserved - n * Need \in Int
        /\ balance[a].consumed + n * Need \in Nat /\ balance[a].cost + n * m \in Nat
    BY <2>3, <1>b
  <2>5. Floor0(balance[a].reserved - n * Need) \in Nat
    BY <2>4, FloorTyped
  <2> QED
    BY <2>2, <2>4, <2>5, <1>t DEF BalanceTyped, Balance
<1>4. ASSUME NEW c \in Calls, NEW actual \in Costs, NEW ref \in References, Reconcile(c, actual, ref)
      PROVE  BalanceTyped'
  <2> DEFINE a == AccountOf[c]
             delta == actual - ledger[c].consumed
             costDelta == Rounded(actual - CountedCost(c))
  <2>1. balance' = [balance EXCEPT ![a].consumed = Floor0(@ + delta), ![a].cost = Floor0(@ + costDelta)]
    BY <1>4 DEF Reconcile
  <2>2. delta \in Int /\ costDelta \in Int
    <3>1. actual \in Int /\ ledger[c].consumed \in Int /\ CountedCost(c) \in Int
      BY <1>t, AmountsTyped DEF Row, CountedCost
    <3> QED
      BY <3>1, RoundedTyped
  <2> HIDE DEF delta, costDelta
  <2>3. Floor0(balance[a].consumed + delta) \in Nat /\ Floor0(balance[a].cost + costDelta) \in Nat
    <3>1. balance[a].consumed + delta \in Int /\ balance[a].cost + costDelta \in Int
      BY <2>2, <1>b, <1>f
    <3> QED
      BY <3>1, FloorTyped
  <2>4. balance' = [balance EXCEPT ![a] = [balance[a] EXCEPT !.consumed = Floor0(balance[a].consumed + delta),
                                                         !.cost = Floor0(balance[a].cost + costDelta)]]
    BY <2>1, <1>t, <1>f DEF Balance
  <2>5. \A m, n \in Nat : [balance[a] EXCEPT !.consumed = m, !.cost = n] \in Balance
    BY <1>t, <1>f DEF Balance
  <2> QED
    BY <2>3, <2>4, <2>5, <1>t DEF BalanceTyped
<1>5. ASSUME NEW a \in Accounts, NEW delta \in AdminDeltas, NEW ref \in References, AdjustCredits(a, delta, ref)
      PROVE  BalanceTyped'
  <2>1. balance' = [balance EXCEPT ![a] = [balance[a] EXCEPT !.consumed = Floor0(balance[a].consumed + delta)]]
    BY <1>5 DEF AdjustCredits
  <2>2. balance[a].consumed + delta \in Int
    BY <1>b, AmountsAssumption
  <2>3. Floor0(balance[a].consumed + delta) \in Nat
    BY <2>2, FloorTyped
  <2>4. \A n \in Nat : [balance[a] EXCEPT !.consumed = n] \in Balance
    BY <1>t DEF Balance
  <2> QED
    BY <2>1, <2>3, <2>4, <1>t DEF BalanceTyped
<1>6. CASE balance' = balance
  BY <1>6, <1>t DEF BalanceTyped
<1>7. ASSUME NEW c \in Calls, Reserve(c), ~Charge(c) PROVE balance' = balance
  BY <1>7 DEF Reserve, LockAccount, CheckKey, RefuseEarly, LockCap, RefuseCap, CapsChecked, DeadlockAbort,
              CountInFlight, RefuseConcurrency, RefuseCharge, Refuse
<1>8. ASSUME NEW c \in Calls, CallProvider(c) \/ Crash(c) \/ Age(c) PROVE balance' = balance
  BY <1>8 DEF CallProvider, Send, Measured, BilledUnreported, ErrorResponse, Answered, Leave, Crash, Age
<1> QED
  BY <1>1, <1>2, <1>3, <1>4, <1>5, <1>6, <1>7, <1>8 DEF Next, Operator, vars

LEMMA AdjustmentsNext ==
  ASSUME TypeOK, [Next]_vars
  PROVE  AdjustmentsTyped'
<1>t. AdjustmentsTyped /\ ledger \in [Calls -> Row]
  BY TypeParts DEF RowsTyped
<1>1. ASSUME NEW ref \in References, NEW a \in Accounts, NEW credits \in Int, NEW cost \in Int,
             AddAdjustment(ref, a, credits, cost)
      PROVE  AdjustmentsTyped'
  BY <1>1, <1>t DEF AddAdjustment, AdjustmentsTyped
<1>2. ASSUME NEW c \in Calls, NEW actual \in Costs, NEW ref \in References, Reconcile(c, actual, ref)
      PROVE  AdjustmentsTyped'
  <2>1. actual \in Int /\ ledger[c].consumed \in Int /\ CountedCost(c) \in Int
    BY <1>t, AmountsTyped DEF Row, CountedCost
  <2>2. actual - ledger[c].consumed \in Int /\ actual - CountedCost(c) \in Int
    BY <2>1
  <2>3. AddAdjustment(ref, AccountOf[c], actual - ledger[c].consumed, actual - CountedCost(c))
    BY <1>2 DEF Reconcile
  <2> QED
    BY <1>1, <2>2, <2>3, CallsFit
<1>3. ASSUME NEW a \in Accounts, NEW delta \in AdminDeltas, NEW ref \in References, AdjustCredits(a, delta, ref)
      PROVE  AdjustmentsTyped'
  <2>1. delta \in Int /\ AddAdjustment(ref, a, delta, 0)
    BY <1>3, AmountsAssumption DEF AdjustCredits
  <2> QED
    BY <1>1, <2>1
<1>4. CASE adjustments' = adjustments
  BY <1>4, <1>t DEF AdjustmentsTyped
<1>5. ASSUME NEW c \in Calls, Reserve(c) \/ CallProvider(c) \/ Settle(c) \/ Crash(c) \/ Age(c)
      PROVE  adjustments' = adjustments
  BY <1>5 DEF Reserve, LockAccount, CheckKey, RefuseEarly, LockCap, RefuseCap, CapsChecked, DeadlockAbort,
              CountInFlight, RefuseConcurrency, RefuseCharge, Refuse, Charge, CallProvider, Send, Measured,
              BilledUnreported, ErrorResponse, Answered, Leave, Settle, Crash, Age
<1>6. ASSUME NEW a \in Accounts, Expire(a) PROVE adjustments' = adjustments
  BY <1>6 DEF Expire
<1> QED
  BY <1>2, <1>3, <1>4, <1>5, <1>6 DEF Next, Operator, vars

LEMMA InitTyped == Init => TypeOK
<1> SUFFICES ASSUME Init PROVE TypeOK
  OBVIOUS
<1>1. NewHandle \in Handle /\ NoRow \in Row /\ [reserved |-> 0, consumed |-> 0, cost |-> 0] \in Balance
  BY AmountsTyped DEF NewHandle, Handle, NoRow, Row, Statuses, Balance
<1>2. CallsTyped
  BY <1>1 DEF Init, CallsTyped, Places
<1>3. RowsTyped /\ BalanceTyped
  BY <1>1 DEF Init, RowsTyped, BalanceTyped
<1>4. AdjustmentsTyped
  BY DEF Init, AdjustmentsTyped
<1> QED
  BY <1>2, <1>3, <1>4, TypeParts

LEMMA NextTyped == TypeOK /\ [Next]_vars => TypeOK'
<1> SUFFICES ASSUME TypeOK, [Next]_vars PROVE TypeOK'
  OBVIOUS
<1>1. CallsTyped' /\ RowsTyped' /\ BalanceTyped' /\ AdjustmentsTyped'
  BY CallsNext, RowsNext, BalanceNext, AdjustmentsNext
<1> QED
  BY <1>1 DEF TypeOK, CallsTyped, RowsTyped, BalanceTyped, AdjustmentsTyped, Handle, Row, Balance, Places

\* Calls, locks, rows, balances and adjustments stay what they are; no balance
\* goes below zero.
THEOREM TypeCorrect == Spec => []TypeOK
BY InitTyped, NextTyped, PTL DEF Spec
-----------------------------------------------------------------------------
(* What was sent.                                                           *)

\* A data call says that it was reached before anything can raise, and one that
\* did not fail was answered with units.
Reported(c) == handle[c].units # Nothing \/ handle[c].unreported
DataInv(c) ==
  AccountOf[c] \notin AIAccounts =>
    /\ left[c] => handle[c].reached
    /\ pc[c] = "answered" => Reported(c)
    /\ pc[c] = "settling" => handle[c].failed \/ Reported(c)
    /\ left[c] /\ c \in BilledFailures => ledger[c].status # "released"

SentInv(c) ==
  /\ left[c] \/ pc[c] \in Running => Inserted(c)
  /\ pc[c] \in Running => ledger[c].status # "released"
  /\ DataInv(c)

KeysInv ==
  \A c, d \in Calls : c # d /\ KeyOf[c] = KeyOf[d] => ~(Inserted(c) /\ Inserted(d))

CallsInv ==
  /\ TypeOK
  /\ \A c \in Calls : SentInv(c)
  /\ KeysInv

\* What a step leaves in the memory of a call.
Memory(c) == handle'[c] = handle[c] /\ left'[c] = left[c]
CallMoves(c) ==
  \/ Memory(c) /\ pc'[c] = pc[c]
  \/ Memory(c) /\ pc'[c] \notin Running
  \/ Memory(c) /\ Charge(c) /\ pc'[c] = "reserved"
  \/ /\ pc[c] = "reserved" /\ pc'[c] = "sending"
     /\ AccountOf[c] \notin AIAccounts => handle'[c].reached
  \/ /\ pc[c] = "sending" /\ pc'[c] = "answered" /\ left'[c] = left[c]
     /\ AccountOf[c] \notin AIAccounts => handle'[c].reached /\ handle'[c].units # Nothing
  \/ /\ pc[c] \in Running /\ pc'[c] = "settling" /\ left'[c] = left[c]
     /\ handle'[c].reached = handle[c].reached /\ handle'[c].units = handle[c].units
     /\ handle'[c].unreported = handle[c].unreported
     /\ handle'[c].failed \/ pc[c] = "answered"

LEMMA CallsMove ==
  ASSUME TypeOK, [Next]_vars, NEW c \in Calls
  PROVE  CallMoves(c)
<1>t. pc \in [Calls -> Places] /\ handle \in [Calls -> Handle] /\ left \in [Calls -> BOOLEAN]
  BY TypeParts DEF CallsTyped
<1>1. ASSUME NEW d \in Calls, Reserve(d) PROVE CallMoves(c)
  <2>1. /\ handle' = handle /\ left' = left
        /\ pc'[c] = pc[c] \/ pc'[c] \notin Running \/ (Charge(c) /\ pc'[c] = "reserved")
    <3>1. CASE LockAccount(d) \/ CheckKey(d) \/ CapsChecked(d) \/ CountInFlight(d)
      BY <1>t, <3>1 DEF LockAccount, CheckKey, CapsChecked, CountInFlight, Running
    <3>2. CASE RefuseEarly(d) \/ DeadlockAbort(d) \/ RefuseConcurrency(d) \/ RefuseCharge(d)
               \/ \E n \in Controls : RefuseCap(d, n)
      BY <1>t, <3>2 DEF RefuseEarly, DeadlockAbort, RefuseConcurrency, RefuseCharge, RefuseCap, Refuse, Running
    <3>3. CASE \E n \in Controls : LockCap(d, n)
      BY <3>3 DEF LockCap
    <3>4. CASE Charge(d)
      BY <1>t, <3>4 DEF Charge
    <3> QED
      BY <1>1, <3>1, <3>2, <3>3, <3>4 DEF Reserve
  <2> QED
    BY <2>1 DEF CallMoves, Memory
<1>2. ASSUME NEW d \in Calls, CallProvider(d), d # c PROVE CallMoves(c)
  BY <1>2, <1>t DEF CallProvider, Send, Measured, BilledUnreported, ErrorResponse, Answered, Leave, CallMoves, Memory
<1>3. CASE CallProvider(c)
  <2>1. CASE Send(c)
    BY <2>1, <1>t DEF Send, CallMoves, Handle
  <2>2. ASSUME NEW cost \in Costs, Measured(c, cost) PROVE CallMoves(c)
    <3>1. cost # Nothing
      BY AmountsTyped
    <3> QED
      BY <2>2, <3>1, <1>t DEF Measured, Answered, CallMoves, Handle
  <2>3. CASE BilledUnreported(c) \/ ErrorResponse(c)
    BY <2>3, <1>t DEF BilledUnreported, ErrorResponse, Answered, CallMoves
  <2>4. ASSUME NEW failed \in BOOLEAN, Leave(c, failed) PROVE CallMoves(c)
    <3>1. /\ pc[c] \in Running /\ pc'[c] = "settling" /\ left' = left /\ (failed \/ pc[c] = "answered")
          /\ handle'[c] = [handle[c] EXCEPT !.failed = failed]
      BY <2>4, <1>t DEF Leave, Running
    <3> QED
      BY <3>1, <1>t DEF CallMoves, Handle
  <2> QED
    BY <1>3, <2>1, <2>2, <2>3, <2>4 DEF CallProvider
<1>4. ASSUME NEW d \in Calls, Settle(d) \/ Crash(d) PROVE CallMoves(c)
  BY <1>4, <1>t DEF Settle, Crash, CallMoves, Memory, Running
<1>5. CASE UNCHANGED <<pc, handle, left>>
  BY <1>5 DEF CallMoves, Memory
<1> QED
  BY <1>1, <1>2, <1>3, <1>4, <1>5 DEF Next, Age, Expire, Operator, Reconcile, AdjustCredits, vars

\* A row that reserve() inserted is never gone again.
LEMMA InsertedStays ==
  ASSUME TypeOK, NEW c \in Calls, RowMoves(c)
  PROVE  /\ Inserted(c) => ledger'[c].status # "none"
         /\ ledger'[c].status # "none" => Inserted(c) \/ Charge(c)
         /\ Charge(c) => ~Inserted(c) /\ pc[c] = "charging"
<1>1. Outcome(c).status # "none"
  BY OutcomeTyped, TypeParts
<1>2. Charge(c) => ~Inserted(c) /\ pc[c] = "charging"
  BY DEF Charge, KeyTaken
<1> QED
  BY <1>1, <1>2 DEF RowMoves, Inserted, NoRow, Unsettled

LEMMA NextCallsInv == CallsInv /\ [Next]_vars => CallsInv'
<1> SUFFICES ASSUME CallsInv, [Next]_vars PROVE CallsInv'
  OBVIOUS
<1>t. TypeOK /\ TypeOK' /\ \A c \in Calls : RowMoves(c) /\ CallMoves(c)
  BY NextTyped, RowsNext, CallsMove DEF CallsInv
<1>i. \A c \in Calls : /\ Inserted(c) => Inserted(c)'
                       /\ Inserted(c)' => Inserted(c) \/ Charge(c)
                       /\ Charge(c) => ~Inserted(c) /\ pc[c] = "charging"
  BY <1>t, InsertedStays DEF Inserted
<1>1. ASSUME NEW c \in Calls PROVE SentInv(c)'
  <2>a. SentInv(c) /\ RowMoves(c) /\ CallMoves(c)
    BY <1>t DEF CallsInv
  <2>b. pc[c] = "charging" => pc[c] \notin Running
    BY DEF Running
  <2>1. left'[c] \/ pc'[c] \in Running => Inserted(c)'
    <3>1. CASE Charge(c)
      <4>1. ledger'[c].status = "reserved"
        BY <3>1, <1>t, TypeParts DEF Charge, RowsTyped, NoRow
      <4> QED
        BY <4>1 DEF Inserted
    <3>2. CASE ~Charge(c)
      BY <2>a, <3>2, <1>i DEF SentInv, CallMoves, Memory, Running
    <3> QED
      BY <3>1, <3>2
  <2>2. pc'[c] \in Running => ledger'[c].status # "released"
    <3>1. CASE Settle(c)
      BY <3>1, <1>t, TypeParts DEF Settle, CallsTyped, Running
    <3>2. CASE Charge(c)
      BY <3>2, <1>t, TypeParts DEF Charge, RowsTyped, NoRow
    <3>3. CASE ~Settle(c) /\ ~Charge(c)
      <4>1. pc'[c] \in Running => pc[c] \in Running
        BY <2>a, <3>3 DEF CallMoves, Memory, Running
      <4>2. ledger'[c].status = "released" => ledger[c].status = "released"
        BY <2>a, <3>3 DEF RowMoves
      <4> QED
        BY <2>a, <4>1, <4>2 DEF SentInv
    <3> QED
      BY <3>1, <3>2, <3>3
  <2>3. ASSUME AccountOf[c] \notin AIAccounts
        PROVE  /\ left'[c] => handle'[c].reached
               /\ pc'[c] = "answered" => handle'[c].units # Nothing \/ handle'[c].unreported
               /\ pc'[c] = "settling" =>
                    handle'[c].failed \/ handle'[c].units # Nothing \/ handle'[c].unreported
    BY <2>a, <2>3 DEF SentInv, DataInv, Reported, CallMoves, Memory, Running
  <2>4. ASSUME AccountOf[c] \notin AIAccounts, left'[c], c \in BilledFailures
        PROVE  ledger'[c].status # "released"
    <3>1. CASE Settle(c)
      <4>1. left[c] /\ pc[c] = "settling"
        BY <3>1, <2>4 DEF Settle
      <4>2. handle[c].reached /\ (handle[c].failed \/ Reported(c)) /\ ledger[c].status # "released"
        BY <2>a, <2>4, <4>1 DEF SentInv, DataInv
      <4>3. Outcome(c).status # "released"
        BY <4>2, <2>4 DEF Outcome, Reported
      <4> QED
        BY <2>a, <4>2, <4>3 DEF RowMoves, NoRow
    <3>2. CASE ~Settle(c)
      <4>1. ledger'[c].status = "released" => ledger[c].status = "released"
        BY <2>a, <3>2 DEF RowMoves, NoRow
      <4>2. left[c] \/ pc[c] \in Running
        BY <2>a, <2>4 DEF CallMoves, Memory, Running
      <4> QED
        BY <2>a, <2>4, <4>1, <4>2 DEF SentInv, DataInv
    <3> QED
      BY <3>1, <3>2
  <2> QED
    BY <2>1, <2>2, <2>3, <2>4 DEF SentInv, DataInv, Reported
<1>2. KeysInv'
  <2> SUFFICES ASSUME NEW c \in Calls, NEW d \in Calls, c # d, KeyOf[c] = KeyOf[d], Inserted(c)', Inserted(d)'
               PROVE  FALSE
    BY DEF KeysInv
  <2>1. ~(Inserted(c) /\ Inserted(d))
    BY DEF CallsInv, KeysInv
  <2>2. CASE Charge(c)
    <3>1. ~Inserted(d) /\ ledger'[d] = ledger[d]
      BY <2>2, <1>t, TypeParts DEF Charge, KeyTaken, RowsTyped
    <3> QED
      BY <3>1 DEF Inserted
  <2>3. CASE Charge(d)
    <3>1. ~Inserted(c) /\ ledger'[c] = ledger[c]
      BY <2>3, <1>t, TypeParts DEF Charge, KeyTaken, RowsTyped
    <3> QED
      BY <3>1 DEF Inserted
  <2> QED
    BY <2>1, <2>2, <2>3, <1>i
<1> QED
  BY <1>t, <1>1, <1>2 DEF CallsInv

LEMMA InitCallsInv == Init => CallsInv
<1> SUFFICES ASSUME Init PROVE CallsInv
  OBVIOUS
<1>1. \A c \in Calls : ~Inserted(c) /\ ~left[c] /\ pc[c] = "start"
  BY DEF Init, Inserted, NoRow
<1> QED
  BY <1>1, InitTyped DEF CallsInv, SentInv, DataInv, KeysInv, Running

\* However often a request is retried and whatever became of its first use, its
\* idempotency key reaches a provider at most once.
THEOREM KeyReachesOnce == Spec => []KeySentOnce
<1>1. CallsInv => KeySentOnce
  BY DEF CallsInv, SentInv, KeysInv, KeySentOnce
<1> QED
  BY <1>1, InitCallsInv, NextCallsInv, PTL DEF Spec

\* A data request that was sent to a provider that bills failures is never given
\* back, whatever raises or dies after it.
THEOREM SentStaysCharged == Spec => []SentIsCharged
<1>1. CallsInv => SentIsCharged
  <2> SUFFICES ASSUME CallsInv, NEW c \in BilledFailures, left[c], AccountOf[c] \notin AIAccounts
               PROVE  ledger[c].status # "released"
    BY DEF SentIsCharged
  <2>1. c \in Calls
    BY CallsAssumption
  <2> QED
    BY <2>1 DEF CallsInv, SentInv, DataInv
<1> QED
  BY <1>1, InitCallsInv, NextCallsInv, PTL DEF Spec

-----------------------------------------------------------------------------
(* The concurrency limit.                                                   *)

\* Who reserves holds the account's lock, and has counted before it charges.
LockInv ==
  /\ \A c \in Calls : pc[c] \in Reserving => accountLock[AccountOf[c]] = c
  /\ \A c \in Calls : pc[c] = "charging" /\ AccountOf[c] \in AIAccounts
                        => Cardinality(InFlight(AccountOf[c])) < MaxConcurrency

CountInv == TypeOK /\ LockInv /\ InFlightBound

LEMMA InFlightFinite ==
  \A a : IsFiniteSet(InFlight(a)) /\ Cardinality(InFlight(a)) \in Nat
BY CallsAssumption, FS_Subset, FS_CardinalityType DEF InFlight

\* Only the insertion of a row of the account adds to its open reservations.
LEMMA InFlightMoves ==
  ASSUME TypeOK, [Next]_vars, NEW a
  PROVE  /\ \/ Cardinality(InFlight(a)') <= Cardinality(InFlight(a))
            \/ \E c \in Calls : /\ Charge(c) /\ AccountOf[c] = a
                                /\ Cardinality(InFlight(a)') <= Cardinality(InFlight(a)) + 1
         /\ Cardinality(InFlight(a)') \in Nat
<1>m. \A c \in Calls : RowMoves(c)
  BY RowsNext
<1>f. IsFiniteSet(InFlight(a)) /\ Cardinality(InFlight(a)) \in Nat
  BY InFlightFinite
<1>g. IsFiniteSet(InFlight(a)') /\ Cardinality(InFlight(a)') \in Nat
  BY CallsAssumption, FS_Subset, FS_CardinalityType DEF InFlight
<1>o. \A c \in Calls : Outcome(c).status # "reserved"
  BY OutcomeTyped, TypeParts
<1>1. ASSUME NEW c \in Calls, c \in InFlight(a)', c \notin InFlight(a) PROVE Charge(c) /\ AccountOf[c] = a
  BY <1>1, <1>m, <1>o DEF InFlight, RowMoves
<1>2. CASE InFlight(a)' \subseteq InFlight(a)
  BY <1>2, <1>f, <1>g, FS_Subset
<1>3. ASSUME NEW c \in Calls, c \in InFlight(a)', c \notin InFlight(a)
      PROVE  \E d \in Calls : /\ Charge(d) /\ AccountOf[d] = a
                              /\ Cardinality(InFlight(a)') <= Cardinality(InFlight(a)) + 1
  <2>1. Charge(c) /\ AccountOf[c] = a
    BY <1>1, <1>3
  <2>2. \A d \in Calls : d # c => ledger'[d] = ledger[d]
    BY <2>1, TypeParts DEF Charge, RowsTyped
  <2>3. InFlight(a)' \subseteq InFlight(a) \cup {c}
    BY <2>2 DEF InFlight
  <2>4. IsFiniteSet(InFlight(a) \cup {c}) /\ Cardinality(InFlight(a) \cup {c}) = Cardinality(InFlight(a)) + 1
    BY <1>3, <1>f, FS_AddElement
  <2>5. Cardinality(InFlight(a)') <= Cardinality(InFlight(a) \cup {c})
    BY <2>3, <2>4, FS_Subset
  <2> QED
    BY <2>1, <2>4, <2>5
<1>4. InFlight(a)' \subseteq Calls
  BY DEF InFlight
<1> QED
  BY <1>2, <1>3, <1>4, <1>g

LEMMA NextLockInv ==
  ASSUME CountInv, [Next]_vars
  PROVE  \A c \in Calls : pc'[c] \in Reserving => accountLock'[AccountOf[c]] = c
<1> SUFFICES ASSUME NEW c \in Calls, pc'[c] \in Reserving PROVE accountLock'[AccountOf[c]] = c
  OBVIOUS
<1>t. /\ pc \in [Calls -> Places] /\ accountLock \in [Accounts -> Calls \cup {NoCall}]
      /\ \A d \in Calls : AccountOf[d] \in Accounts /\ d # NoCall
  BY CallsFit, TypeParts DEF CountInv, CallsTyped
<1>i. \A d \in Calls : pc[d] \in Reserving => accountLock[AccountOf[d]] = d
  BY DEF CountInv, LockInv
<1>r. ASSUME NEW d \in Calls, ReleaseLocks(d), NEW at, at \notin Reserving, pc' = [pc EXCEPT ![d] = at]
      PROVE  accountLock'[AccountOf[c]] = c
  BY <1>r, <1>t, <1>i DEF ReleaseLocks
<1>1. ASSUME NEW d \in Calls, LockAccount(d) PROVE accountLock'[AccountOf[c]] = c
  <2>1. CASE c = d
    BY <1>1, <1>t, <2>1 DEF LockAccount
  <2>2. CASE c # d
    <3>1. pc[c] \in Reserving
      BY <1>1, <1>t, <2>2 DEF LockAccount
    <3>2. AccountOf[c] # AccountOf[d]
      BY <1>1, <1>t, <1>i, <3>1 DEF LockAccount
    <3> QED
      BY <1>1, <1>t, <1>i, <3>1, <3>2 DEF LockAccount
  <2> QED
    BY <2>1, <2>2
<1>2. ASSUME NEW d \in Calls, RefuseEarly(d) \/ DeadlockAbort(d) \/ RefuseConcurrency(d) \/ RefuseCharge(d)
               \/ Charge(d) \/ Crash(d) \/ \E n \in Controls : RefuseCap(d, n)
      PROVE  accountLock'[AccountOf[c]] = c
  <2>1. ReleaseLocks(d) /\ \E at : at \notin Reserving /\ pc' = [pc EXCEPT ![d] = at]
    BY <1>2 DEF RefuseEarly, DeadlockAbort, RefuseConcurrency, RefuseCharge, Charge, Crash, RefuseCap, Refuse, Reserving
  <2> QED
    BY <2>1, <1>r
<1>3. ASSUME accountLock' = accountLock, pc[c] \in Reserving PROVE accountLock'[AccountOf[c]] = c
  BY <1>3, <1>i
<1>4. ASSUME NEW d \in Calls, CheckKey(d) \/ CapsChecked(d) \/ CountInFlight(d)
               \/ \E n \in Controls : LockCap(d, n)
      PROVE  accountLock' = accountLock /\ pc[c] \in Reserving
  BY <1>4, <1>t DEF CheckKey, CapsChecked, CountInFlight, LockCap, Reserving
<1>5. ASSUME NEW d \in Calls, CallProvider(d) \/ Settle(d) PROVE accountLock' = accountLock /\ pc[c] \in Reserving
  BY <1>5, <1>t DEF CallProvider, Send, Measured, BilledUnreported, ErrorResponse, Answered, Leave, Settle, Reserving
<1>6. ASSUME UNCHANGED <<pc, accountLock>> PROVE accountLock' = accountLock /\ pc[c] \in Reserving
  BY <1>6
<1>7. ASSUME NEW d \in Calls, Reserve(d) PROVE accountLock'[AccountOf[c]] = c
  BY <1>7, <1>1, <1>2, <1>3, <1>4 DEF Reserve
<1>8. ASSUME NEW d \in Calls, CallProvider(d) \/ Settle(d) \/ Crash(d) PROVE accountLock'[AccountOf[c]] = c
  BY <1>8, <1>2, <1>3, <1>5
<1> QED
  BY <1>3, <1>6, <1>7, <1>8 DEF Next, Age, Expire, Operator, Reconcile, AdjustCredits, vars

\* Which steps bring a call to its insertion.
LEMMA ToCharging ==
  ASSUME TypeOK, [Next]_vars, NEW c \in Calls, pc'[c] = "charging", AccountOf[c] \in AIAccounts
  PROVE  pc[c] = "charging" \/ (CountInFlight(c) /\ pc[c] = "counting")
<1>t. pc \in [Calls -> Places]
  BY TypeParts DEF CallsTyped
<1>1. ASSUME NEW d \in Calls, Reserve(d) PROVE pc[c] = "charging" \/ (CountInFlight(c) /\ pc[c] = "counting")
  <2>1. CASE CountInFlight(d)
    BY <1>t, <2>1 DEF CountInFlight
  <2>2. CASE CapsChecked(d)
    BY <1>t, <2>2 DEF CapsChecked
  <2>3. CASE LockAccount(d) \/ CheckKey(d) \/ Charge(d) \/ \E n \in Controls : LockCap(d, n)
    BY <1>t, <2>3 DEF LockAccount, CheckKey, Charge, LockCap
  <2>4. CASE RefuseEarly(d) \/ DeadlockAbort(d) \/ RefuseConcurrency(d) \/ RefuseCharge(d)
             \/ \E n \in Controls : RefuseCap(d, n)
    BY <1>t, <2>4 DEF RefuseEarly, DeadlockAbort, RefuseConcurrency, RefuseCharge, RefuseCap, Refuse
  <2> QED
    BY <1>1, <2>1, <2>2, <2>3, <2>4 DEF Reserve
<1>2. ASSUME NEW d \in Calls, CallProvider(d) \/ Settle(d) \/ Crash(d) PROVE pc[c] = "charging"
  BY <1>2, <1>t DEF CallProvider, Send, Measured, BilledUnreported, ErrorResponse, Answered, Leave, Settle, Crash
<1>3. CASE pc' = pc
  BY <1>3
<1> QED
  BY <1>1, <1>2, <1>3 DEF Next, Age, Expire, Operator, Reconcile, AdjustCredits, vars

LEMMA NextCountInv == CountInv /\ [Next]_vars => CountInv'
<1> SUFFICES ASSUME CountInv, [Next]_vars PROVE CountInv'
  OBVIOUS
<1>t. TypeOK /\ TypeOK'
  BY NextTyped DEF CountInv
<1>l. \A c \in Calls : pc'[c] \in Reserving => accountLock'[AccountOf[c]] = c
  BY NextLockInv
<1>m. MaxConcurrency \in Nat
  BY AmountsAssumption
<1>1. ASSUME NEW c \in Calls, pc'[c] = "charging", AccountOf[c] \in AIAccounts
      PROVE  Cardinality(InFlight(AccountOf[c])') < MaxConcurrency
  <2>1. pc[c] = "charging" \/ (CountInFlight(c) /\ pc[c] = "counting")
    BY <1>1, <1>t, ToCharging
  <2>2. Cardinality(InFlight(AccountOf[c])) < MaxConcurrency
    BY <1>1, <2>1 DEF CountInv, LockInv, CountInFlight
  <2>3. ASSUME NEW d \in Calls, Charge(d), AccountOf[d] = AccountOf[c] PROVE FALSE
    <3>1. pc[d] = "charging" /\ pc[c] \in Reserving /\ pc[d] \in Reserving
      BY <2>1, <2>3 DEF Charge, Reserving
    <3>2. d = c
      BY <2>3, <3>1 DEF CountInv, LockInv
    <3>3. pc'[c] = "reserved"
      BY <2>3, <3>2, <1>t, TypeParts DEF Charge, CallsTyped
    <3> QED
      BY <1>1, <3>3
  <2>4. Cardinality(InFlight(AccountOf[c])') <= Cardinality(InFlight(AccountOf[c]))
        /\ Cardinality(InFlight(AccountOf[c])') \in Nat
    BY <2>3, <1>t, InFlightMoves
  <2>5. Cardinality(InFlight(AccountOf[c])) \in Nat
    BY InFlightFinite
  <2> QED
    BY <2>2, <2>4, <2>5, <1>m
<1>2. ASSUME NEW a \in AIAccounts PROVE Cardinality(InFlight(a)') <= MaxConcurrency
  <2>1. Cardinality(InFlight(a)) <= MaxConcurrency /\ Cardinality(InFlight(a)) \in Nat
    BY InFlightFinite DEF CountInv, InFlightBound
  <2>2. ASSUME NEW c \in Calls, Charge(c), AccountOf[c] = a PROVE Cardinality(InFlight(a)) < MaxConcurrency
    BY <2>2 DEF CountInv, LockInv, Charge
  <2> QED
    BY <2>1, <2>2, <1>t, <1>m, InFlightMoves
<1>3. LockInv'
  BY <1>l, <1>1 DEF LockInv, InFlight
<1>4. InFlightBound'
  BY <1>2 DEF InFlightBound, InFlight
<1> QED
  BY <1>t, <1>3, <1>4 DEF CountInv

LEMMA InitCountInv == Init => CountInv
<1> SUFFICES ASSUME Init PROVE CountInv
  OBVIOUS
<1>1. ASSUME NEW a PROVE InFlight(a) = {}
  BY DEF Init, InFlight, NoRow
<1>2. Cardinality({}) = 0
  BY FS_EmptySet
<1>3. LockInv
  BY DEF Init, LockInv, Reserving
<1> QED
  BY <1>1, <1>2, <1>3, InitTyped, AmountsAssumption DEF CountInv, InFlightBound

\* Reservations of one company, however they interleave, never open more calls to
\* its AI providers than the policy allows at once.
THEOREM InFlightBounded == Spec => []InFlightBound
<1>1. CountInv => InFlightBound
  BY DEF CountInv
<1> QED
  BY <1>1, InitCountInv, NextCountInv, PTL DEF Spec

-----------------------------------------------------------------------------
(* Sums over a finite set, by induction over its subsets.                   *)

LEMMA NatWellFounded == IsWellFoundedOn(OpToRel(<, Nat), Nat)
BY NatLessThanWellFounded

\* Induction over the numbers, for a set of numbers.
LEMMA NumbersInduction ==
  ASSUME NEW B, 0 \in B, \A n \in Nat : n \in B => n + 1 \in B
  PROVE  Nat \subseteq B
<1> SUFFICES ASSUME Nat \ B # {} PROVE FALSE
  OBVIOUS
<1>1. PICK n \in Nat \ B : \A m \in Nat \ B : <<m, n>> \notin OpToRel(<, Nat)
  BY NatWellFounded, WFMin
<1>2. \A m \in Nat \ B : ~(m < n)
  BY <1>1 DEF OpToRel
<1>3. n # 0
  OBVIOUS
<1>4. n - 1 \in Nat /\ n - 1 < n
  BY <1>3
<1>5. n - 1 \in B
  BY <1>2, <1>4
<1> QED
  BY <1>4, <1>5

\* Induction over a finite set, for a set of its subsets.
LEMMA SubsetsInduction ==
  ASSUME NEW S, IsFiniteSet(S), NEW P,
         \A T \in SUBSET S : (\A x \in T : T \ {x} \in P) => T \in P
  PROVE  S \in P
<1> DEFINE B == {n \in Nat : \A T \in SUBSET S : Cardinality(T) = n => T \in P}
<1>0. \A T \in SUBSET S : IsFiniteSet(T) /\ Cardinality(T) \in Nat
  BY FS_Subset, FS_CardinalityType
<1>1. 0 \in B
  <2>1. ASSUME NEW T \in SUBSET S, Cardinality(T) = 0 PROVE T \in P
    <3>1. T = {}
      BY <1>0, <2>1, FS_EmptySet
    <3> QED
      BY <3>1
  <2> QED
    BY <2>1
<1>2. ASSUME NEW n \in Nat, n \in B PROVE n + 1 \in B
  <2>1. ASSUME NEW T \in SUBSET S, Cardinality(T) = n + 1 PROVE T \in P
    <3>1. ASSUME NEW x \in T PROVE T \ {x} \in P
      <4>1. Cardinality(T \ {x}) = IF x \in T THEN Cardinality(T) - 1 ELSE Cardinality(T)
        BY <1>0, FS_RemoveElement
      <4>2. Cardinality(T \ {x}) = n
        BY <2>1, <4>1
      <4> QED
        BY <1>2, <4>2
    <3> QED
      BY <3>1
  <2> QED
    BY <2>1
<1> HIDE DEF B
<1>3. Cardinality(S) \in B
  BY <1>0, <1>1, <1>2, NumbersInduction
<1> QED
  BY <1>3 DEF B

\* What the fold of the community modules computes: its recursive function.
Unfolded(f, s, g) ==
  IF s = {} THEN 0 ELSE f[CHOOSE x \in s : TRUE] + g[s \ {CHOOSE x \in s : TRUE}]
Unfolds(f, S, g) == \A s \in SUBSET S : g[s] = Unfolded(f, s, g)
Partial(f, S) == CHOOSE g : g = [s \in SUBSET S |-> Unfolded(f, s, g)]

LEMMA SumIsFold == \A f, S : SumFunctionOnSet(f, S) = Partial(f, S)[S]
BY DEF SumFunctionOnSet, FoldFunctionOnSet, MapThenFoldSet, Partial, Unfolded

LEMMA SmallerCounts ==
  ASSUME NEW S, IsFiniteSet(S), NEW s \in SUBSET S
  PROVE  /\ IsFiniteSet(s) /\ Cardinality(s) \in Nat
         /\ \A x \in s : Cardinality(s \ {x}) = Cardinality(s) - 1
<1>1. IsFiniteSet(s)
  BY FS_Subset
<1>2. \A x \in s : Cardinality(s \ {x}) = IF x \in s THEN Cardinality(s) - 1 ELSE Cardinality(s)
  BY <1>1, FS_RemoveElement
<1> QED
  BY <1>1, <1>2, FS_CardinalityType

\* On a finite set there is such a function, so CHOOSE takes one.
LEMMA FoldExists ==
  ASSUME NEW f, NEW S, IsFiniteSet(S)
  PROVE  Unfolds(f, S, Partial(f, S))
<1> DEFINE UpTo(n, g) == \A s \in SUBSET S : Cardinality(s) <= n => g[s] = Unfolded(f, s, g)
           Extended(g) == [s \in SUBSET S |-> Unfolded(f, s, g)]
           B == {n \in Nat : \E g : UpTo(n, g)}
<1>0. ASSUME NEW s \in SUBSET S, s # {}
      PROVE  (CHOOSE x \in s : TRUE) \in s /\ s \ {CHOOSE x \in s : TRUE} \in SUBSET S
  BY <1>0
<1>1. 0 \in B
  <2> DEFINE g == [s \in SUBSET S |-> 0]
  <2>1. ASSUME NEW s \in SUBSET S, Cardinality(s) <= 0 PROVE s = {}
    BY <2>1, SmallerCounts, FS_EmptySet
  <2>2. UpTo(0, g)
    BY <2>1 DEF Unfolded
  <2> QED
    BY <2>2
<1>2. ASSUME NEW n \in Nat, n \in B PROVE n + 1 \in B
  <2>1. PICK g : UpTo(n, g)
    BY <1>2
  <2> DEFINE h == Extended(g)
  <2>2. ASSUME NEW s \in SUBSET S, Cardinality(s) <= n + 1 PROVE h[s] = Unfolded(f, s, h)
    <3>1. CASE s = {}
      BY <3>1 DEF Unfolded
    <3>2. CASE s # {}
      <4> DEFINE x == CHOOSE x \in s : TRUE
      <4>1. x \in s /\ s \ {x} \in SUBSET S
        BY <1>0, <3>2
      <4>2. Cardinality(s) \in Nat /\ Cardinality(s \ {x}) = Cardinality(s) - 1
        BY <4>1, SmallerCounts
      <4>3. Cardinality(s \ {x}) <= n
        BY <2>2, <4>2
      <4>4. g[s \ {x}] = h[s \ {x}]
        BY <2>1, <4>1, <4>3
      <4>5. h[s] = f[x] + g[s \ {x}]
        BY <3>2 DEF Unfolded
      <4> QED
        BY <3>2, <4>4, <4>5 DEF Unfolded
    <3> QED
      BY <3>1, <3>2
  <2>3. UpTo(n + 1, h)
    BY <2>2
  <2> HIDE DEF h, UpTo, Extended
  <2> QED
    BY <2>3
<1> HIDE DEF B
<1>3. Cardinality(S) \in B
  BY <1>1, <1>2, NumbersInduction, FS_CardinalityType
<1>4. PICK g : UpTo(Cardinality(S), g)
  BY <1>3 DEF B
<1> DEFINE h == Extended(g)
<1>5. \A s \in SUBSET S : g[s] = h[s]
  <2>1. \A s \in SUBSET S : Cardinality(s) <= Cardinality(S)
    BY FS_Subset
  <2> QED
    BY <1>4, <2>1
<1>6. \A s \in SUBSET S : Unfolded(f, s, g) = Unfolded(f, s, h)
  BY <1>0, <1>5 DEF Unfolded
<1>7. h = Extended(h)
  BY <1>6
<1>8. Partial(f, S) = Extended(Partial(f, S))
  BY <1>7 DEF Partial
<1> QED
  BY <1>8 DEF Unfolds

\* The function has one value at a set, however it is reached.
LEMMA FoldUnique ==
  ASSUME NEW S, IsFiniteSet(S), NEW f, NEW e, NEW g, NEW h,
         Unfolds(f, S, g), Unfolds(e, S, h), \A x \in S : f[x] = e[x]
  PROVE  g[S] = h[S]
<1> DEFINE P == {s \in SUBSET S : g[s] = h[s]}
<1>1. ASSUME NEW s \in SUBSET S, \A x \in s : s \ {x} \in P PROVE s \in P
  <2>1. CASE s = {}
    BY <2>1 DEF Unfolds, Unfolded
  <2>2. CASE s # {}
    <3> DEFINE c == CHOOSE x \in s : TRUE
    <3>1. c \in s
      BY <2>2
    <3>2. g[s \ {c}] = h[s \ {c}]
      BY <1>1, <3>1
    <3>3. g[s] = f[c] + g[s \ {c}] /\ h[s] = e[c] + h[s \ {c}]
      BY <2>2 DEF Unfolds, Unfolded
    <3> HIDE DEF c
    <3> QED
      BY <3>1, <3>2, <3>3
  <2> QED
    BY <2>1, <2>2
<1> HIDE DEF P
<1>2. S \in P
  BY <1>1, SubsetsInduction
<1> QED
  BY <1>2 DEF P

\* Any element may be the one that is taken out first.
LEMMA FoldRemoves ==
  ASSUME NEW S, IsFiniteSet(S), NEW f, NEW g, Unfolds(f, S, g), \A x \in S : f[x] \in Int
  PROVE  g[S] \in Int /\ \A x \in S : g[S] = f[x] + g[S \ {x}] /\ g[S \ {x}] \in Int
<1> DEFINE P == {s \in SUBSET S : g[s] \in Int /\ \A x \in s : g[s] = f[x] + g[s \ {x}] /\ g[s \ {x}] \in Int}
<1>0. ASSUME NEW s \in P
      PROVE  /\ s \in SUBSET S /\ g[s] \in Int
             /\ \A x \in s : g[s] = f[x] + g[s \ {x}] /\ g[s \ {x}] \in Int
  OBVIOUS
<1>1. ASSUME NEW s \in SUBSET S, \A x \in s : s \ {x} \in P PROVE s \in P
  <2>1. CASE s = {}
    <3>1. g[s] = 0
      BY <2>1 DEF Unfolds, Unfolded
    <3> QED
      BY <2>1, <3>1
  <2>2. CASE s # {}
    <3> DEFINE c == CHOOSE x \in s : TRUE
    <3>1. c \in s
      BY <2>2
    <3>2. g[s] = f[c] + g[s \ {c}]
      BY <2>2 DEF Unfolds, Unfolded
    <3> HIDE DEF c, P
    <3>3. \A x \in s : g[s \ {x}] \in Int /\ f[x] \in Int
      BY <1>0, <1>1
    <3>4. ASSUME NEW x \in s, x # c PROVE g[s] = f[x] + g[s \ {x}]
      <4> DEFINE t == (s \ {c}) \ {x}
      <4>1. x \in s \ {c} /\ c \in s \ {x} /\ t = (s \ {x}) \ {c}
        BY <3>1, <3>4
      <4>2. g[s \ {c}] = f[x] + g[t] /\ g[t] \in Int
        BY <1>0, <1>1, <3>1, <4>1
      <4>3. g[s \ {x}] = f[c] + g[(s \ {x}) \ {c}]
        BY <1>0, <1>1, <4>1
      <4>4. g[s \ {x}] = f[c] + g[t]
        BY <4>1, <4>3
      <4>5. f[x] \in Int /\ f[c] \in Int
        BY <3>1, <3>3
      <4> HIDE DEF t
      <4> QED
        BY <3>2, <4>2, <4>4, <4>5
    <3>5. g[s] \in Int
      <4>1. f[c] \in Int /\ g[s \ {c}] \in Int
        BY <3>1, <3>3
      <4> QED
        BY <3>2, <4>1
    <3>6. \A x \in s : g[s] = f[x] + g[s \ {x}]
      BY <3>2, <3>4
    <3> QED
      BY <3>3, <3>5, <3>6 DEF P
  <2> QED
    BY <2>1, <2>2
<1> HIDE DEF P
<1>2. S \in P
  BY <1>1, SubsetsInduction
<1> QED
  BY <1>2 DEF P

(* What the sums of the model are, by what is known of their functions.     *)

LEMMA SumOfNone == \A f : SumFunctionOnSet(f, {}) = 0
<1> TAKE f
<1>1. IsFiniteSet({}) /\ {} \in SUBSET {}
  BY FS_EmptySet
<1>2. Unfolds(f, {}, Partial(f, {}))
  BY <1>1, FoldExists
<1>3. Partial(f, {})[{}] = 0
  BY <1>1, <1>2 DEF Unfolds, Unfolded
<1> QED
  BY <1>3, SumIsFold

LEMMA SumOfSame ==
  ASSUME NEW S, IsFiniteSet(S), NEW f, NEW e, \A x \in S : f[x] = e[x]
  PROVE  SumFunctionOnSet(f, S) = SumFunctionOnSet(e, S)
<1>1. Unfolds(f, S, Partial(f, S)) /\ Unfolds(e, S, Partial(e, S))
  BY FoldExists
<1>2. Partial(f, S)[S] = Partial(e, S)[S]
  BY <1>1, FoldUnique
<1> QED
  BY <1>2, SumIsFold

LEMMA SumOfOneMore ==
  ASSUME NEW S, IsFiniteSet(S), NEW f, \A x \in S : f[x] \in Int
  PROVE  /\ SumFunctionOnSet(f, S) \in Int
         /\ \A x \in S : SumFunctionOnSet(f, S) = f[x] + SumFunctionOnSet(f, S \ {x})
<1> DEFINE g == Partial(f, S)
<1>1. Unfolds(f, S, g)
  BY FoldExists
<1> HIDE DEF g
<1>2. g[S] \in Int /\ \A x \in S : g[S] = f[x] + g[S \ {x}]
  BY <1>1, FoldRemoves
<1>3. ASSUME NEW x \in S PROVE g[S \ {x}] = SumFunctionOnSet(f, S \ {x})
  <2> DEFINE T == S \ {x}
             h == Partial(f, T)
  <2>1. IsFiniteSet(T) /\ T \in SUBSET S
    BY FS_Subset
  <2>2. Unfolds(f, T, g)
    BY <1>1, <2>1 DEF Unfolds
  <2>3. Unfolds(f, T, h)
    BY <2>1, FoldExists
  <2>4. h[T] = SumFunctionOnSet(f, T)
    BY SumIsFold
  <2> HIDE DEF T, h
  <2>5. g[T] = h[T]
    BY <2>1, <2>2, <2>3, FoldUnique
  <2>6. g[T] = SumFunctionOnSet(f, T)
    BY <2>4, <2>5
  <2> QED
    BY <2>6 DEF T
<1>4. g[S] = SumFunctionOnSet(f, S)
  BY SumIsFold DEF g
<1> QED
  BY <1>2, <1>3, <1>4

\* A sum of amounts grows by k for each place where they grow by k.
LEMMA SumOfRaised ==
  ASSUME NEW S, IsFiniteSet(S), NEW f, NEW e, NEW D \in SUBSET S, NEW k \in Int,
         \A x \in S : f[x] \in Int /\ e[x] = IF x \in D THEN f[x] + k ELSE f[x]
  PROVE  SumFunctionOnSet(e, S) = SumFunctionOnSet(f, S) + Cardinality(D) * k
<1> DEFINE Grown(T) == SumFunctionOnSet(e, T) = SumFunctionOnSet(f, T) + Cardinality(D \cap T) * k
           P == {T \in SUBSET S : Grown(T)}
<1>1. ASSUME NEW T \in SUBSET S, \A x \in T : T \ {x} \in P PROVE T \in P
  <2>0. IsFiniteSet(T) /\ IsFiniteSet(D \cap T) /\ Cardinality(D \cap T) \in Nat
    <3>1. IsFiniteSet(T)
      BY FS_Subset
    <3>2. IsFiniteSet(D \cap T)
      BY <3>1, FS_Subset
    <3> QED
      BY <3>1, <3>2, FS_CardinalityType
  <2>1. CASE T = {}
    <3>1. SumFunctionOnSet(e, T) = 0 /\ SumFunctionOnSet(f, T) = 0
      BY <2>1, SumOfNone
    <3>2. D \cap T = {}
      BY <2>1
    <3>3. Cardinality(D \cap T) = 0
      BY <3>2, FS_EmptySet
    <3>4. 0 * k = 0
      OBVIOUS
    <3> QED
      BY <3>1, <3>3, <3>4
  <2>2. ASSUME NEW x \in T PROVE Grown(T)
    <3> DEFINE U == T \ {x}
               old == SumFunctionOnSet(f, U)
               new == SumFunctionOnSet(e, U)
               n == Cardinality(D \cap U)
    <3>0. IsFiniteSet(U) /\ IsFiniteSet(D \cap U) /\ n \in Nat
      <4>1. IsFiniteSet(U) /\ IsFiniteSet(D \cap U)
        BY <2>0, FS_Subset
      <4> QED
        BY <4>1, FS_CardinalityType
    <3>1. new = old + n * k
      BY <1>1
    <3>2. \A y \in T : f[y] \in Int /\ e[y] \in Int
      OBVIOUS
    <3>3. SumFunctionOnSet(f, T) = f[x] + old /\ SumFunctionOnSet(e, T) = e[x] + new
      BY <2>0, <3>2, SumOfOneMore
    <3>4. old \in Int /\ new \in Int
      BY <3>0, <3>2, SumOfOneMore
    <3>5. f[x] \in Int /\ e[x] = IF x \in D THEN f[x] + k ELSE f[x]
      OBVIOUS
    <3>6. Cardinality(D \cap T) = IF x \in D THEN n + 1 ELSE n
      <4>1. CASE x \notin D
        <5>1. D \cap T = D \cap U
          BY <4>1
        <5> QED
          BY <4>1, <5>1
      <4>2. CASE x \in D
        <5>1. D \cap T = (D \cap U) \cup {x} /\ x \notin D \cap U
          BY <4>2
        <5>2. Cardinality((D \cap U) \cup {x}) = Cardinality(D \cap U) + 1
          BY <3>0, <5>1, FS_AddElement
        <5> QED
          BY <4>2, <5>1, <5>2
      <4> QED
        BY <4>1, <4>2
    <3>7. n * k \in Int /\ (n + 1) * k = n * k + k
      BY <3>0
    <3> HIDE DEF old, new, n, U
    <3> QED
      BY <3>1, <3>3, <3>4, <3>5, <3>6, <3>7
  <2> QED
    BY <2>1, <2>2
<1> HIDE DEF P
<1>2. S \in P
  BY <1>1, SubsetsInduction
<1>3. D \cap S = D
  OBVIOUS
<1> QED
  BY <1>2, <1>3 DEF P

\* Amounts that change at one place.
LEMMA SumOfChanged ==
  ASSUME NEW S, IsFiniteSet(S), NEW f, NEW e, NEW x \in S, e[x] \in Int, \A y \in S : f[y] \in Int,
         \A y \in S : y # x => e[y] = f[y]
  PROVE  SumFunctionOnSet(e, S) = SumFunctionOnSet(f, S) - f[x] + e[x]
<1>1. IsFiniteSet(S \ {x})
  BY FS_Subset
<1>2. SumFunctionOnSet(e, S \ {x}) = SumFunctionOnSet(f, S \ {x})
  BY <1>1, SumOfSame
<1>3. \A y \in S : e[y] \in Int
  OBVIOUS
<1>4. SumFunctionOnSet(e, S) = e[x] + SumFunctionOnSet(e, S \ {x})
  BY <1>3, SumOfOneMore
<1>5. SumFunctionOnSet(f, S) = f[x] + SumFunctionOnSet(f, S \ {x})
  BY SumOfOneMore
<1>6. SumFunctionOnSet(f, S \ {x}) \in Int
  BY <1>1, SumOfOneMore
<1>7. f[x] \in Int /\ e[x] \in Int
  OBVIOUS
<1> QED
  BY <1>2, <1>4, <1>5, <1>6, <1>7

\* Amounts none of which is larger.
LEMMA SumOfSmaller ==
  ASSUME NEW S, IsFiniteSet(S), NEW f, NEW e, \A x \in S : f[x] \in Int /\ e[x] \in Int /\ e[x] <= f[x]
  PROVE  SumFunctionOnSet(e, S) <= SumFunctionOnSet(f, S)
<1> DEFINE P == {T \in SUBSET S : SumFunctionOnSet(e, T) <= SumFunctionOnSet(f, T)}
<1>1. ASSUME NEW T \in SUBSET S, \A x \in T : T \ {x} \in P PROVE T \in P
  <2>0. IsFiniteSet(T)
    BY FS_Subset
  <2>1. CASE T = {}
    <3>1. SumFunctionOnSet(e, T) = 0 /\ SumFunctionOnSet(f, T) = 0
      BY <2>1, SumOfNone
    <3> QED
      BY <3>1
  <2>2. ASSUME NEW x \in T PROVE SumFunctionOnSet(e, T) <= SumFunctionOnSet(f, T)
    <3> DEFINE U == T \ {x}
    <3>1. SumFunctionOnSet(e, U) <= SumFunctionOnSet(f, U)
      BY <1>1
    <3>2. IsFiniteSet(U)
      BY <2>0, FS_Subset
    <3>3. \A y \in T : f[y] \in Int /\ e[y] \in Int
      OBVIOUS
    <3>4. SumFunctionOnSet(f, T) = f[x] + SumFunctionOnSet(f, U) /\ SumFunctionOnSet(e, T) = e[x] + SumFunctionOnSet(e, U)
      BY <2>0, <3>3, SumOfOneMore
    <3>5. SumFunctionOnSet(f, U) \in Int /\ SumFunctionOnSet(e, U) \in Int
      BY <3>2, <3>3, SumOfOneMore
    <3>6. f[x] \in Int /\ e[x] \in Int /\ e[x] <= f[x]
      OBVIOUS
    <3> HIDE DEF U
    <3> QED
      BY <3>1, <3>4, <3>5, <3>6
  <2> QED
    BY <2>1, <2>2
<1> HIDE DEF P
<1>2. S \in P
  BY <1>1, SubsetsInduction
<1> QED
  BY <1>2 DEF P

\* The sum over a part is the sum over the whole, with nothing elsewhere.
LEMMA SumOfPart ==
  ASSUME NEW S, IsFiniteSet(S), NEW R \in SUBSET S, NEW f, \A x \in R : f[x] \in Int
  PROVE  SumFunctionOnSet(f, R) = SumFunctionOnSet([x \in S |-> IF x \in R THEN f[x] ELSE 0], S)
<1> DEFINE e == [x \in S |-> IF x \in R THEN f[x] ELSE 0]
           P == {T \in SUBSET S : SumFunctionOnSet(f, R \cap T) = SumFunctionOnSet(e, T)}
<1>0. \A x \in S : e[x] \in Int /\ (x \in R => e[x] = f[x]) /\ (x \notin R => e[x] = 0)
  OBVIOUS
<1> HIDE DEF e
<1>1. ASSUME NEW T \in SUBSET S, \A x \in T : T \ {x} \in P PROVE T \in P
  <2>0. IsFiniteSet(T) /\ IsFiniteSet(R \cap T)
    BY FS_Subset
  <2>1. CASE T = {}
    <3>1. R \cap T = {}
      BY <2>1
    <3>2. SumFunctionOnSet(e, T) = 0 /\ SumFunctionOnSet(f, R \cap T) = 0
      BY <2>1, <3>1, SumOfNone
    <3> QED
      BY <3>2
  <2>2. ASSUME NEW x \in T PROVE SumFunctionOnSet(f, R \cap T) = SumFunctionOnSet(e, T)
    <3> DEFINE U == T \ {x}
    <3>1. SumFunctionOnSet(f, R \cap U) = SumFunctionOnSet(e, U)
      BY <1>1
    <3>2. SumFunctionOnSet(e, T) = e[x] + SumFunctionOnSet(e, U)
      BY <1>0, <2>0, SumOfOneMore
    <3>3. SumFunctionOnSet(e, U) \in Int
      <4>1. IsFiniteSet(U)
        BY <2>0, FS_Subset
      <4> QED
        BY <1>0, <4>1, SumOfOneMore
    <3>4. CASE x \in R
      <4>1. R \cap U = (R \cap T) \ {x} /\ x \in R \cap T /\ \A y \in R \cap T : f[y] \in Int
        BY <3>4
      <4>2. SumFunctionOnSet(f, R \cap T) = f[x] + SumFunctionOnSet(f, (R \cap T) \ {x})
        BY <2>0, <4>1, SumOfOneMore
      <4>3. SumFunctionOnSet(f, R \cap T) = f[x] + SumFunctionOnSet(f, R \cap U)
        BY <4>1, <4>2
      <4>4. e[x] = f[x]
        BY <1>0, <3>4
      <4> HIDE DEF U
      <4> QED
        BY <3>1, <3>2, <4>3, <4>4
    <3>5. CASE x \notin R
      <4>1. R \cap U = R \cap T /\ e[x] = 0
        BY <1>0, <3>5
      <4>2. SumFunctionOnSet(f, R \cap T) = SumFunctionOnSet(f, R \cap U)
        BY <4>1
      <4> HIDE DEF U
      <4> QED
        BY <3>1, <3>2, <3>3, <4>1, <4>2
    <3> QED
      BY <3>4, <3>5
  <2> QED
    BY <2>1, <2>2
<1> HIDE DEF P
<1>2. S \in P
  BY <1>1, SubsetsInduction
<1>3. R \cap S = R
  OBVIOUS
<1> QED
  BY <1>2, <1>3 DEF P, e

\* A sum of natural numbers, none of which is larger than the sum.
LEMMA SumOfNaturals ==
  ASSUME NEW S, IsFiniteSet(S), NEW f, \A x \in S : f[x] \in Nat
  PROVE  SumFunctionOnSet(f, S) \in Nat /\ \A x \in S : f[x] <= SumFunctionOnSet(f, S)
<1> DEFINE P == {T \in SUBSET S : SumFunctionOnSet(f, T) \in Nat /\ \A x \in T : f[x] <= SumFunctionOnSet(f, T)}
<1>1. ASSUME NEW T \in SUBSET S, \A x \in T : T \ {x} \in P PROVE T \in P
  <2>1. CASE T = {}
    BY <2>1, SumOfNone
  <2>2. ASSUME NEW x \in T
        PROVE  SumFunctionOnSet(f, T) \in Nat /\ f[x] <= SumFunctionOnSet(f, T)
    <3> DEFINE U == T \ {x}
    <3>1. IsFiniteSet(T)
      BY FS_Subset
    <3>2. \A y \in T : f[y] \in Int
      OBVIOUS
    <3>3. SumFunctionOnSet(f, T) = f[x] + SumFunctionOnSet(f, U)
      BY <3>1, <3>2, SumOfOneMore
    <3>4. SumFunctionOnSet(f, U) \in Nat /\ f[x] \in Nat
      BY <1>1
    <3> HIDE DEF U
    <3> QED
      BY <3>3, <3>4
  <2> QED
    BY <2>1, <2>2
<1> HIDE DEF P
<1>2. S \in P
  BY <1>1, SubsetsInduction
<1> QED
  BY <1>2 DEF P

-----------------------------------------------------------------------------
(* The balance and the ledger.                                              *)

\* Two parts of a finite set, and amounts of which those of D grow by k.
LEMMA PartMoves ==
  ASSUME NEW S, IsFiniteSet(S), NEW R \in SUBSET S, NEW Q \in SUBSET S, NEW f, NEW e,
         NEW D \in SUBSET S, NEW k \in Int, \A x \in S : f[x] \in Int /\ e[x] \in Int,
         \A x \in S : (IF x \in Q THEN e[x] ELSE 0)
                        = (IF x \in R THEN f[x] ELSE 0) + (IF x \in D THEN k ELSE 0)
  PROVE  /\ SumFunctionOnSet(f, R) \in Int
         /\ SumFunctionOnSet(e, Q) = SumFunctionOnSet(f, R) + Cardinality(D) * k
<1> DEFINE old == [x \in S |-> IF x \in R THEN f[x] ELSE 0]
           new == [x \in S |-> IF x \in Q THEN e[x] ELSE 0]
<1>1. SumFunctionOnSet(f, R) = SumFunctionOnSet(old, S) /\ SumFunctionOnSet(e, Q) = SumFunctionOnSet(new, S)
  BY SumOfPart
<1>2. \A x \in S : old[x] \in Int /\ new[x] = IF x \in D THEN old[x] + k ELSE old[x]
  <2>1. ASSUME NEW x \in S PROVE old[x] \in Int /\ new[x] = old[x] + (IF x \in D THEN k ELSE 0)
    BY <2>1
  <2> HIDE DEF old, new
  <2> QED
    BY <2>1
<1> HIDE DEF old, new
<1>3. SumFunctionOnSet(new, S) = SumFunctionOnSet(old, S) + Cardinality(D) * k
  BY <1>2, SumOfRaised
<1>4. SumFunctionOnSet(old, S) \in Int
  BY <1>2, SumOfOneMore
<1> QED
  BY <1>1, <1>3, <1>4

\* What a row adds to its account, and what it adds until it is reconciled.
ReservedIn(row) == IF row.status = "reserved" THEN Need ELSE 0
ConsumedIn(row) == IF row.consumed = Nothing THEN 0 ELSE row.consumed
CostIn(row) == IF row.status \in {"none", "reserved", "released"} THEN 0
               ELSE IF row.actual # Nothing THEN row.actual ELSE Estimate
OpenIn(row) == IF row.status = "reconciled" THEN 0 ELSE ConsumedIn(row)
SlackIn(row) == (CASE row.status \in {"none", "reserved", "released"} -> 0
                   [] row.status = "reconciled" -> 2
                   [] OTHER -> 1) * (Grain + 1)

RowsConsumed(a) == SumFunctionOnSet([c \in Calls |-> ConsumedOf(c)], Rows(a))
Credited(a) == SumFunctionOnSet([r \in DOMAIN adjustments |-> adjustments[r].credits], Adjusted(a))
OpenConsumed(a) == SumFunctionOnSet([c \in Calls |-> OpenIn(ledger[c])], Rows(a))

\* A row is charged when it leaves its reservation, and not before.
EntryOK(row) ==
  /\ row.status \in {"none", "reserved"} => row.consumed = Nothing /\ row.actual = Nothing
  /\ row.status \notin {"none", "reserved"} => row.consumed # Nothing
EntriesOK == \A c \in Calls : EntryOK(ledger[c])

LEMMA SlackOfRow ==
  ASSUME NEW row
  PROVE  /\ row.status \in {"none", "reserved", "released"} => SlackIn(row) = 0
         /\ row.status = "reconciled" => SlackIn(row) = 2 * (Grain + 1)
         /\ row.status \notin {"none", "reserved", "released", "reconciled"} => SlackIn(row) = Grain + 1
         /\ SlackIn(row) \in Nat
<1>1. Grain \in Nat
  BY AmountsAssumption
<1>2. CASE row.status \in {"none", "reserved", "released"}
  <2>1. SlackIn(row) = 0 * (Grain + 1)
    BY <1>2 DEF SlackIn
  <2> QED
    BY <1>1, <1>2, <2>1
<1>3. CASE row.status = "reconciled"
  <2>1. SlackIn(row) = 2 * (Grain + 1)
    BY <1>3 DEF SlackIn
  <2> QED
    BY <1>1, <1>3, <2>1
<1>4. CASE row.status \notin {"none", "reserved", "released", "reconciled"}
  <2>1. SlackIn(row) = 1 * (Grain + 1)
    BY <1>4 DEF SlackIn
  <2> QED
    BY <1>1, <1>4, <2>1
<1> QED
  BY <1>2, <1>3, <1>4

LEMMA EntryTyped ==
  ASSUME NEW row \in Row
  PROVE  /\ ReservedIn(row) \in Nat /\ ConsumedIn(row) \in Nat /\ CostIn(row) \in Nat /\ OpenIn(row) \in Nat
         /\ SlackIn(row) \in Nat
         /\ row.status = "none" /\ EntryOK(row) =>
              ReservedIn(row) = 0 /\ ConsumedIn(row) = 0 /\ CostIn(row) = 0 /\ OpenIn(row) = 0 /\ SlackIn(row) = 0
<1>1. row.consumed \in Amounts /\ row.actual \in Amounts
  BY DEF Row
<1>2. ConsumedIn(row) \in Nat
  BY <1>1, AmountsTyped DEF ConsumedIn, Amounts
<1>3. CostIn(row) \in Nat
  BY <1>1, AmountsTyped DEF CostIn, Amounts
<1> QED
  BY <1>2, <1>3, AmountsTyped, SlackOfRow DEF ReservedIn, OpenIn, EntryOK, ConsumedIn, CostIn

RowMoved(old, new, r, s, t, u, k) ==
  /\ ReservedIn(new) = ReservedIn(old) + r
  /\ ConsumedIn(new) = ConsumedIn(old) + s
  /\ CostIn(new) = CostIn(old) + t
  /\ OpenIn(new) = OpenIn(old) + u
  /\ SlackIn(new) = SlackIn(old) + k

\* The sums of the accounts, of any ledger.
RowsIn(rows, a) == {c \in Calls : AccountOf[c] = a /\ rows[c].status # "none"}
ReservedSum(rows, a) == SumFunctionOnSet([c \in Calls |-> ReservedIn(rows[c])], RowsIn(rows, a))
ConsumedSum(rows, a) == SumFunctionOnSet([c \in Calls |-> ConsumedIn(rows[c])], RowsIn(rows, a))
CostSum(rows, a) == SumFunctionOnSet([c \in Calls |-> CostIn(rows[c])], RowsIn(rows, a))
OpenSum(rows, a) == SumFunctionOnSet([c \in Calls |-> OpenIn(rows[c])], RowsIn(rows, a))
SlackSum(rows, a) == SumFunctionOnSet([c \in Calls |-> SlackIn(rows[c])], RowsIn(rows, a))

SumsMoved(old, new, a, D, r, s, t, u, k) ==
  /\ ReservedSum(new, a) = ReservedSum(old, a) + Cardinality(D) * r
  /\ ConsumedSum(new, a) = ConsumedSum(old, a) + Cardinality(D) * s
  /\ CostSum(new, a) = CostSum(old, a) + Cardinality(D) * t
  /\ OpenSum(new, a) = OpenSum(old, a) + Cardinality(D) * u
  /\ SlackSum(new, a) = SlackSum(old, a) + Cardinality(D) * k

\* The sums over two ledgers, of which the rows of D in account a differ alike.
LEMMA RowsMoved ==
  ASSUME NEW old \in [Calls -> Row], NEW new \in [Calls -> Row],
         \A c \in Calls : EntryOK(old[c]) /\ EntryOK(new[c]),
         NEW a, NEW D \in SUBSET {c \in Calls : AccountOf[c] = a},
         NEW r \in Int, NEW s \in Int, NEW t \in Int, NEW u \in Int, NEW k \in Int,
         \A c \in D : RowMoved(old[c], new[c], r, s, t, u, k),
         \A c \in Calls \ D : AccountOf[c] = a => RowMoved(old[c], new[c], 0, 0, 0, 0, 0)
  PROVE  SumsMoved(old, new, a, D, r, s, t, u, k)
<1> DEFINE R == RowsIn(old, a)
           Q == RowsIn(new, a)
<1>0. /\ IsFiniteSet(Calls) /\ R \in SUBSET Calls /\ Q \in SUBSET Calls /\ D \in SUBSET Calls
      /\ \A c \in Calls : c \in R <=> AccountOf[c] = a /\ old[c].status # "none"
      /\ \A c \in Calls : c \in Q <=> AccountOf[c] = a /\ new[c].status # "none"
      /\ \A c \in D : AccountOf[c] = a
  BY CallsAssumption DEF RowsIn
<1> HIDE DEF R, Q
<1>1. ASSUME NEW c \in Calls
      PROVE  /\ ReservedIn(old[c]) \in Int /\ ReservedIn(new[c]) \in Int
             /\ ConsumedIn(old[c]) \in Int /\ ConsumedIn(new[c]) \in Int
             /\ CostIn(old[c]) \in Int /\ CostIn(new[c]) \in Int
             /\ OpenIn(old[c]) \in Int /\ OpenIn(new[c]) \in Int
             /\ SlackIn(old[c]) \in Int /\ SlackIn(new[c]) \in Int
  BY EntryTyped
<1>2. ASSUME NEW c \in Calls
      PROVE  /\ (IF c \in Q THEN ReservedIn(new[c]) ELSE 0)
                  = (IF c \in R THEN ReservedIn(old[c]) ELSE 0) + (IF c \in D THEN r ELSE 0)
             /\ (IF c \in Q THEN ConsumedIn(new[c]) ELSE 0)
                  = (IF c \in R THEN ConsumedIn(old[c]) ELSE 0) + (IF c \in D THEN s ELSE 0)
             /\ (IF c \in Q THEN CostIn(new[c]) ELSE 0)
                  = (IF c \in R THEN CostIn(old[c]) ELSE 0) + (IF c \in D THEN t ELSE 0)
             /\ (IF c \in Q THEN OpenIn(new[c]) ELSE 0)
                  = (IF c \in R THEN OpenIn(old[c]) ELSE 0) + (IF c \in D THEN u ELSE 0)
             /\ (IF c \in Q THEN SlackIn(new[c]) ELSE 0)
                  = (IF c \in R THEN SlackIn(old[c]) ELSE 0) + (IF c \in D THEN k ELSE 0)
  <2>1. CASE AccountOf[c] # a
    BY <1>0, <2>1
  <2>2. CASE AccountOf[c] = a
    <3>1. /\ (IF c \in Q THEN ReservedIn(new[c]) ELSE 0) = ReservedIn(new[c])
          /\ (IF c \in Q THEN ConsumedIn(new[c]) ELSE 0) = ConsumedIn(new[c])
          /\ (IF c \in Q THEN CostIn(new[c]) ELSE 0) = CostIn(new[c])
          /\ (IF c \in Q THEN OpenIn(new[c]) ELSE 0) = OpenIn(new[c])
          /\ (IF c \in Q THEN SlackIn(new[c]) ELSE 0) = SlackIn(new[c])
      BY <1>0, <2>2, EntryTyped
    <3>2. /\ (IF c \in R THEN ReservedIn(old[c]) ELSE 0) = ReservedIn(old[c])
          /\ (IF c \in R THEN ConsumedIn(old[c]) ELSE 0) = ConsumedIn(old[c])
          /\ (IF c \in R THEN CostIn(old[c]) ELSE 0) = CostIn(old[c])
          /\ (IF c \in R THEN OpenIn(old[c]) ELSE 0) = OpenIn(old[c])
          /\ (IF c \in R THEN SlackIn(old[c]) ELSE 0) = SlackIn(old[c])
      BY <1>0, <2>2, EntryTyped
    <3>3. CASE c \in D
      BY <3>1, <3>2, <3>3 DEF RowMoved
    <3>4. CASE c \notin D
      BY <2>2, <3>1, <3>2, <3>4 DEF RowMoved
    <3> QED
      BY <3>3, <3>4
  <2> QED
    BY <2>1, <2>2
<1>3. SumFunctionOnSet([c \in Calls |-> ReservedIn(new[c])], Q)
        = SumFunctionOnSet([c \in Calls |-> ReservedIn(old[c])], R) + Cardinality(D) * r
  <2> DEFINE f == [c \in Calls |-> ReservedIn(old[c])]
             e == [c \in Calls |-> ReservedIn(new[c])]
  <2>1. \A c \in Calls : f[c] = ReservedIn(old[c]) /\ e[c] = ReservedIn(new[c])
    OBVIOUS
  <2> HIDE DEF f, e
  <2>2. SumFunctionOnSet(e, Q) = SumFunctionOnSet(f, R) + Cardinality(D) * r
    BY <1>0, <1>1, <1>2, <2>1, PartMoves
  <2> QED
    BY <2>2 DEF f, e
<1>4. SumFunctionOnSet([c \in Calls |-> ConsumedIn(new[c])], Q)
        = SumFunctionOnSet([c \in Calls |-> ConsumedIn(old[c])], R) + Cardinality(D) * s
  <2> DEFINE f == [c \in Calls |-> ConsumedIn(old[c])]
             e == [c \in Calls |-> ConsumedIn(new[c])]
  <2>1. \A c \in Calls : f[c] = ConsumedIn(old[c]) /\ e[c] = ConsumedIn(new[c])
    OBVIOUS
  <2> HIDE DEF f, e
  <2>2. SumFunctionOnSet(e, Q) = SumFunctionOnSet(f, R) + Cardinality(D) * s
    BY <1>0, <1>1, <1>2, <2>1, PartMoves
  <2> QED
    BY <2>2 DEF f, e
<1>5. SumFunctionOnSet([c \in Calls |-> CostIn(new[c])], Q)
        = SumFunctionOnSet([c \in Calls |-> CostIn(old[c])], R) + Cardinality(D) * t
  <2> DEFINE f == [c \in Calls |-> CostIn(old[c])]
             e == [c \in Calls |-> CostIn(new[c])]
  <2>1. \A c \in Calls : f[c] = CostIn(old[c]) /\ e[c] = CostIn(new[c])
    OBVIOUS
  <2> HIDE DEF f, e
  <2>2. SumFunctionOnSet(e, Q) = SumFunctionOnSet(f, R) + Cardinality(D) * t
    BY <1>0, <1>1, <1>2, <2>1, PartMoves
  <2> QED
    BY <2>2 DEF f, e
<1>6. SumFunctionOnSet([c \in Calls |-> OpenIn(new[c])], Q)
        = SumFunctionOnSet([c \in Calls |-> OpenIn(old[c])], R) + Cardinality(D) * u
  <2> DEFINE f == [c \in Calls |-> OpenIn(old[c])]
             e == [c \in Calls |-> OpenIn(new[c])]
  <2>1. \A c \in Calls : f[c] = OpenIn(old[c]) /\ e[c] = OpenIn(new[c])
    OBVIOUS
  <2> HIDE DEF f, e
  <2>2. SumFunctionOnSet(e, Q) = SumFunctionOnSet(f, R) + Cardinality(D) * u
    BY <1>0, <1>1, <1>2, <2>1, PartMoves
  <2> QED
    BY <2>2 DEF f, e
<1>7. SumFunctionOnSet([c \in Calls |-> SlackIn(new[c])], Q)
        = SumFunctionOnSet([c \in Calls |-> SlackIn(old[c])], R) + Cardinality(D) * k
  <2> DEFINE f == [c \in Calls |-> SlackIn(old[c])]
             e == [c \in Calls |-> SlackIn(new[c])]
  <2>1. \A c \in Calls : f[c] = SlackIn(old[c]) /\ e[c] = SlackIn(new[c])
    OBVIOUS
  <2> HIDE DEF f, e
  <2>2. SumFunctionOnSet(e, Q) = SumFunctionOnSet(f, R) + Cardinality(D) * k
    BY <1>0, <1>1, <1>2, <2>1, PartMoves
  <2> QED
    BY <2>2 DEF f, e
<1> QED
  BY <1>3, <1>4, <1>5, <1>6, <1>7 DEF R, Q, SumsMoved, ReservedSum, ConsumedSum, CostSum, OpenSum, SlackSum

SumsOver(a, r, s, t, u, k) ==
  /\ LedgerReserved(a)' = LedgerReserved(a) + r
  /\ RowsConsumed(a)' = RowsConsumed(a) + s
  /\ LedgerCost(a)' = LedgerCost(a) + t
  /\ OpenConsumed(a)' = OpenConsumed(a) + u
  /\ Slack(a)' = Slack(a) + k

LEMMA SumsOfRows ==
  ASSUME NEW a
  PROVE  /\ Rows(a) = RowsIn(ledger, a)
         /\ LedgerReserved(a) = ReservedSum(ledger, a) /\ RowsConsumed(a) = ConsumedSum(ledger, a)
         /\ LedgerCost(a) = CostSum(ledger, a) /\ OpenConsumed(a) = OpenSum(ledger, a)
         /\ Slack(a) = SlackSum(ledger, a)
BY DEF Rows, Inserted, LedgerReserved, RowsConsumed, LedgerCost, OpenConsumed, ReservedOf, ConsumedOf, CostOf,
       CountedCost, ReservedIn, ConsumedIn, CostIn, OpenIn, RowsIn, ReservedSum, ConsumedSum, CostSum, OpenSum,
       Slack, Bookings, SlackIn, SlackSum

LEMMA SumsOfNextRows ==
  ASSUME NEW a
  PROVE  /\ LedgerReserved(a)' = ReservedSum(ledger', a) /\ RowsConsumed(a)' = ConsumedSum(ledger', a)
         /\ LedgerCost(a)' = CostSum(ledger', a) /\ OpenConsumed(a)' = OpenSum(ledger', a)
         /\ Slack(a)' = SlackSum(ledger', a)
BY DEF Rows, Inserted, LedgerReserved, RowsConsumed, LedgerCost, OpenConsumed, ReservedOf, ConsumedOf, CostOf,
       CountedCost, ReservedIn, ConsumedIn, CostIn, OpenIn, RowsIn, ReservedSum, ConsumedSum, CostSum, OpenSum,
       Slack, Bookings, SlackIn, SlackSum

LEMMA AccountMoves ==
  ASSUME TypeOK, TypeOK', EntriesOK, EntriesOK', NEW a, NEW D \in SUBSET {c \in Calls : AccountOf[c] = a},
         NEW r \in Int, NEW s \in Int, NEW t \in Int, NEW u \in Int, NEW k \in Int,
         \A c \in D : RowMoved(ledger[c], ledger'[c], r, s, t, u, k),
         \A c \in Calls \ D : AccountOf[c] = a => RowMoved(ledger[c], ledger'[c], 0, 0, 0, 0, 0)
  PROVE  SumsOver(a, Cardinality(D) * r, Cardinality(D) * s, Cardinality(D) * t, Cardinality(D) * u,
                Cardinality(D) * k)
<1>1. ledger \in [Calls -> Row] /\ ledger' \in [Calls -> Row]
  BY TypeParts DEF RowsTyped, TypeOK, Row
<1>2. \A c \in Calls : EntryOK(ledger[c]) /\ EntryOK(ledger'[c])
  BY DEF EntriesOK, EntryOK
<1>3. SumsMoved(ledger, ledger', a, D, r, s, t, u, k)
  BY <1>1, <1>2, RowsMoved
<1> QED
  BY <1>3, SumsOfRows, SumsOfNextRows DEF SumsOver, SumsMoved

LEMMA SumsTyped ==
  ASSUME NEW rows \in [Calls -> Row], NEW a
  PROVE  /\ ReservedSum(rows, a) \in Nat /\ ConsumedSum(rows, a) \in Nat
         /\ CostSum(rows, a) \in Nat /\ OpenSum(rows, a) \in Nat /\ SlackSum(rows, a) \in Nat
<1>1. IsFiniteSet(RowsIn(rows, a)) /\ RowsIn(rows, a) \subseteq Calls
  BY CallsAssumption, FS_Subset DEF RowsIn
<1>2. ASSUME NEW f, \A c \in Calls : f[c] \in Nat PROVE SumFunctionOnSet(f, RowsIn(rows, a)) \in Nat
  BY <1>1, <1>2, SumOfNaturals
<1>3. \A c \in Calls : /\ ReservedIn(rows[c]) \in Nat /\ ConsumedIn(rows[c]) \in Nat
                       /\ CostIn(rows[c]) \in Nat /\ OpenIn(rows[c]) \in Nat /\ SlackIn(rows[c]) \in Nat
  BY EntryTyped
<1> QED
  BY <1>2, <1>3 DEF ReservedSum, ConsumedSum, CostSum, OpenSum, SlackSum

\* The balance of an account against its ledger.  Credits may be cut at zero, so
\* that only where operators enter debits alone it is the very sum.
AccountOK(a) ==
  /\ balance[a].reserved = LedgerReserved(a)
  /\ 2 * (balance[a].cost - LedgerCost(a)) \in -Slack(a) .. Slack(a)
  /\ balance[a].consumed >= LedgerConsumed(a)
  /\ AdminDeltas \subseteq Nat =>
       balance[a].consumed = LedgerConsumed(a) /\ balance[a].consumed >= OpenConsumed(a)

LedgerInv ==
  /\ TypeOK /\ EntriesOK
  /\ IsFiniteSet(DOMAIN adjustments)
  /\ \A a \in Accounts : AccountOK(a)

LEMMA CreditedTyped ==
  ASSUME TypeOK, IsFiniteSet(DOMAIN adjustments), NEW a
  PROVE  IsFiniteSet(Adjusted(a)) /\ Credited(a) \in Int
<1> DEFINE f == [r \in DOMAIN adjustments |-> adjustments[r].credits]
<1>1. IsFiniteSet(Adjusted(a)) /\ Adjusted(a) \subseteq DOMAIN adjustments
  BY FS_Subset DEF Adjusted
<1>2. \A r \in Adjusted(a) : f[r] \in Int
  BY <1>1, TypeParts DEF AdjustmentsTyped
<1> HIDE DEF f
<1>3. SumFunctionOnSet(f, Adjusted(a)) \in Int
  BY <1>1, <1>2, SumOfOneMore
<1> QED
  BY <1>1, <1>3 DEF Credited, f

LEMMA FloorOf == \A n \in Int : Floor0(n) >= n /\ (n >= 0 => Floor0(n) = n)
BY DEF Floor0

LEMMA AccountStep ==
  ASSUME TypeOK, TypeOK', NEW a \in Accounts, AccountOK(a),
         NEW r \in Int, NEW s \in Int, NEW t \in Int, NEW u \in Int, NEW k \in Int, NEW d \in Int, NEW x \in Int,
         SumsOver(a, r, s, t, u, k), -k <= 2 * (x - t), 2 * (x - t) <= k, Credited(a) \in Int, Credited(a)' = Credited(a) + d,
         balance'[a].reserved = Floor0(balance[a].reserved + r),
         balance'[a].cost = Floor0(balance[a].cost + x),
         balance'[a].consumed = Floor0(balance[a].consumed + s + d),
         AdminDeltas \subseteq Nat => s + d >= u
  PROVE  AccountOK(a)'
<1>1. ledger \in [Calls -> Row] /\ ledger' \in [Calls -> Row]
  BY TypeParts DEF RowsTyped, TypeOK, Row
<1>2. /\ LedgerReserved(a) \in Nat /\ RowsConsumed(a) \in Nat /\ LedgerCost(a) \in Nat /\ OpenConsumed(a) \in Nat
      /\ Slack(a) \in Nat /\ Slack(a)' \in Nat
      /\ LedgerReserved(a)' \in Nat /\ RowsConsumed(a)' \in Nat /\ LedgerCost(a)' \in Nat /\ OpenConsumed(a)' \in Nat
  BY <1>1, SumsTyped, SumsOfRows, SumsOfNextRows
<1>3. balance[a].reserved \in Nat /\ balance[a].cost \in Nat /\ balance[a].consumed \in Nat
  BY TypeParts DEF BalanceTyped, Balance
<1>4. LedgerConsumed(a) = RowsConsumed(a) + Credited(a) /\ LedgerConsumed(a)' = RowsConsumed(a)' + Credited(a)'
  BY DEF LedgerConsumed, RowsConsumed, Credited
<1>5. PICK res, con, cos, opn, res1, con1, cos1, opn1, crd, crd1, slk, slk1 :
        /\ res = LedgerReserved(a) /\ con = RowsConsumed(a) /\ cos = LedgerCost(a) /\ opn = OpenConsumed(a)
        /\ res1 = LedgerReserved(a)' /\ con1 = RowsConsumed(a)' /\ cos1 = LedgerCost(a)' /\ opn1 = OpenConsumed(a)'
        /\ crd = Credited(a) /\ crd1 = Credited(a)' /\ slk = Slack(a) /\ slk1 = Slack(a)'
  OBVIOUS
<1>6. PICK b, b1 : b = balance[a] /\ b1 = balance'[a]
  OBVIOUS
<1>7. /\ b.reserved \in Nat /\ b.cost \in Nat /\ b.consumed \in Nat
      /\ res \in Nat /\ con \in Nat /\ cos \in Nat /\ opn \in Nat
      /\ res1 \in Nat /\ con1 \in Nat /\ cos1 \in Nat /\ opn1 \in Nat
      /\ res1 = res + r /\ con1 = con + s /\ cos1 = cos + t /\ opn1 = opn + u
      /\ crd \in Int /\ crd1 = crd + d /\ slk \in Nat /\ slk1 \in Nat /\ slk1 = slk + k
  BY <1>2, <1>3, <1>5, <1>6 DEF SumsOver
<1>8. /\ b.reserved = res /\ 2 * (b.cost - cos) \in -slk .. slk /\ b.consumed >= con + crd
      /\ AdminDeltas \subseteq Nat => b.consumed = con + crd /\ b.consumed >= opn
  BY <1>4, <1>5, <1>6 DEF AccountOK
<1>9. /\ b1.reserved = Floor0(b.reserved + r) /\ b1.cost = Floor0(b.cost + x)
      /\ b1.consumed = Floor0(b.consumed + s + d)
  BY <1>6
<1>10. /\ b1.reserved = res1 /\ 2 * (b1.cost - cos1) \in -slk1 .. slk1 /\ b1.consumed >= con1 + crd1
       /\ AdminDeltas \subseteq Nat => b1.consumed = con1 + crd1 /\ b1.consumed >= opn1
  <2>1. b.reserved + r = res1
    BY <1>7, <1>8
  <2>2. b1.reserved = res1
    BY <1>7, <1>9, <2>1, FloorOf
  <2>7. 2 * (b1.cost - cos1) \in -slk1 .. slk1
    <3>1. /\ b.cost + x \in Int
          /\ -slk1 <= 2 * (b.cost + x - cos1) /\ 2 * (b.cost + x - cos1) <= slk1
      BY <1>7, <1>8
    <3>2. b1.cost = Floor0(b.cost + x)
      BY <1>9
    <3>3. b1.cost \in Nat /\ (b1.cost = b.cost + x \/ (b1.cost = 0 /\ b.cost + x < 0))
      BY <3>1, <3>2, FloorTyped DEF Floor0
    <3>4. -slk1 <= 2 * (b1.cost - cos1) /\ 2 * (b1.cost - cos1) <= slk1
      BY <1>7, <3>1, <3>3
    <3> QED
      BY <1>7, <3>3, <3>4
  <2>3. b.consumed + s + d \in Int /\ b.consumed + s + d >= con1 + crd1
    BY <1>7, <1>8
  <2>4. b1.consumed \in Nat /\ b1.consumed >= b.consumed + s + d
    BY <1>9, <2>3, FloorOf, FloorTyped
  <2>5. b1.consumed >= con1 + crd1
    BY <1>7, <2>3, <2>4
  <2>6. ASSUME AdminDeltas \subseteq Nat PROVE b1.consumed = con1 + crd1 /\ b1.consumed >= opn1
    <3>1. s + d >= u /\ b.consumed = con + crd /\ b.consumed >= opn
      BY <1>8, <2>6
    <3>2. b.consumed + s + d = con1 + crd1 /\ b.consumed + s + d >= opn1
      BY <1>7, <3>1
    <3>3. b1.consumed = b.consumed + s + d
      BY <1>7, <1>9, <2>3, <3>2, FloorOf
    <3> QED
      BY <3>2, <3>3
  <2> QED
    BY <2>2, <2>5, <2>6, <2>7
<1>11. LedgerConsumed(a)' = con1 + crd1
  BY <1>4, <1>5
<1> QED
  BY <1>5, <1>6, <1>10, <1>11 DEF AccountOK

LEMMA AdjustmentAdded ==
  ASSUME TypeOK, IsFiniteSet(DOMAIN adjustments), NEW ref \in References, NEW b \in Accounts,
         NEW credits \in Int, NEW cost, AddAdjustment(ref, b, credits, cost), NEW a
  PROVE  /\ IsFiniteSet(DOMAIN adjustments')
         /\ Credited(a)' = Credited(a) + (IF a = b THEN credits ELSE 0)
<1> DEFINE f == [r \in DOMAIN adjustments |-> adjustments[r].credits]
           e == [r \in DOMAIN adjustments' |-> adjustments'[r].credits]
           S == Adjusted(a)
           T == {r \in DOMAIN adjustments' : adjustments'[r].account = a}
<1>1. /\ ref \notin DOMAIN adjustments /\ DOMAIN adjustments' = DOMAIN adjustments \cup {ref}
      /\ adjustments'[ref].account = b /\ adjustments'[ref].credits = credits
      /\ \A r \in DOMAIN adjustments : adjustments'[r] = adjustments[r]
  BY DEF AddAdjustment
<1>2. IsFiniteSet(DOMAIN adjustments')
  BY <1>1, FS_AddElement
<1>3. IsFiniteSet(T) /\ ref \notin S /\ IsFiniteSet(S)
  BY <1>1, <1>2, FS_Subset DEF Adjusted
<1>4. T = IF a = b THEN S \cup {ref} ELSE S
  BY <1>1 DEF Adjusted
<1>5. \A r \in S : f[r] \in Int /\ e[r] = f[r]
  BY <1>1, TypeParts DEF AdjustmentsTyped, Adjusted
<1>6. e[ref] = credits
  BY <1>1
<1>7. Credited(a) = SumFunctionOnSet(f, S) /\ Credited(a)' = SumFunctionOnSet(e, T)
  BY DEF Credited, Adjusted
<1> HIDE DEF f, e, S, T
<1>8. SumFunctionOnSet(e, S) = SumFunctionOnSet(f, S) /\ SumFunctionOnSet(f, S) \in Int
  BY <1>3, <1>5, SumOfSame, SumOfOneMore
<1>9. CASE a # b
  BY <1>2, <1>4, <1>7, <1>8, <1>9
<1>10. CASE a = b
  <2>1. T = S \cup {ref} /\ ref \in T /\ \A r \in T : e[r] \in Int
    BY <1>4, <1>5, <1>6, <1>10
  <2>2. SumFunctionOnSet(e, T) = e[ref] + SumFunctionOnSet(e, T \ {ref})
    BY <1>3, <2>1, SumOfOneMore
  <2>3. T \ {ref} = S
    BY <1>3, <2>1
  <2>4. SumFunctionOnSet(e, T \ {ref}) = SumFunctionOnSet(f, S)
    BY <1>8, <2>3
  <2>5. Credited(a)' = credits + Credited(a) /\ Credited(a) \in Int
    BY <1>6, <1>7, <1>8, <2>2, <2>4
  <2> QED
    BY <1>2, <1>10, <2>5
<1> QED
  BY <1>9, <1>10

\* What a step does to the rows D of account b, to its adjustments and its balance:
\* n rows move alike, the adjustments by d and the cost of the balance by x, which
\* is near what the rows' costs move by; the rest stays.
LedgerMoves(b, D, n, r, s, t, u, k, d, x) ==
  /\ n = Cardinality(D)
  /\ \A c \in D : AccountOf[c] = b /\ EntryOK(ledger'[c]) /\ RowMoved(ledger[c], ledger'[c], r, s, t, u, k)
  /\ \A c \in Calls \ D : EntryOK(ledger'[c]) /\ RowMoved(ledger[c], ledger'[c], 0, 0, 0, 0, 0)
  /\ IsFiniteSet(DOMAIN adjustments')
  /\ \A a : Credited(a)' = Credited(a) + (IF a = b THEN d ELSE 0)
  /\ \A a \in Accounts \ {b} : balance'[a] = balance[a]
  /\ balance'[b].reserved = Floor0(balance[b].reserved + n * r)
  /\ balance'[b].cost = Floor0(balance[b].cost + x)
  /\ balance'[b].consumed = Floor0(balance[b].consumed + n * s + d)
  /\ -(n * k) <= 2 * (x - n * t) /\ 2 * (x - n * t) <= n * k
  /\ AdminDeltas \subseteq Nat => n * s + d >= n * u

LEMMA LedgerStep ==
  ASSUME LedgerInv, TypeOK', NEW b \in Accounts, NEW D \in SUBSET Calls, NEW n \in Nat,
         NEW r \in Int, NEW s \in Int, NEW t \in Int, NEW u \in Int, NEW k \in Int, NEW d \in Int, NEW x \in Int,
         LedgerMoves(b, D, n, r, s, t, u, k, d, x)
  PROVE  LedgerInv'
<1>1. EntriesOK' /\ EntriesOK /\ TypeOK /\ IsFiniteSet(DOMAIN adjustments)'
  BY DEF EntriesOK, LedgerInv, LedgerMoves, EntryOK
<1>2. AccountOK(b)'
  <2>1. D \in SUBSET {c \in Calls : AccountOf[c] = b}
    BY DEF LedgerMoves
  <2>2. /\ \A c \in D : RowMoved(ledger[c], ledger'[c], r, s, t, u, k)
        /\ \A c \in Calls \ D : AccountOf[c] = b => RowMoved(ledger[c], ledger'[c], 0, 0, 0, 0, 0)
    BY DEF LedgerMoves
  <2>3. SumsOver(b, Cardinality(D) * r, Cardinality(D) * s, Cardinality(D) * t, Cardinality(D) * u,
                Cardinality(D) * k)
    BY <1>1, <2>1, <2>2, AccountMoves
  <2>4. SumsOver(b, n * r, n * s, n * t, n * u, n * k)
    BY <2>3 DEF LedgerMoves
  <2>5. n * r \in Int /\ n * s \in Int /\ n * t \in Int /\ n * u \in Int /\ n * k \in Int
    OBVIOUS
  <2>6. Credited(b) \in Int /\ Credited(b)' = Credited(b) + d /\ AccountOK(b)
    BY CreditedTyped DEF LedgerInv, LedgerMoves
  <2>7. /\ balance'[b].reserved = Floor0(balance[b].reserved + n * r)
        /\ balance'[b].cost = Floor0(balance[b].cost + x)
        /\ balance'[b].consumed = Floor0(balance[b].consumed + n * s + d)
        /\ -(n * k) <= 2 * (x - n * t) /\ 2 * (x - n * t) <= n * k
        /\ AdminDeltas \subseteq Nat => n * s + d >= n * u
    BY DEF LedgerMoves
  <2>8. PICK nr \in Int, ns \in Int, nt \in Int, nu \in Int, nk \in Int :
          nr = n * r /\ ns = n * s /\ nt = n * t /\ nu = n * u /\ nk = n * k
    BY <2>5
  <2>9. SumsOver(b, nr, ns, nt, nu, nk)
    BY <2>4, <2>8
  <2>10. /\ balance'[b].reserved = Floor0(balance[b].reserved + nr)
         /\ balance'[b].cost = Floor0(balance[b].cost + x)
         /\ balance'[b].consumed = Floor0(balance[b].consumed + ns + d)
         /\ -nk <= 2 * (x - nt) /\ 2 * (x - nt) <= nk
         /\ AdminDeltas \subseteq Nat => ns + d >= nu
    BY <2>7, <2>8
  <2> QED
    BY <1>1, <2>6, <2>9, <2>10, AccountStep
<1>3. ASSUME NEW a \in Accounts, a # b PROVE AccountOK(a)'
  <2>1. {} \in SUBSET {c \in Calls : AccountOf[c] = a}
    OBVIOUS
  <2>2. /\ \A c \in {} : RowMoved(ledger[c], ledger'[c], 0, 0, 0, 0, 0)
        /\ \A c \in Calls \ {} : AccountOf[c] = a => RowMoved(ledger[c], ledger'[c], 0, 0, 0, 0, 0)
    BY <1>3 DEF LedgerMoves
  <2>3. SumsOver(a, Cardinality({}) * 0, Cardinality({}) * 0, Cardinality({}) * 0, Cardinality({}) * 0,
                Cardinality({}) * 0)
    BY <1>1, <2>1, <2>2, AccountMoves
  <2>4. Cardinality({}) * 0 = 0
    <3>1. Cardinality({}) = 0 /\ 0 * 0 = 0
      BY FS_EmptySet
    <3> QED
      BY <3>1
  <2>5. SumsOver(a, 0, 0, 0, 0, 0)
    BY <2>3, <2>4
  <2>6. Credited(a) \in Int /\ Credited(a)' = Credited(a) + 0 /\ AccountOK(a)
    BY <1>3, CreditedTyped DEF LedgerInv, LedgerMoves
  <2>7. balance[a].reserved \in Nat /\ balance[a].cost \in Nat /\ balance[a].consumed \in Nat
    BY <1>1, TypeParts DEF BalanceTyped, Balance
  <2>8. balance'[a] = balance[a]
    BY <1>3 DEF LedgerMoves
  <2>9. /\ balance'[a].reserved = Floor0(balance[a].reserved + 0)
        /\ balance'[a].cost = Floor0(balance[a].cost + 0)
        /\ balance'[a].consumed = Floor0(balance[a].consumed + 0 + 0)
    BY <2>7, <2>8, FloorOf
  <2>10. 0 \in Int /\ 0 + 0 >= 0 /\ -0 <= 2 * (0 - 0) /\ 2 * (0 - 0) <= 0
    OBVIOUS
  <2> QED
    BY <1>1, <2>5, <2>6, <2>9, <2>10, AccountStep
<1> QED
  BY <1>1, <1>2, <1>3 DEF LedgerInv

LEMMA LedgerSame ==
  ASSUME LedgerInv, TypeOK', UNCHANGED <<ledger, balance, adjustments>>
  PROVE  LedgerInv'
<1>1. \A a \in Accounts : AccountOK(a)'
  BY DEF LedgerInv, AccountOK, LedgerReserved, LedgerCost, LedgerConsumed, OpenConsumed, Rows, Inserted, Adjusted,
         ReservedOf, CostOf, CountedCost, ConsumedOf, OpenIn, ConsumedIn, Slack, Bookings
<1> QED
  BY <1>1 DEF LedgerInv, EntriesOK, EntryOK

LEMMA RowStays == \A row \in Row : RowMoved(row, row, 0, 0, 0, 0, 0)
<1> SUFFICES ASSUME NEW row \in Row PROVE RowMoved(row, row, 0, 0, 0, 0, 0)
  OBVIOUS
<1>1. ReservedIn(row) \in Nat /\ ConsumedIn(row) \in Nat /\ CostIn(row) \in Nat /\ OpenIn(row) \in Nat
     /\ SlackIn(row) \in Nat
  BY EntryTyped
<1> QED
  BY <1>1 DEF RowMoved

LEMMA AdjustmentsSame ==
  ASSUME LedgerInv, adjustments' = adjustments
  PROVE  /\ IsFiniteSet(DOMAIN adjustments')
         /\ \A a, b : Credited(a)' = Credited(a) + (IF a = b THEN 0 ELSE 0)
<1>1. TypeOK /\ IsFiniteSet(DOMAIN adjustments)
  BY DEF LedgerInv
<1>2. IsFiniteSet(DOMAIN adjustments')
  BY <1>1
<1>3. \A a : Credited(a)' = Credited(a) /\ Credited(a) \in Int
  BY <1>1, CreditedTyped DEF Credited, Adjusted
<1> QED
  BY <1>2, <1>3

LEMMA ChargeLedger ==
  ASSUME LedgerInv, TypeOK', NEW c \in Calls, Charge(c) PROVE LedgerInv'
<1> DEFINE b == AccountOf[c]
<1>1. /\ ledger \in [Calls -> Row] /\ balance \in [Accounts -> Balance] /\ b \in Accounts /\ TypeOK
      /\ \A d \in Calls : EntryOK(ledger[d])
  BY TypeParts, CallsFit DEF LedgerInv, RowsTyped, BalanceTyped, EntriesOK
<1>2. /\ ledger' = [ledger EXCEPT ![c] = [NoRow EXCEPT !.status = "reserved"]]
      /\ balance' = [balance EXCEPT ![b].reserved = @ + Need]
      /\ adjustments' = adjustments /\ ledger[c].status = "none"
  BY DEF Charge, KeyTaken, Inserted
<1>3. EntryOK(ledger'[c]) /\ RowMoved(ledger[c], ledger'[c], Need, 0, 0, 0, 0)
  <2>1. /\ ledger'[c].status = "reserved" /\ ledger'[c].consumed = Nothing /\ ledger'[c].actual = Nothing
    BY <1>1, <1>2 DEF NoRow
  <2>2. ledger[c].consumed = Nothing /\ ledger[c].actual = Nothing
    BY <1>1, <1>2 DEF EntryOK
  <2>3. SlackIn(ledger[c]) = 0 /\ SlackIn(ledger'[c]) = 0
    BY <1>2, <2>1, SlackOfRow
  <2> QED
    BY <1>2, <2>1, <2>2, <2>3, AmountsTyped DEF EntryOK, RowMoved, ReservedIn, ConsumedIn, CostIn, OpenIn
<1>4. \A d \in Calls \ {c} : EntryOK(ledger'[d]) /\ RowMoved(ledger[d], ledger'[d], 0, 0, 0, 0, 0)
  <2>1. \A d \in Calls \ {c} : ledger'[d] = ledger[d]
    BY <1>1, <1>2
  <2> QED
    BY <1>1, <2>1, RowStays
<1>5. /\ \A a \in Accounts \ {b} : balance'[a] = balance[a]
      /\ balance'[b].reserved = Floor0(balance[b].reserved + 1 * Need)
      /\ balance'[b].cost = Floor0(balance[b].cost + 0)
      /\ balance'[b].consumed = Floor0(balance[b].consumed + 1 * 0 + 0)
  <2>1. balance[b].reserved \in Nat /\ balance[b].cost \in Nat /\ balance[b].consumed \in Nat
    BY <1>1 DEF Balance
  <2>2. /\ \A a \in Accounts \ {b} : balance'[a] = balance[a]
        /\ balance'[b].reserved = balance[b].reserved + Need
        /\ balance'[b].cost = balance[b].cost /\ balance'[b].consumed = balance[b].consumed
    BY <1>1, <1>2 DEF Balance
  <2> HIDE DEF b
  <2> QED
    BY <2>1, <2>2, AmountsTyped, FloorOf
<1>6. IsFiniteSet(DOMAIN adjustments') /\ \A a : Credited(a)' = Credited(a) + (IF a = b THEN 0 ELSE 0)
  BY <1>2, AdjustmentsSame
<1>7. 1 = Cardinality({c}) /\ 1 * 0 + 0 >= 1 * 0 /\ -(1 * 0) <= 2 * (0 - 1 * 0) /\ 2 * (0 - 1 * 0) <= 1 * 0
  BY FS_Singleton
<1>8. LedgerMoves(b, {c}, 1, Need, 0, 0, 0, 0, 0, 0)
  BY <1>3, <1>4, <1>5, <1>6, <1>7 DEF LedgerMoves
<1> QED
  BY <1>1, <1>8, AmountsTyped, LedgerStep

LEMMA SettleLedger ==
  ASSUME LedgerInv, TypeOK', NEW c \in Calls, Settle(c), Unsettled(c) PROVE LedgerInv'
<1> DEFINE b == AccountOf[c]
           o == Outcome(c)
<1>1. /\ ledger \in [Calls -> Row] /\ balance \in [Accounts -> Balance] /\ b \in Accounts /\ TypeOK
      /\ \A d \in Calls : EntryOK(ledger[d])
  BY TypeParts, CallsFit DEF LedgerInv, RowsTyped, BalanceTyped, EntriesOK
<1>2. /\ ledger' = [ledger EXCEPT ![c].status = o.status, ![c].consumed = o.consumed, ![c].actual = o.actual]
      /\ balance' = [balance EXCEPT ![b] = Settled(@, o.consumed, o.cost)]
      /\ adjustments' = adjustments /\ ledger[c].status = "reserved"
  BY DEF Settle, Unsettled
<1>3. /\ o.status \in Statuses \ {"none", "reserved"}
      /\ o.cost \in Nat /\ o.consumed \in Nat /\ o.actual \in Amounts
  BY <1>1, TypeParts, OutcomeTyped
<1>4. /\ o.status # "reconciled"
      /\ o.cost = IF o.status = "released" THEN 0 ELSE IF o.actual # Nothing THEN o.actual ELSE Estimate
  <2>1. handle[c].units \in Amounts
    BY <1>1, TypeParts DEF CallsTyped, Handle
  <2> QED
    BY <2>1 DEF Outcome
<1> DEFINE k == IF o.status = "released" THEN 0 ELSE Grain + 1
           x == Rounded(o.cost)
<1>x. Rounded(o.cost) \in Nat
  BY <1>3, RoundedTyped
<1>k. k \in Nat /\ x \in Int /\ -k <= 2 * (x - o.cost) /\ 2 * (x - o.cost) <= k
  <2>1. x \in Int /\ -Grain <= 2 * (x - o.cost) /\ 2 * (x - o.cost) <= Grain /\ (o.cost = 0 => x = 0)
    BY <1>3, RoundedTyped
  <2>2. Grain \in Nat
    BY AmountsAssumption
  <2> HIDE DEF o, x
  <2> QED
    BY <1>3, <1>4, <2>1, <2>2
<1> HIDE DEF o, x
<1>xn. x \in Nat
  BY <1>x DEF x
<1>5. EntryOK(ledger'[c]) /\ RowMoved(ledger[c], ledger'[c], -Need, o.consumed, o.cost, o.consumed, k)
  <2>1. ledger'[c].status = o.status /\ ledger'[c].consumed = o.consumed /\ ledger'[c].actual = o.actual
    BY <1>1, <1>2 DEF Row
  <2>2. ledger[c].consumed = Nothing /\ ledger[c].actual = Nothing
    BY <1>1, <1>2 DEF EntryOK
  <2>3. o.consumed # Nothing
    BY <1>3, AmountsTyped
  <2>4. SlackIn(ledger[c]) = 0 /\ SlackIn(ledger'[c]) = k
    BY <1>2, <1>3, <1>4, <2>1, SlackOfRow DEF Statuses
  <2> HIDE DEF k
  <2> QED
    BY <1>2, <1>3, <1>4, <1>k, <2>1, <2>2, <2>3, <2>4, AmountsTyped DEF EntryOK, RowMoved, ReservedIn, ConsumedIn, CostIn, OpenIn
<1>6. \A d \in Calls \ {c} : EntryOK(ledger'[d]) /\ RowMoved(ledger[d], ledger'[d], 0, 0, 0, 0, 0)
  <2>1. \A d \in Calls \ {c} : ledger'[d] = ledger[d]
    BY <1>1, <1>2
  <2> QED
    BY <1>1, <2>1, RowStays
<1>7. /\ \A a \in Accounts \ {b} : balance'[a] = balance[a]
      /\ balance'[b].reserved = Floor0(balance[b].reserved + 1 * (-Need))
      /\ balance'[b].cost = Floor0(balance[b].cost + x)
      /\ balance'[b].consumed = Floor0(balance[b].consumed + 1 * o.consumed + 0)
  <2>1. balance[b].reserved \in Nat /\ balance[b].cost \in Nat /\ balance[b].consumed \in Nat
    BY <1>1 DEF Balance
  <2>2. /\ \A a \in Accounts \ {b} : balance'[a] = balance[a]
        /\ balance'[b].reserved = Floor0(balance[b].reserved - Need)
        /\ balance'[b].cost = balance[b].cost + x /\ balance'[b].consumed = balance[b].consumed + o.consumed
    BY <1>1, <1>2 DEF Balance, Settled, x
  <2>3. /\ balance[b].reserved - Need = balance[b].reserved + 1 * (-Need)
        /\ balance[b].cost + x \in Nat
        /\ balance[b].consumed + o.consumed = balance[b].consumed + 1 * o.consumed + 0
        /\ balance[b].consumed + o.consumed \in Nat
    BY <1>3, <1>xn, <2>1, AmountsTyped
  <2> HIDE DEF b
  <2>4. \A n \in Nat : n = Floor0(n)
    BY FloorOf
  <2> QED
    BY <2>2, <2>3, <2>4
<1>8. IsFiniteSet(DOMAIN adjustments') /\ \A a : Credited(a)' = Credited(a) + (IF a = b THEN 0 ELSE 0)
  BY <1>2, AdjustmentsSame
<1>9. 1 = Cardinality({c}) /\ 1 * o.consumed + 0 >= 1 * o.consumed /\ -Need \in Int
  <2>1. 1 = Cardinality({c})
    BY FS_Singleton
  <2>2. 1 * o.consumed + 0 >= 1 * o.consumed
    BY <1>3
  <2> QED
    BY <2>1, <2>2, AmountsTyped
<1>10. LedgerMoves(b, {c}, 1, -Need, o.consumed, o.cost, o.consumed, k, 0, x)
  <2>1. -(1 * k) <= 2 * (x - 1 * o.cost) /\ 2 * (x - 1 * o.cost) <= 1 * k
    BY <1>3, <1>k
  <2> HIDE DEF k
  <2> QED
    BY <1>5, <1>6, <1>7, <1>8, <1>9, <2>1 DEF LedgerMoves
<1>11. {c} \in SUBSET Calls /\ 1 \in Nat /\ o.consumed \in Int /\ o.cost \in Int /\ 0 \in Int /\ k \in Int /\ x \in Int
  BY <1>3, <1>k
<1> HIDE DEF b, k
<1> QED
  BY <1>1, <1>9, <1>10, <1>11, LedgerStep

LEMMA ExpireLedger ==
  ASSUME LedgerInv, TypeOK', NEW b \in Accounts, Expire(b) PROVE LedgerInv'
<1> DEFINE D == Expired(b)
           n == Cardinality(D)
           m == Rounded(Estimate)
<1>1. /\ ledger \in [Calls -> Row] /\ balance \in [Accounts -> Balance] /\ TypeOK
      /\ \A d \in Calls : EntryOK(ledger[d])
  BY TypeParts DEF LedgerInv, RowsTyped, BalanceTyped, EntriesOK
<1>2. D \in SUBSET Calls /\ n \in Nat
  BY CallsAssumption, FS_Subset, FS_CardinalityType DEF Expired
<1>m. m \in Nat /\ Grain \in Nat /\ -Grain <= 2 * (m - Estimate) /\ 2 * (m - Estimate) <= Grain
  BY RoundedTyped, AmountsTyped, AmountsAssumption
<1>3. /\ ledger' = [c \in Calls |-> IF c \in D THEN ExpiredRow(ledger[c]) ELSE ledger[c]]
      /\ balance' = [balance EXCEPT ![b] = [reserved |-> Floor0(balance[b].reserved - n * Need),
                       consumed |-> balance[b].consumed + n * Need, cost |-> balance[b].cost + n * m]]
      /\ adjustments' = adjustments
  BY DEF Expire
<1>4. \A c \in D : c \in Calls /\ AccountOf[c] = b /\ ledger[c].status = "reserved"
  BY DEF Expired
<1> HIDE DEF D, n, m
<1>5. ASSUME NEW c \in D
      PROVE  AccountOf[c] = b /\ EntryOK(ledger'[c]) /\ RowMoved(ledger[c], ledger'[c], -Need, Need, Estimate, Need, Grain + 1)
  <2>1. /\ ledger'[c].status = "pending_reconciliation" /\ ledger'[c].consumed = Need
        /\ ledger'[c].actual = ledger[c].actual
    BY <1>1, <1>3, <1>4 DEF ExpiredRow, Row
  <2>2. ledger[c].consumed = Nothing /\ ledger[c].actual = Nothing
    BY <1>1, <1>4 DEF EntryOK
  <2> QED
    BY <1>4, <1>m, <2>1, <2>2, AmountsTyped, SlackOfRow DEF EntryOK, RowMoved, ReservedIn, ConsumedIn, CostIn, OpenIn
<1>6. \A c \in Calls \ D : EntryOK(ledger'[c]) /\ RowMoved(ledger[c], ledger'[c], 0, 0, 0, 0, 0)
  <2>1. \A c \in Calls \ D : ledger'[c] = ledger[c]
    BY <1>3
  <2> QED
    BY <1>1, <2>1, RowStays
<1>7. /\ \A a \in Accounts \ {b} : balance'[a] = balance[a]
      /\ balance'[b].reserved = Floor0(balance[b].reserved + n * (-Need))
      /\ balance'[b].cost = Floor0(balance[b].cost + n * m)
      /\ balance'[b].consumed = Floor0(balance[b].consumed + n * Need + 0)
  <2>1. balance[b].reserved \in Nat /\ balance[b].cost \in Nat /\ balance[b].consumed \in Nat
    BY <1>1 DEF Balance
  <2>2. n * Need \in Nat /\ n * m \in Nat /\ n * (-Need) = -(n * Need)
    <3>1. \A x, y \in Nat : x * y \in Nat /\ x * (-y) = -(x * y)
      OBVIOUS
    <3> QED
      BY <1>2, <1>m, <3>1, AmountsTyped
  <2>3. PICK res \in Nat, cst \in Nat : res = n * Need /\ cst = n * m
    BY <2>2
  <2>4. /\ \A a \in Accounts \ {b} : balance'[a] = balance[a]
        /\ balance'[b].reserved = Floor0(balance[b].reserved - res)
        /\ balance'[b].cost = balance[b].cost + cst /\ balance'[b].consumed = balance[b].consumed + res
    BY <1>1, <1>3, <2>3 DEF Balance
  <2>5. /\ balance[b].reserved - res = balance[b].reserved + (-res)
        /\ balance[b].cost + cst \in Nat /\ balance[b].consumed + res = balance[b].consumed + res + 0
        /\ balance[b].consumed + res \in Nat
    BY <2>1
  <2>6. \A i \in Nat : i = Floor0(i)
    BY FloorOf
  <2>7. /\ balance'[b].reserved = Floor0(balance[b].reserved + (-res))
        /\ balance'[b].cost = Floor0(balance[b].cost + cst)
        /\ balance'[b].consumed = Floor0(balance[b].consumed + res + 0)
    BY <2>4, <2>5, <2>6
  <2>8. n * (-Need) = -res
    BY <2>2, <2>3
  <2> QED
    BY <2>3, <2>4, <2>7, <2>8
<1>8. IsFiniteSet(DOMAIN adjustments') /\ \A a : Credited(a)' = Credited(a) + (IF a = b THEN 0 ELSE 0)
  BY <1>3, AdjustmentsSame
<1>9. n = Cardinality(D) /\ n * Need + 0 >= n * Need /\ -Need \in Int
  <2>1. n * Need \in Nat
    <3>1. \A x, y \in Nat : x * y \in Nat
      OBVIOUS
    <3> QED
      BY <1>2, <3>1, AmountsTyped
  <2> QED
    BY <2>1, AmountsTyped DEF n
<1>10. /\ -(n * (Grain + 1)) <= 2 * (n * m - n * Estimate) /\ 2 * (n * m - n * Estimate) <= n * (Grain + 1)
       /\ n * m \in Int
  <2>1. \A w \in Nat, y, z, g \in Int : -g <= 2 * (y - z) /\ 2 * (y - z) <= g
          => -(w * (g + 1)) <= 2 * (w * y - w * z) /\ 2 * (w * y - w * z) <= w * (g + 1)
    <3>1. ASSUME NEW w \in Nat, NEW y \in Int, NEW z \in Int, NEW g \in Int,
                 -g <= 2 * (y - z), 2 * (y - z) <= g
          PROVE  -(w * (g + 1)) <= 2 * (w * y - w * z) /\ 2 * (w * y - w * z) <= w * (g + 1)
      <4>1. 2 * (w * y - w * z) = w * (2 * (y - z)) /\ -(w * (g + 1)) = w * (-(g + 1))
        OBVIOUS
      <4>2. \A i, j \in Int : i <= j => w * i <= w * j
        OBVIOUS
      <4>3. -(g + 1) <= 2 * (y - z) /\ 2 * (y - z) <= g + 1
        BY <3>1
      <4> QED
        BY <4>1, <4>2, <4>3
    <3> QED
      BY <3>1
  <2>2. \A y, z \in Nat : y * z \in Int
    OBVIOUS
  <2> QED
    BY <1>2, <1>m, <2>1, <2>2, AmountsTyped
<1>11. LedgerMoves(b, D, n, -Need, Need, Estimate, Need, Grain + 1, 0, n * m)
  BY <1>5, <1>6, <1>7, <1>8, <1>9, <1>10 DEF LedgerMoves
<1>12. Grain + 1 \in Int /\ Estimate \in Int /\ Need \in Int /\ 0 \in Int
  BY <1>m, AmountsTyped
<1> QED
  BY <1>2, <1>9, <1>10, <1>11, <1>12, LedgerStep

LEMMA AgeLedger ==
  ASSUME LedgerInv, TypeOK', NEW c \in Calls, Age(c) PROVE LedgerInv'
<1> DEFINE b == AccountOf[c]
<1>1. /\ ledger \in [Calls -> Row] /\ balance \in [Accounts -> Balance] /\ b \in Accounts /\ TypeOK
      /\ \A d \in Calls : EntryOK(ledger[d])
  BY TypeParts, CallsFit DEF LedgerInv, RowsTyped, BalanceTyped, EntriesOK
<1>2. ledger' = [ledger EXCEPT ![c].stale = TRUE] /\ balance' = balance /\ adjustments' = adjustments
  BY DEF Age
<1>3. \A d \in Calls : /\ ledger'[d].status = ledger[d].status /\ ledger'[d].consumed = ledger[d].consumed
                       /\ ledger'[d].actual = ledger[d].actual
  BY <1>1, <1>2 DEF Row
<1>4. ASSUME NEW d \in Calls
      PROVE  EntryOK(ledger'[d]) /\ RowMoved(ledger[d], ledger'[d], 0, 0, 0, 0, 0)
  <2>1. RowMoved(ledger[d], ledger[d], 0, 0, 0, 0, 0) /\ EntryOK(ledger[d])
    BY <1>1, RowStays
  <2> QED
    BY <1>3, <2>1 DEF EntryOK, RowMoved, ReservedIn, ConsumedIn, CostIn, OpenIn, SlackIn
<1>5. /\ \A a \in Accounts \ {b} : balance'[a] = balance[a]
      /\ balance'[b].reserved = Floor0(balance[b].reserved + 0 * 0)
      /\ balance'[b].cost = Floor0(balance[b].cost + 0)
      /\ balance'[b].consumed = Floor0(balance[b].consumed + 0 * 0 + 0)
  <2>1. balance[b].reserved \in Nat /\ balance[b].cost \in Nat /\ balance[b].consumed \in Nat
    BY <1>1 DEF Balance
  <2> QED
    BY <1>2, <2>1, FloorOf
<1>6. IsFiniteSet(DOMAIN adjustments') /\ \A a : Credited(a)' = Credited(a) + (IF a = b THEN 0 ELSE 0)
  BY <1>2, AdjustmentsSame
<1>7. 0 = Cardinality({}) /\ 0 * 0 + 0 >= 0 * 0 /\ -(0 * 0) <= 2 * (0 - 0 * 0) /\ 2 * (0 - 0 * 0) <= 0 * 0
  BY FS_EmptySet
<1>8. LedgerMoves(b, {}, 0, 0, 0, 0, 0, 0, 0, 0)
  BY <1>4, <1>5, <1>6, <1>7 DEF LedgerMoves
<1>9. {} \in SUBSET Calls /\ 0 \in Nat /\ 0 \in Int
  OBVIOUS
<1> QED
  BY <1>1, <1>8, <1>9, LedgerStep

LEMMA ReconcileLedger ==
  ASSUME LedgerInv, TypeOK', NEW c \in Calls, NEW actual \in Costs, NEW ref \in References,
         Reconcile(c, actual, ref)
  PROVE  LedgerInv'
<1> DEFINE b == AccountOf[c]
           spent == ledger[c].consumed
           delta == actual - spent
           costDelta == actual - CountedCost(c)
           x == Rounded(costDelta)
<1>1. /\ ledger \in [Calls -> Row] /\ balance \in [Accounts -> Balance] /\ b \in Accounts /\ TypeOK
      /\ \A d \in Calls : EntryOK(ledger[d])
  BY TypeParts, CallsFit DEF LedgerInv, RowsTyped, BalanceTyped, EntriesOK
<1>2. /\ ledger[c].status = "pending_reconciliation" /\ AddAdjustment(ref, b, delta, costDelta)
      /\ ledger' = [ledger EXCEPT ![c].status = "reconciled", ![c].actual = actual]
      /\ balance' = [balance EXCEPT ![b].consumed = Floor0(@ + delta), ![b].cost = Floor0(@ + x)]
  BY DEF Reconcile
<1>3. actual \in Nat /\ actual # Nothing /\ spent \in Nat /\ spent # Nothing /\ CountedCost(c) \in Nat
  <2>1. spent \in Amounts /\ ledger[c].actual \in Amounts
    BY <1>1 DEF Row
  <2>2. spent # Nothing
    BY <1>1, <1>2 DEF EntryOK
  <2> QED
    BY <2>1, <2>2, AmountsTyped DEF Amounts, CountedCost
<1>4. CountedCost(c) = CostIn(ledger[c]) /\ ConsumedIn(ledger[c]) = spent
  BY <1>2, <1>3 DEF CountedCost, CostIn, ConsumedIn
<1> HIDE DEF spent
<1>5. EntryOK(ledger'[c]) /\ RowMoved(ledger[c], ledger'[c], 0, 0, costDelta, -spent, Grain + 1)
  <2>1. ledger'[c].status = "reconciled" /\ ledger'[c].actual = actual /\ ledger'[c].consumed = spent
    BY <1>1, <1>2 DEF Row, spent
  <2>2. /\ ReservedIn(ledger[c]) = 0 /\ ReservedIn(ledger'[c]) = 0
        /\ ConsumedIn(ledger'[c]) = spent /\ CostIn(ledger'[c]) = actual /\ OpenIn(ledger'[c]) = 0
        /\ OpenIn(ledger[c]) = spent
    BY <1>2, <1>3, <1>4, <2>1 DEF ReservedIn, ConsumedIn, CostIn, OpenIn
  <2>3. SlackIn(ledger[c]) = Grain + 1 /\ SlackIn(ledger'[c]) = 2 * (Grain + 1) /\ Grain \in Nat
    BY <1>2, <2>1, SlackOfRow, AmountsAssumption
  <2>4. RowMoved(ledger[c], ledger'[c], 0, 0, costDelta, -spent, Grain + 1)
    BY <1>3, <1>4, <2>2, <2>3 DEF RowMoved
  <2> QED
    BY <1>3, <2>1, <2>4 DEF EntryOK
<1>6. \A d \in Calls \ {c} : EntryOK(ledger'[d]) /\ RowMoved(ledger[d], ledger'[d], 0, 0, 0, 0, 0)
  <2>1. \A d \in Calls \ {c} : ledger'[d] = ledger[d]
    BY <1>1, <1>2
  <2> QED
    BY <1>1, <2>1, RowStays
<1>7. delta \in Int /\ costDelta \in Int /\ -spent \in Int /\ delta >= -spent
  BY <1>3
<1>8. IsFiniteSet(DOMAIN adjustments') /\ \A a : Credited(a)' = Credited(a) + (IF a = b THEN delta ELSE 0)
  <2>1. IsFiniteSet(DOMAIN adjustments)
    BY DEF LedgerInv
  <2> HIDE DEF delta, costDelta, b
  <2> QED
    BY <1>1, <1>2, <1>7, <2>1, AdjustmentAdded
<1>x. x \in Int /\ Grain \in Nat /\ -Grain <= 2 * (x - costDelta) /\ 2 * (x - costDelta) <= Grain
  BY <1>7, RoundedTyped, AmountsAssumption
<1> HIDE DEF delta, costDelta, x
<1>9. /\ \A a \in Accounts \ {b} : balance'[a] = balance[a]
      /\ balance'[b].reserved = Floor0(balance[b].reserved + 1 * 0)
      /\ balance'[b].cost = Floor0(balance[b].cost + x)
      /\ balance'[b].consumed = Floor0(balance[b].consumed + 1 * 0 + delta)
  <2>1. balance[b].reserved \in Nat /\ balance[b].cost \in Nat /\ balance[b].consumed \in Nat
    BY <1>1 DEF Balance
  <2>2. /\ \A a \in Accounts \ {b} : balance'[a] = balance[a]
        /\ balance'[b].reserved = balance[b].reserved
        /\ balance'[b].cost = Floor0(balance[b].cost + x)
        /\ balance'[b].consumed = Floor0(balance[b].consumed + delta)
    BY <1>1, <1>2 DEF Balance
  <2>3. /\ balance[b].reserved + 1 * 0 = balance[b].reserved
        /\ balance[b].consumed + 1 * 0 + delta = balance[b].consumed + delta
    BY <1>7, <2>1
  <2> HIDE DEF b
  <2>4. Floor0(balance[b].reserved) = balance[b].reserved
    BY <2>1, FloorOf
  <2> QED
    BY <2>2, <2>3, <2>4
<1>10. /\ 1 = Cardinality({c}) /\ 1 * 0 + delta >= 1 * (-spent)
       /\ -(1 * (Grain + 1)) <= 2 * (x - 1 * costDelta) /\ 2 * (x - 1 * costDelta) <= 1 * (Grain + 1)
  <2>1. 1 = Cardinality({c})
    BY FS_Singleton
  <2>2. 1 * 0 + delta >= 1 * (-spent)
    BY <1>7
  <2>3. -(1 * (Grain + 1)) <= 2 * (x - 1 * costDelta) /\ 2 * (x - 1 * costDelta) <= 1 * (Grain + 1)
    BY <1>7, <1>x
  <2> QED
    BY <2>1, <2>2, <2>3
<1>11. LedgerMoves(b, {c}, 1, 0, 0, costDelta, -spent, Grain + 1, delta, x)
  BY <1>5, <1>6, <1>8, <1>9, <1>10 DEF LedgerMoves
<1>12. {c} \in SUBSET Calls /\ 1 \in Nat /\ 0 \in Int /\ Grain + 1 \in Int
  BY <1>x
<1> HIDE DEF b
<1> QED
  BY <1>1, <1>7, <1>x, <1>11, <1>12, LedgerStep

LEMMA AdjustLedger ==
  ASSUME LedgerInv, TypeOK', NEW b \in Accounts, NEW delta \in AdminDeltas, NEW ref \in References,
         AdjustCredits(b, delta, ref)
  PROVE  LedgerInv'
<1>1. /\ ledger \in [Calls -> Row] /\ balance \in [Accounts -> Balance] /\ TypeOK
      /\ \A d \in Calls : EntryOK(ledger[d])
  BY TypeParts DEF LedgerInv, RowsTyped, BalanceTyped, EntriesOK
<1>2. /\ ledger' = ledger /\ AddAdjustment(ref, b, delta, 0) /\ delta \in Int
      /\ balance' = [balance EXCEPT ![b].consumed = Floor0(@ + delta)]
  BY AmountsAssumption DEF AdjustCredits
<1>3. \A d \in Calls : EntryOK(ledger'[d]) /\ RowMoved(ledger[d], ledger'[d], 0, 0, 0, 0, 0)
  BY <1>1, <1>2, RowStays
<1>4. IsFiniteSet(DOMAIN adjustments') /\ \A a : Credited(a)' = Credited(a) + (IF a = b THEN delta ELSE 0)
  <2>1. IsFiniteSet(DOMAIN adjustments)
    BY DEF LedgerInv
  <2> QED
    BY <1>1, <1>2, <2>1, AdjustmentAdded
<1>5. /\ \A a \in Accounts \ {b} : balance'[a] = balance[a]
      /\ balance'[b].reserved = Floor0(balance[b].reserved + 0 * 0)
      /\ balance'[b].cost = Floor0(balance[b].cost + 0)
      /\ balance'[b].consumed = Floor0(balance[b].consumed + 0 * 0 + delta)
  <2>1. balance[b].reserved \in Nat /\ balance[b].cost \in Nat /\ balance[b].consumed \in Nat
    BY <1>1 DEF Balance
  <2>2. /\ \A a \in Accounts \ {b} : balance'[a] = balance[a]
        /\ balance'[b].reserved = balance[b].reserved /\ balance'[b].cost = balance[b].cost
        /\ balance'[b].consumed = Floor0(balance[b].consumed + delta)
    BY <1>1, <1>2 DEF Balance
  <2>3. Floor0(balance[b].reserved) = balance[b].reserved /\ Floor0(balance[b].cost) = balance[b].cost
    BY <2>1, FloorOf
  <2>4. /\ balance[b].reserved + 0 * 0 = balance[b].reserved /\ balance[b].cost + 0 = balance[b].cost
        /\ balance[b].consumed + 0 * 0 + delta = balance[b].consumed + delta
    BY <1>2, <2>1
  <2> QED
    BY <2>2, <2>3, <2>4
<1>6. /\ 0 = Cardinality({}) /\ (AdminDeltas \subseteq Nat => 0 * 0 + delta >= 0 * 0)
      /\ -(0 * 0) <= 2 * (0 - 0 * 0) /\ 2 * (0 - 0 * 0) <= 0 * 0
  BY FS_EmptySet
<1>7. LedgerMoves(b, {}, 0, 0, 0, 0, 0, 0, delta, 0)
  BY <1>3, <1>4, <1>5, <1>6 DEF LedgerMoves
<1>8. {} \in SUBSET Calls /\ 0 \in Nat /\ 0 \in Int
  OBVIOUS
<1> QED
  BY <1>2, <1>7, <1>8, LedgerStep

LEMMA NextLedgerInv == LedgerInv /\ [Next]_vars => LedgerInv'
<1> SUFFICES ASSUME LedgerInv, [Next]_vars PROVE LedgerInv'
  OBVIOUS
<1>t. TypeOK'
  BY NextTyped DEF LedgerInv
<1>1. ASSUME NEW c \in Calls, Reserve(c), ~Charge(c) PROVE UNCHANGED <<ledger, balance, adjustments>>
  BY <1>1 DEF Reserve, LockAccount, CheckKey, RefuseEarly, LockCap, RefuseCap, CapsChecked, DeadlockAbort,
              CountInFlight, RefuseConcurrency, RefuseCharge, Refuse
<1>2. ASSUME NEW c \in Calls, CallProvider(c) \/ Crash(c) PROVE UNCHANGED <<ledger, balance, adjustments>>
  BY <1>2 DEF CallProvider, Send, Measured, BilledUnreported, ErrorResponse, Answered, Leave, Crash
<1>3. ASSUME NEW c \in Calls, Settle(c), ~Unsettled(c) PROVE UNCHANGED <<ledger, balance, adjustments>>
  BY <1>3 DEF Settle
<1>4. CASE UNCHANGED vars
  BY <1>4, <1>t, LedgerSame DEF vars
<1>5. ASSUME NEW c \in Calls, Reserve(c) \/ CallProvider(c) \/ Settle(c) \/ Crash(c) \/ Age(c) PROVE LedgerInv'
  BY <1>t, <1>1, <1>2, <1>3, <1>5, LedgerSame, ChargeLedger, SettleLedger, AgeLedger
<1>6. ASSUME NEW a \in Accounts, Expire(a) PROVE LedgerInv'
  BY <1>t, <1>6, ExpireLedger
<1>7. CASE Operator
  BY <1>t, <1>7, ReconcileLedger, AdjustLedger DEF Operator
<1> QED
  BY <1>4, <1>5, <1>6, <1>7 DEF Next

LEMMA InitLedgerInv == Init => LedgerInv
<1> SUFFICES ASSUME Init PROVE LedgerInv
  OBVIOUS
<1>1. TypeOK /\ EntriesOK
  BY InitTyped DEF Init, EntriesOK, EntryOK, NoRow
<1>2. DOMAIN adjustments = {} /\ IsFiniteSet({})
  BY FS_EmptySet DEF Init
<1>3. ASSUME NEW a PROVE Rows(a) = {} /\ Adjusted(a) = {}
  BY <1>2 DEF Init, Rows, Inserted, Adjusted, NoRow
<1>4. \A a : /\ LedgerReserved(a) = 0 /\ LedgerCost(a) = 0 /\ Slack(a) = 0
             /\ LedgerConsumed(a) = 0 + 0 /\ OpenConsumed(a) = 0
  BY <1>3, SumOfNone DEF LedgerReserved, LedgerCost, LedgerConsumed, OpenConsumed, Slack
<1>5. \A a \in Accounts : balance[a].reserved = 0 /\ balance[a].consumed = 0 /\ balance[a].cost = 0
  BY DEF Init
<1> QED
  BY <1>1, <1>2, <1>4, <1>5 DEF LedgerInv, AccountOK

\* Where operators enter debits alone, the balance every admission reads stays the
\* sum of the ledger, and its cost that sum up to the rounding of each booking,
\* however reservations, settlements, expiry and reconciliation of any number of
\* calls interleave.  (A credit may be cut at zero.)
THEOREM BalanceHolds ==
  ASSUME AdminDeltas \subseteq Nat PROVE Spec => []BalanceIsLedger
<1>1. LedgerInv => BalanceIsLedger
  BY DEF LedgerInv, AccountOK, BalanceIsLedger
<1> QED
  BY <1>1, InitLedgerInv, NextLedgerInv, PTL DEF Spec

\* Whatever operators enter, no customer call is admitted past the plan's limit,
\* counted over the ledger: the balance is never below it.
THEOREM AdmissionsLimited == Spec => AdmittedWithinLimit
<1> DEFINE Admitted == \A c \in Calls \ Recovery :
                         (ledger[c].status = "none" /\ ledger'[c].status = "reserved")
                           => LedgerConsumed(AccountOf[c]) + LedgerReserved(AccountOf[c]) + Need <= Limit
<1>1. ASSUME LedgerInv, [Next]_vars PROVE Admitted
  <2> SUFFICES ASSUME NEW c \in Calls \ Recovery, ledger[c].status = "none", ledger'[c].status = "reserved"
               PROVE  LedgerConsumed(AccountOf[c]) + LedgerReserved(AccountOf[c]) + Need <= Limit
    OBVIOUS
  <2>1. TypeOK /\ RowMoves(c)
    BY <1>1, RowsNext DEF LedgerInv
  <2>2. Charge(c)
    BY <2>1 DEF RowMoves, Unsettled
  <2> DEFINE a == AccountOf[c]
  <2>3. balance[a].consumed + balance[a].reserved + Need <= Limit
    BY <2>2 DEF Charge, Fits
  <2>4. a \in Accounts /\ balance[a].reserved = LedgerReserved(a) /\ balance[a].consumed >= LedgerConsumed(a)
    BY <1>1, CallsFit DEF LedgerInv, AccountOK
  <2>5. balance[a].consumed \in Nat /\ balance[a].reserved \in Nat
    BY <2>1, <2>4, TypeParts DEF BalanceTyped, Balance
  <2>6. LedgerConsumed(a) \in Int
    <3>1. RowsConsumed(a) \in Nat /\ Credited(a) \in Int
      BY <1>1, <2>1, CreditedTyped, SumsOfRows, SumsTyped, TypeParts DEF LedgerInv, RowsTyped
    <3>2. LedgerConsumed(a) = RowsConsumed(a) + Credited(a)
      BY DEF LedgerConsumed, RowsConsumed, Credited
    <3> QED
      BY <3>1, <3>2
  <2> HIDE DEF a
  <2>7. LedgerConsumed(a) + LedgerReserved(a) + Need <= Limit
    BY <2>3, <2>4, <2>5, <2>6, AmountsTyped, AmountsAssumption
  <2> QED
    BY <2>7 DEF a
<1> QED
  BY <1>1, InitLedgerInv, NextLedgerInv, PTL DEF Spec, AdmittedWithinLimit

-----------------------------------------------------------------------------
(* The monthly caps.                                                        *)

\* What a month's spend counts of a row.
SpentIn(row) == IF row.status \in {"none", "released"} THEN 0
                ELSE IF row.actual # Nothing THEN row.actual ELSE Estimate
SpentOn(rows, n) == [c \in Calls |-> IF n \in ControlsOf[c] THEN SpentIn(rows[c]) ELSE 0]
Spend(rows, n) == SumFunctionOnSet(SpentOn(rows, n), Calls)

Checking == {"caps", "counting", "charging"}
Passed(at, open, c, n) == n \in ControlsOf[c] /\ at[c] \in Checking /\ n \notin open[c]

\* A reservation holds the lock of each cap it has passed, and the cap has room
\* for it until it is inserted or given up.
CapsInv ==
  /\ TypeOK /\ EntriesOK
  /\ \A c \in Calls : handle[c].units \in Costs \cup {Nothing}
  /\ \A c \in Calls : pc[c] \in {"counting", "charging"} => toLock[c] = {}
  /\ \A c \in Calls, n \in Controls : Passed(pc, toLock, c, n) => capLock[n] = c /\ Spend(ledger, n) + Estimate <= Cap[n]
  /\ \A n \in Controls : Spend(ledger, n) <= Cap[n]

\* Reconciliation books no more than the caps had counted.
NoneRaised ==
  \A c \in Calls : ledger[c].status = "pending_reconciliation" /\ ledger'[c].status = "reconciled"
                     => ledger'[c].actual <= CountedCost(c)

LEMMA SpentTyped ==
  ASSUME NEW rows \in [Calls -> Row], NEW n
  PROVE  /\ \A c \in Calls : SpentIn(rows[c]) \in Nat /\ SpentOn(rows, n)[c] \in Int
         /\ Spend(rows, n) \in Int
<1>1. \A c \in Calls : SpentIn(rows[c]) \in Nat
  BY AmountsTyped DEF SpentIn, Row, Amounts
<1>2. \A c \in Calls : SpentOn(rows, n)[c] \in Int
  BY <1>1 DEF SpentOn
<1> QED
  BY <1>1, <1>2, SumOfOneMore, CallsAssumption DEF Spend

LEMMA SpendIsCounted ==
  ASSUME NEW rows \in [Calls -> Row], NEW n
  PROVE  SumFunctionOnSet([c \in Calls |-> IF rows[c].actual # Nothing THEN rows[c].actual ELSE Estimate],
                          {c \in Calls : n \in ControlsOf[c] /\ rows[c].status \notin {"none", "released"}})
           = Spend(rows, n)
<1> DEFINE f == [c \in Calls |-> IF rows[c].actual # Nothing THEN rows[c].actual ELSE Estimate]
           R == {c \in Calls : n \in ControlsOf[c] /\ rows[c].status \notin {"none", "released"}}
           e == [c \in Calls |-> IF c \in R THEN f[c] ELSE 0]
<1>1. IsFiniteSet(Calls) /\ R \in SUBSET Calls
  BY CallsAssumption
<1>2. \A c \in R : f[c] \in Int
  BY AmountsTyped DEF Row, Amounts
<1>3. \A c \in Calls : e[c] = SpentOn(rows, n)[c]
  BY DEF SpentOn, SpentIn
<1> HIDE DEF f, R
<1>4. SumFunctionOnSet(f, R) = SumFunctionOnSet(e, Calls)
  BY <1>1, <1>2, SumOfPart
<1> HIDE DEF e
<1>5. SumFunctionOnSet(e, Calls) = SumFunctionOnSet(SpentOn(rows, n), Calls)
  BY <1>1, <1>3, SumOfSame
<1> QED
  BY <1>4, <1>5 DEF f, R, Spend

LEMMA SpendOfMonth == TypeOK => \A n : MonthSpend(n) = Spend(ledger, n)
<1> SUFFICES ASSUME TypeOK, NEW n PROVE MonthSpend(n) = Spend(ledger, n)
  OBVIOUS
<1>1. ledger \in [Calls -> Row]
  BY TypeParts DEF RowsTyped
<1> QED
  BY <1>1, SpendIsCounted DEF MonthSpend, CountedCost

\* Rows that cost no more than before spend no more.
LEMMA SpendFalls ==
  ASSUME NEW old \in [Calls -> Row], NEW new \in [Calls -> Row], NEW n,
         \A c \in Calls : SpentIn(new[c]) <= SpentIn(old[c])
  PROVE  Spend(new, n) <= Spend(old, n)
<1>1. \A c \in Calls : /\ SpentOn(old, n)[c] \in Int /\ SpentOn(new, n)[c] \in Int
  BY SpentTyped
<1>2. \A c \in Calls : SpentOn(new, n)[c] <= SpentOn(old, n)[c]
  BY DEF SpentOn
<1> QED
  BY <1>1, <1>2, SumOfSmaller, CallsAssumption DEF Spend

\* The insertion of a row spends its estimate on the controls of its call.
LEMMA SpendOfCharge ==
  ASSUME TypeOK, NEW c \in Calls, Charge(c), NEW n
  PROVE  Spend(ledger', n) = Spend(ledger, n) + (IF n \in ControlsOf[c] THEN Estimate ELSE 0)
<1> DEFINE new == [NoRow EXCEPT !.status = "reserved"]
<1>1. /\ ledger \in [Calls -> Row] /\ ledger' = [ledger EXCEPT ![c] = new] /\ ledger[c].status = "none"
  BY TypeParts DEF RowsTyped, Charge, KeyTaken, Inserted
<1>2. new \in Row /\ SpentIn(new) = Estimate /\ SpentIn(ledger[c]) = 0
  BY <1>1, AmountsTyped DEF NoRow, Row, SpentIn, Statuses
<1>3. ledger' \in [Calls -> Row] /\ ledger'[c] = new /\ \A d \in Calls : d # c => ledger'[d] = ledger[d]
  BY <1>1, <1>2
<1>4. /\ SpentOn(ledger, n)[c] = 0 /\ SpentOn(ledger', n)[c] = IF n \in ControlsOf[c] THEN Estimate ELSE 0
      /\ \A d \in Calls : d # c => SpentOn(ledger', n)[d] = SpentOn(ledger, n)[d]
  BY <1>2, <1>3 DEF SpentOn
<1>5. /\ \A d \in Calls : SpentOn(ledger, n)[d] \in Int
      /\ SpentOn(ledger', n)[c] \in Int /\ Spend(ledger, n) \in Int
  BY <1>1, <1>3, SpentTyped
<1> HIDE DEF new
<1>6. PICK f, e : f = SpentOn(ledger, n) /\ e = SpentOn(ledger', n)
  OBVIOUS
<1>7. SumFunctionOnSet(e, Calls) = SumFunctionOnSet(f, Calls) - f[c] + e[c]
  <2>1. /\ e[c] \in Int /\ \A d \in Calls : f[d] \in Int
        /\ \A d \in Calls : d # c => e[d] = f[d]
    BY <1>4, <1>5, <1>6
  <2>2. IsFiniteSet(Calls)
    BY CallsAssumption
  <2> QED
    BY <2>1, <2>2, SumOfChanged
<1>8. f[c] = 0 /\ e[c] = (IF n \in ControlsOf[c] THEN Estimate ELSE 0) /\ SumFunctionOnSet(f, Calls) \in Int
  BY <1>4, <1>5, <1>6 DEF Spend
<1>9. SumFunctionOnSet(e, Calls) = SumFunctionOnSet(f, Calls) + (IF n \in ControlsOf[c] THEN Estimate ELSE 0)
  BY <1>7, <1>8, AmountsTyped
<1> QED
  BY <1>6, <1>9 DEF Spend

\* Only an insertion adds to what was spent.
LEMMA SpendMoves ==
  ASSUME CapsInv, [Next]_vars, NoneRaised, \A x \in Costs : x <= Estimate, ~\E c \in Calls : Charge(c), NEW n
  PROVE  Spend(ledger', n) <= Spend(ledger, n)
<1>t. /\ TypeOK /\ TypeOK' /\ ledger \in [Calls -> Row] /\ ledger' \in [Calls -> Row]
      /\ \A c \in Calls : EntryOK(ledger[c])
  <2>1. TypeOK /\ TypeOK' /\ EntriesOK
    BY NextTyped DEF CapsInv
  <2>2. ledger' \in [Calls -> Row]
    BY <2>1 DEF TypeOK, Row
  <2> QED
    BY <2>1, <2>2, TypeParts DEF RowsTyped, EntriesOK
<1> SUFFICES ASSUME NEW c \in Calls PROVE SpentIn(ledger'[c]) <= SpentIn(ledger[c])
  BY <1>t, SpendFalls
<1>0. SpentIn(ledger[c]) \in Nat /\ SpentIn(ledger'[c]) \in Nat
  BY <1>t, SpentTyped
<1>1. CASE ledger'[c] = ledger[c]
  BY <1>0, <1>1
<1>2. ASSUME Settle(c), Unsettled(c) PROVE SpentIn(ledger'[c]) <= SpentIn(ledger[c])
  <2> DEFINE o == Outcome(c)
  <2>1. ledger' = [ledger EXCEPT ![c].status = o.status, ![c].consumed = o.consumed, ![c].actual = o.actual]
        /\ ledger[c].status = "reserved" /\ ledger[c].actual = Nothing
    BY <1>2, <1>t DEF Settle, Unsettled, EntryOK
  <2>2. o.status = "released" \/ o.actual = Nothing \/ o.actual <= Estimate
    <3>1. handle[c].units \in Costs \cup {Nothing}
      BY DEF CapsInv
    <3> QED
      BY <3>1 DEF Outcome
  <2>3. ledger'[c].status = o.status /\ ledger'[c].actual = o.actual
    BY <2>1, <1>t DEF Row
  <2> HIDE DEF o
  <2>4. SpentIn(ledger[c]) = Estimate
    BY <2>1 DEF SpentIn
  <2> QED
    BY <2>2, <2>3, <2>4, AmountsTyped DEF SpentIn
<1>3. ASSUME NEW a \in Accounts, Expire(a), ledger'[c] # ledger[c] PROVE SpentIn(ledger'[c]) <= SpentIn(ledger[c])
  <2>1. ledger'[c] = ExpiredRow(ledger[c]) /\ c \in Expired(a)
    BY <1>3 DEF Expire
  <2>2. /\ ledger'[c].actual = ledger[c].actual /\ ledger[c].status = "reserved"
        /\ ledger'[c].status = "pending_reconciliation"
    BY <2>1, <1>t DEF ExpiredRow, Expired, Row
  <2>3. SpentIn(ledger'[c]) = SpentIn(ledger[c])
    BY <2>2 DEF SpentIn
  <2> QED
    BY <1>0, <2>3
<1>4. ASSUME Age(c) PROVE SpentIn(ledger'[c]) <= SpentIn(ledger[c])
  <2>1. ledger'[c].status = ledger[c].status /\ ledger'[c].actual = ledger[c].actual
    BY <1>4, <1>t DEF Age, Row
  <2>2. SpentIn(ledger'[c]) = SpentIn(ledger[c])
    BY <2>1 DEF SpentIn
  <2> QED
    BY <1>0, <2>2
<1>5. ASSUME NEW actual \in Costs, NEW ref \in References, Reconcile(c, actual, ref)
      PROVE  SpentIn(ledger'[c]) <= SpentIn(ledger[c])
  <2>1. ledger[c].status = "pending_reconciliation" /\ ledger'[c].status = "reconciled" /\ ledger'[c].actual = actual
    BY <1>5, <1>t DEF Reconcile, Row
  <2>2. actual <= CountedCost(c) /\ actual # Nothing
    BY <2>1, AmountsTyped DEF NoneRaised
  <2> QED
    BY <2>1, <2>2 DEF SpentIn, CountedCost
<1>6. ASSUME NEW d \in Calls, Reserve(d) \/ CallProvider(d) \/ Crash(d) PROVE ledger' = ledger
  <2>1. ASSUME Reserve(d) PROVE ledger' = ledger
    BY <2>1 DEF Reserve, LockAccount, CheckKey, RefuseEarly, LockCap, RefuseCap, CapsChecked, DeadlockAbort,
                CountInFlight, RefuseConcurrency, RefuseCharge, Refuse
  <2>2. ASSUME CallProvider(d) \/ Crash(d) PROVE ledger' = ledger
    BY <2>2 DEF CallProvider, Send, Measured, BilledUnreported, ErrorResponse, Answered, Leave, Crash
  <2> QED
    BY <1>6, <2>1, <2>2
<1>7. ASSUME NEW d \in Calls, Settle(d) \/ Age(d), d # c \/ ledger' = ledger PROVE ledger'[c] = ledger[c]
  BY <1>7, <1>t DEF Settle, Age
<1>8. ASSUME Settle(c), ~Unsettled(c) PROVE ledger' = ledger
  BY <1>8 DEF Settle
<1>9. ASSUME NEW d \in Calls, NEW actual \in Costs, NEW ref \in References, Reconcile(d, actual, ref), d # c
      PROVE  ledger'[c] = ledger[c]
  BY <1>9, <1>t DEF Reconcile
<1>10. ASSUME NEW d \in Calls, Settle(d) \/ Age(d) PROVE SpentIn(ledger'[c]) <= SpentIn(ledger[c])
  BY <1>1, <1>2, <1>4, <1>7, <1>8, <1>10
<1>11. CASE Operator
  BY <1>1, <1>5, <1>9, <1>11 DEF Operator, AdjustCredits
<1>12. CASE UNCHANGED vars
  BY <1>1, <1>12 DEF vars
<1> QED
  BY <1>1, <1>3, <1>6, <1>10, <1>11, <1>12 DEF Next

\* How a reservation passes a cap.
LEMMA PassedMoves ==
  ASSUME CapsInv, [Next]_vars, NEW c \in Calls, NEW n \in Controls, Passed(pc', toLock', c, n)
  PROVE  /\ capLock'[n] = c /\ ~Charge(c)
         /\ \/ Passed(pc, toLock, c, n)
            \/ Spend(ledger, n) + Estimate <= Cap[n] /\ ledger' = ledger
<1>t. /\ TypeOK /\ pc \in [Calls -> Places] /\ toLock \in [Calls -> SUBSET Controls]
      /\ capLock \in [Controls -> Calls \cup {NoCall}] /\ c # NoCall
  BY TypeParts, CallsFit DEF CapsInv, CallsTyped
<1>h. \A d \in Calls, m \in Controls : Passed(pc, toLock, d, m) => capLock[m] = d
  BY DEF CapsInv
<1> DEFINE Goal == /\ capLock'[n] = c /\ ~Charge(c)
                   /\ \/ Passed(pc, toLock, c, n)
                      \/ Spend(ledger, n) + Estimate <= Cap[n] /\ ledger' = ledger
<1>p. n \in ControlsOf[c] /\ pc'[c] \in Checking /\ n \notin toLock'[c]
  BY DEF Passed
<1>c. ~Charge(c)
  BY <1>p, <1>t DEF Charge, Checking
<1>1. ASSUME Passed(pc, toLock, c, n), capLock'[n] = capLock[n] PROVE Goal
  BY <1>1, <1>h, <1>c
<1>2. ASSUME UNCHANGED <<pc, toLock, capLock>> PROVE Goal
  BY <1>1, <1>2, <1>p DEF Passed
<1>3. ASSUME NEW d \in Calls, NEW at, at \notin Checking, pc' = [pc EXCEPT ![d] = at], ReleaseLocks(d) PROVE Goal
  <2>1. d # c
    BY <1>3, <1>p, <1>t
  <2>2. pc'[c] = pc[c] /\ toLock'[c] = toLock[c]
    BY <1>3, <1>t, <2>1 DEF ReleaseLocks
  <2>3. Passed(pc, toLock, c, n)
    BY <1>p, <2>2 DEF Passed
  <2>4. capLock'[n] = capLock[n]
    BY <1>3, <1>h, <1>t, <2>1, <2>3 DEF ReleaseLocks
  <2> QED
    BY <1>1, <2>3, <2>4
<1>4. ASSUME NEW d \in Calls, Reserve(d) PROVE Goal
  <2>1. CASE LockAccount(d)
    <3>1. pc'[c] = pc[c] /\ toLock'[c] = toLock[c] /\ capLock' = capLock
      BY <2>1, <1>p, <1>t DEF LockAccount, Checking
    <3> QED
      BY <1>1, <1>p, <3>1 DEF Passed
  <2>2. CASE CheckKey(d)
    <3>1. d # c
      BY <2>2, <1>p, <1>t DEF CheckKey
    <3>2. pc'[c] = pc[c] /\ toLock'[c] = toLock[c] /\ capLock' = capLock
      BY <2>2, <3>1, <1>t DEF CheckKey
    <3> QED
      BY <1>1, <1>p, <3>2 DEF Passed
  <2>3. ASSUME NEW m \in Controls, LockCap(d, m) PROVE Goal
    <3>1. CASE d = c /\ m = n
      <4>1. capLock'[n] = c /\ MonthSpend(n) + Estimate <= Cap[n] /\ ledger' = ledger
        BY <2>3, <3>1, <1>t DEF LockCap
      <4>2. MonthSpend(n) = Spend(ledger, n)
        BY <1>t, SpendOfMonth
      <4>3. Spend(ledger, n) + Estimate <= Cap[n]
        BY <4>1, <4>2
      <4> QED
        BY <1>c, <4>1, <4>3
    <3>2. CASE d = c /\ m # n
      <4>1. pc'[c] = pc[c] /\ n \notin toLock[c] /\ capLock'[n] = capLock[n]
        BY <2>3, <3>2, <1>p, <1>t DEF LockCap
      <4> QED
        BY <1>1, <1>p, <4>1 DEF Passed
    <3>3. CASE d # c
      <4>1. pc'[c] = pc[c] /\ toLock'[c] = toLock[c]
        BY <2>3, <3>3, <1>t DEF LockCap
      <4>2. Passed(pc, toLock, c, n)
        BY <1>p, <4>1 DEF Passed
      <4>3. m # n
        BY <2>3, <4>2, <1>h, <1>t DEF LockCap
      <4>4. capLock'[n] = capLock[n]
        BY <2>3, <4>3, <1>t DEF LockCap
      <4> QED
        BY <1>1, <4>2, <4>4
    <3> QED
      BY <3>1, <3>2, <3>3
  <2>4. CASE CapsChecked(d)
    <3>1. /\ toLock' = toLock /\ capLock' = capLock /\ (d # c => pc'[c] = pc[c])
          /\ (d = c => pc[c] = "caps")
      BY <2>4, <1>t DEF CapsChecked
    <3> QED
      BY <1>1, <1>p, <3>1 DEF Passed, Checking
  <2>5. CASE CountInFlight(d)
    <3>1. /\ toLock' = toLock /\ capLock' = capLock /\ (d # c => pc'[c] = pc[c])
          /\ (d = c => pc[c] = "counting")
      BY <2>5, <1>t DEF CountInFlight
    <3> QED
      BY <1>1, <1>p, <3>1 DEF Passed, Checking
  <2>6. CASE Charge(d) \/ RefuseEarly(d) \/ DeadlockAbort(d) \/ RefuseConcurrency(d) \/ RefuseCharge(d)
             \/ \E m \in Controls : RefuseCap(d, m)
    <3>1. ReleaseLocks(d) /\ \E at : at \notin Checking /\ pc' = [pc EXCEPT ![d] = at]
      BY <2>6 DEF Charge, RefuseEarly, DeadlockAbort, RefuseConcurrency, RefuseCharge, RefuseCap, Refuse, Checking
    <3> QED
      BY <1>3, <3>1
  <2> QED
    BY <1>4, <2>1, <2>2, <2>3, <2>4, <2>5, <2>6 DEF Reserve
<1>5. ASSUME NEW d \in Calls, Crash(d) PROVE Goal
  <2>1. ReleaseLocks(d) /\ "dead" \notin Checking /\ pc' = [pc EXCEPT ![d] = "dead"]
    BY <1>5 DEF Crash, Checking
  <2> QED
    BY <1>3, <2>1
<1>6. ASSUME NEW d \in Calls, CallProvider(d) \/ Settle(d) PROVE Goal
  <2>1. pc'[c] = pc[c] /\ toLock' = toLock /\ capLock' = capLock
    BY <1>6, <1>p, <1>t DEF CallProvider, Send, Measured, BilledUnreported, ErrorResponse, Answered, Leave, Settle, Checking
  <2> QED
    BY <1>1, <1>p, <2>1 DEF Passed
<1> HIDE DEF Goal
<1>7. Goal
  BY <1>2, <1>4, <1>5, <1>6 DEF Next, Age, Expire, Operator, Reconcile, AdjustCredits, vars
<1> QED
  BY <1>7 DEF Goal

\* What measured() may leave in a handle, and that nothing is left to lock after the caps.
LEMMA HandlesNext ==
  ASSUME CapsInv, [Next]_vars
  PROVE  /\ \A c \in Calls : handle'[c].units \in Costs \cup {Nothing}
         /\ \A c \in Calls : pc'[c] \in {"counting", "charging"} => toLock'[c] = {}
<1>t. /\ pc \in [Calls -> Places] /\ toLock \in [Calls -> SUBSET Controls] /\ handle \in [Calls -> Handle]
      /\ \A c \in Calls : handle[c].units \in Costs \cup {Nothing}
      /\ \A c \in Calls : pc[c] \in {"counting", "charging"} => toLock[c] = {}
  BY TypeParts DEF CapsInv, CallsTyped
<1> SUFFICES ASSUME NEW c \in Calls
             PROVE  /\ handle'[c].units \in Costs \cup {Nothing}
                    /\ pc'[c] \in {"counting", "charging"} => toLock'[c] = {}
  OBVIOUS
<1>1. ASSUME NEW d \in Calls, CallProvider(d)
      PROVE  handle'[c].units \in Costs \cup {Nothing} /\ UNCHANGED toLock
  <2>1. CASE Send(d)
    BY <1>t, <2>1 DEF Send, Handle
  <2>2. ASSUME NEW cost \in Costs, Measured(d, cost) PROVE handle'[c].units \in Costs \cup {Nothing} /\ UNCHANGED toLock
    BY <1>t, <2>2 DEF Measured, Answered, Handle
  <2>3. CASE BilledUnreported(d) \/ ErrorResponse(d)
    BY <1>t, <2>3 DEF BilledUnreported, ErrorResponse, Answered, Handle
  <2>4. CASE \E failed \in BOOLEAN : Leave(d, failed)
    BY <1>t, <2>4 DEF Leave, Handle
  <2> QED
    BY <1>1, <2>1, <2>2, <2>3, <2>4 DEF CallProvider
<1>2. ASSUME ~\E d \in Calls : CallProvider(d) PROVE handle' = handle
  BY <1>2 DEF Next, vars, Reserve, LockAccount, CheckKey, RefuseEarly, LockCap, RefuseCap, CapsChecked, DeadlockAbort,
       CountInFlight, RefuseConcurrency, RefuseCharge, Refuse, Charge, Settle, Crash, Age, Expire, Operator,
       Reconcile, AdjustCredits
<1>3. ASSUME pc'[c] \in {"counting", "charging"} PROVE toLock'[c] = {}
  <2>1. ASSUME toLock' = toLock, pc[c] \in {"counting", "charging"} PROVE toLock'[c] = {}
    BY <1>t, <2>1
  <2>2. ASSUME NEW d \in Calls, Reserve(d) PROVE toLock'[c] = {}
    <3>1. CASE LockAccount(d)
      BY <1>t, <1>3, <3>1 DEF LockAccount
    <3>2. CASE CheckKey(d)
      BY <1>t, <1>3, <3>2 DEF CheckKey
    <3>3. CASE \E m \in Controls : LockCap(d, m)
      BY <1>t, <1>3, <3>3 DEF LockCap
    <3>4. CASE CapsChecked(d)
      BY <1>t, <1>3, <3>4 DEF CapsChecked
    <3>5. CASE CountInFlight(d)
      BY <1>t, <1>3, <3>5 DEF CountInFlight
    <3>6. CASE Charge(d) \/ RefuseEarly(d) \/ DeadlockAbort(d) \/ RefuseConcurrency(d) \/ RefuseCharge(d)
             \/ \E m \in Controls : RefuseCap(d, m)
      BY <1>t, <1>3, <3>6 DEF Charge, RefuseEarly, DeadlockAbort, RefuseConcurrency, RefuseCharge, RefuseCap, Refuse, ReleaseLocks
    <3> QED
      BY <2>2, <3>1, <3>2, <3>3, <3>4, <3>5, <3>6 DEF Reserve
  <2>3. ASSUME NEW d \in Calls, Crash(d) PROVE toLock'[c] = {}
    BY <1>t, <1>3, <2>3 DEF Crash, ReleaseLocks
  <2>4. ASSUME NEW d \in Calls, CallProvider(d) \/ Settle(d) PROVE toLock'[c] = {}
    BY <1>t, <1>3, <2>4 DEF CallProvider, Send, Measured, BilledUnreported, ErrorResponse, Answered, Leave, Settle
  <2>5. CASE UNCHANGED <<pc, toLock>>
    BY <1>3, <2>1, <2>5
  <2> QED
    BY <2>2, <2>3, <2>4, <2>5 DEF Next, Age, Expire, Operator, Reconcile, AdjustCredits, vars
<1> QED
  BY <1>t, <1>1, <1>2, <1>3

LEMMA NextCapsInv ==
  ASSUME CapsInv, LedgerInv, [Next]_vars, NoneRaised, \A x \in Costs : x <= Estimate
  PROVE  CapsInv'
<1>t. /\ TypeOK /\ TypeOK' /\ pc \in [Calls -> Places] /\ toLock \in [Calls -> SUBSET Controls]
      /\ ledger \in [Calls -> Row] /\ \A n : Spend(ledger, n) \in Int /\ Spend(ledger', n) \in Int
  <2>1. TypeOK /\ TypeOK'
    BY NextTyped DEF CapsInv
  <2>2. ledger \in [Calls -> Row] /\ ledger' \in [Calls -> Row]
    BY <2>1 DEF TypeOK, Row
  <2> QED
    BY <2>1, <2>2, TypeParts, SpentTyped DEF CallsTyped
<1>e. EntriesOK'
  BY NextLedgerInv DEF LedgerInv
<1>h. /\ \A c \in Calls : handle'[c].units \in Costs \cup {Nothing}
      /\ \A c \in Calls : pc'[c] \in {"counting", "charging"} => toLock'[c] = {}
  BY HandlesNext
<1>a. Estimate \in Nat /\ Cap \in [Controls -> Nat]
  BY AmountsTyped, AmountsAssumption
\* Who charges has passed each of its caps, and nobody else has.
<1>c. ASSUME NEW d \in Calls, Charge(d), NEW n \in ControlsOf[d]
      PROVE  n \in Controls /\ Passed(pc, toLock, d, n) /\ capLock[n] = d /\ Spend(ledger, n) + Estimate <= Cap[n]
  <2>1. n \in Controls
    BY <1>c, CallsAssumption
  <2>2. pc[d] = "charging" /\ toLock[d] = {}
    BY <1>c DEF CapsInv, Charge
  <2>3. Passed(pc, toLock, d, n)
    BY <1>c, <2>2 DEF Passed, Checking
  <2> QED
    BY <2>1, <2>3 DEF CapsInv
<1>1. ASSUME NEW n \in Controls PROVE Spend(ledger', n) <= Cap[n]
  <2>1. Spend(ledger, n) <= Cap[n]
    BY DEF CapsInv
  <2>2. CASE ~\E d \in Calls : Charge(d)
    BY <2>1, <2>2, <1>t, <1>a, SpendMoves
  <2>3. ASSUME NEW d \in Calls, Charge(d) PROVE Spend(ledger', n) <= Cap[n]
    <3>1. Spend(ledger', n) = Spend(ledger, n) + (IF n \in ControlsOf[d] THEN Estimate ELSE 0)
      BY <2>3, <1>t, SpendOfCharge
    <3>2. n \in ControlsOf[d] => Spend(ledger, n) + Estimate <= Cap[n]
      BY <2>3, <1>c
    <3> QED
      BY <2>1, <3>1, <3>2, <1>t, <1>a
  <2> QED
    BY <2>2, <2>3
<1>2. ASSUME NEW c \in Calls, NEW n \in Controls, Passed(pc', toLock', c, n)
      PROVE  capLock'[n] = c /\ Spend(ledger', n) + Estimate <= Cap[n]
  <2>1. /\ capLock'[n] = c /\ ~Charge(c)
        /\ \/ Passed(pc, toLock, c, n)
           \/ Spend(ledger, n) + Estimate <= Cap[n] /\ ledger' = ledger
    BY <1>2, PassedMoves
  <2>2. CASE Spend(ledger, n) + Estimate <= Cap[n] /\ ledger' = ledger
    BY <2>1, <2>2
  <2>3. CASE Passed(pc, toLock, c, n)
    <3>1. capLock[n] = c /\ Spend(ledger, n) + Estimate <= Cap[n]
      BY <2>3 DEF CapsInv
    <3>2. Spend(ledger', n) <= Spend(ledger, n)
      <4>1. CASE ~\E d \in Calls : Charge(d)
        BY <4>1, SpendMoves
      <4>2. ASSUME NEW d \in Calls, Charge(d) PROVE Spend(ledger', n) <= Spend(ledger, n)
        <5>1. n \notin ControlsOf[d]
          BY <4>2, <1>c, <2>1, <3>1
        <5>2. Spend(ledger', n) = Spend(ledger, n) + 0
          BY <4>2, <5>1, <1>t, SpendOfCharge
        <5> QED
          BY <5>2, <1>t
      <4> QED
        BY <4>1, <4>2
    <3> QED
      BY <2>1, <3>1, <3>2, <1>t, <1>a
  <2> QED
    BY <2>1, <2>2, <2>3
<1> QED
  BY <1>t, <1>e, <1>h, <1>1, <1>2 DEF CapsInv

LEMMA InitCapsInv == Init => CapsInv
<1> SUFFICES ASSUME Init PROVE CapsInv
  OBVIOUS
<1>1. TypeOK /\ EntriesOK
  BY InitTyped, InitLedgerInv DEF LedgerInv
<1>2. ASSUME NEW n \in Controls PROVE Spend(ledger, n) <= Cap[n]
  <2>1. {c \in Calls : n \in ControlsOf[c] /\ ledger[c].status \notin {"none", "released"}} = {}
    BY DEF Init, NoRow
  <2>2. MonthSpend(n) = 0
    BY <2>1, SumOfNone DEF MonthSpend
  <2>3. Cap[n] \in Nat
    BY AmountsAssumption
  <2> QED
    BY <1>1, <2>2, <2>3, SpendOfMonth
<1>3. /\ \A c \in Calls : handle[c].units = Nothing /\ pc[c] = "start"
  BY DEF Init, NewHandle
<1> QED
  BY <1>1, <1>2, <1>3 DEF CapsInv, Passed, Checking

\* The month's spend of a provider stays within its cap, however many
\* reservations look at it at once: the cap locks make the check of LockCap
\* good until the insertion.  As in the code only admission is limited, so no
\* call may cost more than its estimate and nothing may be reconciled upwards.
THEOREM CapsHold ==
  ASSUME \A x \in Costs : x <= Estimate
  PROVE  Spec /\ [][NoneRaised]_vars => []WithinCaps
<1>1. Init => CapsInv /\ LedgerInv
  BY InitCapsInv, InitLedgerInv
<1>2. CapsInv /\ LedgerInv /\ [Next]_vars /\ [NoneRaised]_vars => CapsInv' /\ LedgerInv'
  <2> SUFFICES ASSUME CapsInv, LedgerInv, [Next]_vars, [NoneRaised]_vars PROVE CapsInv' /\ LedgerInv'
    OBVIOUS
  <2>1. NoneRaised
    BY DEF NoneRaised, vars
  <2> QED
    BY <2>1, NextCapsInv, NextLedgerInv
<1>3. CapsInv => WithinCaps
  <2> SUFFICES ASSUME CapsInv, NEW n \in Controls PROVE MonthSpend(n) <= Cap[n]
    BY DEF WithinCaps
  <2> QED
    BY SpendOfMonth DEF CapsInv
<1> QED
  BY <1>1, <1>2, <1>3, PTL DEF Spec
==============================================================================
