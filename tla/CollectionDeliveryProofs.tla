----------------------- MODULE CollectionDeliveryProofs -----------------------
(***************************************************************************)
(* What CollectionDelivery keeps for any number of receipts, producers,    *)
(* workers and messages: no acknowledged message leaves its receipt        *)
(* unsettled, and no receipt waits in "queued" without a signal.           *)
(*                                                                         *)
(* Neither is inductive alone.  A worker that ends a run well has settled  *)
(* the receipt it carries, the message it will drop is that receipt's, and *)
(* whoever is about to mark a receipt as sent knows that it is Kept: it    *)
(* has a message, it is settled, or it was buried.                         *)
(*                                                                         *)
(* Further that a receipt is crawled once, whoever is handed its message,  *)
(* and that the component implements ProviderEffects.                      *)
(***************************************************************************)
EXTENDS CollectionEffects, TLAPS

Handling == {"running", "recovered", "claimed", "started", "done", "failed", "count", "bury"}

Kept(r) ==
  \/ r \in dead \/ losses > 0
  \/ receipts[r].state \in Terminal
  \/ \E m \in Messages : stream[m].of = r

MessageInv(m) ==
  IF stream[m].at = "free" THEN stream[m].of = None ELSE stream[m].of \in Receipts

WorkerInv(w) ==
  /\ At(w, "signalled") => Of(w) \in Receipts /\ Kept(Of(w))
  /\ workers[w].at \in Handling =>
       /\ Of(w) \in Receipts /\ workers[w].msg \in Messages
       /\ stream[workers[w].msg].of \in {Of(w), None}
  /\ At(w, "done") => receipts[Of(w)].state \in Terminal

ProducerInv(p) ==
  /\ producers[p].at # "idle" => producers[p].of \in Receipts
  /\ producers[p].at = "signalled" => Kept(producers[p].of)

DeliveryInv ==
  /\ TypeOK
  /\ \A m \in Messages : MessageInv(m)
  /\ \A w \in Workers : WorkerInv(w)
  /\ \A p \in Producers : ProducerInv(p)
  /\ AckedIsSettled
  /\ \A r \in Receipts : receipts[r].state = "queued" => Kept(r)

LEMMA InitDeliveryInv == Init => DeliveryInv
<1> SUFFICES ASSUME Init PROVE DeliveryInv
  OBVIOUS
<1>1. TypeOK
  BY DeliveryAssumption DEF Init, TypeOK, Row, Message, Request, Worker, Free, Idle, Active
<1> QED
  BY <1>1 DEF Init, DeliveryInv, MessageInv, WorkerInv, ProducerInv, AckedIsSettled, At, Of, Free, Idle, Handling

\* What the transactions on receipts have in common, but for the marks of a
\* signal that was sent.
Orderly ==
  /\ receipts' \in [Receipts -> Row]
  /\ \A r \in Receipts :
       /\ receipts[r].state \in Terminal => receipts'[r].state \in Terminal
       /\ receipts'[r].state = "queued" => receipts[r].state = "queued"

LEMMA StillIsOrderly == TypeOK /\ UNCHANGED receipts => Orderly
BY DEF TypeOK, Orderly

LEMMA RecoveryIsOrderly ==
  ASSUME TypeOK, receipts' = [r \in Receipts |-> Recovered(receipts[r])]
  PROVE  Orderly
<1>1. ASSUME NEW r \in Receipts
      PROVE  /\ Recovered(receipts[r]) \in Row
             /\ receipts[r].state \in Terminal => Recovered(receipts[r]).state \in Terminal
             /\ Recovered(receipts[r]).state = "queued" => receipts[r].state = "queued"
  <2>1. receipts[r] \in Row
    BY DEF TypeOK
  <2>2. CASE receipts[r].state \notin Leased \/ receipts[r].live
    BY <2>1, <2>2 DEF Recovered
  <2>3. CASE ~(receipts[r].state \notin Leased \/ receipts[r].live)
    BY <2>3 DEF Recovered, Row, Leased, Terminal, Active, Sent
  <2> QED
    BY <2>2, <2>3
<1> QED
  BY <1>1 DEF Orderly

LEMMA MoveIsOrderly ==
  ASSUME TypeOK, NEW r \in Receipts, NEW state \in Active \cup Terminal, state # "queued",
         receipts[r].state \notin Terminal \/ state \in Terminal,
         NEW owner \in Workers \cup {None}, NEW live \in BOOLEAN,
         receipts' = [receipts EXCEPT ![r] = [state |-> state, owner |-> owner, live |-> live]]
  PROVE  Orderly
<1>1. [state |-> state, owner |-> owner, live |-> live] \in Row
  BY DEF Row
<1> QED
  BY <1>1 DEF TypeOK, Orderly

\* Every transaction leaves a kept receipt kept, and with it what rests on it.
LEMMA OrderlyKeeps ==
  ASSUME Orderly, NEW r \in Receipts, Kept(r), UNCHANGED <<stream, dead, losses>>
  PROVE  Kept(r)'
BY DEF Orderly, Kept

\* A run that moves on from step to step, and whose success settles.
RunMoves(w) ==
  /\ workers[w].at \in Handling
  /\ \E step \in Handling :
       /\ Go(w, step)
       /\ step = "done" => receipts'[Of(w)].state \in Terminal
  /\ Orderly
  /\ UNCHANGED <<stream, dead, acked, producers, crashes, losses>>

\* A worker that carries no message, before and after.
LoopMoves(w) ==
  /\ \E x \in Worker : x.at \notin Handling \cup {"signalled"} /\ workers' = [workers EXCEPT ![w] = x]
  /\ Orderly
  /\ UNCHANGED <<stream, dead, acked, producers, crashes, losses>>

LEMMA FinishMoves ==
  ASSUME DeliveryInv, NEW w \in Workers, NEW state \in Terminal, NEW exit \in Handling,
         workers[w].at \in Handling, Finish(w, state, exit),
         UNCHANGED <<stream, dead, acked, producers, crashes, losses>>
  PROVE  RunMoves(w)
<1>1. Of(w) \in Receipts /\ TypeOK
  BY DEF DeliveryInv, WorkerInv
<1>2. CASE Holds(w, Of(w))
  <2>1. Move(Of(w), state) /\ Go(w, exit)
    BY <1>2 DEF Finish
  <2>2. Orderly
    BY <1>1, <2>1, MoveIsOrderly DEF Move, Terminal
  <2>3. receipts'[Of(w)].state = state
    BY <1>1, <2>1 DEF Move, TypeOK
  <2> QED
    BY <2>1, <2>2, <2>3 DEF RunMoves
<1>3. CASE ~Holds(w, Of(w))
  BY <1>1, <1>3, StillIsOrderly DEF Finish, RunMoves, Handling
<1> QED
  BY <1>2, <1>3

LEMMA RunSteps ==
  ASSUME DeliveryInv, NEW w \in Workers,
         \/ RecoverInRun(w) \/ Claim(w) \/ Decide(w) \/ Begin(w) \/ BeginRefused(w)
         \/ CrawlEnds(w) \/ RunFails(w) \/ Inspect(w)
  PROVE  RunMoves(w) /\ (UNCHANGED faults \/ Fault)
<1>t. TypeOK
  BY DEF DeliveryInv
<1>of. workers[w].at \in Handling => Of(w) \in Receipts
  BY DEF DeliveryInv, WorkerInv
<1>1. CASE RecoverInRun(w)
  BY <1>1, <1>t, RecoveryIsOrderly DEF RecoverInRun, RunMoves, Handling, At, bounds
<1>2. CASE Claim(w)
  <2>1. workers[w].at \in Handling /\ UNCHANGED <<stream, dead, acked, producers, bounds>>
    BY <1>2 DEF Claim, At, Handling
  <2>2. Of(w) \in Receipts
    BY <2>1, <1>of
  <2>3. CASE Go(w, "failed") /\ UNCHANGED receipts
    BY <2>1, <2>3, <1>t, StillIsOrderly DEF RunMoves, Handling, bounds
  <2>4. CASE /\ receipts[Of(w)].state \notin Terminal
             /\ Move(Of(w), "reconciliation_required") \/ Move(Of(w), "denied")
             /\ Go(w, "failed")
    <3>1. Orderly
      BY <2>2, <2>4, <1>t, MoveIsOrderly DEF Move, Terminal
    <3> QED
      BY <2>1, <2>4, <3>1 DEF RunMoves, Handling, bounds
  <2>5. CASE /\ receipts[Of(w)].state \notin Terminal
             /\ receipts' = [receipts EXCEPT ![Of(w)] = [state |-> "authorized", owner |-> w, live |-> TRUE]]
             /\ Go(w, "claimed")
    <3>1. Orderly
      BY <2>2, <2>5, <1>t, MoveIsOrderly DEF Active, Leased
    <3> QED
      BY <2>1, <2>5, <3>1 DEF RunMoves, Handling, bounds
  <2> QED
    BY <1>2, <2>1, <2>3, <2>4, <2>5 DEF Claim, Refusing, bounds
<1>3. CASE Decide(w)
  <2>1. workers[w].at \in Handling /\ UNCHANGED <<stream, dead, acked, producers, bounds>>
    BY <1>3 DEF Decide, At, Handling
  <2>2. Finish(w, "denied", "failed") \/ Finish(w, "completed", "done")
    BY <1>3 DEF Decide
  <2>3. RunMoves(w)
    BY <2>1, <2>2, FinishMoves DEF bounds, Handling, Terminal
  <2> QED
    BY <2>1, <2>3 DEF bounds
<1>4. CASE Begin(w)
  <2>1. Of(w) \in Receipts
    BY <1>4, <1>of DEF Begin, At, Handling
  <2>2. receipts[Of(w)].state \in Leased
    BY <1>4 DEF Begin, Holds
  <2>3. Orderly
    BY <1>4, <1>t, <2>1, <2>2 DEF Begin, TypeOK, Orderly, Row, Active, Leased, Terminal
  <2> QED
    BY <1>4, <2>3 DEF Begin, RunMoves, At, Handling, bounds
<1>5. CASE BeginRefused(w)
  BY <1>5, <1>t, StillIsOrderly DEF BeginRefused, RunMoves, At, Handling, bounds
<1>6. CASE CrawlEnds(w)
  <2>1. workers[w].at \in Handling /\ UNCHANGED <<stream, dead, acked, producers, bounds>>
    BY <1>6 DEF CrawlEnds, At, Handling
  <2>2. Finish(w, "completed", "done") \/ Finish(w, "reconciliation_required", "failed")
    BY <1>6 DEF CrawlEnds
  <2>3. RunMoves(w)
    BY <2>1, <2>2, FinishMoves DEF bounds, Handling, Terminal
  <2> QED
    BY <2>1, <2>3 DEF bounds
<1>7. CASE RunFails(w)
  BY <1>7, <1>t, StillIsOrderly DEF RunFails, RunMoves, Handling
<1>8. CASE Inspect(w)
  BY <1>8, <1>t, StillIsOrderly DEF Inspect, RunMoves, At, Handling, Orderly
<1> QED
  BY <1>1, <1>2, <1>3, <1>4, <1>5, <1>6, <1>7, <1>8

LEMMA LoopSteps ==
  ASSUME DeliveryInv, NEW w \in Workers,
         Sweep(w) \/ ListPending(w) \/ Listen(w) \/ TakeNothing(w)
  PROVE  LoopMoves(w) /\ (UNCHANGED faults \/ Fault)
<1>t. TypeOK /\ workers[w] \in Worker
  BY DEF DeliveryInv, TypeOK
<1>1. CASE Sweep(w)
  <2>1. [workers[w] EXCEPT !.at = "swept"] \in Worker
    BY <1>t DEF Worker
  <2>2. workers' = [workers EXCEPT ![w] = [workers[w] EXCEPT !.at = "swept"]]
    BY <1>1 DEF Sweep, Go
  <2> QED
    BY <1>1, <2>1, <2>2, <1>t, RecoveryIsOrderly DEF Sweep, LoopMoves, Handling, bounds, Worker
<1>2. CASE ListPending(w)
  <2> DEFINE todo == {r \in Receipts : receipts[r].state \in Sent}
             x == [workers[w] EXCEPT !.at = "listed", !.todo = todo]
  <2>1. x \in Worker /\ x.at = "listed"
    <3> HIDE DEF todo
    <3>1. todo \subseteq Receipts
      BY DEF todo
    <3> QED
      BY <3>1, <1>t DEF Worker
  <2>2. workers' = [workers EXCEPT ![w] = x]
    BY <1>2, <1>t DEF ListPending, TypeOK
  <2> HIDE DEF x
  <2> QED
    BY <1>2, <2>1, <2>2, <1>t, StillIsOrderly DEF ListPending, LoopMoves, Handling, bounds
<1>3. CASE Listen(w)
  <2>1. [Idle EXCEPT !.at = "ready"] \in Worker
    BY DEF Worker, Idle
  <2>2. /\ workers' = [workers EXCEPT ![w] = [Idle EXCEPT !.at = "ready"]]
        /\ UNCHANGED <<receipts, stream, dead, acked, producers, crashes, losses>>
        /\ UNCHANGED faults \/ Fault
    BY <1>3 DEF Listen
  <2> QED
    BY <2>1, <2>2, <1>t, StillIsOrderly DEF LoopMoves, Handling, Idle
<1>4. CASE TakeNothing(w)
  <2>1. [workers[w] EXCEPT !.at = "idle"] \in Worker
    BY <1>t DEF Worker
  <2>2. workers' = [workers EXCEPT ![w] = [workers[w] EXCEPT !.at = "idle"]]
    BY <1>4 DEF TakeNothing, Go
  <2> QED
    BY <1>4, <2>1, <2>2, <1>t, StillIsOrderly DEF TakeNothing, LoopMoves, Handling, bounds, Worker
<1> QED
  BY <1>1, <1>2, <1>3, <1>4
-----------------------------------------------------------------------------
(* What a step leaves of the invariant to those it does not move.           *)

Steady ==
  \A r \in Receipts :
    /\ Kept(r) => Kept(r)'
    /\ receipts[r].state \in Terminal => receipts'[r].state \in Terminal

LEMMA OrderlyIsSteady == Orderly /\ UNCHANGED <<stream, dead, losses>> => Steady
BY OrderlyKeeps DEF Orderly, Steady

LEMMA WorkerStays ==
  ASSUME DeliveryInv, Steady, NEW v \in Workers, workers'[v] = workers[v],
         workers[v].msg \in Messages
           => stream'[workers[v].msg].of \in {stream[workers[v].msg].of, None}
  PROVE  WorkerInv(v)'
<1>1. WorkerInv(v)
  BY DEF DeliveryInv
<1>2. workers[v].at = "signalled" => workers[v].of \in Receipts /\ Kept(workers[v].of)'
  BY <1>1 DEF WorkerInv, At, Of, Steady
<1>3. At(v, "signalled")' => Of(v)' \in Receipts /\ Kept(Of(v))'
  BY <1>2 DEF Kept, Of, At
<1>4. workers'[v].at \in Handling =>
        /\ Of(v)' \in Receipts /\ workers'[v].msg \in Messages
        /\ stream'[workers'[v].msg].of \in {Of(v)', None}
  BY <1>1 DEF WorkerInv, Of
<1>5. At(v, "done")' => receipts'[Of(v)'].state \in Terminal
  BY <1>1 DEF WorkerInv, At, Of, Steady, Handling
<1> QED
  BY <1>3, <1>4, <1>5 DEF WorkerInv

LEMMA ProducerStays ==
  ASSUME DeliveryInv, Steady, NEW p \in Producers, producers'[p] = producers[p]
  PROVE  ProducerInv(p)'
<1>1. ProducerInv(p)
  BY DEF DeliveryInv
<1>2. producers[p].at = "signalled" => Kept(producers[p].of)'
  BY <1>1 DEF ProducerInv, Steady
<1> QED
  BY <1>1, <1>2 DEF ProducerInv, Kept

LEMMA FaultCounted ==
  ASSUME TypeOK, UNCHANGED faults \/ Fault
  PROVE  faults' \in 0..MaxFaults
BY DeliveryAssumption DEF TypeOK, Fault

LEMMA RunKeeps ==
  ASSUME DeliveryInv, NEW w \in Workers, RunMoves(w), UNCHANGED faults \/ Fault
  PROVE  DeliveryInv'
<1>t. TypeOK /\ workers[w] \in Worker
  BY DEF DeliveryInv, TypeOK
<1>s. Steady
  BY OrderlyIsSteady DEF RunMoves
<1>1. PICK step \in Handling : Go(w, step) /\ (step = "done" => receipts'[Of(w)].state \in Terminal)
  BY DEF RunMoves
<1>2. workers' \in [Workers -> Worker]
  <2>1. [workers[w] EXCEPT !.at = step] \in Worker
    BY <1>t DEF Worker, Handling
  <2> QED
    BY <1>1, <1>t, <2>1 DEF Go, TypeOK
<1>3. TypeOK'
  BY <1>t, <1>2, FaultCounted DEF RunMoves, Orderly, TypeOK
<1>4. workers'[w].at = step /\ workers'[w].of = workers[w].of /\ workers'[w].msg = workers[w].msg
  BY <1>1, <1>t DEF Go, TypeOK, Worker
<1>5. WorkerInv(w)'
  <2>1. Of(w) \in Receipts /\ workers[w].msg \in Messages /\ stream[workers[w].msg].of \in {Of(w), None}
    BY DEF RunMoves, DeliveryInv, WorkerInv
  <2> QED
    BY <1>1, <1>4, <2>1 DEF WorkerInv, At, Of, Handling, RunMoves
<1>6. ASSUME NEW v \in Workers PROVE WorkerInv(v)'
  <2>1. CASE v = w
    BY <1>5, <2>1
  <2>2. CASE v # w
    <3>1. workers'[v] = workers[v] /\ stream' = stream
      BY <1>1, <1>t, <2>2 DEF Go, TypeOK, RunMoves
    <3> QED
      BY <1>s, <3>1, WorkerStays
  <2> QED
    BY <2>1, <2>2
<1>7. ASSUME NEW p \in Producers PROVE ProducerInv(p)'
  BY <1>s, ProducerStays DEF RunMoves
<1>8. \A m \in Messages : MessageInv(m)'
  BY DEF DeliveryInv, MessageInv, RunMoves
<1>9. AckedIsSettled'
  BY <1>s, <1>t DEF DeliveryInv, AckedIsSettled, Steady, RunMoves, TypeOK
<1>10. ASSUME NEW r \in Receipts, receipts'[r].state = "queued" PROVE Kept(r)'
  BY <1>10, <1>s DEF DeliveryInv, Steady, RunMoves, Orderly
<1> QED
  BY <1>3, <1>6, <1>7, <1>8, <1>9, <1>10 DEF DeliveryInv

LEMMA LoopKeeps ==
  ASSUME DeliveryInv, NEW w \in Workers, LoopMoves(w), UNCHANGED faults \/ Fault
  PROVE  DeliveryInv'
<1>t. TypeOK
  BY DEF DeliveryInv
<1>s. Steady
  BY OrderlyIsSteady DEF LoopMoves
<1>1. PICK x \in Worker : x.at \notin Handling \cup {"signalled"} /\ workers' = [workers EXCEPT ![w] = x]
  BY DEF LoopMoves
<1>3. TypeOK'
  BY <1>t, <1>1, FaultCounted DEF LoopMoves, Orderly, TypeOK
<1>5. WorkerInv(w)'
  BY <1>1, <1>t DEF WorkerInv, At, Handling, TypeOK
<1>6. ASSUME NEW v \in Workers PROVE WorkerInv(v)'
  <2>1. CASE v = w
    BY <1>5, <2>1
  <2>2. CASE v # w
    <3>1. workers'[v] = workers[v] /\ stream' = stream
      BY <1>1, <1>t, <2>2 DEF TypeOK, LoopMoves
    <3> QED
      BY <1>s, <3>1, WorkerStays
  <2> QED
    BY <2>1, <2>2
<1>7. ASSUME NEW p \in Producers PROVE ProducerInv(p)'
  BY <1>s, ProducerStays DEF LoopMoves
<1>8. \A m \in Messages : MessageInv(m)'
  BY DEF DeliveryInv, MessageInv, LoopMoves
<1>9. AckedIsSettled'
  BY <1>s, <1>t DEF DeliveryInv, AckedIsSettled, Steady, LoopMoves, TypeOK
<1>10. ASSUME NEW r \in Receipts, receipts'[r].state = "queued" PROVE Kept(r)'
  BY <1>10, <1>s DEF DeliveryInv, Steady, LoopMoves, Orderly
<1> QED
  BY <1>3, <1>6, <1>7, <1>8, <1>9, <1>10 DEF DeliveryInv

\* A late mark: the receipt of a signal that was sent is kept, whatever it has
\* become since.
LEMMA MarkSteady ==
  ASSUME DeliveryInv, NEW r \in Receipts, Kept(r), MarkQueued(r), UNCHANGED <<stream, dead, losses>>
  PROVE  /\ receipts' \in [Receipts -> Row]
         /\ Steady
         /\ \A o \in Receipts : receipts'[o].state = "queued" => Kept(o)'
<1>t. receipts \in [Receipts -> Row]
  BY DEF DeliveryInv, TypeOK
<1> DEFINE state == IF receipts[r].state \in Sent THEN "queued" ELSE receipts[r].state
<1>1. receipts' = [receipts EXCEPT ![r] = [receipts[r] EXCEPT !.state = state]]
  BY DEF MarkQueued
<1>2. state \in {"none"} \cup Active \cup Terminal
  BY <1>t DEF Row, Active
<1>3. [receipts[r] EXCEPT !.state = state] \in Row
  BY <1>t, <1>2 DEF Row
<1>4. receipts[r].state \in Terminal => state \in Terminal
  BY DEF Sent, Terminal
<1> HIDE DEF state
<1>5. receipts'[r].state = state /\ \A o \in Receipts : o # r => receipts'[o] = receipts[o]
  BY <1>t, <1>1 DEF Row
<1>6. \A o \in Receipts : receipts[o].state \in Terminal => receipts'[o].state \in Terminal
  BY <1>4, <1>5
<1>7. Steady
  BY <1>6 DEF Steady, Kept
<1>8. ASSUME NEW o \in Receipts, receipts'[o].state = "queued" PROVE Kept(o)'
  <2>1. CASE o = r
    BY <2>1, <1>7 DEF Steady
  <2>2. CASE o # r
    BY <1>8, <2>2, <1>5, <1>7 DEF Steady, DeliveryInv
  <2> QED
    BY <2>1, <2>2
<1> QED
  BY <1>1, <1>3, <1>t, <1>7, <1>8

\* A new message is nobody's: no worker handles its slot.
LEMMA XAddSteady ==
  ASSUME DeliveryInv, NEW r \in Receipts, XAdd(r), UNCHANGED <<receipts, dead, losses>>
  PROVE  /\ stream' \in [Messages -> Message]
         /\ Steady
         /\ Kept(r)'
         /\ \A m \in Messages : MessageInv(m)'
         /\ \A w \in Workers : workers[w].msg \in Messages
              => stream'[workers[w].msg].of = stream[workers[w].msg].of
<1>t. stream \in [Messages -> Message]
  BY DEF DeliveryInv, TypeOK
<1>1. PICK m \in Messages : Unused(m) /\ stream' = [stream EXCEPT ![m] = [of |-> r, at |-> "new", attempts |-> 0]]
  BY DEF XAdd
<1>2. [of |-> r, at |-> "new", attempts |-> 0] \in Message
  BY DeliveryAssumption DEF Message
<1>3. stream'[m].of = r /\ \A o \in Messages : o # m => stream'[o] = stream[o]
  BY <1>1, <1>t
<1>4. ASSUME NEW o \in Receipts, Kept(o) PROVE Kept(o)'
  <2>1. CASE \E n \in Messages : stream[n].of = o
    <3>1. PICK n \in Messages : stream[n].of = o
      BY <2>1
    <3>2. CASE n = m
      <4>1. stream[m].of = None
        BY <1>1 DEF Unused, DeliveryInv, MessageInv
      <4> QED
        BY <3>1, <3>2, <4>1, DeliveryAssumption
    <3>3. CASE n # m
      BY <3>1, <3>3, <1>3 DEF Kept
    <3> QED
      BY <3>2, <3>3
  <2> QED
    BY <1>4, <2>1 DEF Kept
<1>5. Kept(r)'
  BY <1>3 DEF Kept
<1>6. \A n \in Messages : MessageInv(n)'
  BY <1>1, <1>3, <1>t DEF DeliveryInv, MessageInv
<1> QED
  BY <1>1, <1>2, <1>3, <1>4, <1>5, <1>6, <1>t DEF Steady, Unused

\* A message goes with its receipt settled or buried, or it is lost.
LEMMA DropSteady ==
  ASSUME DeliveryInv, NEW m \in Messages, Drop(m), UNCHANGED receipts,
         NEW r, stream[m].of \in {r, None},
         r \in Receipts => Kept(r)' /\ (receipts[r].state \in Terminal \/ r \in dead' \/ losses' > 0),
         dead \subseteq dead', losses > 0 => losses' > 0
  PROVE  /\ stream' \in [Messages -> Message]
         /\ Steady
         /\ \A n \in Messages : MessageInv(n)' /\ stream'[n].of \in {stream[n].of, None}
<1>t. stream \in [Messages -> Message]
  BY DEF DeliveryInv, TypeOK
<1>1. Free \in Message /\ Free.at = "free" /\ Free.of = None
  BY DeliveryAssumption DEF Free, Message
<1>2. stream'[m] = Free /\ \A n \in Messages : n # m => stream'[n] = stream[n]
  BY <1>t DEF Drop
<1>3. ASSUME NEW o \in Receipts, Kept(o) PROVE Kept(o)'
  <2>1. CASE o = r
    BY <2>1
  <2>2. CASE o # r
    BY <1>2, <1>3, <2>2, DeliveryAssumption DEF Kept
  <2> QED
    BY <2>1, <2>2
<1>4. \A n \in Messages : MessageInv(n)' /\ stream'[n].of \in {stream[n].of, None}
  BY <1>1, <1>2 DEF DeliveryInv, MessageInv
<1> QED
  BY <1>1, <1>3, <1>4, <1>t DEF Drop, Steady

LEMMA NextDeliveryInv == DeliveryInv /\ [Next]_vars => DeliveryInv'
<1> SUFFICES ASSUME DeliveryInv, [Next]_vars PROVE DeliveryInv'
  OBVIOUS
<1>t. TypeOK
  BY DEF DeliveryInv
<1>e. \A w \in Workers : workers[w] \in Worker
  BY <1>t DEF TypeOK
<1>q. ASSUME Steady, NEW r \in Receipts, receipts'[r].state = "queued", receipts' = receipts
      PROVE  Kept(r)'
  BY <1>q DEF DeliveryInv, Steady
<1>a. Steady /\ acked' = acked => AckedIsSettled'
  BY <1>t DEF DeliveryInv, AckedIsSettled, Steady, TypeOK
<1>1. ASSUME NEW w \in Workers, MarkDispatched(w) PROVE DeliveryInv'
  <2>1. Of(w) \in Receipts /\ Kept(Of(w))
    BY <1>1 DEF DeliveryInv, WorkerInv, MarkDispatched
  <2>2. MarkQueued(Of(w)) /\ UNCHANGED <<stream, dead, acked, producers, faults, crashes, losses>>
    BY <1>1 DEF MarkDispatched, bounds
  <2>3. /\ receipts' \in [Receipts -> Row] /\ Steady
        /\ \A o \in Receipts : receipts'[o].state = "queued" => Kept(o)'
    BY <2>1, <2>2, MarkSteady
  <2>4. workers' = [workers EXCEPT ![w] = [workers[w] EXCEPT !.at = "listed"]]
    BY <1>1 DEF MarkDispatched, Go
  <2>5. [workers[w] EXCEPT !.at = "listed"] \in Worker
    BY <1>e DEF Worker
  <2>6. TypeOK'
    BY <2>2, <2>3, <2>4, <2>5, <1>t DEF TypeOK
  <2>7. ASSUME NEW v \in Workers PROVE WorkerInv(v)'
    <3>1. CASE v = w
      <4>1. workers'[v].at = "listed"
        BY <2>4, <3>1, <1>t DEF TypeOK, Worker
      <4> QED
        BY <4>1 DEF WorkerInv, At, Handling
    <3>2. CASE v # w
      <4>1. workers'[v] = workers[v]
        BY <2>4, <3>2, <1>t DEF TypeOK
      <4> QED
        BY <2>2, <2>3, <4>1, WorkerStays
    <3> QED
      BY <3>1, <3>2
  <2>8. \A p \in Producers : ProducerInv(p)'
    BY <2>2, <2>3, ProducerStays
  <2> QED
    BY <2>2, <2>3, <2>6, <2>7, <2>8, <1>a DEF DeliveryInv, MessageInv
<1>2. ASSUME NEW p \in Producers, MarkSent(p) PROVE DeliveryInv'
  <2>1. producers[p].of \in Receipts /\ Kept(producers[p].of)
    BY <1>2 DEF DeliveryInv, ProducerInv, MarkSent
  <2>2. MarkQueued(producers[p].of) /\ UNCHANGED <<stream, dead, acked, workers, faults, crashes, losses>>
    BY <1>2 DEF MarkSent, bounds
  <2>3. /\ receipts' \in [Receipts -> Row] /\ Steady
        /\ \A o \in Receipts : receipts'[o].state = "queued" => Kept(o)'
    BY <2>1, <2>2, MarkSteady
  <2>4. producers' = [producers EXCEPT ![p] = [at |-> "idle", of |-> None]]
    BY <1>2 DEF MarkSent
  <2>5. TypeOK'
    BY <2>2, <2>3, <2>4, <1>t DEF TypeOK, Request
  <2>6. ASSUME NEW q \in Producers PROVE ProducerInv(q)'
    <3>1. CASE q = p
      BY <2>4, <3>1, <1>t DEF ProducerInv, TypeOK
    <3>2. CASE q # p
      <4>1. producers'[q] = producers[q]
        BY <2>4, <3>2, <1>t DEF TypeOK
      <4> QED
        BY <2>3, <4>1, ProducerStays
    <3> QED
      BY <3>1, <3>2
  <2>7. \A w \in Workers : WorkerInv(w)'
    BY <2>2, <2>3, WorkerStays
  <2> QED
    BY <2>2, <2>3, <2>5, <2>6, <2>7, <1>a DEF DeliveryInv, MessageInv
<1>3. ASSUME NEW p \in Producers, SendSignal(p) PROVE DeliveryInv'
  <2>1. producers[p].of \in Receipts
    BY <1>3 DEF DeliveryInv, ProducerInv, SendSignal
  <2>2. XAdd(producers[p].of) /\ UNCHANGED <<receipts, dead, acked, workers, faults, crashes, losses>>
    BY <1>3 DEF SendSignal, bounds
  <2>3. /\ stream' \in [Messages -> Message] /\ Steady /\ Kept(producers[p].of)'
        /\ \A m \in Messages : MessageInv(m)'
        /\ \A w \in Workers : workers[w].msg \in Messages
             => stream'[workers[w].msg].of = stream[workers[w].msg].of
    <3>1. \A r \in Receipts : XAdd(r) =>
            /\ stream' \in [Messages -> Message] /\ Steady /\ Kept(r)'
            /\ \A m \in Messages : MessageInv(m)'
            /\ \A w \in Workers : workers[w].msg \in Messages
                 => stream'[workers[w].msg].of = stream[workers[w].msg].of
      BY <2>2, XAddSteady
    <3>2. \A r \in Receipts : XAdd(r) => Kept(r)'
      BY <3>1
    <3>3. Kept(producers[p].of)'
      BY <1>3, <2>1, <2>2, <3>2, <1>t DEF SendSignal, TypeOK, Kept, Request
    <3> QED
      BY <2>1, <2>2, <3>1, <3>3
  <2>4. /\ producers'[p].at = "signalled" /\ producers'[p].of = producers[p].of
        /\ producers' \in [Producers -> Request]
        /\ \A q \in Producers : q # p => producers'[q] = producers[q]
    BY <1>3, <1>t DEF SendSignal, TypeOK, Request
  <2>5. TypeOK'
    BY <2>2, <2>3, <2>4, <1>t DEF TypeOK
  <2>6. ASSUME NEW q \in Producers PROVE ProducerInv(q)'
    <3>1. CASE q = p
      BY <2>1, <2>3, <2>4, <3>1 DEF ProducerInv, Kept
    <3>2. CASE q # p
      BY <2>3, <2>4, <3>2, ProducerStays
    <3> QED
      BY <3>1, <3>2
  <2>7. \A w \in Workers : WorkerInv(w)'
    BY <2>2, <2>3, WorkerStays
  <2>8. \A r \in Receipts : receipts'[r].state = "queued" => Kept(r)'
    BY <2>2, <2>3, <1>q
  <2> QED
    BY <2>2, <2>3, <2>5, <2>6, <2>7, <2>8, <1>a DEF DeliveryInv
<1>4. ASSUME NEW w \in Workers, NEW r \in Receipts, Dispatch(w, r) PROVE DeliveryInv'
  <2>2. XAdd(r) /\ UNCHANGED <<receipts, dead, acked, producers, faults, crashes, losses>>
    BY <1>4 DEF Dispatch, bounds
  <2>3. /\ stream' \in [Messages -> Message] /\ Steady /\ Kept(r)'
        /\ \A m \in Messages : MessageInv(m)'
        /\ \A v \in Workers : workers[v].msg \in Messages
             => stream'[workers[v].msg].of = stream[workers[v].msg].of
    BY <2>2, XAddSteady
  <2>4. /\ workers'[w].at = "signalled" /\ workers'[w].of = r
        /\ workers' \in [Workers -> Worker]
        /\ \A v \in Workers : v # w => workers'[v] = workers[v]
    BY <1>4, <1>t DEF Dispatch, TypeOK, Worker
  <2>5. TypeOK'
    BY <2>2, <2>3, <2>4, <1>t DEF TypeOK
  <2>6. ASSUME NEW v \in Workers PROVE WorkerInv(v)'
    <3>1. CASE v = w
      <4>1. workers'[v].at = "signalled" /\ workers'[v].of = r
        BY <2>4, <3>1
      <4> QED
        BY <2>3, <4>1 DEF WorkerInv, Kept, At, Of, Handling
    <3>2. CASE v # w
      BY <2>3, <2>4, <3>2, WorkerStays
    <3> QED
      BY <3>1, <3>2
  <2>7. \A p \in Producers : ProducerInv(p)'
    BY <2>2, <2>3, ProducerStays
  <2>8. \A o \in Receipts : receipts'[o].state = "queued" => Kept(o)'
    BY <2>2, <2>3, <1>q
  <2> QED
    BY <2>2, <2>3, <2>5, <2>6, <2>7, <2>8, <1>a DEF DeliveryInv
<1>5. ASSUME NEW w \in Workers, Acknowledge(w) \/ Bury(w) PROVE DeliveryInv'
  <2>1. /\ Of(w) \in Receipts /\ workers[w].msg \in Messages
        /\ stream[workers[w].msg].of \in {Of(w), None}
        /\ At(w, "done") => receipts[Of(w)].state \in Terminal
    BY <1>5 DEF DeliveryInv, WorkerInv, Acknowledge, Bury, At, Handling
  <2>2. /\ Drop(workers[w].msg) /\ workers' = [workers EXCEPT ![w] = Idle]
        /\ UNCHANGED <<receipts, producers, faults, crashes, losses>>
    BY <1>5 DEF Acknowledge, Bury, bounds
  <2>3. /\ dead \subseteq dead' /\ dead' \subseteq Receipts
        /\ receipts[Of(w)].state \in Terminal \/ Of(w) \in dead'
        /\ \/ acked' = acked
           \/ acked' = acked \cup {Of(w)} /\ receipts[Of(w)].state \in Terminal
    BY <1>5, <2>1, <1>t DEF Acknowledge, Bury, TypeOK
  <2>4. \A r : r = Of(w) => Kept(r)'
    BY <2>2, <2>3 DEF Kept
  <2>5. /\ stream' \in [Messages -> Message] /\ Steady
        /\ \A n \in Messages : MessageInv(n)' /\ stream'[n].of \in {stream[n].of, None}
    <3>1. \A r : r = Of(w) =>
             /\ stream' \in [Messages -> Message] /\ Steady
             /\ \A n \in Messages : MessageInv(n)' /\ stream'[n].of \in {stream[n].of, None}
      BY <2>1, <2>2, <2>3, <2>4, DropSteady
    <3> QED
      BY <3>1
  <2>6. Idle \in Worker
    BY DEF Idle, Worker
  <2>7. TypeOK'
    BY <2>1, <2>2, <2>3, <2>5, <2>6, <1>t DEF TypeOK
  <2>8. ASSUME NEW v \in Workers PROVE WorkerInv(v)'
    <3>1. CASE v = w
      BY <2>2, <3>1, <1>t DEF WorkerInv, At, Handling, Idle, TypeOK
    <3>2. CASE v # w
      <4>1. workers'[v] = workers[v]
        BY <2>2, <3>2, <1>t DEF TypeOK
      <4> QED
        BY <2>5, <4>1, WorkerStays
    <3> QED
      BY <3>1, <3>2
  <2>9. \A p \in Producers : ProducerInv(p)'
    BY <2>2, <2>5, ProducerStays
  <2>10. AckedIsSettled'
    BY <2>2, <2>3 DEF DeliveryInv, AckedIsSettled
  <2>11. \A o \in Receipts : receipts'[o].state = "queued" => Kept(o)'
    BY <2>2, <2>5, <1>q
  <2> QED
    BY <2>5, <2>7, <2>8, <2>9, <2>10, <2>11 DEF DeliveryInv
<1>6. ASSUME NEW m \in Messages, Lose(m) PROVE DeliveryInv'
  <2>1. /\ Drop(m) /\ losses' = losses + 1 /\ losses \in 0..MaxLosses /\ losses < MaxLosses
        /\ UNCHANGED <<receipts, dead, acked, producers, workers, faults, crashes>>
    BY <1>6, <1>t DEF Lose, TypeOK
  <2>2. losses' \in 0..MaxLosses /\ losses' > 0
    BY <2>1, DeliveryAssumption
  <2>3. \A r : Kept(r)'
    BY <2>2 DEF Kept
  <2>4. /\ stream' \in [Messages -> Message] /\ Steady
        /\ \A n \in Messages : MessageInv(n)' /\ stream'[n].of \in {stream[n].of, None}
    <3>1. \A r : r = stream[m].of =>
             /\ stream' \in [Messages -> Message] /\ Steady
             /\ \A n \in Messages : MessageInv(n)' /\ stream'[n].of \in {stream[n].of, None}
      BY <2>1, <2>2, <2>3, DropSteady
    <3> QED
      BY <3>1
  <2>5. TypeOK'
    BY <2>1, <2>2, <2>4, <1>t DEF TypeOK
  <2>6. \A v \in Workers : WorkerInv(v)'
    BY <2>1, <2>4, WorkerStays
  <2>7. \A p \in Producers : ProducerInv(p)'
    BY <2>1, <2>4, ProducerStays
  <2>8. \A o \in Receipts : receipts'[o].state = "queued" => Kept(o)'
    BY <2>3
  <2> QED
    BY <2>1, <2>4, <2>5, <2>6, <2>7, <2>8, <1>a DEF DeliveryInv
<1>7. ASSUME NEW w \in Workers, NEW m \in Messages, Take(w, m) PROVE DeliveryInv'
  <2>1. UNCHANGED <<receipts, dead, acked, producers, faults, crashes, losses>>
    BY <1>7 DEF Take, bounds
  <2>2. stream[m].of \in Receipts
    BY <1>7 DEF Take, DeliveryInv, MessageInv
  <2>3. /\ stream'[m].of = stream[m].of /\ stream'[m].at = "pending"
        /\ stream' \in [Messages -> Message]
        /\ \A n \in Messages : n # m => stream'[n] = stream[n]
    BY <1>7, <1>t DEF Take, TypeOK, Message
  <2>4. Steady
    BY <2>1, <2>3 DEF Steady, Kept
  <2>5. workers' = [workers EXCEPT ![w] = [Idle EXCEPT !.at = "running", !.of = stream[m].of, !.msg = m]]
    BY <1>7 DEF Take
  <2>6. [Idle EXCEPT !.at = "running", !.of = stream[m].of, !.msg = m] \in Worker
    BY <2>2 DEF Idle, Worker
  <2>7. TypeOK'
    BY <2>1, <2>3, <2>5, <2>6, <1>t DEF TypeOK
  <2>8. ASSUME NEW v \in Workers PROVE WorkerInv(v)'
    <3>1. CASE v = w
      <4>1. workers'[w].at = "running" /\ workers'[w].of = stream[m].of /\ workers'[w].msg = m
        BY <2>5, <1>t DEF TypeOK, Idle
      <4> QED
        BY <2>2, <2>3, <3>1, <4>1 DEF WorkerInv, At, Of, Handling
    <3>2. CASE v # w
      <4>1. workers'[v] = workers[v]
        BY <2>5, <3>2, <1>t DEF TypeOK
      <4> QED
        BY <2>3, <2>4, <4>1, WorkerStays
    <3> QED
      BY <3>1, <3>2
  <2>9. \A p \in Producers : ProducerInv(p)'
    BY <2>1, <2>4, ProducerStays
  <2>10. \A n \in Messages : MessageInv(n)'
    BY <2>2, <2>3 DEF DeliveryInv, MessageInv
  <2>11. \A o \in Receipts : receipts'[o].state = "queued" => Kept(o)'
    BY <2>1, <2>4, <1>q
  <2> QED
    BY <2>1, <2>4, <2>7, <2>8, <2>9, <2>10, <2>11, <1>a DEF DeliveryInv
<1>8. ASSUME NEW w \in Workers, CountAttempt(w) PROVE DeliveryInv'
  <2> DEFINE m == workers[w].msg
             n == stream[m].attempts + 1
  <2>1. Of(w) \in Receipts /\ m \in Messages /\ stream[m].of \in {Of(w), None}
    BY <1>8 DEF CountAttempt, DeliveryInv, WorkerInv, At, Handling
  <2>2. UNCHANGED <<receipts, dead, acked, producers, faults, crashes, losses>>
    BY <1>8 DEF CountAttempt, bounds
  <2>3. n \in Nat /\ (IF n > MaxAttempts THEN MaxAttempts + 1 ELSE n) \in 0..(MaxAttempts + 1)
    BY <2>1, <1>t, DeliveryAssumption DEF TypeOK, Message
  <2>4. stream' = [stream EXCEPT ![m].attempts = IF n > MaxAttempts THEN MaxAttempts + 1 ELSE n]
    BY <1>8 DEF CountAttempt
  <2>5. \/ workers' = [workers EXCEPT ![w] = [workers[w] EXCEPT !.at = "bury"]]
        \/ workers' = [workers EXCEPT ![w] = Idle]
    BY <1>8 DEF CountAttempt
  <2> HIDE DEF n, m
  <2>6. /\ stream' \in [Messages -> Message]
        /\ \A o \in Messages : stream'[o].of = stream[o].of /\ stream'[o].at = stream[o].at
    BY <2>1, <2>3, <2>4, <1>t DEF TypeOK, Message
  <2>7. Steady
    BY <2>2, <2>6 DEF Steady, Kept
  <2>8. Idle \in Worker /\ [workers[w] EXCEPT !.at = "bury"] \in Worker
    BY <1>e DEF Idle, Worker
  <2>9. TypeOK'
    BY <2>2, <2>5, <2>6, <2>8, <1>t DEF TypeOK
  <2>10. ASSUME NEW v \in Workers PROVE WorkerInv(v)'
    <3>1. CASE v = w
      <4>1. \/ workers'[w].at = "idle"
            \/ workers'[w].at = "bury" /\ workers'[w].of = workers[w].of /\ workers'[w].msg = m
        BY <2>5, <1>t DEF TypeOK, Worker, Idle, m
      <4> QED
        BY <2>1, <2>6, <3>1, <4>1 DEF WorkerInv, At, Of, Handling
    <3>2. CASE v # w
      <4>1. workers'[v] = workers[v]
        BY <2>5, <3>2, <1>t DEF TypeOK
      <4> QED
        BY <2>6, <2>7, <4>1, WorkerStays
    <3> QED
      BY <3>1, <3>2
  <2>11. \A p \in Producers : ProducerInv(p)'
    BY <2>2, <2>7, ProducerStays
  <2>12. \A o \in Messages : MessageInv(o)'
    BY <2>6 DEF DeliveryInv, MessageInv
  <2>13. \A o \in Receipts : receipts'[o].state = "queued" => Kept(o)'
    BY <2>2, <2>7, <1>q
  <2> QED
    BY <2>2, <2>7, <2>9, <2>10, <2>11, <2>12, <2>13, <1>a DEF DeliveryInv
<1>9. ASSUME NEW p \in Producers, NEW r \in Receipts, Intend(p, r) PROVE DeliveryInv'
  <2>1. UNCHANGED <<stream, dead, acked, workers, faults, crashes, losses>>
    BY <1>9 DEF Intend, bounds
  <2>2. \/ receipts' = receipts
        \/ receipts[r].state = "none" /\ receipts' = [receipts EXCEPT ![r].state = "dispatch_pending"]
    BY <1>9 DEF Intend
  <2>3. Orderly
    BY <2>2, <1>t DEF Orderly, TypeOK, Row, Terminal, Active, Sent
  <2>4. Steady
    BY <2>1, <2>3, OrderlyIsSteady
  <2>5. producers' = [producers EXCEPT ![p] = [at |-> "intended", of |-> r]]
    BY <1>9 DEF Intend
  <2>6. TypeOK'
    BY <2>1, <2>3, <2>5, <1>t DEF TypeOK, Orderly, Request
  <2>7. ASSUME NEW q \in Producers PROVE ProducerInv(q)'
    <3>1. CASE q = p
      BY <2>5, <3>1, <1>t DEF ProducerInv, TypeOK
    <3>2. CASE q # p
      <4>1. producers'[q] = producers[q]
        BY <2>5, <3>2, <1>t DEF TypeOK
      <4> QED
        BY <2>4, <4>1, ProducerStays
    <3> QED
      BY <3>1, <3>2
  <2>8. \A v \in Workers : WorkerInv(v)'
    BY <2>1, <2>4, WorkerStays
  <2>9. \A o \in Receipts : receipts'[o].state = "queued" => Kept(o)'
    BY <2>3, <2>4 DEF Orderly, Steady, DeliveryInv
  <2> QED
    BY <2>1, <2>4, <2>6, <2>7, <2>8, <2>9, <1>a DEF DeliveryInv, MessageInv
<1>10. ASSUME NEW r \in Receipts, LeaseEnds(r) PROVE DeliveryInv'
  <2>1. UNCHANGED <<stream, dead, acked, producers, workers, crashes, losses>> /\ faults' \in 0..MaxFaults
    BY <1>10, <1>t, FaultCounted DEF LeaseEnds
  <2>2. Orderly
    BY <1>10, <1>t DEF LeaseEnds, Orderly, TypeOK, Row
  <2>3. Steady
    BY <2>1, <2>2, OrderlyIsSteady
  <2>4. TypeOK'
    BY <2>1, <2>2, <1>t DEF TypeOK, Orderly
  <2>5. \A v \in Workers : WorkerInv(v)'
    BY <2>1, <2>3, WorkerStays
  <2>6. \A p \in Producers : ProducerInv(p)'
    BY <2>1, <2>3, ProducerStays
  <2>7. \A o \in Receipts : receipts'[o].state = "queued" => Kept(o)'
    BY <2>2, <2>3 DEF Orderly, Steady, DeliveryInv
  <2> QED
    BY <2>1, <2>3, <2>4, <2>5, <2>6, <2>7, <1>a DEF DeliveryInv, MessageInv
<1>11. ASSUME Crash PROVE DeliveryInv'
  <2>1. UNCHANGED <<receipts, stream, dead, acked, faults, losses>> /\ crashes' \in 0..MaxCrashes
    BY <1>11, <1>t, DeliveryAssumption DEF Crash, TypeOK
  <2>2. Steady
    BY <2>1 DEF Steady, Kept
  <2>3. Idle \in Worker
    BY DEF Idle, Worker
  <2>4. workers' \in [Workers -> Worker] /\ producers' \in [Producers -> Request]
    BY <1>11, <2>3, <1>t DEF Crash, TypeOK, Request
  <2>5. TypeOK'
    BY <2>1, <2>4, <1>t DEF TypeOK
  <2>6. ASSUME NEW v \in Workers PROVE WorkerInv(v)'
    <3>1. workers'[v] = workers[v] \/ workers'[v] = Idle
      BY <1>11, <1>t DEF Crash, TypeOK
    <3>2. CASE workers'[v] = Idle
      BY <3>2 DEF WorkerInv, At, Handling, Idle
    <3>3. CASE workers'[v] = workers[v]
      BY <2>1, <2>2, <3>3, WorkerStays
    <3> QED
      BY <3>1, <3>2, <3>3
  <2>7. ASSUME NEW p \in Producers PROVE ProducerInv(p)'
    <3>1. producers'[p] = producers[p] \/ producers'[p].at = "idle"
      BY <1>11, <1>t DEF Crash, TypeOK
    <3>2. CASE producers'[p].at = "idle"
      BY <3>2 DEF ProducerInv
    <3>3. CASE producers'[p] = producers[p]
      BY <2>2, <3>3, ProducerStays
    <3> QED
      BY <3>1, <3>2, <3>3
  <2>8. \A o \in Receipts : receipts'[o].state = "queued" => Kept(o)'
    BY <2>1, <2>2, <1>q
  <2> QED
    BY <2>1, <2>2, <2>5, <2>6, <2>7, <2>8, <1>a DEF DeliveryInv, MessageInv
<1>12. ASSUME UNCHANGED vars PROVE DeliveryInv'
  BY <1>12 DEF vars, bounds, DeliveryInv, TypeOK, MessageInv, WorkerInv, ProducerInv, AckedIsSettled, Kept, At, Of
<1>13. ASSUME NEW w \in Workers, WorkerStep(w) PROVE DeliveryInv'
  BY <1>13, <1>1, <1>4, <1>5, <1>7, <1>8, RunSteps, RunKeeps, LoopSteps, LoopKeeps DEF WorkerStep
<1> QED
  BY <1>2, <1>3, <1>6, <1>9, <1>10, <1>11, <1>12, <1>13 DEF Next

LEMMA DeliveryKeepsInv == Spec => []DeliveryInv
BY InitDeliveryInv, NextDeliveryInv, PTL DEF Spec

\* Rows, messages, requests and workers stay what they are.
THEOREM TypeCorrect == Spec => []TypeOK
<1>1. DeliveryInv => TypeOK
  BY DEF DeliveryInv
<1> QED
  BY <1>1, DeliveryKeepsInv, PTL

\* No acknowledgement loses a collection: a message that leaves the stream as
\* handled belongs to a receipt that is settled or parked, for good.
THEOREM AckedStaysSettled == Spec => []AckedIsSettled
<1>1. DeliveryInv => AckedIsSettled
  BY DEF DeliveryInv
<1> QED
  BY <1>1, DeliveryKeepsInv, PTL

\* No late mark hides a receipt from the dispatch pass while none of its
\* messages is left.
THEOREM QueuedKeepsSignal == Spec => []QueuedHasSignal
<1>1. DeliveryInv => QueuedHasSignal
  BY DeliveryAssumption DEF DeliveryInv, QueuedHasSignal, Kept, Terminal
<1> QED
  BY <1>1, DeliveryKeepsInv, PTL

-----------------------------------------------------------------------------
(* A collection is crawled once.                                            *)

\* Two runs never crawl for one receipt at once, though its message may be
\* delivered to a second worker while the first is alive and crawling.
OneCrawler == \A v, w \in Workers : At(v, "started") /\ At(w, "started") /\ Of(v) = Of(w) => v = w

\* No redelivery, recovery or retry starts a second crawl of a receipt: once
\* begin_provider() has committed, the receipt is settled or parked next.
Spent == Terminal \cup {"provider_started"}
StartsOnce(r) ==
  receipts[r].state \in Spent =>
    /\ receipts'[r].state \in Spent
    /\ \A w \in Workers : (At(w, "started") /\ Of(w) = r)' => At(w, "started") /\ Of(w) = r
CrawledOnce == [][\A r \in Receipts : StartsOnce(r)]_vars

CrawlInv ==
  /\ \A w \in Workers : At(w, "claimed") /\ Holds(w, Of(w)) => receipts[Of(w)].state = "authorized"
  /\ \A w \in Workers : At(w, "started") =>
       (Holds(w, Of(w)) /\ receipts[Of(w)].state = "provider_started") \/ receipts[Of(w)].state \in Terminal
  /\ OneCrawler

\* What a step makes of a row: a settled one stays settled, a started one stays
\* its run's or is settled, and nobody is given a row, or has its row moved on,
\* by a step of another.
RowStep(r) ==
  /\ receipts[r].state \in Terminal => receipts'[r].state \in Terminal
  /\ receipts[r].state = "provider_started" =>
       \/ receipts'[r].state \in Terminal
       \/ receipts'[r].state = "provider_started" /\ receipts'[r].owner = receipts[r].owner
  /\ \A v \in Workers : workers'[v] = workers[v] /\ Holds(v, r)'
       => Holds(v, r) /\ receipts'[r].state = receipts[r].state

LEMMA SameRow ==
  ASSUME NEW r \in Receipts, receipts'[r].state = receipts[r].state, receipts'[r].owner = receipts[r].owner
  PROVE  RowStep(r)
BY DEF RowStep, Holds

\* A row that is marked, or moved by somebody who may.
LEMMA MovedRow ==
  ASSUME NEW r \in Receipts, receipts[r].state \notin Spent, receipts'[r].state \notin Leased
  PROVE  RowStep(r)
BY DEF RowStep, Holds, Spent

LEMMA SettledRow ==
  ASSUME NEW r \in Receipts, receipts'[r].state \in Terminal
  PROVE  RowStep(r)
BY DEF RowStep, Holds, Leased, Terminal

LEMMA RecoveredRow ==
  ASSUME TypeOK, NEW r \in Receipts, receipts'[r] = Recovered(receipts[r])
  PROVE  RowStep(r)
<1>1. receipts[r] \in Row
  BY DEF TypeOK
<1>2. CASE receipts[r].state \notin Leased \/ receipts[r].live
  BY <1>2, SameRow DEF Recovered
<1>3. CASE ~(receipts[r].state \notin Leased \/ receipts[r].live)
  <2>1. receipts'[r].state = IF receipts[r].state = "authorized" THEN "retryable" ELSE "reconciliation_required"
    BY <1>3 DEF Recovered
  <2> QED
    BY <1>3, <2>1, MovedRow, SettledRow DEF Leased, Terminal, Spent
<1> QED
  BY <1>2, <1>3

LEMMA MarkedRow ==
  ASSUME TypeOK, NEW o, MarkQueued(o), NEW r \in Receipts
  PROVE  RowStep(r)
<1>1. receipts[r] \in Row /\ receipts \in [Receipts -> Row]
  BY DEF TypeOK
<1>2. CASE r # o \/ receipts[r].state \notin Sent
  <2>1. receipts'[r].state = receipts[r].state /\ receipts'[r].owner = receipts[r].owner
    BY <1>1, <1>2 DEF MarkQueued, Row
  <2> QED
    BY <2>1, SameRow
<1>3. CASE r = o /\ receipts[r].state \in Sent
  <2>1. receipts'[r].state = "queued"
    BY <1>1, <1>3 DEF MarkQueued, Row
  <2> QED
    BY <1>3, <2>1, MovedRow DEF Sent, Spent, Terminal, Leased
<1> QED
  BY <1>2, <1>3

\* A row that Move() settles, among the others.
LEMMA SettlingMove ==
  ASSUME TypeOK, NEW o, NEW state \in Terminal, Move(o, state), NEW r \in Receipts
  PROVE  RowStep(r)
<1>1. receipts'[r] = IF r = o THEN [state |-> state, owner |-> None, live |-> FALSE] ELSE receipts[r]
  BY DEF Move, TypeOK
<1>2. CASE r = o
  BY <1>1, <1>2, SettledRow
<1>3. CASE r # o
  BY <1>1, <1>3, SameRow
<1> QED
  BY <1>2, <1>3

LEMMA EndingRow ==
  ASSUME TypeOK, NEW w \in Workers, NEW state \in Terminal, NEW exit, Finish(w, state, exit), NEW r \in Receipts
  PROVE  RowStep(r)
BY SettlingMove, SameRow DEF Finish

\* Every step is such a step for every row.
LEMMA NextRows == DeliveryInv /\ [Next]_vars => \A r \in Receipts : RowStep(r)
<1> SUFFICES ASSUME DeliveryInv, [Next]_vars, NEW r \in Receipts PROVE RowStep(r)
  OBVIOUS
<1>a. TypeOK /\ receipts \in [Receipts -> Row] /\ receipts[r] \in Row /\ workers \in [Workers -> Worker]
  BY DEF DeliveryInv, TypeOK
<1>0. CASE UNCHANGED receipts
  BY <1>0, SameRow
<1>1. ASSUME NEW p \in Producers, NEW o \in Receipts, Intend(p, o) PROVE RowStep(r)
  <2>1. CASE receipts' = receipts
    BY <2>1, SameRow
  <2>2. CASE receipts[o].state = "none" /\ receipts' = [receipts EXCEPT ![o].state = "dispatch_pending"]
    <3>1. CASE r # o
      BY <2>2, <3>1, <1>a, SameRow
    <3>2. CASE r = o
      <4>1. receipts'[r].state = "dispatch_pending"
        BY <2>2, <3>2, <1>a DEF Row
      <4> QED
        BY <2>2, <3>2, <4>1, MovedRow DEF Spent, Terminal, Leased
    <3> QED
      BY <3>1, <3>2
  <2> QED
    BY <1>1, <2>1, <2>2 DEF Intend
<1>2. ASSUME NEW o, MarkQueued(o) PROVE RowStep(r)
  BY <1>2, <1>a, MarkedRow
<1>3. ASSUME receipts' = [o \in Receipts |-> Recovered(receipts[o])] PROVE RowStep(r)
  BY <1>3, <1>a, RecoveredRow
<1>4. ASSUME NEW w \in Workers, Claim(w) PROVE RowStep(r)
  <2>1. CASE \E state \in Terminal : Move(Of(w), state)
    BY <2>1, <1>a, SettlingMove
  <2>2. CASE /\ ~Refusing(Of(w)) /\ receipts[Of(w)].state # "provider_started" /\ Go(w, "claimed")
             /\ receipts' = [receipts EXCEPT ![Of(w)] = [state |-> "authorized", owner |-> w, live |-> TRUE]]
    <3>1. CASE r # Of(w)
      BY <2>2, <3>1, <1>a, SameRow
    <3>2. CASE r = Of(w)
      <4>1. receipts'[r].owner = w /\ receipts[r].state \notin Spent
        BY <2>2, <3>2, <1>a DEF Refusing, Spent
      <4>2. workers'[w] # workers[w]
        BY <2>2, <1>4, <1>a DEF Claim, At, Go, Worker
      <4> QED
        BY <4>1, <4>2 DEF RowStep, Holds, Spent
    <3> QED
      BY <3>1, <3>2
  <2> QED
    BY <1>4, <2>1, <2>2, <1>0 DEF Claim, Terminal
<1>5. ASSUME NEW w \in Workers, Decide(w) \/ CrawlEnds(w) PROVE RowStep(r)
  <2>1. {"denied", "completed", "reconciliation_required"} \subseteq Terminal
    BY DEF Terminal
  <2> QED
    BY <1>5, <2>1, <1>a, EndingRow DEF Decide, CrawlEnds
<1>6. ASSUME NEW w \in Workers, Begin(w) PROVE RowStep(r)
  <2>1. CASE r # Of(w)
    BY <1>6, <2>1, <1>a, SameRow DEF Begin
  <2>2. CASE r = Of(w)
    <3>1. /\ receipts[r].owner = w /\ receipts[r].state \in Leased
          /\ receipts'[r].owner = w /\ receipts'[r].state = "provider_started"
      BY <1>6, <2>2, <1>a DEF Begin, Holds, Row
    <3>2. workers'[w] # workers[w]
      BY <1>6, <1>a DEF Begin, At, Go, Worker
    <3> QED
      BY <3>1, <3>2 DEF RowStep, Holds, Leased, Terminal
  <2> QED
    BY <2>1, <2>2
<1>7. ASSUME NEW o \in Receipts, LeaseEnds(o) PROVE RowStep(r)
  <2>1. receipts'[r].state = receipts[r].state /\ receipts'[r].owner = receipts[r].owner
    BY <1>7, <1>a DEF LeaseEnds, Row
  <2> QED
    BY <2>1, SameRow
<1> QED
  BY <1>0, <1>1, <1>2, <1>3, <1>4, <1>5, <1>6, <1>7
  DEF Next, WorkerStep, SendSignal, MarkSent, Sweep, ListPending, Dispatch, MarkDispatched, Listen, Take, TakeNothing,
      RecoverInRun, BeginRefused, RunFails, Inspect, Acknowledge, CountAttempt, Bury, Crash, Lose, vars

\* A worker has a claim, or crawls, by its own claim() or begin_provider().
LEMMA RunsArrive ==
  ASSUME DeliveryInv, [Next]_vars, NEW w \in Workers, workers'[w] # workers[w]
  PROVE  /\ At(w, "claimed")' => Of(w)' = Of(w) /\ Of(w) \in Receipts /\ receipts'[Of(w)].state = "authorized"
         /\ At(w, "started")' => Begin(w) /\ Of(w)' = Of(w) /\ Of(w) \in Receipts
         /\ \A v \in Workers \ {w} : workers'[v] = workers[v]
<1>a. /\ workers \in [Workers -> Worker] /\ workers[w] \in Worker
      /\ receipts \in [Receipts -> Row] /\ Idle \in Worker /\ Idle.at = "idle"
  BY DEF DeliveryInv, TypeOK, Idle, Worker
<1> DEFINE Goal == /\ At(w, "claimed")' => Of(w)' = Of(w) /\ Of(w) \in Receipts /\ receipts'[Of(w)].state = "authorized"
                   /\ At(w, "started")' => Begin(w) /\ Of(w)' = Of(w) /\ Of(w) \in Receipts
                   /\ \A v \in Workers \ {w} : workers'[v] = workers[v]
<1>1. ASSUME NEW row \in Worker, row.at \notin {"claimed", "started"}, NEW u \in Workers,
             workers' = [workers EXCEPT ![u] = row]
      PROVE  Goal
  BY <1>1, <1>a DEF At
<1>2. ASSUME NEW step \in {"idle", "swept", "listed", "signalled", "ready", "running", "recovered", "done", "failed",
                           "count", "bury"}, NEW u \in Workers, Go(u, step)
      PROVE  Goal
  <2>1. u = w /\ workers' = [workers EXCEPT ![w].at = step]
    BY <1>2, <1>a DEF Go
  <2>2. workers'[w].at = step
    BY <2>1, <1>a DEF Worker
  <2> QED
    BY <2>1, <2>2, <1>a DEF At
<1>3. ASSUME NEW u \in Workers, Claim(u) PROVE Goal
  <2>1. CASE Go(u, "failed")
    BY <2>1, <1>2
  <2>2. CASE Go(u, "claimed") /\ receipts' = [receipts EXCEPT ![Of(u)] = [state |-> "authorized", owner |-> u, live |-> TRUE]]
    <3>1. u = w /\ workers' = [workers EXCEPT ![w].at = "claimed"]
      BY <2>2, <1>a DEF Go
    <3>2. workers'[w].at = "claimed" /\ workers'[w].of = workers[w].of
      BY <3>1, <1>a DEF Worker
    <3>3. Of(w) \in Receipts
      BY <1>3, <3>1 DEF Claim, At, Of, DeliveryInv, WorkerInv, Handling
    <3> QED
      BY <2>2, <3>1, <3>2, <3>3, <1>a DEF At, Of
  <2> QED
    BY <1>3, <2>1, <2>2 DEF Claim
<1>4. ASSUME NEW u \in Workers, Begin(u) PROVE Goal
  <2>1. u = w /\ workers' = [workers EXCEPT ![w].at = "started"]
    BY <1>4, <1>a DEF Begin, Go
  <2>2. workers'[w].at = "started" /\ workers'[w].of = workers[w].of
    BY <2>1, <1>a DEF Worker
  <2>3. Of(w) \in Receipts
    BY <1>4, <2>1 DEF Begin, At, Of, DeliveryInv, WorkerInv, Handling
  <2> QED
    BY <1>4, <2>1, <2>2, <2>3 DEF At, Of
<1>5. ASSUME NEW u \in Workers, Decide(u) \/ CrawlEnds(u) PROVE Goal
  BY <1>5, <1>2 DEF Decide, CrawlEnds, Finish
<1>6. ASSUME NEW u \in Workers, \/ Sweep(u) \/ MarkDispatched(u) \/ TakeNothing(u) \/ RecoverInRun(u) \/ BeginRefused(u)
                                \/ RunFails(u) \/ Inspect(u)
      PROVE  Goal
  BY <1>6, <1>2 DEF Sweep, MarkDispatched, TakeNothing, RecoverInRun, BeginRefused, RunFails, Inspect
<1>7. ASSUME NEW u \in Workers, LoopMoves(u) PROVE Goal
  BY <1>7, <1>1 DEF LoopMoves, Handling
<1>8. ASSUME NEW u \in Workers, NEW o \in Receipts, Dispatch(u, o) PROVE Goal
  <2>1. u = w /\ workers' = [workers EXCEPT ![w].at = "signalled", ![w].of = o, ![w].todo = @ \ {o}]
    BY <1>8, <1>a DEF Dispatch
  <2>2. workers'[w].at = "signalled"
    BY <2>1, <1>a DEF Worker
  <2> QED
    BY <2>1, <2>2, <1>a DEF At
<1>9. ASSUME NEW u \in Workers, ListPending(u) PROVE Goal
  <2>1. u = w /\ workers' = [workers EXCEPT ![w].at = "listed", ![w].todo = {r \in Receipts : receipts[r].state \in Sent}]
    BY <1>9, <1>a DEF ListPending
  <2>2. workers'[w].at = "listed"
    BY <2>1, <1>a DEF Worker
  <2> QED
    BY <2>1, <2>2, <1>a DEF At
<1>10. ASSUME NEW u \in Workers, NEW m \in Messages, Take(u, m) PROVE Goal
  <2>1. u = w /\ workers' = [workers EXCEPT ![w] = [Idle EXCEPT !.at = "running", !.of = stream[m].of, !.msg = m]]
    BY <1>10, <1>a DEF Take
  <2>2. workers'[w].at = "running"
    BY <2>1, <1>a DEF Idle
  <2> QED
    BY <2>1, <2>2, <1>a DEF At
<1>11. ASSUME NEW u \in Workers, Acknowledge(u) \/ Bury(u) \/ workers' = [workers EXCEPT ![u] = Idle] PROVE Goal
  BY <1>11, <1>1, <1>a DEF Acknowledge, Bury
<1>12. ASSUME NEW u \in Workers, Listen(u) PROVE Goal
  <2>1. workers' = [workers EXCEPT ![u] = [Idle EXCEPT !.at = "ready"]]
    BY <1>12 DEF Listen
  <2>2. [Idle EXCEPT !.at = "ready"] \in Worker /\ [Idle EXCEPT !.at = "ready"].at = "ready"
    BY DEF Idle, Worker
  <2> QED
    BY <2>1, <2>2, <1>1
<1>13. ASSUME NEW u \in Workers, CountAttempt(u) PROVE Goal
  <2>1. CASE workers' = [workers EXCEPT ![u] = Idle]
    BY <2>1, <1>11
  <2>2. CASE workers' = [workers EXCEPT ![u] = [@ EXCEPT !.at = "bury"]]
    <3>1. u = w /\ workers'[w].at = "bury"
      BY <2>2, <1>a DEF Worker
    <3> QED
      BY <2>2, <3>1, <1>a DEF At
  <2> QED
    BY <1>13, <2>1, <2>2 DEF CountAttempt
<1> QED
  BY <1>3, <1>4, <1>5, <1>6, <1>8, <1>9, <1>10, <1>11, <1>12, <1>13
  DEF Next, WorkerStep, SendSignal, MarkSent, Intend, LeaseEnds, Crash, Lose, vars

LEMMA NextCrawlInv == DeliveryInv /\ CrawlInv /\ [Next]_vars => CrawlInv'
<1> SUFFICES ASSUME DeliveryInv, CrawlInv, [Next]_vars PROVE CrawlInv'
  OBVIOUS
<1>r. \A r \in Receipts : RowStep(r)
  BY NextRows
<1>o. \A w \in Workers : workers[w].at \in {"claimed", "started"} => Of(w) \in Receipts
  BY DEF DeliveryInv, WorkerInv, Handling
<1>1. ASSUME NEW w \in Workers, At(w, "claimed")', Holds(w, Of(w))' PROVE receipts'[Of(w)'].state = "authorized"
  <2>1. CASE workers'[w] = workers[w]
    <3>1. At(w, "claimed") /\ Of(w)' = Of(w) /\ Of(w) \in Receipts
      BY <1>1, <2>1, <1>o DEF At, Of
    <3>2. Holds(w, Of(w)) /\ receipts'[Of(w)].state = receipts[Of(w)].state
      BY <1>1, <1>r, <2>1, <3>1 DEF RowStep, Holds
    <3> QED
      BY <3>1, <3>2 DEF CrawlInv
  <2>2. CASE workers'[w] # workers[w]
    BY <1>1, <2>2, RunsArrive
  <2> QED
    BY <2>1, <2>2
<1>2. ASSUME NEW w \in Workers, At(w, "started")'
      PROVE  \/ Holds(w, Of(w))' /\ receipts'[Of(w)'].state = "provider_started"
             \/ receipts'[Of(w)'].state \in Terminal
  <2>1. CASE workers'[w] = workers[w]
    <3>1. At(w, "started") /\ Of(w)' = Of(w)
      BY <1>2, <2>1 DEF At, Of
    <3>2. PICK r \in Receipts : r = Of(w)
      BY <3>1, <1>o DEF At
    <3>3. (Holds(w, r) /\ receipts[r].state = "provider_started") \/ receipts[r].state \in Terminal
      BY <3>1, <3>2 DEF CrawlInv
    <3>4. RowStep(r)
      BY <1>r
    <3> QED
      BY <3>1, <3>2, <3>3, <3>4 DEF RowStep, Holds, Leased
  <2>2. CASE workers'[w] # workers[w]
    <3>1. Begin(w) /\ Of(w)' = Of(w)
      BY <1>2, <2>2, RunsArrive
    <3>2. PICK r \in Receipts : r = Of(w)
      BY <1>2, <2>2, RunsArrive
    <3>3. receipts \in [Receipts -> Row] /\ receipts[r] \in Row
      BY DEF DeliveryInv, TypeOK
    <3>4. receipts'[r].owner = w /\ receipts'[r].state = "provider_started"
      BY <3>1, <3>2, <3>3 DEF Begin, Holds, Row
    <3> QED
      BY <3>1, <3>2, <3>4 DEF Holds, Leased
  <2> QED
    BY <2>1, <2>2
<1>3. ASSUME NEW v \in Workers, NEW w \in Workers, At(v, "started")', At(w, "started")', Of(v)' = Of(w)' PROVE v = w
  <2>1. CASE workers'[v] = workers[v] /\ workers'[w] = workers[w]
    BY <1>3, <2>1 DEF CrawlInv, OneCrawler, At, Of
  <2>2. ASSUME NEW x \in Workers, NEW y \in Workers, x # y, At(x, "started")', At(y, "started")', Of(x)' = Of(y)',
               workers'[y] # workers[y]
        PROVE  FALSE
    <3>1. Begin(y) /\ Of(y)' = Of(y) /\ workers'[x] = workers[x]
      BY <2>2, RunsArrive
    <3>2. At(x, "started") /\ Of(x) = Of(y)
      BY <2>2, <3>1 DEF At, Of
    <3>3. Holds(x, Of(y)) \/ receipts[Of(y)].state \in Terminal
      BY <3>2 DEF CrawlInv
    <3> QED
      BY <2>2, <3>1, <3>3 DEF Begin, Holds, Leased, Terminal
  <2> QED
    BY <1>3, <2>1, <2>2
<1> QED
  BY <1>1, <1>2, <1>3 DEF CrawlInv, OneCrawler

LEMMA InitCrawlInv == Init => CrawlInv
BY DEF Init, CrawlInv, OneCrawler, At, Idle

\* One run at most crawls for a receipt, though its message is delivered again
\* after CLAIM_IDLE_MS whether or not its worker is alive.
THEOREM CrawledByOne == Spec => []OneCrawler
<1>1. CrawlInv => OneCrawler
  BY DEF CrawlInv
<1> QED
  BY <1>1, InitDeliveryInv, NextDeliveryInv, InitCrawlInv, NextCrawlInv, PTL DEF Spec

\* A receipt is crawled once, through redelivery, recovery, late marks and dead
\* workers: what has started is settled or parked, never sent again.
THEOREM StartedOnce == Spec => CrawledOnce
<1>1. DeliveryInv /\ CrawlInv /\ [Next]_vars => [\A r \in Receipts : StartsOnce(r)]_vars
  <2> SUFFICES ASSUME DeliveryInv, CrawlInv, [Next]_vars, NEW r \in Receipts, receipts[r].state \in Spent
               PROVE  StartsOnce(r)
    BY DEF StartsOnce
  <2>1. receipts'[r].state \in Spent
    BY NextRows DEF RowStep, Spent
  <2>2. ASSUME NEW w \in Workers, At(w, "started")', Of(w)' = r PROVE At(w, "started") /\ Of(w) = r
    <3>1. CASE workers'[w] = workers[w]
      BY <2>2, <3>1 DEF At, Of
    <3>2. CASE workers'[w] # workers[w]
      <4>1. Begin(w) /\ Of(w) = r
        BY <2>2, <3>2, RunsArrive
      <4>2. At(w, "claimed") /\ Holds(w, r)
        BY <4>1 DEF Begin
      <4> QED
        BY <4>1, <4>2 DEF CrawlInv, Spent, Terminal
    <3> QED
      BY <3>1, <3>2
  <2> QED
    BY <2>1, <2>2 DEF StartsOnce
<1> QED
  BY <1>1, InitDeliveryInv, NextDeliveryInv, InitCrawlInv, NextCrawlInv, PTL DEF Spec, CrawledOnce

-----------------------------------------------------------------------------
(* Refinement.  Initial states map to initial states, and every step to a   *)
(* step of each receipt's effects.                                          *)

Phase(r) == PhaseOf(receipts[r].state)

\* The mapping, read line by line.
LEMMA PhaseIs ==
  ASSUME NEW state \in {"none"} \cup Active \cup Terminal
  PROVE  /\ state = "none" => PhaseOf(state) = "none"
         /\ state \in Sent \cup {"queued", "authorized"} => PhaseOf(state) = "intended"
         /\ state = "provider_started" => PhaseOf(state) = "running"
         /\ state = "reconciliation_required" => PhaseOf(state) = "stopped"
         /\ state \in Terminal \ {"reconciliation_required"} => PhaseOf(state) = "closed"
BY DEF PhaseOf, Active, Terminal, Sent, Leased

\* One receipt's part of a step, without the mapping.
PhaseStep(r) ==
  IF StartsCrawl(r) THEN Phase(r) = "intended" /\ Phase(r)' = "running"
  ELSE \/ Phase(r)' = Phase(r)
       \/ Phase(r) = "none" /\ Phase(r)' = "intended"
       \/ Phase(r) = "running" /\ Phase(r)' = "stopped"
       \/ Phase(r) \in {"intended", "running"} /\ Phase(r)' = "closed"

\* Whoever carries a receipt's id has it from its intent.
Known(r) == receipts[r].state # "none"
KnownInv ==
  /\ \A m \in Messages : stream[m].at # "free" => Known(stream[m].of)
  /\ \A p \in Producers : producers[p].at # "idle" => Known(producers[p].of)
  /\ \A w \in Workers : At(w, "signalled") \/ workers[w].at \in Handling => Known(Of(w))
  /\ \A w \in Workers : \A r \in workers[w].todo : Known(r)

\* No step forgets a receipt.
LEMMA KnownStays ==
  ASSUME DeliveryInv, [Next]_vars, NEW r \in Receipts, Known(r)
  PROVE  Known(r)'
<1>a. TypeOK /\ receipts \in [Receipts -> Row] /\ receipts[r] \in Row
  BY DEF DeliveryInv, TypeOK
<1>0. CASE receipts'[r].state = receipts[r].state
  BY <1>0 DEF Known
<1>1. ASSUME NEW p \in Producers, NEW o \in Receipts, Intend(p, o) PROVE Known(r)'
  BY <1>1, <1>0, <1>a DEF Intend, Known
<1>2. ASSUME NEW o, MarkQueued(o) PROVE Known(r)'
  BY <1>2, <1>a DEF MarkQueued, Known, Row
<1>3. ASSUME receipts' = [o \in Receipts |-> Recovered(receipts[o])] PROVE Known(r)'
  <2>1. receipts'[r] = Recovered(receipts[r])
    BY <1>3
  <2> QED
    BY <2>1 DEF Recovered, Known
<1>4. ASSUME NEW o, NEW state \in Terminal, Move(o, state) PROVE Known(r)'
  <2>1. receipts'[r].state = IF r = o THEN state ELSE receipts[r].state
    BY <1>4, <1>a DEF Move
  <2> QED
    BY <2>1 DEF Known, Terminal
<1>5. ASSUME NEW w \in Workers, Claim(w) PROVE Known(r)'
  <2>1. CASE receipts' = [receipts EXCEPT ![Of(w)] = [state |-> "authorized", owner |-> w, live |-> TRUE]]
    BY <2>1, <1>a DEF Known
  <2> QED
    BY <1>5, <2>1, <1>0, <1>4 DEF Claim, Terminal
<1>6. ASSUME NEW w \in Workers, Decide(w) \/ CrawlEnds(w) PROVE Known(r)'
  <2>1. {"denied", "completed", "reconciliation_required"} \subseteq Terminal
    BY DEF Terminal
  <2> QED
    BY <1>6, <2>1, <1>0, <1>4 DEF Decide, CrawlEnds, Finish
<1>7. ASSUME NEW w \in Workers, Begin(w) PROVE Known(r)'
  BY <1>7, <1>a DEF Begin, Known, Row
<1>8. ASSUME NEW o \in Receipts, LeaseEnds(o) PROVE Known(r)'
  BY <1>8, <1>a DEF LeaseEnds, Known, Row
<1> QED
  BY <1>0, <1>1, <1>2, <1>3, <1>5, <1>6, <1>7, <1>8
  DEF Next, WorkerStep, SendSignal, MarkSent, Sweep, ListPending, Dispatch, MarkDispatched, Listen, Take, TakeNothing,
      RecoverInRun, BeginRefused, RunFails, Inspect, Acknowledge, CountAttempt, Bury, Crash, Lose, vars

\* A message is of a receipt whose request or dispatch sent it.
LEMMA MessagesKnown ==
  ASSUME DeliveryInv, KnownInv, [Next]_vars, NEW m \in Messages, stream'[m].at # "free"
  PROVE  Known(stream[m].of)'
<1>a. stream \in [Messages -> Message] /\ Free.at = "free" /\ \A r \in Receipts : Known(r) => Known(r)'
  BY KnownStays DEF DeliveryInv, TypeOK, Free
<1>1. CASE stream'[m].of = stream[m].of /\ stream[m].at # "free"
  BY <1>1, <1>a DEF KnownInv, DeliveryInv, MessageInv, Known
<1>2. ASSUME NEW r \in Receipts, Known(r), XAdd(r) PROVE Known(stream[m].of)'
  <2>1. PICK n \in Messages : stream' = [stream EXCEPT ![n] = [of |-> r, at |-> "new", attempts |-> 0]]
    BY <1>2 DEF XAdd
  <2>2. CASE m = n
    BY <2>1, <2>2, <1>2, <1>a DEF Known
  <2>3. CASE m # n
    BY <2>1, <2>3, <1>1, <1>a
  <2> QED
    BY <2>2, <2>3
<1>3. ASSUME NEW p \in Producers, SendSignal(p) PROVE Known(stream[m].of)'
  BY <1>3, <1>2 DEF SendSignal, KnownInv, DeliveryInv, ProducerInv
<1>4. ASSUME NEW w \in Workers, NEW r \in Receipts, Dispatch(w, r) PROVE Known(stream[m].of)'
  BY <1>4, <1>2 DEF Dispatch, KnownInv
<1>5. ASSUME NEW n \in Messages, NEW w \in Workers, Take(w, n) PROVE Known(stream[m].of)'
  <2>1. stream' = [stream EXCEPT ![n].at = "pending"] /\ stream[n].at # "free"
    BY <1>5 DEF Take
  <2>2. stream'[m].of = stream[m].of /\ stream[m].at # "free"
    BY <2>1, <1>a DEF Message
  <2> QED
    BY <2>2, <1>1
<1>6. ASSUME NEW w \in Workers, CountAttempt(w) PROVE Known(stream[m].of)'
  <2>1. PICK k : stream' = [stream EXCEPT ![workers[w].msg].attempts = k]
    BY <1>6 DEF CountAttempt
  <2>2. stream'[m].of = stream[m].of /\ stream'[m].at = stream[m].at
    BY <2>1, <1>a DEF Message
  <2> QED
    BY <2>2, <1>1
<1>7. ASSUME NEW n, Drop(n) PROVE Known(stream[m].of)'
  BY <1>7, <1>1, <1>a DEF Drop
<1>8. CASE UNCHANGED stream
  BY <1>8, <1>1
<1> QED
  BY <1>3, <1>4, <1>5, <1>6, <1>7, <1>8
  DEF Next, WorkerStep, MarkSent, Intend, LeaseEnds, Sweep, ListPending, MarkDispatched, Listen, TakeNothing, RecoverInRun,
      Claim, Decide, Begin, BeginRefused, CrawlEnds, RunFails, Inspect, Acknowledge, Bury, Crash, Lose, vars, bounds

\* A producer has a receipt by its own intent.
LEMMA ProducersKnown ==
  ASSUME DeliveryInv, KnownInv, [Next]_vars, NEW p \in Producers, producers'[p].at # "idle"
  PROVE  Known(producers[p].of)'
<1>a. /\ producers \in [Producers -> Request] /\ receipts \in [Receipts -> Row]
      /\ \A r \in Receipts : Known(r) => Known(r)'
  BY KnownStays DEF DeliveryInv, TypeOK
<1>1. CASE producers'[p].of = producers[p].of /\ producers[p].at # "idle"
  BY <1>1, <1>a DEF KnownInv, DeliveryInv, ProducerInv, Known
<1>2. ASSUME NEW q \in Producers, NEW r \in Receipts, Intend(q, r) PROVE Known(producers[p].of)'
  <2>1. CASE p # q
    BY <1>2, <2>1, <1>1, <1>a DEF Intend
  <2>2. CASE p = q
    <3>1. producers'[p].of = r
      BY <1>2, <2>2, <1>a DEF Intend
    <3>2. Known(r) \/ receipts' = [receipts EXCEPT ![r].state = "dispatch_pending"]
      BY <1>2 DEF Intend, Known, Active, Sent, Leased
    <3>3. receipts' = [receipts EXCEPT ![r].state = "dispatch_pending"] => receipts'[r].state = "dispatch_pending"
      BY <1>a DEF Row
    <3> QED
      BY <3>1, <3>2, <3>3, <1>a DEF Known
  <2> QED
    BY <2>1, <2>2
<1>3. ASSUME NEW q \in Producers, SendSignal(q) PROVE Known(producers[p].of)'
  <2>1. producers' = [producers EXCEPT ![q].at = "signalled"] /\ producers[q].at # "idle"
    BY <1>3 DEF SendSignal
  <2>2. producers'[p].of = producers[p].of /\ producers[p].at # "idle"
    BY <2>1, <1>a DEF Request
  <2> QED
    BY <2>2, <1>1
<1>4. ASSUME NEW q \in Producers, producers' = [producers EXCEPT ![q] = [at |-> "idle", of |-> None]]
      PROVE  Known(producers[p].of)'
  BY <1>4, <1>1, <1>a
<1>5. CASE UNCHANGED producers
  BY <1>5, <1>1
<1> QED
  BY <1>2, <1>3, <1>4, <1>5
  DEF Next, WorkerStep, MarkSent, LeaseEnds, Sweep, ListPending, MarkDispatched, Listen, TakeNothing, RecoverInRun, Claim,
      Decide, Begin, BeginRefused, CrawlEnds, RunFails, Inspect, Acknowledge, CountAttempt, Bury, Take, Dispatch, Crash,
      Lose, vars, bounds

Carries(w) == At(w, "signalled") \/ workers[w].at \in Handling

\* A worker carries what it took from the stream or from its list, which is of
\* the receipts it found waiting.
LEMMA WorkersKnown ==
  ASSUME DeliveryInv, KnownInv, [Next]_vars, NEW w \in Workers
  PROVE  /\ Carries(w)' => Known(Of(w))'
         /\ \A r \in workers'[w].todo : Known(r)'
<1>a. /\ workers \in [Workers -> Worker] /\ workers[w] \in Worker /\ Idle.at = "idle" /\ Idle.todo = {}
      /\ \A r \in Receipts : Known(r) => Known(r)'
      /\ workers[w].todo \subseteq Receipts
  BY KnownStays DEF DeliveryInv, TypeOK, Idle, Worker
<1> DEFINE Goal == /\ Carries(w)' => Known(Of(w))'
                   /\ \A r \in workers'[w].todo : Known(r)'
<1>1. ASSUME Carries(w)' => Carries(w) /\ Of(w)' = Of(w), workers'[w].todo \subseteq workers[w].todo PROVE Goal
  <2>1. Carries(w) => Of(w) \in Receipts /\ Known(Of(w))
    BY DEF Carries, KnownInv, DeliveryInv, WorkerInv
  <2>2. \A r \in workers[w].todo : Known(r)
    BY DEF KnownInv
  <2> QED
    BY <1>1, <2>1, <2>2, <1>a DEF Known, Of
<1>2. ASSUME NEW u \in Workers, workers' = [workers EXCEPT ![u] = Idle] PROVE Goal
  BY <1>2, <1>1, <1>a DEF Carries, At, Of, Handling
<1>3. ASSUME NEW u \in Workers, NEW step, Go(u, step), step \in Handling => workers[u].at \in Handling, step # "signalled"
      PROVE  Goal
  <2>1. CASE u = w
    <3>1. workers'[w].at = step /\ workers'[w].of = workers[w].of /\ workers'[w].todo = workers[w].todo
      BY <1>3, <2>1, <1>a DEF Go, Worker
    <3> QED
      BY <1>3, <2>1, <3>1, <1>1 DEF Carries, At, Of
  <2>2. CASE u # w
    BY <1>3, <2>2, <1>1, <1>a DEF Go, Carries, At, Of
  <2> QED
    BY <2>1, <2>2
<1>4. ASSUME NEW u \in Workers, \/ RecoverInRun(u) \/ Claim(u) \/ Decide(u) \/ Begin(u) \/ BeginRefused(u)
                                \/ CrawlEnds(u) \/ RunFails(u) \/ Inspect(u)
      PROVE  Goal
  <2>1. RunMoves(u)
    BY <1>4, RunSteps
  <2>2. PICK step \in Handling : Go(u, step)
    BY <2>1 DEF RunMoves
  <2>3. workers[u].at \in Handling
    BY <1>4 DEF RecoverInRun, Claim, Decide, Begin, BeginRefused, CrawlEnds, RunFails, Inspect, At, Handling
  <2> QED
    BY <2>2, <2>3, <1>3 DEF Handling
<1>5. ASSUME NEW u \in Workers, Sweep(u) \/ MarkDispatched(u) \/ TakeNothing(u) PROVE Goal
  BY <1>5, <1>3 DEF Sweep, MarkDispatched, TakeNothing, Handling
<1>6. ASSUME NEW u \in Workers, ListPending(u) PROVE Goal
  <2>1. CASE u = w
    <3> DEFINE todo == {r \in Receipts : receipts[r].state \in Sent}
    <3>1. workers' = [workers EXCEPT ![w].at = "listed", ![w].todo = todo]
      BY <1>6, <2>1 DEF ListPending
    <3>2. \A r \in todo : r \in Receipts /\ Known(r)
      BY DEF Known, Sent
    <3> HIDE DEF todo
    <3>3. workers'[w].at = "listed" /\ workers'[w].todo = todo
      BY <3>1, <1>a DEF Worker
    <3> QED
      BY <3>2, <3>3, <1>a DEF Carries, At, Handling
  <2>2. CASE u # w
    BY <1>6, <2>2, <1>1, <1>a DEF ListPending, Carries, At, Of
  <2> QED
    BY <2>1, <2>2
<1>7. ASSUME NEW u \in Workers, NEW r \in Receipts, Dispatch(u, r) PROVE Goal
  <2>1. CASE u = w
    <3>1. workers' = [workers EXCEPT ![w].at = "signalled", ![w].of = r, ![w].todo = @ \ {r}] /\ r \in workers[w].todo
      BY <1>7, <2>1 DEF Dispatch
    <3>2. workers'[w].of = r /\ workers'[w].todo = workers[w].todo \ {r}
      BY <3>1, <1>a DEF Worker
    <3> QED
      BY <3>1, <3>2, <1>a DEF KnownInv, Of, Known
  <2>2. CASE u # w
    BY <1>7, <2>2, <1>1, <1>a DEF Dispatch, Carries, At, Of
  <2> QED
    BY <2>1, <2>2
<1>8. ASSUME NEW u \in Workers, Listen(u) PROVE Goal
  <2>1. workers' = [workers EXCEPT ![u] = [Idle EXCEPT !.at = "ready"]]
    BY <1>8 DEF Listen
  <2>2. [Idle EXCEPT !.at = "ready"].at = "ready" /\ [Idle EXCEPT !.at = "ready"].todo = {}
    BY DEF Idle
  <2> QED
    BY <2>1, <2>2, <1>1, <1>a DEF Carries, At, Of, Handling
<1>9. ASSUME NEW u \in Workers, NEW m \in Messages, Take(u, m) PROVE Goal
  <2> DEFINE x == [Idle EXCEPT !.at = "running", !.of = stream[m].of, !.msg = m]
  <2>1. workers' = [workers EXCEPT ![u] = x] /\ stream[m].at # "free"
    BY <1>9 DEF Take
  <2>2. x.of = stream[m].of /\ x.todo = {}
    BY DEF Idle
  <2>3. stream[m].of \in Receipts /\ Known(stream[m].of)
    BY <2>1 DEF KnownInv, DeliveryInv, MessageInv
  <2> HIDE DEF x
  <2>4. CASE u = w
    BY <2>1, <2>2, <2>3, <2>4, <1>a DEF Of, Known
  <2>5. CASE u # w
    BY <2>1, <2>5, <1>1, <1>a DEF Carries, At, Of
  <2> QED
    BY <2>4, <2>5
<1>10. ASSUME NEW u \in Workers, CountAttempt(u) PROVE Goal
  <2>1. CASE workers' = [workers EXCEPT ![u] = Idle]
    BY <2>1, <1>2
  <2>2. CASE workers' = [workers EXCEPT ![u] = [@ EXCEPT !.at = "bury"]]
    <3>1. Go(u, "bury")
      BY <2>2, <1>a DEF Go
    <3>2. workers[u].at \in Handling
      BY <1>10 DEF CountAttempt, At, Handling
    <3> QED
      BY <3>1, <3>2, <1>3
  <2> QED
    BY <1>10, <2>1, <2>2 DEF CountAttempt
<1>11. CASE UNCHANGED workers
  BY <1>11, <1>1 DEF Carries, At, Of
<1> QED
  BY <1>2, <1>4, <1>5, <1>6, <1>7, <1>8, <1>9, <1>10, <1>11
  DEF Next, WorkerStep, SendSignal, MarkSent, Intend, LeaseEnds, Acknowledge, Bury, Crash, Lose, vars, bounds

LEMMA NextKnownInv == DeliveryInv /\ KnownInv /\ [Next]_vars => KnownInv'
BY MessagesKnown, ProducersKnown, WorkersKnown DEF KnownInv, Carries

LEMMA InitKnownInv == Init => KnownInv
BY DEF Init, KnownInv, Free, Idle, At, Handling

\* The same of the row's state.
StateStep(r) ==
  LET was == receipts[r].state
      is  == receipts'[r].state
      Waits == Sent \cup {"queued", "authorized"}
  IN
  \/ is = was
  \/ was \in Waits \cup {"none"} /\ is \in Waits
  \/ was = "provider_started" /\ is = "reconciliation_required"
  \/ was \in Waits \cup {"provider_started"} /\ is \in Terminal \ {"reconciliation_required"}

LEMMA StateMoves ==
  ASSUME TypeOK, NEW o, NEW state, NEW owner, NEW live, NEW r \in Receipts,
         receipts' = [receipts EXCEPT ![o] = [state |-> state, owner |-> owner, live |-> live]]
  PROVE  receipts'[r].state = IF r = o THEN state ELSE receipts[r].state
BY DEF TypeOK

\* Every step but begin_provider() moves each row so.
LEMMA StatesMove ==
  ASSUME DeliveryInv, CrawlInv, KnownInv, [Next]_vars, NEW r \in Receipts, \A w \in Workers : ~Begin(w)
  PROVE  StateStep(r)
<1>a. /\ TypeOK /\ receipts \in [Receipts -> Row] /\ receipts[r] \in Row
      /\ receipts[r].state \in {"none"} \cup Active \cup Terminal
  BY DEF DeliveryInv, TypeOK, Row
<1>0. CASE receipts'[r].state = receipts[r].state
  BY <1>0 DEF StateStep
<1>1. ASSUME NEW p \in Producers, NEW o \in Receipts, Intend(p, o) PROVE StateStep(r)
  <2>1. CASE receipts[o].state = "none" /\ receipts' = [receipts EXCEPT ![o].state = "dispatch_pending"]
    <3>1. CASE r = o
      <4>1. receipts[r].state = "none" /\ receipts'[r].state = "dispatch_pending"
        BY <2>1, <3>1, <1>a DEF Row
      <4> QED
        BY <4>1 DEF StateStep, Sent
    <3>2. CASE r # o
      BY <2>1, <3>2, <1>0, <1>a
    <3> QED
      BY <3>1, <3>2
  <2> QED
    BY <1>1, <2>1, <1>0 DEF Intend
<1>2. ASSUME NEW o, MarkQueued(o) PROVE StateStep(r)
  <2>1. CASE r = o /\ receipts[r].state \in Sent
    <3>1. receipts'[r].state = "queued"
      BY <1>2, <2>1, <1>a DEF MarkQueued, Row
    <3> QED
      BY <2>1, <3>1 DEF StateStep
  <2>2. CASE ~(r = o /\ receipts[r].state \in Sent)
    <3>1. receipts'[r].state = receipts[r].state
      BY <1>2, <2>2, <1>a DEF MarkQueued, Row
    <3> QED
      BY <3>1, <1>0
  <2> QED
    BY <2>1, <2>2
<1>3. ASSUME receipts' = [o \in Receipts |-> Recovered(receipts[o])] PROVE StateStep(r)
  <2>1. receipts'[r] = Recovered(receipts[r])
    BY <1>3
  <2>2. CASE receipts[r].state \notin Leased \/ receipts[r].live
    BY <2>1, <2>2, <1>0 DEF Recovered
  <2>3. CASE ~(receipts[r].state \notin Leased \/ receipts[r].live)
    <3>1. receipts'[r].state = IF receipts[r].state = "authorized" THEN "retryable" ELSE "reconciliation_required"
      BY <2>1, <2>3 DEF Recovered
    <3> QED
      BY <2>3, <3>1 DEF StateStep, Leased, Sent
  <2> QED
    BY <2>2, <2>3
<1>4. ASSUME NEW w \in Workers, Claim(w) PROVE StateStep(r)
  <2>1. CASE UNCHANGED receipts
    BY <2>1, <1>0
  <2>2. CASE receipts[Of(w)].state = "provider_started" /\ Move(Of(w), "reconciliation_required")
    BY <2>2, <1>a, <1>0, StateMoves DEF Move, StateStep
  <2>3. CASE /\ receipts[Of(w)].state \notin Terminal \cup {"provider_started"}
             /\ \/ Move(Of(w), "denied")
                \/ receipts' = [receipts EXCEPT ![Of(w)] = [state |-> "authorized", owner |-> w, live |-> TRUE]]
    <3>1. CASE r # Of(w)
      BY <2>3, <3>1, <1>a, <1>0, StateMoves DEF Move
    <3>2. CASE r = Of(w)
      <4>1. receipts[r].state \in {"none"} \cup Sent \cup {"queued", "authorized"}
        BY <2>3, <3>2, <1>a DEF Active, Leased
      <4>2. receipts[r].state # "none"
        BY <1>4, <3>2 DEF Claim, KnownInv, Known, Handling, At, Of
      <4>3. receipts'[r].state \in {"denied", "authorized"}
        BY <2>3, <3>2, <1>a, StateMoves DEF Move
      <4> QED
        BY <4>1, <4>2, <4>3 DEF StateStep, Terminal
    <3> QED
      BY <3>1, <3>2
  <2> QED
    BY <1>4, <2>1, <2>2, <2>3 DEF Claim, Refusing
<1>5. ASSUME NEW w \in Workers, Decide(w) PROVE StateStep(r)
  <2>1. CASE Holds(w, Of(w)) /\ (Move(Of(w), "denied") \/ Move(Of(w), "completed"))
    <3>1. receipts[Of(w)].state = "authorized"
      BY <1>5, <2>1 DEF Decide, CrawlInv
    <3>2. \/ receipts'[r].state = receipts[r].state
          \/ r = Of(w) /\ receipts'[r].state \in {"denied", "completed"}
      BY <2>1, <1>a, StateMoves DEF Move
    <3> QED
      BY <3>1, <3>2, <1>0 DEF StateStep, Terminal
  <2> QED
    BY <1>5, <2>1, <1>0 DEF Decide, Finish
<1>6. ASSUME NEW w \in Workers, CrawlEnds(w) PROVE StateStep(r)
  <2>1. CASE Holds(w, Of(w)) /\ (Move(Of(w), "completed") \/ Move(Of(w), "reconciliation_required"))
    <3>1. receipts[Of(w)].state = "provider_started"
      BY <1>6, <2>1 DEF CrawlEnds, CrawlInv, Holds, Leased, Terminal
    <3>2. \/ receipts'[r].state = receipts[r].state
          \/ r = Of(w) /\ receipts'[r].state \in {"completed", "reconciliation_required"}
      BY <2>1, <1>a, StateMoves DEF Move
    <3> QED
      BY <3>1, <3>2, <1>0 DEF StateStep, Terminal
  <2> QED
    BY <1>6, <2>1, <1>0 DEF CrawlEnds, Finish
<1>7. ASSUME NEW o \in Receipts, LeaseEnds(o) PROVE StateStep(r)
  <2>1. receipts'[r].state = receipts[r].state
    BY <1>7, <1>a DEF LeaseEnds, Row
  <2> QED
    BY <2>1, <1>0
<1> QED
  BY <1>0, <1>1, <1>2, <1>3, <1>4, <1>5, <1>6, <1>7
  DEF Next, WorkerStep, SendSignal, MarkSent, Sweep, ListPending, Dispatch, MarkDispatched, Listen, Take, TakeNothing,
      RecoverInRun, BeginRefused, RunFails, Inspect, Acknowledge, CountAttempt, Bury, Crash, Lose, vars

\* A crawl starts by begin_provider() alone, which moves its receipt alone.
LEMMA BeginRuns ==
  ASSUME DeliveryInv, CrawlInv, NEW w \in Workers, Begin(w), NEW r \in Receipts
  PROVE  IF r = Of(w) THEN StartsCrawl(r) /\ receipts[r].state = "authorized" /\ receipts'[r].state = "provider_started"
         ELSE ~StartsCrawl(r) /\ receipts'[r] = receipts[r]
<1>a. /\ receipts \in [Receipts -> Row] /\ receipts[r] \in Row
      /\ workers \in [Workers -> Worker] /\ \A v \in Workers : workers[v] \in Worker
  BY DEF DeliveryInv, TypeOK
<1>1. receipts' = [receipts EXCEPT ![Of(w)].state = "provider_started"] /\ At(w, "claimed") /\ Holds(w, Of(w))
  BY DEF Begin
<1>2. /\ \A v \in Workers \ {w} : workers'[v] = workers[v]
      /\ workers'[w].at = "started" /\ workers'[w].of = workers[w].of /\ workers[w].at # "started"
  BY <1>1, <1>a DEF Begin, Go, At, Worker
<1>3. StartsCrawl(r) <=> Of(w) = r
  BY <1>2 DEF StartsCrawl, At, Of
<1>4. CASE r = Of(w)
  <2>1. receipts[r].state = "authorized"
    BY <1>1, <1>4 DEF CrawlInv
  <2> QED
    BY <1>1, <1>3, <1>4, <1>a, <2>1 DEF Row
<1>5. CASE r # Of(w)
  BY <1>1, <1>3, <1>5, <1>a
<1> QED
  BY <1>4, <1>5

LEMMA StartsBegin ==
  ASSUME DeliveryInv, [Next]_vars, NEW r \in Receipts, StartsCrawl(r)
  PROVE  \E w \in Workers : Begin(w)
<1>1. PICK w \in Workers : ~At(w, "started") /\ At(w, "started")' /\ Of(w)' = r
  BY DEF StartsCrawl
<1>2. workers'[w] # workers[w]
  BY <1>1 DEF At
<1> QED
  BY <1>1, <1>2, RunsArrive

\* Every step is, for each receipt, one that the contract allows.
LEMMA StepIsAllowed ==
  ASSUME DeliveryInv, CrawlInv, KnownInv, [Next]_vars, NEW r \in Receipts
  PROVE  PhaseStep(r)
<1> DEFINE was == receipts[r].state
           is == receipts'[r].state
<1>a. was \in {"none"} \cup Active \cup Terminal /\ is \in {"none"} \cup Active \cup Terminal
  <2>1. receipts[r] \in Row /\ receipts'[r] \in Row
    BY NextDeliveryInv DEF DeliveryInv, TypeOK
  <2> QED
    BY <2>1 DEF Row
<1> HIDE DEF was, is
<1>w. Phase(r) = PhaseOf(was) /\ Phase(r)' = PhaseOf(is)
  BY DEF Phase, was, is
<1>1. CASE \E w \in Workers : Begin(w)
  <2>1. PICK w \in Workers : Begin(w)
    BY <1>1
  <2>2. CASE r = Of(w)
    <3>1. StartsCrawl(r) /\ was = "authorized" /\ is = "provider_started"
      BY <2>1, <2>2, BeginRuns DEF was, is
    <3> QED
      BY <3>1, <1>a, <1>w, PhaseIs DEF PhaseStep
  <2>3. CASE r # Of(w)
    <3>1. ~StartsCrawl(r) /\ is = was
      BY <2>1, <2>3, BeginRuns DEF was, is
    <3> QED
      BY <3>1, <1>w DEF PhaseStep
  <2> QED
    BY <2>2, <2>3
<1>2. CASE \A w \in Workers : ~Begin(w)
  <2>1. ~StartsCrawl(r)
    BY <1>2, StartsBegin
  <2>2. StateStep(r)
    BY <1>2, StatesMove
  <2>3. \/ is = was
        \/ was \in Sent \cup {"queued", "authorized", "none"} /\ is \in Sent \cup {"queued", "authorized"}
        \/ was = "provider_started" /\ is = "reconciliation_required"
        \/ /\ was \in Sent \cup {"queued", "authorized", "provider_started"}
           /\ is \in Terminal \ {"reconciliation_required"}
    BY <2>2 DEF StateStep, was, is
  <2> QED
    BY <2>1, <2>3, <1>a, <1>w, PhaseIs DEF PhaseStep
<1> QED
  BY <1>1, <1>2

\* The mapped step is made of the receipts' parts.
CountStep == crawls' = [r \in Receipts |-> crawls[r] + IF StartsCrawl(r) THEN 1 ELSE 0]

LEMMA MappedStep ==
  ASSUME crawls \in [Receipts -> Nat], CountStep, \A r \in Receipts : PhaseStep(r)
  PROVE  Effects!Next
<1>1. ASSUME NEW r \in Receipts PROVE Effects!Step(r)
  <2>1. crawls'[r] = crawls[r] + IF StartsCrawl(r) THEN 1 ELSE 0
    BY DEF CountStep
  <2>2. CASE StartsCrawl(r)
    <3>1. Phase(r) = "intended" /\ Phase(r)' = "running" /\ crawls'[r] = crawls[r] + 1 /\ crawls[r] \in Nat
      BY <2>1, <2>2 DEF PhaseStep
    <3>2. /\ 1..crawls'[r] = (1..crawls[r]) \cup {crawls'[r]}
          /\ crawls'[r] \in 1..crawls'[r] /\ crawls'[r] \in Nat
          /\ \A h \in 1..crawls[r] : h < crawls'[r]
      BY <3>1
    <3>3. Effects!Run(r)
      BY <3>1, <3>2 DEF Effects!Run, Phase
    <3> QED
      BY <3>3 DEF Effects!Step
  <2>3. CASE ~StartsCrawl(r)
    <3>1. crawls'[r] = crawls[r]
      BY <2>1, <2>3
    <3>2. Effects!Keeps(r)
      BY <3>1 DEF Effects!Keeps
    <3> QED
      BY <2>3, <3>2 DEF PhaseStep, Phase, Effects!Step, Effects!Stay, Effects!Intend, Effects!Stop, Effects!Close,
                        Effects!Keeps
  <2> QED
    BY <2>2, <2>3
<1> QED
  BY <1>1 DEF Effects!Next

\* Collection delivery keeps the contract of ProviderEffects: at-least-once
\* signals, late marks and dead workers come to one operation, run once at most.
THEOREM DeliveryKeepsTheContract == CrawlSpec => KeepsTheContract
<1> DEFINE Base == DeliveryInv /\ CrawlInv /\ KnownInv
           Counts == crawls \in [Receipts -> Nat]
           counted == <<vars, crawls>>
<1>1. CrawlInit => Base /\ Counts /\ Effects!Init
  <2> SUFFICES ASSUME CrawlInit PROVE Base /\ Counts /\ Effects!Init
    OBVIOUS
  <2> USE DEF CrawlInit
  <2>1. \A r \in Receipts : PhaseOf(receipts[r].state) = "none"
    BY PhaseIs DEF Init
  <2>2. \A r \in Receipts : 1..crawls[r] = {}
    OBVIOUS
  <2>3. Effects!Init
    BY <2>1, <2>2 DEF Effects!Init
  <2> QED
    BY <2>3, InitDeliveryInv, InitCrawlInv, InitKnownInv
<1>2. Base /\ Counts /\ [CrawlNext]_counted => Base' /\ Counts'
  <2> SUFFICES ASSUME Base, Counts, [CrawlNext]_counted PROVE Base' /\ Counts'
    OBVIOUS
  <2>1. [Next]_vars
    BY DEF CrawlNext
  <2>2. Base'
    BY <2>1, NextDeliveryInv, NextCrawlInv, NextKnownInv
  <2>3. Counts'
    BY DEF CrawlNext
  <2> QED
    BY <2>2, <2>3
<1>3. Base /\ Counts /\ [CrawlNext]_counted => [Effects!Next]_(Effects!vars)
  <2> SUFFICES ASSUME Base, Counts, [CrawlNext]_counted PROVE [Effects!Next]_(Effects!vars)
    OBVIOUS
  <2>1. CASE CrawlNext
    BY <2>1, StepIsAllowed, MappedStep DEF CrawlNext, CountStep
  <2>2. CASE UNCHANGED counted
    BY <2>2 DEF vars, Effects!vars
  <2> QED
    BY <2>1, <2>2
<1> QED
  BY <1>1, <1>2, <1>3, PTL DEF CrawlSpec, KeepsTheContract, Effects!Spec
=============================================================================
