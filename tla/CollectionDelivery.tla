-------------------------- MODULE CollectionDelivery --------------------------
(***************************************************************************)
(* How a requested collection reaches its run: enqueue_collection of       *)
(* src/backend/src/market_scraper/enqueue.py commits a receipt and sends a *)
(* signal, worker.py consumes the signals of a Redis stream and runs       *)
(* cli.py, which claims the receipt.  The receipts are those of            *)
(* OperationReceipts for one source; the stream delivers at least once, in *)
(* any order once messages are reclaimed, and may lose a message.          *)
(*                                                                         *)
(* A lease is its worker's name and a flag that time clears: a worker has  *)
(* one run, and what a dead run of it held is told apart by the step the   *)
(* worker is at.  The ingestion job and the rows of a crawl are left to    *)
(* OperationReceipts and ConnectorSync.                                    *)
(***************************************************************************)
EXTENDS Naturals, FiniteSets

CONSTANTS
  Receipts, Producers, Workers,
  Messages,    \* bound: the messages of the stream at one time
  None,
  MaxAttempts, \* MAX_ATTEMPTS
  MaxFaults,   \* bound: runs and signals that fail for no reason of the receipt's
  MaxCrashes,  \* bound: producers and workers that die
  MaxLosses,   \* bound: messages that Redis loses
  Prompt       \* is a signal marked within a lease, and a run that starts later a fault

ASSUME DeliveryAssumption ==
  /\ None \notin Receipts \cup Workers \cup Messages
  /\ Workers \cap Producers = {}
  /\ MaxAttempts \in Nat \ {0}
  /\ {MaxFaults, MaxCrashes, MaxLosses} \subseteq Nat
  /\ Prompt \in BOOLEAN

VARIABLES
  receipts,  \* the rows: state, the worker that holds it, does the lease live
  stream,    \* the messages: whose signal, is it delivered, its failed attempts
  dead,      \* receipts with a message in the dead-letter stream
  acked,     \* history: receipts with a message acknowledged as handled
  producers, \* the request each producer is in
  workers,   \* where each worker is in its loop
  faults, crashes, losses

vars == <<receipts, stream, dead, acked, producers, workers, faults, crashes, losses>>
bounds == <<faults, crashes, losses>>

Sent     == {"dispatch_pending", "retryable"}
Leased   == {"authorized", "provider_started"}
Terminal == {"completed", "denied", "failed", "reconciliation_required"}
Active   == Sent \cup Leased \cup {"queued"}

Row     == [state : {"none"} \cup Active \cup Terminal, owner : Workers \cup {None}, live : BOOLEAN]
Message == [of : Receipts \cup {None}, at : {"free", "new", "pending"}, attempts : 0..(MaxAttempts + 1)]
Request == [at : {"idle", "intended", "signalled"}, of : Receipts \cup {None}]
Worker  ==
  [at : {"idle", "swept", "listed", "signalled", "ready", "running", "recovered", "claimed",
         "started", "done", "failed", "count", "bury"},
   of : Receipts \cup {None}, msg : Messages \cup {None}, todo : SUBSET Receipts]

Free == [of |-> None, at |-> "free", attempts |-> 0]
Idle == [at |-> "idle", of |-> None, msg |-> None, todo |-> {}]

TypeOK ==
  /\ receipts \in [Receipts -> Row]
  /\ stream \in [Messages -> Message]
  /\ dead \subseteq Receipts /\ acked \subseteq Receipts
  /\ producers \in [Producers -> Request]
  /\ workers \in [Workers -> Worker]
  /\ faults \in 0..MaxFaults /\ crashes \in 0..MaxCrashes /\ losses \in 0..MaxLosses

Init ==
  /\ receipts = [r \in Receipts |-> [state |-> "none", owner |-> None, live |-> FALSE]]
  /\ stream = [m \in Messages |-> Free]
  /\ dead = {} /\ acked = {}
  /\ producers = [p \in Producers |-> [at |-> "idle", of |-> None]]
  /\ workers = [w \in Workers |-> Idle]
  /\ faults = 0 /\ crashes = 0 /\ losses = 0

At(w, step)    == workers[w].at = step
Go(w, step)    == workers' = [workers EXCEPT ![w].at = step]
Of(w)          == workers[w].of
Move(r, state) == receipts' = [receipts EXCEPT ![r] = [state |-> state, owner |-> None, live |-> FALSE]]

\* A message id is never used again: nobody still handles a reused slot.
Unused(m) == stream[m].at = "free" /\ \A w \in Workers : workers[w].msg # m
XAdd(r) ==
  \E m \in Messages :
    /\ Unused(m)
    /\ stream' = [stream EXCEPT ![m] = [of |-> r, at |-> "new", attempts |-> 0]]

\* Mutant: whatever the receipt has become since its signal was sent.
MarkQueuedAlways(r) == receipts' = [receipts EXCEPT ![r].state = "queued"]

MarkQueued(r) ==
  receipts' = [receipts EXCEPT ![r].state = IF @ \in Sent THEN "queued" ELSE @]

Fault == faults < MaxFaults /\ faults' = faults + 1

-----------------------------------------------------------------------------
(* enqueue_collection()                                                     *)

\* The source's active receipt if it has one, a new row otherwise.
Intend(p, r) ==
  /\ producers[p].at = "idle"
  /\ \/ receipts[r].state \in Active \cup {"reconciliation_required"} /\ UNCHANGED receipts
     \/ /\ receipts[r].state = "none"
        /\ \A o \in Receipts : receipts[o].state \notin Active \cup {"reconciliation_required"}
        /\ receipts' = [receipts EXCEPT ![r].state = "dispatch_pending"]
  /\ producers' = [producers EXCEPT ![p] = [at |-> "intended", of |-> r]]
  /\ UNCHANGED <<stream, dead, acked, workers, bounds>>

SendSignal(p) ==
  /\ producers[p].at = "intended"
  /\ XAdd(producers[p].of)
  /\ producers' = [producers EXCEPT ![p].at = "signalled"]
  /\ UNCHANGED <<receipts, dead, acked, workers, bounds>>

MarkSent(p) ==
  /\ producers[p].at = "signalled"
  /\ MarkQueued(producers[p].of)
  /\ producers' = [producers EXCEPT ![p] = [at |-> "idle", of |-> None]]
  /\ UNCHANGED <<stream, dead, acked, workers, bounds>>

-----------------------------------------------------------------------------
(* dispatch_pending_receipts(), which opens every turn of run_forever().    *)

\* Mutant: a dead run is tried again, whether or not it had reached the provider.
RecoveredForRetry(row) ==
  IF row.state \notin Leased \/ row.live THEN row
  ELSE [state |-> "retryable", owner |-> None, live |-> FALSE]

\* recover_expired()
Recovered(row) ==
  IF row.state \notin Leased \/ row.live THEN row
  ELSE [state |-> IF row.state = "authorized" THEN "retryable" ELSE "reconciliation_required",
        owner |-> None, live |-> FALSE]

Sweep(w) ==
  /\ At(w, "idle")
  /\ receipts' = [r \in Receipts |-> Recovered(receipts[r])]
  /\ Go(w, "swept")
  /\ UNCHANGED <<stream, dead, acked, producers, bounds>>

\* Mutant: what a dead run left to be tried again is not listed.
ListIntended(w) ==
  /\ At(w, "swept")
  /\ workers' = [workers EXCEPT ![w].at = "listed",
                   ![w].todo = {r \in Receipts : receipts[r].state = "dispatch_pending"}]
  /\ UNCHANGED <<receipts, stream, dead, acked, producers, bounds>>

\* operation_receipts.dispatch_pending()
ListPending(w) ==
  /\ At(w, "swept")
  /\ workers' = [workers EXCEPT ![w].at = "listed",
                   ![w].todo = {r \in Receipts : receipts[r].state \in Sent}]
  /\ UNCHANGED <<receipts, stream, dead, acked, producers, bounds>>

Dispatch(w, r) ==
  /\ At(w, "listed") /\ r \in workers[w].todo
  /\ XAdd(r)
  /\ workers' = [workers EXCEPT ![w].at = "signalled", ![w].of = r, ![w].todo = @ \ {r}]
  /\ UNCHANGED <<receipts, dead, acked, producers, bounds>>

MarkDispatched(w) ==
  /\ At(w, "signalled")
  /\ MarkQueued(Of(w))
  /\ Go(w, "listed")
  /\ UNCHANGED <<stream, dead, acked, producers, bounds>>

\* Everything is dispatched, or Redis or the database fails and it is logged; at
\* the bound on messages the rest waits for the next pass.
Listen(w) ==
  /\ \/ /\ At(w, "listed") /\ UNCHANGED faults
        /\ workers[w].todo = {} \/ \A m \in Messages : ~Unused(m)
     \/ workers[w].at \in {"swept", "listed", "signalled"} /\ Fault
  /\ workers' = [workers EXCEPT ![w] = [Idle EXCEPT !.at = "ready"]]
  /\ UNCHANGED <<receipts, stream, dead, acked, producers, crashes, losses>>

-----------------------------------------------------------------------------
(* handle_message() and the run of cli.py it waits for.                     *)

\* xreadgroup delivers a new message; xautoclaim takes one that has been
\* pending for CLAIM_IDLE_MS, though its worker may be alive and running it.
Take(w, m) ==
  /\ At(w, "ready") /\ stream[m].at \in {"new", "pending"}
  /\ stream' = [stream EXCEPT ![m].at = "pending"]
  /\ workers' = [workers EXCEPT ![w] = [Idle EXCEPT !.at = "running", !.of = stream[m].of,
                                                    !.msg = m]]
  /\ UNCHANGED <<receipts, dead, acked, producers, bounds>>

\* The read blocks for five seconds and returns nothing.
TakeNothing(w) ==
  /\ At(w, "ready")
  /\ Go(w, "idle")
  /\ UNCHANGED <<receipts, stream, dead, acked, producers, bounds>>

RecoverInRun(w) ==
  /\ At(w, "running")
  /\ receipts' = [r \in Receipts |-> Recovered(receipts[r])]
  /\ Go(w, "recovered")
  /\ UNCHANGED <<stream, dead, acked, producers, bounds>>

\* claim(): settled or parked, leased, uncertain, not authorized, or granted.
Refusing(r) == receipts[r].state \in Terminal \/ receipts[r].live

Claim(w) ==
  LET r == Of(w) IN
  /\ At(w, "recovered")
  /\ \/ Refusing(r) /\ Go(w, "failed") /\ UNCHANGED receipts
     \/ /\ ~Refusing(r) /\ receipts[r].state = "provider_started"
        /\ Move(r, "reconciliation_required") /\ Go(w, "failed")
     \/ /\ ~Refusing(r) /\ receipts[r].state # "provider_started"
        /\ Move(r, "denied") /\ Go(w, "failed")
     \/ /\ ~Refusing(r) /\ receipts[r].state # "provider_started"
        /\ receipts' = [receipts EXCEPT ![r] = [state |-> "authorized", owner |-> w, live |-> TRUE]]
        /\ Go(w, "claimed")
  /\ UNCHANGED <<stream, dead, acked, producers, bounds>>

\* The row still names this run.
Holds(w, r) == receipts[r].owner = w /\ receipts[r].state \in Leased

\* finish(); a run that has lost its receipt raises.
Finish(w, state, exit) ==
  IF Holds(w, Of(w)) THEN Move(Of(w), state) /\ Go(w, exit)
  ELSE Go(w, "failed") /\ UNCHANGED receipts

\* The source is gone or not approved, or it has no targets.
Decide(w) ==
  /\ At(w, "claimed")
  /\ Finish(w, "denied", "failed") \/ Finish(w, "completed", "done")
  /\ UNCHANGED <<stream, dead, acked, producers, bounds>>

\* begin_provider(), under the live lease.
Begin(w) ==
  LET r == Of(w) IN
  /\ At(w, "claimed") /\ Holds(w, r) /\ receipts[r].live
  /\ receipts' = [receipts EXCEPT ![r].state = "provider_started"]
  /\ Go(w, "started")
  /\ UNCHANGED <<stream, dead, acked, producers, bounds>>

BeginRefused(w) ==
  LET r == Of(w) IN
  /\ At(w, "claimed") /\ ~(Holds(w, r) /\ receipts[r].live)
  /\ Go(w, "failed")
  /\ UNCHANGED <<receipts, stream, dead, acked, producers, bounds>>

\* The crawl has ended, its job completed or not.
CrawlEnds(w) ==
  /\ At(w, "started")
  /\ Finish(w, "completed", "done") \/ Finish(w, "reconciliation_required", "failed")
  /\ UNCHANGED <<stream, dead, acked, producers, bounds>>

\* The run raises before or after its claim; nothing releases the receipt.
RunFails(w) ==
  /\ workers[w].at \in {"running", "recovered", "claimed", "started"}
  /\ Fault
  /\ Go(w, "failed")
  /\ UNCHANGED <<receipts, stream, dead, acked, producers, crashes, losses>>

-----------------------------------------------------------------------------

Drop(m) == stream' = [stream EXCEPT ![m] = Free]

\* Mutant: a leased receipt's message is acknowledged like a settled one's.
InspectHandled(w) ==
  /\ At(w, "failed")
  /\ Go(w, IF receipts[Of(w)].state \in Terminal \cup Leased THEN "done" ELSE "count")
  /\ UNCHANGED <<receipts, stream, dead, acked, producers, bounds>>

\* _receipt_is_terminal(); when it cannot be read the attempt counts.
Inspect(w) ==
  /\ At(w, "failed")
  /\ \/ /\ Go(w, IF receipts[Of(w)].state \in Terminal THEN "done" ELSE "count")
        /\ UNCHANGED faults
     \/ Fault /\ Go(w, "count")
  /\ UNCHANGED <<receipts, stream, dead, acked, producers, crashes, losses>>

\* xack and hdel
Acknowledge(w) ==
  /\ At(w, "done")
  /\ Drop(workers[w].msg)
  /\ acked' = acked \cup {Of(w)}
  /\ workers' = [workers EXCEPT ![w] = Idle]
  /\ UNCHANGED <<receipts, dead, producers, bounds>>

\* hincrby; a message whose attempts are used up is buried.
CountAttempt(w) ==
  LET m == workers[w].msg
      n == stream[m].attempts + 1
  IN
  /\ At(w, "count")
  /\ stream' = [stream EXCEPT ![m].attempts = IF n > MaxAttempts THEN MaxAttempts + 1 ELSE n]
  /\ workers' = [workers EXCEPT ![w] = IF n >= MaxAttempts THEN [@ EXCEPT !.at = "bury"] ELSE Idle]
  /\ UNCHANGED <<receipts, dead, acked, producers, bounds>>

\* xadd to the dead-letter stream, xack and hdel
Bury(w) ==
  /\ At(w, "bury")
  /\ dead' = dead \cup {Of(w)}
  /\ Drop(workers[w].msg)
  /\ workers' = [workers EXCEPT ![w] = Idle]
  /\ UNCHANGED <<receipts, acked, producers, bounds>>

-----------------------------------------------------------------------------

\* Is a signal of r sent whose mark is about to follow, or a run of r claimed
\* that is about to start.
Marking(r) ==
  \/ \E p \in Producers : producers[p] = [at |-> "signalled", of |-> r]
  \/ \E w \in Workers : At(w, "signalled") /\ Of(w) = r
Starting(r) == At(receipts[r].owner, "claimed")

\* Time passes the lease.
LeaseEnds(r) ==
  /\ receipts[r].live
  /\ Prompt => ~Marking(r)
  /\ IF Prompt /\ Starting(r) THEN Fault ELSE UNCHANGED faults
  /\ receipts' = [receipts EXCEPT ![r].live = FALSE]
  /\ UNCHANGED <<stream, dead, acked, producers, workers, crashes, losses>>

Crash ==
  /\ crashes < MaxCrashes
  /\ crashes' = crashes + 1
  /\ \/ \E w \in Workers : workers' = [workers EXCEPT ![w] = Idle] /\ UNCHANGED producers
     \/ /\ \E p \in Producers : producers' = [producers EXCEPT ![p] = [at |-> "idle", of |-> None]]
        /\ UNCHANGED workers
  /\ UNCHANGED <<receipts, stream, dead, acked, faults, losses>>

\* Redis restarts without a message.
Lose(m) ==
  /\ losses < MaxLosses /\ stream[m].at # "free"
  /\ losses' = losses + 1
  /\ Drop(m)
  /\ UNCHANGED <<receipts, dead, acked, producers, workers, faults, crashes>>

WorkerStep(w) ==
  \/ Sweep(w) \/ ListPending(w) \/ MarkDispatched(w) \/ Listen(w) \/ TakeNothing(w)
  \/ RecoverInRun(w) \/ Claim(w) \/ Decide(w) \/ Begin(w) \/ BeginRefused(w)
  \/ CrawlEnds(w) \/ RunFails(w)
  \/ Inspect(w) \/ Acknowledge(w) \/ CountAttempt(w) \/ Bury(w)
  \/ \E r \in Receipts : Dispatch(w, r)
  \/ \E m \in Messages : Take(w, m)

Next ==
  \/ \E p \in Producers : SendSignal(p) \/ MarkSent(p) \/ \E r \in Receipts : Intend(p, r)
  \/ \E w \in Workers : WorkerStep(w)
  \/ \E r \in Receipts : LeaseEnds(r)
  \/ Crash
  \/ \E m \in Messages : Lose(m)

Spec == Init /\ [][Next]_vars

\* A worker loops for ever; the stream is read in order, so every message's turn
\* comes; a pass lists every receipt; a request that is not killed ends; so do leases.
Fairness ==
  /\ \A w \in Workers : WF_vars(WorkerStep(w))
  /\ \A p \in Producers : WF_vars(MarkSent(p))
  /\ \A m \in Messages : SF_vars(\E w \in Workers : Take(w, m))
  /\ \A r \in Receipts : SF_vars(LeaseEnds(r)) /\ SF_vars(\E w \in Workers : Dispatch(w, r))

FairSpec == Spec /\ Fairness

-----------------------------------------------------------------------------
(* Properties.                                                             *)

\* A message is acknowledged as handled only when its receipt is settled or
\* parked, whichever worker acknowledges it and however often it was delivered.
AckedIsSettled == \A r \in acked : receipts[r].state \in Terminal

\* A receipt that waits in "queued" has its signal: marking it so late, after it
\* was claimed, recovered or settled meanwhile, does not hide it from dispatch
\* while no message of it is left.  Only a buried or lost message is excepted.
QueuedHasSignal ==
  \A r \in Receipts :
    receipts[r].state = "queued" /\ r \notin dead /\ losses = 0
      => \E m \in Messages : stream[m].of = r

\* A collection that was requested is settled or parked at last, through lost
\* races, failed runs, dead workers and producers that die before they signal,
\* and though its message is lost or buried, as long as its receipt is not marked
\* "queued".  The dispatch pass lists no queued receipt: one whose signal is lost,
\* or buried by runs that failed before their claim, waits for ever.
SignalGone(r) ==
  /\ receipts[r].state = "queued"
  /\ r \in dead \/ losses > 0
  /\ \A m \in Messages : stream[m].of # r
RequestedIsSettled ==
  \A r \in Receipts :
    receipts[r].state \in Active ~> receipts[r].state \in Terminal \/ SignalGone(r)
=============================================================================
