-------------------------- MODULE OperationReceipts --------------------------
(***************************************************************************)
(* The durable operation receipts of src/backend/src/ai/core/              *)
(* operation_receipts.py: one row per intended background operation        *)
(* (reviewed collection, competitor enrichment, connector sync) of one     *)
(* tenant.  Workers claim a row under a lease with a generation, persist   *)
(* "provider started" before any call to the outside, fence every commit   *)
(* of canonical data on the row, and settle it.                            *)
(*                                                                         *)
(* A row operation is one transaction and holds the row lock, so it is one *)
(* action; only a fenced commit is two (Fence, Commit), because the checks *)
(* of assert_fence and the commit they protect are separate statements.    *)
(*                                                                         *)
(* Time is relative: a lease is the time it has left and ages[w] the time  *)
(* since w's connection last committed.  PostgreSQL's NOW() is the start   *)
(* of the transaction, so a worker may compare a lease with any moment     *)
(* since its last commit; Stale(w) is how far back it may look.            *)
(*                                                                         *)
(* A definition that a comment calls a mutant is a plausible bug of the    *)
(* definition after it; nothing here uses it, a checked property fails     *)
(* when it takes that definition's place.                                  *)
(***************************************************************************)
EXTENDS Integers

CONSTANTS
  Receipts,          \* receipt ids
  Targets,           \* (operation type, target kind, target id) of the tenant
  ConnectorTargets,  \* those of type scheduled_connector_sync
  StoreTargets,      \* connector targets whose collector is shopify or woocommerce
  Requests,          \* (actor, request fingerprint) pairs
  Callers,           \* callers of create_or_get_operation(), each answered once
  Configs,           \* fingerprints a connector's settings may have
  Workers, Names,
  NameOf,            \* the worker_id a worker writes: a pid, so two may share it
  NoOne,             \* NULL
  LeaseLength,       \* lease_seconds
  MaxStale,          \* bound: the longest a transaction stays open
  MaxGeneration,     \* bound: claims of one receipt
  MaxPeriod          \* bound: billing periods that begin

ASSUME ReceiptAssumption ==
  /\ ConnectorTargets \subseteq Targets
  /\ StoreTargets \subseteq ConnectorTargets
  /\ NameOf \in [Workers -> Names]
  /\ NoOne \notin Receipts \cup Targets \cup Requests \cup Configs \cup Names
  /\ LeaseLength \in Nat \ {0}
  /\ MaxStale \in Nat
  /\ MaxGeneration \in Nat
  /\ MaxPeriod \in Nat

VARIABLES
  rows,       \* keel_operation_receipts
  calls,      \* what each caller asked for, and the receipt it was answered
  sessions,   \* what each worker process remembers of the receipt it claimed
  ages,       \* time since each worker's connection last committed
  allowed,    \* is the target's principal, plan and source authorized now
  verified,   \* is the store's connection active, ALLOWED and verified now
  config,     \* the connector's current settings
  period,     \* the tenant's current billing period
  runs,       \* history: the generations that went on to call the provider
  landed      \* history: the generations whose canonical rows are committed

vars == <<rows, calls, sessions, ages, allowed, verified, config, period, runs, landed>>
env  == <<calls, allowed, verified, config, period>>

Active   == {"dispatch_pending", "queued", "claimed", "authorized",
             "provider_started", "retryable", "reconciliation_required"}
Terminal == {"completed", "failed", "denied"}
Settled  == Terminal \cup {"reconciliation_required"}
Leased   == {"claimed", "authorized", "provider_started"}
States   == Active \cup Terminal \cup {"absent"}
Outcomes == {"not_started", "unknown", "completed"}

Row ==
  [state : States, target : Targets \cup {NoOne}, request : Requests \cup {NoOne},
   period : 0..MaxPeriod, owner : Names \cup {NoOne}, lease : -MaxStale..LeaseLength,
   gen : 0..MaxGeneration, started : BOOLEAN, outcome : Outcomes, job : 0..MaxGeneration]

Session ==
  [r : Receipts \cup {NoOne}, gen : 0..MaxGeneration, cfg : Configs \cup {NoOne},
   fencing : BOOLEAN, pre : BOOLEAN]

NoCall == [target |-> NoOne, request |-> NoOne, period |-> 0, got |-> NoOne]

Call == {NoCall} \cup
  [target : Targets, request : Requests, period : 0..MaxPeriod, got : Receipts \cup {NoOne}]

Idle == [r |-> NoOne, gen |-> 0, cfg |-> NoOne, fencing |-> FALSE, pre |-> FALSE]

TypeOK ==
  /\ rows \in [Receipts -> Row]
  /\ calls \in [Callers -> Call]
  /\ sessions \in [Workers -> Session]
  /\ ages \in [Workers -> 0..MaxStale]
  /\ allowed \in [Targets -> BOOLEAN]
  /\ verified \in [Targets -> BOOLEAN]
  /\ config \in [Targets -> Configs]
  /\ period \in 0..MaxPeriod
  /\ runs \in [Receipts -> SUBSET (0..MaxGeneration)]
  /\ landed \in [Receipts -> SUBSET (0..MaxGeneration)]

Init ==
  /\ rows = [r \in Receipts |->
       [state |-> "absent", target |-> NoOne, request |-> NoOne, period |-> 0,
        owner |-> NoOne, lease |-> -MaxStale, gen |-> 0, started |-> FALSE,
        outcome |-> "not_started", job |-> 0]]
  /\ calls = [c \in Callers |-> NoCall]
  /\ sessions = [w \in Workers |-> Idle]
  /\ ages = [w \in Workers |-> 0]
  /\ allowed = [t \in Targets |-> TRUE]
  /\ verified = [t \in Targets |-> t \in StoreTargets]
  /\ config \in [Targets -> Configs]
  /\ period = 0
  /\ runs = [r \in Receipts |-> {}]
  /\ landed = [r \in Receipts |-> {}]

-----------------------------------------------------------------------------
(* Locks, clocks and authorization.                                        *)

\* A worker between its fence check and its commit holds the row lock.
RowLocked(r) == \E w \in Workers : sessions[w].r = r /\ sessions[w].fencing

\* Mutant: the settings are compared without FOR SHARE.
SourceNeverLocked(t) == FALSE

\* ... and, having compared the settings, FOR SHARE on the source's row.
SourceLocked(t) ==
  \E w \in Workers : /\ sessions[w].fencing
                     /\ sessions[w].cfg # NoOne
                     /\ rows[sessions[w].r].target = t

\* lease_expires_at > NOW(), for a transaction that began back ago.
Live(r, back) == rows[r].lease + back > 0

\* Every moment since w's last commit is a possible start of its transaction.
Stale(w) == 0..ages[w]

Authorized(t, p) == allowed[t] /\ period = p

\* Mutant: the fence compares the worker_id alone.
HoldsByName(w, r) == rows[r].owner = NameOf[w]

\* The receipt names w by its worker_id and by its lease generation.
Holds(w, r) ==
  /\ rows[r].owner = NameOf[w]
  /\ rows[r].gen = sessions[w].gen

\* The settings the worker loaded are still those of the connector.
SameConfig(w, t) == t \in ConnectorTargets => sessions[w].cfg = config[t]

\* Mutant: any operation counts as a read that may be replayed.
ReplayableAlways(t) == TRUE

\* Only an active, verified store's reads may be replayed.
Replayable(t) == t \in StoreTargets /\ verified[t]

\* Mutant: the lease's time is cleared, its owner is not.
UnleaseTime(row) == [row EXCEPT !.lease = -MaxStale]

SetRow(r, row) == rows' = [rows EXCEPT ![r] = row]
Unlease(row)   == [row EXCEPT !.owner = NoOne, !.lease = -MaxStale]

-----------------------------------------------------------------------------
(* The operations of the receipt store.                                    *)

\* The active receipts of a target, as its SELECT ... FOR UPDATE finds them.
ActiveFor(t) == {r \in Receipts : rows[r].target = t /\ rows[r].state \in Active}

\* An active receipt is handed to the caller whose request it is.
Matches(r, q, p) == rows[r].request = q /\ rows[r].period = p

\* c asks for t and is authorized under the current period; its SELECT finds
\* the receipt it may have, or none and locks nothing.  A receipt of another
\* request is refused, which changes nothing.
Look(c, t, q) ==
  LET call == [target |-> t, request |-> q, period |-> period, got |-> NoOne] IN
  /\ calls[c].target = NoOne
  /\ Authorized(t, period)
  /\ \/ ActiveFor(t) = {} /\ calls' = [calls EXCEPT ![c] = call]
     \/ \E r \in ActiveFor(t) :
          /\ Matches(r, q, period) /\ ~RowLocked(r)
          /\ calls' = [calls EXCEPT ![c] = [call EXCEPT !.got = r]]
  /\ UNCHANGED <<rows, sessions, ages, allowed, verified, config, period, runs, landed>>

\* The row is written and c answered with it.
Created(c, r) ==
  LET call == calls[c] IN
  /\ rows[r].state = "absent"
  /\ SetRow(r, [rows[r] EXCEPT !.state = "dispatch_pending", !.target = call.target,
                               !.request = call.request, !.period = call.period])
  /\ calls' = [calls EXCEPT ![c].got = r]

\* Mutant: the insertion rests on what the SELECT found, without the index.
InsertUnconflicted(c) ==
  /\ calls[c].target # NoOne /\ calls[c].got = NoOne
  /\ \E r \in Receipts : Created(c, r)
  /\ UNCHANGED <<sessions, ages, allowed, verified, config, period, runs, landed>>

\* INSERT ... ON CONFLICT DO NOTHING, in a later statement than the SELECT:
\* the partial unique index sees what others have committed meanwhile.  On a
\* conflict c reads again, and is answered with that receipt if it is its own.
Insert(c) ==
  /\ calls[c].target # NoOne /\ calls[c].got = NoOne
  /\ \/ ActiveFor(calls[c].target) = {} /\ \E r \in Receipts : Created(c, r)
     \/ \E r \in ActiveFor(calls[c].target) :
          /\ Matches(r, calls[c].request, calls[c].period) /\ ~RowLocked(r)
          /\ calls' = [calls EXCEPT ![c].got = r] /\ rows' = rows
  /\ UNCHANGED <<sessions, ages, allowed, verified, config, period, runs, landed>>

\* The conflict is of another request, its receipt is settled before the second
\* read, or the caller is gone: it is refused or rolled back with nothing written.
Refuse(c) ==
  /\ calls[c].target # NoOne /\ calls[c].got = NoOne
  /\ calls' = [calls EXCEPT ![c] = NoCall]
  /\ UNCHANGED <<rows, sessions, ages, allowed, verified, config, period, runs, landed>>

MarkQueued(r) ==
  /\ rows[r].state \in {"dispatch_pending", "retryable"}
  /\ SetRow(r, [rows[r] EXCEPT !.state = "queued"])
  /\ UNCHANGED <<sessions, ages, env, runs, landed>>

\* The rows claim() does not refuse: neither settled nor under a live lease.
Claimable(r) ==
  /\ rows[r].state \in Active \ {"reconciliation_required"}
  /\ rows[r].owner # NoOne => ~Live(r, 0)
  /\ ~RowLocked(r)

\* Mutant: only the state tells that the provider was started.
RunsNow(r) == rows[r].state = "provider_started"

MayHaveRun(r) == rows[r].state = "provider_started" \/ rows[r].started

\* A started provider may have received the operation: no automatic retry.
ClaimUncertain(w, r) ==
  /\ sessions[w].r = NoOne
  /\ Claimable(r) /\ MayHaveRun(r)
  /\ SetRow(r, Unlease([rows[r] EXCEPT !.state = "reconciliation_required",
                                       !.outcome = "unknown"]))
  /\ UNCHANGED <<sessions, ages, env, runs, landed>>

ClaimDenied(w, r) ==
  /\ sessions[w].r = NoOne
  /\ Claimable(r) /\ ~MayHaveRun(r)
  /\ rows[r].gen < MaxGeneration
  /\ ~Authorized(rows[r].target, rows[r].period)
  /\ SetRow(r, Unlease([rows[r] EXCEPT !.state = "denied", !.gen = @ + 1]))
  /\ UNCHANGED <<sessions, ages, env, runs, landed>>

\* Mutant: a claim renews the lease under the generation it found.
ClaimKeepsGeneration(w, r) ==
  /\ sessions[w].r = NoOne
  /\ Claimable(r) /\ ~MayHaveRun(r)
  /\ Authorized(rows[r].target, rows[r].period)
  /\ SetRow(r, [rows[r] EXCEPT !.state = "authorized", !.owner = NameOf[w],
                               !.lease = LeaseLength])
  /\ sessions' = [sessions EXCEPT ![w] = [Idle EXCEPT !.r = r, !.gen = rows[r].gen]]
  /\ ages' = [ages EXCEPT ![w] = 0]
  /\ UNCHANGED <<env, runs, landed>>

ClaimGranted(w, r) ==
  /\ sessions[w].r = NoOne
  /\ Claimable(r) /\ ~MayHaveRun(r)
  /\ rows[r].gen < MaxGeneration
  /\ Authorized(rows[r].target, rows[r].period)
  /\ SetRow(r, [rows[r] EXCEPT !.state = "authorized", !.gen = @ + 1,
                               !.owner = NameOf[w], !.lease = LeaseLength])
  /\ sessions' = [sessions EXCEPT ![w] = [Idle EXCEPT !.r = r, !.gen = rows[r].gen + 1]]
  /\ ages' = [ages EXCEPT ![w] = 0]
  /\ UNCHANGED <<env, runs, landed>>

Claim(w, r) == ClaimUncertain(w, r) \/ ClaimDenied(w, r) \/ ClaimGranted(w, r)

\* load_source() in a connector's sync records the settings it will run with.
LoadSource(w) ==
  LET s == sessions[w] IN
  /\ s.r # NoOne /\ s.cfg = NoOne
  /\ rows[s.r].target \in ConnectorTargets
  /\ sessions' = [sessions EXCEPT ![w].cfg = config[rows[s.r].target]]
  /\ UNCHANGED <<rows, ages, env, runs, landed>>

\* The ingestion job of this attempt, or the one an earlier attempt bound.
AttachJob(w) ==
  LET r == sessions[w].r IN
  /\ r # NoOne /\ ~sessions[w].fencing /\ ~RowLocked(r)
  /\ rows[r].state = "authorized" /\ Holds(w, r)
  /\ rows[r].job = 0
  /\ SetRow(r, [rows[r] EXCEPT !.job = sessions[w].gen])
  /\ ages' = [ages EXCEPT ![w] = 0]
  /\ UNCHANGED <<sessions, env, runs, landed>>

\* After this commit the worker calls the provider, so the run is counted here.
BeginProvider(w) ==
  LET r == sessions[w].r IN
  /\ r # NoOne /\ ~sessions[w].fencing /\ ~RowLocked(r)
  /\ rows[r].state = "authorized" /\ Holds(w, r)
  /\ \E back \in Stale(w) : Live(r, back)
  /\ SameConfig(w, rows[r].target)
  /\ SetRow(r, [rows[r] EXCEPT !.state = "provider_started", !.started = TRUE,
                               !.outcome = "unknown"])
  /\ runs' = [runs EXCEPT ![r] = @ \cup {sessions[w].gen}]
  /\ ages' = [ages EXCEPT ![w] = 0]
  /\ UNCHANGED <<sessions, env, landed>>

\* allow_pre_provider.
FenceStates(pre) == {"provider_started"} \cup (IF pre THEN {"authorized"} ELSE {})

\* assert_fence() before a commit; the renewed lease is not yet visible.  The
\* age of the transaction is fixed here: Commit renews from its start.
Fence(w, pre) ==
  LET r == sessions[w].r IN
  /\ r # NoOne /\ ~sessions[w].fencing /\ ~RowLocked(r)
  /\ rows[r].state \in FenceStates(pre)
  /\ Holds(w, r)
  /\ rows[r].target \in ConnectorTargets => sessions[w].cfg \in {NoOne, config[rows[r].target]}
  /\ Authorized(rows[r].target, rows[r].period)
  /\ \E back \in Stale(w) : Live(r, back) /\ ages' = [ages EXCEPT ![w] = back]
  /\ sessions' = [sessions EXCEPT ![w].fencing = TRUE, ![w].pre = pre]
  /\ UNCHANGED <<rows, env, runs, landed>>

\* Canonical data lands with the renewed lease; a pre-provider commit only
\* finalizes the ingestion job.
Commit(w) ==
  LET r == sessions[w].r IN
  /\ sessions[w].fencing
  /\ SetRow(r, [rows[r] EXCEPT !.lease = LeaseLength - ages[w]])
  /\ landed' = IF sessions[w].pre THEN landed
               ELSE [landed EXCEPT ![r] = @ \cup {sessions[w].gen}]
  /\ sessions' = [sessions EXCEPT ![w].fencing = FALSE, ![w].pre = FALSE]
  /\ ages' = [ages EXCEPT ![w] = 0]
  /\ UNCHANGED <<env, runs>>

\* finish() tests the owner and the generation, never the lease's time.
Finish(w, outcome, replay) ==
  LET r == sessions[w].r  row == rows[r] IN
  /\ r # NoOne /\ ~sessions[w].fencing /\ ~RowLocked(r)
  /\ row.state \in {"authorized", "provider_started"} /\ Holds(w, r)
  /\ replay => outcome = "retryable" /\ Replayable(row.target)
  /\ outcome = "completed" => Authorized(row.target, row.period)
  /\ SetRow(r, Unlease([row EXCEPT
       !.state = outcome,
       !.started = row.started /\ ~replay,
       !.outcome = IF replay \/ ~row.started THEN "not_started"
                   ELSE IF outcome = "completed" THEN "completed" ELSE "unknown"]))
  /\ sessions' = [sessions EXCEPT ![w] = Idle]
  /\ UNCHANGED <<ages, env, runs, landed>>

\* Mutant: recovery forgets the receipts whose provider was started.
ExpiredUnstarted(r) == rows[r].state \in {"claimed", "authorized"} /\ rows[r].lease < 0

\* lease_expires_at < NOW() of the recovering transaction.
Expired(r) == rows[r].state \in Leased /\ rows[r].lease < 0

\* Mutant: recovery writes a state the table does not know.
RecoveredMisspelt(r) ==
  IF rows[r].state # "provider_started"
    THEN Unlease([rows[r] EXCEPT !.state = "retry"])
  ELSE Unlease([rows[r] EXCEPT !.state = "reconciliation_required", !.outcome = "unknown"])

Recovered(r) ==
  IF rows[r].state # "provider_started"
    THEN Unlease([rows[r] EXCEPT !.state = "retryable"])
  ELSE IF Replayable(rows[r].target)
    THEN Unlease([rows[r] EXCEPT !.state = "retryable", !.started = FALSE,
                                 !.outcome = "not_started"])
  ELSE Unlease([rows[r] EXCEPT !.state = "reconciliation_required", !.outcome = "unknown"])

\* One transaction over the tenant's rows; it waits for the locks it needs.
RecoverExpired ==
  /\ \E r \in Receipts : Expired(r)
  /\ \A r \in Receipts : Expired(r) => ~RowLocked(r)
  /\ rows' = [r \in Receipts |-> IF Expired(r) THEN Recovered(r) ELSE rows[r]]
  /\ UNCHANGED <<sessions, ages, env, runs, landed>>

-----------------------------------------------------------------------------
(* The surroundings: crashes, time, revocations, configuration changes.    *)

\* The process dies or gives up; an open transaction rolls back.
Crash(w) ==
  /\ sessions[w].r # NoOne
  /\ sessions' = [sessions EXCEPT ![w] = Idle]
  /\ UNCHANGED <<rows, ages, env, runs, landed>>

Tick ==
  /\ \A w \in Workers : sessions[w].fencing => ages[w] < MaxStale
  /\ rows' = [r \in Receipts |->
       [rows[r] EXCEPT !.lease = IF @ > -MaxStale THEN @ - 1 ELSE @]]
  /\ ages' = [w \in Workers |-> IF ages[w] < MaxStale THEN ages[w] + 1 ELSE ages[w]]
  /\ UNCHANGED <<sessions, env, runs, landed>>

SetAllowed(t) ==
  /\ allowed' = [allowed EXCEPT ![t] = ~@]
  /\ UNCHANGED <<rows, calls, sessions, ages, verified, config, period, runs, landed>>

SetVerified(t) ==
  /\ t \in StoreTargets
  /\ verified' = [verified EXCEPT ![t] = ~@]
  /\ UNCHANGED <<rows, calls, sessions, ages, allowed, config, period, runs, landed>>

ChangeConfig(t) ==
  /\ ~SourceLocked(t)
  /\ t \in ConnectorTargets
  /\ \E c \in Configs \ {config[t]} : config' = [config EXCEPT ![t] = c]
  /\ UNCHANGED <<rows, calls, sessions, ages, allowed, verified, period, runs, landed>>

RollPeriod ==
  /\ period < MaxPeriod
  /\ period' = period + 1
  /\ UNCHANGED <<rows, calls, sessions, ages, allowed, verified, config, runs, landed>>

Environment ==
  \/ Tick \/ RollPeriod
  \/ \E t \in Targets : SetAllowed(t) \/ SetVerified(t) \/ ChangeConfig(t)

WorkerStep(w) ==
  \/ \E r \in Receipts : Claim(w, r)
  \/ LoadSource(w) \/ AttachJob(w) \/ BeginProvider(w) \/ Commit(w) \/ Crash(w)
  \/ \E pre \in BOOLEAN : Fence(w, pre)
  \/ \E outcome \in Settled \cup {"retryable"}, replay \in BOOLEAN : Finish(w, outcome, replay)

CallerStep(c) ==
  \/ \E t \in Targets, q \in Requests : Look(c, t, q)
  \/ Insert(c) \/ Refuse(c)

Next ==
  \/ \E c \in Callers : CallerStep(c)
  \/ \E r \in Receipts : MarkQueued(r)
  \/ \E w \in Workers : WorkerStep(w)
  \/ RecoverExpired
  \/ Environment

Spec == Init /\ [][Next]_vars

\* The fairness the deployment gives: the clock runs, a transaction that
\* passed its fence commits or its connection dies, and each dispatch pass of
\* the collection worker runs recover_expired(), which waits its turn for locks.
Fairness ==
  /\ WF_vars(Tick)
  /\ SF_vars(RecoverExpired)
  /\ \A w \in Workers : WF_vars(Commit(w) \/ Crash(w))

FairSpec == Spec /\ Fairness

-----------------------------------------------------------------------------
(* Properties.                                                             *)

\* The table's CHECK constraints hold of every row any sequence of operations
\* leaves: a lease exactly in the leased states, and a recorded provider start
\* exactly when the outcome is not "not_started" (migration 20261028000200);
\* were one to fail, the operation that broke it would be refused half way.
RowChecks ==
  \A r \in Receipts :
    /\ (rows[r].owner # NoOne) = (rows[r].state \in Leased)
    /\ rows[r].started = (rows[r].outcome # "not_started")

\* The partial unique index holds: a target never has two active receipts.
OneActiveReceipt ==
  \A r1, r2 \in Receipts :
    /\ {rows[r1].state, rows[r2].state} \subseteq Active
    /\ rows[r1].target = rows[r2].target
    => r1 = r2

\* Whichever callers race between the SELECT and the INSERT, each is answered
\* with a receipt of the target, request and period it was authorized for, and
\* two that hold active receipts of one target hold the same one: what
\* create_or_get_operation promises, through settlements and new receipts.
CallersShareReceipt ==
  \A c1, c2 \in Callers :
    LET r1 == calls[c1].got  r2 == calls[c2].got IN
    /\ r1 # NoOne =>
         /\ rows[r1].target = calls[c1].target
         /\ Matches(r1, calls[c1].request, calls[c1].period)
    /\ NoOne \notin {r1, r2} /\ calls[c1].target = calls[c2].target
         /\ {rows[r1].state, rows[r2].state} \subseteq Active => r1 = r2

\* Two workers never hold the same receipt under the same generation, even
\* when their worker_ids collide: what claim's generation is for.
OneHolder ==
  \A w1, w2 \in Workers :
    /\ sessions[w1].r # NoOne
    /\ sessions[w1].r = sessions[w2].r /\ sessions[w1].gen = sessions[w2].gen
    => w1 = w2

\* Outside the verified stores, whose reads may be replayed, one receipt leads
\* to at most one run against the provider, through any crashes, expiries,
\* retries and second claims: "automatic retry is blocked".
SingleProviderRun ==
  \A r \in Receipts : rows[r].target \notin StoreTargets =>
    \A g1, g2 \in runs[r] : g1 = g2

\* Canonical rows come only from a generation that persisted its provider
\* start first ("Persist uncertainty before any provider side effect").
LandedByRuns == \A r \in Receipts : landed[r] \subseteq runs[r]

\* Canonical rows land only for the receipt's newest generation and only while
\* its provider run is open, although the check and the commit are two steps:
\* an expired and recovered worker commits nothing.
LandingStep(r) ==
  landed'[r] # landed[r] =>
    /\ rows[r].state = "provider_started"
    /\ landed'[r] = landed[r] \cup {rows[r].gen}
LandsInOpenRun == [][\A r \in Receipts : LandingStep(r)]_vars

\* A connector's canonical commit happens only while the settings its worker
\* loaded are still the connector's: they match from the fence check to the
\* commit, because FOR SHARE holds the source's row in between.
LandsUnderLoadedConfig ==
  \A w \in Workers :
    LET t == rows[sessions[w].r].target IN
    sessions[w].fencing /\ ~sessions[w].pre /\ t \in ConnectorTargets =>
      sessions[w].cfg = config[t]

\* A settled receipt is final: no late worker, claim, recovery or signal moves
\* it, starts its provider again or lands rows for it.
SettledStep(r) ==
  rows[r].state \in Settled =>
    rows'[r].state = rows[r].state /\ runs'[r] = runs[r] /\ landed'[r] = landed[r]
SettledIsFinal == [][\A r \in Receipts : SettledStep(r)]_vars

\* A receipt is taken over only from an expired lease.
TakeoverStep(r) ==
  rows'[r].gen # rows[r].gen /\ rows[r].owner # NoOne => ~Live(r, 0)
LeaseRespected == [][\A r \in Receipts : TakeoverStep(r)]_vars

\* A leased receipt whose worker is gone is released: recovered, or claimed.
Orphaned(r) ==
  /\ rows[r].state \in Leased
  /\ \A w \in Workers : sessions[w].r = r => ~Holds(w, r)
OrphanReleased == \A r \in Receipts : Orphaned(r) ~> ~Orphaned(r)
=============================================================================
