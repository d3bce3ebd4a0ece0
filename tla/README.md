# TLA+ models of the KEEL backend

KEEL (`src/backend`) serves many companies (tenants) from one PostgreSQL
database with row-level security, Redis streams between the API and its
workers, and paid outside providers: search and store APIs, language and image
models, a payment gateway. Its difficult part is not one algorithm. It is what
happens to work that several processes share: who may run it, whether it runs
twice, what is left when a process dies between two transactions, who pays for
it, and whether anybody picks it up again.

These modules model that part. Paths below are relative to `src/backend/src`
unless they begin with `docs/`. `PROJECT.json` maps every definition to the
lines it translates.

Contents

1. [Inventory](#1-inventory)
2. [Modules and their correspondence to the code](#2-modules)
3. [Runs: what is checked and what it shows](#3-runs)
4. [Bounds](#4-bounds)
5. [Fairness](#5-fairness)
6. [Proofs](#6-proofs)
7. [Where the code and its documents part](#7-divergences)
8. [Not modelled](#8-not-modelled)
9. [Plan](#9-plan)
10. [Running it](#10-running-it)

## 1. Inventory

### Components that are modelled

| Component | State it keeps | Operations | Talks to |
|---|---|---|---|
| Operation receipts, `ai/core/operation_receipts.py` | `keel_operation_receipts`: state, lease owner and generation, lease end, `provider_started_at`, outcome, billing period, job | `create_or_get_operation`, `mark_queued`, `claim`, `attach_ingestion_job`, `begin_provider`, `assert_fence`, `FencedConnection.commit`, `finish`, `recover_expired` | every background worker |
| Scheduled connector syncs, `market_scraper/connector_sync.py`, `api_connector_sync.py`, `connector_worker.py`, `data_access.py` | receipts, `ingestion_jobs`, `data_sources.last_synced_at` | one pass over the due sources: intent, claim, load, job, provider, close, finish; the failure path after each | receipts; providers |
| Collection delivery, `market_scraper/enqueue.py`, `worker.py`, `cli.py` | receipts; a Redis stream, its pending list, attempts hash and dead-letter stream | request, signal, mark; outbox dispatch, reclaim, run, acknowledge, count, bury | Redis; receipts |
| Credit accounting, `ai/billing/credits.py`, `admin.py` (`adjust_credits`) | `usage_ledger`, `tenant_credit_balances`, `usage_ledger_adjustments`, advisory locks | `reserve`, the provider block, `settle`, `expire_stale_reservations`, `reconcile`, `adjust_credits` | every paid call of the AI and search code |
| Image job queue, `ai/marketing/image_jobs.py`, `image_worker.py`, migration `20261030000000` | `image_generation_jobs`, assets, keeper threads | `enqueue_batch`, `cancel`, `retry_failed`, claim, `heartbeat`, `complete`, `fail` | image providers; object store |
| Payment events and subscriptions, `ai/billing/webhooks.py`, `store.py` | `billing_webhook_events`, `billing_subscriptions`, `billing_payments`, `tenant_plan_assignments` | `handle_event`: lock and claim of the event, the invoice's read, `sync_subscription`, `apply_subscription`, `record_payment`, commit or failure | the payment provider; promotions |
| Checkout attempts, `ai/billing/service.py`, `checkout_attempts.py` | `billing_checkout_attempts` under a tenant's session lock | `create_checkout`, `cancel_pending_checkout`, adoption of older sessions | the payment provider; promotions |
| Promotions, `ai/billing/promotions.py` | `billing_promotion_redemptions` | `reserve`, `begin_checkout_request`, `attach_checkout`, settlement, rejection, reconciliation | attempts and events |
| Usage allowances, `ai/core/usage.py`, `ai/routers/reports.py`, `ai/sentiment/*` | `tenant_usage_counters`, `metered_request_keys`, `sentiment_results` | `reserve_request`, `release_request`, `reserve`, `settle`, `release`, `classify_and_store_reviews` | the report routes, the sentiment batches |
| Tenant cache, `ai/core/tenant_cache.py`, middleware of `ai/main.py` | per process `_entries`, `_generation`, `_inflight`; one generation per company in Redis | `bump`, `get_or_compute` | every read model of the dashboard; every write request |

### What is hard in each, and what correct means

**Operation receipts.** A worker may be slow instead of dead: its lease ends,
another claims the row, and the first one comes back. Every write it then
tries has to be refused, or a non-repeatable provider call happens twice or
rows land under settings nobody has any more. The fence check and the commit
it protects are separate statements; `NOW()` is the start of the transaction;
two workers may have the same `worker_id`. Correct means: one active receipt
per target, one run against the provider, canonical rows only from the newest
run while it is open, a settled receipt stays settled, and a dead worker's
receipt does not stay leased.

**Connector syncs.** The sync's result is written to three tables in several
transactions, each with its own failure handler. Correct means that the tables
agree, that only the current holder makes a source look fresh, and that every
due source is tried again whatever happened to the last try.

**Collection delivery.** The database is the outbox, Redis only a signal that
is delivered at least once and may be lost. Correct means that no message is
acknowledged before its receipt is settled, no receipt waits for a signal
that will not come, and none is crawled twice.

**Credit accounting.** Balance and ledger are separate tables updated by four
kinds of transaction. A process can die with the provider's answer unknown, and
the upkeep pass and the surviving call can settle one reservation twice.
Correct means: the balance is the sum of the ledger, nobody is admitted past
the plan's limit or a provider's cap, a key is sent once, a row is settled once,
and no reservation lasts.

**Image jobs.** A claim goes to the company that waited longest, as far as the
claim's snapshot shows, and passes over rows other claims have locked; keepers hold a
job's heartbeat; neither `complete` nor `fail` asks whether the row is still
the worker's. Correct means: one worker per job, no lost and no revived job,
companies take turns.

**Payments.** The provider is the truth and tells it in events that come late,
twice, out of order and two at a time, while the company's own requests open,
lose, retry and cancel Checkouts. Between a commit and a provider call the
process may die, and an answer may be lost. Correct means: nothing is sold
twice, a promotion is not granted more often than its cap, a recorded
subscription never goes back to an older state, the plan is that of the
subscription in force, and once every event is handled the records say what the
provider says.

**Usage allowances.** A report is counted before it is made and given back if
making it fails, while its key may be replayed uncounted at the same time. A
sentiment batch counts what it plans to label and settles to what it did label,
beside other batches and with a model that comes and goes. Correct means: each
unit counted belongs to one thing, each thing the customer got is counted once,
and no batch passes the limit.

**Tenant cache.** A process drops its own entries under a lock and tells the
others through a counter in Redis, which may be out. Values are computed outside
the lock, while generations move, and handed to other requests that wait for
them. Correct means: nobody is shown a value older than a write they could know
of, and nobody waits for a computation that is over.

### Components that are not modelled

`PROJECT.json` lists all of them, each with a reason. Those whose
protocols are worth a module: the authentication throttle, the storage ledger,
notification digests, competitor enrichment, verified store syncs, compute
offload. The others (forecasting, sentiment models, retrieval, extraction,
crawling, routers, frontend, pricing tables) have state of one request or
numbers and text that a model checker says little about.

### Interaction

```
 routers --intent--> operation receipts <--claim/fence/finish-- workers
    |                      ^    |                                  ^
    |                      |    +--recover_expired, dispatch--+    |
    +--XADD--> Redis stream --------------------------------- | --+
                                                              |
 connector_worker --> connector_sync --> receipts, ingestion_jobs, data_sources
 image_worker --> claim function --> image provider inside provider_call()
 every paid call --> provider_call(): reserve .. provider .. settle  <-- upkeep
 create_checkout --attempt, redemption--> payment provider --events--> handle_event
 report routes, sentiment batches --> usage counters of the billing period
 write requests --bump--> tenant cache <--get_or_compute-- read routes
```

## 2. Modules

| Module | Models | Relation to the others |
|---|---|---|
| `OperationReceipts` | the receipts of one tenant, statement order included | the base |
| `ProviderEffects` | what receipts promise about effects outside the database | abstract specification |
| `ReceiptsImplement` | the refinement mapping | `OperationReceipts` implements `ProviderEffects` |
| `OperationReceiptsProofs` | the theorems, the refinement among them | extends `ReceiptsImplement` and TLAPS |
| `ConnectorSync` | syncs over receipts, jobs and sources | takes a receipt as one slot per source |
| `CollectionDelivery` | producer, stream, workers, run | takes a receipt as a row with owner and live lease |
| `CollectionEffects` | a count of the crawls, and the refinement mapping | `CollectionDelivery` implements `ProviderEffects` |
| `CreditAccounting` | provider calls and the ledger | self-contained |
| `ImageJobs` | the image queue | self-contained |
| `PaymentProvider` | sessions, subscriptions, invoices and events of the provider (external) | the base of the next three |
| `BillingStore` | the billing tables and what one function makes of a row | extends `PaymentProvider` |
| `CheckoutAttempts` | buying and cancelling, one commit or call at a time | extends `BillingStore` |
| `PaymentEvents` | the event handlers, composed with all of the above | extends `CheckoutAttempts` |
| `UsageCounters` | the counters of a billing period | the base of the next two |
| `ReportRequests` | counted report requests and their keys | extends `UsageCounters` |
| `SentimentBatches` | batches, labels and their records | extends `UsageCounters` |
| `UsageAllowances` | both on one period | composes the two |
| `TenantCache` | the read models' cache of several API processes | self-contained |
| `ConnectorSyncProofs`, `CollectionDeliveryProofs`, `CreditAccountingProofs`, `ImageJobsProofs`, `PaymentEventsProofs`, `UsageAllowancesProofs`, `TenantCacheProofs` | the theorems about these modules | each extends its module and TLAPS |
| `MC*` | instances for TLC: model values, symmetry, functions | |

`ConnectorSync` and `CollectionDelivery` do not repeat the receipts' protocol.
They use facts that `OperationReceipts` establishes: one active receipt per
target, and a worker that lost its lease is refused. With the full lease clock
in them their state spaces would be out of reach and nothing would be gained.

### OperationReceipts

- `rows` is the table, `sessions[w]` what a worker's process remembers of the
  receipt it claimed (receipt, generation, the settings it loaded, and whether
  it is between a fence check and the commit). `config`, `allowed` and
  `verified` are the surroundings that other transactions change. `runs` and
  `landed` are history: the generations that went on to call the provider, and
  those that committed canonical rows.
- `create_or_get_operation` is two statements, and a caller is between them in
  `calls`. `Look` is the `SELECT ... FOR UPDATE`: it returns an active receipt,
  raises a conflict, or finds none, which locks nothing. `Insert` is the
  `INSERT ... ON CONFLICT`, which gives the caller the receipt another one
  inserted meanwhile, or refuses (`Refuse`).
- An operation that is one transaction holding the row's lock is one action:
  `MarkQueued`, `Claim` (three outcomes: uncertain, denied, granted),
  `AttachJob`, `BeginProvider`, `Finish`, `RecoverExpired`. A fenced commit is
  two, `Fence` and `Commit`: `FencedConnection.commit` asserts and then
  commits, and in between only the locks of `assert_fence` protect it. That is
  what makes `LandsUnderLoadedConfig` a question at all.
- Time is relative. A lease is the time it has left. Since PostgreSQL's `NOW()`
  is a transaction's start, `Stale(w)` lets a worker compare a lease with any
  moment since its last commit.
- `recover_expired` decides per row by state, `provider_started` and
  replayability (`Recovered`), all expired rows of one pass together.

### ConnectorSync

- `slot[s]` is the active receipt of source `s` with the job it is bound to,
  `last[s]` the one settled last, `synced[s]` whether `last_synced_at` is young,
  `stray[s]` whether a job was committed that no receipt names.
- A worker's step is a transaction of `run_due_connector_syncs` and
  `sync_db_connector_source`: `StartSync`, `Intend`, `Claim...`, `Load`,
  `PrepareJob`, `Begin`, `Run`, `CloseJob`, `FailChanged`, `Finish`, and the
  refusals (`IntendRefused`, `ClaimRefused`, `BeginRefused`, `CloseFenced`,
  `FinishRefused`), each of which leaves what its `except` clause leaves. A
  crash ends a worker between any two.
- `FailStaleJob` is the maintenance process: `recover_stale_market_jobs` fails a
  PROCESSING job whose heartbeat is old, whoever works on it, if its source was
  registered with a collection method (`Collected`). A sync renews its lease at
  each fence and never its job's heartbeat, so the job may be at any step of it.
  The state `STALE` is FAILED with that function's `error_log`.
- The environment edits settings (complete or not), approves and revokes sources,
  suspends the plan, lets leases end, makes sources due and begins a new billing
  period.

### CollectionDelivery

- Producers: `Intend`, `SendSignal`, `MarkSent`, with a crash between any two.
  Workers: sweep (`Recovered`, `ListPending`, `Dispatch`, `MarkDispatched`),
  `Listen`/`Take` (a new message, or one reclaimed from a live worker), the run
  of `cli.py` (`RecoverInRun`, `Claim`, `Begin`, `Finish`), then `Inspect` and
  `Acknowledge`, or `CountAttempt` and `Bury`.
- The stream is external. A message has been delivered or not, and has its
  number of failed attempts. `Lose` is a Redis restart that forgets a message.

### CreditAccounting

- One element of `Calls` is one use of `provider_call()`. `reserve` is one
  transaction of several statements, and it reads before it writes, so each
  statement is an action under the advisory locks it holds: the caps are locked
  and checked one by one, then the account, then the rows. `settle`,
  `expire_stale_reservations`, `reconcile` and `adjust_credits` hold what they
  read and are one step each.
- `left[c]` (the request has left this server) is in no column. It is what the
  properties about charging are stated against.
- Credits and cost are whole units with a constant margin between them. The
  arithmetic of the price tables is not modelled; that amounts differ between
  estimate, measurement and final bill is.

### ImageJobs

- `job` is the table, `worker[w]` a thread with its step, its job and whether
  its keeper thread is alive, `request[u]` a batch counted and not yet inserted.
  Heartbeats, backoff and creation times are whether they have passed and in
  what order. `worker_id` and `heartbeat_at` are kept for RUNNING rows, the only
  ones that are asked for them. `Rank` is the claim function's `ORDER BY`.
- A claim is three steps and `claim[w]` stands between them: `Look` takes the
  snapshot that is ranked, `Pick` locks the first ranked row that no other claim has
  locked and whose newest version can still be claimed (`FOR UPDATE SKIP LOCKED`),
  `Claim` writes it and commits. Claims overlap, and one may be rolled back
  (`LoseClaim`). `cancel`, `complete` and `fail` wait for a locked row.

### Billing: PaymentProvider, BillingStore, CheckoutAttempts, PaymentEvents

- A session, the subscription it starts and the attempt it was opened for have
  one name. `subscription[s].version` numbers the provider's changes, so that an
  older snapshot can be told from a newer one; the code has no such number.
- `assignment` begins without a row (`NoPlan`) or with a plan of another source, a
  trial or one that an operator gave (`GivenPlan`); who gives one later is left out. An
  ended subscription is written where there is no row, never over a given plan.
- `request` is the one request of the company that holds `tenant_lock()`; each
  action of `CheckoutAttempts` is one commit or one provider call of it. `Stop`
  is every refusal, failed read and death. `AnswerLost` leaves open whether the
  provider did what it was asked.
- `redemption[a]` goes through `BeginRequest` (committed before the provider is
  called), then `Attach` (which ends in `reconciliation_required` when the redemption changed
  or the database fails), `MarkUnknown` or `RejectRedemption`; `AfterExpiry`,
  `AfterPayment` and `AfterCompletion` are what events make of it.
- A handler (`PaymentEvents`) takes the event's lock, reads the invoice, takes
  the subscription's lock and reads its snapshot (`Sync`), writes under the
  company's lock (`Write`), and commits; it may fail at each step, which rolls
  back and leaves the event to be delivered again. Nothing orders deliveries.
- Histories: `missed`, the sessions that were paid for while a request went from
  the list of subscriptions to the list of Checkouts; `second`, attempts whose
  idempotency key opened two sessions. No code reads them.

### Usage: UsageCounters, ReportRequests, SentimentBatches, UsageAllowances

- `used[feature][period]` is the counter, `keys[period][key]` the row of a key
  with its request and whether it was replayed. A report request is `new`,
  `locked`, `working`, `delivered`, `broken` or `ended`; `Vanish` is every end
  without a release: a dead process, a reader who leaves in mid-stream, a
  release that fails.
- A batch reads how much is left (`Hint`), picks reviews (`Load`), reserves
  under the counter's row lock, labels by the model (`Predict`) or by the stars
  (`Rate`), and stores and settles in one transaction (`Store`). `overtaken` is
  the history of section 7.

### TenantCache

- `entries`, `generation`, `inflight` and `down` are the module's tables in each
  process, `shared` the counter in Redis. A value is the number of the last
  write its computation saw. The company, the language and the principal are in
  the key.
- A write is `Commit`, `Forget` (the locked half of `bump`) and `Tell` (INCR and
  EXPIRE, either of which may fail after it was counted); a process is at one
  write at a time. `CommitOutside` is a write whose process bumps nothing: a
  market worker's, or a request that ends in an unhandled exception (section 7).
- A request is `Ask` (the one read of the shared generation), then `Serve`, or
  `Start`, `Compute` and `Store` or `Raise`. A request that waits for another's
  event stays where it is: it can do nothing until it hits or nobody computes.
- `bumped` and `told` are histories: the last write each process dropped its
  entries for, and the last one Redis counted. `floor` is what a request may
  expect when it begins: its own process's `bumped`, and `told` if Redis
  answers. `Expire` is the end of an entry's time as well as the removal of the
  oldest of too many, `Retry` the end of `SHARED_RETRY_SECONDS`.

### ProviderEffects

Five phases per operation (none, intended, running, stopped, closed) and the
numbered runs. No rows, leases, workers or clocks. A run has a number above all
others, results land only from the newest run while the phase is running, only
replayable operations go back from running to intended, and closed is closed.
`PhaseOf` maps a row: a row put back to `retryable` after its provider was
started counts as stopped, since a claim can only park it.

## 3. Runs

| Run | Question | States |
|---|---|---|
| `receipts_plain` | Two receipts of one collection target, two callers that ask for it at once and two workers with the same `worker_id`: do the row's CHECK constraints, one receipt for all who ask, one holder, one provider run, and "results land only in the open run" survive every crash, expiry, late worker and race? | 791 thousand |
| `receipts_effects` | One receipt, of a plain target or of a store whose settings change: does the protocol implement `ProviderEffects`, do rows land only under the loaded settings, and is a dead run's receipt released? | 321 thousand |
| `connector_safe` | Two workers on one source through a crash, ending leases, edits, revocations and stale jobs: do receipts, jobs and source agree, and does one worker at most read the source? | 3.5 million |
| `connector_attempt` | Is every due source attempted, through a crash, a new period, edits and stale jobs? | 218 thousand |
| `delivery` | A producer and two workers that reclaim and bury each other's message, as many faults as attempts, a crash and a lost message: is nothing acknowledged too early, nothing queued left without a signal, every request settled or parked, and all of it one operation of `ProviderEffects`? | 400 thousand |
| `credits_safe` | Three calls of two accounts, two with one key, under two caps, with crashes and stalls anywhere, late settlement, expiry, reconciliation and a debit: does the balance equal the ledger, is everything admitted within the limit and the caps, is a key sent once, does every reservation end? | 202 thousand |
| `credits_failure` | The docstring's "A call that reached the provider and failed is still charged". Violated, see section 7. | |
| `images_safe` | Two companies, three jobs, two workers: one worker per job, images and attempts bounded by crashes, ended rows stay, companies take turns by what overlapping claims can see | 879 thousand |
| `images_live` | With failing keepers too: does every job end? | 45 thousand |
| `billing` | Two attempts and an older session, two handlers at once, lost answers, deaths, cancellations, renewals: is nothing bought twice, do discounts stay in their cap, does the plan follow the subscription in force, do the records end up as the provider says? | 1.6 million |
| `usage` | Three report requests, two of one key, and two batches over two reviews, across the end of a period: is each unit counted for one thing and each thing once? | 563 thousand |
| `cache` | Two processes, one read model, two requests, two writes, one failure and a death: is anybody served something older than they may expect, and does everybody who waits get an answer? | 813 thousand |

The properties, and what would break them in the code:

- `CallersShareReceipt`: callers that hold an open receipt of one target hold the
  same one. It relies on the partial unique index and `ON CONFLICT`, because the
  `SELECT ... FOR UPDATE` locks nothing when there is no row.
- `OneHolder` relies on the generation: two pids may be the same name.
- `SingleProviderRun` relies on `provider_started_at`, written and committed
  before the call; `recover_expired` must not clear it and `claim` must look at
  it.
- `LandsInOpenRun` and `LandsUnderLoadedConfig` rely on the locks that
  `assert_fence` holds until the commit: the receipt's `FOR UPDATE`, the
  source's `FOR SHARE`.
- `OrphanReleased`: a leased row whose worker is gone is released.
- `JobsAgree`: a completed receipt has a completed job, or one that the
  maintenance process had failed under the sync (section 7), and a receipt that
  may still run has none that is completed. `SyncedByHolder`: only the holder of the
  receipt moves `last_synced_at`. `OneReader`: no lease that ends while the client's
  system answers lets a second worker in; it rests on parking what had started.
- `DueIsAttempted`: a due, entitled source is attempted, parked for
  reconciliation, no longer due, or held back by one of the causes that
  section 7 names (`OfEndedPeriod`, `JobFailed`, settings that lack a key), unless
  its settings are edited for ever (`EditedForEver`). Without any one of the four
  the run fails.
- `AckedIsSettled`, `QueuedHasSignal`: safety of the outbox, with
  `mark_queued` arriving late. `RequestedIsSettled`: its liveness, with the
  named exception `SignalGone`: queued, with its signal lost or buried.
  `KeepsTheContract`: no redelivery, recovery or dead worker makes a second
  operation of a receipt, and what was stopped or closed stays so.
- `BalanceIsLedger`: four transactions move the balance and the cost by
  differences; the property adds the ledger up. The two columns of cost have
  different scales (section 7), so that the cost agrees up to a slack of half a
  grain per booking. In the run that is little against a row's cost: a row
  booked twice or not at all, or by the wrong amount, still shows.
- `AdmittedWithinLimit` is stated over the ledger, not over the balance row
  that the `UPDATE` of `reserve` looks at. `WithinCaps`, `InFlightBound`,
  `KeySentOnce`, `SentIsCharged`, `ReservationsEnd` as named.
  `SentIsCharged` is about the data providers, whose code calls `call.sent()`.
- `OneWorkerPerJob`, `BoundedByCrashes` (attempts and images beyond the
  configured ones are paid for by crashes), `EndedStays`, `CompaniesTakeTurns`,
  `JobsEnd` as above. The first four are checked as long as keepers last,
  `JobsEnd` without that. `CompaniesTakeTurns` judges a pick by the snapshot its
  claim ranked, and excuses it for a row that was taken, locked or cancelled since;
  what two overlapping claims do to each other's turns is in section 7.
- `OnePurchase` speaks of any two sessions of the company, whether one was
  paid, one is open, or one merely may still be opened by a request on its way:
  it rests on the attempt's commit before the provider is asked, on the
  idempotency key, on the two lists, and on when an attempt is over.
- `DiscountsWithinCap` counts what the provider granted, not rows. It rests on
  the redemption's `provider_request_started` commit and on keeping the slot of
  whatever is uncertain.
- `RecordNeverOlder` rests on reading the snapshot after the subscription's
  lock, `AssignmentFollows` on the company's lock in `apply_subscription` and on
  asking for other current subscriptions, `Reconciled` on what each handler does
  with events that come before those they depend on.
- `CountersAgree`, `PaidOnce`: the counter equals what is held against it, and
  what was delivered or labelled is held by exactly one unit. They rest on the
  `replayed` mark under the same lock as the release, and on the row lock of the
  counter from the reservation to the commit.
- `ServedIsFresh` rests on three things at once: the generation that moves
  before the entries go, the comparison in `Store`, and the shared generation
  that is read before the entry is looked at. `RequestsEnd` rests on the
  `finally` that takes the computation out of `_inflight` also when it raises.

Every property of a passing run has a mutant: an operator in the module, never
used by it, that is a plausible slip in the mapped code (a dropped guard, a
missing reset, a swapped order). With the mutant in the operator's place TLC
finds the property violated under the same configuration.

## 4. Bounds

Every bound is a constant and a guard of the action it limits.

- **Workers**: two. The hazards are between a worker that lost something and
  the one that has it now; a third would be a second copy of one of them.
  Receipts and sources are rows that do not refer to each other except through
  their target, so two receipts of one target, or one source, suffice.
- **Leases** (`LeaseLength = 1`, `MaxStale = 1`): a lease is live, just ended,
  or seen as live by a transaction that began before its end. Longer
  leases add waiting, not orders. The proofs hold for every length.
- **Callers** of `create_or_get_operation`: two in `receipts_plain`, one that
  inserts between the other's two statements; one in `receipts_effects`, which is
  not about them.
- **Collected**: the one source of the connector runs, so that the maintenance
  process interferes; a source that is not collected is one where it never does,
  and `TablesAgree` is proved for any.
- **Generations** (`MaxGeneration = 2`): a first holder and its successor.
- **Periods** (`MaxPeriod` 0 or 1): a receipt of this period or of the last. It is 0
  in `connector_safe`: a new period makes intents conflict and claims denied there, as
  a revocation does.
- **Crashes, faults, losses**: 1, or 2 in `images_live`; 2 faults in `delivery`, as
  many as attempts, so that a message may be buried before any run claimed its
  receipt. A crash may happen at
  every step, so one crash already meets every window. Attempts are limited to
  2 so that the dead-letter path is reached, in `images_safe` to 1: there a busy
  server and a takeover still give a job a second claim.
- **Credits** (`MCCreditAccounting`): three calls, two of them in one account, so
  that one is admitted while another is open, and a third, of another account,
  that has the second one's key and competes with the first for the caps. Two
  controls with a cap of 27 take one estimate of 18, and a second one only after
  the first call is settled at its cost of 9. `Limit = 54` makes the second call
  of an account depend on how the first was settled. The balance rounds to
  multiples of `Grain = 4`, which neither 18 nor 9 is: the one is rounded up, the
  other down. In the source the grain is 100. In `credits_safe` no call costs more than
  its estimate: the caps and the limit are of admission. `credits_failure` has
  costs of 0 and 27.
- **Billing** (`MCPaymentEvents`): two attempts, so that one is retried, expires
  or is paid while the next selection comes, and one older session that may be
  open at the start. Two handlers are the smallest number that races; they are
  symmetric. A subscription changes once or twice beyond its start
  (`MaxVersion` 2 or 3, the longer one renews), enough for a stale and a fresh
  snapshot. `MaxPending = 2` stops the provider, not the handlers, while more
  events wait; reorderings and redeliveries of those are all there. The
  promotion's cap is one use for two attempts that want it.
- **Usage** (`MCUsageAllowances`): one report and two records per period, so
  that a third request or record meets the limit; three requests, two of one
  key; two batches over two reviews, one with stars.
- **Images**: three jobs so that one company has two and waits behind the other;
  two workers, so that claims overlap. The workers are symmetric, and so are
  the two jobs of one company.
- **Delivery** (`MCDelivery`): one slot for a message, which is used again once it
  is acknowledged; both workers can have it at once by reclaim. Two signals of one
  receipt at a time, in any number, are covered by the proofs.
- **Cache** (`MCTenantCache`): two processes are one that writes and one that is
  to notice; two requests are one that computes and one that waits or comes
  later; the second write falls between any two steps that follow the first.

`CHECK_DEADLOCK FALSE` is set where the bounds let the model stop (all calls
done, all bounds used up), and only there. The connector and delivery models
loop for ever and are checked for deadlock.

Two data choices keep the instances honest. `Prompt` is FALSE in
`connector_safe` (a lease may end before the next statement) and TRUE where
liveness is checked, `connector_attempt` and `delivery` (thirty minutes outlive
the few statements around the provider, else nothing could be promised). In
`delivery` a run may still start after its lease, once, as one of the faults.
The proofs about both modules hold for either value. `KeepersFail` is FALSE in `images_safe`,
because with a failed keeper two workers do work on one job (section 7), and
TRUE in `images_live`.

## 5. Fairness

- `OperationReceipts`: the clock ticks; a transaction that passed its fence
  commits or its connection dies; `recover_expired` runs in each pass of the
  collection worker and waits for locks, hence strong fairness. Workers
  promise nothing.
- `ConnectorSync`: `run_forever` loops over every due source
  (`connector_worker.py:118`) and every statement returns or raises. Recovery
  runs in each pass and time passes every lease. Each worker lists a source that
  is due again and again (strong fairness of `StartSync`). Tenants and the
  maintenance process promise nothing: what they can do to hold a source
  back for ever is an exception in `DueIsAttempted`.
- `CollectionDelivery`: workers loop, producers that live go on, a stream is
  read in order (so each message's turn comes), a dispatch pass lists every
  pending receipt, leases end.
- `CreditAccounting`: time passes (`Age`) and the upkeep thread passes
  (`Expire`). Callers and operators promise nothing; they may stop anywhere.
- `ImageJobs`: workers poll, finish the claims they begin and go on, heartbeats grow old, backoff ends.
  Users promise nothing and their retries are bounded.

- `TenantCache`: a request's thread goes on: a computation returns or raises, the
  lock is free again after a few statements, and a set event wakes those who
  wait. Writers, Redis and the end of an outage promise nothing.

`PaymentEvents` and `UsageAllowances` state no fairness: their properties are
about what may never happen, and `Reconciled` about states in which no event
waits. Nothing in the repository bounds when the provider delivers.

No crash is ever fair, and no action of a user or operator is.

## 6. Proofs

`OperationReceiptsProofs` proves, for every number of receipts, targets and
workers, every lease length and every bound, under `ReceiptAssumption` (named
sets are distinct from NULL, store targets are connector targets, lengths and
bounds are natural numbers):

| Theorem | Property |
|---|---|
| `ReceiptsTypeCorrect` | `TypeOK` |
| `ReceiptsInvariant` | the inductive invariant `IInv` |
| `ReceiptsKeepRowChecks` | `RowChecks` |
| `ReceiptsAreShared` | `CallersShareReceipt` |
| `ReceiptsHaveOneHolder` | `OneHolder` |
| `ReceiptsRunOnce` | `SingleProviderRun` |
| `ReceiptsLandByRuns` | `LandedByRuns` |
| `ReceiptsLandUnderConfig` | `LandsUnderLoadedConfig` |
| `ReceiptsLandInOpenRun` | `LandsInOpenRun` |
| `ReceiptsSettleOnce` | `SettledIsFinal` |
| `ReceiptsRespectLeases` | `LeaseRespected` |
| `ReceiptsKeepTheContract` | `ImplementsProviderEffects` |

`LandedByRuns`, `SettledIsFinal` and `LeaseRespected` are stated and proved only;
no run repeats them.

The argument. None of the invariants is inductive alone. `SingleProviderRun`
speaks of `runs`, which no code reads; what prevents a second run is
`started`, so the row's invariant `RowInv` ties them: a receipt that is not
replayable and has a run is marked started, no generation of a run is above the
row's, and an authorized row's generation is newer than every run. Then
`BeginProvider` adds a first run or a newer one. `SessionInv` ties what a worker
remembers to the rows: its generation is not from the future, and between its
fence check and its commit the row is still its own, because all others wait
for the lock. From that follow `OneHolder` (a claim takes a generation nobody
has seen) and `LandsInOpenRun`. `LandsUnderLoadedConfig` needs in addition that
a connector's `provider_started` row has a worker that did load its settings,
and that `SourceLocked` stops edits.

`CallersShareReceipt` needs that a row never changes its target
(`RowIdentity`), that a receipt a caller was given is a row (`CallInv`), and one
active receipt per target (`OneActiveReceipt`).

Each of `RowInv`, `SessionInv`, `CallInv`, `OneHolder`, `OneActiveReceipt` and
`LandsUnderLoadedConfig` has its own step lemma with one case per action;
`IInvStep` puts them together; `PTL` lifts the result. The action properties
follow from `IInv` and a lemma about one step. The refinement reads a step once
per receipt: `EffectStep` is what the mapping makes of one row, and
`StepIsAllowed` shows it for every action; a recovery pass moves many rows, each
by such a step.

The other modules, each for every value of its constants:

| Module | Theorems | Inductive invariant |
|---|---|---|
| `ConnectorSyncProofs` | `TypeCorrect`, `TablesAgree` (`JobsAgree`), `HolderSyncs` (`SyncedByHolder`), `ReadByOne` (`OneReader`), `ParkedStays` | `SyncInv`: what a slot says by itself (`SlotInv`), and what a worker's place says of the slot while it holds it (`WorkerInv`). `ReaderInv`: who reads a source holds its receipt, or the receipt was parked meanwhile |
| `CollectionDeliveryProofs` | `TypeCorrect`, `AckedStaysSettled` (`AckedIsSettled`), `QueuedKeepsSignal` (`QueuedHasSignal`), `CrawledByOne`, `StartedOnce`, `DeliveryKeepsTheContract` (`KeepsTheContract`) | `DeliveryInv`: whoever is about to mark a receipt knows that it is `Kept` (has a message, is settled, or was buried or lost), and a worker that ended its run well has settled the receipt it carries. `CrawlInv`: who crawls holds a started receipt, or the receipt was settled or parked meanwhile. `KnownInv`: whoever carries a receipt's id has it from its intent |
| `CreditAccountingProofs` | `TypeCorrect`, `KeyReachesOnce` (`KeySentOnce`), `SentStaysCharged` (`SentIsCharged`), `InFlightBounded` (`InFlightBound`), `BalanceHolds` (`BalanceIsLedger`), `AdmissionsLimited` (`AdmittedWithinLimit`), `CapsHold` (`WithinCaps`) | `CallsInv`: a request leaves only behind a row, a key has one row, a data call that was sent says so in its handle; `CountInv`: the account's lock is held from the count to the insertion; `LedgerInv`: each step moves the balance row and the sums by the same amount, cost up to its rounding; `CapsInv`: whoever passed a cap holds its lock, and the cap has room for its estimate |
| `ImageJobsProofs` | `TypeCorrect`, `OneMaker` (`OneWorkerPerJob`), `EndedRowsStay` (`EndedStays`), `TurnsAreTaken` (`CompaniesTakeTurns`), `CrashesBound` (`BoundedByCrashes`) | `QueueInv`: a row in a worker's hands is RUNNING, fresh and under its name, and a row that a claim has locked is locked by it alone and stays claimable (`LocksInv`); `ImagesInv`, `AttemptsInv`: each image and attempt to spare has a dead worker to answer for it |
| `PaymentEventsProofs` | `TypeCorrect`, `NeverRolledBack` (`RecordNeverOlder`), `BoughtOnce` (`OnePurchase`), `DiscountsCapped` (`DiscountsWithinCap`), `NothingLost` (`Reconciled`), `PlanFollows` (`AssignmentFollows`) | `PaymentInv`: what is recorded is no newer than the provider and no older than what a lock holder read (`RecordsInv`); at each step of a request, which sessions may stand beside its own (`PurchaseInv`); each discount granted or still possible has a slot that counts (`DiscountInv`). `EventsInv`: what the tables do not say, a pending event will make them say; `WritingInv`: the check for another subscription is good until the commit |
| `UsageAllowancesProofs` | `TypeCorrect`, `GotIsPaidOnce` (`PaidOnce`), `CountersHold` (`CountersAgree`), `UnitsAreKeys` (its half about reports) | `RequestInv` (a key's row names the request that counted it) and `LabelInv` (a label is paid for once, and a review a batch read as new has no label since, unless it was overtaken); `RecordsInv`: as many units as charged labels, and room for the batch that holds the counter's row |
| `TenantCacheProofs` | `TypeCorrect`, `ServedFresh` (`ServedIsFresh`), `OneComputes` | `CacheInv`: each value stored, or computed and not yet stored, is `Fresh` for its generations; a generation that moves on makes a claim empty, never false. `InflightTrue`: the table of computations names exactly the requests that compute |

`CrawledByOne`, `StartedOnce`, `ParkedStays` and `OneComputes` are stated and proved
only; no run repeats them. `ReadByOne` and `CrawledByOne`: a lease may end, and a
message be delivered again, while the worker is alive and at the provider, yet no
second one joins it. `ParkedStays` and `StartedOnce`
are about steps: no step leaves `reconciliation_required`, and none starts a provider
again once `begin_provider()` has committed. They hold because a claim of a started
receipt with an ended lease only parks it: at most one call is made, and the price is
the parked receipts of section 7. `OneComputes` is the safety half of `RequestsEnd`: who
waits for a computation waits for a request that is still computing in its own process.

`DeliveryKeepsTheContract` makes `CollectionDelivery` a second implementation of
`ProviderEffects`, with an abstraction of the rows of its own. The code counts no crawls, so
`CollectionEffects` adds a history variable that no action reads. `StateStep` lists the moves of a
row, `PhaseStep` what the mapping makes of them. That a claim never
denies a receipt that was not intended is `KnownInv`, through messages, lists
and requests. Nothing lands in this mapping: what a crawl commits is fenced by `OperationReceipts`
and not repeated.

The sums. `SumFunctionOnSet` is a fold, and the library's theorems about folds
and about induction take an operator, which the prover cannot instantiate.
`CreditAccountingProofs` has its own: the least number of elements of a set that
refutes the claim (`WFMin`, which is stated about a set) gives that a sum over a
finite set is the sum without one element and that element (`SumOfOneMore`).
From there, a step that changes one row changes each sum by the difference of that row.

- `LedgerInv`: reserved and consumed of the balance row are the sums of the
  ledger and its adjustments, and its cost is within `Slack` of the sum. A step
  that books rows moves the cost by what those rows' costs move by, up to half a
  grain each (`RoundedTyped`), and moves `Slack` by more. Reconciliation and operator credits floor the
  balance at zero. Reconciliation never meets the floor if all adjustments are
  debits, because the balance is then at least what the rows that can still be
  lowered have consumed. With credits the balance may part from the sum, but
  only upwards, which is all that `AdmissionsLimited` needs.
- `CapsInv`: the spend of a cap grows by an insertion only, made under the locks
  of all its caps, each of which had room for the estimate when its lock was
  taken, and no one else could insert below it since.

`CountersAgree` counts instead of adding: a unit of a counter is a pair of a period and
a number, a charged label a pair of a review and a number (`Units`), and the two
sets have one size.

`CrashesBound` counts too. `Answered` has an element for each image of a job
beyond its first, and for the first one of a job that lost the worker that made it
and will be made again. Only a crash between storing an image and completing its
job adds to this set; an image for a stray job changes what it answers for, and not how much.

What `PaymentEvents` owes. `Reconciled` speaks of states with no event pending.
The invariant under it is about all states: where records, payments or redemptions
differ from the provider, an event that will mend the difference is pending
(`EventsInv`). A delivery may drop an event only when what it writes is what the
event was for. It may write an old snapshot, when the provider changed
since; then the event of that change is pending. An event is removed by the same commit that
writes what it says, so no crash separates the two. `PlanFollows` needs that one
session at most is in the way of another purchase (`OneInTheWay`, from
`PurchaseInv`), so that the plan is either still that of the one recorded as
current or is given to it by the handler that records it.

Assumptions: each module's named `ASSUME` (distinct values for NULL, natural
bounds). Where a set is counted it is finite: calls, jobs, attempts, keys and reviews.
Some theorems have more, each because the code does not keep the property without it:

- `OneMaker`, `EndedRowsStay` and `CrashesBound` are under `~KeepersFail`
  (section 7). `TurnsAreTaken` needs no such thing.
- `BalanceHolds` is for operators who enter debits (`AdminDeltas \subseteq Nat`): a
  credit is cut at zero. `AdmissionsLimited` is for any.
- `CapsHold` is for calls that cost no more than their estimate (`Costs`), and for
  behaviours in which no reconciliation books more than the caps had counted
  (`NoneRaised`): `reserve` limits admission, not what a call turns out to cost.
- `AssignmentFollows` itself excepts sessions that were missed (`missed`) and two older
  sessions of one company (`OneOlder`), each of which is a second subscription. The
  run has one older session; the second exception was found by the proof and
  confirmed by TLC with two.

The type invariants of `ConnectorSync`, `CollectionDelivery`, `ImageJobs`,
`UsageAllowances` and `TenantCache` are proved and not part of a run.

Every safety property that a passing run checks is proved. Only model-checked
is liveness: `OrphanReleased`, `DueIsAttempted`, `RequestedIsSettled`,
`ReservationsEnd`, `JobsEnd`, `RequestsEnd` (fairness and ENABLED are outside the
prover). `ReachedFailureCharged` is refuted by its run (section 7).

## 7. Divergences

### Shown by a run

`credits_failure` violates `ReachedFailureCharged`. `credits.py` says that "a
call that reached the provider and failed is still charged when that provider
bills failures", and `settle` does so if the handle says the provider was
reached. Only the data providers' clients call `call.sent()`. The AI clients
(`ai/rag/llm_client.py:897` in `_metered_post`, `ai/marketing/image_generation.py:1105`)
do not, so a request that left the server and timed out is released. A process
that dies at the same point is charged by the upkeep pass.

### Seen while modelling, stated as named exceptions or in `hazards`

- `market_scraper/connector_sync.py:233` says "Every due source gets a real
  attempt". Four things keep a source from it, the exceptions of
  `DueIsAttempted`. `OfEndedPeriod`: a receipt that waits when its billing period
  ends is active, so later intents are conflicts, and nothing settles it.
  `JobFailed`: a worker that dies between failing its job for changed settings and
  settling its receipt leaves a retryable receipt with a FAILED job, which
  `attach_ingestion_job` refuses in every later pass; so does the maintenance
  process that fails the job of a receipt that waits. `broken`: settings that lack
  a required key are refused at every load. `EditedForEver`: each sync finds
  other settings than it loaded.
- `recover_stale_market_jobs` (migration `20260829030000`, lines 83-90) takes a
  PROCESSING job whose heartbeat is old for that of a dead worker. A sync that
  lasts longer than the limit is alive, finds its job FAILED when it closes it,
  leaves it so, does not move `last_synced_at` and completes its receipt. It takes
  a source registered with a collection method
  (`policy_cli register-source --collector db_connector`), which `JobsAgree` names.
- `connector_sync.py:149-151` says that a failed sync is retried on the next due
  cycle. When its provider had started, its receipt is parked in
  `reconciliation_required` and no code takes it from there.
- `worker.py:117` describes dispatch as recovering entries whose signal was
  lost. A receipt already marked queued is not dispatched again, so if its
  signal is lost, or dead-lettered because `MAX_ATTEMPTS` runs failed before any
  claim (`worker.py:73-85`), it waits for ever (`SignalGone`).
- `docs/SUBSCRIPTIONS_AND_CREDITS.md` (about line 446) says "Money columns
  never change after settlement". `reconcile` rewrites `actual_cost` of a
  pending row; the credits stay.
- The docstring at `credits.py:754-758` has the balance move by the same
  differences as the adjustment; `reconcile` and `adjust_credits` floor it at zero with `GREATEST(0, ...)`.
  `credits_safe` is stated without operator credits that would cut it.
- `tenant_credit_balances.consumed_cost_usd` is `NUMERIC(16,6)`, the costs of
  `usage_ledger` and of the adjustments are `NUMERIC(16,8)` (migration
  `20261020000000`, lines 177, 206-207, 231), and prices per token have more digits
  than either. Each `UPDATE` of the balance rounds what it adds, so the balance's
  cost drifts from the ledger by up to half of its last digit at every
  settlement, expiry and reconciliation; no code brings the two together.
  `BalanceIsLedger` allows for that drift, and admission reads only the
  credits, which have one scale.
- `image_worker.py:11` says each job is claimed by one worker. `_keep_alive`
  (`image_worker.py:60`) ends at its first database error; then the job goes
  stale under a live worker and is claimed again. `image_jobs.py:14-16` bounds
  a company's queue; `retry_failed` does not count. The claim function's comment
  (migration `20261030000000`, lines 95-97) puts a company with nothing running
  before another one's second image; the rank also counts older rows that wait
  for their backoff, so a company that has such rows can come later.
  `CompaniesTakeTurns` is stated for a company whose oldest waiting job is due.
  Claims that overlap keep the turns less: each ranks on its own snapshot, in which
  the other's row still waits, and then skips it as locked (line 104). The rows of
  a batch have one `created_at`, hence one rank, so two workers that claim at
  once may take two images of one company before another's older due one.
  `docs/ZERO_COST_IMAGE_GENERATION.md:30` calls the claim fair without that exception.
- Billing. `_check_legacy_provider_contracts` (`billing/service.py:110-128`) lists
  subscriptions and then open Checkouts. An older session that is paid in
  between is in neither list: the company buys a second subscription, and its
  plan stays with the first until an event of the other arrives (`missed`; the
  properties except such sessions). A promotion code that turns out ineligible
  after the attempt was reserved (`service.py:170`, `210-216`) leaves a preparing
  attempt: another selection is answered `checkout_pending`, a cancel is refused,
  and after 23 hours it reconciles for ever. The same holds for a death between
  the two commits of an older session's adoption (lines 126-127).
  `billing/store.py:433-434` says that a subscription that ended replaces the plan
  only if it was the one in force; of two that have ended, the later event wins.
- Usage. `sentiment/pipeline.py:131` says that a review is not charged twice. A
  review labelled by its stars while another batch, which read it as new, waits
  for the counter's row is overwritten by that batch's model and charged again
  (`overtaken`). A reader who leaves in mid-stream raises `GeneratorExit`, which
  the handlers of `Exception` do not see: the report stays counted. So does a
  failed original whose key was replayed, even if the replay fails too.
- Cache. `_forget_cached_views_after_writes` (`ai/main.py:184-186`) says that a
  write drops the views "successful or not". A request that ends in an unhandled
  exception leaves `call_next` by that exception and bumps nothing; what it had
  committed is seen within the TTL, as for `CommitOutside`. A counter that Redis
  loses or lets expire starts again at a generation that entries younger than
  the TTL may carry; that is not in the model.

## 8. Not modelled

Inside the modelled components:

- Receipts: the text of errors, the audit events, the read-only listings. Row
  level security is taken as given: a module is one tenant.
- Connectors: the verified stores (Shopify, WooCommerce) of
  `provider_store_sync.py`, whose failed jobs are reopened; the mapping of rows;
  credentials.
- Delivery: the cost-margin gate and the crawl; the consumer group's creation;
  the receipts of competitor enrichment.
- Credits: what a cost has beyond the ledger's eight decimals (the code adds it to
  the balance before it is rounded; `Slack` has half of the ledger's last
  digit per booking for it, the caps have not); prices, exchange rates, cost categories, the alert at a share of the
  limit, the middle of a statement. The provider's month spend is the sum over
  the ledger. One period.
- Images: rendering, object storage beyond "the image is stored", campaigns
  beyond one per company.

- Billing: custom quotes, trials, scheduled plan changes, the customer's
  identity, per-company promotion limits, dates and refunds; what the return
  page records.
- Usage: the token estimates of assistant, campaigns and competitor analysis,
  features counted live from rows, the plan's lookup.
- Cache: a time to live of 0 (the cache is off), the order in which too many
  entries go, a Redis that loses its counter.

The other components are listed in `PROJECT.json` with a reason. Most of the
repository's lines are of their kind: prompts and texts, rendering, scoring,
crawling, views. Their state is one request's or one table row's, and a model of
them would repeat the code.

## 9. Plan

Order by what the system loses if it goes wrong.

1. `OperationReceipts`, `ProviderEffects`, the refinement and proofs. Done.
2. `ConnectorSync`, `CollectionDelivery`, `CreditAccounting`, `ImageJobs`, with
   proofs. Done.
3. `PaymentEvents` over `CheckoutAttempts` and the promotions' redemptions, with
   proofs. Done.
4. `UsageAllowances`: report requests with keys, and sentiment batches. Done.
5. `TenantCache`, with proofs. Done.
6. `EnrichmentDelivery`: the second stream, as a variation of
   `CollectionDelivery` with markers and without dead letters.
7. `StoreStreams` (`provider_store_sync.py`): checkpoints, replayed batches,
   reopened jobs, composed with the replayable receipts of `OperationReceipts`.
8. Small modules where they earn it: storage ledger, authentication throttle
   (`core/auth_throttle.py:80`: an increment without its expiry), offload
   breaker, notification digest.

Hazards those modules would be for, beside the ones in `PROJECT.json`:
`ai/notification_digest.py:209` (death after the claim and
before the mail), `ai/core/storage_ledger.py:87` (object removed, row kept),
`market_scraper/enrichment_worker.py:113` (one company's failure ends the
dispatch pass), `:192` (a message whose execution fails stays pending),
`enrichment_queue.py:40` (a marker that names an older receipt),
`offload/client.py:47` (no half-open breaker), `offload/processor.py:141` (a result
evicted between submission and poll), `provider_store_sync.py:122` (death between
a batch and its checkpoint).

Theorems that are left: none about a safety property of a run. Worth proving
next are facts that no run states: that `ConnectorSync`, whose sources have one
receipt after another, uses each as `ProviderEffects` allows, and the components' own abstract specifications (a queue
whose jobs are made once for each keeper; a read model that never goes back).

## 10. Running it

In this directory:

```
tlasany OperationReceipts.tla
tlc -workers 2 -config MCReceiptsPlain.cfg MCReceipts.tla
tlapm OperationReceiptsProofs.tla
```

`PROJECT.json` names the module and the configuration of each run. The longest
(`connector_safe`, `credits_safe`) take about three minutes with two workers,
`cache`, `billing` and `delivery` about two, the others one or less; the proofs take
about a quarter of an hour from nothing.
