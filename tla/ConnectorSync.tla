---------------------------- MODULE ConnectorSync ----------------------------
(***************************************************************************)
(* The scheduled syncs of a tenant's database and API connectors:          *)
(* run_due_connector_syncs and sync_db_connector_source of src/backend/    *)
(* src/market_scraper/connector_sync.py, with the ingestion jobs of        *)
(* data_access.py and the receipts of operation_receipts.py.               *)
(*                                                                         *)
(* The module is about what a sync leaves behind in three tables, receipts,*)
(* jobs and sources, when it fails at any of its transactions, and whether *)
(* the source is tried again.  A source has one slot for its active        *)
(* receipt, which is what OneActiveReceipt of OperationReceipts gives, and *)
(* a worker's lease is its name in the slot: each claim writes a fresh     *)
(* worker_id.  A lease ends when time passes it, at any moment.            *)
(***************************************************************************)
EXTENDS Naturals

CONSTANTS
  Sources, Workers,
  Collected,   \* the sources registered with a collection_method
  Configs,     \* fingerprints of a connector's settings and credentials
  NoOne,       \* NULL
  MaxPeriod,   \* bound: billing periods that begin
  MaxCrashes,  \* bound: worker processes that die
  Prompt       \* does a lease outlive the statements around the provider

ASSUME ConnectorAssumption ==
  /\ NoOne \notin Workers \cup Configs \cup Sources
  /\ Collected \subseteq Sources
  /\ MaxPeriod \in Nat
  /\ MaxCrashes \in Nat
  /\ Prompt \in BOOLEAN

VARIABLES
  slot,     \* the active receipt of each source and the job it is bound to
  last,     \* the receipt settled last and its job
  stray,    \* has a job been committed that no receipt is bound to
  synced,   \* last_synced_at is younger than the sync interval
  approved, \* is the source active and ALLOWED
  entitled, \* are the service principal and the plan active
  broken,   \* the settings lack a required key
  config, period,
  crashes,  \* how many workers have died
  workers   \* where each worker is: step, source, loaded settings, verdict

vars == <<slot, last, stray, synced, approved, entitled, broken, config, period, crashes, workers>>
surroundings == <<approved, entitled, broken, config, period, crashes>>

\* STALE is FAILED with the error_log of the maintenance worker.
JobStates == {"none", "PROCESSING", "COMPLETED", "FAILED", "STALE"}
Terminal  == {"completed", "failed", "denied"}
Leased    == {"authorized", "provider_started"}
Verdicts  == Terminal \cup {"retryable", "reconciliation_required"}
Results   == {"full", "partial", "error"}
Steps     == {"idle", "listed", "intended", "claimed", "loaded", "ready", "started", "closing",
              "changed", "finishing"}

Slot ==
  [state : {"none", "dispatch_pending", "retryable", "reconciliation_required"} \cup Leased,
   owner : Workers \cup {NoOne}, live : BOOLEAN, period : 0..MaxPeriod, job : JobStates,
   known : SUBSET Workers]  \* the workers that were handed this receipt's id

Empty == [state |-> "none", owner |-> NoOne, live |-> FALSE, period |-> 0, job |-> "none",
          known |-> {}]

Worker ==
  [at : Steps, of : Sources \cup {NoOne}, cfg : Configs \cup {NoOne},
   result : Results, verdict : Verdicts,
   inserted : BOOLEAN]  \* its transaction holds a job that was not attached

Resting == [at |-> "idle", of |-> NoOne, cfg |-> NoOne, result |-> "error",
            verdict |-> "retryable", inserted |-> FALSE]

TypeOK ==
  /\ slot \in [Sources -> Slot]
  /\ last \in [Sources -> [state : Terminal \cup {"none"}, job : JobStates]]
  /\ stray \in [Sources -> BOOLEAN]
  /\ synced \in [Sources -> BOOLEAN]
  /\ approved \in [Sources -> BOOLEAN]
  /\ entitled \in BOOLEAN
  /\ broken \in [Sources -> BOOLEAN]
  /\ config \in [Sources -> Configs]
  /\ period \in 0..MaxPeriod
  /\ crashes \in 0..MaxCrashes
  /\ workers \in [Workers -> Worker]

Init ==
  /\ slot = [s \in Sources |-> Empty]
  /\ last = [s \in Sources |-> [state |-> "none", job |-> "none"]]
  /\ stray = [s \in Sources |-> FALSE]
  /\ synced = [s \in Sources |-> FALSE]
  /\ approved = [s \in Sources |-> TRUE]
  /\ entitled = TRUE
  /\ broken \in [Sources -> BOOLEAN]
  /\ config \in [Sources -> Configs]
  /\ period = 0
  /\ crashes = 0
  /\ workers = [w \in Workers |-> Resting]

-----------------------------------------------------------------------------
(* load_due_db_connector_sources() and the receipt's intent and claim.      *)

Due(s) == approved[s] /\ ~synced[s]

Go(w, step)   == workers' = [workers EXCEPT ![w].at = step]
Judge(w, v)   == workers' = [workers EXCEPT ![w].at = "finishing", ![w].verdict = v]
Rest(w)       == workers' = [workers EXCEPT ![w] = Resting]
At(w, step)   == workers[w].at = step
SourceOf(w)   == workers[w].of
SetSlot(s, x) == slot' = [slot EXCEPT ![s] = x]
Settle(s, v)  == /\ SetSlot(s, Empty)
                 /\ last' = [last EXCEPT ![s] = [state |-> v, job |-> slot[s].job]]

\* Does w hold the source's receipt: worker_id, generation and a leased state.
Holds(w, s) == slot[s].owner = w /\ slot[s].state \in Leased

Authorized(s) == approved[s] /\ entitled /\ slot[s].period = period

StartSync(w, s) ==
  /\ At(w, "idle") /\ Due(s)
  /\ workers' = [workers EXCEPT ![w] = [Resting EXCEPT !.at = "listed", !.of = s]]
  /\ UNCHANGED <<slot, last, stray, synced, surroundings>>

\* An active receipt of another period is a ReceiptConflict.
Conflicting(s) == slot[s].state # "none" /\ slot[s].period # period

Intend(w) ==
  LET s == SourceOf(w) IN
  /\ At(w, "listed")
  /\ approved[s] /\ entitled /\ ~Conflicting(s)
  /\ SetSlot(s, IF slot[s].state = "none"
       THEN [Empty EXCEPT !.state = "dispatch_pending", !.period = period, !.known = {w}]
       ELSE [slot[s] EXCEPT !.known = @ \cup {w}])
  /\ Go(w, "intended")
  /\ UNCHANGED <<last, stray, synced, surroundings>>

IntendRefused(w) ==
  LET s == SourceOf(w) IN
  /\ At(w, "listed")
  /\ ~approved[s] \/ ~entitled \/ Conflicting(s)
  /\ Rest(w)
  /\ UNCHANGED <<slot, last, stray, synced, surroundings>>

\* Settled, parked, or under a live lease.
Unclaimable(w, s) ==
  \/ w \notin slot[s].known
  \/ slot[s].state = "reconciliation_required"
  \/ slot[s].owner # NoOne /\ slot[s].live

ClaimRefused(w) ==
  LET s == SourceOf(w) IN
  /\ At(w, "intended") /\ Unclaimable(w, s)
  /\ Rest(w)
  /\ UNCHANGED <<slot, last, stray, synced, surroundings>>

\* A started provider may have received the operation.
ClaimUncertain(w) ==
  LET s == SourceOf(w) IN
  /\ At(w, "intended") /\ ~Unclaimable(w, s)
  /\ slot[s].state = "provider_started"
  /\ SetSlot(s, [slot[s] EXCEPT !.state = "reconciliation_required",
                                !.owner = NoOne, !.live = FALSE])
  /\ Rest(w)
  /\ UNCHANGED <<last, stray, synced, surroundings>>

ClaimDenied(w) ==
  LET s == SourceOf(w) IN
  /\ At(w, "intended") /\ ~Unclaimable(w, s)
  /\ slot[s].state # "provider_started" /\ ~Authorized(s)
  /\ Settle(s, "denied")
  /\ Rest(w)
  /\ UNCHANGED <<stray, synced, surroundings>>

ClaimGranted(w) ==
  LET s == SourceOf(w) IN
  /\ At(w, "intended") /\ ~Unclaimable(w, s)
  /\ slot[s].state # "provider_started" /\ Authorized(s)
  /\ SetSlot(s, [slot[s] EXCEPT !.state = "authorized", !.owner = w, !.live = TRUE])
  /\ Go(w, "claimed")
  /\ UNCHANGED <<last, stray, synced, surroundings>>

-----------------------------------------------------------------------------
(* sync_db_connector_source() and sync_api_connector_source().              *)

\* load_source() refuses a source that is no longer active and ALLOWED.
Load(w) ==
  LET s == SourceOf(w) IN
  /\ At(w, "claimed")
  /\ IF approved[s] /\ ~broken[s]
       THEN workers' = [workers EXCEPT ![w].at = "loaded", ![w].cfg = config[s]]
       ELSE Judge(w, "retryable")
  /\ UNCHANGED <<slot, last, stray, synced, surroundings>>

\* create_or_reuse_receipt_ingestion_job(): a processing job is taken again.
\* One that has failed is not: a job is inserted, attaching it is refused, and
\* the finish that follows commits the insertion.
PrepareJob(w) ==
  LET s == SourceOf(w) IN
  /\ At(w, "loaded")
  /\ \/ /\ Holds(w, s) /\ slot[s].job = "PROCESSING"
        /\ Go(w, "ready") /\ UNCHANGED slot
     \/ /\ Holds(w, s) /\ slot[s].job = "none" /\ approved[s]
        /\ SetSlot(s, [slot[s] EXCEPT !.job = "PROCESSING"])
        /\ Go(w, "ready")
     \/ /\ Holds(w, s) /\ slot[s].job = "none" => ~approved[s]
        /\ Holds(w, s) => slot[s].job # "PROCESSING"
        /\ workers' = [workers EXCEPT ![w].at = "finishing", ![w].verdict = "retryable",
                                      ![w].inserted = approved[s]]
        /\ UNCHANGED slot
  /\ UNCHANGED <<last, stray, synced, surroundings>>

\* The row is w's and its lease lives.
Leases(w, s) == Holds(w, s) /\ slot[s].live

\* The source is not readable any more, or not as it was loaded.
SourceChanged(w, s) == ~approved[s] \/ workers[w].cfg # config[s]

\* Mutant: a fence that forgets the lease.
FencedWithoutLease(w, s) == ~SourceChanged(w, s) /\ Authorized(s)

\* assert_fence(), the settings before the authorization.
Fenced(w, s) == Leases(w, s) /\ ~SourceChanged(w, s) /\ Authorized(s)

\* begin_provider(); what follows its commit reaches the client's system.
Begin(w) ==
  LET s == SourceOf(w) IN
  /\ At(w, "ready")
  /\ Leases(w, s) /\ ~SourceChanged(w, s)
  /\ SetSlot(s, [slot[s] EXCEPT !.state = "provider_started"])
  /\ Go(w, "started")
  /\ UNCHANGED <<last, stray, synced, surroundings>>

\* A lost lease is reported before the settings are compared.
BeginRefused(w) ==
  LET s == SourceOf(w) IN
  /\ At(w, "ready")
  /\ \/ ~Leases(w, s) /\ Judge(w, "retryable")
     \/ Leases(w, s) /\ SourceChanged(w, s) /\ Go(w, "changed")
  /\ UNCHANGED <<slot, last, stray, synced, surroundings>>

\* The client's system answers and every batch of process_records() commits,
\* or it does not answer.
Run(w, result) ==
  /\ At(w, "started")
  /\ workers' = [workers EXCEPT ![w].at = "closing", ![w].result = result]
  /\ UNCHANGED <<slot, last, stray, synced, surroundings>>

\* A batch's fence finds other settings, or process_records() raises.
RunAborts(w) ==
  LET s == SourceOf(w) IN
  /\ At(w, "started")
  /\ \/ Leases(w, s) /\ SourceChanged(w, s) /\ Go(w, "changed")
     \/ Judge(w, "reconciliation_required")
  /\ UNCHANGED <<slot, last, stray, synced, surroundings>>

\* Mutant: a sync with failed rows ends as a full one.
VerdictOfPartialAsFull(result) ==
  IF result = "error" THEN "reconciliation_required" ELSE "completed"

VerdictOf(result) ==
  CASE result = "full"    -> "completed"
    [] result = "partial" -> "failed"
    [] result = "error"   -> "reconciliation_required"

\* finish_ingestion_job(): the fence, the job, the source, in one transaction.
CloseJob(w) ==
  LET s   == SourceOf(w)
      end == IF workers[w].result = "full" THEN "COMPLETED" ELSE "FAILED"
      job == IF slot[s].job = "PROCESSING" THEN end ELSE slot[s].job
  IN
  /\ At(w, "closing") /\ Fenced(w, s)
  /\ SetSlot(s, [slot[s] EXCEPT !.job = job])
  /\ synced' = [synced EXCEPT ![s] = @ \/ job = "COMPLETED"]
  /\ Judge(w, VerdictOf(workers[w].result))
  /\ UNCHANGED <<last, stray, surroundings>>

\* Nothing but run_due's handler catches a fence error of this commit.
CloseFenced(w) ==
  LET s == SourceOf(w) IN
  /\ At(w, "closing") /\ ~Fenced(w, s)
  /\ Judge(w, IF Leases(w, s) /\ SourceChanged(w, s) THEN "failed"
              ELSE "reconciliation_required")
  /\ UNCHANGED <<slot, last, stray, synced, surroundings>>

\* Mutant: a changed source's receipt is kept for a retry like other failures.
FailChangedForRetry(w) ==
  LET s == SourceOf(w) IN
  /\ At(w, "changed")
  /\ SetSlot(s, IF Leases(w, s) /\ slot[s].job = "PROCESSING"
                  THEN [slot[s] EXCEPT !.job = "FAILED"] ELSE slot[s])
  /\ Judge(w, "retryable")
  /\ UNCHANGED <<last, stray, synced, surroundings>>

\* fail_source_changed_ingestion_job(), only under the live lease.
FailChanged(w) ==
  LET s == SourceOf(w) IN
  /\ At(w, "changed")
  /\ IF Leases(w, s) /\ slot[s].job = "PROCESSING"
       THEN SetSlot(s, [slot[s] EXCEPT !.job = "FAILED"])
       ELSE UNCHANGED slot
  /\ Judge(w, "failed")
  /\ UNCHANGED <<last, stray, synced, surroundings>>

\* finish(); "completed" is authorized once more.
Finish(w) ==
  LET s == SourceOf(w)  v == workers[w].verdict IN
  /\ At(w, "finishing") /\ Holds(w, s)
  /\ v = "completed" => Authorized(s)
  /\ IF v \in Terminal THEN Settle(s, v)
     ELSE /\ SetSlot(s, [slot[s] EXCEPT !.state = v, !.owner = NoOne, !.live = FALSE])
          /\ UNCHANGED last
  /\ stray' = [stray EXCEPT ![s] = @ \/ workers[w].inserted]
  /\ Rest(w)
  /\ UNCHANGED <<synced, surroundings>>

\* A refused completion is parked by the handler; a fenced one is given up.
FinishRefused(w) ==
  LET s == SourceOf(w) IN
  /\ At(w, "finishing")
  /\ IF Holds(w, s)
       THEN /\ workers[w].verdict = "completed" /\ ~Authorized(s)
            /\ Judge(w, "reconciliation_required")
       ELSE Rest(w)
  /\ UNCHANGED <<slot, last, stray, synced, surroundings>>

-----------------------------------------------------------------------------
(* Recovery and the surroundings.                                           *)

\* Mutant: a sync that had reached the client's system is tried again.
RecoverForRetry(s) ==
  /\ slot[s].owner # NoOne /\ ~slot[s].live
  /\ SetSlot(s, [slot[s] EXCEPT !.owner = NoOne, !.state = "retryable"])
  /\ UNCHANGED <<last, stray, synced, surroundings, workers>>

\* recover_expired(); a claim that has not started the provider is retried.
Recover(s) ==
  /\ slot[s].owner # NoOne /\ ~slot[s].live
  /\ SetSlot(s, [slot[s] EXCEPT !.owner = NoOne,
       !.state = IF @ = "provider_started" THEN "reconciliation_required" ELSE "retryable"])
  /\ UNCHANGED <<last, stray, synced, surroundings, workers>>

\* recover_stale_market_jobs(), which the maintenance process calls for ever: a
\* sync writes its job's heartbeat when it creates the job and when it ends it,
\* so a job of a long sync, or of a receipt that waits, grows stale.
FailStaleJob(s) ==
  /\ s \in Collected
  /\ \/ /\ slot[s].job = "PROCESSING" /\ UNCHANGED last
        /\ SetSlot(s, [slot[s] EXCEPT !.job = "STALE"])
     \/ /\ last[s].job = "PROCESSING" /\ UNCHANGED slot
        /\ last' = [last EXCEPT ![s].job = "STALE"]
  /\ UNCHANGED <<stray, synced, surroundings, workers>>

\* Time passes the lease of a claim; when the statements are prompt, only while
\* the client's system answers or after the worker has died.
LeaseEnds(s) ==
  /\ slot[s].live
  /\ Prompt => workers[slot[s].owner].at \in {"idle", "listed", "intended", "started"}
  /\ SetSlot(s, [slot[s] EXCEPT !.live = FALSE])
  /\ UNCHANGED <<last, stray, synced, surroundings, workers>>

Crash(w) ==
  /\ crashes < MaxCrashes /\ ~At(w, "idle")
  /\ crashes' = crashes + 1
  /\ Rest(w)
  /\ UNCHANGED <<slot, last, stray, synced, approved, entitled, broken, config, period>>

\* The sync interval passes.
BecomeDue(s) ==
  /\ synced[s]
  /\ synced' = [synced EXCEPT ![s] = FALSE]
  /\ UNCHANGED <<slot, last, stray, surroundings, workers>>

SetApproved(s) ==
  /\ approved' = [approved EXCEPT ![s] = ~@]
  /\ UNCHANGED <<slot, last, stray, synced, entitled, broken, config, period, crashes, workers>>

SetEntitled ==
  /\ entitled' = ~entitled
  /\ UNCHANGED <<slot, last, stray, synced, approved, broken, config, period, crashes, workers>>

\* The tenant saves other settings or credentials, complete or not.
ChangeConfig(s) ==
  /\ \E c \in Configs : config' = [config EXCEPT ![s] = c]
  /\ \E b \in BOOLEAN : broken' = [broken EXCEPT ![s] = b]
  /\ UNCHANGED <<slot, last, stray, synced, approved, entitled, period, crashes, workers>>

RollPeriod ==
  /\ period < MaxPeriod
  /\ period' = period + 1
  /\ UNCHANGED <<slot, last, stray, synced, approved, entitled, broken, config, crashes,
                 workers>>

WorkerStep(w) ==
  \/ Intend(w) \/ IntendRefused(w)
  \/ ClaimRefused(w) \/ ClaimUncertain(w) \/ ClaimDenied(w) \/ ClaimGranted(w)
  \/ Load(w) \/ PrepareJob(w) \/ Begin(w) \/ BeginRefused(w) \/ RunAborts(w)
  \/ CloseJob(w) \/ CloseFenced(w) \/ FailChanged(w) \/ Finish(w) \/ FinishRefused(w)
  \/ \E result \in Results : Run(w, result)

Environment ==
  \/ RollPeriod \/ SetEntitled
  \/ \E s \in Sources : LeaseEnds(s) \/ BecomeDue(s) \/ SetApproved(s) \/ ChangeConfig(s)

Next ==
  \/ \E w \in Workers : WorkerStep(w) \/ Crash(w) \/ \E s \in Sources : StartSync(w, s)
  \/ \E s \in Sources : Recover(s) \/ FailStaleJob(s)
  \/ Environment

Spec == Init /\ [][Next]_vars

\* The worker loops over every due source for ever and its statements return,
\* the clock passes every lease, and recovery runs in every pass.  Nothing that a
\* tenant does, and no pass of the maintenance process, is fair.
Fairness ==
  /\ \A w \in Workers :
       /\ WF_vars(WorkerStep(w))
       /\ \A s \in Sources : SF_vars(StartSync(w, s))
  /\ \A s \in Sources : WF_vars(Recover(s)) /\ WF_vars(LeaseEnds(s))

FairSpec == Spec /\ Fairness

-----------------------------------------------------------------------------
(* Properties.                                                             *)

\* The three tables agree on what was done, whatever dies or is late between
\* finish_ingestion_job() and finish(): a receipt that may still run has no
\* completed job, and a completed receipt has one, unless the maintenance worker
\* took the job of a long sync for abandoned while the sync was still at work.
JobsAgree ==
  \A s \in Sources :
    /\ last[s].state = "completed" =>
         \/ last[s].job = "COMPLETED"
         \/ s \in Collected /\ last[s].job = "STALE"
    /\ slot[s].state \in {"dispatch_pending", "retryable", "authorized"}
         => slot[s].job # "COMPLETED"

\* A source counts as synced only by the worker that holds its receipt and has
\* just completed its job: an old worker cannot make a source look fresh.
SyncStep(s) ==
  ~synced[s] /\ synced'[s] =>
    /\ slot[s].state = "provider_started" /\ slot[s].live
    /\ slot'[s].job = "COMPLETED"
SyncedByHolder == [][\A s \in Sources : SyncStep(s)]_vars

\* Two workers never read the system behind a source at once, whatever leases
\* end while it answers (sync_db_connector_source() reads it outside of any
\* transaction): from the commit of begin_provider() to finish_ingestion_job().
Reading(w) == workers[w].at \in {"started", "closing"}
OneReader ==
  \A v, w \in Workers : Reading(v) /\ Reading(w) /\ SourceOf(v) = SourceOf(w) => v = w

\* "Every due source gets a real attempt": through revocations, provider errors,
\* a crash and the end of a billing period a due source is tried against the
\* client's system, or an earlier attempt of it waits for reconciliation.  What
\* else may hold a source back for ever is named here: a receipt of an ended
\* period, which every later intent conflicts with; a job that no claim reuses or
\* replaces, failed by a worker that died before it settled the receipt or by
\* the maintenance worker; settings that lack a key; settings edited for ever.
Attempted(s) == slot[s].state \in {"provider_started", "reconciliation_required"}
Waiting(s) == slot[s].state \in {"dispatch_pending", "retryable"}
OfEndedPeriod(s) == Waiting(s) /\ slot[s].period # period
JobFailed(s) ==
  /\ Waiting(s)
  /\ slot[s].job = "STALE" \/ (slot[s].job = "FAILED" /\ crashes > 0)
HeldBack(s) == OfEndedPeriod(s) \/ JobFailed(s) \/ broken[s]
EditedForEver(s) == []<><<config'[s] # config[s]>>_vars
DueIsAttempted ==
  \A s \in Sources :
    \/ (Due(s) /\ entitled) ~> (Attempted(s) \/ HeldBack(s) \/ ~Due(s) \/ ~entitled)
    \/ EditedForEver(s)
=============================================================================
