------------------------------ MODULE ImageJobs ------------------------------
(***************************************************************************)
(* The background image queue (ai/marketing/image_jobs.py, the worker of   *)
(* image_worker.py, the claim function of migration 20261030000000).       *)
(*                                                                         *)
(* Users of a company queue batches of jobs, cancel the waiting ones and   *)
(* retry the failed ones.  Workers claim the job whose company has waited  *)
(* longest for a turn, make and store its image, and mark the row; a       *)
(* keeper thread keeps the job's heartbeat fresh meanwhile.  A RUNNING job *)
(* without heartbeat is claimed again.  Neither complete() nor fail()      *)
(* asks whether the row is still the worker's.                             *)
(*                                                                         *)
(* A claim ranks the jobs on the snapshot its statement began with, locks  *)
(* the first row that no other claim has locked, and commits: each of the  *)
(* three is a step, and claims of several workers overlap.                 *)
(*                                                                         *)
(* A company is taken to have one campaign.  Heartbeats, backoff and       *)
(* creation times are modelled by whether they have passed and in what     *)
(* order; the rows of a batch have one creation time.  worker_id and       *)
(* heartbeat_at, which only a RUNNING row is asked for, are kept for those. *)
(***************************************************************************)
EXTENDS Naturals, FiniteSets

CONSTANTS
    Jobs,         \* rows of image_generation_jobs, before and after insertion
    Tenants,      \* companies
    OwnerOf,      \* [Jobs -> Tenants]
    Users,        \* requests that may run at once
    TenantOf,     \* [Users -> Tenants]
    Workers,      \* worker threads
    MaxAttempts,  \* max_attempts of every row
    QueueMax,     \* QUEUE_MAX_PER_COMPANY
    KeepersFail,  \* may a keeper thread end at a database error?
    MaxCrashes,   \* bound on workers that leave a job unfinished
    MaxFaults,    \* bound on busy servers, users' retries and lost claims
    MaxImages,    \* bound on images counted for one job
    Nobody        \* no worker, no job

ASSUME ImagesAssumption ==
    /\ IsFiniteSet(Jobs)
    /\ OwnerOf \in [Jobs -> Tenants] /\ TenantOf \in [Users -> Tenants]
    /\ MaxAttempts \in Nat \ {0} /\ QueueMax \in Nat
    /\ KeepersFail \in BOOLEAN
    /\ MaxCrashes \in Nat /\ MaxFaults \in Nat /\ MaxImages \in Nat
    /\ Nobody \notin Workers \cup Jobs

VARIABLES
    job,      \* image_generation_jobs
    request,  \* the batch each user's open transaction is about to insert
    claim,    \* each worker's open claim: the snapshot it ranks, the row it has locked
    worker,   \* what each worker thread does: its step, its job, its keeper
    images,   \* campaign_image_assets made for each job
    clock,    \* creation times given so far
    crashes, faults   \* how often the bounded faults happened

vars == <<job, request, claim, worker, images, clock, crashes, faults>>

Unfinished == {"QUEUED", "RUNNING"}
Ended == {"COMPLETED", "FAILED", "CANCELLED"}
Absent == [status |-> "absent", attempts |-> 0, worker |-> Nobody, fresh |-> FALSE,
           due |-> FALSE, created |-> 0]
Idle == [at |-> "idle", job |-> Nobody, keeper |-> FALSE]
NoClaim == [seen |-> [j \in Jobs |-> Absent], row |-> Nobody]
Rows == [status : {"absent"} \cup Unfinished \cup Ended, attempts : Nat,
         worker : Workers \cup {Nobody}, fresh : BOOLEAN, due : BOOLEAN, created : Nat]

TypeOK ==
    /\ job \in [Jobs -> Rows]
    /\ request \in [Users -> SUBSET Jobs]
    /\ claim \in [Workers -> [seen : [Jobs -> Rows], row : Jobs \cup {Nobody}]]
    /\ worker \in [Workers -> [at : {"idle", "reading", "making", "stored"},
                               job : Jobs \cup {Nobody}, keeper : BOOLEAN]]
    /\ \A w \in Workers : worker[w].at = "idle" <=> worker[w].job = Nobody
    /\ images \in [Jobs -> 0 .. MaxImages]
    /\ clock \in Nat /\ crashes \in 0 .. MaxCrashes /\ faults \in 0 .. MaxFaults

Init ==
    /\ job = [j \in Jobs |-> Absent]
    /\ request = [u \in Users |-> {}]
    /\ claim = [w \in Workers |-> NoClaim]
    /\ worker = [w \in Workers |-> Idle]
    /\ images = [j \in Jobs |-> 0]
    /\ clock = 0 /\ crashes = 0 /\ faults = 0

-----------------------------------------------------------------------------
(* The company's requests *)

\* pending_count()
Pending(t) == {j \in Jobs : OwnerOf[j] = t /\ job[j].status \in Unfinished}

\* enqueue_batch() counts and, in the same transaction, inserts; nothing is
\* locked in between.  A batch over the limit is refused and changes nothing.
Ask(u, batch) ==
    /\ request[u] = {} /\ batch # {}
    /\ \A j \in batch : job[j].status = "absent" /\ OwnerOf[j] = TenantOf[u]
    /\ \A v \in Users : request[v] \cap batch = {}
    /\ Cardinality(Pending(TenantOf[u])) + Cardinality(batch) <= QueueMax
    /\ request' = [request EXCEPT ![u] = batch]
    /\ clock' = clock + 1
    /\ job' = [j \in Jobs |-> IF j \in batch THEN [job[j] EXCEPT !.created = clock + 1] ELSE job[j]]
    /\ UNCHANGED <<claim, worker, images, crashes, faults>>

Insert(u) ==
    /\ request[u] # {}
    /\ job' = [j \in Jobs |-> IF j \in request[u]
                              THEN [job[j] EXCEPT !.status = "QUEUED", !.due = TRUE] ELSE job[j]]
    /\ request' = [request EXCEPT ![u] = {}]
    /\ UNCHANGED <<claim, worker, images, clock, crashes, faults>>

\* mutant: an image being made is cancelled too
CancellableUnfinished(j) == job[j].status \in Unfinished

\* "a running one finishes"
Cancellable(j) == job[j].status = "QUEUED"

\* The transaction of a claim holds the row; who writes it waits
Locked(j) == \E w \in Workers : claim[w].row = j

\* cancel() of a campaign, or of one batch of it
Cancel(t, batch) ==
    LET waiting == {j \in Jobs : /\ OwnerOf[j] = t /\ Cancellable(j)
                                 /\ batch = 0 \/ job[j].created = batch}
    IN  /\ waiting # {} /\ \A j \in waiting : ~Locked(j)
        /\ job' = [j \in Jobs |-> IF j \in waiting THEN [job[j] EXCEPT !.status = "CANCELLED"] ELSE job[j]]
        /\ UNCHANGED <<request, claim, worker, images, clock, crashes, faults>>

\* retry_failed()
Retry(t) ==
    LET failed == {j \in Jobs : OwnerOf[j] = t /\ job[j].status = "FAILED"}
    IN  /\ failed # {} /\ faults < MaxFaults
        /\ job' = [j \in Jobs |-> IF j \in failed
                                  THEN [job[j] EXCEPT !.status = "QUEUED", !.attempts = 0, !.due = TRUE]
                                  ELSE job[j]]
        /\ faults' = faults + 1
        /\ UNCHANGED <<request, claim, worker, images, clock, crashes>>

\* next_attempt_at passes
BackoffEnds(j) ==
    /\ job[j].status = "QUEUED" /\ ~job[j].due
    /\ job' = [job EXCEPT ![j].due = TRUE]
    /\ UNCHANGED <<request, claim, worker, images, clock, crashes, faults>>

-----------------------------------------------------------------------------
(* claim_image_generation_job() *)

\* mutant: a running job is never taken over
ClaimableQueued(rows, j) == rows[j].status = "QUEUED" /\ rows[j].due

\* mutant: any job that runs may be taken over
ClaimableRunning(rows, j) ==
    \/ rows[j].status = "QUEUED" /\ rows[j].due
    \/ rows[j].status = "RUNNING"

Claimable(rows, j) ==
    \/ rows[j].status = "QUEUED" /\ rows[j].due
    \/ rows[j].status = "RUNNING" /\ ~rows[j].fresh

\* mutant: the place in line counts waiting images only
RankWaiting(rows, j) ==
    Cardinality({e \in Jobs \ {j} : OwnerOf[e] = OwnerOf[j]
                                    /\ rows[e].status = "QUEUED" /\ rows[e].created < rows[j].created})

\* "A company's place in line = its images being made now + its older waiting ones"
Rank(rows, j) ==
    Cardinality({e \in Jobs \ {j} :
        /\ OwnerOf[e] = OwnerOf[j]
        /\ \/ rows[e].status = "RUNNING"
           \/ rows[e].status = "QUEUED" /\ rows[e].created < rows[j].created})

Before(rows, j, k) ==
    Rank(rows, j) < Rank(rows, k) \/ (Rank(rows, j) = Rank(rows, k) /\ rows[j].created <= rows[k].created)

\* What the ranking reads of the rows
Ranked(rows) ==
    [j \in Jobs |-> IF rows[j].status \in Unfinished
                    THEN [rows[j] EXCEPT !.attempts = 0, !.worker = Nobody] ELSE Absent]

\* The SELECT begins: what it ranks is what is committed now
Look(w) ==
    /\ worker[w] = Idle /\ claim[w] = NoClaim
    /\ \E j \in Jobs : Claimable(job, j)
    /\ claim' = [claim EXCEPT ![w].seen = Ranked(job)]
    /\ UNCHANGED <<job, request, worker, images, clock, crashes, faults>>

\* The ranked rows that FOR UPDATE SKIP LOCKED can take: not locked, and their
\* newest version, if that is another one, still meets the condition
Free(w) == {j \in Jobs : Claimable(claim[w].seen, j) /\ Claimable(job, j) /\ ~Locked(j)}

\* The first of them is locked
Pick(w, j) ==
    /\ claim[w].row = Nobody
    /\ j \in Free(w) /\ \A k \in Free(w) : Before(claim[w].seen, j, k)
    /\ claim' = [claim EXCEPT ![w] = [NoClaim EXCEPT !.row = j]]
    /\ UNCHANGED <<job, request, worker, images, clock, crashes, faults>>

\* "IF picked IS NULL"
FindNone(w) ==
    /\ claim[w] # NoClaim /\ claim[w].row = Nobody
    /\ Free(w) = {}
    /\ claim' = [claim EXCEPT ![w] = NoClaim]
    /\ UNCHANGED <<job, request, worker, images, clock, crashes, faults>>

\* The UPDATE of the locked row, and the commit of claim()
Claim(w, j) ==
    /\ claim[w].row = j
    /\ job' = [job EXCEPT ![j].status = "RUNNING", ![j].worker = w, ![j].fresh = TRUE,
                          ![j].attempts = @ + 1]
    /\ claim' = [claim EXCEPT ![w] = NoClaim]
    /\ worker' = [worker EXCEPT ![w] = [at |-> "reading", job |-> j, keeper |-> TRUE]]
    /\ UNCHANGED <<request, images, clock, crashes, faults>>

\* The database is away, or the process dies: the open claim is rolled back
LoseClaim(w) ==
    /\ claim[w] # NoClaim /\ faults < MaxFaults
    /\ claim' = [claim EXCEPT ![w] = NoClaim]
    /\ faults' = faults + 1
    /\ UNCHANGED <<job, request, worker, images, clock, crashes>>

-----------------------------------------------------------------------------
(* run_one() *)

\* The campaign is there and its copy is ready: the keeper starts.  Before
\* that the claim's own heartbeat counts.
Start(w) ==
    /\ worker[w].at = "reading"
    /\ worker' = [worker EXCEPT ![w].at = "making"]
    /\ UNCHANGED <<job, request, claim, images, clock, crashes, faults>>

\* generate_and_store() commits the image before the job row is touched
Store(w) ==
    /\ worker[w].at = "making"
    /\ images[worker[w].job] < MaxImages
    /\ images' = [images EXCEPT ![worker[w].job] = @ + 1]
    /\ worker' = [worker EXCEPT ![w].at = "stored"]
    /\ UNCHANGED <<job, request, claim, clock, crashes, faults>>

\* The row is asked for its worker and its heartbeat no longer
Ending(r, status) == [r EXCEPT !.status = status, !.worker = Nobody, !.fresh = FALSE]

\* complete()
Complete(w) ==
    /\ worker[w].at = "stored" /\ ~Locked(worker[w].job)
    /\ job' = [job EXCEPT ![worker[w].job] = Ending(@, "COMPLETED")]
    /\ worker' = [worker EXCEPT ![w] = Idle]
    /\ UNCHANGED <<request, claim, images, clock, crashes, faults>>

\* mutant: retried without a look at max_attempts
AfterFailureForEver(r, retryable, counted) ==
    LET left == IF counted \/ r.attempts = 0 THEN r.attempts ELSE r.attempts - 1
    IN  IF retryable
        THEN [Ending(r, "QUEUED") EXCEPT !.attempts = left, !.due = FALSE]
        ELSE [Ending(r, "FAILED") EXCEPT !.attempts = left]

\* fail(): the row after a failed attempt
AfterFailure(r, retryable, counted) ==
    LET left == IF counted \/ r.attempts = 0 THEN r.attempts ELSE r.attempts - 1
    IN  IF retryable /\ left < MaxAttempts
        THEN [Ending(r, "QUEUED") EXCEPT !.attempts = left, !.due = FALSE]
        ELSE [Ending(r, "FAILED") EXCEPT !.attempts = left]

\* finish_failed(): it reads and writes the row without a lock, which nobody
\* else changes as long as the job is fresh.
Fail(w, retryable, counted) ==
    /\ worker[w].at \in {"reading", "making"} /\ ~Locked(worker[w].job)
    /\ job' = [job EXCEPT ![worker[w].job] = AfterFailure(@, retryable, counted)]
    /\ worker' = [worker EXCEPT ![w] = Idle]
    /\ UNCHANGED <<request, claim, images, clock, crashes>>

\* The campaign is gone or not ready, the allowance or the credits are used
\* up, or the provider's refusal is final
FailForGood(w) == Fail(w, FALSE, TRUE) /\ UNCHANGED faults

\* A provider, storage or database error
FailAttempt(w) == worker[w].at = "making" /\ Fail(w, TRUE, TRUE) /\ UNCHANGED faults

\* Every image server was busy
Busy(w) ==
    /\ worker[w].at = "making" /\ faults < MaxFaults
    /\ Fail(w, TRUE, FALSE)
    /\ faults' = faults + 1

\* The worker dies, or run_one() raises because the database is away: the row
\* stays RUNNING and its keeper ends.
Abandon(w) ==
    /\ worker[w] # Idle /\ crashes < MaxCrashes
    /\ worker' = [worker EXCEPT ![w] = Idle]
    /\ crashes' = crashes + 1
    /\ UNCHANGED <<job, request, claim, images, clock, faults>>

\* _keep_alive() ends at its first error and is not started again
KeeperEnds(w) ==
    /\ KeepersFail /\ worker[w].keeper
    /\ worker' = [worker EXCEPT ![w].keeper = FALSE]
    /\ UNCHANGED <<job, request, claim, images, clock, crashes, faults>>

\* image_job_heartbeat() touches the row only under the claiming worker's id
KeptAlive(j) == \E w \in Workers : worker[w].job = j /\ worker[w].keeper /\ job[j].worker = w

\* STALE_SECONDS without a heartbeat
GoStale(j) ==
    /\ job[j].status = "RUNNING" /\ job[j].fresh
    /\ ~KeptAlive(j)
    /\ job' = [job EXCEPT ![j].fresh = FALSE]
    /\ UNCHANGED <<request, claim, worker, images, clock, crashes, faults>>

-----------------------------------------------------------------------------
UserStep ==
    \/ \E u \in Users, batch \in SUBSET Jobs : Ask(u, batch)
    \/ \E u \in Users : Insert(u)
    \/ \E t \in Tenants, batch \in 0 .. clock : Cancel(t, batch)
    \/ \E t \in Tenants : Retry(t)

ClaimStep(w) == Look(w) \/ FindNone(w) \/ \E j \in Jobs : Pick(w, j) \/ Claim(w, j)

Run(w) == Start(w) \/ Store(w) \/ Complete(w) \/ FailForGood(w) \/ FailAttempt(w) \/ Busy(w)

Next ==
    \/ UserStep
    \/ \E w \in Workers : ClaimStep(w)
    \/ \E w \in Workers : LoseClaim(w)
    \/ \E w \in Workers : Run(w)
    \/ \E w \in Workers : Abandon(w)
    \/ \E w \in Workers : KeeperEnds(w)
    \/ \E j \in Jobs : GoStale(j)
    \/ \E j \in Jobs : BackoffEnds(j)

Spec == Init /\ [][Next]_vars

\* Workers poll and go on with what they do, time passes.  Users promise
\* nothing, and their retries are bounded.
FairSpec ==
    /\ Spec
    /\ \A w \in Workers : WF_vars(Run(w)) /\ WF_vars(ClaimStep(w))
    /\ \A j \in Jobs : WF_vars(GoStale(j)) /\ WF_vars(BackoffEnds(j))

-----------------------------------------------------------------------------
(* Properties *)

\* "each job is claimed by one" (image_worker.py): two workers never make one
\* job's image at once.  It holds as long as keepers do.
OneWorkerPerJob ==
    \A v, w \in Workers : v # w /\ worker[v].job = worker[w].job => worker[v] = Idle

\* What a dying worker costs is bounded by how many died.  A job gets a second
\* image only where a worker left it between storing its image and completing
\* its row; and it is tried max_attempts times, and once more for each worker
\* that left it, for the claim does not look at max_attempts.
BoundedByCrashes ==
    /\ Cardinality({i \in Jobs \X (2 .. MaxImages) : images[i[1]] >= i[2]}) <= crashes
    /\ \A j \in Jobs : job[j].attempts <= MaxAttempts + crashes

\* A completed or cancelled job is not revived, and a failed one only by its
\* company: no late worker overwrites an ended row.
EndedStays ==
    [][\A j \in Jobs :
        /\ job[j].status \in {"COMPLETED", "CANCELLED"} => job'[j].status = job[j].status
        /\ job[j].status = "FAILED" /\ job'[j].status # "FAILED" => faults' = faults + 1]_vars

\* "Companies take turns": a claim gives a company its second image only when no
\* other company that has none being made has its oldest waiting image due, as
\* far as was committed when the claim began.  An image that was taken, locked
\* or cancelled since is no longer waited for.  Two claims that overlap do not
\* see each other's choice and may take two images of one company.
RunningIn(rows, t) == {j \in Jobs : OwnerOf[j] = t /\ rows[j].status = "RUNNING"}
WaitingIn(rows, t) == {j \in Jobs : OwnerOf[j] = t /\ rows[j].status = "QUEUED"}
OldestIn(rows, t) ==
    {j \in WaitingIn(rows, t) : \A k \in WaitingIn(rows, t) : rows[j].created <= rows[k].created}
StillDue(j) == job[j].status = "QUEUED" /\ job[j].due /\ ~Locked(j)
CompaniesTakeTurns ==
    [][\A w \in Workers, j \in Jobs :
        LET seen == claim[w].seen IN
        claim[w].row # j /\ claim'[w].row = j /\ RunningIn(seen, OwnerOf[j]) \ {j} # {} =>
            \A t \in Tenants \ {OwnerOf[j]} :
                RunningIn(seen, t) = {} => \A k \in OldestIn(seen, t) : seen[k].due => ~StillDue(k)]_vars

\* Every queued image is made, failed or cancelled at last: a dead worker
\* loses none.
JobsEnd == \A j \in Jobs : (job[j].status \in Unfinished) ~> (job[j].status \in Ended)
=============================================================================
