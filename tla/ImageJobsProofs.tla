--------------------------- MODULE ImageJobsProofs ---------------------------
(***************************************************************************)
(* What the image queue keeps for any number of jobs, companies, users and *)
(* workers.                                                                *)
(*                                                                         *)
(* The types and the turns of the companies hold whatever the keeper       *)
(* threads do.  That one worker makes a job's image, and that no late      *)
(* worker overwrites an ended row, rests on keepers that do not end: then  *)
(* a row a worker holds is RUNNING under its name with a fresh heartbeat,  *)
(* so nobody claims it, and complete() and fail(), which ask nothing of    *)
(* the row, write only what is still theirs.  A row that a claim has       *)
(* locked stays claimable until the claim is written.  What a dying worker costs is *)
(* counted on the same ground: an image made twice, and an attempt beyond  *)
(* max_attempts, each have a crash that answers for them.                  *)
(***************************************************************************)
EXTENDS ImageJobs, FiniteSetTheorems, TLAPS

Thread ==
  [at : {"idle", "reading", "making", "stored"}, job : Jobs \cup {Nobody}, keeper : BOOLEAN]
Claims == [seen : [Jobs -> Rows], row : Jobs \cup {Nobody}]

\* The worker's row is its own, RUNNING, and kept alive by its keeper.
Owns(w) ==
  LET j == worker[w].job IN
  /\ worker[w].keeper
  /\ job[j].status = "RUNNING" /\ job[j].worker = w /\ job[j].fresh

RequestsInv ==
  /\ \A u \in Users : \A j \in request[u] : job[j].status = "absent"
  /\ \A u, v \in Users : u # v => request[u] \cap request[v] = {}

\* An open claim is an idle worker's; the row it has locked is locked by it alone
\* and can be claimed.
LocksInv ==
  /\ \A w \in Workers : claim[w] # NoClaim => worker[w] = Idle
  /\ \A w \in Workers, j \in Jobs : claim[w].row = j => Claimable(job, j)
  /\ \A v, w \in Workers : v # w /\ claim[v].row = claim[w].row => claim[v].row = Nobody

QueueInv ==
  /\ TypeOK
  /\ RequestsInv
  /\ LocksInv
  /\ \A w \in Workers : IF worker[w].at = "idle" THEN worker[w] = Idle ELSE Owns(w)

LEMMA EndingTyped ==
  ASSUME NEW r \in Rows, NEW status \in Unfinished \cup Ended
  PROVE  Ending(r, status) \in Rows
BY DEF Rows, Ending

LEMMA FailureTyped ==
  ASSUME NEW r \in Rows, NEW retryable \in BOOLEAN, NEW counted \in BOOLEAN
  PROVE  AfterFailure(r, retryable, counted) \in Rows
<1> DEFINE left == IF counted \/ r.attempts = 0 THEN r.attempts ELSE r.attempts - 1
<1>1. left \in Nat
  BY DEF Rows
<1> HIDE DEF left
<1>2. [Ending(r, "QUEUED") EXCEPT !.attempts = left, !.due = FALSE] \in Rows
  BY <1>1 DEF Rows, Unfinished, Ending
<1>3. [Ending(r, "FAILED") EXCEPT !.attempts = left] \in Rows
  BY <1>1 DEF Rows, Ended, Ending
<1> QED
  BY <1>2, <1>3 DEF AfterFailure, left

LEMMA InitTyped == Init => TypeOK
<1> SUFFICES ASSUME Init PROVE TypeOK
  OBVIOUS
<1>1. Absent \in Rows /\ Idle \in Thread
  BY DEF Absent, Rows, Idle, Thread
<1>2. NoClaim \in Claims
  BY <1>1 DEF NoClaim, Claims
<1> QED
  BY <1>1, <1>2, ImagesAssumption DEF Init, TypeOK, Thread, Idle, Claims

\* A worker that is not idle is at a job; what Run and the claim do to types.
LEMMA NextTyped == TypeOK /\ [Next]_vars => TypeOK'
<1> SUFFICES ASSUME TypeOK, [Next]_vars PROVE TypeOK'
  OBVIOUS
<1>t. /\ job \in [Jobs -> Rows] /\ worker \in [Workers -> Thread] /\ claim \in [Workers -> Claims]
      /\ request \in [Users -> SUBSET Jobs] /\ images \in [Jobs -> 0 .. MaxImages]
      /\ clock \in Nat /\ crashes \in 0 .. MaxCrashes /\ faults \in 0 .. MaxFaults
      /\ \A w \in Workers : worker[w].at = "idle" <=> worker[w].job = Nobody
  BY DEF TypeOK, Thread, Claims
<1>n. MaxImages \in Nat /\ MaxCrashes \in Nat /\ MaxFaults \in Nat /\ Nobody \notin Jobs
  BY ImagesAssumption
<1>w. Idle \in Thread /\ NoClaim \in Claims
  BY DEF Idle, Thread, NoClaim, Claims, Absent, Rows
<1>1. ASSUME NEW u \in Users, NEW batch \in SUBSET Jobs, Ask(u, batch) PROVE TypeOK'
  <2>1. \A j \in Jobs : [job[j] EXCEPT !.created = clock + 1] \in Rows
    BY <1>t DEF Rows
  <2>2. job' \in [Jobs -> Rows]
    BY <1>1, <2>1, <1>t DEF Ask
  <2> QED
    BY <1>1, <2>2, <1>t DEF Ask, TypeOK, Thread, Claims
<1>2. ASSUME NEW u \in Users, Insert(u) PROVE TypeOK'
  <2>1. \A j \in Jobs : [job[j] EXCEPT !.status = "QUEUED", !.due = TRUE] \in Rows
    BY <1>t DEF Rows, Unfinished
  <2>2. job' \in [Jobs -> Rows]
    BY <1>2, <2>1, <1>t DEF Insert
  <2> QED
    BY <1>2, <2>2, <1>t DEF Insert, TypeOK, Thread, Claims
<1>3. ASSUME NEW t \in Tenants, NEW batch \in 0 .. clock, Cancel(t, batch) PROVE TypeOK'
  <2>1. \A j \in Jobs : [job[j] EXCEPT !.status = "CANCELLED"] \in Rows
    BY <1>t DEF Rows, Ended
  <2>2. job' \in [Jobs -> Rows]
    BY <1>3, <2>1, <1>t DEF Cancel
  <2> QED
    BY <1>3, <2>2, <1>t DEF Cancel, TypeOK, Thread, Claims
<1>4. ASSUME NEW t \in Tenants, Retry(t) PROVE TypeOK'
  <2>1. \A j \in Jobs : [job[j] EXCEPT !.status = "QUEUED", !.attempts = 0, !.due = TRUE] \in Rows
    BY <1>t DEF Rows, Unfinished
  <2>2. job' \in [Jobs -> Rows]
    BY <1>4, <2>1, <1>t DEF Retry
  <2>3. faults < MaxFaults /\ faults' = faults + 1
    BY <1>4 DEF Retry
  <2>4. faults' \in 0 .. MaxFaults
    BY <2>3, <1>t, <1>n
  <2> QED
    BY <1>4, <2>2, <2>4, <1>t DEF Retry, TypeOK, Thread, Claims
<1>5. ASSUME NEW w \in Workers, NEW j \in Jobs, Claim(w, j) PROVE TypeOK'
  <2>1. [job[j] EXCEPT !.status = "RUNNING", !.worker = w, !.fresh = TRUE, !.attempts = @ + 1] \in Rows
    <3>1. job[j] \in Rows /\ job[j].attempts + 1 \in Nat
      BY <1>t DEF Rows
    <3>2. \A n \in Nat : [job[j] EXCEPT !.status = "RUNNING", !.worker = w, !.fresh = TRUE, !.attempts = n] \in Rows
      BY <3>1 DEF Rows, Unfinished
    <3> QED
      BY <3>1, <3>2
  <2>2. job' = [job EXCEPT ![j] = [job[j] EXCEPT !.status = "RUNNING", !.worker = w, !.fresh = TRUE,
                                                 !.attempts = @ + 1]]
    BY <1>5 DEF Claim
  <2>3. [at |-> "reading", job |-> j, keeper |-> TRUE] \in Thread
    BY DEF Thread
  <2>4. worker' = [worker EXCEPT ![w] = [at |-> "reading", job |-> j, keeper |-> TRUE]]
    BY <1>5 DEF Claim
  <2>5. job' \in [Jobs -> Rows] /\ worker' \in [Workers -> Thread]
    BY <2>1, <2>2, <2>3, <2>4, <1>t
  <2>6. \A v \in Workers : worker'[v].at = "idle" <=> worker'[v].job = Nobody
    BY <2>4, <1>t, <1>n
  <2>7. claim' \in [Workers -> Claims]
    BY <1>5, <1>t, <1>w DEF Claim
  <2> QED
    BY <1>5, <2>5, <2>6, <2>7, <1>t DEF Claim, TypeOK, Thread, Claims
<1>6. ASSUME NEW w \in Workers, Start(w) PROVE TypeOK'
  <2>1. [worker[w] EXCEPT !.at = "making"] \in Thread
    BY <1>t DEF Thread
  <2>2. worker' = [worker EXCEPT ![w] = [worker[w] EXCEPT !.at = "making"]]
    BY <1>6 DEF Start
  <2>3. worker' \in [Workers -> Thread] /\ \A v \in Workers : worker'[v].at = "idle" <=> worker'[v].job = Nobody
    BY <1>6, <2>1, <2>2, <1>t DEF Start, Thread
  <2> QED
    BY <1>6, <2>3, <1>t DEF Start, TypeOK, Thread, Claims
<1>7. ASSUME NEW w \in Workers, Store(w) PROVE TypeOK'
  <2>1. [worker[w] EXCEPT !.at = "stored"] \in Thread
    BY <1>t DEF Thread
  <2>2. worker' = [worker EXCEPT ![w] = [worker[w] EXCEPT !.at = "stored"]]
    BY <1>7 DEF Store
  <2>3. worker' \in [Workers -> Thread] /\ \A v \in Workers : worker'[v].at = "idle" <=> worker'[v].job = Nobody
    BY <1>7, <2>1, <2>2, <1>t DEF Store, Thread
  <2>4. worker[w].job \in Jobs
    BY <1>7, <1>t DEF Store, Thread
  <2>5. images[worker[w].job] + 1 \in 0 .. MaxImages
    BY <1>7, <2>4, <1>t, <1>n DEF Store
  <2>6. images' \in [Jobs -> 0 .. MaxImages]
    BY <1>7, <2>4, <2>5, <1>t DEF Store
  <2> QED
    BY <1>7, <2>3, <2>6, <1>t DEF Store, TypeOK, Thread, Claims
<1>8. ASSUME NEW w \in Workers, worker' = [worker EXCEPT ![w] = Idle]
      PROVE  /\ worker' \in [Workers -> Thread]
             /\ \A v \in Workers : worker'[v].at = "idle" <=> worker'[v].job = Nobody
  BY <1>8, <1>t, <1>w DEF Idle
<1>9. ASSUME NEW w \in Workers, Complete(w) PROVE TypeOK'
  <2>1. worker[w].job \in Jobs
    BY <1>9, <1>t DEF Complete, Thread
  <2>2. Ending(job[worker[w].job], "COMPLETED") \in Rows
    BY <2>1, <1>t, EndingTyped DEF Ended
  <2>3. job' = [job EXCEPT ![worker[w].job] = Ending(job[worker[w].job], "COMPLETED")]
    BY <1>9 DEF Complete
  <2>4. job' \in [Jobs -> Rows]
    BY <2>1, <2>2, <2>3, <1>t
  <2> QED
    BY <1>9, <2>4, <1>8, <1>t DEF Complete, TypeOK, Thread, Claims
<1>10. ASSUME NEW w \in Workers, NEW retryable \in BOOLEAN, NEW counted \in BOOLEAN,
              Fail(w, retryable, counted), faults' \in 0 .. MaxFaults
       PROVE  TypeOK'
  <2>1. worker[w].job \in Jobs
    BY <1>10, <1>t DEF Fail, Thread
  <2>2. job' = [job EXCEPT ![worker[w].job] = AfterFailure(job[worker[w].job], retryable, counted)]
    BY <1>10 DEF Fail
  <2>3. job' \in [Jobs -> Rows]
    BY <2>1, <2>2, <1>t, FailureTyped
  <2> QED
    BY <1>10, <2>3, <1>8, <1>t DEF Fail, TypeOK, Thread, Claims
<1>11. ASSUME NEW w \in Workers, FailForGood(w) \/ FailAttempt(w) \/ Busy(w) PROVE TypeOK'
  <2>1. faults' = faults \/ (faults < MaxFaults /\ faults' = faults + 1)
    BY <1>11 DEF FailForGood, FailAttempt, Busy
  <2>2. faults' \in 0 .. MaxFaults
    BY <2>1, <1>t, <1>n
  <2> QED
    BY <1>10, <1>11, <2>2 DEF FailForGood, FailAttempt, Busy
<1>12. ASSUME NEW w \in Workers, Abandon(w) PROVE TypeOK'
  <2>1. crashes' \in 0 .. MaxCrashes
    BY <1>12, <1>t, <1>n DEF Abandon
  <2> QED
    BY <1>12, <2>1, <1>8, <1>t DEF Abandon, TypeOK, Thread, Claims
<1>13. ASSUME NEW w \in Workers, KeeperEnds(w) PROVE TypeOK'
  <2>1. [worker[w] EXCEPT !.keeper = FALSE] \in Thread
    BY <1>t DEF Thread
  <2>2. worker' = [worker EXCEPT ![w] = [worker[w] EXCEPT !.keeper = FALSE]]
    BY <1>13 DEF KeeperEnds
  <2>3. worker' \in [Workers -> Thread] /\ \A v \in Workers : worker'[v].at = "idle" <=> worker'[v].job = Nobody
    BY <2>1, <2>2, <1>t DEF Thread
  <2> QED
    BY <1>13, <2>3, <1>t DEF KeeperEnds, TypeOK, Thread, Claims
<1>14. ASSUME NEW j \in Jobs, GoStale(j) \/ BackoffEnds(j) PROVE TypeOK'
  <2>1. [job[j] EXCEPT !.fresh = FALSE] \in Rows /\ [job[j] EXCEPT !.due = TRUE] \in Rows
    BY <1>t DEF Rows
  <2>2. \/ job' = [job EXCEPT ![j] = [job[j] EXCEPT !.fresh = FALSE]]
        \/ job' = [job EXCEPT ![j] = [job[j] EXCEPT !.due = TRUE]]
    BY <1>14 DEF GoStale, BackoffEnds
  <2>3. job' \in [Jobs -> Rows]
    BY <2>1, <2>2, <1>t
  <2> QED
    BY <1>14, <2>3, <1>t DEF GoStale, BackoffEnds, TypeOK, Thread, Claims
<1>16. ASSUME NEW w \in Workers,
              Look(w) \/ FindNone(w) \/ LoseClaim(w) \/ \E j \in Jobs : Pick(w, j)
       PROVE  TypeOK'
  <2>1. Ranked(job) \in [Jobs -> Rows]
    <3>1. Absent \in Rows
      BY DEF Absent, Rows
    <3>2. \A j \in Jobs : [job[j] EXCEPT !.attempts = 0, !.worker = Nobody] \in Rows
      BY <1>t DEF Rows
    <3> QED
      BY <3>1, <3>2 DEF Ranked
  <2>2. [claim[w] EXCEPT !.seen = Ranked(job)] \in Claims
    BY <2>1, <1>t DEF Claims
  <2>3. \A j \in Jobs : [NoClaim EXCEPT !.row = j] \in Claims
    BY <1>w DEF Claims
  <2>4. \E c \in Claims : claim' = [claim EXCEPT ![w] = c]
    BY <1>16, <2>2, <2>3, <1>w DEF Look, FindNone, LoseClaim, Pick
  <2>5. claim' \in [Workers -> Claims]
    BY <2>4, <1>t
  <2>6. /\ UNCHANGED <<job, request, worker, images, clock, crashes>>
        /\ faults' = faults \/ (faults < MaxFaults /\ faults' = faults + 1)
    BY <1>16 DEF Look, FindNone, LoseClaim, Pick
  <2>7. faults' \in 0 .. MaxFaults
    BY <2>6, <1>t, <1>n
  <2> QED
    BY <2>5, <2>6, <2>7, <1>t DEF TypeOK, Thread, Claims
<1>15. CASE UNCHANGED vars
  BY <1>15 DEF vars, TypeOK
<1> QED
  BY <1>1, <1>2, <1>3, <1>4, <1>5, <1>6, <1>7, <1>9, <1>11, <1>12, <1>13, <1>14, <1>15, <1>16
  DEF Next, UserStep, ClaimStep, Run

\* Rows, requests and threads stay what they are.
THEOREM TypeCorrect == Spec => []TypeOK
BY InitTyped, NextTyped, PTL DEF Spec
-----------------------------------------------------------------------------
(* One worker per row, while the keepers live.                              *)

LEMMA InitQueueInv == Init => QueueInv
BY InitTyped, ImagesAssumption DEF Init, QueueInv, RequestsInv, LocksInv, NoClaim, Absent, Idle

\* No step but the claim's own takes a locked row's claim away from it: cancel(),
\* complete() and fail() wait for the lock, and the others touch rows that cannot be
\* claimed.
LEMMA NextLocks ==
  ASSUME TypeOK, RequestsInv, LocksInv, [Next]_vars
  PROVE  LocksInv'
<1>r. /\ job \in [Jobs -> Rows] /\ worker \in [Workers -> Thread]
      /\ claim \in [Workers -> Claims] /\ request \in [Users -> SUBSET Jobs]
      /\ Nobody \notin Jobs
  BY ImagesAssumption DEF TypeOK, Thread, Claims
<1>1. ASSUME claim' = claim, \A w \in Workers : worker[w] = Idle => worker'[w] = Idle,
             \A j \in Jobs : Locked(j) /\ Claimable(job, j) => Claimable(job', j)
      PROVE  LocksInv'
  BY <1>1 DEF LocksInv, Locked, NoClaim
<1>2. ASSUME NEW u \in Users, Insert(u) \/ \E batch \in SUBSET Jobs : Ask(u, batch) PROVE LocksInv'
  <2>1. claim' = claim /\ worker' = worker
    BY <1>2 DEF Insert, Ask
  <2>2. ASSUME NEW j \in Jobs, Claimable(job, j) PROVE Claimable(job', j)
    BY <1>2, <2>2, <1>r DEF Insert, Ask, Claimable, RequestsInv, Rows
  <2> QED
    BY <2>1, <2>2, <1>1
<1>3. ASSUME NEW t \in Tenants, Retry(t) \/ \E batch \in 0 .. clock : Cancel(t, batch) PROVE LocksInv'
  <2>1. claim' = claim /\ worker' = worker
    BY <1>3 DEF Retry, Cancel
  <2>2. ASSUME NEW j \in Jobs, Locked(j), Claimable(job, j) PROVE job'[j] = job[j]
    <3>1. job[j].status # "FAILED"
      BY <2>2 DEF Claimable
    <3> QED
      BY <1>3, <2>2, <3>1 DEF Retry, Cancel
  <2> QED
    BY <2>1, <2>2, <1>1 DEF Claimable
<1>4. ASSUME NEW w \in Workers, Look(w) PROVE LocksInv'
  <2>1. /\ UNCHANGED <<job, worker>> /\ worker[w] = Idle
        /\ \A v \in Workers : claim'[v].row = claim[v].row
        /\ \A v \in Workers : v # w => claim'[v] = claim[v]
    BY <1>4, <1>r DEF Look, Claims
  <2> QED
    BY <2>1 DEF LocksInv, Claimable, NoClaim
<1>5. ASSUME NEW w \in Workers, NEW j \in Jobs, Pick(w, j) PROVE LocksInv'
  <2>1. /\ UNCHANGED <<job, worker>>
        /\ claim'[w].row = j
        /\ \A v \in Workers : v # w => claim'[v] = claim[v]
    BY <1>5, <1>r DEF Pick, NoClaim
  <2>2. Claimable(claim[w].seen, j) /\ Claimable(job, j) /\ ~Locked(j)
    BY <1>5 DEF Pick, Free
  <2>3. claim[w] # NoClaim
    BY <2>2 DEF Claimable, NoClaim, Absent
  <2>4. worker[w] = Idle
    BY <2>3 DEF LocksInv
  <2> QED
    BY <2>1, <2>2, <2>4, <1>r DEF LocksInv, Locked, Claimable, NoClaim
<1>6. ASSUME NEW w \in Workers, FindNone(w) \/ LoseClaim(w) PROVE LocksInv'
  <2>1. /\ UNCHANGED <<job, worker>> /\ claim'[w] = NoClaim
        /\ \A v \in Workers : v # w => claim'[v] = claim[v]
    BY <1>6, <1>r DEF FindNone, LoseClaim
  <2> QED
    BY <2>1, <1>r DEF LocksInv, Claimable, NoClaim
<1>7. ASSUME NEW w \in Workers, NEW j \in Jobs, Claim(w, j) PROVE LocksInv'
  <2>1. /\ claim[w].row = j /\ claim'[w] = NoClaim
        /\ \A v \in Workers : v # w => claim'[v] = claim[v] /\ worker'[v] = worker[v]
        /\ \A k \in Jobs : k # j => job'[k] = job[k]
    BY <1>7, <1>r DEF Claim
  <2>2. \A v \in Workers \ {w} : claim[v].row # j
    BY <2>1, <1>r DEF LocksInv
  <2> QED
    BY <2>1, <2>2, <1>r DEF LocksInv, Claimable, NoClaim
<1>8. ASSUME NEW w \in Workers,
             Start(w) \/ Store(w) \/ Complete(w) \/ FailForGood(w) \/ FailAttempt(w) \/ Busy(w)
               \/ Abandon(w) \/ KeeperEnds(w)
      PROVE  LocksInv'
  <2>1. claim' = claim /\ worker[w] # Idle
    <3>1. claim' = claim
      BY <1>8 DEF Start, Store, Complete, FailForGood, FailAttempt, Busy, Fail, Abandon, KeeperEnds
    <3>2. worker[w].at # "idle" \/ worker[w].keeper \/ worker[w] # Idle
      BY <1>8 DEF Start, Store, Complete, FailForGood, FailAttempt, Busy, Fail, Abandon, KeeperEnds
    <3>3. Idle.at = "idle" /\ Idle.keeper = FALSE
      BY DEF Idle
    <3> QED
      BY <3>1, <3>2, <3>3
  <2>5. \A v \in Workers : v # w => worker'[v] = worker[v]
    BY <1>8, <1>r DEF Start, Store, Complete, FailForGood, FailAttempt, Busy, Fail, Abandon, KeeperEnds
  <2>2. \A v \in Workers : worker[v] = Idle => worker'[v] = Idle
    BY <2>1, <2>5
  <2>3. \/ job' = job
        \/ ~Locked(worker[w].job) /\ \E row : job' = [job EXCEPT ![worker[w].job] = row]
    BY <1>8 DEF Start, Store, Complete, FailForGood, FailAttempt, Busy, Fail, Abandon, KeeperEnds
  <2>4. \A j \in Jobs : Locked(j) => job'[j] = job[j]
    BY <2>3, <1>r
  <2> QED
    BY <2>1, <2>2, <2>4, <1>1 DEF Claimable
<1>9. ASSUME NEW k \in Jobs, GoStale(k) \/ BackoffEnds(k) PROVE LocksInv'
  <2>1. claim' = claim /\ worker' = worker
    BY <1>9 DEF GoStale, BackoffEnds
  <2>2. \A j \in Jobs : Claimable(job, j) => Claimable(job', j)
    BY <1>9, <1>r DEF GoStale, BackoffEnds, Claimable, Rows
  <2> QED
    BY <2>1, <2>2, <1>1
<1>10. CASE UNCHANGED vars
  BY <1>10 DEF vars, LocksInv, Claimable
<1> QED
  BY <1>2, <1>3, <1>4, <1>5, <1>6, <1>7, <1>8, <1>9, <1>10 DEF Next, UserStep, ClaimStep, Run

\* What a claim knows of the row it writes
LEMMA ClaimsFreeRow ==
  ASSUME QueueInv, NEW w \in Workers, NEW j \in Jobs, Claim(w, j)
  PROVE  /\ worker[w] = Idle
         /\ job[j].status = "QUEUED" \/ (job[j].status = "RUNNING" /\ ~job[j].fresh)
<1>1. claim[w].row = j /\ claim[w] # NoClaim
  BY ImagesAssumption DEF Claim, NoClaim
<1> QED
  BY <1>1 DEF QueueInv, LocksInv, Claimable

\* A row that a worker holds and that stays RUNNING, its and fresh, stays held.
LEMMA OwnerStays ==
  ASSUME QueueInv, NEW w \in Workers, worker'[w] = worker[w],
         \A j \in Jobs : job[j].status = "RUNNING" /\ job[j].worker = w /\ job[j].fresh /\ worker[w].job = j
           => job'[j].status = "RUNNING" /\ job'[j].worker = w /\ job'[j].fresh
  PROVE  IF worker'[w].at = "idle" THEN worker'[w] = Idle ELSE Owns(w)'
<1>1. worker[w].at # "idle" => worker[w].job \in Jobs /\ Owns(w)
  BY DEF QueueInv, TypeOK
<1> QED
  BY <1>1 DEF QueueInv, Owns

\* Only the worker that holds a row ends its work on it.
LEMMA AloneAt ==
  ASSUME QueueInv, NEW v \in Workers, NEW w \in Workers, v # w,
         worker[v].at # "idle", worker[w].at # "idle"
  PROVE  worker[v].job # worker[w].job
BY DEF QueueInv, Owns

LEMMA NextQueueInv ==
  ASSUME ~KeepersFail
  PROVE  QueueInv /\ [Next]_vars => QueueInv'
<1> SUFFICES ASSUME QueueInv, [Next]_vars PROVE QueueInv'
  OBVIOUS
<1>t. TypeOK /\ TypeOK' /\ LocksInv'
  BY NextTyped, NextLocks DEF QueueInv
<1>r. /\ job \in [Jobs -> Rows] /\ worker \in [Workers -> Thread]
      /\ request \in [Users -> SUBSET Jobs]
      /\ \A w \in Workers : worker[w].at # "idle" => worker[w].job \in Jobs
  BY <1>t DEF TypeOK, Rows, Thread
<1>h. \A w \in Workers : worker[w].at # "idle" => Owns(w)
  BY DEF QueueInv
<1>1. ASSUME NEW u \in Users, NEW batch \in SUBSET Jobs, Ask(u, batch) PROVE QueueInv'
  <2>1. /\ \A j \in Jobs : /\ job'[j].status = job[j].status
                           /\ job'[j].worker = job[j].worker /\ job'[j].fresh = job[j].fresh
        /\ worker' = worker
        /\ request' = [request EXCEPT ![u] = batch]
        /\ \A j \in batch : job[j].status = "absent"
        /\ \A v \in Users : request[v] \cap batch = {}
    BY <1>1, <1>r DEF Ask, Rows
  <2>2. RequestsInv'
    BY <2>1, <1>r DEF QueueInv, RequestsInv
  <2>3. \A w \in Workers : IF worker'[w].at = "idle" THEN worker'[w] = Idle ELSE Owns(w)'
    BY <2>1, OwnerStays
  <2> QED
    BY <1>t, <2>2, <2>3 DEF QueueInv
<1>2. ASSUME NEW u \in Users, Insert(u) PROVE QueueInv'
  <2>1. /\ \A j \in Jobs \ request[u] : job'[j] = job[j]
        /\ worker' = worker /\ request' = [request EXCEPT ![u] = {}]
    BY <1>2, <1>r DEF Insert
  <2>2. \A j \in request[u] : job[j].status = "absent"
    BY DEF QueueInv, RequestsInv
  <2>3. RequestsInv'
    BY <2>1, <1>r DEF QueueInv, RequestsInv
  <2>4. ASSUME NEW w \in Workers PROVE IF worker'[w].at = "idle" THEN worker'[w] = Idle ELSE Owns(w)'
    BY <2>1, <2>2, OwnerStays
  <2> QED
    BY <1>t, <2>3, <2>4 DEF QueueInv
<1>4. ASSUME \E t \in Tenants : Retry(t) \/ \E batch \in 0 .. clock : Cancel(t, batch)
      PROVE  QueueInv'
  <2>1. /\ UNCHANGED <<worker, request>>
        /\ \A j \in Jobs : job'[j] = job[j] \/ job[j].status \in {"QUEUED", "FAILED"}
    BY <1>4 DEF Retry, Cancel, Cancellable
  <2>2. RequestsInv'
    BY <2>1, <1>r DEF QueueInv, RequestsInv
  <2>3. \A w \in Workers : IF worker'[w].at = "idle" THEN worker'[w] = Idle ELSE Owns(w)'
    BY <2>1, OwnerStays
  <2> QED
    BY <1>t, <2>2, <2>3 DEF QueueInv
<1>5. ASSUME NEW w \in Workers, NEW j \in Jobs, Claim(w, j) PROVE QueueInv'
  <2>1. /\ worker' = [worker EXCEPT ![w] = [at |-> "reading", job |-> j, keeper |-> TRUE]]
        /\ request' = request
        /\ job[j].status = "QUEUED" \/ (job[j].status = "RUNNING" /\ ~job[j].fresh)
    BY <1>5, ClaimsFreeRow DEF Claim
  <2>2. /\ job'[j].status = "RUNNING" /\ job'[j].worker = w /\ job'[j].fresh
        /\ \A k \in Jobs : k # j => job'[k] = job[k]
    BY <1>5, <1>r DEF Claim, Rows
  <2>3. RequestsInv'
    BY <2>1, <2>2, <1>r DEF QueueInv, RequestsInv
  <2>4. ASSUME NEW v \in Workers
        PROVE  IF worker'[v].at = "idle" THEN worker'[v] = Idle ELSE Owns(v)'
    <3>1. CASE v = w
      BY <2>1, <2>2, <3>1, <1>r DEF Owns
    <3>2. CASE v # w
      <4>1. worker'[v] = worker[v]
        BY <2>1, <3>2, <1>r
      <4> QED
        BY <2>1, <2>2, <4>1, OwnerStays
    <3> QED
      BY <3>1, <3>2
  <2> QED
    BY <1>t, <2>3, <2>4 DEF QueueInv
<1>6. ASSUME NEW w \in Workers, Start(w) \/ Store(w) PROVE QueueInv'
  <2>1. /\ job' = job /\ request' = request
        /\ worker[w].at # "idle"
        /\ worker'[w].job = worker[w].job /\ worker'[w].keeper = worker[w].keeper
        /\ worker'[w].at # "idle"
        /\ \A v \in Workers : v # w => worker'[v] = worker[v]
    BY <1>6, <1>r DEF Start, Store, Thread
  <2>2. Owns(w)'
    BY <2>1, <1>h DEF Owns
  <2>3. ASSUME NEW v \in Workers PROVE IF worker'[v].at = "idle" THEN worker'[v] = Idle ELSE Owns(v)'
    <3>1. CASE v = w
      BY <2>1, <2>2, <3>1
    <3>2. CASE v # w
      BY <2>1, <3>2, OwnerStays
    <3> QED
      BY <3>1, <3>2
  <2> QED
    BY <1>t, <2>1, <2>3 DEF QueueInv, RequestsInv
<1>7. ASSUME NEW w \in Workers, worker' = [worker EXCEPT ![w] = Idle], request' = request,
             \A k \in Jobs : k # worker[w].job => job'[k] = job[k],
             worker[w].at # "idle"
      PROVE  QueueInv'
  <2>1. job[worker[w].job].status = "RUNNING" /\ worker[w].job \in Jobs
    BY <1>7, <1>h, <1>r DEF Owns
  <2>2. RequestsInv'
    BY <1>7, <2>1, <1>r DEF QueueInv, RequestsInv
  <2>3. ASSUME NEW v \in Workers PROVE IF worker'[v].at = "idle" THEN worker'[v] = Idle ELSE Owns(v)'
    <3>1. CASE v = w
      BY <1>7, <3>1, <1>r DEF Idle
    <3>2. CASE v # w /\ worker[v].at = "idle"
      BY <1>7, <3>2, <1>r DEF QueueInv
    <3>3. CASE v # w /\ worker[v].at # "idle"
      <4>1. worker'[v] = worker[v] /\ worker[v].job \in Jobs /\ Owns(v)
        BY <1>7, <3>3, <1>h, <1>r
      <4>2. worker[v].job # worker[w].job
        BY <1>7, <3>3, AloneAt
      <4>3. job'[worker[v].job] = job[worker[v].job]
        BY <1>7, <4>1, <4>2
      <4> QED
        BY <3>3, <4>1, <4>3 DEF Owns
    <3> QED
      BY <3>1, <3>2, <3>3
  <2> QED
    BY <1>t, <2>2, <2>3 DEF QueueInv
<1>8. ASSUME NEW w \in Workers,
             Complete(w) \/ FailForGood(w) \/ FailAttempt(w) \/ Busy(w) \/ Abandon(w)
      PROVE  QueueInv'
  <2>1. worker[w].at # "idle"
    BY <1>8, <1>t DEF Complete, FailForGood, FailAttempt, Busy, Fail, Abandon, QueueInv, TypeOK
  <2>2. /\ worker' = [worker EXCEPT ![w] = Idle] /\ request' = request
        /\ \/ job' = job
           \/ \E row : job' = [job EXCEPT ![worker[w].job] = row]
    BY <1>8 DEF Complete, FailForGood, FailAttempt, Busy, Fail, Abandon
  <2>3. \A k \in Jobs : k # worker[w].job => job'[k] = job[k]
    BY <2>2, <1>r
  <2> QED
    BY <1>7, <2>1, <2>2, <2>3
<1>9. ASSUME NEW j \in Jobs, GoStale(j) PROVE QueueInv'
  <2>1. /\ job[j].status = "RUNNING" /\ ~KeptAlive(j) /\ UNCHANGED <<worker, request>>
        /\ \A k \in Jobs : k # j => job'[k] = job[k]
    BY <1>9, <1>r DEF GoStale
  <2>2. RequestsInv'
    BY <2>1, <1>r DEF QueueInv, RequestsInv
  <2>3. ASSUME NEW w \in Workers PROVE IF worker'[w].at = "idle" THEN worker'[w] = Idle ELSE Owns(w)'
    <3>1. CASE worker[w].at = "idle"
      BY <2>1, <3>1 DEF QueueInv
    <3>2. CASE worker[w].at # "idle"
      <4>1. Owns(w) /\ worker[w].job # j /\ worker[w].job \in Jobs
        BY <2>1, <3>2, <1>h, <1>r DEF KeptAlive, Owns
      <4> QED
        BY <2>1, <3>2, <4>1 DEF Owns
    <3> QED
      BY <3>1, <3>2
  <2> QED
    BY <1>t, <2>2, <2>3 DEF QueueInv
<1>10. ASSUME NEW j \in Jobs, BackoffEnds(j) PROVE QueueInv'
  <2>1. /\ UNCHANGED <<worker, request>> /\ job[j].status = "QUEUED"
        /\ \A k \in Jobs : k # j => job'[k] = job[k]
    BY <1>10, <1>r DEF BackoffEnds
  <2>2. RequestsInv'
    BY <2>1, <1>r DEF QueueInv, RequestsInv
  <2>3. \A w \in Workers : IF worker'[w].at = "idle" THEN worker'[w] = Idle ELSE Owns(w)'
    BY <2>1, OwnerStays
  <2> QED
    BY <1>t, <2>2, <2>3 DEF QueueInv
<1>11. ASSUME NEW w \in Workers, KeeperEnds(w) PROVE QueueInv'
  BY <1>11 DEF KeeperEnds
<1>13. ASSUME UNCHANGED <<job, request, worker>> PROVE QueueInv'
  BY <1>13, <1>t DEF QueueInv, RequestsInv, Owns
<1>12. ASSUME UNCHANGED vars \/ \E w \in Workers :
                Look(w) \/ FindNone(w) \/ LoseClaim(w) \/ \E j \in Jobs : Pick(w, j)
       PROVE  QueueInv'
  BY <1>12, <1>13 DEF vars, Look, FindNone, LoseClaim, Pick
<1> QED
  BY <1>1, <1>2, <1>4, <1>5, <1>6, <1>8, <1>9, <1>10, <1>11, <1>12
  DEF Next, UserStep, ClaimStep, Run

\* Two workers never make one job's image at once, as long as no keeper ends at a
\* database error.
THEOREM OneMaker ==
  ASSUME ~KeepersFail
  PROVE  Spec => []OneWorkerPerJob
<1>1. QueueInv => OneWorkerPerJob
  BY ImagesAssumption DEF QueueInv, TypeOK, OneWorkerPerJob, Owns, Idle
<1> QED
  BY <1>1, InitQueueInv, NextQueueInv, PTL DEF Spec

\* No late worker overwrites a row that was completed or cancelled, and a failed
\* one is revived by its company alone.
THEOREM EndedRowsStay ==
  ASSUME ~KeepersFail
  PROVE  Spec => EndedStays
<1> DEFINE Stays(j) ==
      /\ job[j].status \in {"COMPLETED", "CANCELLED"} => job'[j].status = job[j].status
      /\ job[j].status = "FAILED" /\ job'[j].status # "FAILED" => faults' = faults + 1
<1>1. QueueInv /\ [Next]_vars => [\A j \in Jobs : Stays(j)]_vars
  <2> SUFFICES ASSUME QueueInv, Next, NEW j \in Jobs PROVE Stays(j)
    OBVIOUS
  <2>r. /\ job \in [Jobs -> Rows] /\ worker \in [Workers -> Thread]
        /\ \A w \in Workers : worker[w].at # "idle" => Owns(w) /\ worker[w].job \in Jobs
    BY DEF QueueInv, TypeOK, Rows, Thread
  <2>1. ASSUME NEW u \in Users, Insert(u) \/ \E batch \in SUBSET Jobs : Ask(u, batch) PROVE Stays(j)
    BY <2>1, <2>r DEF Insert, Ask, QueueInv, RequestsInv, Rows
  <2>2. ASSUME NEW t \in Tenants, Retry(t) \/ \E batch \in 0 .. clock : Cancel(t, batch) PROVE Stays(j)
    BY <2>2 DEF Retry, Cancel, Cancellable
  <2>3. ASSUME NEW w \in Workers, NEW k \in Jobs, Claim(w, k) PROVE Stays(j)
    <3>1. job[k].status \in Unfinished /\ \A i \in Jobs : i # k => job'[i] = job[i]
      BY <2>3, <2>r, ClaimsFreeRow DEF Claim, Unfinished
    <3> QED
      BY <3>1 DEF Unfinished
  <2>4. ASSUME NEW w \in Workers,
               Complete(w) \/ FailForGood(w) \/ FailAttempt(w) \/ Busy(w)
        PROVE  Stays(j)
    <3>1. worker[w].at # "idle" /\ \E row : job' = [job EXCEPT ![worker[w].job] = row]
      BY <2>4 DEF Complete, FailForGood, FailAttempt, Busy, Fail
    <3>2. job[worker[w].job].status = "RUNNING" /\ \A i \in Jobs : i # worker[w].job => job'[i] = job[i]
      BY <3>1, <2>r DEF Owns
    <3> QED
      BY <3>2
  <2>5. ASSUME NEW w \in Workers, Start(w) \/ Store(w) \/ Abandon(w) \/ KeeperEnds(w) PROVE Stays(j)
    BY <2>5 DEF Start, Store, Abandon, KeeperEnds
  <2>6. ASSUME NEW k \in Jobs, GoStale(k) \/ BackoffEnds(k) PROVE Stays(j)
    <3>1. job[k].status \in Unfinished /\ \A i \in Jobs : i # k => job'[i] = job[i]
      BY <2>6, <2>r DEF GoStale, BackoffEnds, Unfinished
    <3> QED
      BY <3>1 DEF Unfinished
  <2>7. ASSUME NEW w \in Workers,
               Look(w) \/ FindNone(w) \/ LoseClaim(w) \/ \E k \in Jobs : Pick(w, k)
        PROVE  Stays(j)
    BY <2>7 DEF Look, FindNone, LoseClaim, Pick
  <2> QED
    BY <2>1, <2>2, <2>3, <2>4, <2>5, <2>6, <2>7 DEF Next, UserStep, ClaimStep, Run
<1> QED
  BY <1>1, InitQueueInv, NextQueueInv, PTL DEF Spec, EndedStays

-----------------------------------------------------------------------------
(* What a dying worker costs.                                               *)

Held(j) == \E w \in Workers : worker[w].job = j

\* An image that no row records and no worker is about to record
Stray(j) ==
  /\ images[j] > 0 /\ job[j].status # "COMPLETED"
  /\ ~ \E w \in Workers : worker[w].at = "stored" /\ worker[w].job = j

\* The images a crash has to answer for: each one of a job beyond its first, and
\* the first of a stray job, which the next image of the job makes superfluous.
Answered == {i \in Jobs \X (1 .. MaxImages) : images[i[1]] >= i[2] /\ (i[2] = 1 => Stray(i[1]))}

ImagesInv == Cardinality(Answered) <= crashes

\* A row waits with an attempt left; one whose worker is gone was claimed once
\* more than that for each crash but the last.
AttemptsInv ==
  \A j \in Jobs :
    /\ job[j].attempts <= MaxAttempts + crashes
    /\ job[j].status \in {"absent", "QUEUED"} => job[j].attempts < MaxAttempts
    /\ job[j].status = "RUNNING" /\ ~ Held(j) => job[j].attempts < MaxAttempts + crashes

\* A set that gains at most one element, and one that loses an element for it
LEMMA OneMore ==
  ASSUME NEW S, NEW T, NEW x, IsFiniteSet(S), T \subseteq S \cup {x}
  PROVE  /\ IsFiniteSet(T) /\ Cardinality(T) \in Nat /\ Cardinality(S) \in Nat
         /\ Cardinality(T) <= Cardinality(S) + 1
<1>1. IsFiniteSet(S \cup {x}) /\ Cardinality(S) \in Nat
  BY FS_AddElement, FS_CardinalityType
<1>2. Cardinality(S \cup {x}) = IF x \in S THEN Cardinality(S) ELSE Cardinality(S) + 1
  BY FS_AddElement
<1>3. IsFiniteSet(T) /\ Cardinality(T) <= Cardinality(S \cup {x})
  BY <1>1, FS_Subset
<1>4. Cardinality(T) \in Nat
  BY <1>3, FS_CardinalityType
<1>5. CASE x \in S
  BY <1>1, <1>2, <1>3, <1>4, <1>5
<1>6. CASE x \notin S
  BY <1>1, <1>2, <1>3, <1>4, <1>6
<1> QED
  BY <1>5, <1>6

LEMMA OneForAnother ==
  ASSUME NEW S, NEW T, NEW x \in S, NEW y, IsFiniteSet(S), T \subseteq (S \ {x}) \cup {y}
  PROVE  Cardinality(T) \in Nat /\ Cardinality(T) <= Cardinality(S)
<1>1. IsFiniteSet(S \ {x}) /\ Cardinality(S \ {x}) = Cardinality(S) - 1
  BY FS_RemoveElement
<1>2. /\ Cardinality(T) \in Nat /\ Cardinality(S \ {x}) \in Nat
      /\ Cardinality(T) <= Cardinality(S \ {x}) + 1
  BY <1>1, OneMore
<1>3. Cardinality(S) \in Nat
  BY FS_CardinalityType
<1> QED
  BY <1>1, <1>2, <1>3

LEMMA FinitePairs ==
  ASSUME NEW S \in SUBSET (Jobs \X (1 .. MaxImages))
  PROVE  IsFiniteSet(S)
<1>1. IsFiniteSet(1 .. MaxImages) /\ IsFiniteSet(Jobs)
  BY ImagesAssumption, FS_Interval
<1>2. IsFiniteSet(Jobs \X (1 .. MaxImages))
  BY <1>1, FS_Product
<1> QED
  BY <1>2, FS_Subset

LEMMA NextImagesInv ==
  ASSUME ~KeepersFail, QueueInv, ImagesInv, [Next]_vars
  PROVE  ImagesInv'
<1>r. /\ job \in [Jobs -> Rows] /\ worker \in [Workers -> Thread]
      /\ images \in [Jobs -> 0 .. MaxImages] /\ crashes \in Nat /\ MaxImages \in Nat
      /\ \A w \in Workers : worker[w].at # "idle" => worker[w].job \in Jobs /\ Owns(w)
  BY ImagesAssumption DEF QueueInv, TypeOK, Rows, Thread
<1>f. IsFiniteSet(Answered) /\ IsFiniteSet(Answered') /\ Cardinality(Answered) \in Nat
  <2>1. IsFiniteSet(Answered) /\ IsFiniteSet(Answered')
    BY FinitePairs DEF Answered
  <2> QED
    BY <2>1, FS_CardinalityType
<1>1. ASSUME Answered' \subseteq Answered, crashes' = crashes PROVE ImagesInv'
  <2>1. Cardinality(Answered') <= Cardinality(Answered)
    BY <1>1, <1>f, FS_Subset
  <2>2. Cardinality(Answered') \in Nat
    BY <1>f, FS_CardinalityType
  <2> QED
    BY <1>1, <1>f, <1>r, <2>1, <2>2 DEF ImagesInv
<1>2. ASSUME images' = images, crashes' = crashes, \A j \in Jobs : Stray(j)' => Stray(j)
      PROVE  ImagesInv'
  <2>1. Answered' \subseteq Answered
    BY <1>2 DEF Answered
  <2> QED
    BY <1>1, <1>2, <2>1
<1>3. CASE UserStep
  <2>1. /\ UNCHANGED <<worker, images, crashes>>
        /\ \A j \in Jobs : job[j].status = "COMPLETED" => job'[j].status = "COMPLETED"
    <3>1. ASSUME NEW u \in Users, Insert(u) \/ \E batch \in SUBSET Jobs : Ask(u, batch)
          PROVE  \A j \in Jobs : job[j].status = "COMPLETED" => job'[j].status = "COMPLETED"
      BY <3>1, <1>r DEF Insert, Ask, QueueInv, RequestsInv, Rows
    <3>2. ASSUME NEW t \in Tenants, Retry(t) \/ \E batch \in 0 .. clock : Cancel(t, batch)
          PROVE  \A j \in Jobs : job[j].status = "COMPLETED" => job'[j].status = "COMPLETED"
      BY <3>2 DEF Retry, Cancel, Cancellable
    <3>3. UNCHANGED <<worker, images, crashes>>
      BY <1>3 DEF UserStep, Ask, Insert, Cancel, Retry
    <3> QED
      BY <1>3, <3>1, <3>2, <3>3 DEF UserStep
  <2> QED
    BY <1>2, <2>1 DEF Stray
<1>4. ASSUME NEW w \in Workers, NEW j \in Jobs, Claim(w, j) PROVE ImagesInv'
  <2>1. /\ UNCHANGED <<images, crashes>> /\ worker[w] = Idle
        /\ worker' = [worker EXCEPT ![w] = [at |-> "reading", job |-> j, keeper |-> TRUE]]
        /\ job[j].status # "COMPLETED"
        /\ \A k \in Jobs : k # j => job'[k] = job[k]
    BY <1>4, <1>r, ClaimsFreeRow DEF Claim
  <2>2. \A v \in Workers : worker[v].at = "stored" => worker'[v] = worker[v]
    BY <2>1, <1>r DEF Idle
  <2>3. \A k \in Jobs : Stray(k)' => Stray(k)
    BY <2>1, <2>2 DEF Stray
  <2> QED
    BY <1>2, <2>1, <2>3
<1>5. ASSUME NEW w \in Workers, Start(w) \/ FailForGood(w) \/ FailAttempt(w) \/ Busy(w)
      PROVE  ImagesInv'
  <2>1. /\ UNCHANGED <<images, crashes>> /\ worker[w].at \in {"reading", "making"}
        /\ \A v \in Workers : v # w => worker'[v] = worker[v]
        /\ \A k \in Jobs : k # worker[w].job => job'[k] = job[k]
    <3>1. /\ UNCHANGED <<images, crashes>> /\ worker[w].at \in {"reading", "making"}
          /\ \E thread : worker' = [worker EXCEPT ![w] = thread]
          /\ job' = job \/ \E row : job' = [job EXCEPT ![worker[w].job] = row]
      BY <1>5 DEF Start, FailForGood, FailAttempt, Busy, Fail
    <3> QED
      BY <3>1, <1>r
  <2>2. job[worker[w].job].status # "COMPLETED"
    BY <2>1, <1>r DEF Owns
  <2>3. \A v \in Workers : worker[v].at = "stored" => worker'[v] = worker[v]
    BY <2>1
  <2>4. \A k \in Jobs : Stray(k)' => Stray(k)
    BY <2>1, <2>2, <2>3 DEF Stray
  <2> QED
    BY <1>2, <2>1, <2>4
<1>6. ASSUME NEW w \in Workers, Store(w) PROVE ImagesInv'
  <2>0. PICK j \in Jobs, k \in 0 .. MaxImages : j = worker[w].job /\ k = images[j]
    BY <1>6, <1>r DEF Store
  <2>1. /\ Owns(w) /\ worker[w].at = "making" /\ k < MaxImages
        /\ UNCHANGED <<job, crashes>>
        /\ images'[j] = k + 1 /\ \A i \in Jobs : i # j => images'[i] = images[i]
        /\ worker'[w].at = "stored" /\ worker'[w].job = j
        /\ \A v \in Workers : v # w => worker'[v] = worker[v]
    BY <1>6, <2>0, <1>r DEF Store, Thread
  <2>2. \A v \in Workers \ {w} : worker[v].job # j
    BY <2>0, <2>1, <1>r, AloneAt DEF Idle, QueueInv, TypeOK
  <2>3. ~Stray(j)'
    BY <2>1 DEF Stray
  <2>4. \A i \in Jobs \ {j} : Stray(i)' <=> Stray(i)
    BY <2>1 DEF Stray
  <2>5. CASE k = 0
    <3>1. Answered' \subseteq Answered
      <4> SUFFICES ASSUME NEW i \in Answered' PROVE i \in Answered
        OBVIOUS
      <4>1. PICK e \in Jobs, n \in 1 .. MaxImages : i = <<e, n>>
        BY DEF Answered
      <4>2. images'[e] >= n /\ (n = 1 => Stray(e)')
        BY <4>1 DEF Answered
      <4>3. e # j
        <5>1. images'[j] = 1
          BY <2>1, <2>5
        <5>2. images'[e] >= n /\ n \in Nat /\ n >= 1
          BY <4>1, <4>2, <1>r
        <5>3. e = j => n = 1
          BY <5>1, <5>2
        <5> QED
          BY <5>3, <4>2, <2>3
      <4> QED
        BY <4>1, <4>2, <4>3, <2>1, <2>4, <1>r DEF Answered
    <3> QED
      BY <1>1, <2>1, <3>1
  <2>6. CASE k # 0
    <3>1. Stray(j)
      BY <2>0, <2>1, <2>2, <2>6, <1>r DEF Stray, Owns
    <3>2. <<j, 1>> \in Answered
      BY <2>0, <2>1, <2>6, <3>1, <1>r DEF Answered
    <3>3. Answered' \subseteq (Answered \ {<<j, 1>>}) \cup {<<j, k + 1>>}
      <4> SUFFICES ASSUME NEW i \in Answered', i # <<j, k + 1>>
                   PROVE  i \in Answered \ {<<j, 1>>}
        OBVIOUS
      <4>1. PICK e \in Jobs, n \in 1 .. MaxImages : i = <<e, n>>
        BY DEF Answered
      <4>2. images'[e] >= n /\ (n = 1 => Stray(e)')
        BY <4>1 DEF Answered
      <4>3. CASE e = j
        BY <4>1, <4>2, <4>3, <2>0, <2>1, <2>3, <1>r DEF Answered
      <4>4. CASE e # j
        BY <4>1, <4>2, <4>4, <2>1, <2>4, <1>r DEF Answered
      <4> QED
        BY <4>3, <4>4
    <3>4. Cardinality(Answered') \in Nat /\ Cardinality(Answered') <= Cardinality(Answered)
      BY <3>2, <3>3, <1>f, OneForAnother
    <3> QED
      BY <2>1, <3>4, <1>f, <1>r DEF ImagesInv
  <2> QED
    BY <2>5, <2>6
<1>7. ASSUME NEW w \in Workers, Complete(w) PROVE ImagesInv'
  <2>1. /\ UNCHANGED <<images, crashes>> /\ worker[w].job \in Jobs
        /\ job'[worker[w].job].status = "COMPLETED"
        /\ \A k \in Jobs : k # worker[w].job => job'[k] = job[k]
        /\ \A v \in Workers : v # w => worker'[v] = worker[v]
    BY <1>7, <1>r DEF Complete, Ending, Rows, Thread
  <2>2. \A k \in Jobs : Stray(k)' => Stray(k)
    BY <2>1 DEF Stray
  <2> QED
    BY <1>2, <2>1, <2>2
<1>8. ASSUME NEW w \in Workers, Abandon(w) PROVE ImagesInv'
  <2>1. /\ UNCHANGED <<images, job>> /\ crashes' = crashes + 1
        /\ \A v \in Workers : v # w => worker'[v] = worker[v]
    BY <1>8, <1>r DEF Abandon
  <2>2. \A k \in Jobs : k # worker[w].job /\ Stray(k)' => Stray(k)
    BY <2>1 DEF Stray
  <2>3. Answered' \subseteq Answered \cup {<<worker[w].job, 1>>}
    <3> SUFFICES ASSUME NEW i \in Answered', i # <<worker[w].job, 1>>
                 PROVE  i \in Answered
      OBVIOUS
    <3>1. PICK e \in Jobs, n \in 1 .. MaxImages : i = <<e, n>>
      BY DEF Answered
    <3>2. images[e] >= n /\ (n = 1 => Stray(e)')
      BY <3>1, <2>1 DEF Answered
    <3> QED
      BY <3>1, <3>2, <2>2 DEF Answered
  <2>4. Cardinality(Answered') \in Nat /\ Cardinality(Answered') <= Cardinality(Answered) + 1
    BY <2>3, <1>f, OneMore
  <2> QED
    BY <2>1, <2>4, <1>f, <1>r DEF ImagesInv
<1>9. ASSUME NEW j \in Jobs, GoStale(j) \/ BackoffEnds(j) PROVE ImagesInv'
  <2>1. /\ UNCHANGED <<images, crashes, worker>>
        /\ \A k \in Jobs : job'[k].status = job[k].status
    BY <1>9, <1>r DEF GoStale, BackoffEnds, Rows
  <2> QED
    BY <1>2, <2>1 DEF Stray
<1>10. ASSUME UNCHANGED vars \/ \E w \in Workers :
                Look(w) \/ FindNone(w) \/ LoseClaim(w) \/ \E j \in Jobs : Pick(w, j)
       PROVE  ImagesInv'
  <2>1. UNCHANGED <<job, worker, images, crashes>>
    BY <1>10 DEF vars, Look, FindNone, LoseClaim, Pick
  <2> QED
    BY <1>1, <2>1 DEF Answered, Stray
<1>11. \A w \in Workers : ~KeeperEnds(w)
  BY DEF KeeperEnds
<1> QED
  BY <1>3, <1>4, <1>5, <1>6, <1>7, <1>8, <1>9, <1>10, <1>11 DEF Next, ClaimStep, Run

\* What fail() leaves of the attempts
LEMMA FailureAttempts ==
  ASSUME NEW r \in Rows, NEW retryable \in BOOLEAN, NEW counted \in BOOLEAN,
         NEW row, row = AfterFailure(r, retryable, counted)
  PROVE  /\ row.attempts <= r.attempts /\ row.attempts \in Nat
         /\ row.status \in {"QUEUED", "FAILED"}
         /\ row.status = "QUEUED" => row.attempts < MaxAttempts
<1> DEFINE left == IF counted \/ r.attempts = 0 THEN r.attempts ELSE r.attempts - 1
<1>1. left \in Nat /\ left <= r.attempts /\ MaxAttempts \in Nat
  BY ImagesAssumption DEF Rows
<1>2. row = IF retryable /\ left < MaxAttempts
            THEN [Ending(r, "QUEUED") EXCEPT !.attempts = left, !.due = FALSE]
            ELSE [Ending(r, "FAILED") EXCEPT !.attempts = left]
  BY DEF AfterFailure
<1> HIDE DEF left
<1>3. /\ row.attempts = left
      /\ row.status = IF retryable /\ left < MaxAttempts THEN "QUEUED" ELSE "FAILED"
  BY <1>2 DEF Rows, Ending
<1> QED
  BY <1>1, <1>3

LEMMA NextAttemptsInv ==
  ASSUME ~KeepersFail, QueueInv, AttemptsInv, [Next]_vars
  PROVE  AttemptsInv'
<1>r. /\ job \in [Jobs -> Rows] /\ worker \in [Workers -> Thread]
      /\ crashes \in Nat /\ MaxAttempts \in Nat \ {0} /\ Nobody \notin Jobs
      /\ \A w \in Workers : worker[w].at # "idle" => worker[w].job \in Jobs /\ Owns(w)
      /\ \A w \in Workers : worker[w].at = "idle" <=> worker[w].job = Nobody
  BY ImagesAssumption DEF QueueInv, TypeOK, Rows, Thread
<1>n. \A j \in Jobs : job[j].attempts \in Nat /\ (job[j].status = "absent" => job[j].attempts < MaxAttempts)
  BY <1>r DEF Rows, AttemptsInv
<1> DEFINE Bounded(j) ==
      /\ job[j].attempts <= MaxAttempts + crashes
      /\ job[j].status \in {"absent", "QUEUED"} => job[j].attempts < MaxAttempts
      /\ job[j].status = "RUNNING" /\ ~ Held(j) => job[j].attempts < MaxAttempts + crashes
<1>1. ASSUME NEW j \in Jobs, crashes' = crashes, job'[j].attempts = job[j].attempts,
             \/ job'[j].status = job[j].status /\ (Held(j) => Held(j)')
             \/ job'[j].status \notin {"absent", "QUEUED", "RUNNING"}
      PROVE  Bounded(j)'
  BY <1>1 DEF AttemptsInv
<1>2. CASE UserStep
  <2>1. UNCHANGED <<worker, crashes>>
    BY <1>2 DEF UserStep, Ask, Insert, Cancel, Retry
  <2>2. \A j \in Jobs : Held(j) => Held(j)'
    BY <2>1 DEF Held
  <2>3. ASSUME NEW j \in Jobs, job'[j].status = "QUEUED", job'[j].attempts \in Nat,
               job'[j].attempts < MaxAttempts
        PROVE  Bounded(j)'
    BY <2>1, <2>3, <1>r
  <2>4. ASSUME NEW u \in Users, NEW batch \in SUBSET Jobs, Ask(u, batch), NEW j \in Jobs
        PROVE  Bounded(j)'
    <3>1. job'[j].status = job[j].status /\ job'[j].attempts = job[j].attempts
      BY <2>4, <1>r DEF Ask, Rows
    <3> QED
      BY <1>1, <2>1, <2>2, <3>1
  <2>5. ASSUME NEW u \in Users, Insert(u), NEW j \in Jobs PROVE Bounded(j)'
    <3>1. CASE j \in request[u]
      <4>1. job[j].status = "absent"
        BY <3>1 DEF QueueInv, RequestsInv
      <4>2. job'[j].status = "QUEUED" /\ job'[j].attempts = job[j].attempts
        BY <2>5, <3>1, <1>r DEF Insert, Rows
      <4> QED
        BY <4>1, <4>2, <2>3, <1>n DEF AttemptsInv
    <3>2. CASE j \notin request[u]
      <4>1. job'[j] = job[j]
        BY <2>5, <3>2, <1>r DEF Insert
      <4> QED
        BY <1>1, <2>1, <2>2, <4>1
    <3> QED
      BY <3>1, <3>2
  <2>6. ASSUME NEW t \in Tenants, NEW batch \in 0 .. clock, Cancel(t, batch), NEW j \in Jobs
        PROVE  Bounded(j)'
    <3>1. /\ job'[j].attempts = job[j].attempts
          /\ job'[j].status = job[j].status \/ job'[j].status = "CANCELLED"
      BY <2>6, <1>r DEF Cancel, Rows
    <3> QED
      BY <1>1, <2>1, <2>2, <3>1
  <2>7. ASSUME NEW t \in Tenants, Retry(t), NEW j \in Jobs PROVE Bounded(j)'
    <3>1. CASE OwnerOf[j] = t /\ job[j].status = "FAILED"
      <4>1. job'[j].status = "QUEUED" /\ job'[j].attempts = 0
        BY <2>7, <3>1, <1>r DEF Retry, Rows
      <4> QED
        BY <4>1, <2>3, <1>r
    <3>2. CASE ~(OwnerOf[j] = t /\ job[j].status = "FAILED")
      <4>1. job'[j] = job[j]
        BY <2>7, <3>2, <1>r DEF Retry
      <4> QED
        BY <1>1, <2>1, <2>2, <4>1
    <3> QED
      BY <3>1, <3>2
  <2> HIDE DEF Bounded
  <2>8. \A j \in Jobs : Bounded(j)'
    BY <1>2, <2>4, <2>5, <2>6, <2>7 DEF UserStep
  <2> QED
    BY <2>8 DEF Bounded, AttemptsInv
<1>3. ASSUME NEW w \in Workers, NEW k \in Jobs, Claim(w, k) PROVE AttemptsInv'
  <2>1. /\ crashes' = crashes /\ worker[w] = Idle
        /\ worker' = [worker EXCEPT ![w] = [at |-> "reading", job |-> k, keeper |-> TRUE]]
        /\ job[k].status = "QUEUED" \/ (job[k].status = "RUNNING" /\ ~ job[k].fresh)
    BY <1>3, ClaimsFreeRow DEF Claim
  <2>2. /\ job'[k].status = "RUNNING" /\ job'[k].attempts = job[k].attempts + 1
        /\ \A j \in Jobs : j # k => job'[j] = job[j]
    BY <1>3, <1>r DEF Claim, Rows
  <2>3. worker'[w].job = k
    BY <2>1, <1>r
  <2>4. \A v \in Workers : v # w => worker'[v] = worker[v]
    BY <2>1, <1>r
  <2>5. \A j \in Jobs : Held(j) => Held(j)'
    BY <2>1, <2>4, <1>r DEF Held, Idle
  <2>6. job[k].status = "RUNNING" => ~ Held(k)
    BY <2>1, <1>r DEF Held, Owns
  <2>7. job[k].attempts < MaxAttempts + crashes
    BY <2>1, <2>6, <1>n, <1>r DEF AttemptsInv
  <2>8. Held(k)'
    BY <2>3 DEF Held
  <2>9. ASSUME NEW j \in Jobs PROVE Bounded(j)'
    <3>1. CASE j = k
      BY <3>1, <2>1, <2>2, <2>7, <2>8, <1>n, <1>r
    <3>2. CASE j # k
      BY <3>2, <2>1, <2>2, <2>5, <1>1
    <3> QED
      BY <3>1, <3>2
  <2> QED
    BY <2>9 DEF AttemptsInv
<1>4. ASSUME NEW w \in Workers, Start(w) \/ Store(w) PROVE AttemptsInv'
  <2>1. /\ UNCHANGED <<job, crashes>>
        /\ \A v \in Workers : worker'[v].job = worker[v].job
    BY <1>4, <1>r DEF Start, Store, Thread
  <2> QED
    BY <2>1 DEF AttemptsInv, Held
<1>5. ASSUME NEW w \in Workers, NEW k \in Jobs, k = worker[w].job, crashes' = crashes,
             \A j \in Jobs : j # k => job'[j] = job[j],
             \A v \in Workers : v # w => worker'[v] = worker[v],
             job'[k].attempts \in Nat, job'[k].attempts <= job[k].attempts,
             job'[k].status \in {"QUEUED", "FAILED", "COMPLETED"},
             job'[k].status = "QUEUED" => job'[k].attempts < MaxAttempts
      PROVE  AttemptsInv'
  <2>1. \A j \in Jobs : j # k /\ Held(j) => Held(j)'
    BY <1>5 DEF Held
  <2>2. Bounded(k)'
    BY <1>5, <1>n, <1>r DEF AttemptsInv
  <2>3. \A j \in Jobs : j # k => Bounded(j)'
    BY <1>1, <1>5, <2>1
  <2> HIDE DEF Bounded
  <2>4. \A j \in Jobs : Bounded(j)'
    BY <2>2, <2>3
  <2> QED
    BY <2>4 DEF Bounded, AttemptsInv
<1>6. ASSUME NEW w \in Workers, Complete(w) PROVE AttemptsInv'
  <2>1. /\ worker[w].job \in Jobs /\ crashes' = crashes
        /\ \A v \in Workers : v # w => worker'[v] = worker[v]
        /\ job'[worker[w].job].status = "COMPLETED"
        /\ job'[worker[w].job].attempts = job[worker[w].job].attempts
        /\ \A j \in Jobs : j # worker[w].job => job'[j] = job[j]
    BY <1>6, <1>r DEF Complete, Ending, Rows, Thread
  <2> QED
    BY <2>1, <1>5, <1>n
<1>7. ASSUME NEW w \in Workers, FailForGood(w) \/ FailAttempt(w) \/ Busy(w) PROVE AttemptsInv'
  <2>1. PICK retryable \in BOOLEAN, counted \in BOOLEAN : Fail(w, retryable, counted)
    BY <1>7 DEF FailForGood, FailAttempt, Busy
  <2>2. /\ worker[w].job \in Jobs /\ crashes' = crashes
        /\ \A v \in Workers : v # w => worker'[v] = worker[v]
        /\ job'[worker[w].job] = AfterFailure(job[worker[w].job], retryable, counted)
        /\ \A j \in Jobs : j # worker[w].job => job'[j] = job[j]
    BY <2>1, <1>r DEF Fail, Thread
  <2>3. /\ job'[worker[w].job].attempts \in Nat
        /\ job'[worker[w].job].attempts <= job[worker[w].job].attempts
        /\ job'[worker[w].job].status \in {"QUEUED", "FAILED"}
        /\ job'[worker[w].job].status = "QUEUED" => job'[worker[w].job].attempts < MaxAttempts
    BY <2>2, <1>r, FailureAttempts
  <2> QED
    BY <2>2, <2>3, <1>5
<1>8. ASSUME NEW w \in Workers, Abandon(w) PROVE AttemptsInv'
  BY <1>8, <1>n, <1>r DEF Abandon, AttemptsInv
<1>9. ASSUME NEW k \in Jobs, GoStale(k) \/ BackoffEnds(k) PROVE AttemptsInv'
  <2>1. /\ UNCHANGED <<crashes, worker>>
        /\ \A j \in Jobs : job'[j].status = job[j].status /\ job'[j].attempts = job[j].attempts
    BY <1>9, <1>r DEF GoStale, BackoffEnds, Rows
  <2> QED
    BY <2>1 DEF AttemptsInv, Held
<1>10. ASSUME UNCHANGED vars \/ \E w \in Workers :
                Look(w) \/ FindNone(w) \/ LoseClaim(w) \/ \E j \in Jobs : Pick(w, j)
       PROVE  AttemptsInv'
  <2>1. UNCHANGED <<job, worker, crashes>>
    BY <1>10 DEF vars, Look, FindNone, LoseClaim, Pick
  <2> QED
    BY <2>1 DEF AttemptsInv, Held
<1>11. \A w \in Workers : ~KeeperEnds(w)
  BY DEF KeeperEnds
<1> QED
  BY <1>2, <1>3, <1>4, <1>6, <1>7, <1>8, <1>9, <1>10, <1>11 DEF Next, ClaimStep, Run

LEMMA InitCrashes == Init => ImagesInv /\ AttemptsInv
<1> SUFFICES ASSUME Init PROVE ImagesInv /\ AttemptsInv
  OBVIOUS
<1>1. Answered = {}
  BY ImagesAssumption DEF Init, Answered, Stray
<1>2. Cardinality(Answered) = 0
  BY <1>1, FS_EmptySet
<1> QED
  BY <1>2, ImagesAssumption DEF Init, ImagesInv, AttemptsInv, Absent

\* The images made twice and the attempts made beyond max_attempts are bounded by
\* the workers that died, as long as no keeper ends at a database error.
THEOREM CrashesBound ==
  ASSUME ~KeepersFail
  PROVE  Spec => []BoundedByCrashes
<1>1. QueueInv /\ ImagesInv /\ AttemptsInv => BoundedByCrashes
  <2> SUFFICES ASSUME QueueInv, ImagesInv, AttemptsInv PROVE BoundedByCrashes
    OBVIOUS
  <2> DEFINE extra == {i \in Jobs \X (2 .. MaxImages) : images[i[1]] >= i[2]}
  <2>1. extra \subseteq Answered
    <3> SUFFICES ASSUME NEW i \in extra PROVE i \in Answered
      OBVIOUS
    <3>1. PICK e \in Jobs, n \in 2 .. MaxImages : i = <<e, n>> /\ images[e] >= n
      OBVIOUS
    <3> QED
      BY <3>1, ImagesAssumption DEF Answered
  <2>2. IsFiniteSet(Answered)
    BY FinitePairs DEF Answered
  <2>3. IsFiniteSet(extra) /\ Cardinality(extra) <= Cardinality(Answered)
    BY <2>1, <2>2, FS_Subset
  <2>4. Cardinality(extra) \in Nat /\ Cardinality(Answered) \in Nat
    BY <2>2, <2>3, FS_CardinalityType
  <2>5. crashes \in Nat
    BY ImagesAssumption DEF QueueInv, TypeOK
  <2>6. Cardinality(extra) <= crashes
    BY <2>3, <2>4, <2>5 DEF ImagesInv
  <2> QED
    BY <2>6 DEF BoundedByCrashes, AttemptsInv
<1>2. QueueInv /\ ImagesInv /\ AttemptsInv /\ [Next]_vars => (QueueInv /\ ImagesInv /\ AttemptsInv)'
  BY NextQueueInv, NextImagesInv, NextAttemptsInv
<1> QED
  BY <1>1, <1>2, InitQueueInv, InitCrashes, PTL DEF Spec

-----------------------------------------------------------------------------
(* The companies' turns.                                                    *)

LEMMA RankIsNat ==
  ASSUME NEW rows, NEW j \in Jobs
  PROVE  Rank(rows, j) \in Nat
<1> DEFINE ahead == {e \in Jobs \ {j} :
                       /\ OwnerOf[e] = OwnerOf[j]
                       /\ \/ rows[e].status = "RUNNING"
                          \/ rows[e].status = "QUEUED" /\ rows[e].created < rows[j].created}
<1>1. IsFiniteSet(ahead)
  BY ImagesAssumption, FS_Subset
<1> QED
  BY <1>1, FS_CardinalityType DEF Rank

\* First in line: no other image of the company is made or older.
LEMMA RankZero ==
  ASSUME NEW rows, NEW j \in Jobs
  PROVE  Rank(rows, j) = 0 <=>
           \A e \in Jobs \ {j} : OwnerOf[e] = OwnerOf[j] =>
             /\ rows[e].status # "RUNNING"
             /\ rows[e].status = "QUEUED" => ~(rows[e].created < rows[j].created)
<1> DEFINE ahead == {e \in Jobs \ {j} :
                       /\ OwnerOf[e] = OwnerOf[j]
                       /\ \/ rows[e].status = "RUNNING"
                          \/ rows[e].status = "QUEUED" /\ rows[e].created < rows[j].created}
<1>1. IsFiniteSet(ahead)
  BY ImagesAssumption, FS_Subset
<1>2. Rank(rows, j) = 0 <=> ahead = {}
  BY <1>1, FS_EmptySet DEF Rank
<1> QED
  BY <1>2

\* As far as a claim's snapshot shows, a company with nothing being made and its
\* oldest waiting image due is served before another's second image, unless that
\* image was taken, locked or cancelled since.
THEOREM TurnsAreTaken == Spec => CompaniesTakeTurns
<1> DEFINE Turn(w, j) ==
      LET seen == claim[w].seen IN
      claim[w].row # j /\ claim'[w].row = j /\ RunningIn(seen, OwnerOf[j]) \ {j} # {} =>
        \A t \in Tenants \ {OwnerOf[j]} :
          RunningIn(seen, t) = {} => \A k \in OldestIn(seen, t) : seen[k].due => ~StillDue(k)
<1>1. TypeOK /\ [Next]_vars => [\A w \in Workers, j \in Jobs : Turn(w, j)]_vars
  <2> SUFFICES ASSUME TypeOK, Next, NEW w \in Workers, NEW j \in Jobs,
                      claim[w].row # j, claim'[w].row = j,
                      RunningIn(claim[w].seen, OwnerOf[j]) \ {j} # {},
                      NEW t \in Tenants, RunningIn(claim[w].seen, t) = {},
                      NEW i \in OldestIn(claim[w].seen, t), claim[w].seen[i].due, StillDue(i)
               PROVE  FALSE
    OBVIOUS
  <2> DEFINE seen == claim[w].seen
  <2>1. claim \in [Workers -> Claims] /\ Nobody \notin Jobs /\ seen \in [Jobs -> Rows]
    BY ImagesAssumption DEF TypeOK, Claims
  <2>2. PICK v \in Workers, k \in Jobs : Pick(v, k)
    <3>1. ASSUME NEW v \in Workers, FindNone(v) \/ LoseClaim(v) \/ \E k \in Jobs : Claim(v, k)
          PROVE  FALSE
      <4>1. claim' = [claim EXCEPT ![v] = NoClaim]
        BY <3>1 DEF FindNone, LoseClaim, Claim
      <4> QED
        BY <4>1, <2>1 DEF NoClaim
    <3>2. ASSUME NEW v \in Workers, Look(v) PROVE FALSE
      BY <3>2, <2>1 DEF Look, Claims
    <3>3. claim' # claim
      OBVIOUS
    <3>4. ~UserStep /\ \A k \in Jobs : ~GoStale(k) /\ ~BackoffEnds(k)
      BY <3>3 DEF UserStep, Ask, Insert, Cancel, Retry, GoStale, BackoffEnds
    <3>5. \A v \in Workers : ~Run(v) /\ ~Abandon(v) /\ ~KeeperEnds(v)
      BY <3>3 DEF Run, Start, Store, Complete, FailForGood, FailAttempt, Busy, Fail, Abandon, KeeperEnds
    <3> QED
      BY <3>1, <3>2, <3>4, <3>5 DEF Next, ClaimStep
  <2>3. v = w /\ k = j
    BY <2>1, <2>2 DEF Pick, NoClaim
  <2>4. /\ i \in Jobs /\ OwnerOf[i] = t /\ seen[i].status = "QUEUED"
        /\ \A e \in Jobs : OwnerOf[e] = t /\ seen[e].status = "QUEUED" => seen[i].created <= seen[e].created
    BY DEF OldestIn, WaitingIn
  <2>5. i \in Free(w)
    BY <2>4 DEF Free, Claimable, StillDue
  <2>6. Rank(seen, i) = 0
    <3>1. \A e \in Jobs : OwnerOf[e] = t => seen[e].status # "RUNNING"
      BY DEF RunningIn
    <3>2. \A e \in Jobs : OwnerOf[e] = t /\ seen[e].status = "QUEUED" => ~(seen[e].created < seen[i].created)
      BY <2>1, <2>4 DEF Rows
    <3> HIDE DEF seen
    <3> QED
      BY <2>4, <3>1, <3>2, RankZero
  <2>7. Rank(seen, j) # 0
    <3>1. PICK e \in Jobs \ {j} : OwnerOf[e] = OwnerOf[j] /\ seen[e].status = "RUNNING"
      BY DEF RunningIn
    <3> HIDE DEF seen
    <3> QED
      BY <3>1, RankZero
  <2>8. Before(seen, j, i)
    BY <2>2, <2>3, <2>5 DEF Pick
  <2> HIDE DEF seen
  <2> QED
    BY <2>4, <2>6, <2>7, <2>8, RankIsNat DEF Before
<1> QED
  BY <1>1, InitTyped, NextTyped, PTL DEF Spec, CompaniesTakeTurns
=============================================================================
