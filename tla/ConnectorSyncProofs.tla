------------------------- MODULE ConnectorSyncProofs -------------------------
(***************************************************************************)
(* Theorems of ConnectorSync for any sources, workers, settings, periods   *)
(* and number of crashes.  SyncInv is the inductive invariant: what a slot *)
(* says by itself, and what the place a worker is at says of the slot as   *)
(* long as the worker holds it.                                            *)
(* ReaderInv adds that who reads a source holds its receipt, or finds it   *)
(* parked.                                                                 *)
(***************************************************************************)
EXTENDS ConnectorSync, TLAPS

\* A worker that is not idle works on a source.
OnSource == \A w \in Workers : workers[w].at # "idle" => workers[w].of \in Sources

Typed == TypeOK /\ OnSource

(* ---------------------------- Type correctness --------------------------- *)

\* The parts of a slot that the steps write.
LEMMA SlotWrites ==
  ASSUME NEW x \in Slot
  PROVE  /\ \A w \in Workers : [x EXCEPT !.known = @ \cup {w}] \in Slot
         /\ \A v \in {"retryable", "reconciliation_required"} :
              /\ [x EXCEPT !.state = v, !.owner = NoOne, !.live = FALSE] \in Slot
              /\ [x EXCEPT !.owner = NoOne, !.state = v] \in Slot
         /\ \A w \in Workers : [x EXCEPT !.state = "authorized", !.owner = w, !.live = TRUE] \in Slot
         /\ [x EXCEPT !.state = "provider_started"] \in Slot
         /\ \A j \in JobStates : [x EXCEPT !.job = j] \in Slot
         /\ [x EXCEPT !.live = FALSE] \in Slot
BY DEF Slot, Leased

\* The empty slot and the resting worker.
LEMMA BlankTyped == Empty \in Slot /\ Resting \in Worker
BY ConnectorAssumption DEF Empty, Slot, Resting, Worker, JobStates, Leased, Steps, Results, Verdicts

\* Each way a step moves its worker keeps the workers typed and on a source.
LEMMA WorkerMoves ==
  ASSUME Typed, NEW w \in Workers,
         \/ Rest(w)
         \/ ~At(w, "idle") /\ \E step \in Steps : Go(w, step)
         \/ ~At(w, "idle") /\ \E v \in Verdicts : Judge(w, v)
  PROVE  workers' \in [Workers -> Worker] /\ OnSource'
<1>1. workers \in [Workers -> Worker] /\ workers[w] \in Worker
  BY DEF Typed, TypeOK
<1>2. CASE Rest(w)
  BY <1>1, <1>2, BlankTyped DEF Rest, Typed, OnSource, Resting
<1>3. ASSUME ~At(w, "idle"), NEW step \in Steps, Go(w, step)
      PROVE  workers' \in [Workers -> Worker] /\ OnSource'
  BY <1>1, <1>3 DEF Go, At, Typed, OnSource, Worker
<1>4. ASSUME ~At(w, "idle"), NEW v \in Verdicts, Judge(w, v)
      PROVE  workers' \in [Workers -> Worker] /\ OnSource'
  BY <1>1, <1>4 DEF Judge, At, Typed, OnSource, Worker, Steps
<1> QED
  BY <1>2, <1>3, <1>4

\* Init establishes the types.
LEMMA InitTyped == Init => Typed
<1> SUFFICES ASSUME Init PROVE Typed
  OBVIOUS
<1>1. slot \in [Sources -> Slot] /\ workers \in [Workers -> Worker]
  BY BlankTyped DEF Init
<1>2. TypeOK
  BY <1>1, ConnectorAssumption DEF Init, TypeOK, JobStates
<1>3. OnSource
  BY DEF Init, OnSource, Resting
<1> QED
  BY <1>2, <1>3 DEF Typed

\* The steps of a worker keep the types.
LEMMA WorkerStepTyped ==
  ASSUME Typed, NEW w \in Workers, WorkerStep(w)
  PROVE  Typed'
<1> DEFINE s == SourceOf(w)
<1>a. /\ slot \in [Sources -> Slot] /\ workers \in [Workers -> Worker] /\ workers[w] \in Worker
      /\ last \in [Sources -> [state : Terminal \cup {"none"}, job : JobStates]]
      /\ stray \in [Sources -> BOOLEAN] /\ synced \in [Sources -> BOOLEAN] /\ config \in [Sources -> Configs]
      /\ period \in 0..MaxPeriod
  BY DEF Typed, TypeOK
<1>b. ~At(w, "idle")
  BY DEF WorkerStep, Intend, IntendRefused, ClaimRefused, ClaimUncertain, ClaimDenied, ClaimGranted, Load,
     PrepareJob, Begin, BeginRefused, RunAborts, CloseJob, CloseFenced, FailChanged, Finish, FinishRefused,
     Run, At
<1>c. s \in Sources /\ slot[s] \in Slot
  BY <1>a, <1>b DEF Typed, OnSource, At, SourceOf
<1>d. /\ Terminal \subseteq Verdicts /\ {"completed", "failed", "denied", "retryable", "reconciliation_required"} \subseteq Verdicts
      /\ Verdicts \ Terminal \subseteq {"retryable", "reconciliation_required"}
      /\ {"authorized", "provider_started"} \subseteq Leased
  BY DEF Terminal, Verdicts, Leased
<1>t. ASSUME slot' \in [Sources -> Slot], workers' \in [Workers -> Worker], OnSource',
             last' \in [Sources -> [state : Terminal \cup {"none"}, job : JobStates]],
             stray' \in [Sources -> BOOLEAN], synced' \in [Sources -> BOOLEAN], UNCHANGED surroundings
      PROVE  Typed'
  BY <1>t DEF Typed, TypeOK, surroundings
<1>w. /\ \A x \in Slot : SetSlot(s, x) => slot' \in [Sources -> Slot]
      /\ \A v \in Terminal : Settle(s, v) =>
           slot' \in [Sources -> Slot] /\ last' \in [Sources -> [state : Terminal \cup {"none"}, job : JobStates]]
  <2>1. \A x \in Slot : SetSlot(s, x) => slot' \in [Sources -> Slot]
    BY <1>a DEF SetSlot
  <2>2. slot[s].job \in JobStates
    BY <1>c DEF Slot
  <2>3. ASSUME NEW v \in Terminal, Settle(s, v)
        PROVE  last' \in [Sources -> [state : Terminal \cup {"none"}, job : JobStates]]
    BY <2>2, <2>3, <1>a DEF Settle
  <2> QED
    BY <2>1, <2>3, BlankTyped DEF Settle
<1>m. /\ Rest(w) => workers' \in [Workers -> Worker] /\ OnSource'
      /\ \A step \in Steps : Go(w, step) => workers' \in [Workers -> Worker] /\ OnSource'
      /\ \A v \in Verdicts : Judge(w, v) => workers' \in [Workers -> Worker] /\ OnSource'
  BY <1>b, WorkerMoves
<1> HIDE DEF s
<1>1. ASSUME Intend(w) PROVE Typed'
  <2>1. [Empty EXCEPT !.state = "dispatch_pending", !.period = period, !.known = {w}] \in Slot
    BY <1>a, BlankTyped DEF Empty, Slot
  <2>2. [slot[s] EXCEPT !.known = @ \cup {w}] \in Slot
    BY <1>c, SlotWrites DEF Slot
  <2>3. slot' \in [Sources -> Slot]
    BY <1>1, <2>1, <2>2, <1>w DEF Intend, s
  <2>4. workers' \in [Workers -> Worker] /\ OnSource'
    BY <1>1, <1>m DEF Intend, Steps
  <2> QED
    BY <1>1, <2>3, <2>4, <1>t, <1>a DEF Intend
<1>2. ASSUME IntendRefused(w) \/ ClaimRefused(w) PROVE Typed'
  BY <1>2, <1>m, <1>t, <1>a DEF IntendRefused, ClaimRefused
<1>3. ASSUME ClaimUncertain(w) PROVE Typed'
  <2>1. slot' \in [Sources -> Slot]
    <3>1. [slot[s] EXCEPT !.state = "reconciliation_required", !.owner = NoOne, !.live = FALSE] \in Slot
      BY <1>c, SlotWrites
    <3> QED
      BY <1>3, <3>1, <1>w DEF ClaimUncertain, s
  <2> QED
    BY <1>3, <2>1, <1>m, <1>t, <1>a DEF ClaimUncertain
<1>4. ASSUME ClaimDenied(w) PROVE Typed'
  BY <1>4, <1>w, <1>m, <1>t, <1>a DEF ClaimDenied, s, Terminal
<1>5. ASSUME ClaimGranted(w) PROVE Typed'
  <2>1. slot' \in [Sources -> Slot]
    <3>1. [slot[s] EXCEPT !.state = "authorized", !.owner = w, !.live = TRUE] \in Slot
      BY <1>c, SlotWrites
    <3> QED
      BY <1>5, <3>1, <1>w DEF ClaimGranted, s
  <2>2. workers' \in [Workers -> Worker] /\ OnSource'
    BY <1>5, <1>m DEF ClaimGranted, Steps
  <2> QED
    BY <1>5, <2>1, <2>2, <1>t, <1>a DEF ClaimGranted
<1>6. ASSUME Load(w) PROVE Typed'
  <2>1. CASE approved[s] /\ ~broken[s]
    <3>1. workers' = [workers EXCEPT ![w].at = "loaded", ![w].cfg = config[s]]
      BY <1>6, <2>1 DEF Load, s
    <3>2. config[s] \in Configs
      BY <1>a, <1>c
    <3>3. workers' \in [Workers -> Worker]
      BY <3>1, <3>2, <1>a DEF Worker, Steps
    <3>4. OnSource'
      BY <3>1, <1>a, <1>b DEF Typed, OnSource, At, Worker
    <3> QED
      BY <3>3, <3>4, <1>6, <1>t, <1>a DEF Load
  <2>2. CASE ~(approved[s] /\ ~broken[s])
    BY <1>6, <2>2, <1>m, <1>t, <1>a, <1>d DEF Load, s
  <2> QED
    BY <2>1, <2>2
<1>7. ASSUME PrepareJob(w) PROVE Typed'
  <2>1. CASE Go(w, "ready") /\ UNCHANGED slot
    BY <1>7, <2>1, <1>m, <1>t, <1>a DEF PrepareJob, Steps
  <2>2. CASE SetSlot(s, [slot[s] EXCEPT !.job = "PROCESSING"]) /\ Go(w, "ready")
    <3>1. slot' \in [Sources -> Slot]
      BY <2>2, <1>c, <1>w, SlotWrites DEF JobStates
    <3> QED
      BY <3>1, <1>7, <2>2, <1>m, <1>t, <1>a DEF PrepareJob, Steps
  <2>3. CASE /\ workers' = [workers EXCEPT ![w].at = "finishing", ![w].verdict = "retryable",
                                           ![w].inserted = approved[s]]
             /\ UNCHANGED slot
    <3>1. approved[s] \in BOOLEAN
      BY <1>c DEF Typed, TypeOK
    <3>2. workers' \in [Workers -> Worker]
      BY <3>1, <2>3, <1>a DEF Worker, Steps, Verdicts
    <3>3. OnSource'
      BY <2>3, <1>a, <1>b DEF Typed, OnSource, At, Worker
    <3> QED
      BY <3>2, <3>3, <1>7, <2>3, <1>t, <1>a DEF PrepareJob
  <2> QED
    BY <1>7, <2>1, <2>2, <2>3 DEF PrepareJob, s
<1>8. ASSUME Begin(w) PROVE Typed'
  <2>1. slot' \in [Sources -> Slot]
    <3>1. [slot[s] EXCEPT !.state = "provider_started"] \in Slot
      BY <1>c, SlotWrites
    <3> QED
      BY <1>8, <3>1, <1>w DEF Begin, s
  <2>2. workers' \in [Workers -> Worker] /\ OnSource'
    BY <1>8, <1>m DEF Begin, Steps
  <2> QED
    BY <1>8, <2>1, <2>2, <1>t, <1>a DEF Begin
<1>9. ASSUME BeginRefused(w) \/ RunAborts(w) \/ CloseFenced(w) \/ FinishRefused(w) PROVE Typed'
  <2>1. workers' \in [Workers -> Worker] /\ OnSource'
    BY <1>9, <1>m, <1>d DEF BeginRefused, RunAborts, CloseFenced, FinishRefused, Steps
  <2> QED
    BY <1>9, <2>1, <1>t, <1>a DEF BeginRefused, RunAborts, CloseFenced, FinishRefused
<1>10. ASSUME NEW result \in Results, Run(w, result) PROVE Typed'
  <2>1. workers' \in [Workers -> Worker]
    BY <1>10, <1>a DEF Run, Worker, Steps
  <2>2. OnSource'
    BY <1>10, <1>a, <1>b DEF Run, Typed, OnSource, At, Worker
  <2> QED
    BY <1>10, <2>1, <2>2, <1>t, <1>a DEF Run
<1>11. ASSUME CloseJob(w) PROVE Typed'
  <2>1. PICK j \in JobStates : SetSlot(s, [slot[s] EXCEPT !.job = j]) /\ synced' = [synced EXCEPT ![s] = @ \/ j = "COMPLETED"]
    BY <1>11, <1>c DEF CloseJob, s, JobStates, Slot
  <2>2. slot' \in [Sources -> Slot] /\ synced' \in [Sources -> BOOLEAN]
    BY <2>1, <1>a, <1>c, <1>w, SlotWrites
  <2>3. VerdictOf(workers[w].result) \in Verdicts
    BY <1>a DEF VerdictOf, Worker, Results, Verdicts, Terminal
  <2> QED
    BY <1>11, <2>2, <2>3, <1>m, <1>t, <1>a DEF CloseJob
<1>12. ASSUME FailChanged(w) PROVE Typed'
  <2>1. [slot[s] EXCEPT !.job = "FAILED"] \in Slot
    BY <1>c, SlotWrites DEF JobStates
  <2>2. slot' \in [Sources -> Slot]
    BY <1>12, <2>1, <1>a, <1>w DEF FailChanged, s
  <2> QED
    BY <1>12, <2>2, <1>m, <1>t, <1>a, <1>d DEF FailChanged
<1>13. ASSUME Finish(w) PROVE Typed'
  <2>1. workers[w].verdict \in Verdicts /\ workers[w].inserted \in BOOLEAN
    BY <1>a DEF Worker
  <2>2. stray' \in [Sources -> BOOLEAN]
    BY <1>13, <2>1, <1>a, <1>c DEF Finish, s
  <2>3. CASE workers[w].verdict \in Terminal
    BY <1>13, <2>2, <2>3, <1>w, <1>m, <1>t, <1>a DEF Finish, s
  <2>4. CASE workers[w].verdict \notin Terminal
    <3>1. [slot[s] EXCEPT !.state = workers[w].verdict, !.owner = NoOne, !.live = FALSE] \in Slot
      <4>1. workers[w].verdict \in {"retryable", "reconciliation_required"}
        BY <2>1, <2>4, <1>d
      <4> QED
        BY <4>1, <1>c, SlotWrites
    <3>2. slot' \in [Sources -> Slot] /\ last' = last
      BY <1>13, <2>4, <3>1, <1>w DEF Finish, s
    <3> QED
      BY <1>13, <2>2, <3>2, <1>m, <1>t, <1>a DEF Finish
  <2> QED
    BY <2>3, <2>4
<1> QED
  BY <1>1, <1>2, <1>3, <1>4, <1>5, <1>6, <1>7, <1>8, <1>9, <1>10, <1>11, <1>12, <1>13 DEF WorkerStep

\* Starts, deaths, recovery and the surroundings keep the types too.
LEMMA NextTyped == Typed /\ [Next]_vars => Typed'
<1> SUFFICES ASSUME Typed, [Next]_vars PROVE Typed'
  OBVIOUS
<1>a. /\ TypeOK /\ OnSource /\ workers \in [Workers -> Worker] /\ slot \in [Sources -> Slot]
      /\ crashes \in 0..MaxCrashes /\ period \in 0..MaxPeriod
  BY DEF Typed, TypeOK
<1>1. ASSUME NEW w \in Workers, WorkerStep(w) PROVE Typed'
  BY <1>1, WorkerStepTyped
<1>2. ASSUME NEW w \in Workers, Crash(w) PROVE Typed'
  <2>1. workers' \in [Workers -> Worker] /\ OnSource'
    BY <1>2, WorkerMoves DEF Crash
  <2>2. crashes' \in 0..MaxCrashes
    BY <1>2, <1>a, ConnectorAssumption DEF Crash
  <2> QED
    BY <1>2, <2>1, <2>2, <1>a DEF Crash, Typed, TypeOK
<1>3. ASSUME NEW w \in Workers, NEW s \in Sources, StartSync(w, s) PROVE Typed'
  <2>1. [Resting EXCEPT !.at = "listed", !.of = s] \in Worker
    BY BlankTyped DEF Worker, Steps
  <2>2. workers' \in [Workers -> Worker]
    BY <1>3, <1>a, <2>1 DEF StartSync
  <2>3. OnSource'
    BY <1>3, <1>a DEF StartSync, OnSource, Resting
  <2> QED
    BY <1>3, <2>2, <2>3, <1>a DEF StartSync, Typed, TypeOK, surroundings
<1>4. ASSUME NEW s \in Sources, Recover(s) PROVE Typed'
  <2>1. PICK v \in {"retryable", "reconciliation_required"} :
          slot' = [slot EXCEPT ![s] = [slot[s] EXCEPT !.owner = NoOne, !.state = v]]
    BY <1>4 DEF Recover, SetSlot
  <2>2. [slot[s] EXCEPT !.owner = NoOne, !.state = v] \in Slot
    BY <1>a, SlotWrites
  <2>3. slot' \in [Sources -> Slot]
    BY <1>a, <2>1, <2>2
  <2> QED
    BY <1>4, <2>3, <1>a DEF Recover, Typed, TypeOK, surroundings, OnSource
<1>5. ASSUME NEW s \in Sources, LeaseEnds(s) PROVE Typed'
  <2>1. slot' \in [Sources -> Slot]
    BY <1>5, <1>a, SlotWrites DEF LeaseEnds, SetSlot
  <2> QED
    BY <1>5, <2>1, <1>a DEF LeaseEnds, Typed, TypeOK, surroundings, OnSource
<1>6. ASSUME NEW s \in Sources, BecomeDue(s) \/ SetApproved(s) \/ ChangeConfig(s) PROVE Typed'
  BY <1>6, <1>a DEF BecomeDue, SetApproved, ChangeConfig, Typed, TypeOK, surroundings, OnSource
<1>7. ASSUME RollPeriod \/ SetEntitled PROVE Typed'
  <2>1. period' \in 0..MaxPeriod
    BY <1>7, <1>a, ConnectorAssumption DEF RollPeriod, SetEntitled
  <2>2. entitled' \in BOOLEAN
    BY <1>7, <1>a DEF RollPeriod, SetEntitled, TypeOK
  <2> QED
    BY <1>7, <2>1, <2>2, <1>a DEF RollPeriod, SetEntitled, Typed, TypeOK, OnSource
<1>8. ASSUME NEW s \in Sources, FailStaleJob(s) PROVE Typed'
  <2>1. [slot[s] EXCEPT !.job = "STALE"] \in Slot
    BY <1>a, SlotWrites DEF JobStates
  <2>2. slot' \in [Sources -> Slot]
    BY <1>8, <1>a, <2>1 DEF FailStaleJob, SetSlot
  <2>3. last' \in [Sources -> [state : Terminal \cup {"none"}, job : JobStates]]
    BY <1>8 DEF FailStaleJob, Typed, TypeOK, JobStates
  <2> QED
    BY <1>8, <2>2, <2>3, <1>a DEF FailStaleJob, Typed, TypeOK, surroundings, OnSource
<1>9. ASSUME UNCHANGED vars PROVE Typed'
  BY <1>9, <1>a DEF vars, surroundings, Typed, TypeOK, OnSource
<1> QED
  BY <1>1, <1>2, <1>3, <1>4, <1>5, <1>6, <1>7, <1>8, <1>9 DEF Next, Environment

(* -------------------------- The inductive invariant ---------------------- *)

\* A slot is free exactly when it is nobody's receipt, leased exactly when it
\* has an owner, one that may still run has no completed job, and only the job
\* of a collected source grows stale.
SlotInv(s) ==
    /\ slot[s].state = "none" => slot[s].known = {}
    /\ slot[s].owner # NoOne <=> slot[s].state \in Leased
    /\ slot[s].live => slot[s].owner # NoOne
    /\ slot[s].state \in {"none", "dispatch_pending", "retryable", "authorized"} => slot[s].job # "COMPLETED"
    /\ last[s].state = "completed" => last[s].job \in {"COMPLETED", "STALE"}
    /\ slot[s].job = "STALE" \/ last[s].job = "STALE" => s \in Collected

\* As long as a worker holds its receipt, the receipt is where the worker is:
\* not started before the provider, with the job it closes afterwards, and
\* with a job that fits the verdict in the end.
WorkerInv(w) ==
    LET s == SourceOf(w) IN
    Holds(w, s) =>
        /\ workers[w].at \in {"claimed", "loaded", "ready"} => slot[s].state = "authorized"
        /\ workers[w].at \in {"started", "closing"} => slot[s].state = "provider_started"
        /\ workers[w].at \in {"ready", "started", "closing"} => slot[s].job \in {"PROCESSING", "STALE"}
        /\ workers[w].at = "finishing" /\ workers[w].verdict = "retryable" => slot[s].state = "authorized"
        /\ workers[w].at = "finishing" /\ workers[w].verdict = "completed" => slot[s].job \in {"COMPLETED", "STALE"}

SyncInv ==
    /\ Typed
    /\ \A s \in Sources : SlotInv(s)
    /\ \A w \in Workers : WorkerInv(w)

\* A worker's step touches its own slot and place alone, and takes nothing
\* from another that goes on holding the slot.
LEMMA OthersStay ==
  ASSUME SyncInv, NEW w \in Workers, WorkerStep(w), NEW s \in Sources, s = SourceOf(w)
  PROVE  /\ \A t \in Sources : t # s => slot'[t] = slot[t] /\ last'[t] = last[t]
         /\ \A v \in Workers : v # w => workers'[v] = workers[v]
         /\ \A v \in Workers : v # w /\ Holds(v, s)' =>
              Holds(v, s) /\ slot'[s].state = slot[s].state /\ slot'[s].job = slot[s].job
<1>a. /\ slot \in [Sources -> Slot] /\ workers \in [Workers -> Worker]
      /\ last \in [Sources -> [state : Terminal \cup {"none"}, job : JobStates]]
  BY DEF SyncInv, Typed, TypeOK
<1>c. slot[s] \in Slot
  BY <1>a
<1>d. NoOne \notin Workers /\ SlotInv(s)
  BY <1>c, ConnectorAssumption DEF SyncInv
<1>1. \A v \in Workers : v # w => workers'[v] = workers[v]
  BY <1>a DEF WorkerStep, Intend, IntendRefused, ClaimRefused, ClaimUncertain, ClaimDenied, ClaimGranted, Load,
     PrepareJob, Begin, BeginRefused, RunAborts, CloseJob, CloseFenced, FailChanged, Finish, FinishRefused,
     Run, Go, Judge, Rest
<1> DEFINE Quiet == \A v \in Workers : v # w /\ Holds(v, s)' =>
                      Holds(v, s) /\ slot'[s].state = slot[s].state /\ slot'[s].job = slot[s].job
           Local == \A t \in Sources : t # s => slot'[t] = slot[t] /\ last'[t] = last[t]
<1>2. ASSUME UNCHANGED <<slot, last>> PROVE Local /\ Quiet
  BY <1>2 DEF Holds
<1>3. ASSUME \A t \in Sources : t # s => slot'[t] = slot[t], slot'[s].owner \in {NoOne, w}, last' = last
      PROVE  Local /\ Quiet
  BY <1>3, <1>d DEF Holds
<1>4. ASSUME NEW v, Settle(s, v) PROVE Local /\ Quiet
  BY <1>4, <1>a, <1>c, <1>d DEF Settle, SetSlot, Holds, Empty
<1>5. ASSUME Intend(w) PROVE Local /\ Quiet
  <2>1. Local
    BY <1>5, <1>a DEF Intend, SetSlot
  <2>2. CASE slot[s].state = "none"
    <3>1. slot'[s] = [Empty EXCEPT !.state = "dispatch_pending", !.period = period, !.known = {w}]
      BY <1>5, <2>2, <1>a DEF Intend, SetSlot
    <3>2. slot'[s].owner = NoOne
      BY <3>1 DEF Empty
    <3> QED
      BY <2>1, <3>2, <1>3, <1>5 DEF Intend
  <2>3. CASE slot[s].state # "none"
    <3>1. slot'[s] = [slot[s] EXCEPT !.known = @ \cup {w}]
      BY <1>5, <2>3, <1>a DEF Intend, SetSlot
    <3>2. slot'[s].state = slot[s].state /\ slot'[s].job = slot[s].job /\ slot'[s].owner = slot[s].owner
      BY <3>1, <1>c DEF Slot
    <3> QED
      BY <2>1, <3>2 DEF Holds
  <2> QED
    BY <2>2, <2>3
<1>6. ASSUME ClaimUncertain(w) PROVE Local /\ Quiet
  <2>1. \A t \in Sources : t # s => slot'[t] = slot[t]
    BY <1>6, <1>a DEF ClaimUncertain, SetSlot
  <2>2. slot'[s].owner \in {NoOne, w}
    BY <1>6, <1>a, <1>c DEF ClaimUncertain, SetSlot, Slot
  <2> QED
    BY <2>1, <2>2, <1>3, <1>6 DEF ClaimUncertain
<1>7. ASSUME ClaimGranted(w) PROVE Local /\ Quiet
  <2>1. \A t \in Sources : t # s => slot'[t] = slot[t]
    BY <1>7, <1>a DEF ClaimGranted, SetSlot
  <2>2. slot'[s].owner \in {NoOne, w}
    BY <1>7, <1>a, <1>c DEF ClaimGranted, SetSlot, Slot
  <2> QED
    BY <2>1, <2>2, <1>3, <1>7 DEF ClaimGranted
<1>8. ASSUME PrepareJob(w) PROVE Local /\ Quiet
  <2>1. CASE UNCHANGED slot
    BY <1>8, <2>1, <1>2 DEF PrepareJob
  <2>2. CASE ~UNCHANGED slot
    <3>1. \A t \in Sources : t # s => slot'[t] = slot[t]
      BY <1>8, <1>a DEF PrepareJob, SetSlot
    <3>2. slot'[s].owner = w
      BY <1>8, <2>2, <1>a, <1>c DEF PrepareJob, Holds, SetSlot, Slot
    <3> QED
      BY <3>1, <3>2, <1>3, <1>8 DEF PrepareJob
  <2> QED
    BY <2>1, <2>2
<1>9. ASSUME Begin(w) PROVE Local /\ Quiet
  <2>1. \A t \in Sources : t # s => slot'[t] = slot[t]
    BY <1>9, <1>a DEF Begin, SetSlot
  <2>2. slot'[s].owner \in {NoOne, w}
    BY <1>9, <1>a, <1>c DEF Begin, Leases, Holds, SetSlot, Slot
  <2> QED
    BY <2>1, <2>2, <1>3, <1>9 DEF Begin
<1>10. ASSUME CloseJob(w) PROVE Local /\ Quiet
  <2>1. \A t \in Sources : t # s => slot'[t] = slot[t]
    BY <1>10, <1>a DEF CloseJob, SetSlot
  <2>2. slot'[s].owner \in {NoOne, w}
    BY <1>10, <1>a, <1>c DEF CloseJob, Fenced, Leases, Holds, SetSlot, Slot
  <2> QED
    BY <2>1, <2>2, <1>3, <1>10 DEF CloseJob
<1>11. ASSUME FailChanged(w) PROVE Local /\ Quiet
  <2>1. CASE UNCHANGED slot
    BY <1>11, <2>1, <1>2 DEF FailChanged
  <2>2. CASE ~UNCHANGED slot
    <3>1. \A t \in Sources : t # s => slot'[t] = slot[t]
      BY <1>11, <1>a DEF FailChanged, SetSlot
    <3>2. slot'[s].owner = w
      BY <1>11, <2>2, <1>a, <1>c DEF FailChanged, Leases, Holds, SetSlot, Slot
    <3> QED
      BY <3>1, <3>2, <1>3, <1>11 DEF FailChanged
  <2> QED
    BY <2>1, <2>2
<1>12. ASSUME ClaimDenied(w) PROVE Local /\ Quiet
  BY <1>12, <1>4 DEF ClaimDenied
<1>13. ASSUME Finish(w) PROVE Local /\ Quiet
  <2>1. CASE workers[w].verdict \in Terminal
    BY <1>13, <2>1, <1>4 DEF Finish
  <2>2. CASE workers[w].verdict \notin Terminal
    <3>1. slot' = [slot EXCEPT ![s] = [slot[s] EXCEPT !.state = workers[w].verdict, !.owner = NoOne, !.live = FALSE]]
          /\ last' = last
      BY <1>13, <2>2 DEF Finish, SetSlot
    <3>2. slot'[s].owner = NoOne
      BY <3>1, <1>a, <1>c DEF Slot
    <3> QED
      BY <3>1, <3>2, <1>3, <1>a
  <2> QED
    BY <2>1, <2>2
<1>14. Local /\ Quiet
  BY <1>2, <1>5, <1>6, <1>7, <1>8, <1>9, <1>10, <1>11, <1>12, <1>13
  DEF WorkerStep, IntendRefused, ClaimRefused, Load, BeginRefused, RunAborts, CloseFenced, FinishRefused, Run
<1> QED
  BY <1>1, <1>14

\* A worker's step leaves its slot consistent and itself in step with it.
LEMMA OwnFits ==
  ASSUME SyncInv, NEW w \in Workers, WorkerStep(w), NEW s \in Sources, s = SourceOf(w)
  PROVE  SlotInv(s)' /\ WorkerInv(w)'
<1>a. /\ slot \in [Sources -> Slot] /\ workers \in [Workers -> Worker] /\ slot[s] \in Slot
      /\ last \in [Sources -> [state : Terminal \cup {"none"}, job : JobStates]] /\ workers[w] \in Worker
      /\ NoOne \notin Workers
  BY ConnectorAssumption DEF SyncInv, Typed, TypeOK
<1>i. SlotInv(s) /\ WorkerInv(w)
  BY DEF SyncInv
<1>g. /\ \A step : Go(w, step) =>
           workers'[w].at = step /\ workers'[w].of = s /\ workers'[w].verdict = workers[w].verdict
      /\ \A v : Judge(w, v) =>
           workers'[w].at = "finishing" /\ workers'[w].of = s /\ workers'[w].verdict = v
      /\ Rest(w) => workers'[w].at = "idle"
  BY <1>a DEF Go, Judge, Rest, Resting, SourceOf, Worker
<1> DEFINE Places == {"idle", "listed", "intended", "changed"}
           Fits == slot'[s].owner = w /\ slot'[s].state \in Leased =>
             /\ workers'[w].at \in {"claimed", "loaded", "ready"} => slot'[s].state = "authorized"
             /\ workers'[w].at \in {"started", "closing"} => slot'[s].state = "provider_started"
             /\ workers'[w].at \in {"ready", "started", "closing"} => slot'[s].job \in {"PROCESSING", "STALE"}
             /\ workers'[w].at = "finishing" /\ workers'[w].verdict = "retryable" => slot'[s].state = "authorized"
             /\ workers'[w].at = "finishing" /\ workers'[w].verdict = "completed" => slot'[s].job \in {"COMPLETED", "STALE"}
<1>f. workers'[w].at \in Places \/ (workers'[w].of = s /\ Fits) => WorkerInv(w)'
  BY DEF WorkerInv, SourceOf, Holds
<1>k. slot'[s] = slot[s] /\ last'[s] = last[s] => SlotInv(s)'
  BY <1>i DEF SlotInv
<1>h. slot[s].owner = w /\ slot[s].state \in Leased =>
        /\ workers[w].at \in {"claimed", "loaded", "ready"} => slot[s].state = "authorized"
        /\ workers[w].at \in {"started", "closing"} => slot[s].state = "provider_started"
        /\ workers[w].at \in {"ready", "started", "closing"} => slot[s].job \in {"PROCESSING", "STALE"}
        /\ workers[w].at = "finishing" /\ workers[w].verdict = "retryable" => slot[s].state = "authorized"
        /\ workers[w].at = "finishing" /\ workers[w].verdict = "completed" => slot[s].job \in {"COMPLETED", "STALE"}
  BY <1>i DEF WorkerInv, Holds
<1>e. \A v \in Terminal : Settle(s, v) =>
        /\ slot'[s] = Empty /\ last'[s] = [state |-> v, job |-> slot[s].job]
  BY <1>a DEF Settle, SetSlot
<1>x. /\ slot'[s] = Empty /\ last'[s].job = slot[s].job
      /\ last'[s].state = "completed" => last'[s].job \in {"COMPLETED", "STALE"}
      => SlotInv(s)'
  BY <1>i DEF SlotInv, Empty, Leased
<1>1. ASSUME Intend(w) PROVE SlotInv(s)' /\ WorkerInv(w)'
  <2>1. WorkerInv(w)'
    BY <1>1, <1>g, <1>f DEF Intend
  <2>2. CASE slot[s].state = "none"
    <3>1. slot'[s] = [Empty EXCEPT !.state = "dispatch_pending", !.period = period, !.known = {w}]
          /\ last' = last
      BY <1>1, <2>2, <1>a DEF Intend, SetSlot
    <3>2. slot'[s].state = "dispatch_pending" /\ slot'[s].owner = NoOne /\ ~slot'[s].live /\ slot'[s].job = "none"
      BY <3>1 DEF Empty
    <3> QED
      BY <2>1, <3>1, <3>2, <1>i DEF SlotInv, Leased
  <2>3. CASE slot[s].state # "none"
    <3>1. slot'[s] = [slot[s] EXCEPT !.known = @ \cup {w}] /\ last' = last
      BY <1>1, <2>3, <1>a DEF Intend, SetSlot
    <3>2. /\ slot'[s].state = slot[s].state /\ slot'[s].owner = slot[s].owner /\ slot'[s].live = slot[s].live
          /\ slot'[s].job = slot[s].job
      BY <3>1, <1>a DEF Slot
    <3> QED
      BY <2>1, <2>3, <3>1, <3>2, <1>i DEF SlotInv
  <2> QED
    BY <2>2, <2>3
<1>2. ASSUME IntendRefused(w) \/ ClaimRefused(w) PROVE SlotInv(s)' /\ WorkerInv(w)'
  BY <1>2, <1>g, <1>f, <1>k DEF IntendRefused, ClaimRefused
<1>3. ASSUME ClaimUncertain(w) PROVE SlotInv(s)' /\ WorkerInv(w)'
  <2>1. slot' = [slot EXCEPT ![s] = [slot[s] EXCEPT !.state = "reconciliation_required",
                                                    !.owner = NoOne, !.live = FALSE]] /\ last' = last
    BY <1>3 DEF ClaimUncertain, SetSlot
  <2>2. slot'[s].state = "reconciliation_required" /\ slot'[s].owner = NoOne /\ ~slot'[s].live
    BY <2>1, <1>a DEF Slot
  <2>3. WorkerInv(w)'
    BY <1>3, <1>g, <1>f DEF ClaimUncertain
  <2> QED
    BY <2>1, <2>2, <2>3, <1>i DEF SlotInv, Leased
<1>4. ASSUME ClaimDenied(w) PROVE SlotInv(s)' /\ WorkerInv(w)'
  <2>1. slot'[s] = Empty /\ last'[s].state = "denied" /\ last'[s].job = slot[s].job
    BY <1>4, <1>e DEF ClaimDenied, Terminal
  <2>2. WorkerInv(w)'
    BY <1>4, <1>g, <1>f DEF ClaimDenied
  <2> QED
    BY <2>1, <2>2, <1>x
<1>5. ASSUME ClaimGranted(w) PROVE SlotInv(s)' /\ WorkerInv(w)'
  <2>1. slot' = [slot EXCEPT ![s] = [slot[s] EXCEPT !.state = "authorized", !.owner = w, !.live = TRUE]]
        /\ last' = last
    BY <1>5 DEF ClaimGranted, SetSlot
  <2>2. /\ slot'[s].state = "authorized" /\ slot'[s].owner = w /\ slot'[s].live
        /\ slot'[s].job = slot[s].job
    BY <2>1, <1>a DEF Slot
  <2>3. slot[s].state \in {"dispatch_pending", "retryable", "authorized"}
    BY <1>5, <1>a, <1>i DEF ClaimGranted, Unclaimable, SlotInv, Slot, Leased
  <2>4. workers'[w].at = "claimed" /\ workers'[w].of = s
    BY <1>5, <1>g DEF ClaimGranted
  <2>5. WorkerInv(w)'
    BY <2>2, <2>4, <1>f
  <2> QED
    BY <2>1, <2>2, <2>3, <2>5, <1>a, <1>i DEF SlotInv, Leased
<1>6. ASSUME Load(w) PROVE SlotInv(s)' /\ WorkerInv(w)'
  <2>1. slot' = slot /\ last' = last /\ workers[w].at = "claimed"
    BY <1>6 DEF Load, At
  <2>2. CASE approved[s] /\ ~broken[s]
    <3>1. workers' = [workers EXCEPT ![w].at = "loaded", ![w].cfg = config[s]]
      BY <1>6, <2>2 DEF Load
    <3>2. workers'[w].at = "loaded" /\ workers'[w].of = s
      BY <3>1, <1>a DEF Worker, SourceOf
    <3> QED
      BY <2>1, <3>2, <1>f, <1>h, <1>k
  <2>3. CASE ~(approved[s] /\ ~broken[s])
    <3>1. Judge(w, "retryable")
      BY <1>6, <2>3 DEF Load
    <3> QED
      BY <2>1, <3>1, <1>g, <1>f, <1>h, <1>k
  <2> QED
    BY <2>2, <2>3
<1>7. ASSUME PrepareJob(w) PROVE SlotInv(s)' /\ WorkerInv(w)'
  <2>a. last' = last /\ workers[w].at = "loaded"
    BY <1>7 DEF PrepareJob, At
  <2>1. CASE Holds(w, s) /\ slot[s].job = "PROCESSING" /\ Go(w, "ready") /\ UNCHANGED slot
    BY <2>a, <2>1, <1>g, <1>f, <1>h, <1>k
  <2>2. CASE Holds(w, s) /\ SetSlot(s, [slot[s] EXCEPT !.job = "PROCESSING"]) /\ Go(w, "ready")
    <3>1. slot' = [slot EXCEPT ![s] = [slot[s] EXCEPT !.job = "PROCESSING"]]
      BY <2>2 DEF SetSlot
    <3>2. /\ slot'[s].state = slot[s].state /\ slot'[s].owner = slot[s].owner /\ slot'[s].live = slot[s].live
          /\ slot'[s].job = "PROCESSING" /\ slot'[s].known = slot[s].known
      BY <3>1, <1>a DEF Slot
    <3>3. WorkerInv(w)'
      BY <2>a, <2>2, <3>2, <1>g, <1>f, <1>h
    <3> QED
      BY <2>a, <3>2, <3>3, <1>i DEF SlotInv
  <2>3. CASE /\ workers' = [workers EXCEPT ![w].at = "finishing", ![w].verdict = "retryable",
                                           ![w].inserted = approved[s]]
             /\ UNCHANGED slot
    <3>1. workers'[w].at = "finishing" /\ workers'[w].verdict = "retryable" /\ workers'[w].of = s
      BY <2>3, <1>a DEF Worker, SourceOf
    <3> QED
      BY <2>a, <2>3, <3>1, <1>f, <1>h, <1>k
  <2> QED
    BY <1>7, <2>1, <2>2, <2>3 DEF PrepareJob
<1>8. ASSUME Begin(w) PROVE SlotInv(s)' /\ WorkerInv(w)'
  <2>1. slot' = [slot EXCEPT ![s] = [slot[s] EXCEPT !.state = "provider_started"]] /\ last' = last
        /\ Holds(w, s) /\ workers[w].at = "ready"
    BY <1>8 DEF Begin, SetSlot, Leases, At
  <2>2. /\ slot'[s].state = "provider_started" /\ slot'[s].owner = slot[s].owner /\ slot'[s].live = slot[s].live
        /\ slot'[s].job = slot[s].job
    BY <2>1, <1>a DEF Slot
  <2>3. workers'[w].at = "started" /\ workers'[w].of = s
    BY <1>8, <1>g DEF Begin
  <2>4. WorkerInv(w)'
    BY <2>1, <2>2, <2>3, <1>h, <1>f DEF Holds
  <2> QED
    BY <2>1, <2>2, <2>4, <1>a, <1>i DEF SlotInv, Holds, Leased
<1>9. ASSUME BeginRefused(w) PROVE SlotInv(s)' /\ WorkerInv(w)'
  <2>1. slot' = slot /\ last' = last /\ workers[w].at = "ready"
    BY <1>9 DEF BeginRefused, At
  <2>2. CASE Judge(w, "retryable")
    BY <2>1, <2>2, <1>g, <1>f, <1>h, <1>k
  <2>3. CASE Go(w, "changed")
    BY <2>1, <2>3, <1>g, <1>f, <1>k
  <2> QED
    BY <1>9, <2>2, <2>3 DEF BeginRefused
<1>10. ASSUME RunAborts(w) PROVE SlotInv(s)' /\ WorkerInv(w)'
  <2>1. slot' = slot /\ last' = last
    BY <1>10 DEF RunAborts
  <2>2. CASE Judge(w, "reconciliation_required")
    BY <2>1, <2>2, <1>g, <1>f, <1>k
  <2>3. CASE Go(w, "changed")
    BY <2>1, <2>3, <1>g, <1>f, <1>k
  <2> QED
    BY <1>10, <2>2, <2>3 DEF RunAborts
<1>11. ASSUME NEW result \in Results, Run(w, result) PROVE SlotInv(s)' /\ WorkerInv(w)'
  <2>1. slot' = slot /\ last' = last /\ workers[w].at = "started"
        /\ workers'[w].at = "closing" /\ workers'[w].of = s
    BY <1>11, <1>a DEF Run, At, Worker, SourceOf
  <2> QED
    BY <2>1, <1>f, <1>h, <1>k
<1>12. ASSUME CloseJob(w) PROVE SlotInv(s)' /\ WorkerInv(w)'
  <2>1. Holds(w, s) /\ workers[w].at = "closing" /\ last' = last
    BY <1>12 DEF CloseJob, Fenced, Leases, At
  <2>2. slot[s].owner = w /\ slot[s].state = "provider_started" /\ slot[s].job \in {"PROCESSING", "STALE"}
    BY <2>1, <1>h DEF Holds
  <2> DEFINE end == IF workers[w].result = "full" THEN "COMPLETED" ELSE "FAILED"
             job == IF slot[s].job = "PROCESSING" THEN end ELSE slot[s].job
  <2>3. slot' = [slot EXCEPT ![s] = [slot[s] EXCEPT !.job = job]]
    BY <1>12 DEF CloseJob, SetSlot
  <2>4. /\ slot'[s].state = slot[s].state /\ slot'[s].owner = slot[s].owner /\ slot'[s].live = slot[s].live
        /\ slot'[s].job = job
    BY <2>3, <1>a DEF Slot
  <2>5. /\ workers'[w].at = "finishing" /\ workers'[w].of = s
        /\ workers'[w].verdict = VerdictOf(workers[w].result)
    BY <1>12, <1>g DEF CloseJob
  <2>6. /\ VerdictOf(workers[w].result) # "retryable"
        /\ VerdictOf(workers[w].result) = "completed" => workers[w].result = "full"
    BY <1>a DEF VerdictOf, Worker, Results
  <2>7. WorkerInv(w)'
    BY <2>2, <2>4, <2>5, <2>6, <1>f
  <2> QED
    BY <2>1, <2>2, <2>4, <2>7, <1>i DEF SlotInv, Leased
<1>13. ASSUME CloseFenced(w) PROVE SlotInv(s)' /\ WorkerInv(w)'
  <2>1. slot' = slot /\ last' = last
    BY <1>13 DEF CloseFenced
  <2>2. PICK v \in {"failed", "reconciliation_required"} : Judge(w, v)
    BY <1>13 DEF CloseFenced
  <2> QED
    BY <2>1, <2>2, <1>g, <1>f, <1>k
<1>14. ASSUME FailChanged(w) PROVE SlotInv(s)' /\ WorkerInv(w)'
  <2>1. Judge(w, "failed") /\ last' = last
    BY <1>14 DEF FailChanged
  <2>2. WorkerInv(w)'
    BY <2>1, <1>g, <1>f
  <2>3. CASE slot' = slot
    BY <2>1, <2>2, <2>3, <1>k
  <2>4. CASE slot' # slot
    <3>1. slot' = [slot EXCEPT ![s] = [slot[s] EXCEPT !.job = "FAILED"]]
      BY <1>14, <2>4 DEF FailChanged, SetSlot
    <3>2. /\ slot'[s].state = slot[s].state /\ slot'[s].owner = slot[s].owner /\ slot'[s].live = slot[s].live
          /\ slot'[s].job = "FAILED" /\ slot'[s].known = slot[s].known
      BY <3>1, <1>a DEF Slot
    <3> QED
      BY <2>1, <2>2, <3>2, <1>i DEF SlotInv
  <2> QED
    BY <2>3, <2>4
<1>15. ASSUME Finish(w) PROVE SlotInv(s)' /\ WorkerInv(w)'
  <2>1. Holds(w, s) /\ workers[w].at = "finishing" /\ Rest(w)
    BY <1>15 DEF Finish, At
  <2>2. WorkerInv(w)'
    BY <2>1, <1>g, <1>f
  <2>3. CASE workers[w].verdict \in Terminal
    <3>1. slot'[s] = Empty /\ last'[s] = [state |-> workers[w].verdict, job |-> slot[s].job]
      BY <1>15, <2>3, <1>e DEF Finish
    <3>2. last'[s].job = slot[s].job /\ (last'[s].state = "completed" => last'[s].job \in {"COMPLETED", "STALE"})
      BY <3>1, <2>1, <1>h DEF Holds
    <3> QED
      BY <2>2, <3>1, <3>2, <1>x
  <2>4. CASE workers[w].verdict \notin Terminal
    <3>1. slot' = [slot EXCEPT ![s] = [slot[s] EXCEPT !.state = workers[w].verdict, !.owner = NoOne, !.live = FALSE]]
          /\ last' = last
      BY <1>15, <2>4 DEF Finish, SetSlot
    <3>2. /\ slot'[s].state = workers[w].verdict /\ slot'[s].owner = NoOne /\ ~slot'[s].live
          /\ slot'[s].job = slot[s].job
      BY <3>1, <1>a DEF Slot
    <3>3. workers[w].verdict \in {"retryable", "reconciliation_required"}
      BY <2>4, <1>a DEF Worker, Verdicts, Terminal
    <3>4. workers[w].verdict = "retryable" => slot[s].job # "COMPLETED"
      BY <2>1, <1>h, <1>i DEF SlotInv, Holds
    <3> QED
      BY <2>2, <3>1, <3>2, <3>3, <3>4, <1>a, <1>i DEF SlotInv, Leased
  <2> QED
    BY <2>3, <2>4
<1>16. ASSUME FinishRefused(w) PROVE SlotInv(s)' /\ WorkerInv(w)'
  <2>1. slot' = slot /\ last' = last
    BY <1>16 DEF FinishRefused
  <2>2. Judge(w, "reconciliation_required") \/ Rest(w)
    BY <1>16 DEF FinishRefused
  <2> QED
    BY <2>1, <2>2, <1>g, <1>f, <1>k
<1> QED
  BY <1>1, <1>2, <1>3, <1>4, <1>5, <1>6, <1>7, <1>8, <1>9, <1>10, <1>11, <1>12, <1>13, <1>14, <1>15, <1>16
  DEF WorkerStep

\* Init establishes the invariant.
LEMMA InitSyncInv == Init => SyncInv
BY InitTyped, ConnectorAssumption DEF Init, SyncInv, SlotInv, WorkerInv, Empty, Resting, Leased

\* Every step keeps it.
LEMMA NextSyncInv == SyncInv /\ [Next]_vars => SyncInv'
<1> SUFFICES ASSUME SyncInv, [Next]_vars PROVE SyncInv'
  OBVIOUS
<1>t. Typed'
  BY NextTyped DEF SyncInv
<1>a. /\ slot \in [Sources -> Slot] /\ workers \in [Workers -> Worker] /\ NoOne \notin Workers \cup Sources
      /\ \A s \in Sources : slot[s] \in Slot
      /\ \A w \in Workers : workers[w] \in Worker
  BY ConnectorAssumption DEF SyncInv, Typed, TypeOK
<1>i. (\A s \in Sources : SlotInv(s)) /\ (\A w \in Workers : WorkerInv(w))
  BY DEF SyncInv
<1>1. ASSUME NEW w \in Workers, WorkerStep(w) PROVE SyncInv'
  <2>1. ~At(w, "idle")
    BY <1>1 DEF WorkerStep, Intend, IntendRefused, ClaimRefused, ClaimUncertain, ClaimDenied, ClaimGranted, Load,
       PrepareJob, Begin, BeginRefused, RunAborts, CloseJob, CloseFenced, FailChanged, Finish, FinishRefused,
       Run, At
  <2>2. PICK s \in Sources : s = SourceOf(w)
    BY <2>1 DEF SyncInv, Typed, OnSource, At, SourceOf
  <2>3. SlotInv(s)' /\ WorkerInv(w)'
    BY <1>1, <2>2, OwnFits
  <2>4. /\ \A t \in Sources : t # s => slot'[t] = slot[t] /\ last'[t] = last[t]
        /\ \A v \in Workers : v # w => workers'[v] = workers[v]
        /\ \A v \in Workers : v # w /\ Holds(v, s)' =>
             Holds(v, s) /\ slot'[s].state = slot[s].state /\ slot'[s].job = slot[s].job
    BY <1>1, <2>2, OthersStay
  <2>5. ASSUME NEW t \in Sources PROVE SlotInv(t)'
    BY <2>3, <2>4, <1>i DEF SlotInv
  <2>6. ASSUME NEW v \in Workers, v # w PROVE WorkerInv(v)'
    <3>1. workers'[v] = workers[v] /\ WorkerInv(v)
      BY <2>4, <2>6, <1>i
    <3>2. CASE workers[v].of = s
      BY <2>4, <2>6, <3>1, <3>2 DEF WorkerInv, SourceOf, Holds
    <3>3. CASE workers[v].of # s /\ workers[v].of \in Sources
      BY <2>4, <3>1, <3>3 DEF WorkerInv, SourceOf, Holds
    <3>4. CASE workers[v].of \notin Sources
      BY <3>1, <3>4 DEF SyncInv, Typed, OnSource, WorkerInv
    <3> QED
      BY <3>2, <3>3, <3>4
  <2> QED
    BY <1>t, <2>3, <2>5, <2>6 DEF SyncInv
<1>2. ASSUME NEW w \in Workers, Crash(w) \/ \E s \in Sources : StartSync(w, s) PROVE SyncInv'
  <2>1. slot' = slot /\ last' = last
    BY <1>2 DEF Crash, StartSync
  <2>2. workers'[w].at \in {"idle", "listed"} /\ \A v \in Workers : v # w => workers'[v] = workers[v]
    <3>1. CASE Crash(w)
      BY <3>1, <1>a DEF Crash, Rest, Resting
    <3>2. ASSUME NEW s \in Sources, StartSync(w, s)
          PROVE  workers'[w].at = "listed" /\ \A v \in Workers : v # w => workers'[v] = workers[v]
      <4>1. workers' = [workers EXCEPT ![w] = [Resting EXCEPT !.at = "listed", !.of = s]]
        BY <3>2 DEF StartSync
      <4>2. workers'[w] = [Resting EXCEPT !.at = "listed", !.of = s]
        BY <4>1, <1>a
      <4>3. workers'[w].at = "listed"
        BY <4>2 DEF Resting
      <4> QED
        BY <4>1, <4>3, <1>a
    <3> QED
      BY <1>2, <3>1, <3>2
  <2>3. ASSUME NEW v \in Workers PROVE WorkerInv(v)'
    BY <2>1, <2>2, <1>i DEF WorkerInv, SourceOf, Holds
  <2> QED
    BY <1>t, <2>1, <2>3, <1>i DEF SyncInv, SlotInv
<1>3. ASSUME NEW s \in Sources, Recover(s) PROVE SyncInv'
  <2>1. slot' = [slot EXCEPT ![s] = [slot[s] EXCEPT !.owner = NoOne, !.state =
                  IF slot[s].state = "provider_started" THEN "reconciliation_required" ELSE "retryable"]]
        /\ last' = last /\ workers' = workers /\ slot[s].owner # NoOne /\ ~slot[s].live
    BY <1>3 DEF Recover, SetSlot
  <2>2. /\ slot'[s].owner = NoOne /\ slot'[s].live = slot[s].live /\ slot'[s].job = slot[s].job
        /\ slot'[s].state = IF slot[s].state = "provider_started" THEN "reconciliation_required" ELSE "retryable"
    BY <2>1, <1>a DEF Slot
  <2>3. SlotInv(s)'
    BY <2>1, <2>2, <1>i, <1>a DEF SlotInv, Leased
  <2>4. ASSUME NEW t \in Sources PROVE SlotInv(t)'
    BY <2>1, <2>3, <1>i, <1>a DEF SlotInv
  <2>5. ASSUME NEW v \in Workers PROVE WorkerInv(v)'
    <3>1. CASE workers[v].of = s
      BY <2>1, <2>2, <3>1, <1>a DEF WorkerInv, SourceOf, Holds
    <3>2. CASE workers[v].of # s /\ workers[v].of \in Sources
      BY <2>1, <3>2, <1>i, <1>a DEF WorkerInv, SourceOf, Holds
    <3>3. CASE workers[v].of \notin Sources
      BY <2>1, <3>3 DEF SyncInv, Typed, OnSource, WorkerInv
    <3> QED
      BY <3>1, <3>2, <3>3
  <2> QED
    BY <1>t, <2>4, <2>5 DEF SyncInv
<1>4. ASSUME NEW s \in Sources, LeaseEnds(s) PROVE SyncInv'
  <2>1. slot' = [slot EXCEPT ![s] = [slot[s] EXCEPT !.live = FALSE]] /\ last' = last /\ workers' = workers
    BY <1>4 DEF LeaseEnds, SetSlot
  <2>2. /\ slot'[s].owner = slot[s].owner /\ ~slot'[s].live /\ slot'[s].job = slot[s].job
        /\ slot'[s].state = slot[s].state /\ slot'[s].known = slot[s].known
    BY <2>1, <1>a DEF Slot
  <2>3. ASSUME NEW t \in Sources PROVE SlotInv(t)'
    BY <2>1, <2>2, <1>i, <1>a DEF SlotInv
  <2>4. ASSUME NEW v \in Workers PROVE WorkerInv(v)'
    <3>1. CASE workers[v].of = s
      BY <2>1, <2>2, <3>1, <1>i DEF WorkerInv, SourceOf, Holds
    <3>2. CASE workers[v].of # s /\ workers[v].of \in Sources
      BY <2>1, <3>2, <1>i, <1>a DEF WorkerInv, SourceOf, Holds
    <3>3. CASE workers[v].of \notin Sources
      BY <2>1, <3>3 DEF SyncInv, Typed, OnSource, WorkerInv
    <3> QED
      BY <3>1, <3>2, <3>3
  <2> QED
    BY <1>t, <2>3, <2>4 DEF SyncInv
<1>5. ASSUME NEW s \in Sources, FailStaleJob(s) PROVE SyncInv'
  <2>a. last \in [Sources -> [state : Terminal \cup {"none"}, job : JobStates]] /\ workers' = workers /\ s \in Collected
    BY <1>5 DEF FailStaleJob, SyncInv, Typed, TypeOK
  <2>1. CASE slot[s].job = "PROCESSING" /\ last' = last /\ SetSlot(s, [slot[s] EXCEPT !.job = "STALE"])
    <3>1. /\ slot'[s].owner = slot[s].owner /\ slot'[s].live = slot[s].live /\ slot'[s].job = "STALE"
          /\ slot'[s].state = slot[s].state /\ slot'[s].known = slot[s].known
          /\ \A t \in Sources : t # s => slot'[t] = slot[t]
      BY <2>1, <1>a DEF SetSlot, Slot
    <3>2. ASSUME NEW t \in Sources PROVE SlotInv(t)'
      BY <2>a, <2>1, <3>1, <1>i DEF SlotInv
    <3>3. ASSUME NEW v \in Workers PROVE WorkerInv(v)'
      <4>1. CASE workers[v].of = s
        BY <2>a, <2>1, <3>1, <4>1, <1>i DEF WorkerInv, SourceOf, Holds
      <4>2. CASE workers[v].of # s /\ workers[v].of \in Sources
        BY <2>a, <3>1, <4>2, <1>i DEF WorkerInv, SourceOf, Holds
      <4>3. CASE workers[v].of \notin Sources
        BY <2>a, <4>3 DEF SyncInv, Typed, OnSource, WorkerInv
      <4> QED
        BY <4>1, <4>2, <4>3
    <3> QED
      BY <1>t, <3>2, <3>3 DEF SyncInv
  <2>2. CASE slot' = slot /\ last' = [last EXCEPT ![s].job = "STALE"]
    <3>1. ASSUME NEW t \in Sources PROVE SlotInv(t)'
      <4>1. last'[t].state = last[t].state /\ (last'[t].job = last[t].job \/ (t = s /\ last'[t].job = "STALE"))
        BY <2>a, <2>2
      <4> QED
        BY <2>a, <2>2, <4>1, <1>i DEF SlotInv
    <3>2. ASSUME NEW v \in Workers PROVE WorkerInv(v)'
      BY <2>a, <2>2, <1>i DEF WorkerInv, SourceOf, Holds
    <3> QED
      BY <1>t, <3>1, <3>2 DEF SyncInv
  <2> QED
    BY <1>5, <2>1, <2>2 DEF FailStaleJob
<1>6. ASSUME UNCHANGED <<slot, last, workers>> PROVE SyncInv'
  BY <1>6, <1>t, <1>i DEF SyncInv, SlotInv, WorkerInv, SourceOf, Holds
<1> QED
  BY <1>1, <1>2, <1>3, <1>4, <1>5, <1>6
  DEF Next, Environment, BecomeDue, SetApproved, ChangeConfig, RollPeriod, SetEntitled, vars

\* Slots, workers and their surroundings stay what they are.
THEOREM TypeCorrect == Spec => []TypeOK
<1>1. SyncInv => TypeOK
  BY DEF SyncInv, Typed
<1> QED
  BY <1>1, InitSyncInv, NextSyncInv, PTL DEF Spec

\* Receipts, jobs and sources agree on what was done, whoever dies or is late
\* between the transactions of a sync, but for the jobs that the maintenance
\* worker took for abandoned.
THEOREM TablesAgree == Spec => []JobsAgree
<1>1. SyncInv => JobsAgree
  BY DEF SyncInv, SlotInv, JobsAgree
<1> QED
  BY <1>1, InitSyncInv, NextSyncInv, PTL DEF Spec

\* Only the live holder of the source's receipt makes the source look fresh.
THEOREM HolderSyncs == Spec => SyncedByHolder
<1>1. SyncInv /\ [Next]_vars => [\A s \in Sources : SyncStep(s)]_vars
  <2> SUFFICES ASSUME SyncInv, Next PROVE \A s \in Sources : SyncStep(s)
    BY DEF SyncStep, vars
  <2>a. synced \in [Sources -> BOOLEAN] /\ slot \in [Sources -> Slot]
    BY DEF SyncInv, Typed, TypeOK
  <2>1. ASSUME NEW w \in Workers, CloseJob(w), NEW s \in Sources PROVE SyncStep(s)
    <3>1. CASE s # SourceOf(w)
      BY <2>1, <2>a, <3>1 DEF CloseJob, SyncStep
    <3>2. CASE s = SourceOf(w)
      <4>1. Holds(w, s) /\ slot[s].live /\ workers[w].at = "closing"
        BY <2>1, <3>2 DEF CloseJob, Fenced, Leases, At
      <4>2. slot[s].state = "provider_started"
        BY <4>1, <3>2 DEF SyncInv, WorkerInv
      <4> DEFINE end == IF workers[w].result = "full" THEN "COMPLETED" ELSE "FAILED"
                 job == IF slot[s].job = "PROCESSING" THEN end ELSE slot[s].job
      <4>3. /\ slot' = [slot EXCEPT ![s] = [slot[s] EXCEPT !.job = job]]
            /\ synced' = [synced EXCEPT ![s] = @ \/ job = "COMPLETED"]
        BY <2>1, <3>2 DEF CloseJob, SetSlot
      <4> HIDE DEF job, end
      <4>4. slot'[s].job = job
        BY <4>3, <2>a DEF Slot
      <4> QED
        BY <4>1, <4>2, <4>3, <4>4, <2>a DEF SyncStep
    <3> QED
      BY <3>1, <3>2
  <2>2. ASSUME NEW t \in Sources, BecomeDue(t) PROVE \A s \in Sources : SyncStep(s)
    BY <2>2, <2>a DEF BecomeDue, SyncStep
  <2>3. ASSUME UNCHANGED synced PROVE \A s \in Sources : SyncStep(s)
    BY <2>3 DEF SyncStep
  <2> QED
    BY <2>1, <2>2, <2>3
    DEF Next, WorkerStep, Environment, Intend, IntendRefused, ClaimRefused, ClaimUncertain, ClaimDenied,
        ClaimGranted, Load, PrepareJob, Begin, BeginRefused, RunAborts, CloseFenced, FailChanged, Finish,
        FinishRefused, Run, StartSync, Crash, Recover, FailStaleJob, LeaseEnds, SetApproved, ChangeConfig, RollPeriod, SetEntitled
<1> QED
  BY <1>1, InitSyncInv, NextSyncInv, PTL DEF Spec, SyncedByHolder

(* ---------------------- One attempt, and none after ---------------------- *)

Parked(s) == slot[s].state = "reconciliation_required"

\* No step takes a receipt from reconciliation_required, so a source that was
\* parked is never read again.
ParkStep(s) == Parked(s) => Parked(s)' /\ \A w \in Workers : SourceOf(w)' = s /\ Reading(w)' => Reading(w)
ParkedIsFinal == [][\A s \in Sources : ParkStep(s)]_vars

ReaderInv ==
    /\ \A w \in Workers : Reading(w) => Holds(w, SourceOf(w)) \/ Parked(SourceOf(w))
    /\ OneReader

\* Who does not hold a receipt may park a started one; beyond that, it touches
\* only a receipt whose provider has not started.
LEMMA StrangersPark ==
  ASSUME SyncInv, NEW w \in Workers, WorkerStep(w), NEW s \in Sources, s = SourceOf(w), ~Holds(w, s)
  PROVE  \/ slot'[s].state = slot[s].state /\ slot'[s].owner = slot[s].owner
         \/ slot[s].state = "provider_started" /\ Parked(s)'
         \/ slot[s].state \in {"none", "dispatch_pending", "retryable", "authorized"}
<1>a. slot \in [Sources -> Slot] /\ slot[s] \in Slot
  BY DEF SyncInv, Typed, TypeOK
<1> DEFINE Goal == \/ slot'[s].state = slot[s].state /\ slot'[s].owner = slot[s].owner
                   \/ slot[s].state = "provider_started" /\ Parked(s)'
                   \/ slot[s].state \in {"none", "dispatch_pending", "retryable", "authorized"}
<1>1. CASE UNCHANGED slot
  BY <1>1
<1>2. CASE Intend(w)
  <2>1. CASE slot[s].state = "none"
    BY <2>1
  <2>2. CASE slot[s].state # "none"
    <3>1. slot'[s] = [slot[s] EXCEPT !.known = @ \cup {w}]
      BY <1>2, <2>2, <1>a DEF Intend, SetSlot
    <3> QED
      BY <3>1, <1>a DEF Slot
  <2> QED
    BY <2>1, <2>2
<1>3. CASE ClaimUncertain(w)
  <2>1. slot[s].state = "provider_started"
    BY <1>3 DEF ClaimUncertain
  <2>2. slot'[s] = [slot[s] EXCEPT !.state = "reconciliation_required", !.owner = NoOne, !.live = FALSE]
    BY <1>3, <1>a DEF ClaimUncertain, SetSlot
  <2>3. Parked(s)'
    BY <2>2, <1>a DEF Parked, Slot
  <2> QED
    BY <2>1, <2>3
<1>4. CASE ClaimDenied(w) \/ ClaimGranted(w)
  BY <1>4, <1>a DEF ClaimDenied, ClaimGranted, Unclaimable, Slot, Leased
<1>5. ~Begin(w) /\ ~CloseJob(w) /\ ~Finish(w)
  BY DEF Begin, CloseJob, Finish, Fenced, Leases
<1>6. PrepareJob(w) \/ FailChanged(w) => UNCHANGED slot
  BY DEF PrepareJob, FailChanged, Leases
<1> QED
  BY <1>1, <1>2, <1>3, <1>4, <1>5, <1>6
  DEF WorkerStep, IntendRefused, ClaimRefused, Load, BeginRefused, RunAborts, CloseFenced, FinishRefused, Run

\* A worker reads after the commit of begin_provider() alone.
LEMMA ReadersBegin ==
  ASSUME SyncInv, NEW w \in Workers, WorkerStep(w), Reading(w)'
  PROVE  /\ SourceOf(w)' = SourceOf(w)
         /\ Begin(w) \/ (Reading(w) /\ UNCHANGED slot)
<1>a. workers \in [Workers -> Worker] /\ workers[w] \in Worker
  BY DEF SyncInv, Typed, TypeOK
<1>1. CASE Begin(w)
  BY <1>1, <1>a DEF Begin, Go, SourceOf, Worker
<1>2. CASE \E result \in Results : Run(w, result)
  <2>1. PICK result \in Results : Run(w, result)
    BY <1>2
  <2>2. workers[w].at = "started" /\ UNCHANGED slot /\ workers'[w].of = workers[w].of
    BY <2>1, <1>a DEF Run, At, Worker
  <2> QED
    BY <2>2 DEF Reading, SourceOf
<1>3. ASSUME NEW row \in Worker, workers' = [workers EXCEPT ![w] = row], row.at \notin {"started", "closing"}
      PROVE  FALSE
  BY <1>3, <1>a DEF Reading
<1>4. \A step \in Steps \ {"started", "closing"} : ~Go(w, step)
  BY <1>a DEF Go, Reading, Worker
<1>5. ~Rest(w)
  BY <1>a DEF Rest, Resting, Reading
<1>6. \A v : ~Judge(w, v)
  BY <1>a DEF Judge, Reading, Worker
<1>7. ~Load(w) /\ ~PrepareJob(w)
  <2>1. ~Load(w)
    BY <1>6, <1>a DEF Load, Reading, Worker
  <2>2. ~PrepareJob(w)
    BY <1>4, <1>a DEF PrepareJob, Reading, Worker, Steps
  <2> QED
    BY <2>1, <2>2
<1>8. "intended" \in Steps \ {"started", "closing"} /\ "claimed" \in Steps \ {"started", "closing"}
      /\ "changed" \in Steps \ {"started", "closing"}
  BY DEF Steps
<1> QED
  BY <1>1, <1>2, <1>4, <1>5, <1>6, <1>7, <1>8
  DEF WorkerStep, Intend, IntendRefused, ClaimRefused, ClaimUncertain, ClaimDenied, ClaimGranted, BeginRefused,
      RunAborts, CloseJob, CloseFenced, FailChanged, Finish, FinishRefused

\* The steps that are not v's own.
Elsewhere ==
    \/ \E w \in Workers : Crash(w) \/ \E s \in Sources : StartSync(w, s)
    \/ \E s \in Sources : Recover(s) \/ FailStaleJob(s)
    \/ Environment
    \/ UNCHANGED vars
Aside(v) == Elsewhere \/ \E w \in Workers \ {v} : WorkerStep(w)

\* What a step makes of the receipts: a parked one stays so, and one that a
\* worker reads under is still its own or was parked.
LEMMA ReceiptsMove ==
  ASSUME SyncInv, [Next]_vars
  PROVE  /\ \A s \in Sources : Parked(s) => Parked(s)'
         /\ \A s \in Sources, v \in Workers :
              Holds(v, s) /\ slot[s].state = "provider_started" /\ Aside(v)
                => Holds(v, s)' \/ Parked(s)'
<1>a. slot \in [Sources -> Slot] /\ (\A s \in Sources : slot[s] \in Slot /\ SlotInv(s)) /\ NoOne \notin Workers
  BY ConnectorAssumption DEF SyncInv, Typed, TypeOK
<1>b. ASSUME NEW w \in Workers, WorkerStep(w) PROVE SourceOf(w) \in Sources
  BY <1>b DEF SyncInv, Typed, OnSource, SourceOf, WorkerStep, Intend, IntendRefused, ClaimRefused, ClaimUncertain,
     ClaimDenied, ClaimGranted, Load, PrepareJob, Begin, BeginRefused, RunAborts, CloseJob, CloseFenced,
     FailChanged, Finish, FinishRefused, Run, At
<1> DEFINE Keeps(s) == /\ Parked(s) => Parked(s)'
                       /\ \A v \in Workers : Holds(v, s) /\ slot[s].state = "provider_started"
                                              => Holds(v, s)' \/ Parked(s)'
<1>1. ASSUME NEW s \in Sources, slot'[s].state = slot[s].state, slot'[s].owner = slot[s].owner PROVE Keeps(s)
  BY <1>1 DEF Parked, Holds
<1>2. ASSUME NEW w \in Workers, WorkerStep(w), NEW s \in Sources
      PROVE  /\ Parked(s) => Parked(s)'
             /\ \A v \in Workers \ {w} : Holds(v, s) /\ slot[s].state = "provider_started"
                                          => Holds(v, s)' \/ Parked(s)'
  <2>1. CASE s # SourceOf(w)
    BY <1>2, <1>b, <2>1, OthersStay, <1>1
  <2>2. CASE s = SourceOf(w) /\ Holds(w, s)
    BY <1>2, <2>2 DEF Holds, Parked, Leased
  <2>3. CASE s = SourceOf(w) /\ ~Holds(w, s)
    <3>1. \/ slot'[s].state = slot[s].state /\ slot'[s].owner = slot[s].owner
          \/ slot[s].state = "provider_started" /\ Parked(s)'
          \/ slot[s].state \in {"none", "dispatch_pending", "retryable", "authorized"}
      BY <1>2, <2>3, StrangersPark
    <3> QED
      BY <3>1, <1>1 DEF Parked
  <2> QED
    BY <2>1, <2>2, <2>3
<1>3. ASSUME NEW t \in Sources, Recover(t), NEW s \in Sources PROVE Keeps(s)
  <2>1. CASE s # t
    BY <1>3, <2>1, <1>1, <1>a DEF Recover, SetSlot
  <2>2. CASE s = t
    <3>1. slot[s].owner # NoOne
      BY <1>3, <2>2 DEF Recover
    <3>2. slot[s].state \in Leased
      BY <3>1, <1>a DEF SlotInv
    <3>3. slot'[s].state = IF slot[s].state = "provider_started" THEN "reconciliation_required" ELSE "retryable"
      BY <1>3, <2>2, <1>a DEF Recover, SetSlot, Slot
    <3> QED
      BY <3>2, <3>3 DEF Parked, Leased
  <2> QED
    BY <2>1, <2>2
<1>4. ASSUME NEW t \in Sources, LeaseEnds(t), NEW s \in Sources PROVE Keeps(s)
  <2>1. slot' = [slot EXCEPT ![t] = [slot[t] EXCEPT !.live = FALSE]]
    BY <1>4 DEF LeaseEnds, SetSlot
  <2>2. slot'[s].state = slot[s].state /\ slot'[s].owner = slot[s].owner
    BY <2>1, <1>a DEF Slot
  <2> QED
    BY <2>2, <1>1
<1>5. ASSUME NEW t \in Sources, FailStaleJob(t), NEW s \in Sources PROVE Keeps(s)
  <2>1. UNCHANGED slot \/ slot' = [slot EXCEPT ![t] = [slot[t] EXCEPT !.job = "STALE"]]
    BY <1>5 DEF FailStaleJob, SetSlot
  <2>2. slot'[s].state = slot[s].state /\ slot'[s].owner = slot[s].owner
    BY <2>1, <1>a DEF Slot
  <2> QED
    BY <2>2, <1>1
<1>6. ASSUME Elsewhere, NEW s \in Sources PROVE Keeps(s)
  <2>1. (\E t \in Sources : Recover(t) \/ FailStaleJob(t) \/ LeaseEnds(t)) \/ UNCHANGED slot
    BY <1>6 DEF Elsewhere, Environment, Crash, StartSync, BecomeDue, SetApproved, ChangeConfig, RollPeriod,
                SetEntitled, vars
  <2> QED
    BY <2>1, <1>1, <1>3, <1>4, <1>5
<1>7. (\E w \in Workers : WorkerStep(w)) \/ Elsewhere
  BY DEF Next, Elsewhere
<1> QED
  BY <1>2, <1>6, <1>7 DEF Aside

\* No worker starts to read by a step of another.
LEMMA NoReaderBegins ==
  ASSUME SyncInv, NEW v \in Workers, Aside(v), Reading(v)'
  PROVE  Reading(v) /\ SourceOf(v)' = SourceOf(v)
<1>a. workers \in [Workers -> Worker] /\ \A w \in Workers : workers[w] \in Worker
  BY DEF SyncInv, Typed, TypeOK
<1>1. ASSUME workers'[v] = workers[v] PROVE Reading(v) /\ SourceOf(v)' = SourceOf(v)
  BY <1>1 DEF Reading, SourceOf
<1>2. ASSUME NEW w \in Workers \ {v}, WorkerStep(w) PROVE workers'[v] = workers[v]
  <2>1. SourceOf(w) \in Sources
    BY <1>2 DEF SyncInv, Typed, OnSource, SourceOf, WorkerStep, Intend, IntendRefused, ClaimRefused, ClaimUncertain,
       ClaimDenied, ClaimGranted, Load, PrepareJob, Begin, BeginRefused, RunAborts, CloseJob, CloseFenced,
       FailChanged, Finish, FinishRefused, Run, At
  <2> QED
    BY <1>2, <2>1, OthersStay
<1>3. ASSUME NEW w \in Workers, Crash(w) PROVE workers'[v] = workers[v]
  <2>1. workers' = [workers EXCEPT ![w] = Resting]
    BY <1>3 DEF Crash, Rest
  <2>2. v # w
    BY <2>1, <1>a DEF Reading, Resting
  <2> QED
    BY <2>1, <2>2
<1>4. ASSUME NEW w \in Workers, NEW s \in Sources, StartSync(w, s) PROVE workers'[v] = workers[v]
  <2>1. workers' = [workers EXCEPT ![w] = [Resting EXCEPT !.at = "listed", !.of = s]]
    BY <1>4 DEF StartSync
  <2>2. v # w
    BY <2>1, <1>a DEF Reading, Resting
  <2> QED
    BY <2>1, <2>2
<1> QED
  BY <1>1, <1>2, <1>3, <1>4
  DEF Aside, Elsewhere, Environment, Recover, FailStaleJob, LeaseEnds, BecomeDue, SetApproved, ChangeConfig, RollPeriod,
      SetEntitled, vars

LEMMA NextReaderInv == SyncInv /\ ReaderInv /\ [Next]_vars => ReaderInv'
<1> SUFFICES ASSUME SyncInv, ReaderInv, [Next]_vars PROVE ReaderInv'
  OBVIOUS
<1>a. slot \in [Sources -> Slot] /\ \A s \in Sources : slot[s] \in Slot
  BY DEF SyncInv, Typed, TypeOK
<1>s. \A v \in Workers : Reading(v) => SourceOf(v) \in Sources
  BY DEF SyncInv, Typed, OnSource, Reading, SourceOf
<1>h. \A v \in Workers : Reading(v) /\ Holds(v, SourceOf(v)) => slot[SourceOf(v)].state = "provider_started"
  BY DEF SyncInv, WorkerInv, Reading
<1>1. ASSUME NEW v \in Workers, Reading(v)', Aside(v)
      PROVE  /\ Reading(v) /\ SourceOf(v)' = SourceOf(v)
             /\ Holds(v, SourceOf(v))' \/ Parked(SourceOf(v))'
  <2>1. Reading(v) /\ SourceOf(v)' = SourceOf(v)
    BY <1>1, NoReaderBegins
  <2>2. PICK s \in Sources : s = SourceOf(v)
    BY <2>1, <1>s
  <2>3. (Holds(v, s) /\ slot[s].state = "provider_started") \/ Parked(s)
    BY <2>1, <2>2, <1>h DEF ReaderInv
  <2>4. Holds(v, s)' \/ Parked(s)'
    BY <2>3, <1>1, ReceiptsMove
  <2> QED
    BY <2>1, <2>2, <2>4 DEF Holds, Parked, SourceOf
<1>2. ASSUME NEW w \in Workers, WorkerStep(w), Reading(w)'
      PROVE  /\ Holds(w, SourceOf(w))' \/ Parked(SourceOf(w))'
             /\ \A v \in Workers \ {w} : Reading(v)' => SourceOf(v)' # SourceOf(w)'
  <2>1. SourceOf(w)' = SourceOf(w) /\ (Begin(w) \/ (Reading(w) /\ UNCHANGED slot))
    BY <1>2, ReadersBegin
  <2>2. \A v \in Workers \ {w} : Aside(v)
    BY <1>2 DEF Aside
  <2>3. CASE Reading(w) /\ UNCHANGED slot
    <3>1. Holds(w, SourceOf(w))' \/ Parked(SourceOf(w))'
      BY <2>1, <2>3 DEF ReaderInv, Holds, Parked, SourceOf
    <3> QED
      BY <2>1, <2>2, <2>3, <3>1, <1>1 DEF ReaderInv, OneReader
  <2>4. CASE Begin(w)
    <3>1. PICK s \in Sources : s = SourceOf(w)
      BY <2>4 DEF Begin, SyncInv, Typed, OnSource, At, SourceOf
    <3>2. Holds(w, s) /\ slot' = [slot EXCEPT ![s] = [slot[s] EXCEPT !.state = "provider_started"]]
      BY <2>4, <3>1 DEF Begin, Leases, SetSlot
    <3>3. Holds(w, s)'
      <4>1. slot'[s].owner = slot[s].owner /\ slot'[s].state = "provider_started"
        BY <3>2, <1>a DEF Slot
      <4> QED
        BY <3>2, <4>1 DEF Holds, Leased
    <3>4. ASSUME NEW v \in Workers \ {w}, Reading(v)' PROVE SourceOf(v)' # SourceOf(w)'
      <4>1. Reading(v) /\ SourceOf(v)' = SourceOf(v)
        BY <1>1, <2>2, <3>4
      <4>2. Holds(v, SourceOf(v)) \/ Parked(SourceOf(v))
        BY <4>1 DEF ReaderInv
      <4> QED
        BY <2>1, <3>1, <3>2, <3>4, <4>1, <4>2 DEF Holds, Parked, Leased
    <3> QED
      BY <2>1, <3>1, <3>3, <3>4 DEF SourceOf, Holds
  <2> QED
    BY <2>1, <2>3, <2>4
<1>3. ASSUME NEW w \in Workers, WorkerStep(w) PROVE ReaderInv'
  <2>1. \A v \in Workers \ {w} : Aside(v)
    BY <1>3 DEF Aside
  <2>2. ASSUME NEW v \in Workers, Reading(v)' PROVE (Holds(v, SourceOf(v)) \/ Parked(SourceOf(v)))'
    <3>1. CASE v = w
      BY <1>2, <1>3, <2>2, <3>1
    <3>2. CASE v # w
      BY <1>1, <2>1, <2>2, <3>2 DEF Holds, Parked, SourceOf
    <3> QED
      BY <3>1, <3>2
  <2>3. ASSUME NEW u \in Workers, NEW v \in Workers, Reading(u)', Reading(v)', SourceOf(u)' = SourceOf(v)' PROVE u = v
    <3>1. CASE u # w /\ v # w
      BY <1>1, <2>1, <2>3, <3>1 DEF ReaderInv, OneReader
    <3>2. CASE u = w \/ v = w
      BY <1>2, <1>3, <2>3, <3>2
    <3> QED
      BY <3>1, <3>2
  <2> QED
    BY <2>2, <2>3 DEF ReaderInv, OneReader
<1>4. CASE Elsewhere
  <2>1. \A v \in Workers : Aside(v)
    BY <1>4 DEF Aside
  <2>2. ASSUME NEW v \in Workers, Reading(v)' PROVE (Holds(v, SourceOf(v)) \/ Parked(SourceOf(v)))'
    BY <1>1, <2>1, <2>2 DEF Holds, Parked, SourceOf
  <2> QED
    BY <1>1, <2>1, <2>2 DEF ReaderInv, OneReader
<1> QED
  BY <1>3, <1>4 DEF Next, Elsewhere

LEMMA InitReaderInv == Init => ReaderInv
BY DEF Init, ReaderInv, OneReader, Reading, Resting

\* However leases end and claims repeat while a client's system answers, one
\* worker at most is reading it.
THEOREM ReadByOne == Spec => []OneReader
<1>1. ReaderInv => OneReader
  BY DEF ReaderInv
<1> QED
  BY <1>1, InitSyncInv, NextSyncInv, InitReaderInv, NextReaderInv, PTL DEF Spec

\* A receipt parked for reconciliation is never taken up again, so its source
\* is not read a second time (and, as nothing else settles it, never again).
THEOREM ParkedStays == Spec => ParkedIsFinal
<1>1. SyncInv /\ ReaderInv /\ [Next]_vars => [\A s \in Sources : ParkStep(s)]_vars
  <2> SUFFICES ASSUME SyncInv, ReaderInv, [Next]_vars, NEW s \in Sources, Parked(s) PROVE ParkStep(s)
    BY DEF ParkStep
  <2>1. Parked(s)'
    BY ReceiptsMove
  <2>2. ASSUME NEW w \in Workers, SourceOf(w)' = s, Reading(w)' PROVE Reading(w)
    <3>1. CASE WorkerStep(w)
      <4>1. SourceOf(w)' = SourceOf(w) /\ (Begin(w) \/ Reading(w))
        BY <2>2, <3>1, ReadersBegin
      <4>2. ~Begin(w)
        BY <2>2, <4>1 DEF Begin, Leases, Holds, Parked, Leased
      <4> QED
        BY <4>1, <4>2
    <3>2. CASE ~WorkerStep(w)
      <4>1. Aside(w)
        BY <3>2 DEF Next, Aside, Elsewhere
      <4> QED
        BY <2>2, <4>1, NoReaderBegins
    <3> QED
      BY <3>1, <3>2
  <2> QED
    BY <2>1, <2>2 DEF ParkStep
<1> QED
  BY <1>1, InitSyncInv, NextSyncInv, InitReaderInv, NextReaderInv, PTL DEF Spec, ParkedIsFinal
===============================================================================
