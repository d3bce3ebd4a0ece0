-------------------------- MODULE TenantCacheProofs --------------------------
(***************************************************************************)
(* That TenantCache serves nothing older than a request may expect, for    *)
(* any processes, keys, requests and writes, and any outages and crashes.  *)
(*                                                                         *)
(* CacheInv says of each value that is stored, or computed and about to    *)
(* be, what its generations are worth: of the process's present one it has *)
(* seen what the process forgot entries for, of the present shared one     *)
(* what Redis was told, and of a generation that a request asks for as     *)
(* much as this request may expect.  A generation that moves on makes one  *)
(* of these claims empty, never false.                                     *)
(*                                                                         *)
(* InflightTrue, at the end, is about who computes.                        *)
(***************************************************************************)
EXTENDS TenantCache, TLAPS

RequestRow ==
  [at : {"new", "asked", "computing", "computed", "done", "failed"}, process : Processes \cup {None},
   key : Keys \cup {None}, shared : Nat \cup {Unknown}, of : Generations \cup {None},
   value : Nat, floor : Nat]
EntryRow == [value : Nat, of : Generations]
BumpRow == [at : {"none", "committed", "forgotten"}, write : Nat]

\* The value v of the generations g, in process p.
Fresh(p, g, v) ==
  /\ g.own <= generation[p]
  /\ g.shared \in Nat => g.shared <= shared
  /\ g.own = generation[p] => v >= bumped[p]
  /\ g.shared = shared => v >= told
  /\ \A q \in Requests :
       /\ request[q].at = "asked" /\ request[q].process = p
       /\ g.own = generation[p] /\ g.shared = request[q].shared
       => v >= request[q].floor

CountsInv ==
  /\ told <= written
  /\ \A p \in Processes : bumped[p] <= written /\ bump[p].write <= written
  /\ \A r \in Requests : request[r].floor <= written

RequestInv(r) ==
  /\ request[r].at \in {"asked", "computing", "computed"} =>
       /\ request[r].process \in Processes /\ request[r].key \in Keys
       /\ request[r].shared \in Nat => request[r].shared <= shared
  /\ request[r].at \in {"computing", "computed"} =>
       /\ request[r].of \in Generations
       /\ request[r].of.own <= generation[request[r].process]
       /\ request[r].of.shared = request[r].shared
  /\ request[r].at \in {"computed", "done"} => request[r].value >= request[r].floor
  /\ request[r].at = "computed" => Fresh(request[r].process, request[r].of, request[r].value)

EntryInv(p, k) == entries[p][k] # NoEntry => Fresh(p, entries[p][k].of, entries[p][k].value)

CacheInv ==
  /\ TypeOK
  /\ CountsInv
  /\ \A r \in Requests : RequestInv(r)
  /\ \A p \in Processes, k \in Keys : EntryInv(p, k)

LEMMA RowsTyped ==
  /\ NewRequest \in RequestRow /\ Failed \in RequestRow
  /\ NoBump \in BumpRow
BY DEF NewRequest, Failed, RequestRow, NoBump, BumpRow, Unknown

LEMMA LaterTyped == \A v, w \in Nat : Later(v, w) \in Nat
BY DEF Later

LEMMA FailureTyped ==
  ASSUME down \in [Processes -> BOOLEAN], failures \in Nat, NEW p \in Processes,
         (down' = down /\ failures' = failures) \/ (down' = [down EXCEPT ![p] = TRUE] /\ failures' = failures + 1)
  PROVE  down' \in [Processes -> BOOLEAN] /\ failures' \in Nat
<1>1. CASE down' = down /\ failures' = failures
  BY <1>1
<1>2. CASE down' = [down EXCEPT ![p] = TRUE] /\ failures' = failures + 1
  <2>1. [down EXCEPT ![p] = TRUE] \in [Processes -> BOOLEAN]
    OBVIOUS
  <2>2. failures + 1 \in Nat
    OBVIOUS
  <2> QED
    BY <1>2, <2>1, <2>2
<1> QED
  BY <1>1, <1>2

LEMMA TypeFacts ==
  TypeOK <=>
    /\ entries \in [Processes -> [Keys -> {NoEntry} \cup EntryRow]]
    /\ generation \in [Processes -> Nat]
    /\ inflight \in [Processes -> [Keys -> Requests \cup {None}]]
    /\ down \in [Processes -> BOOLEAN]
    /\ request \in [Requests -> RequestRow]
    /\ bump \in [Processes -> BumpRow]
    /\ shared \in Nat /\ written \in Nat /\ told \in Nat /\ failures \in Nat /\ crashes \in Nat
    /\ bumped \in [Processes -> Nat]
BY DEF TypeOK, RequestRow, EntryRow, BumpRow

LEMMA InitCacheInv == Init => CacheInv
<1> SUFFICES ASSUME Init PROVE CacheInv
  OBVIOUS
<1>1. TypeOK
  BY RowsTyped, TypeFacts DEF Init
<1>2. CountsInv
  BY DEF Init, CountsInv, NewRequest, NoBump
<1>3. \A r \in Requests : RequestInv(r)
  BY DEF Init, RequestInv, NewRequest
<1>4. \A p \in Processes, k \in Keys : EntryInv(p, k)
  BY DEF Init, EntryInv
<1> QED
  BY <1>1, <1>2, <1>3, <1>4 DEF CacheInv

\* What each step writes is of its type.
LEMMA NextTyped == CacheInv /\ [Next]_vars => TypeOK'
<1> SUFFICES ASSUME CacheInv, [Next]_vars PROVE TypeOK'
  OBVIOUS
<1>t. /\ entries \in [Processes -> [Keys -> {NoEntry} \cup EntryRow]]
      /\ generation \in [Processes -> Nat]
      /\ inflight \in [Processes -> [Keys -> Requests \cup {None}]]
      /\ down \in [Processes -> BOOLEAN]
      /\ request \in [Requests -> RequestRow]
      /\ bump \in [Processes -> BumpRow]
      /\ shared \in Nat /\ written \in Nat /\ told \in Nat /\ failures \in Nat /\ crashes \in Nat
      /\ bumped \in [Processes -> Nat]
  BY TypeFacts DEF CacheInv
<1>r. \A r \in Requests : RequestInv(r)
  BY DEF CacheInv
<1>p. /\ entries' \in [Processes -> [Keys -> {NoEntry} \cup EntryRow]]
      /\ generation' \in [Processes -> Nat]
      /\ inflight' \in [Processes -> [Keys -> Requests \cup {None}]]
      /\ down' \in [Processes -> BOOLEAN]
      /\ request' \in [Requests -> RequestRow]
      /\ bump' \in [Processes -> BumpRow]
      /\ shared' \in Nat /\ written' \in Nat /\ told' \in Nat /\ failures' \in Nat /\ crashes' \in Nat
      /\ bumped' \in [Processes -> Nat]
      => TypeOK'
  BY DEF TypeOK, RequestRow, EntryRow, BumpRow
<1>0. ASSUME UNCHANGED vars PROVE TypeOK'
  BY <1>0, <1>t, <1>p DEF vars
<1>1. ASSUME CommitOutside PROVE TypeOK'
  BY <1>1, <1>t, <1>p DEF CommitOutside, cacheVars
<1>2. ASSUME NEW p \in Processes, Commit(p) PROVE TypeOK'
  BY <1>2, <1>t, <1>p DEF Commit, cacheVars, BumpRow
<1>3. ASSUME NEW p \in Processes, Forget(p) PROVE TypeOK'
  <2>1. bump' \in [Processes -> BumpRow] /\ bumped' \in [Processes -> Nat]
    BY <1>3, <1>t, <1>p DEF Forget, BumpRow
  <2>2. entries' \in [Processes -> [Keys -> {NoEntry} \cup EntryRow]]
    BY <1>3, <1>t, <1>p DEF Forget
  <2> QED
    BY <1>3, <2>1, <2>2, <1>t, <1>p DEF Forget
<1>4. ASSUME NEW p \in Processes, Tell(p) PROVE TypeOK'
  <2>1. bump[p].write \in Nat /\ Later(told, bump[p].write) \in Nat
    BY <1>t, <1>p, LaterTyped DEF BumpRow
  <2>2. bump' \in [Processes -> BumpRow]
    BY <1>4, <1>t, RowsTyped DEF Tell
  <2>3. shared' \in Nat /\ told' \in Nat
    BY <1>4, <2>1, <1>t DEF Tell
  <2>4. (down' = down /\ failures' = failures) \/ (down' = [down EXCEPT ![p] = TRUE] /\ failures' = failures + 1)
    BY <1>4 DEF Tell, Fails
  <2>5. down' \in [Processes -> BOOLEAN] /\ failures' \in Nat
    BY <2>4, <1>t, FailureTyped
  <2> QED
    BY <1>4, <2>2, <2>3, <2>5, <1>t, <1>p DEF Tell
<1>5. ASSUME NEW p \in Processes, Retry(p) PROVE TypeOK'
  BY <1>5, <1>t, <1>p DEF Retry
<1>6. ASSUME NEW p \in Processes, Crash(p) PROVE TypeOK'
  <2>1. request' \in [Requests -> RequestRow]
    BY <1>6, <1>t, <1>p, RowsTyped DEF Crash
  <2>2. /\ entries' \in [Processes -> [Keys -> {NoEntry} \cup EntryRow]]
        /\ inflight' \in [Processes -> [Keys -> Requests \cup {None}]]
    BY <1>6, <1>t, <1>p DEF Crash
  <2> QED
    BY <1>6, <2>1, <2>2, <1>t, <1>p, RowsTyped DEF Crash
<1>7. ASSUME NEW p \in Processes, NEW k \in Keys, Expire(p, k) PROVE TypeOK'
  <2>1. entries' \in [Processes -> [Keys -> {NoEntry} \cup EntryRow]]
    BY <1>7, <1>t, <1>p DEF Expire
  <2> QED
    BY <1>7, <2>1, <1>t, <1>p DEF Expire
<1>8. ASSUME NEW r \in Requests, NEW p \in Processes, NEW k \in Keys, Ask(r, p, k) PROVE TypeOK'
  <2>1. Later(told, bumped[p]) \in Nat /\ bumped[p] \in Nat
    BY <1>t, <1>p, LaterTyped
  <2>2. PICK s \in {shared, Unknown} :
          /\ UNCHANGED <<down, failures>> \/ (Fails /\ down' = [down EXCEPT ![p] = TRUE])
          /\ request' = [request EXCEPT ![r] =
               [@ EXCEPT !.at = "asked", !.process = p, !.key = k, !.shared = s,
                         !.floor = IF s = Unknown THEN bumped[p] ELSE Later(told, bumped[p])]]
    BY <1>8 DEF Ask
  <2>3. request' \in [Requests -> RequestRow]
    <3> DEFINE floor == IF s = Unknown THEN bumped[p] ELSE Later(told, bumped[p])
               row == [request[r] EXCEPT !.at = "asked", !.process = p, !.key = k, !.shared = s, !.floor = floor]
    <3>1. floor \in Nat /\ s \in Nat \cup {Unknown} /\ request[r] \in RequestRow
      BY <2>1, <1>t
    <3>2. row \in RequestRow
      <4> HIDE DEF floor
      <4> QED
        BY <3>1 DEF RequestRow
    <3>3. request' = [request EXCEPT ![r] = row]
      BY <2>2
    <3> QED
      BY <3>2, <3>3, <1>t
  <2>4. (down' = down /\ failures' = failures) \/ (down' = [down EXCEPT ![p] = TRUE] /\ failures' = failures + 1)
    BY <2>2 DEF Fails
  <2>5. down' \in [Processes -> BOOLEAN] /\ failures' \in Nat
    BY <2>4, <1>t, FailureTyped
  <2> QED
    BY <1>8, <2>3, <2>5, <1>t, <1>p DEF Ask
<1>9. ASSUME NEW r \in Requests, Serve(r) PROVE TypeOK'
  <2>1. request[r].process \in Processes /\ request[r].key \in Keys
    BY <1>9, <1>r DEF Serve, RequestInv
  <2>2. Entry(r) \in EntryRow
    BY <1>9, <2>1, <1>t, <1>p DEF Serve, Hit, Entry, Process
  <2>3. request' \in [Requests -> RequestRow]
    BY <1>9, <2>2, <1>t, <1>p DEF Serve, Return, NewRequest, RequestRow, EntryRow, Unknown
  <2> QED
    BY <1>9, <2>3, <1>t, <1>p DEF Serve, cacheVars
<1>10. ASSUME NEW r \in Requests, Start(r) PROVE TypeOK'
  <2>1. request[r].process \in Processes /\ request[r].key \in Keys
    BY <1>10, <1>r DEF Start, RequestInv
  <2>2. Current(r) \in Generations
    BY <2>1, <1>t, <1>p DEF Current, Process, Generations, RequestRow
  <2>3. request' \in [Requests -> RequestRow]
    <3>1. [request[r] EXCEPT !.at = "computing", !.of = Current(r)] \in RequestRow
      BY <2>2, <1>t DEF RequestRow
    <3>2. request' = [request EXCEPT ![r] = [request[r] EXCEPT !.at = "computing", !.of = Current(r)]]
      BY <1>10, <1>t DEF Start, RequestRow
    <3> QED
      BY <3>1, <3>2, <1>t
  <2>4. inflight' \in [Processes -> [Keys -> Requests \cup {None}]]
    BY <1>10, <2>1, <1>t, <1>p DEF Start, Process
  <2> QED
    BY <1>10, <2>3, <2>4, <1>t, <1>p DEF Start
<1>11. ASSUME NEW r \in Requests, Compute(r) PROVE TypeOK'
  <2>1. [request[r] EXCEPT !.at = "computed", !.value = written] \in RequestRow
    BY <1>t DEF RequestRow
  <2>2. request' = [request EXCEPT ![r] = [request[r] EXCEPT !.at = "computed", !.value = written]]
    BY <1>11, <1>t DEF Compute, RequestRow
  <2> QED
    BY <1>11, <2>1, <2>2, <1>t, <1>p DEF Compute, cacheVars
<1>12. ASSUME NEW r \in Requests, Store(r) PROVE TypeOK'
  <2>1. /\ request[r].process \in Processes /\ request[r].key \in Keys /\ request[r].of \in Generations
        /\ request[r].value \in Nat
    BY <1>12, <1>r, <1>t, <1>p DEF Store, RequestInv, RequestRow
  <2>2. inflight' \in [Processes -> [Keys -> Requests \cup {None}]]
    BY <1>12, <2>1, <1>t, <1>p DEF Store, Unregistered, Process
  <2>3. [value |-> request[r].value, of |-> request[r].of] \in EntryRow
    BY <2>1 DEF EntryRow
  <2>4. entries' \in [Processes -> [Keys -> {NoEntry} \cup EntryRow]]
    BY <1>12, <2>1, <2>3, <1>t, <1>p DEF Store, Process
  <2>5. request' \in [Requests -> RequestRow]
    BY <1>12, <2>1, <1>t, <1>p DEF Store, Return, NewRequest, RequestRow, Unknown
  <2> QED
    BY <1>12, <2>2, <2>4, <2>5, <1>t, <1>p DEF Store
<1>13. ASSUME NEW r \in Requests, Raise(r) PROVE TypeOK'
  <2>1. request[r].process \in Processes /\ request[r].key \in Keys
    BY <1>13, <1>r DEF Raise, RequestInv
  <2>2. inflight' \in [Processes -> [Keys -> Requests \cup {None}]]
    BY <1>13, <2>1, <1>t, <1>p DEF Raise, Unregistered, Process
  <2> QED
    BY <1>13, <2>2, <1>t, <1>p, RowsTyped DEF Raise, Fails
<1> QED
  BY <1>0, <1>1, <1>2, <1>3, <1>4, <1>5, <1>6, <1>7, <1>8, <1>9, <1>10, <1>11, <1>12, <1>13 DEF Next, RequestStep

-----------------------------------------------------------------------------
(* What moves: generations and counts only forward, except in a process     *)
(* that dies.                                                               *)

LEMMA Forward ==
  ASSUME CacheInv, Next
  PROVE  /\ shared <= shared'
         /\ \A p \in Processes : ~Crash(p) => generation[p] <= generation'[p]
<1>t. shared \in Nat /\ generation \in [Processes -> Nat]
  BY TypeFacts DEF CacheInv
<1>0. CASE UNCHANGED <<shared, generation>>
  BY <1>0, <1>t
<1>3. ASSUME NEW p \in Processes, Forget(p) PROVE shared' = shared /\ \A q \in Processes : generation[q] <= generation'[q]
  BY <1>3, <1>t DEF Forget
<1>4. ASSUME NEW p \in Processes, Tell(p) PROVE shared <= shared' /\ generation' = generation
  BY <1>4, <1>t DEF Tell
<1>6. ASSUME NEW p \in Processes, Crash(p)
      PROVE  shared' = shared /\ \A q \in Processes : ~Crash(q) => generation[q] <= generation'[q]
  <2>1. shared' = shared /\ generation' = [generation EXCEPT ![p] = 0]
    BY <1>6 DEF Crash
  <2>2. \A q \in Processes : q # p => generation[q] <= generation'[q]
    BY <2>1, <1>t
  <2> QED
    BY <1>6, <2>1, <2>2
<1>7. ASSUME \/ CommitOutside \/ \E p \in Processes : Commit(p) \/ Retry(p)
             \/ \E p \in Processes, k \in Keys : Expire(p, k)
      PROVE  UNCHANGED <<shared, generation>>
  BY <1>7 DEF CommitOutside, Commit, Retry, Expire, cacheVars
<1>8. ASSUME NEW r \in Requests, \/ RequestStep(r) \/ Raise(r)
                                 \/ \E p \in Processes, k \in Keys : Ask(r, p, k)
      PROVE  UNCHANGED <<shared, generation>>
  BY <1>8 DEF RequestStep, Serve, Start, Compute, Store, Raise, Ask, cacheVars
<1> QED
  BY <1>0, <1>3, <1>4, <1>6, <1>7, <1>8, <1>t DEF Next

\* Fresh speaks of nothing else.
LEMMA FreshKept ==
  ASSUME NEW p \in Processes, NEW g, NEW v, Fresh(p, g, v),
         generation'[p] = generation[p], bumped'[p] = bumped[p], shared' = shared, told' = told,
         \A q \in Requests : request'[q].at = "asked" => request'[q] = request[q]
  PROVE  Fresh(p, g, v)'
BY DEF Fresh

\* A step takes one of these forms for every request but those it touches.
LEMMA RequestShapes ==
  ASSUME TypeOK, NEW r \in Requests
  PROVE  /\ Serve(r) => request' = [request EXCEPT ![r] = [NewRequest EXCEPT !.at = "done", !.value = Entry(r).value, !.floor = request[r].floor]]
         /\ Start(r) => request' = [request EXCEPT ![r] = [request[r] EXCEPT !.at = "computing", !.of = Current(r)]]
         /\ Compute(r) => request' = [request EXCEPT ![r] = [request[r] EXCEPT !.at = "computed", !.value = written]]
         /\ Store(r) => request' = [request EXCEPT ![r] = [NewRequest EXCEPT !.at = "done", !.value = request[r].value, !.floor = request[r].floor]]
         /\ Raise(r) => request' = [request EXCEPT ![r] = Failed]
<1>1. request \in [Requests -> RequestRow]
  BY TypeFacts
<1>2. Serve(r) => request' = [request EXCEPT ![r] = [NewRequest EXCEPT !.at = "done", !.value = Entry(r).value, !.floor = request[r].floor]]
  BY DEF Serve, Return
<1>3. Start(r) => request' = [request EXCEPT ![r] = [request[r] EXCEPT !.at = "computing", !.of = Current(r)]]
  BY <1>1 DEF Start, RequestRow
<1>4. Compute(r) => request' = [request EXCEPT ![r] = [request[r] EXCEPT !.at = "computed", !.value = written]]
  BY <1>1 DEF Compute, RequestRow
<1>5. Store(r) => request' = [request EXCEPT ![r] = [NewRequest EXCEPT !.at = "done", !.value = request[r].value, !.floor = request[r].floor]]
  BY DEF Store, Return
<1>6. Raise(r) => request' = [request EXCEPT ![r] = Failed]
  BY DEF Raise
<1> QED
  BY <1>2, <1>3, <1>4, <1>5, <1>6

\* What a request's own steps leave of it.
LEMMA RequestEffects ==
  ASSUME TypeOK, NEW r \in Requests, RequestStep(r) \/ Raise(r)
  PROVE  /\ \A q \in Requests \ {r} : request'[q] = request[q]
         /\ request'[r].at # "asked" /\ request'[r].floor \in {request[r].floor, 0}
         /\ Serve(r) => /\ request'[r].at = "done" /\ request'[r].floor = request[r].floor
                        /\ request'[r].value = Entry(r).value
         /\ Start(r) => /\ request'[r].at = "computing" /\ request'[r].of = Current(r)
                        /\ request'[r].process = request[r].process /\ request'[r].key = request[r].key
                        /\ request'[r].shared = request[r].shared
         /\ Compute(r) => /\ request'[r].at = "computed" /\ request'[r].of = request[r].of
                          /\ request'[r].process = request[r].process /\ request'[r].key = request[r].key
                          /\ request'[r].shared = request[r].shared /\ request'[r].floor = request[r].floor
                          /\ request'[r].value = written
         /\ Store(r) => /\ request'[r].at = "done" /\ request'[r].floor = request[r].floor
                        /\ request'[r].value = request[r].value
         /\ Raise(r) => request'[r].at = "failed"
<1>t. request \in [Requests -> RequestRow] /\ request[r] \in RequestRow
  BY TypeFacts
<1>1. CASE Serve(r)
  <2> DEFINE row == [NewRequest EXCEPT !.at = "done", !.value = Entry(r).value, !.floor = request[r].floor]
  <2>1. row.at = "done" /\ row.floor = request[r].floor /\ row.value = Entry(r).value
    BY DEF NewRequest
  <2>2. request' = [request EXCEPT ![r] = row] /\ request[r].at = "asked" /\ Hit(r)
    BY <1>1, RequestShapes DEF Serve
  <2>3. ~Start(r) /\ ~Compute(r) /\ ~Store(r) /\ ~Raise(r)
    BY <2>2 DEF Start, Compute, Store, Raise
  <2> HIDE DEF row
  <2> QED
    BY <2>1, <2>2, <2>3, <1>t
<1>2. CASE Start(r)
  <2> DEFINE row == [request[r] EXCEPT !.at = "computing", !.of = Current(r)]
  <2>1. /\ row.at = "computing" /\ row.of = Current(r) /\ row.process = request[r].process
        /\ row.key = request[r].key /\ row.shared = request[r].shared /\ row.floor = request[r].floor
    BY <1>t DEF RequestRow
  <2>2. request' = [request EXCEPT ![r] = row] /\ request[r].at = "asked" /\ ~Hit(r)
    BY <1>2, RequestShapes DEF Start
  <2> HIDE DEF row
  <2> QED
    BY <2>1, <2>2, <1>t, <1>2 DEF Serve, Compute, Store, Raise
<1>3. CASE Compute(r)
  <2> DEFINE row == [request[r] EXCEPT !.at = "computed", !.value = written]
  <2>1. /\ row.at = "computed" /\ row.of = request[r].of /\ row.process = request[r].process
        /\ row.key = request[r].key /\ row.shared = request[r].shared /\ row.floor = request[r].floor
        /\ row.value = written
    BY <1>t DEF RequestRow
  <2>2. request' = [request EXCEPT ![r] = row] /\ request[r].at = "computing" /\ inflight' = inflight /\ failures' = failures
    BY <1>3, RequestShapes DEF Compute, cacheVars
  <2>3. ~Serve(r) /\ ~Start(r) /\ ~Store(r) /\ ~Raise(r)
    <3>1. failures \in Nat
      BY TypeFacts
    <3> QED
      BY <2>2, <3>1 DEF Serve, Start, Store, Raise, Fails
  <2> HIDE DEF row
  <2> QED
    BY <2>1, <2>2, <2>3, <1>t
<1>4. CASE Store(r)
  <2> DEFINE row == [NewRequest EXCEPT !.at = "done", !.value = request[r].value, !.floor = request[r].floor]
  <2>1. row.at = "done" /\ row.floor = request[r].floor /\ row.value = request[r].value
    BY DEF NewRequest
  <2>2. request' = [request EXCEPT ![r] = row] /\ request[r].at = "computed"
    BY <1>4, RequestShapes DEF Store
  <2> HIDE DEF row
  <2> QED
    BY <2>1, <2>2, <1>t, <1>4 DEF Serve, Start, Compute, Raise
<1>5. CASE Raise(r)
  <2>1. Failed.at = "failed" /\ Failed.floor = 0
    BY DEF Failed, NewRequest
  <2>2. request' = [request EXCEPT ![r] = Failed] /\ request[r].at = "computing" /\ failures' = failures + 1
    BY <1>5, RequestShapes DEF Raise, Fails
  <2>3. ~Serve(r) /\ ~Start(r) /\ ~Store(r) /\ ~Compute(r)
    <3>1. failures \in Nat
      BY TypeFacts
    <3> QED
      BY <2>2, <3>1 DEF Serve, Start, Store, Compute
  <2> QED
    BY <2>1, <2>2, <2>3, <1>t
<1> QED
  BY <1>1, <1>2, <1>3, <1>4, <1>5 DEF RequestStep

LEMMA AskShape ==
  ASSUME TypeOK, NEW r \in Requests, NEW p \in Processes, NEW k \in Keys, Ask(r, p, k)
  PROVE  \E s \in {shared, Unknown} :
           request' = [request EXCEPT ![r] = [request[r] EXCEPT !.at = "asked", !.process = p, !.key = k, !.shared = s,
                         !.floor = IF s = Unknown THEN bumped[p] ELSE Later(told, bumped[p])]]
<1>1. request \in [Requests -> RequestRow]
  BY TypeFacts
<1>2. PICK s \in {shared, Unknown} :
        request' = [request EXCEPT ![r] = [@ EXCEPT !.at = "asked", !.process = p, !.key = k, !.shared = s,
                       !.floor = IF s = Unknown THEN bumped[p] ELSE Later(told, bumped[p])]]
  BY DEF Ask
<1>3. request' = [request EXCEPT ![r] = [request[r] EXCEPT !.at = "asked", !.process = p, !.key = k, !.shared = s,
                       !.floor = IF s = Unknown THEN bumped[p] ELSE Later(told, bumped[p])]]
  BY <1>1, <1>2
<1> QED
  BY <1>3

\* A value stays as fresh as it was, in a process that does not die.
LEMMA FreshStep ==
  ASSUME CacheInv, Next, NEW p \in Processes, ~Crash(p), NEW g \in Generations, NEW v \in Nat, Fresh(p, g, v)
  PROVE  Fresh(p, g, v)'
<1>t. /\ generation \in [Processes -> Nat] /\ bumped \in [Processes -> Nat] /\ bump \in [Processes -> BumpRow]
      /\ shared \in Nat /\ told \in Nat /\ written \in Nat /\ request \in [Requests -> RequestRow] /\ TypeOK
  BY TypeFacts DEF CacheInv
<1>g. g.own \in Nat /\ g.shared \in Nat \cup {Unknown} /\ Unknown \notin Nat
  BY CacheAssumption DEF Generations, Unknown
<1>0. ASSUME UNCHANGED <<generation, bumped, shared, told, request>> PROVE Fresh(p, g, v)'
  BY <1>0 DEF Fresh
<1>1. ASSUME NEW q \in Processes, Forget(q) PROVE Fresh(p, g, v)'
  <2>1. CASE q = p
    <3>1. /\ generation'[p] = generation[p] + 1 /\ shared' = shared /\ told' = told /\ request' = request
      BY <1>1, <2>1, <1>t DEF Forget
    <3>2. g.own <= generation[p] /\ (g.shared \in Nat => g.shared <= shared) /\ (g.shared = shared => v >= told)
      BY DEF Fresh
    <3>3. g.own <= generation'[p] /\ g.own # generation'[p]
      BY <3>1, <3>2, <1>t, <1>g
    <3> QED
      BY <3>1, <3>2, <3>3 DEF Fresh
  <2>2. CASE q # p
    BY <1>1, <2>2, <1>t, FreshKept DEF Forget
  <2> QED
    BY <2>1, <2>2
<1>2. ASSUME NEW q \in Processes, Tell(q) PROVE Fresh(p, g, v)'
  <2>1. /\ generation' = generation /\ bumped' = bumped /\ request' = request
        /\ (shared' = shared /\ told' = told) \/ shared' = shared + 1
    BY <1>2 DEF Tell
  <2>2. CASE shared' = shared /\ told' = told
    BY <2>1, <2>2, <1>0
  <2>3. CASE shared' = shared + 1
    <3>1. g.shared \in Nat => g.shared <= shared
      BY DEF Fresh
    <3>2. (g.shared \in Nat => g.shared <= shared') /\ g.shared # shared'
      BY <3>1, <2>3, <1>t, <1>g
    <3> QED
      BY <2>1, <3>2 DEF Fresh
  <2> QED
    BY <2>1, <2>2, <2>3
<1>3. ASSUME NEW r \in Requests, NEW q \in Processes, NEW k \in Keys, Ask(r, q, k) PROVE Fresh(p, g, v)'
  <2>1. UNCHANGED <<generation, bumped, shared, told>>
    BY <1>3 DEF Ask
  <2>2. PICK s \in {shared, Unknown} :
           request' = [request EXCEPT ![r] = [request[r] EXCEPT !.at = "asked", !.process = q, !.key = k, !.shared = s,
                         !.floor = IF s = Unknown THEN bumped[q] ELSE Later(told, bumped[q])]]
    <3>1. TypeOK
      BY <1>t
    <3> QED
      BY ONLY <3>1, <1>3, AskShape
  <2>3. /\ request'[r].process = q /\ request'[r].shared = s
        /\ request'[r].floor = IF s = Unknown THEN bumped[q] ELSE Later(told, bumped[q])
        /\ \A x \in Requests \ {r} : request'[x] = request[x]
    <3>1. request[r] \in RequestRow
      BY <1>t
    <3> DEFINE row == [request[r] EXCEPT !.at = "asked", !.process = q, !.key = k, !.shared = s,
                         !.floor = IF s = Unknown THEN bumped[q] ELSE Later(told, bumped[q])]
    <3>2. row.process = q /\ row.shared = s /\ row.floor = IF s = Unknown THEN bumped[q] ELSE Later(told, bumped[q])
      BY <3>1 DEF RequestRow
    <3>3. request'[r] = row /\ \A x \in Requests \ {r} : request'[x] = request[x]
      BY <2>2, <1>t
    <3> QED
      BY <3>2, <3>3
  <2>4. q = p /\ g.own = generation[p] /\ g.shared = s => v >= request'[r].floor
    <3> SUFFICES ASSUME q = p, g.own = generation[p], g.shared = s PROVE v >= request'[r].floor
      OBVIOUS
    <3>1. v >= bumped[p]
      BY DEF Fresh
    <3>2. CASE s = Unknown
      BY <3>1, <3>2, <2>3
    <3>3. CASE s = shared
      <4>1. v >= told
        BY <3>3 DEF Fresh
      <4> QED
        BY <3>1, <4>1, <2>3, <1>t DEF Later
    <3> QED
      BY <3>2, <3>3
  <2>5. \A x \in Requests :
          /\ request'[x].at = "asked" /\ request'[x].process = p
          /\ g.own = generation[p] /\ g.shared = request'[x].shared
          => v >= request'[x].floor
    BY <2>3, <2>4 DEF Fresh
  <2> QED
    BY <2>1, <2>5 DEF Fresh
<1>4. ASSUME NEW r \in Requests, RequestStep(r) \/ Raise(r) PROVE Fresh(p, g, v)'
  <2>1. UNCHANGED <<generation, bumped, shared, told>>
    BY <1>4 DEF RequestStep, Serve, Start, Compute, Store, Raise, cacheVars
  <2>2. TypeOK
    BY <1>t
  <2>3. \A q \in Requests : request'[q].at = "asked" => request'[q] = request[q]
    BY <1>4, <2>2, RequestEffects
  <2> QED
    BY <2>1, <2>3, FreshKept
<1>5. ASSUME NEW q \in Processes, Crash(q) PROVE Fresh(p, g, v)'
  <2>1. q # p
    BY <1>5
  <2>2. generation'[p] = generation[p] /\ bumped' = bumped /\ shared' = shared /\ told' = told
    BY <1>5, <2>1, <1>t DEF Crash
  <2>3. \A x \in Requests : request'[x].at = "asked" => request'[x] = request[x]
    BY <1>5 DEF Crash, Failed, NewRequest
  <2> QED
    BY <2>2, <2>3, FreshKept
<1>6. ASSUME NEW q \in Processes, Commit(q) \/ Retry(q) PROVE Fresh(p, g, v)'
  BY <1>6, <1>0 DEF Commit, Retry, cacheVars
<1>7. ASSUME CommitOutside \/ \E q \in Processes, k \in Keys : Expire(q, k) PROVE Fresh(p, g, v)'
  BY <1>7, <1>0 DEF CommitOutside, Expire, cacheVars
<1> QED
  BY <1>1, <1>2, <1>3, <1>4, <1>5, <1>6, <1>7 DEF Next

-----------------------------------------------------------------------------
(* Nobody knows of a write that was not committed.                          *)

LEMMA CountsStep == CacheInv /\ Next => CountsInv'
<1> SUFFICES ASSUME CacheInv, Next PROVE CountsInv'
  OBVIOUS
<1>t. /\ bumped \in [Processes -> Nat] /\ bump \in [Processes -> BumpRow] /\ told \in Nat /\ written \in Nat
      /\ request \in [Requests -> RequestRow] /\ TypeOK
  BY TypeFacts DEF CacheInv
<1>c. /\ told <= written
      /\ \A p \in Processes : bumped[p] <= written /\ bump[p].write <= written
      /\ \A r \in Requests : request[r].floor <= written
  BY DEF CacheInv, CountsInv
<1>w. \A p \in Processes : bump[p].write \in Nat
  BY <1>t DEF BumpRow
<1>f. \A r \in Requests : request[r].floor \in Nat
  BY <1>t DEF RequestRow
<1>1. ASSUME UNCHANGED <<told, written, bumped, bump, request>> PROVE CountsInv'
  BY <1>1, <1>c DEF CountsInv
<1>2. ASSUME CommitOutside PROVE CountsInv'
  BY <1>2, <1>c, <1>t, <1>w, <1>f DEF CommitOutside, CountsInv
<1>3. ASSUME NEW p \in Processes, Commit(p) PROVE CountsInv'
  <2>1. /\ written' = written + 1 /\ UNCHANGED <<bumped, told, request>>
        /\ bump'[p].write = written + 1 /\ \A q \in Processes \ {p} : bump'[q] = bump[q]
    BY <1>3, <1>t DEF Commit
  <2> QED
    BY <2>1, <1>c, <1>t, <1>w, <1>f DEF CountsInv
<1>4. ASSUME NEW p \in Processes, Forget(p) PROVE CountsInv'
  <2>1. /\ UNCHANGED <<written, told, request>>
        /\ \A q \in Processes : bump'[q].write = bump[q].write /\ bumped'[q] \in {bumped[q], bump[q].write}
    BY <1>4, <1>t DEF Forget, BumpRow
  <2> QED
    BY <2>1, <1>c DEF CountsInv
<1>5. ASSUME NEW p \in Processes, Tell(p) PROVE CountsInv'
  <2>1. /\ UNCHANGED <<written, bumped, request>> /\ told' \in {told, Later(told, bump[p].write)}
        /\ bump' = [bump EXCEPT ![p] = NoBump]
    BY <1>5 DEF Tell
  <2>2. told' <= written
    BY <2>1, <1>c DEF Later
  <2>3. \A q \in Processes : bump'[q].write <= written
    BY <2>1, <1>c, <1>t DEF NoBump
  <2> QED
    BY <2>1, <2>2, <2>3, <1>c DEF CountsInv
<1>6. ASSUME NEW p \in Processes, Crash(p) PROVE CountsInv'
  <2>1. UNCHANGED <<written, told, bumped>>
    BY <1>6 DEF Crash
  <2>2. \A q \in Processes : bump'[q].write <= written
    BY <1>6, <1>c, <1>t DEF NoBump, Crash
  <2>3. \A r \in Requests : request'[r].floor <= written
    BY <1>6, <1>c, <1>t DEF Crash, Failed, NewRequest
  <2> QED
    BY <2>1, <2>2, <2>3, <1>c DEF CountsInv
<1>7. ASSUME NEW r \in Requests, NEW p \in Processes, NEW k \in Keys, Ask(r, p, k) PROVE CountsInv'
  <2>1. UNCHANGED <<written, told, bumped, bump>>
    BY <1>7 DEF Ask
  <2>2. PICK s \in {shared, Unknown} :
          request' = [request EXCEPT ![r] = [request[r] EXCEPT !.at = "asked", !.process = p, !.key = k, !.shared = s,
                        !.floor = IF s = Unknown THEN bumped[p] ELSE Later(told, bumped[p])]]
    <3>1. TypeOK
      BY <1>t
    <3> QED
      BY ONLY <3>1, <1>7, AskShape
  <2>3. request'[r].floor = IF s = Unknown THEN bumped[p] ELSE Later(told, bumped[p])
    <3> DEFINE row == [request[r] EXCEPT !.at = "asked", !.process = p, !.key = k, !.shared = s,
                         !.floor = IF s = Unknown THEN bumped[p] ELSE Later(told, bumped[p])]
    <3>1. request[r] \in RequestRow
      BY <1>t
    <3>2. row.floor = IF s = Unknown THEN bumped[p] ELSE Later(told, bumped[p])
      BY <3>1 DEF RequestRow
    <3> QED
      BY <3>2, <2>2, <1>t
  <2>4. \A x \in Requests : request'[x].floor <= written
    BY <2>2, <2>3, <1>c, <1>t DEF Later
  <2> QED
    BY <2>1, <2>4, <1>c DEF CountsInv
<1>8. ASSUME NEW r \in Requests, RequestStep(r) \/ Raise(r) PROVE CountsInv'
  <2>1. UNCHANGED <<written, told, bumped, bump>>
    BY <1>8 DEF RequestStep, Serve, Start, Compute, Store, Raise, cacheVars
  <2>2. TypeOK
    BY <1>t
  <2>3. request'[r].floor \in {request[r].floor, 0} /\ \A x \in Requests \ {r} : request'[x] = request[x]
    BY <1>8, <2>2, RequestEffects
  <2> QED
    BY <2>1, <2>3, <1>c, <1>t DEF CountsInv
<1>9. ASSUME (\E p \in Processes : Retry(p)) \/ (\E p \in Processes, k \in Keys : Expire(p, k)) PROVE CountsInv'
  BY <1>9, <1>1 DEF Retry, Expire
<1> QED
  BY <1>2, <1>3, <1>4, <1>5, <1>6, <1>7, <1>8, <1>9 DEF Next

-----------------------------------------------------------------------------
(* Requests.                                                                *)

\* A request that a step leaves alone.
LEMMA RequestKept ==
  ASSUME CacheInv, Next, NEW q \in Requests, request'[q] = request[q],
         ~\E p \in Processes : Crash(p) /\ request[q].process = p
  PROVE  RequestInv(q)'
<1>t. request[q] \in RequestRow /\ generation \in [Processes -> Nat] /\ shared \in Nat /\ TypeOK
  BY TypeFacts DEF CacheInv
<1>k. generation' \in [Processes -> Nat] /\ shared' \in Nat
  BY NextTyped, TypeFacts DEF TypeOK
<1>i. RequestInv(q)
  BY DEF CacheInv
<1> DEFINE p == request[q].process
           g == request[q].of
           v == request[q].value
<1>1. v \in Nat /\ request[q].shared \in Nat \cup {Unknown}
  BY <1>t DEF RequestRow
<1>2. shared <= shared' /\ (p \in Processes => generation[p] <= generation'[p])
  BY Forward
<1>3. request[q].at \in {"asked", "computing", "computed"} =>
        /\ p \in Processes /\ request[q].key \in Keys
        /\ request[q].shared \in Nat => request[q].shared <= shared'
  BY <1>i, <1>1, <1>2, <1>t, <1>k DEF RequestInv
<1>4. request[q].at \in {"computing", "computed"} =>
        g \in Generations /\ g.own <= generation'[p] /\ g.shared = request[q].shared
  <2> SUFFICES ASSUME request[q].at \in {"computing", "computed"}
               PROVE  g \in Generations /\ g.own <= generation'[p] /\ g.shared = request[q].shared
    OBVIOUS
  <2>1. p \in Processes /\ g \in Generations /\ g.own <= generation[p] /\ g.shared = request[q].shared
    BY <1>i DEF RequestInv
  <2>2. g.own \in Nat
    BY <2>1 DEF Generations
  <2> QED
    BY <2>1, <2>2, <1>2, <1>t, <1>k
<1>5. request[q].at \in {"computed", "done"} => v >= request[q].floor
  BY <1>i DEF RequestInv
<1>6. ASSUME request[q].at = "computed"
      PROVE  Fresh(request[q].process, request[q].of, request[q].value)'
  <2>1. p \in Processes /\ g \in Generations /\ Fresh(p, g, v) /\ ~Crash(p)
    BY <1>6, <1>i DEF RequestInv
  <2>2. \A x \in Processes, y \in Generations, z \in Nat : ~Crash(x) /\ Fresh(x, y, z) =>
          /\ y.own <= generation'[x]
          /\ y.shared \in Nat => y.shared <= shared'
          /\ y.own = generation'[x] => z >= bumped'[x]
          /\ y.shared = shared' => z >= told'
          /\ \A w \in Requests :
               /\ request'[w].at = "asked" /\ request'[w].process = x
               /\ y.own = generation'[x] /\ y.shared = request'[w].shared
               => z >= request'[w].floor
    <3> SUFFICES ASSUME NEW x \in Processes, NEW y \in Generations, NEW z \in Nat, ~Crash(x), Fresh(x, y, z)
                 PROVE  /\ y.own <= generation'[x]
                        /\ y.shared \in Nat => y.shared <= shared'
                        /\ y.own = generation'[x] => z >= bumped'[x]
                        /\ y.shared = shared' => z >= told'
                        /\ \A w \in Requests :
                             /\ request'[w].at = "asked" /\ request'[w].process = x
                             /\ y.own = generation'[x] /\ y.shared = request'[w].shared
                             => z >= request'[w].floor
      OBVIOUS
    <3>1. Fresh(x, y, z)'
      BY FreshStep
    <3> QED
      BY <3>1 DEF Fresh
  <2> QED
    BY <2>1, <2>2, <1>1 DEF Fresh
<1> QED
  BY <1>3, <1>4, <1>5, <1>6 DEF RequestInv

LEMMA RequestsStep == CacheInv /\ Next => \A q \in Requests : RequestInv(q)'
<1> SUFFICES ASSUME CacheInv, Next PROVE \A q \in Requests : RequestInv(q)'
  OBVIOUS
<1>t. /\ request \in [Requests -> RequestRow] /\ generation \in [Processes -> Nat] /\ shared \in Nat /\ written \in Nat
      /\ entries \in [Processes -> [Keys -> {NoEntry} \cup EntryRow]] /\ TypeOK
  BY TypeFacts DEF CacheInv
<1>r. \A q \in Requests : RequestInv(q)
  BY DEF CacheInv
<1>0. ASSUME request' = request, ~\E p \in Processes : Crash(p) PROVE \A q \in Requests : RequestInv(q)'
  BY <1>0, RequestKept
<1>1. ASSUME NEW p \in Processes, Crash(p) PROVE \A q \in Requests : RequestInv(q)'
  <2> SUFFICES ASSUME NEW q \in Requests PROVE RequestInv(q)'
    OBVIOUS
  <2>1. CASE request[q].process = p
    <3>1. request'[q] = Failed
      BY <1>1, <2>1 DEF Crash, Process
    <3> QED
      BY <3>1 DEF RequestInv, Failed, NewRequest
  <2>2. CASE request[q].process # p
    <3>1. request'[q] = request[q]
      BY <1>1, <2>2 DEF Crash, Process
    <3>2. ~\E x \in Processes : Crash(x) /\ request[q].process = x
      <4> SUFFICES ASSUME NEW x \in Processes, Crash(x), request[q].process = x PROVE FALSE
        OBVIOUS
      <4>1. request' = [y \in Requests |-> IF Process(y) = p THEN Failed ELSE request[y]]
        BY <1>1 DEF Crash
      <4>2. generation' = [generation EXCEPT ![p] = 0] /\ crashes' = crashes + 1
        BY <1>1 DEF Crash
      <4>3. request'[q] = Failed
        BY DEF Crash, Process
      <4>4. request[q] = Failed
        BY <4>3, <3>1
      <4>5. request[q].process = None
        BY <4>4 DEF Failed, NewRequest
      <4> QED
        BY <4>5, CacheAssumption
    <3> QED
      BY <3>1, <3>2, RequestKept
  <2> QED
    BY <2>1, <2>2
<1>2. ASSUME NEW r \in Requests, NEW p \in Processes, NEW k \in Keys, Ask(r, p, k), ~\E x \in Processes : Crash(x)
      PROVE  \A q \in Requests : RequestInv(q)'
  <2>1. PICK s \in {shared, Unknown} :
          request' = [request EXCEPT ![r] = [request[r] EXCEPT !.at = "asked", !.process = p, !.key = k, !.shared = s,
                        !.floor = IF s = Unknown THEN bumped[p] ELSE Later(told, bumped[p])]]
    <3>1. TypeOK
      BY <1>t
    <3> QED
      BY ONLY <3>1, <1>2, AskShape
  <2>2. /\ request'[r].at = "asked" /\ request'[r].process = p /\ request'[r].key = k /\ request'[r].shared = s
        /\ \A x \in Requests \ {r} : request'[x] = request[x]
    <3> DEFINE floor == IF s = Unknown THEN bumped[p] ELSE Later(told, bumped[p])
               row == [request[r] EXCEPT !.at = "asked", !.process = p, !.key = k, !.shared = s, !.floor = floor]
    <3>1. request[r] \in RequestRow
      BY <1>t
    <3>2. row.at = "asked" /\ row.process = p /\ row.key = k /\ row.shared = s
      <4> HIDE DEF floor
      <4> QED
        BY <3>1 DEF RequestRow
    <3>3. request' = [request EXCEPT ![r] = row]
      BY <2>1
    <3> HIDE DEF row
    <3> QED
      BY <3>2, <3>3, <1>t
  <2>3. shared' = shared
    BY <1>2 DEF Ask
  <2>4. s \in Nat => s <= shared'
    BY <2>3, <1>t, CacheAssumption DEF Unknown
  <2>5. RequestInv(r)'
    BY <2>2, <2>4 DEF RequestInv
  <2>6. \A q \in Requests \ {r} : RequestInv(q)'
    BY <1>2, <2>2, RequestKept
  <2> QED
    BY <2>5, <2>6
<1>3. ASSUME NEW r \in Requests, RequestStep(r) \/ Raise(r), ~\E x \in Processes : Crash(x)
      PROVE  \A q \in Requests : RequestInv(q)'
  <2>k. UNCHANGED <<generation, bumped, shared, told, written>>
    BY <1>3 DEF RequestStep, Serve, Start, Compute, Store, Raise, cacheVars
  <2>t. TypeOK
    BY <1>t
  <2>e. \A q \in Requests \ {r} : request'[q] = request[q]
    BY <1>3, <2>t, RequestEffects
  <2>1. \A q \in Requests \ {r} : RequestInv(q)'
    BY <1>3, <2>e, RequestKept
  <2>i. RequestInv(r) /\ request[r] \in RequestRow
    BY <1>r, <1>t
  <2>2. ASSUME Serve(r) PROVE RequestInv(r)'
    <3>1. request[r].at = "asked" /\ Hit(r)
      BY <2>2 DEF Serve
    <3>2. request'[r].at = "done" /\ request'[r].floor = request[r].floor /\ request'[r].value = Entry(r).value
      BY <2>2, <1>3, <2>t, RequestEffects
    <3> DEFINE p == request[r].process
               k == request[r].key
    <3>3. p \in Processes /\ k \in Keys
      BY <3>1, <2>i DEF RequestInv
    <3>4. /\ entries[p][k] # NoEntry
          /\ entries[p][k].of.own = generation[p] /\ entries[p][k].of.shared = request[r].shared
          /\ Entry(r) = entries[p][k]
      BY <3>1 DEF Hit, Entry, Current, Process
    <3>5. Fresh(p, entries[p][k].of, entries[p][k].value)
      BY <3>3, <3>4 DEF CacheInv, EntryInv
    <3>6. entries[p][k].value >= request[r].floor
      BY <3>1, <3>4, <3>5 DEF Fresh
    <3> QED
      BY <3>2, <3>4, <3>6 DEF RequestInv
  <2>3. ASSUME Start(r) PROVE RequestInv(r)'
    <3>1. request[r].at = "asked"
      BY <2>3 DEF Start
    <3>2. /\ request'[r].at = "computing" /\ request'[r].of = Current(r)
          /\ request'[r].process = request[r].process /\ request'[r].key = request[r].key
          /\ request'[r].shared = request[r].shared
      BY <2>3, <1>3, <2>t, RequestEffects
    <3>3. /\ request[r].process \in Processes /\ request[r].key \in Keys
          /\ request[r].shared \in Nat => request[r].shared <= shared
      BY <3>1, <2>i DEF RequestInv
    <3>4. /\ Current(r) \in Generations /\ Current(r).own = generation[request[r].process]
          /\ Current(r).shared = request[r].shared
      BY <3>3, <2>i, <1>t DEF Current, Process, Generations, RequestRow
    <3>5. generation[request[r].process] <= generation[request[r].process]
      BY <3>3, <1>t
    <3> QED
      BY <3>2, <3>3, <3>4, <3>5, <2>k DEF RequestInv
  <2>4. ASSUME Compute(r) PROVE RequestInv(r)'
    <3>1. request[r].at = "computing"
      BY <2>4 DEF Compute
    <3>2. /\ request'[r].at = "computed" /\ request'[r].of = request[r].of
          /\ request'[r].process = request[r].process /\ request'[r].key = request[r].key
          /\ request'[r].shared = request[r].shared /\ request'[r].floor = request[r].floor
          /\ request'[r].value = written
      BY <2>4, <1>3, <2>t, RequestEffects
    <3>3. /\ request[r].process \in Processes /\ request[r].key \in Keys
          /\ request[r].shared \in Nat => request[r].shared <= shared
          /\ request[r].of \in Generations /\ request[r].of.own <= generation[request[r].process]
          /\ request[r].of.shared = request[r].shared
      BY <3>1, <2>i DEF RequestInv
    <3>4. /\ \A p \in Processes : written >= bumped[p]
          /\ written >= told /\ \A x \in Requests : written >= request[x].floor
      <4>1. /\ bumped \in [Processes -> Nat] /\ told \in Nat /\ \A x \in Requests : request[x].floor \in Nat
        BY <2>t, TypeFacts DEF RequestRow
      <4> QED
        BY <4>1, <1>t DEF CacheInv, CountsInv
    <3>5. Fresh(request'[r].process, request'[r].of, written)
      BY <3>2, <3>3, <3>4 DEF Fresh
    <3>6. \A x \in Requests : request'[x].at = "asked" => request'[x] = request[x]
      BY <1>3, <2>t, RequestEffects
    <3>7. /\ request[r].of.own <= generation'[request[r].process]
          /\ request[r].of.shared \in Nat => request[r].of.shared <= shared'
          /\ request[r].of.own = generation'[request[r].process] => written >= bumped'[request[r].process]
          /\ request[r].of.shared = shared' => written >= told'
          /\ \A w \in Requests : request'[w].at = "asked" => written >= request'[w].floor
      BY <3>3, <3>4, <3>6, <2>k
    <3>8. written >= request[r].floor
      BY <3>4
    <3> QED
      BY <3>2, <3>3, <3>7, <3>8, <2>k DEF RequestInv, Fresh
  <2>5. ASSUME Store(r) PROVE RequestInv(r)'
    <3>1. request[r].at = "computed"
      BY <2>5 DEF Store
    <3>2. request'[r].at = "done" /\ request'[r].floor = request[r].floor /\ request'[r].value = request[r].value
      BY <2>5, <1>3, <2>t, RequestEffects
    <3> QED
      BY <3>1, <3>2, <2>i DEF RequestInv
  <2>6. ASSUME Raise(r) PROVE RequestInv(r)'
    <3>1. request'[r].at = "failed"
      BY <2>6, <1>3, <2>t, RequestEffects
    <3> QED
      BY <3>1 DEF RequestInv
  <2>7. RequestInv(r)'
    BY <1>3, <2>2, <2>3, <2>4, <2>5, <2>6 DEF RequestStep
  <2> QED
    BY <2>1, <2>7
<1>4. ASSUME CommitOutside \/ (\E p \in Processes : Commit(p) \/ Forget(p) \/ Tell(p) \/ Retry(p))
                           \/ (\E p \in Processes, k \in Keys : Expire(p, k)),
             ~\E x \in Processes : Crash(x)
      PROVE  \A q \in Requests : RequestInv(q)'
  <2>1. request' = request
    BY <1>4 DEF CommitOutside, Commit, Forget, Tell, Retry, Expire
  <2> QED
    BY <2>1, <1>4, <1>0
<1> QED
  BY <1>1, <1>2, <1>3, <1>4 DEF Next

-----------------------------------------------------------------------------
(* Entries.                                                                 *)

LEMMA EntriesStep == CacheInv /\ Next => \A p \in Processes, k \in Keys : EntryInv(p, k)'
<1> SUFFICES ASSUME CacheInv, Next, NEW p \in Processes, NEW k \in Keys PROVE EntryInv(p, k)'
  OBVIOUS
<1>t. entries \in [Processes -> [Keys -> {NoEntry} \cup EntryRow]]
  BY TypeFacts DEF CacheInv
<1> DEFINE Written(e) == e \in EntryRow /\ Fresh(p, e.of, e.value)
\* What is in the table after the step was worth its generations before it.
<1>1. CASE Crash(p)
  <2>1. entries'[p][k] = NoEntry
    BY <1>1, <1>t DEF Crash
  <2> QED
    BY <2>1 DEF EntryInv
<1>2. CASE ~Crash(p)
  <2>1. ASSUME entries'[p][k] \in {entries[p][k], NoEntry} PROVE entries'[p][k] = NoEntry \/ Written(entries'[p][k])
    BY <2>1, <1>t DEF CacheInv, EntryInv
  <2>2. ASSUME NEW r \in Requests, Store(r) PROVE entries'[p][k] = NoEntry \/ Written(entries'[p][k])
    <3>1. /\ request[r].at = "computed" /\ request[r] \in RequestRow /\ RequestInv(r)
      BY <2>2, TypeFacts DEF Store, CacheInv
    <3>2. CASE entries' = [entries EXCEPT ![Process(r)][request[r].key] = [value |-> request[r].value, of |-> request[r].of]]
      <4>1. CASE request[r].process = p /\ request[r].key = k
        <5>1. entries'[p][k] = [value |-> request[r].value, of |-> request[r].of]
          BY <3>2, <4>1, <1>t DEF Process
        <5>2. request[r].of \in Generations /\ request[r].value \in Nat /\ Fresh(p, request[r].of, request[r].value)
          BY <3>1, <4>1 DEF RequestInv, RequestRow
        <5> QED
          BY <5>1, <5>2 DEF EntryRow
      <4>2. CASE ~(request[r].process = p /\ request[r].key = k)
        <5>1. entries'[p][k] = entries[p][k]
          BY <3>2, <4>2, <1>t DEF Process
        <5> QED
          BY <5>1, <2>1
      <4> QED
        BY <4>1, <4>2
    <3>3. CASE entries' = entries
      BY <3>3, <2>1
    <3> QED
      BY <2>2, <3>2, <3>3 DEF Store
  <2>3. ASSUME ~\E r \in Requests : Store(r) PROVE entries'[p][k] \in {entries[p][k], NoEntry}
    <3>1. ASSUME NEW q \in Processes, Forget(q) \/ Crash(q) PROVE entries'[p][k] \in {entries[p][k], NoEntry}
      BY <3>1, <1>t DEF Forget, Crash
    <3>2. ASSUME NEW q \in Processes, NEW j \in Keys, Expire(q, j) PROVE entries'[p][k] \in {entries[p][k], NoEntry}
      BY <3>2, <1>t DEF Expire
    <3>3. ASSUME NEW q \in Processes, Commit(q) \/ Tell(q) \/ Retry(q) PROVE entries' = entries
      BY <3>3 DEF Commit, Tell, Retry, cacheVars
    <3>4. ASSUME NEW r \in Requests, Serve(r) \/ Start(r) \/ Compute(r) \/ Raise(r)
                                     \/ \E q \in Processes, j \in Keys : Ask(r, q, j)
          PROVE  entries' = entries
      BY <3>4 DEF Serve, Start, Compute, Raise, Ask, cacheVars
    <3>5. CASE CommitOutside
      BY <3>5 DEF CommitOutside, cacheVars
    <3> QED
      BY <2>3, <3>1, <3>2, <3>3, <3>4, <3>5 DEF Next, RequestStep
  <2>4. entries'[p][k] = NoEntry \/ Written(entries'[p][k])
    BY <2>1, <2>2, <2>3
  <2>5. \A g \in Generations, v \in Nat : Fresh(p, g, v) =>
          /\ g.own <= generation'[p]
          /\ g.shared \in Nat => g.shared <= shared'
          /\ g.own = generation'[p] => v >= bumped'[p]
          /\ g.shared = shared' => v >= told'
          /\ \A w \in Requests :
               /\ request'[w].at = "asked" /\ request'[w].process = p
               /\ g.own = generation'[p] /\ g.shared = request'[w].shared
               => v >= request'[w].floor
    <3> SUFFICES ASSUME NEW g \in Generations, NEW v \in Nat, Fresh(p, g, v)
                 PROVE  /\ g.own <= generation'[p]
                        /\ g.shared \in Nat => g.shared <= shared'
                        /\ g.own = generation'[p] => v >= bumped'[p]
                        /\ g.shared = shared' => v >= told'
                        /\ \A w \in Requests :
                             /\ request'[w].at = "asked" /\ request'[w].process = p
                             /\ g.own = generation'[p] /\ g.shared = request'[w].shared
                             => v >= request'[w].floor
      OBVIOUS
    <3>1. Fresh(p, g, v)'
      BY <1>2, FreshStep
    <3> QED
      BY <3>1 DEF Fresh
  <2>6. Written(entries'[p][k]) => entries'[p][k].of \in Generations /\ entries'[p][k].value \in Nat
    BY DEF EntryRow
  <2> QED
    BY <2>4, <2>5, <2>6 DEF EntryInv, Fresh
<1> QED
  BY <1>1, <1>2

-----------------------------------------------------------------------------

LEMMA NextCacheInv == CacheInv /\ [Next]_vars => CacheInv'
<1> SUFFICES ASSUME CacheInv, [Next]_vars PROVE CacheInv'
  OBVIOUS
<1>1. CASE Next
  BY <1>1, NextTyped, CountsStep, RequestsStep, EntriesStep DEF CacheInv
<1>2. CASE UNCHANGED vars
  <2>1. TypeOK'
    BY NextTyped
  <2>2. CountsInv'
    BY <1>2 DEF CacheInv, CountsInv, vars
  <2>3. \A r \in Requests : RequestInv(r)'
    BY <1>2 DEF CacheInv, RequestInv, Fresh, vars
  <2>4. \A p \in Processes, k \in Keys : EntryInv(p, k)'
    BY <1>2 DEF CacheInv, EntryInv, Fresh, vars
  <2> QED
    BY <2>1, <2>2, <2>3, <2>4 DEF CacheInv
<1> QED
  BY <1>1, <1>2

LEMMA CacheInvariant == Spec => []CacheInv
BY InitCacheInv, NextCacheInv, PTL DEF Spec

\* Every variable keeps its type.
THEOREM TypeCorrect == Spec => []TypeOK
<1>1. CacheInv => TypeOK
  BY DEF CacheInv
<1> QED
  BY <1>1, CacheInvariant, PTL

\* Nobody is served a value older than a write that their own process had
\* bumped, or any process had told Redis, before they asked.
THEOREM ServedFresh == Spec => []ServedIsFresh
<1>1. CacheInv => ServedIsFresh
  BY DEF CacheInv, RequestInv, ServedIsFresh
<1> QED
  BY <1>1, CacheInvariant, PTL

-----------------------------------------------------------------------------
(* Who computes.                                                            *)

Registered(r) == request[r].at \in {"computing", "computed"}

\* _inflight names exactly the requests that compute: no two compute one key
\* in one process, and nobody waits for a computation that is over, raised or
\* went with its process.
InflightTrue ==
  \A p \in Processes, k \in Keys, r \in Requests :
    inflight[p][k] = r <=> Registered(r) /\ Process(r) = p /\ request[r].key = k

\* A request that ends leaves the table.
LEMMA Unregisters ==
  ASSUME CacheInv, InflightTrue, NEW r \in Requests, Registered(r), inflight' = Unregistered(r),
         \A q \in Requests \ {r} : request'[q] = request[q], ~Registered(r)'
  PROVE  InflightTrue'
<1>t. inflight \in [Processes -> [Keys -> Requests \cup {None}]] /\ None \notin Requests
  BY CacheAssumption DEF CacheInv, TypeOK
<1>1. PICK p \in Processes, k \in Keys : p = Process(r) /\ k = request[r].key
  BY DEF CacheInv, RequestInv, Registered, Process
<1>2. /\ \A q \in Processes, l \in Keys : q # p \/ l # k => inflight'[q][l] = inflight[q][l]
      /\ inflight'[p][k] = None /\ inflight[p][k] = r
  <2>1. inflight' = [inflight EXCEPT ![p][k] = None]
    BY <1>1 DEF Unregistered
  <2> QED
    BY <2>1, <1>t, <1>1 DEF InflightTrue
<1> SUFFICES ASSUME NEW q \in Processes, NEW l \in Keys, NEW o \in Requests
             PROVE  inflight'[q][l] = o <=> Registered(o)' /\ Process(o)' = q /\ request'[o].key = l
  BY DEF InflightTrue
<1>3. inflight[q][l] = o <=> Registered(o) /\ Process(o) = q /\ request[o].key = l
  BY DEF InflightTrue
<1>4. CASE o = r
  BY <1>1, <1>2, <1>3, <1>4, <1>t
<1>5. CASE o # r
  <2>1. request'[o] = request[o]
    BY <1>5
  <2> QED
    BY <1>2, <1>3, <1>5, <1>t, <2>1 DEF Registered, Process
<1> QED
  BY <1>4, <1>5

LEMMA InflightStep == CacheInv /\ InflightTrue /\ [Next]_vars => InflightTrue'
<1> SUFFICES ASSUME CacheInv, InflightTrue, [Next]_vars PROVE InflightTrue'
  OBVIOUS
<1>t. /\ inflight \in [Processes -> [Keys -> Requests \cup {None}]] /\ None \notin Requests
      /\ request \in [Requests -> RequestRow] /\ TypeOK
  BY TypeFacts, CacheAssumption DEF CacheInv, TypeOK
<1>p. \A r \in Requests : request[r].at \in {"asked", "computing", "computed"}
                            => Process(r) \in Processes /\ request[r].key \in Keys
  BY DEF CacheInv, RequestInv, Process
\* A step that leaves the table alone, and each request as it is but for one
\* whose registration it does not touch.
<1>1. ASSUME UNCHANGED inflight, NEW r \in Requests, \A q \in Requests \ {r} : request'[q] = request[q],
             \/ request'[r] = request[r] \/ (~Registered(r) /\ ~Registered(r)')
             \/ /\ Registered(r) /\ Registered(r)'
                /\ request'[r].process = request[r].process /\ request'[r].key = request[r].key
      PROVE  InflightTrue'
  BY <1>1, <1>t DEF InflightTrue, Registered, Process
<1>2. ASSUME UNCHANGED <<inflight, request>> PROVE InflightTrue'
  BY <1>2 DEF InflightTrue, Registered, Process
<1>3. ASSUME NEW r \in Requests, Serve(r) PROVE InflightTrue'
  <2>1. request[r].at = "asked" /\ request'[r].at = "done" /\ UNCHANGED inflight
    BY <1>3, <1>t, RequestEffects DEF Serve, cacheVars, RequestStep
  <2> QED
    BY <1>1, <1>3, <1>t, <2>1, RequestEffects DEF Registered, RequestStep
<1>4. ASSUME NEW r \in Requests, Compute(r) PROVE InflightTrue'
  <2>1. /\ request[r].at = "computing" /\ request'[r].at = "computed" /\ UNCHANGED inflight
        /\ request'[r].process = request[r].process /\ request'[r].key = request[r].key
    BY <1>4, <1>t, RequestEffects DEF Compute, cacheVars, RequestStep
  <2> QED
    BY <1>1, <1>4, <1>t, <2>1, RequestEffects DEF Registered, RequestStep
<1>5. ASSUME NEW r \in Requests, Store(r) \/ Raise(r) PROVE InflightTrue'
  <2>1. Registered(r) /\ inflight' = Unregistered(r) /\ ~Registered(r)'
    BY <1>5, <1>t, RequestEffects DEF Store, Raise, Registered, RequestStep
  <2> QED
    BY <1>5, <1>t, <2>1, RequestEffects, Unregisters DEF RequestStep
<1>6. ASSUME NEW r \in Requests, Start(r) PROVE InflightTrue'
  <2>1. PICK p \in Processes, k \in Keys : p = Process(r) /\ k = request[r].key
    BY <1>6, <1>p DEF Start
  <2>2. /\ inflight' = [inflight EXCEPT ![p][k] = r] /\ inflight[p][k] = None
        /\ request'[r].at = "computing" /\ request'[r].process = p /\ request'[r].key = k
        /\ \A q \in Requests \ {r} : request'[q] = request[q]
    BY <1>6, <1>t, <2>1, RequestEffects DEF Start, Computing, RequestStep, Process
  <2>3. /\ \A q \in Processes, l \in Keys : q # p \/ l # k => inflight'[q][l] = inflight[q][l]
        /\ inflight'[p][k] = r
    BY <2>2, <1>t
  <2>4. ~Registered(r)
    BY <1>6 DEF Start, Registered
  <2>5. ASSUME NEW q \in Processes, NEW l \in Keys, NEW o \in Requests
        PROVE  inflight'[q][l] = o <=> Registered(o)' /\ Process(o)' = q /\ request'[o].key = l
    <3>1. inflight[q][l] = o <=> Registered(o) /\ Process(o) = q /\ request[o].key = l
      BY DEF InflightTrue
    <3>2. CASE o = r
      BY <2>2, <2>3, <2>4, <3>1, <3>2 DEF Registered, Process
    <3>3. CASE o # r
      <4>1. request'[o] = request[o]
        BY <2>2, <3>3
      <4> QED
        BY <2>2, <2>3, <3>1, <3>3, <4>1, <1>t DEF Registered, Process
    <3> QED
      BY <3>2, <3>3
  <2> QED
    BY <2>5 DEF InflightTrue
<1>7. ASSUME NEW r \in Requests, NEW p \in Processes, NEW k \in Keys, Ask(r, p, k) PROVE InflightTrue'
  <2>1. PICK s \in {shared, Unknown} :
          request' = [request EXCEPT ![r] = [request[r] EXCEPT !.at = "asked", !.process = p, !.key = k, !.shared = s,
                         !.floor = IF s = Unknown THEN bumped[p] ELSE Later(told, bumped[p])]]
    <3>1. TypeOK
      BY <1>t
    <3> QED
      BY ONLY <3>1, <1>7, AskShape
  <2>2. request[r].at = "new" /\ UNCHANGED inflight
    BY <1>7 DEF Ask
  <2>3. request'[r].at = "asked"
    BY <2>1, <1>t DEF RequestRow
  <2>4. \A q \in Requests \ {r} : request'[q] = request[q]
    BY <2>1, <1>t
  <2> QED
    BY <1>1, <2>2, <2>3, <2>4 DEF Registered
<1>8. ASSUME NEW p \in Processes, Crash(p) PROVE InflightTrue'
  <2>1. /\ \A q \in Requests : request'[q] = IF Process(q) = p THEN Failed ELSE request[q]
        /\ \A q \in Processes \ {p} : inflight'[q] = inflight[q]
        /\ \A k \in Keys : inflight'[p][k] = None
    BY <1>8, <1>t DEF Crash
  <2>2. Failed.at = "failed"
    BY DEF Failed, NewRequest
  <2>3. ASSUME NEW q \in Processes, NEW l \in Keys, NEW o \in Requests
        PROVE  inflight'[q][l] = o <=> Registered(o)' /\ Process(o)' = q /\ request'[o].key = l
    <3>1. inflight[q][l] = o <=> Registered(o) /\ Process(o) = q /\ request[o].key = l
      BY DEF InflightTrue
    <3>2. CASE Process(o) = p
      <4>1. ~Registered(o)'
        BY <2>1, <2>2, <3>2 DEF Registered
      <4>2. inflight'[q][l] # o
        BY <2>1, <3>1, <3>2, <1>t
      <4> QED
        BY <4>1, <4>2
    <3>3. CASE Process(o) # p
      <4>1. request'[o] = request[o]
        BY <2>1, <3>3
      <4> QED
        BY <2>1, <3>1, <3>3, <4>1, <1>t DEF Registered, Process
    <3> QED
      BY <3>2, <3>3
  <2> QED
    BY <2>3 DEF InflightTrue
<1>9. ASSUME \/ CommitOutside \/ \E p \in Processes : Commit(p) \/ Forget(p) \/ Tell(p) \/ Retry(p)
             \/ \E p \in Processes, k \in Keys : Expire(p, k)
             \/ UNCHANGED vars
      PROVE  UNCHANGED <<inflight, request>>
  BY <1>9 DEF CommitOutside, Commit, Forget, Tell, Retry, Expire, cacheVars, vars
<1> QED
  BY <1>2, <1>3, <1>4, <1>5, <1>6, <1>7, <1>8, <1>9 DEF Next, RequestStep

LEMMA InitInflight == Init => InflightTrue
<1> SUFFICES ASSUME Init, NEW p \in Processes, NEW k \in Keys, NEW r \in Requests
             PROVE  inflight[p][k] # r /\ ~Registered(r)
  BY DEF InflightTrue
<1>1. inflight[p][k] = None /\ None \notin Requests
  BY CacheAssumption DEF Init
<1>2. request[r].at = "new"
  BY DEF Init, NewRequest
<1> QED
  BY <1>1, <1>2 DEF Registered

\* The table of computations under way tells the truth, through computations
\* that raise or are overtaken and processes that die: a key is computed once
\* at a time, and whoever waits waits for somebody.
THEOREM OneComputes == Spec => []InflightTrue
BY CacheInvariant, InitCacheInv, NextCacheInv, InitInflight, InflightStep, PTL DEF Spec
=============================================================================
