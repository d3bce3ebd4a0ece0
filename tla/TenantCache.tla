----------------------------- MODULE TenantCache -----------------------------
(***************************************************************************)
(* ai/core/tenant_cache.py: the read models of one company, cached by each *)
(* API process and dropped when the company's data change.                 *)
(*                                                                         *)
(* A process drops its own entries by a generation of its own; the others  *)
(* compare a generation in Redis, each request once, when it begins.  A    *)
(* value is the number of the last write its computation saw.  The module  *)
(* asks whether a request can be served a value older than a write whose   *)
(* bump() ended before the request began, through values computed while    *)
(* generations move, failures of Redis and processes that die.             *)
(***************************************************************************)
EXTENDS Naturals

CONSTANTS
    Processes,    \* the API's worker processes
    Keys,         \* (namespace, language, key) of the company's read models
    Requests,     \* requests for them, each made once
    None,
    MaxWrites,    \* bound on writes to the company's data
    MaxFailures,  \* bound on commands that Redis fails, and on computations that do
    MaxCrashes    \* bound on processes that die

ASSUME CacheAssumption ==
    /\ None \notin Requests \cup Processes \cup Keys \cup Nat
    /\ MaxWrites \in Nat /\ MaxFailures \in Nat /\ MaxCrashes \in Nat

VARIABLES
    entries,     \* _entries of each process: the value and the generations it is of
    generation,  \* _generation of each process
    inflight,    \* _inflight: the request that computes a key
    down,        \* time.monotonic() < _shared_down_until
    request,     \* how far each request has come and what it holds
    bump,        \* the write each process has committed and not yet bumped
    shared,      \* the company's generation in Redis
    written,     \* the number of the last write committed
    bumped,      \* history: the last write each process dropped its entries for
    told,        \* history: the last write whose bump Redis counted
    failures, crashes

cacheVars == <<entries, generation, inflight, down, shared>>
vars == <<entries, generation, inflight, down, shared, request, bump, written, bumped, told, failures, crashes>>

Unknown == None      \* the shared generation when Redis does not say
NoEntry == [value |-> None, of |-> None]
NoBump == [at |-> "none", write |-> 0]
NewRequest ==
    [at |-> "new", process |-> None, key |-> None, shared |-> Unknown, of |-> None, value |-> 0, floor |-> 0]

Failed == [NewRequest EXCEPT !.at = "failed"]

Init ==
    /\ entries = [p \in Processes |-> [k \in Keys |-> NoEntry]]
    /\ generation = [p \in Processes |-> 0]
    /\ inflight = [p \in Processes |-> [k \in Keys |-> None]]
    /\ down = [p \in Processes |-> FALSE]
    /\ request = [r \in Requests |-> NewRequest]
    /\ bump = [p \in Processes |-> NoBump]
    /\ bumped = [p \in Processes |-> 0]
    /\ shared = 0 /\ written = 0 /\ told = 0 /\ failures = 0 /\ crashes = 0

Later(v, w) == IF v > w THEN v ELSE w

Fails == failures < MaxFailures /\ failures' = failures + 1

-----------------------------------------------------------------------------
(* Writes.  bump() drops the entries under the lock, then counts in Redis. A *)
(* process is at one write at a time: more would only move its generation    *)
(* again.                                                                    *)

\* A request or a background job of the process commits, and will bump.
Commit(p) ==
    /\ bump[p] = NoBump /\ written < MaxWrites
    /\ written' = written + 1
    /\ bump' = [bump EXCEPT ![p] = [at |-> "committed", write |-> written + 1]]
    /\ UNCHANGED <<cacheVars, request, bumped, told, failures, crashes>>

\* A market worker commits: it shares no memory with the API and bumps nothing.
CommitOutside ==
    /\ written < MaxWrites
    /\ written' = written + 1
    /\ UNCHANGED <<cacheVars, request, bump, bumped, told, failures, crashes>>

\* Mutant: the entries are dropped, computations under way are not told.
ForgetEntries(p) ==
    /\ bump[p].at = "committed"
    /\ entries' = [entries EXCEPT ![p] = [k \in Keys |-> NoEntry]]
    /\ bump' = [bump EXCEPT ![p].at = "forgotten"]
    /\ bumped' = [bumped EXCEPT ![p] = bump[p].write]
    /\ UNCHANGED <<generation, inflight, down, shared, request, written, told, failures, crashes>>

Forget(p) ==
    /\ bump[p].at = "committed"
    /\ generation' = [generation EXCEPT ![p] = @ + 1]
    /\ entries' = [entries EXCEPT ![p] = [k \in Keys |-> NoEntry]]
    /\ bump' = [bump EXCEPT ![p].at = "forgotten"]
    /\ bumped' = [bumped EXCEPT ![p] = bump[p].write]
    /\ UNCHANGED <<inflight, down, shared, request, written, told, failures, crashes>>

\* INCR and EXPIRE: both answered, not asked, the first failed, or the answer of
\* the first or the second lost.
Tell(p) ==
    /\ bump[p].at = "forgotten"
    /\ bump' = [bump EXCEPT ![p] = NoBump]
    /\ \/ down[p] /\ UNCHANGED <<shared, told, down, failures>>
       \/ /\ ~down[p]
          /\ \/ UNCHANGED <<down, failures>>
             \/ Fails /\ down' = [down EXCEPT ![p] = TRUE]
          /\ shared' = shared + 1
          /\ told' = Later(told, bump[p].write)
       \/ ~down[p] /\ Fails /\ down' = [down EXCEPT ![p] = TRUE] /\ UNCHANGED <<shared, told>>
    /\ UNCHANGED <<entries, generation, inflight, request, written, bumped, crashes>>

-----------------------------------------------------------------------------
(* get_or_compute().                                                        *)

\* The request begins: it reads the shared generation, once.  floor is what it
\* may expect to see: what its own process forgot entries for, and what Redis
\* was told, if Redis answers.
Ask(r, p, k) ==
    /\ request[r].at = "new"
    /\ \E s \in {shared, Unknown} :
        /\ IF down[p] THEN s = Unknown /\ UNCHANGED <<down, failures>>
           ELSE IF s = Unknown THEN Fails /\ down' = [down EXCEPT ![p] = TRUE]
           ELSE UNCHANGED <<down, failures>>
        /\ request' = [request EXCEPT ![r] =
            [@ EXCEPT !.at = "asked", !.process = p, !.key = k, !.shared = s,
                      !.floor = IF s = Unknown THEN bumped[p] ELSE Later(told, bumped[p])]]
    /\ UNCHANGED <<entries, generation, inflight, shared, bump, written, bumped, told, crashes>>

Process(r) == request[r].process
Current(r) == [own |-> generation[Process(r)], shared |-> request[r].shared]
Entry(r) == entries[Process(r)][request[r].key]
Computing(r) == inflight[Process(r)][request[r].key]
Hit(r) == Entry(r) # NoEntry /\ Entry(r).of = Current(r)

Return(r, v) ==
    request' = [request EXCEPT ![r] = [NewRequest EXCEPT !.at = "done", !.value = v, !.floor = request[r].floor]]

\* A request that finds the key being computed waits for the event and looks
\* again: it stays here until it hits or nobody computes.
Serve(r) ==
    /\ request[r].at = "asked" /\ Hit(r)
    /\ Return(r, Entry(r).value)
    /\ UNCHANGED <<cacheVars, bump, written, bumped, told, failures, crashes>>

Start(r) ==
    /\ request[r].at = "asked" /\ ~Hit(r) /\ Computing(r) = None
    /\ inflight' = [inflight EXCEPT ![Process(r)][request[r].key] = r]
    /\ request' = [request EXCEPT ![r].at = "computing", ![r].of = Current(r)]
    /\ UNCHANGED <<entries, generation, down, shared, bump, written, bumped, told, failures, crashes>>

Compute(r) ==
    /\ request[r].at = "computing"
    /\ request' = [request EXCEPT ![r].at = "computed", ![r].value = written]
    /\ UNCHANGED <<cacheVars, bump, written, bumped, told, failures, crashes>>

\* Mutant: a computation that raises stays registered.
UnregisteredAtEnd(r) ==
    IF request[r].at = "computing" THEN inflight ELSE [inflight EXCEPT ![Process(r)][request[r].key] = None]

Unregistered(r) == [inflight EXCEPT ![Process(r)][request[r].key] = None]

\* The value is stored unless this process forgot its entries meanwhile.
Store(r) ==
    /\ request[r].at = "computed"
    /\ entries' = IF generation[Process(r)] = request[r].of.own
                  THEN [entries EXCEPT ![Process(r)][request[r].key] =
                          [value |-> request[r].value, of |-> request[r].of]]
                  ELSE entries
    /\ inflight' = Unregistered(r)
    /\ Return(r, request[r].value)
    /\ UNCHANGED <<generation, down, shared, bump, written, bumped, told, failures, crashes>>

\* The computation raises.
Raise(r) ==
    /\ request[r].at = "computing" /\ Fails
    /\ inflight' = Unregistered(r)
    /\ request' = [request EXCEPT ![r] = Failed]
    /\ UNCHANGED <<entries, generation, down, shared, bump, written, bumped, told, crashes>>

-----------------------------------------------------------------------------
(* Time and processes.                                                      *)

\* An entry's time ends, or it is the oldest of too many.
Expire(p, k) ==
    /\ entries[p][k] # NoEntry
    /\ entries' = [entries EXCEPT ![p][k] = NoEntry]
    /\ UNCHANGED <<generation, inflight, down, shared, request, bump, written, bumped, told, failures, crashes>>

\* SHARED_RETRY_SECONDS are over: Redis is asked again.
Retry(p) ==
    /\ down[p]
    /\ down' = [down EXCEPT ![p] = FALSE]
    /\ UNCHANGED <<entries, generation, inflight, shared, request, bump, written, bumped, told, failures, crashes>>

\* A process dies and is started again with empty tables.
Crash(p) ==
    /\ crashes < MaxCrashes
    /\ crashes' = crashes + 1
    /\ entries' = [entries EXCEPT ![p] = [k \in Keys |-> NoEntry]]
    /\ generation' = [generation EXCEPT ![p] = 0]
    /\ inflight' = [inflight EXCEPT ![p] = [k \in Keys |-> None]]
    /\ down' = [down EXCEPT ![p] = FALSE]
    /\ bump' = [bump EXCEPT ![p] = NoBump]
    /\ request' = [r \in Requests |->
        IF Process(r) = p THEN Failed ELSE request[r]]
    /\ UNCHANGED <<shared, written, bumped, told, failures>>

RequestStep(r) == Serve(r) \/ Start(r) \/ Compute(r) \/ Store(r)

Next ==
    \/ CommitOutside
    \/ \E p \in Processes : Commit(p) \/ Forget(p) \/ Tell(p) \/ Retry(p) \/ Crash(p)
    \/ \E p \in Processes, k \in Keys : Expire(p, k)
    \/ \E r \in Requests : RequestStep(r) \/ Raise(r) \/ \E p \in Processes, k \in Keys : Ask(r, p, k)

Spec == Init /\ [][Next]_vars

\* A request's thread goes on: a computation ends or raises, the lock is free
\* again, and an event that was set wakes those who wait for it.
FairSpec == Spec /\ \A r \in Requests : WF_vars(RequestStep(r))

-----------------------------------------------------------------------------
(* Properties.                                                              *)

Generations == [own : Nat, shared : Nat \cup {Unknown}]
TypeOK ==
    /\ entries \in [Processes -> [Keys -> {NoEntry} \cup [value : Nat, of : Generations]]]
    /\ generation \in [Processes -> Nat]
    /\ inflight \in [Processes -> [Keys -> Requests \cup {None}]]
    /\ down \in [Processes -> BOOLEAN]
    /\ request \in [Requests ->
        [at : {"new", "asked", "computing", "computed", "done", "failed"}, process : Processes \cup {None},
         key : Keys \cup {None}, shared : Nat \cup {Unknown}, of : Generations \cup {None},
         value : Nat, floor : Nat]]
    /\ bump \in [Processes -> [at : {"none", "committed", "forgotten"}, write : Nat]]
    /\ {shared, written, told, failures, crashes} \subseteq Nat
    /\ bumped \in [Processes -> Nat]

\* What a request is served is never older than a write that its own process
\* had bumped, or any process had told Redis, before the request began: not by
\* a value computed across the bump, by waiting for one, or by one of an outage.
ServedIsFresh == \A r \in Requests : request[r].at = "done" => request[r].value >= request[r].floor

\* Everyone who waits for another's computation is answered or fails, also when
\* that computation raises, is overtaken by a write, or is of another generation.
RequestsEnd == \A r \in Requests : (request[r].at = "asked") ~> (request[r].at \in {"done", "failed"})
=============================================================================
