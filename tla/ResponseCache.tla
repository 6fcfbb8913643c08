--------------------------- MODULE ResponseCache ---------------------------
(* The answers of /v1/dashboard.json and /v1/meta, cached by an isolate of the Worker
   (dashboard_cache.ts). An entry belongs to a generation of the state, which counts
   the changes this isolate has stored itself (state_generation.ts); changes stored by
   others only show when an entry has expired. dashboardCaches and metaCaches are two
   caches of the same kind: this is one of them. A payload is the number of changes
   its rows had when they were read. *)
EXTENDS Integers, FiniteSets, FiniteSetsExt

CONSTANTS
    Requests,   \* requests this isolate answers
    MaxChanges  \* bound: changes of current_state

ResponseAssumption == IsFiniteSet(Requests) /\ MaxChanges \in Nat

VARIABLES
    stored,     \* changes of current_state
    unmarked,   \* those of this isolate whose markStateChanged is still to come
    marked,     \* history: the newest change of this isolate that is marked
    generation, \* STATE_GENERATIONS
    entry,      \* the entry of the cache
    request     \* the requests

vars == <<stored, unmarked, marked, generation, entry, request>>

NoEntry == [kind |-> "none"]
Value(v, g) == [kind |-> "value", value |-> v, generation |-> g, expired |-> FALSE]
Pending(r, g) == [kind |-> "pending", load |-> r, generation |-> g, expired |-> FALSE]
Waiting == [at |-> "new"]

TypeOK ==
    /\ stored \in 0 .. MaxChanges /\ marked \in 0 .. stored
    /\ unmarked \subseteq 1 .. stored /\ generation \in 0 .. MaxChanges
    /\ entry.kind \in {"none", "value", "pending"}
    /\ entry.kind # "none" => entry.generation \in 0 .. generation
    /\ \A r \in Requests : request[r].at \in {"new", "loading", "loaded", "joined", "done", "failed"}

Init ==
    /\ stored = 0 /\ unmarked = {} /\ marked = 0 /\ generation = 0
    /\ entry = NoEntry
    /\ request = [r \in Requests |-> Waiting]

-----------------------------------------------------------------------------
(* Changes. *)

\* A statement of updateState changes a row; markStateChanged follows once D1 answers.
Store ==
    /\ stored < MaxChanges
    /\ stored' = stored + 1
    /\ unmarked' = unmarked \cup {stored'}
    /\ UNCHANGED <<marked, generation, entry, request>>

MarkStateChanged(c) ==
    /\ c \in unmarked
    /\ unmarked' = unmarked \ {c}
    /\ generation' = generation + 1
    /\ marked' = Max({marked, c})
    /\ UNCHANGED <<stored, entry, request>>

\* Another isolate stores a change, or the answer of D1 is lost.
StoreElsewhere ==
    /\ stored < MaxChanges
    /\ stored' = stored + 1
    /\ UNCHANGED <<unmarked, marked, generation, entry, request>>

\* STATE_CACHE_TTL_MS passes.
Expire ==
    /\ entry.kind # "none" /\ ~entry.expired
    /\ entry' = [entry EXCEPT !.expired = TRUE]
    /\ UNCHANGED <<stored, unmarked, marked, generation, request>>

-----------------------------------------------------------------------------
(* cached. *)

\* A mistake: an entry serves until it expires, whatever has changed.
UsableUntilExpired(kind) == entry.kind = kind /\ ~entry.expired

Usable(kind) == entry.kind = kind /\ entry.generation = generation /\ ~entry.expired

\* What a request has learned when it began: every change marked by then.
Begun(r, need, retry) == [at |-> "loading", need |-> need, retry |-> retry, generation |-> generation]
Joined(need) == [at |-> "joined", need |-> need, load |-> entry.load]
Done(need, v) == [at |-> "done", need |-> need, got |-> v]

\* The entry and the request, from the beginning of cached to its first await.
Cached(r, need, retry, others) ==
    \/ /\ Usable("value")
       /\ request' = [others EXCEPT ![r] = Done(need, entry.value)]
       /\ entry' = entry
    \/ /\ Usable("pending")
       /\ request' = [others EXCEPT ![r] = Joined(need)]
       /\ entry' = entry
    \/ /\ ~Usable("value") /\ ~Usable("pending")
       /\ request' = [others EXCEPT ![r] = Begun(r, need, retry)]
       /\ entry' = Pending(r, generation)

\* A 304 for the tag of the cached value says what the value would.
Begin(r) ==
    /\ request[r].at = "new"
    /\ Cached(r, marked, TRUE, request)
    /\ UNCHANGED <<stored, unmarked, marked, generation>>

\* The rows are read; the hash and the rest of the loader follow.
ReadRows(r) ==
    /\ request[r].at = "loading"
    /\ request' = [request EXCEPT ![r] = [at |-> "loaded", need |-> @.need, retry |-> @.retry,
                                          generation |-> @.generation, value |-> stored]]
    /\ UNCHANGED <<stored, unmarked, marked, generation, entry>>

\* Those who were given the promise get what it brings, whatever has changed since.
Resolved(r, v) ==
    [q \in Requests |-> IF request[q].at = "joined" /\ request[q].load = r
                        THEN Done(request[q].need, v) ELSE request[q]]

Filled(r) == Value(request[r].value, request[r].generation)

\* The state changed meanwhile: the entry goes, and the load is repeated once.
LoadEnds(r) ==
    LET v == request[r].value IN
    /\ request[r].at = "loaded"
    /\ \/ /\ generation = request[r].generation
          /\ entry' = Filled(r)
          /\ request' = [Resolved(r, v) EXCEPT ![r] = Done(@.need, v)]
       \/ /\ generation # request[r].generation /\ request[r].retry
          /\ entry' = Pending(r, generation)
          /\ request' = [Resolved(r, v) EXCEPT ![r] = Begun(r, @.need, FALSE)]
       \/ /\ generation # request[r].generation /\ ~request[r].retry
          /\ entry' = NoEntry
          /\ request' = [Resolved(r, v) EXCEPT ![r] = Done(@.need, v)]
    /\ UNCHANGED <<stored, unmarked, marked, generation>>

\* D1 fails: the entry goes, even when it is another one by now.
LoadFails(r) ==
    /\ request[r].at = "loading"
    /\ entry' = NoEntry
    /\ request' = [q \in Requests |->
                     IF q = r \/ (request[q].at = "joined" /\ request[q].load = r)
                     THEN [at |-> "failed"] ELSE request[q]]
    /\ UNCHANGED <<stored, unmarked, marked, generation>>

Next ==
    \/ Store \/ StoreElsewhere \/ Expire
    \/ \E c \in unmarked : MarkStateChanged(c)
    \/ \E r \in Requests : Begin(r) \/ ReadRows(r) \/ LoadEnds(r) \/ LoadFails(r)

Spec == Init /\ [][Next]_vars

-----------------------------------------------------------------------------
\* A change this isolate has stored and marked before a request arrives is in the
\* answer, whichever entry, load under way or repeated load the answer comes from.
AnswersAreFresh == \A r \in Requests : request[r].at = "done" => request[r].got >= request[r].need
=============================================================================
