---------------------------- MODULE StoresProofs ----------------------------
(* Proofs about the components MCStores puts side by side, for any values of their
   constants: ResponseCache, PlaybackCache, StationheadHealth, TelemetryStore, VideoLibrary,
   Updater and PlaybackPages. Each has a section that ends in a lemma: its invariant is kept by its
   steps. The last section is about the specification of all of them. *)
EXTENDS MCStores, FiniteFacts, Sequences

-----------------------------------------------------------------------------
(* ResponseCache: what a load that is under way may still be trusted with, and therefore
   those who joined it. *)

\* A request, beside the others R, when the generation is gen and mk is marked.
RequestOK(q, R, gen, mk) ==
    /\ q.at \in {"new", "loading", "loaded", "joined", "done", "failed"}
    /\ q.at = "loading" => /\ q.need \in Int /\ q.need <= mk
                           /\ q.generation \in Int /\ q.generation <= gen
    /\ q.at = "loaded" => /\ q.need \in Int /\ q.value \in Int /\ q.value >= q.need
                          /\ q.need <= mk
                          /\ q.generation \in Int /\ q.generation <= gen
                          /\ q.generation = gen => q.value >= mk
    /\ q.at = "joined" => /\ q.need \in Int /\ q.need <= mk /\ q.load \in Requests
                          /\ R[q.load].at \in {"loading", "loaded"}
                          /\ R[q.load].at = "loaded" => R[q.load].value >= q.need
    /\ q.at = "done" => q.need \in Int /\ q.got \in Int /\ q.got >= q.need

EntryOK(e, R, gen, mk) ==
    \/ e = Responses!NoEntry
    \/ /\ e \in [kind: {"value"}, value: Int, generation: Int, expired: BOOLEAN]
       /\ e.generation <= gen
       /\ e.generation = gen => e.value >= mk
    \/ /\ e \in [kind: {"pending"}, load: Requests, generation: Int, expired: BOOLEAN]
       /\ R[e.load].at \in {"loading", "loaded"}
       /\ R[e.load].generation = e.generation

Counters ==
    /\ stored \in Int /\ marked \in Int /\ marked <= stored /\ generation \in Int
    /\ \A c \in unmarked : c \in Int /\ c <= stored

ResponsesInv ==
    /\ Counters
    /\ request = [r \in Requests |-> request[r]]
    /\ \A r \in Requests : RequestOK(request[r], request, generation, marked)
    /\ EntryOK(entry, request, generation, marked)

-----------------------------------------------------------------------------
LEMMA MaxOfTwo ==
    ASSUME NEW a \in Int, NEW b \in Int
    PROVE  Responses!Max({a, b}) \in {a, b} /\ Responses!Max({a, b}) >= a /\ Responses!Max({a, b}) >= b
<1>1. \E x \in {a, b} : \A y \in {a, b} : x >= y
  <2>1. CASE a >= b
    BY <2>1
  <2>2. CASE ~(a >= b)
    BY <2>2
  <2>3. QED
    BY <2>1, <2>2
<1>2. QED
  BY <1>1 DEF Responses!Max

LEMMA ResponsesInitOK == Responses!Init => ResponsesInv
<1> SUFFICES ASSUME Responses!Init PROVE ResponsesInv
  OBVIOUS
<1>1. \A r \in Requests : request[r] = [at |-> "new"]
  BY DEF Responses!Init, Responses!Waiting
<1>2. \A r \in Requests : RequestOK(request[r], request, generation, marked)
  BY <1>1 DEF RequestOK
<1>3. request = [r \in Requests |-> request[r]]
  BY DEF Responses!Init
<1>4. QED
  BY <1>2, <1>3 DEF Responses!Init, ResponsesInv, Counters, EntryOK

\* A change that is stored leaves the cache alone.
LEMMA StoringOK ==
    ASSUME ResponsesInv, Responses!Store \/ Responses!StoreElsewhere
    PROVE  ResponsesInv'
<1>1. Counters'
  BY DEF ResponsesInv, Counters, Responses!Store, Responses!StoreElsewhere
<1>2. UNCHANGED <<marked, generation, entry, request>>
  BY DEF Responses!Store, Responses!StoreElsewhere
<1>3. QED
  BY <1>1, <1>2 DEF ResponsesInv

\* Marking a change puts every load and every value behind the generation.
LEMMA MarkingOK ==
    ASSUME ResponsesInv, NEW c \in unmarked, Responses!MarkStateChanged(c)
    PROVE  ResponsesInv'
<1>1. /\ marked' \in Int /\ marked' >= marked /\ marked' <= stored
      /\ generation' = generation + 1 /\ generation \in Int /\ marked \in Int
  BY MaxOfTwo DEF ResponsesInv, Counters, Responses!MarkStateChanged
<1>2. Counters'
  BY <1>1 DEF ResponsesInv, Counters, Responses!MarkStateChanged
<1>3. UNCHANGED <<request, entry>>
  BY DEF Responses!MarkStateChanged
<1>4. ASSUME NEW r \in Requests
      PROVE  RequestOK(request[r], request, generation', marked')
  <2>1. RequestOK(request[r], request, generation, marked)
    BY DEF ResponsesInv
  <2>2. QED
    BY <1>1, <2>1 DEF RequestOK
<1>5. EntryOK(entry, request, generation', marked')
  BY <1>1 DEF ResponsesInv, EntryOK
<1>6. QED
  BY <1>2, <1>3, <1>4, <1>5 DEF ResponsesInv

LEMMA ExpiryOK ==
    ASSUME ResponsesInv, Responses!Expire
    PROVE  ResponsesInv'
<1>1. UNCHANGED <<stored, unmarked, marked, generation, request>>
  BY DEF Responses!Expire
<1>2. EntryOK(entry, request, generation, marked) /\ entry # Responses!NoEntry
  BY DEF ResponsesInv, Responses!Expire, Responses!NoEntry
<1>3. entry' = [entry EXCEPT !.expired = TRUE]
  BY DEF Responses!Expire
<1>4. EntryOK(entry', request, generation, marked)
  <2>1. CASE entry \in [kind: {"value"}, value: Int, generation: Int, expired: BOOLEAN]
    <3>1. /\ entry' \in [kind: {"value"}, value: Int, generation: Int, expired: BOOLEAN]
          /\ entry'.value = entry.value /\ entry'.generation = entry.generation
          /\ entry.kind = "value"
      BY <1>3, <2>1
    <3>2. /\ entry.generation <= generation
          /\ entry.generation = generation => entry.value >= marked
      BY <1>2, <3>1 DEF EntryOK
    <3>3. QED
      BY <3>1, <3>2 DEF EntryOK
  <2>2. CASE entry \in [kind: {"pending"}, load: Requests, generation: Int, expired: BOOLEAN]
    <3>1. /\ entry' \in [kind: {"pending"}, load: Requests, generation: Int, expired: BOOLEAN]
          /\ entry'.load = entry.load /\ entry'.generation = entry.generation
          /\ entry.kind = "pending"
      BY <1>3, <2>2
    <3>2. /\ request[entry.load].at \in {"loading", "loaded"}
          /\ request[entry.load].generation = entry.generation
      BY <1>2, <3>1 DEF EntryOK
    <3>3. QED
      BY <3>1, <3>2 DEF EntryOK
  <2>3. QED
    BY <1>2, <2>1, <2>2 DEF EntryOK
<1>5. QED
  BY <1>1, <1>4 DEF ResponsesInv, Counters

-----------------------------------------------------------------------------
\* A request that was not a load goes on, or a load goes on loading: nobody else is
\* concerned.
LEMMA OneMoves ==
    ASSUME ResponsesInv, NEW r \in Requests, NEW q, request' = [request EXCEPT ![r] = q],
           RequestOK(q, request', generation, marked),
           \/ request[r].at \notin {"loading", "loaded"}
           \/ /\ request[r].at = "loading" /\ q.at = "loaded"
              /\ q.generation = request[r].generation /\ q.value \in Int /\ q.value >= marked
    PROVE  /\ request' = [p \in Requests |-> request'[p]]
           /\ \A p \in Requests : RequestOK(request'[p], request', generation, marked)
           /\ EntryOK(entry, request', generation, marked)
<1>1. /\ request = [p \in Requests |-> request[p]]
      /\ \A p \in Requests : RequestOK(request[p], request, generation, marked)
      /\ EntryOK(entry, request, generation, marked)
  BY DEF ResponsesInv
<1>2. /\ request' = [p \in Requests |-> request'[p]]
      /\ request'[r] = q
      /\ \A p \in Requests : p # r => request'[p] = request[p]
  BY <1>1
<1>3. marked \in Int /\ generation \in Int
  BY DEF ResponsesInv, Counters
<1>4. ASSUME NEW p \in Requests, p # r
      PROVE  RequestOK(request[p], request', generation, marked)
  <2>1. RequestOK(request[p], request, generation, marked)
    BY <1>1
  <2>2. ASSUME request[p].at = "joined"
        PROVE  /\ request'[request[p].load].at \in {"loading", "loaded"}
               /\ request'[request[p].load].at = "loaded" =>
                     request'[request[p].load].value >= request[p].need
    <3>1. /\ request[p].load \in Requests /\ request[p].need \in Int
          /\ request[p].need <= marked
          /\ request[request[p].load].at \in {"loading", "loaded"}
          /\ request[request[p].load].at = "loaded" =>
                request[request[p].load].value >= request[p].need
      BY <2>1, <2>2 DEF RequestOK
    <3>2. CASE request[p].load = r
      BY <1>2, <1>3, <3>1, <3>2
    <3>3. CASE request[p].load # r
      BY <1>2, <3>1, <3>3
    <3>4. QED
      BY <3>2, <3>3
  <2>3. QED
    BY <2>1, <2>2 DEF RequestOK
<1>5. EntryOK(entry, request', generation, marked)
  <2>1. CASE entry = Responses!NoEntry
    BY <2>1 DEF EntryOK
  <2>2. CASE entry # Responses!NoEntry
    <3>1. entry.kind = "pending" =>
             /\ entry.load \in Requests
             /\ request[entry.load].at \in {"loading", "loaded"}
             /\ request[entry.load].generation = entry.generation
      BY <1>1, <2>2 DEF EntryOK
    <3>2. entry.kind = "pending" =>
             /\ request'[entry.load].at \in {"loading", "loaded"}
             /\ request'[entry.load].generation = entry.generation
      BY <1>2, <3>1
    <3>3. QED
      BY <1>1, <2>2, <3>1, <3>2 DEF EntryOK
  <2>3. QED
    BY <2>1, <2>2
<1>6. QED
  BY <1>2, <1>4, <1>5

\* A request is answered from the cache, joins the load of the entry, or begins one.
LEMMA BeginOK ==
    ASSUME ResponsesInv, NEW r \in Requests, Responses!Begin(r)
    PROVE  ResponsesInv'
<1>1. /\ request[r].at = "new" /\ UNCHANGED <<stored, unmarked, marked, generation>>
      /\ Responses!Cached(r, marked, TRUE, request)
  BY DEF Responses!Begin
<1>2. /\ request = [p \in Requests |-> request[p]]
      /\ EntryOK(entry, request, generation, marked)
      /\ marked \in Int /\ generation \in Int
  BY DEF ResponsesInv, Counters
<1>3. CASE Responses!Usable("value") /\ request' = [request EXCEPT ![r] = Responses!Done(marked, entry.value)]
           /\ entry' = entry
  <2>1. entry.value \in Int /\ entry.value >= marked
    BY <1>2, <1>3 DEF EntryOK, Responses!Usable, Responses!NoEntry
  <2>2. RequestOK(Responses!Done(marked, entry.value), request', generation, marked)
    BY <1>2, <2>1 DEF RequestOK, Responses!Done
  <2>3. QED
    BY <1>1, <1>3, <2>2, OneMoves DEF ResponsesInv, Counters
<1>4. CASE Responses!Usable("pending") /\ request' = [request EXCEPT ![r] = Responses!Joined(marked)]
           /\ entry' = entry
  <2>1. /\ entry.load \in Requests /\ request[entry.load].at \in {"loading", "loaded"}
        /\ request[entry.load].generation = generation
    BY <1>2, <1>4 DEF EntryOK, Responses!Usable, Responses!NoEntry
  <2>2. RequestOK(request[entry.load], request, generation, marked)
    BY <2>1 DEF ResponsesInv
  <2>3. request[entry.load].at = "loaded" => request[entry.load].value >= marked
    BY <2>1, <2>2 DEF RequestOK
  <2>4. request'[entry.load] = request[entry.load]
    BY <1>1, <1>2, <1>4, <2>1
  <2>5. RequestOK(Responses!Joined(marked), request', generation, marked)
    BY <1>2, <2>1, <2>3, <2>4 DEF RequestOK, Responses!Joined
  <2>6. QED
    BY <1>1, <1>4, <2>5, OneMoves DEF ResponsesInv, Counters
<1>5. CASE /\ request' = [request EXCEPT ![r] = Responses!Begun(r, marked, TRUE)]
           /\ entry' = Responses!Pending(r, generation)
  <2>1. RequestOK(Responses!Begun(r, marked, TRUE), request', generation, marked)
    BY <1>2 DEF RequestOK, Responses!Begun
  <2>2. /\ request' = [p \in Requests |-> request'[p]]
        /\ \A p \in Requests : RequestOK(request'[p], request', generation, marked)
    BY <1>1, <1>5, <2>1, OneMoves
  <2>3. EntryOK(entry', request', generation, marked)
    <3>1. request'[r] = Responses!Begun(r, marked, TRUE)
      BY <1>2, <1>5
    <3>2. QED
      BY <1>2, <1>5, <3>1 DEF EntryOK, Responses!Pending, Responses!Begun
  <2>4. QED
    BY <1>1, <2>2, <2>3 DEF ResponsesInv, Counters
<1>6. QED
  BY <1>1, <1>3, <1>4, <1>5 DEF Responses!Cached

\* The rows a load reads have every change marked by then, and those its joiners need.
LEMMA ReadOK ==
    ASSUME ResponsesInv, NEW r \in Requests, Responses!ReadRows(r)
    PROVE  ResponsesInv'
<1> DEFINE q == [at |-> "loaded", need |-> request[r].need, retry |-> request[r].retry,
                 generation |-> request[r].generation, value |-> stored]
<1>1. /\ request[r].at = "loading" /\ request' = [request EXCEPT ![r] = q]
      /\ UNCHANGED <<stored, unmarked, marked, generation, entry>>
  BY DEF Responses!ReadRows
<1>2. /\ stored \in Int /\ marked \in Int /\ stored >= marked
      /\ RequestOK(request[r], request, generation, marked)
  BY DEF ResponsesInv, Counters
<1>3. RequestOK(q, request', generation, marked)
  BY <1>1, <1>2 DEF RequestOK
<1>4. /\ q.at = "loaded" /\ q.generation = request[r].generation
      /\ q.value \in Int /\ q.value >= marked
  BY <1>2
<1> HIDE DEF q
<1>5. QED
  BY <1>1, <1>3, <1>4, OneMoves DEF ResponsesInv, Counters

\* A load that ends settles everyone who joined it, and becomes done, failed or a new load.
LEMMA LoadSettles ==
    ASSUME ResponsesInv, NEW r \in Requests, request[r].at \in {"loading", "loaded"}, NEW q, NEW R,
           R = [p \in Requests |-> R[p]], R[r] = q, RequestOK(q, R, generation, marked),
           \A p \in Requests : p # r =>
              IF request[p].at = "joined" /\ request[p].load = r
              THEN RequestOK(R[p], R, generation, marked) ELSE R[p] = request[p]
    PROVE  \A p \in Requests : RequestOK(R[p], R, generation, marked)
<1> SUFFICES ASSUME NEW p \in Requests, p # r,
                    ~(request[p].at = "joined" /\ request[p].load = r)
             PROVE  RequestOK(R[p], R, generation, marked)
  OBVIOUS
<1>1. R[p] = request[p] /\ RequestOK(request[p], request, generation, marked)
  BY DEF ResponsesInv
<1>2. request[p].at = "joined" =>
         /\ request[p].load \in Requests /\ request[p].load # r
         /\ request[request[p].load].at \in {"loading", "loaded"}
  BY <1>1 DEF RequestOK
<1>3. request[p].at = "joined" => R[request[p].load] = request[request[p].load]
  BY <1>2
<1>4. QED
  BY <1>1, <1>2, <1>3 DEF RequestOK

LEMMA LoadEndsOK ==
    ASSUME ResponsesInv, NEW r \in Requests, Responses!LoadEnds(r)
    PROVE  ResponsesInv'
<1> DEFINE v == request[r].value
           S == Responses!Resolved(r, v)
<1>1. /\ request[r].at = "loaded" /\ UNCHANGED <<stored, unmarked, marked, generation>>
      /\ marked \in Int /\ generation \in Int
      /\ request = [p \in Requests |-> request[p]]
      /\ RequestOK(request[r], request, generation, marked)
  BY DEF Responses!LoadEnds, ResponsesInv, Counters
<1>2. /\ request[r].need \in Int /\ v \in Int /\ v >= request[r].need
      /\ request[r].need <= marked
      /\ request[r].generation \in Int /\ request[r].generation <= generation
      /\ request[r].generation = generation => v >= marked
  BY <1>1 DEF RequestOK
<1>3. \A p \in Requests : p # r =>
         IF request[p].at = "joined" /\ request[p].load = r
         THEN S[p] = Responses!Done(request[p].need, v) ELSE S[p] = request[p]
  BY DEF Responses!Resolved
<1>4. \A p \in Requests : request[p].at = "joined" /\ request[p].load = r =>
         request[p].need \in Int /\ v >= request[p].need
  BY <1>1 DEF ResponsesInv, RequestOK
<1>5. S[r] = request[r] /\ S = [p \in Requests |-> S[p]]
  BY <1>1 DEF Responses!Resolved
<1> HIDE DEF v, S
<1>6. ASSUME NEW q, request' = [S EXCEPT ![r] = q],
             RequestOK(q, request', generation, marked)
      PROVE  /\ request' = [p \in Requests |-> request'[p]] /\ request'[r] = q
             /\ \A p \in Requests : RequestOK(request'[p], request', generation, marked)
  <2>1. /\ request' = [p \in Requests |-> request'[p]] /\ request'[r] = q
        /\ \A p \in Requests : p # r => request'[p] = S[p]
    BY <1>5, <1>6
  <2>2. ASSUME NEW p \in Requests, p # r
        PROVE  IF request[p].at = "joined" /\ request[p].load = r
               THEN RequestOK(request'[p], request', generation, marked)
               ELSE request'[p] = request[p]
    <3>1. CASE request[p].at = "joined" /\ request[p].load = r
      <4>1. request'[p] = Responses!Done(request[p].need, v)
        BY <1>3, <2>1, <2>2, <3>1
      <4>2. QED
        BY <1>2, <1>4, <3>1, <4>1 DEF RequestOK, Responses!Done
    <3>2. CASE ~(request[p].at = "joined" /\ request[p].load = r)
      BY <1>3, <2>1, <2>2, <3>2
    <3>3. QED
      BY <3>1, <3>2
  <2>3. QED
    <3>1. \A p \in Requests : RequestOK(request'[p], request', generation, marked)
      <4> DEFINE R == request'
      <4>1. R = [p \in Requests |-> R[p]] /\ R[r] = q /\ RequestOK(q, R, generation, marked)
        BY <1>6, <2>1
      <4>2. \A p \in Requests : p # r =>
               IF request[p].at = "joined" /\ request[p].load = r
               THEN RequestOK(R[p], R, generation, marked) ELSE R[p] = request[p]
        BY <2>2
      <4>3. request[r].at \in {"loading", "loaded"}
        BY <1>1
      <4> HIDE DEF R
      <4>4. \A p \in Requests : RequestOK(R[p], R, generation, marked)
        BY <4>1, <4>2, <4>3, LoadSettles, Zenon
      <4>5. QED
        BY <4>4 DEF R
    <3>2. QED
      BY <2>1, <3>1
<1>7. RequestOK(Responses!Done(request[r].need, v), request', generation, marked)
  BY <1>2 DEF RequestOK, Responses!Done
<1>8. CASE /\ generation = request[r].generation /\ entry' = Responses!Filled(r)
           /\ request' = [S EXCEPT ![r] = Responses!Done(request[r].need, v)]
  <2>1. EntryOK(entry', request', generation, marked)
    BY <1>2, <1>8 DEF EntryOK, Responses!Filled, Responses!Value, v
  <2>2. QED
    BY <1>1, <1>6, <1>7, <1>8, <2>1 DEF ResponsesInv, Counters
<1>9. CASE /\ entry' = Responses!Pending(r, generation)
           /\ request' = [S EXCEPT ![r] = Responses!Begun(r, request[r].need, FALSE)]
           /\ generation # request[r].generation
  <2>1. request[r].need <= marked
    BY <1>2
  <2>2. RequestOK(Responses!Begun(r, request[r].need, FALSE), request', generation, marked)
    BY <1>1, <1>2, <2>1 DEF RequestOK, Responses!Begun
  <2>3. request'[r] = Responses!Begun(r, request[r].need, FALSE)
    BY <1>6, <1>9, <2>2
  <2>4. EntryOK(entry', request', generation, marked)
    BY <1>1, <1>9, <2>3 DEF EntryOK, Responses!Pending, Responses!Begun
  <2>5. QED
    BY <1>1, <1>6, <1>9, <2>2, <2>4 DEF ResponsesInv, Counters
<1>10. CASE /\ entry' = Responses!NoEntry
            /\ request' = [S EXCEPT ![r] = Responses!Done(request[r].need, v)]
  <2>1. EntryOK(entry', request', generation, marked)
    BY <1>10 DEF EntryOK
  <2>2. QED
    BY <1>1, <1>6, <1>7, <1>10, <2>1 DEF ResponsesInv, Counters
<1>11. QED
  BY <1>5, <1>8, <1>9, <1>10 DEF Responses!LoadEnds, S, v

\* A load that fails takes its joiners and the entry along.
LEMMA LoadFailsOK ==
    ASSUME ResponsesInv, NEW r \in Requests, Responses!LoadFails(r)
    PROVE  ResponsesInv'
<1>1. /\ request[r].at = "loading" /\ UNCHANGED <<stored, unmarked, marked, generation>>
      /\ entry' = Responses!NoEntry
      /\ request' = [p \in Requests |->
                        IF p = r \/ (request[p].at = "joined" /\ request[p].load = r)
                        THEN [at |-> "failed"] ELSE request[p]]
  BY DEF Responses!LoadFails
<1> DEFINE R == request'
<1>2. /\ R = [p \in Requests |-> R[p]] /\ R[r] = [at |-> "failed"]
      /\ \A p \in Requests : p # r =>
            IF request[p].at = "joined" /\ request[p].load = r
            THEN R[p] = [at |-> "failed"] ELSE R[p] = request[p]
  BY <1>1
<1> HIDE DEF R
<1>3. RequestOK([at |-> "failed"], R, generation, marked)
  BY DEF RequestOK
<1>4. \A p \in Requests : p # r =>
         IF request[p].at = "joined" /\ request[p].load = r
         THEN RequestOK(R[p], R, generation, marked) ELSE R[p] = request[p]
  BY <1>2, <1>3
<1>5. request[r].at \in {"loading", "loaded"}
  BY <1>1
<1>6. \A p \in Requests : RequestOK(R[p], R, generation, marked)
  BY <1>2, <1>3, <1>4, <1>5, LoadSettles, Zenon
<1>7. EntryOK(entry', R, generation, marked)
  BY <1>1 DEF EntryOK
<1>8. QED
  BY <1>1, <1>2, <1>6, <1>7 DEF ResponsesInv, Counters, R

LEMMA ResponsesNextOK == ResponsesInv /\ [Responses!Next]_responseVars => ResponsesInv'
<1> SUFFICES ASSUME ResponsesInv, [Responses!Next]_responseVars PROVE ResponsesInv'
  OBVIOUS
<1>1. CASE Responses!Store \/ Responses!StoreElsewhere
  BY <1>1, StoringOK
<1>2. CASE Responses!Expire
  BY <1>2, ExpiryOK
<1>3. ASSUME NEW c \in unmarked, Responses!MarkStateChanged(c) PROVE ResponsesInv'
  BY <1>3, MarkingOK
<1>4. ASSUME NEW r \in Requests, Responses!Begin(r) PROVE ResponsesInv'
  BY <1>4, BeginOK
<1>5. ASSUME NEW r \in Requests, Responses!ReadRows(r) PROVE ResponsesInv'
  BY <1>5, ReadOK
<1>6. ASSUME NEW r \in Requests, Responses!LoadEnds(r) PROVE ResponsesInv'
  BY <1>6, LoadEndsOK
<1>7. ASSUME NEW r \in Requests, Responses!LoadFails(r) PROVE ResponsesInv'
  BY <1>7, LoadFailsOK
<1>8. CASE UNCHANGED responseVars
  BY <1>8 DEF ResponsesInv, Counters, responseVars
<1>9. QED
  BY <1>1, <1>2, <1>3, <1>4, <1>5, <1>6, <1>7, <1>8 DEF Responses!Next

\* A generation for each change of this isolate that is marked: there are as many changes.
Marks == generation + Cardinality(unmarked)

ResponseBounds ==
    /\ stored \in 0 .. MaxChanges /\ marked \in Nat /\ generation \in Nat
    /\ unmarked \subseteq 1 .. stored /\ Marks <= stored
    /\ \A r \in Requests : request[r].at \in {"loading", "loaded"} => request[r].generation \in Nat
    /\ entry.kind # "none" => entry.generation \in Nat

LEMMA UnmarkedAre ==
    ASSUME ResponseBounds
    PROVE  IsFiniteSet(unmarked) /\ Cardinality(unmarked) \in Nat /\ stored \in Nat /\ MaxChanges \in Nat
<1>1. stored \in Nat /\ MaxChanges \in Nat
  BY ResponseAssumption DEF Responses!ResponseAssumption, ResponseBounds
<1> DEFINE one == 1
<1>2. one \in Int /\ stored \in Int /\ unmarked \in SUBSET (one .. stored)
  BY <1>1 DEF ResponseBounds
<1> HIDE DEF one
<1>3. IsFiniteSet(one .. stored)
  BY <1>2, FS_Interval
<1>4. QED
  BY <1>1, <1>2, <1>3, FS_Subset, FS_CardinalityType

LEMMA ResponseBoundsInit == Responses!Init => ResponseBounds
<1> SUFFICES ASSUME Responses!Init PROVE ResponseBounds
  OBVIOUS
<1>1. MaxChanges \in Nat
  BY ResponseAssumption DEF Responses!ResponseAssumption
<1>2. Marks = 0
  BY FS_EmptySet DEF Responses!Init, Marks
<1>3. QED
  BY <1>1, <1>2 DEF Responses!Init, Responses!NoEntry, Responses!Waiting, ResponseBounds

\* A change is stored, by this isolate or elsewhere.
LEMMA StoringBounded ==
    ASSUME ResponseBounds, Responses!Store \/ Responses!StoreElsewhere
    PROVE  ResponseBounds'
<1> DEFINE n == stored + 1
<1>1. /\ stored < MaxChanges /\ stored' = n /\ UNCHANGED <<marked, generation, entry, request>>
      /\ unmarked' = unmarked \/ unmarked' = unmarked \cup {n}
  BY DEF Responses!Store, Responses!StoreElsewhere
<1>2. /\ IsFiniteSet(unmarked) /\ Cardinality(unmarked) \in Nat /\ stored \in Nat /\ MaxChanges \in Nat
      /\ unmarked \subseteq 1 .. stored /\ generation \in Nat
      /\ generation + Cardinality(unmarked) <= stored
  BY UnmarkedAre DEF ResponseBounds, Marks
<1>3. n \in 0 .. MaxChanges /\ n \in 1 .. n /\ n \in Int /\ n = stored + 1
  BY <1>1, <1>2
<1> HIDE DEF n
<1>4. unmarked' \subseteq 1 .. n
  <2>1. 1 .. stored \subseteq 1 .. n
    BY <1>2, <1>3
  <2>2. QED
    BY <1>1, <1>2, <1>3, <2>1
<1>5. Cardinality(unmarked') \in Nat /\ Cardinality(unmarked') <= Cardinality(unmarked) + 1
  <2>1. Cardinality(unmarked \cup {n}) \in {Cardinality(unmarked), Cardinality(unmarked) + 1}
    BY <1>2, FS_AddElement
  <2>2. Cardinality(unmarked') \in {Cardinality(unmarked), Cardinality(unmarked) + 1}
    BY <1>1, <2>1
  <2>3. QED
    BY <1>2, <2>2
<1>6. Marks' <= stored'
  BY <1>1, <1>2, <1>3, <1>5 DEF Marks
<1>7. QED
  BY <1>1, <1>3, <1>4, <1>6 DEF ResponseBounds

LEMMA MarkingBounded ==
    ASSUME ResponsesInv, ResponseBounds, NEW c \in unmarked, Responses!MarkStateChanged(c)
    PROVE  ResponseBounds'
<1>1. /\ unmarked' = unmarked \ {c} /\ generation' = generation + 1
      /\ marked' = Responses!Max({marked, c}) /\ UNCHANGED <<stored, entry, request>>
  BY DEF Responses!MarkStateChanged
<1>2. /\ IsFiniteSet(unmarked) /\ Cardinality(unmarked) \in Nat /\ stored \in Nat
      /\ unmarked \subseteq 1 .. stored /\ generation \in Nat /\ marked \in Nat
      /\ generation + Cardinality(unmarked) <= stored
  BY UnmarkedAre DEF ResponseBounds, Marks
<1>3. Cardinality(unmarked') = Cardinality(unmarked) - 1 /\ Cardinality(unmarked') \in Nat
  BY <1>1, <1>2, FS_RemoveElement, FS_CardinalityType
<1>4. Marks' <= stored'
  BY <1>1, <1>2, <1>3 DEF Marks
<1>5. marked' \in Nat
  <2>1. c \in Int /\ c \in Nat /\ marked \in Int
    BY <1>2
  <2>2. QED
    BY <1>1, <1>2, <2>1, MaxOfTwo
<1>6. generation' \in Nat
  BY <1>1, <1>2
<1>7. QED
  BY <1>1, <1>2, <1>4, <1>5, <1>6 DEF ResponseBounds

LEMMA AnsweringBounded ==
    ASSUME ResponsesInv, ResponseBounds, NEW r \in Requests,
           \/ Responses!Begin(r) \/ Responses!ReadRows(r) \/ Responses!LoadEnds(r)
           \/ Responses!LoadFails(r)
    PROVE  ResponseBounds'
<1>1. UNCHANGED <<stored, unmarked, marked, generation>>
  BY DEF Responses!Begin, Responses!ReadRows, Responses!LoadEnds, Responses!LoadFails
<1>2. /\ request = [q \in Requests |-> request[q]] /\ generation \in Nat
      /\ \A q \in Requests : request[q].at \in {"loading", "loaded"} => request[q].generation \in Nat
      /\ entry.kind # "none" => entry.generation \in Nat
  BY DEF ResponsesInv, ResponseBounds
<1> DEFINE RequestsBounded(R) ==
               \A q \in Requests : R[q].at \in {"loading", "loaded"} => R[q].generation \in Nat
           EntryBounded(e) == e.kind # "none" => e.generation \in Nat
<1>3. ASSUME NEW j, j.at \in {"loading", "loaded"} => j.generation \in Nat,
             NEW R, R = [q \in Requests |-> R[q]], RequestsBounded(R)
      PROVE  RequestsBounded([R EXCEPT ![r] = j])
  BY <1>3
<1>4. ASSUME NEW v PROVE RequestsBounded(Responses!Resolved(r, v))
                         /\ Responses!Resolved(r, v) = [q \in Requests |-> Responses!Resolved(r, v)[q]]
  BY <1>2 DEF Responses!Resolved, Responses!Done
<1>5. /\ \A n, v : Responses!Done(n, v).at = "done"
      /\ \A n, t : Responses!Begun(r, n, t).at = "loading" /\ Responses!Begun(r, n, t).generation = generation
      /\ \A n : Responses!Joined(n).at = "joined"
      /\ EntryBounded(Responses!NoEntry) /\ EntryBounded(Responses!Pending(r, generation))
  BY <1>2 DEF Responses!Done, Responses!Begun, Responses!Joined, Responses!NoEntry, Responses!Pending
<1>6. RequestsBounded(request') /\ EntryBounded(entry')
  <2>1. CASE Responses!Begin(r)
    <3>1. /\ entry' = entry \/ entry' = Responses!Pending(r, generation)
          /\ \E n, v, t : \/ request' = [request EXCEPT ![r] = Responses!Done(n, v)]
                          \/ request' = [request EXCEPT ![r] = Responses!Joined(n)]
                          \/ request' = [request EXCEPT ![r] = Responses!Begun(r, n, t)]
      BY <2>1 DEF Responses!Begin, Responses!Cached
    <3>2. EntryBounded(entry')
      BY <1>2, <1>5, <3>1
    <3>3. PICK j : request' = [request EXCEPT ![r] = j] /\ (j.at \in {"loading", "loaded"} => j.generation \in Nat)
      BY <1>2, <1>5, <3>1
    <3>4. RequestsBounded(request')
      BY <1>2, <1>3, <3>3
    <3>5. QED
      BY <3>2, <3>4
  <2>2. CASE Responses!ReadRows(r)
    <3> DEFINE j == [at |-> "loaded", need |-> request[r].need, retry |-> request[r].retry,
                     generation |-> request[r].generation, value |-> stored]
    <3>1. entry' = entry /\ request' = [request EXCEPT ![r] = j] /\ request[r].at = "loading"
      BY <2>2 DEF Responses!ReadRows
    <3>2. j.at \in {"loading", "loaded"} => j.generation \in Nat
      BY <1>2, <3>1
    <3> HIDE DEF j
    <3>3. QED
      BY <1>2, <1>3, <3>1, <3>2
  <2>3. CASE Responses!LoadEnds(r)
    <3> DEFINE v == request[r].value
               R == Responses!Resolved(r, v)
    <3>1. request[r].at = "loaded"
      BY <2>3 DEF Responses!LoadEnds
    <3>2. EntryBounded(Responses!Filled(r))
      BY <1>2, <3>1 DEF Responses!Filled, Responses!Value
    <3>3. /\ \/ entry' = Responses!Filled(r) \/ entry' = Responses!NoEntry
             \/ entry' = Responses!Pending(r, generation)
          /\ \/ request' = [R EXCEPT ![r] = Responses!Done(R[r].need, v)]
             \/ request' = [R EXCEPT ![r] = Responses!Begun(r, R[r].need, FALSE)]
      <4>1. R = [q \in Requests |-> R[q]]
        BY <1>4
      <4>2. QED
        BY <2>3, <4>1 DEF Responses!LoadEnds
    <3>4. EntryBounded(entry')
      BY <1>5, <3>2, <3>3
    <3>5. RequestsBounded(R) /\ R = [q \in Requests |-> R[q]]
      BY <1>4
    <3> HIDE DEF R
    <3> DEFINE done == Responses!Done(R[r].need, v)
               again == Responses!Begun(r, R[r].need, FALSE)
    <3>6. /\ done.at = "done" /\ again.at = "loading" /\ again.generation = generation
          /\ request' = [R EXCEPT ![r] = done] \/ request' = [R EXCEPT ![r] = again]
      BY <1>5, <3>3
    <3> HIDE DEF done, again
    <3>7. RequestsBounded(request')
      BY <1>2, <1>3, <3>5, <3>6
    <3>8. QED
      BY <3>4, <3>7
  <2>4. CASE Responses!LoadFails(r)
    <3>1. /\ entry' = Responses!NoEntry
          /\ \A q \in Requests : request'[q] = request[q] \/ request'[q].at = "failed"
      BY <2>4 DEF Responses!LoadFails
    <3>2. QED
      BY <1>2, <1>5, <3>1
  <2>5. QED
    BY <2>1, <2>2, <2>3, <2>4
<1>7. QED
  BY <1>1, <1>6 DEF ResponseBounds, Marks

LEMMA ResponseBoundsNext == ResponsesInv /\ ResponseBounds /\ [Responses!Next]_responseVars => ResponseBounds'
<1>1. ASSUME ResponseBounds, UNCHANGED responseVars PROVE ResponseBounds'
  BY <1>1 DEF responseVars, ResponseBounds, Marks
<1>2. ASSUME ResponsesInv, ResponseBounds, Responses!Expire PROVE ResponseBounds'
  <2>1. /\ entry.kind # "none" /\ entry' = [entry EXCEPT !.expired = TRUE]
        /\ UNCHANGED <<stored, unmarked, marked, generation, request>>
    BY <1>2 DEF Responses!Expire
  <2>2. entry'.generation = entry.generation /\ entry.generation \in Nat
    BY <1>2, <2>1 DEF ResponseBounds, ResponsesInv, EntryOK, Responses!NoEntry
  <2>3. QED
    BY <1>2, <2>1, <2>2 DEF ResponseBounds, Marks
<1>3. ASSUME ResponsesInv, ResponseBounds, Responses!Next PROVE ResponseBounds'
  BY <1>2, <1>3, StoringBounded, MarkingBounded, AnsweringBounded DEF Responses!Next
<1>4. QED
  BY <1>1, <1>3

LEMMA ResponsesTyped == ResponsesInv /\ ResponseBounds => Responses!TypeOK
<1> SUFFICES ASSUME ResponsesInv, ResponseBounds PROVE Responses!TypeOK
  OBVIOUS
<1>1. /\ stored \in 0 .. MaxChanges /\ marked \in Nat /\ marked <= stored
      /\ unmarked \subseteq 1 .. stored /\ stored \in Nat /\ MaxChanges \in Nat
  BY UnmarkedAre DEF ResponsesInv, Counters, ResponseBounds
<1>2. generation \in 0 .. MaxChanges
  <2>1. Cardinality(unmarked) \in Nat /\ generation \in Nat /\ generation + Cardinality(unmarked) <= stored
        /\ stored <= MaxChanges /\ stored \in Nat /\ MaxChanges \in Nat
    BY <1>1, UnmarkedAre DEF ResponseBounds, Marks
  <2>2. QED
    BY <2>1
<1>3. /\ entry.kind \in {"none", "value", "pending"}
      /\ entry.kind # "none" => entry.generation \in 0 .. generation
  <2>1. generation \in Nat /\ (entry.kind # "none" => entry.generation \in Nat)
    BY DEF ResponseBounds
  <2>2. EntryOK(entry, request, generation, marked)
    BY DEF ResponsesInv
  <2>3. entry.kind \in {"none", "value", "pending"}
    BY <2>2 DEF EntryOK, Responses!NoEntry
  <2>4. entry.kind # "none" => entry.generation <= generation
    <3>1. CASE entry.kind = "pending"
      <4>1. entry.load \in Requests /\ request[entry.load].at \in {"loading", "loaded"}
            /\ request[entry.load].generation = entry.generation
        BY <2>2, <3>1 DEF EntryOK, Responses!NoEntry
      <4>2. RequestOK(request[entry.load], request, generation, marked)
        BY <4>1 DEF ResponsesInv
      <4>3. QED
        BY <4>1, <4>2 DEF RequestOK
    <3>2. CASE entry.kind = "value"
      BY <2>2, <3>2 DEF EntryOK, Responses!NoEntry
    <3>3. QED
      BY <2>3, <3>1, <3>2
  <2>5. QED
    BY <2>1, <2>3, <2>4
<1>4. \A r \in Requests : request[r].at \in {"new", "loading", "loaded", "joined", "done", "failed"}
  BY DEF ResponsesInv, RequestOK
<1>5. QED
  BY <1>1, <1>2, <1>3, <1>4 DEF Responses!TypeOK

-----------------------------------------------------------------------------
(* PlaybackCache: once the viewer is told, the map is one that no earlier read holds, and
   what those who ask afterwards wait for was read afterwards. *)

CacheRequest == [at: {"none", "reading", "read", "waiting", "served", "failed"}, map: Nat,
                 by: Requests \cup {0}, shows: BOOLEAN]
CacheEntry == [kind: {"none", "pending", "page"}, by: Requests \cup {0}, shows: BOOLEAN]

CacheTypes ==
    /\ req \in [Requests -> CacheRequest] /\ shared \in [Cache!Maps -> CacheEntry]
    /\ map \in Nat /\ created \in Nat /\ map <= created /\ created <= MaxMaps
    /\ late \subseteq Requests

\* A map is new, and every request that began has one of those there are.
MapsOK ==
    /\ \A m \in Cache!Maps : m > created => shared[m].kind = "none"
    /\ \A r \in Requests : req[r].at # "none" => req[r].map >= 1 /\ req[r].map <= created

\* What a request made after the answer sees, or will see.
LateOK == \A r \in late :
    /\ req[r].at \in {"read", "served"} => req[r].shows = FALSE
    /\ req[r].at = "waiting" => req[r].by \in late

AnsweredOK ==
    /\ block # "none" => gone
    /\ block # "answered" => late = {}
    /\ block = "answered" /\ map # 0 =>
           /\ shared[map].kind = "page" => shared[map].shows = FALSE
           /\ shared[map].kind = "pending" => shared[map].by \in late
           /\ \A r \in Requests \ late : req[r].at \in {"reading", "read"} => req[r].map # map

CacheInv == CacheTypes /\ MapsOK /\ LateOK /\ AnsweredOK

LEMMA CacheInitOK == Cache!Init => CacheInv
<1> SUFFICES ASSUME Cache!Init PROVE CacheInv
  OBVIOUS
<1> USE CacheAssumption DEF Cache!CacheAssumption
<1>1. CacheTypes
  <2>1. Cache!NoRequest \in CacheRequest /\ Cache!NoEntry \in CacheEntry
    BY DEF CacheRequest, CacheEntry, Cache!NoRequest, Cache!NoEntry
  <2>2. QED
    BY <2>1 DEF CacheTypes, Cache!Init
<1>2. MapsOK
  BY DEF MapsOK, Cache!Init, Cache!NoEntry, Cache!NoRequest
<1>3. LateOK /\ AnsweredOK
  BY DEF LateOK, AnsweredOK, Cache!Init
<1>4. QED
  BY <1>1, <1>2, <1>3 DEF CacheInv

LEMMA AskingOK ==
    ASSUME CacheInv, NEW r \in Requests, Cache!CachedPlaybackPage(r)
    PROVE  CacheInv'
<1> DEFINE m == IF map = 0 THEN created + 1 ELSE map
           e == shared[m]
           answer == [at |-> "served", map |-> m, by |-> r, shows |-> e.shows]
           wait == [at |-> "waiting", map |-> m, by |-> e.by, shows |-> FALSE]
           read == [at |-> "reading", map |-> m, by |-> r, shows |-> FALSE]
           reading == [kind |-> "pending", by |-> r, shows |-> FALSE]
<1> USE CacheAssumption DEF Cache!CacheAssumption
<1>1. /\ req[r].at = "none" /\ m \in Cache!Maps /\ map' = m
      /\ created' = (IF map = 0 THEN m ELSE created)
      /\ late' = (IF block = "answered" THEN late \cup {r} ELSE late)
      /\ gone' = gone /\ block' = block
  BY DEF Cache!CachedPlaybackPage
<1>2. \/ e.kind = "page" /\ req' = [req EXCEPT ![r] = answer] /\ shared' = shared
      \/ e.kind = "pending" /\ req' = [req EXCEPT ![r] = wait] /\ shared' = shared
      \/ /\ e.kind = "none" /\ req' = [req EXCEPT ![r] = read]
         /\ shared' = [shared EXCEPT ![m] = reading]
  <2>1. e.kind \in {"none", "pending", "page"}
    BY <1>1 DEF CacheInv, CacheTypes, CacheEntry
  <2>2. QED
    BY <2>1 DEF Cache!CachedPlaybackPage
<1>3. /\ m \in Nat /\ m >= 1 /\ m <= created' /\ created' >= created /\ created' <= MaxMaps
      /\ created' \in Nat
      /\ map = 0 => m > created
  BY <1>1 DEF CacheInv, CacheTypes, Cache!Maps
<1>4. e \in CacheEntry /\ r \in Requests /\ req[r] \in CacheRequest
  BY <1>1 DEF CacheInv, CacheTypes
<1>5. /\ answer \in CacheRequest /\ wait \in CacheRequest /\ read \in CacheRequest
      /\ reading \in CacheEntry
  BY <1>3, <1>4 DEF CacheRequest, CacheEntry
<1>6. map = 0 => e.kind = "none"
  BY <1>1, <1>3 DEF CacheInv, MapsOK
<1>7. CacheTypes'
  BY <1>1, <1>2, <1>3, <1>5 DEF CacheInv, CacheTypes
<1>8. req'[r].map = m /\ \A q \in Requests \ {r} : req'[q] = req[q]
  BY <1>2 DEF CacheInv, CacheTypes
<1>9. \A n \in Cache!Maps \ {m} : shared'[n] = shared[n]
  BY <1>2 DEF CacheInv, CacheTypes
<1>10. MapsOK'
  <2>1. \A q \in Requests : req'[q].at # "none" => req'[q].map >= 1 /\ req'[q].map <= created'
    <3>1. ASSUME NEW q \in Requests \ {r}, req'[q].at # "none"
          PROVE  req'[q].map >= 1 /\ req'[q].map <= created'
      <4>1. req'[q] = req[q] /\ req[q].map \in Nat /\ created \in Nat
        BY <1>8 DEF CacheInv, CacheTypes, CacheRequest
      <4>2. req[q].map >= 1 /\ req[q].map <= created
        BY <3>1, <4>1 DEF CacheInv, MapsOK
      <4>3. QED
        BY <1>3, <4>1, <4>2
    <3>2. QED
      BY <1>3, <1>8, <3>1
  <2>2. ASSUME NEW n \in Cache!Maps, n > created' PROVE shared'[n].kind = "none"
    <3>1. n # m /\ n > created
      BY <1>1, <1>3, <2>2 DEF CacheInv, CacheTypes, Cache!Maps
    <3>2. QED
      BY <1>9, <3>1 DEF CacheInv, MapsOK
  <2>3. QED
    BY <2>1, <2>2 DEF MapsOK
<1>11. CASE block = "answered"
  <2>1. /\ e.kind = "page" => e.shows = FALSE
        /\ e.kind = "pending" => e.by \in late
    BY <1>6, <1>11 DEF CacheInv, AnsweredOK
  <2>2. /\ req'[r].at \in {"read", "served"} => req'[r].shows = FALSE
        /\ req'[r].at = "waiting" => req'[r].by \in late
    BY <1>2, <2>1 DEF CacheInv, CacheTypes
  <2>3. LateOK'
    <3>1. ASSUME NEW q \in late, q # r
          PROVE  /\ req'[q].at \in {"read", "served"} => req'[q].shows = FALSE
                 /\ req'[q].at = "waiting" => req'[q].by \in late
      <4>1. req'[q] = req[q]
        BY <1>8, <3>1 DEF CacheInv, CacheTypes
      <4>2. QED
        BY <3>1, <4>1 DEF CacheInv, LateOK
    <3>2. QED
      BY <1>1, <1>11, <2>2, <3>1 DEF LateOK
  <2>4. /\ shared'[m].kind = "page" => shared'[m].shows = FALSE
        /\ shared'[m].kind = "pending" => shared'[m].by \in late \cup {r}
    BY <1>1, <1>2, <2>1 DEF CacheInv, CacheTypes
  <2>5. ASSUME NEW q \in Requests \ (late \cup {r}), req'[q].at \in {"reading", "read"}
        PROVE  req'[q].map # m
    <3>1. req'[q] = req[q] /\ req[q].map <= created /\ req[q] \in CacheRequest
      BY <1>8, <2>5 DEF CacheInv, CacheTypes, MapsOK
    <3>2. CASE map = 0
      BY <1>3, <3>1, <3>2 DEF CacheInv, CacheTypes, CacheRequest
    <3>3. CASE map # 0
      BY <1>11, <2>5, <3>1, <3>3 DEF CacheInv, AnsweredOK
    <3>4. QED
      BY <3>2, <3>3
  <2>6. AnsweredOK'
    BY <1>1, <1>11, <2>4, <2>5 DEF CacheInv, AnsweredOK
  <2>7. QED
    BY <1>7, <1>10, <2>3, <2>6 DEF CacheInv
<1>12. CASE block # "answered"
  <2>1. late' = {} /\ block' # "answered" /\ (block' # "none" => gone')
    BY <1>1, <1>12 DEF CacheInv, AnsweredOK
  <2>2. QED
    BY <1>7, <1>10, <2>1 DEF CacheInv, LateOK, AnsweredOK
<1>13. QED
  BY <1>11, <1>12

LEMMA LandingOK ==
    ASSUME CacheInv, NEW r \in Requests, Cache!ReadLands(r)
    PROVE  CacheInv'
<1> DEFINE landed == [req[r] EXCEPT !.at = "read", !.shows = ~gone]
<1>1. /\ req[r].at = "reading" /\ req' = [req EXCEPT ![r] = landed]
      /\ UNCHANGED <<gone, block, map, created, shared, late, events>>
  BY DEF Cache!ReadLands
<1>2. req[r] \in CacheRequest
  BY DEF CacheInv, CacheTypes
<1>3. (~gone) \in BOOLEAN
  OBVIOUS
<1> DEFINE s == ~gone
<1> HIDE DEF s
<1>4. [req[r] EXCEPT !.at = "read", !.shows = s] \in CacheRequest
  BY <1>2, <1>3 DEF CacheRequest, s
<1>5. /\ [req[r] EXCEPT !.at = "read", !.shows = s].at = "read"
      /\ [req[r] EXCEPT !.at = "read", !.shows = s].shows = s
      /\ [req[r] EXCEPT !.at = "read", !.shows = s].map = req[r].map
  BY <1>2 DEF CacheRequest
<1>6. /\ landed \in CacheRequest /\ landed.at = "read" /\ landed.shows = (~gone)
      /\ landed.map = req[r].map
  BY <1>4, <1>5 DEF s
<1> HIDE DEF landed
<1>7. CacheTypes'
  BY <1>1, <1>6 DEF CacheInv, CacheTypes
<1>8. req'[r] = landed /\ \A q \in Requests \ {r} : req'[q] = req[q]
  BY <1>1 DEF CacheInv, CacheTypes
<1>9. MapsOK'
  BY <1>1, <1>6, <1>8 DEF CacheInv, MapsOK
<1>10. r \in late => landed.shows = FALSE
  <2>1. r \in late => gone
    BY DEF CacheInv, AnsweredOK
  <2>2. QED
    BY <1>6, <2>1
<1>11. LateOK'
  BY <1>1, <1>6, <1>8, <1>10 DEF CacheInv, CacheTypes, LateOK
<1>12. AnsweredOK'
  BY <1>1, <1>6, <1>8 DEF CacheInv, AnsweredOK
<1>13. QED
  BY <1>7, <1>9, <1>11, <1>12 DEF CacheInv

\* A read ends, and with it every request that waits for it: as `at`, with the page it
\* shows, in the entry that is left behind.
LEMMA ReadEndsOK ==
    ASSUME CacheInv, NEW r \in Requests, req[r].at \in {"reading", "read"},
           NEW E \in [Requests -> CacheRequest], NEW left \in CacheEntry,
           \A q \in Requests :
               IF q = r \/ (req[q].at = "waiting" /\ req[q].by = r)
               THEN /\ E[q].at \in {"served", "failed"} /\ E[q].map = req[q].map
                    /\ E[q].at = "served" => req[r].at = "read" /\ E[q].shows = req[r].shows
               ELSE E[q] = req[q],
           req' = E, shared' = [shared EXCEPT ![req[r].map] = left],
           \/ left.kind = "none"
           \/ left.kind = "page" /\ req[r].at = "read" /\ left.shows = req[r].shows,
           UNCHANGED <<gone, block, map, created, late>>
    PROVE  CacheInv'
<1> USE CacheAssumption DEF Cache!CacheAssumption
<1>1. /\ req[r].map \in Nat /\ req[r].map >= 1 /\ req[r].map <= created
      /\ created \in Nat /\ created <= MaxMaps
  BY DEF CacheInv, CacheTypes, CacheRequest, MapsOK
<1>2. req[r].map \in Cache!Maps
  BY <1>1 DEF Cache!Maps
<1>3. /\ shared'[req[r].map] = left
      /\ \A n \in Cache!Maps \ {req[r].map} : shared'[n] = shared[n]
  BY <1>2 DEF CacheInv, CacheTypes
<1>4. CacheTypes'
  BY <1>2 DEF CacheInv, CacheTypes
<1>5. MapsOK'
  <2>1. \A q \in Requests : req'[q].at # "none" => req'[q].map >= 1 /\ req'[q].map <= created'
    BY DEF CacheInv, MapsOK
  <2>2. ASSUME NEW n \in Cache!Maps, n > created PROVE n # req[r].map
    BY <1>1, <2>2 DEF Cache!Maps
  <2>3. QED
    BY <1>3, <2>1, <2>2 DEF CacheInv, MapsOK
<1>6. r \in late /\ req[r].at = "read" => req[r].shows = FALSE
  BY DEF CacheInv, LateOK
<1>7. LateOK'
  <2>1. ASSUME NEW q \in late
        PROVE  /\ req'[q].at \in {"read", "served"} => req'[q].shows = FALSE
               /\ req'[q].at = "waiting" => req'[q].by \in late
    <3>1. q \in Requests
      BY DEF CacheInv, CacheTypes
    <3>2. CASE q = r \/ (req[q].at = "waiting" /\ req[q].by = r)
      <4>1. r \in late
        BY <3>2 DEF CacheInv, LateOK
      <4>2. QED
        BY <1>6, <3>1, <3>2, <4>1
    <3>3. CASE ~(q = r \/ (req[q].at = "waiting" /\ req[q].by = r))
      BY <3>1, <3>3 DEF CacheInv, LateOK
    <3>4. QED
      BY <3>2, <3>3
  <2>2. QED
    BY <2>1 DEF LateOK
<1>8. AnsweredOK'
  <2>1. ASSUME block = "answered", map # 0
        PROVE  /\ shared'[map].kind = "page" => shared'[map].shows = FALSE
               /\ shared'[map].kind = "pending" => shared'[map].by \in late
    <3>1. CASE map = req[r].map
      <4>1. r \in late
        BY <2>1, <3>1 DEF CacheInv, AnsweredOK
      <4>2. QED
        BY <1>3, <1>6, <3>1, <4>1
    <3>2. CASE map # req[r].map
      <4>1. map \in Cache!Maps
        BY <1>1, <2>1 DEF CacheInv, CacheTypes, Cache!Maps
      <4>2. QED
        BY <1>3, <2>1, <3>2, <4>1 DEF CacheInv, AnsweredOK
    <3>3. QED
      BY <3>1, <3>2
  <2>2. ASSUME block = "answered", map # 0, NEW q \in Requests \ late,
               req'[q].at \in {"reading", "read"}
        PROVE  req'[q].map # map
    <3>1. req'[q] = req[q]
      BY <2>2
    <3>2. QED
      BY <2>2, <3>1 DEF CacheInv, AnsweredOK
  <2>3. (block # "none" => gone) /\ (block # "answered" => late = {})
    BY DEF CacheInv, AnsweredOK
  <2>4. gone' = gone /\ block' = block /\ map' = map /\ late' = late
    OBVIOUS
  <2>5. ASSUME block' = "answered", map' # 0
        PROVE  /\ shared'[map'].kind = "page" => shared'[map'].shows = FALSE
               /\ shared'[map'].kind = "pending" => shared'[map'].by \in late'
               /\ \A q \in Requests \ late' : req'[q].at \in {"reading", "read"} => req'[q].map # map'
    <3>1. block = "answered" /\ map # 0
      BY <2>4, <2>5
    <3>2. \A q \in Requests \ late : req'[q].at \in {"reading", "read"} => req'[q].map # map
      BY <2>2, <3>1
    <3>3. QED
      BY <2>1, <2>4, <3>1, <3>2
  <2>6. (block' # "none" => gone') /\ (block' # "answered" => late' = {})
    BY <2>3, <2>4
  <2>7. QED
    BY <2>5, <2>6 DEF AnsweredOK
<1>9. QED
  BY <1>4, <1>5, <1>7, <1>8 DEF CacheInv

LEMMA ReturningOK ==
    ASSUME CacheInv, NEW r \in Requests, Cache!ReadReturns(r)
    PROVE  CacheInv'
<1> DEFINE ends(q) == q = r \/ (req[q].at = "waiting" /\ req[q].by = r)
           shown(q) == [req[q] EXCEPT !.at = "served", !.shows = req[r].shows]
           E == [q \in Requests |-> IF ends(q) THEN shown(q) ELSE req[q]]
           left == [kind |-> "page", by |-> r, shows |-> req[r].shows]
<1>1. /\ req[r].at = "read" /\ req' = E /\ shared' = [shared EXCEPT ![req[r].map] = left]
      /\ UNCHANGED <<gone, block, map, created, late>>
  BY DEF Cache!ReadReturns
<1>2. \A q \in Requests : req[q] \in CacheRequest
  BY DEF CacheInv, CacheTypes
<1> DEFINE s == req[r].shows
<1>3. s \in BOOLEAN
  BY <1>2 DEF CacheRequest
<1> HIDE DEF s
<1>4. ASSUME NEW q \in Requests
      PROVE  /\ [req[q] EXCEPT !.at = "served", !.shows = s] \in CacheRequest
             /\ [req[q] EXCEPT !.at = "served", !.shows = s].at = "served"
             /\ [req[q] EXCEPT !.at = "served", !.shows = s].shows = s
             /\ [req[q] EXCEPT !.at = "served", !.shows = s].map = req[q].map
  BY <1>2, <1>3 DEF CacheRequest
<1>5. left \in CacheEntry /\ left.kind = "page" /\ left.shows = s
  BY <1>3 DEF CacheEntry, s
<1>6. \A q \in Requests : /\ shown(q) \in CacheRequest /\ shown(q).at = "served"
                          /\ shown(q).shows = req[r].shows /\ shown(q).map = req[q].map
  BY <1>4 DEF s
<1> HIDE DEF shown, left
<1>7. E \in [Requests -> CacheRequest]
  BY <1>2, <1>6
<1>8. \A q \in Requests : IF ends(q) THEN E[q] = shown(q) ELSE E[q] = req[q]
  OBVIOUS
<1> HIDE DEF E
<1>9. \A q \in Requests :
        IF q = r \/ (req[q].at = "waiting" /\ req[q].by = r)
        THEN /\ E[q].at \in {"served", "failed"} /\ E[q].map = req[q].map
             /\ E[q].at = "served" => req[r].at = "read" /\ E[q].shows = req[r].shows
        ELSE E[q] = req[q]
  BY <1>1, <1>6, <1>8
<1>10. QED
  BY <1>1, <1>5, <1>7, <1>9, ReadEndsOK DEF s

LEMMA ReadFailingOK ==
    ASSUME CacheInv, NEW r \in Requests, Cache!ReadFails(r)
    PROVE  CacheInv'
<1> DEFINE ends(q) == q = r \/ (req[q].at = "waiting" /\ req[q].by = r)
           failed(q) == [req[q] EXCEPT !.at = "failed"]
           E == [q \in Requests |-> IF ends(q) THEN failed(q) ELSE req[q]]
<1>1. /\ req[r].at \in {"reading", "read"} /\ req' = E
      /\ shared' = [shared EXCEPT ![req[r].map] = Cache!NoEntry]
      /\ UNCHANGED <<gone, block, map, created, late>>
  BY DEF Cache!ReadFails
<1>2. \A q \in Requests : req[q] \in CacheRequest
  BY DEF CacheInv, CacheTypes
<1>3. Cache!NoEntry \in CacheEntry /\ Cache!NoEntry.kind = "none"
  BY DEF Cache!NoEntry, CacheEntry
<1>4. \A q \in Requests : /\ failed(q) \in CacheRequest /\ failed(q).at = "failed"
                          /\ failed(q).map = req[q].map
  BY <1>2 DEF CacheRequest
<1> HIDE DEF failed
<1>5. E \in [Requests -> CacheRequest]
  BY <1>2, <1>4
<1>6. \A q \in Requests : IF ends(q) THEN E[q] = failed(q) ELSE E[q] = req[q]
  OBVIOUS
<1> HIDE DEF E
<1>7. \A q \in Requests :
        IF q = r \/ (req[q].at = "waiting" /\ req[q].by = r)
        THEN /\ E[q].at \in {"served", "failed"} /\ E[q].map = req[q].map
             /\ E[q].at = "served" => req[r].at = "read" /\ E[q].shows = req[r].shows
        ELSE E[q] = req[q]
  BY <1>4, <1>6
<1>8. QED
  BY <1>1, <1>3, <1>5, <1>7, ReadEndsOK

\* Entries leave, the block is written, and the map is dropped.
LEMMA LeavingOK ==
    ASSUME CacheInv,
           \/ \E m \in Cache!Maps : Cache!EntryLeaves(m)
           \/ Cache!BlockWrites \/ Cache!BlockAnswers \/ Cache!OtherInvalidation
    PROVE  CacheInv'
<1>1. ASSUME NEW m \in Cache!Maps, Cache!EntryLeaves(m) PROVE CacheInv'
  <2>1. /\ shared' = [shared EXCEPT ![m] = Cache!NoEntry]
        /\ UNCHANGED <<gone, block, map, created, req, late>>
    BY <1>1 DEF Cache!EntryLeaves
  <2>2. Cache!NoEntry \in CacheEntry /\ Cache!NoEntry.kind = "none"
    BY DEF Cache!NoEntry, CacheEntry
  <2>3. \A n \in Cache!Maps : shared'[n] = IF n = m THEN Cache!NoEntry ELSE shared[n]
    BY <2>1 DEF CacheInv, CacheTypes
  <2>4. CacheTypes' /\ MapsOK' /\ LateOK'
    BY <2>1, <2>2, <2>3 DEF CacheInv, CacheTypes, MapsOK, LateOK
  <2>5. map # 0 => map \in Cache!Maps
    BY CacheAssumption DEF Cache!CacheAssumption, CacheInv, CacheTypes, Cache!Maps
  <2>6. AnsweredOK'
    BY <2>1, <2>2, <2>3, <2>5 DEF CacheInv, AnsweredOK
  <2>7. QED
    BY <2>4, <2>6 DEF CacheInv
<1>2. CASE Cache!BlockWrites
  BY <1>2 DEF Cache!BlockWrites, CacheInv, CacheTypes, MapsOK, LateOK, AnsweredOK
<1>3. CASE Cache!BlockAnswers
  BY <1>3 DEF Cache!BlockAnswers, Cache!InvalidatePlaybackResponseCache, CacheInv, CacheTypes,
              MapsOK, LateOK, AnsweredOK
<1>4. CASE Cache!OtherInvalidation
  BY <1>4 DEF Cache!OtherInvalidation, Cache!InvalidatePlaybackResponseCache, CacheInv,
              CacheTypes, MapsOK, LateOK, AnsweredOK
<1>5. QED
  BY <1>1, <1>2, <1>3, <1>4

LEMMA CacheNextOK == CacheInv /\ [Cache!Next]_cacheVars => CacheInv'
<1>1. ASSUME CacheInv, UNCHANGED cacheVars PROVE CacheInv'
  BY <1>1 DEF cacheVars, CacheInv, CacheTypes, MapsOK, LateOK, AnsweredOK
<1>2. ASSUME CacheInv, Cache!Next PROVE CacheInv'
  BY <1>2, AskingOK, LandingOK, ReturningOK, ReadFailingOK, LeavingOK DEF Cache!Next
<1>3. QED
  BY <1>1, <1>2

\* What the types say beside that.
CacheBounds ==
    /\ gone \in BOOLEAN /\ block \in {"none", "written", "answered"} /\ events \in 0 .. MaxEvents

LEMMA CacheTypesInit == Cache!Init => CacheBounds
<1> SUFFICES ASSUME Cache!Init PROVE CacheBounds
  OBVIOUS
<1>1. gone = FALSE /\ block = "none" /\ events = 0
  BY Zenon DEF Cache!Init
<1>2. gone \in BOOLEAN
  BY <1>1
<1>3. events \in 0 .. MaxEvents
  BY <1>1, CacheAssumption DEF Cache!CacheAssumption
<1>4. QED
  BY <1>1, <1>2, <1>3 DEF CacheBounds

LEMMA CacheTypesNext == CacheBounds /\ [Cache!Next]_cacheVars => CacheBounds'
<1> SUFFICES ASSUME CacheBounds, [Cache!Next]_cacheVars PROVE CacheBounds'
  OBVIOUS
<1>1. CASE UNCHANGED cacheVars
  BY <1>1 DEF cacheVars, CacheBounds
<1>2. ASSUME Cache!Event PROVE events' \in 0 .. MaxEvents
  BY <1>2, CacheAssumption DEF Cache!CacheAssumption, Cache!Event, CacheBounds
<1>3. ASSUME NEW r \in Requests, Cache!CachedPlaybackPage(r) \/ Cache!ReadLands(r) \/ Cache!ReadReturns(r)
      PROVE  CacheBounds'
  <2>1. UNCHANGED <<gone, block, events>>
    BY <1>3, Zenon DEF Cache!CachedPlaybackPage, Cache!ReadLands, Cache!ReadReturns
  <2>2. QED
    BY <2>1 DEF CacheBounds
<1>4. ASSUME NEW r \in Requests, Cache!ReadFails(r) PROVE CacheBounds'
  BY <1>2, <1>4 DEF Cache!ReadFails, CacheBounds
<1>5. ASSUME NEW m \in Cache!Maps, Cache!EntryLeaves(m) PROVE CacheBounds'
  BY <1>2, <1>5 DEF Cache!EntryLeaves, CacheBounds
<1>6. CASE Cache!BlockWrites \/ Cache!BlockAnswers
  BY <1>6 DEF Cache!BlockWrites, Cache!BlockAnswers, CacheBounds
<1>7. CASE Cache!OtherInvalidation
  BY <1>2, <1>7 DEF Cache!OtherInvalidation, CacheBounds
<1>8. QED
  BY <1>1, <1>3, <1>4, <1>5, <1>6, <1>7 DEF Cache!Next

\* A request that has not begun has no map.
NoMapYet == \A r \in Requests : req[r].at = "none" => req[r].map = 0

LEMMA NoMapInit == Cache!Init => NoMapYet
BY DEF Cache!Init, NoMapYet, Cache!NoRequest

LEMMA NoMapNext == CacheInv /\ NoMapYet /\ [Cache!Next]_cacheVars => NoMapYet'
<1> SUFFICES ASSUME CacheInv, NoMapYet, [Cache!Next]_cacheVars PROVE NoMapYet'
  OBVIOUS
<1>1. req \in [Requests -> CacheRequest]
  BY DEF CacheInv, CacheTypes
<1>2. CASE UNCHANGED req
  BY <1>2 DEF NoMapYet
<1>3. ASSUME NEW r \in Requests, Cache!CachedPlaybackPage(r) PROVE NoMapYet'
  <2>1. PICK st \in {"served", "waiting", "reading"} : \E m, b, w :
            req' = [req EXCEPT ![r] = [at |-> st, map |-> m, by |-> b, shows |-> w]]
    BY <1>3 DEF Cache!CachedPlaybackPage
  <2>2. QED
    BY <1>1, <2>1 DEF NoMapYet
<1>4. ASSUME NEW r \in Requests, Cache!ReadLands(r) PROVE NoMapYet'
  BY <1>1, <1>4 DEF Cache!ReadLands, NoMapYet, CacheRequest
<1>5. ASSUME NEW r \in Requests, Cache!ReadReturns(r) PROVE NoMapYet'
  BY <1>1, <1>5 DEF Cache!ReadReturns, NoMapYet, CacheRequest
<1>6. ASSUME NEW r \in Requests, Cache!ReadFails(r) PROVE NoMapYet'
  BY <1>1, <1>6 DEF Cache!ReadFails, NoMapYet, CacheRequest
<1>7. QED
  BY <1>2, <1>3, <1>4, <1>5, <1>6 DEF Cache!Next, cacheVars, Cache!EntryLeaves, Cache!BlockWrites,
     Cache!BlockAnswers, Cache!OtherInvalidation

LEMMA CacheTyped == CacheInv /\ CacheBounds /\ NoMapYet => Cache!TypeOK
<1> SUFFICES ASSUME CacheInv, CacheBounds, NoMapYet PROVE Cache!TypeOK
  OBVIOUS
<1>1. /\ map \in 0 .. created /\ created \in 0 .. MaxMaps
      /\ \A m \in Cache!Maps : shared[m].kind \in {"none", "pending", "page"} /\ shared[m].shows \in BOOLEAN
      /\ late \subseteq Requests
  BY CacheAssumption DEF Cache!CacheAssumption, CacheInv, CacheTypes, CacheEntry
<1>2. ASSUME NEW r \in Requests
      PROVE  /\ req[r].at \in {"none", "reading", "read", "waiting", "served", "failed"}
             /\ req[r].map \in 0 .. created
  <2>1. req[r] \in CacheRequest /\ created \in Nat
    BY DEF CacheInv, CacheTypes
  <2>2. req[r].map <= created
    BY <2>1 DEF CacheInv, MapsOK, NoMapYet
  <2>3. QED
    BY <2>1, <2>2 DEF CacheRequest
<1>3. QED
  BY <1>1, <1>2 DEF CacheBounds, Cache!TypeOK

-----------------------------------------------------------------------------
(* StationheadHealth: a row that says unhealthy, with alerts configured, comes with an
   announcement made or due; so do the rows that a check in progress carries. *)

HealthKeys == [kind: {"none", "down", "recovered"}, anchor: Int]
HealthRows == [healthy: BOOLEAN, last: Int, pending: {"none", "down", "recovered"},
               key: HealthKeys, alerts: BOOLEAN, stored: BOOLEAN]

\* A mail that failed is tried again under the key of its kind.
KeyOK(w) == w \in HealthRows /\ (w.pending # "none" => w.key.kind = w.pending)

Unannounced(w) == w.stored = TRUE /\ w.healthy = FALSE /\ w.alerts = TRUE /\ w.pending # "down"

SendOK(c) ==
    /\ c.current \in HealthRows /\ c.current.pending = "none"
    /\ c.current.key.kind \in {"down", "recovered"}
    /\ c.current.healthy = FALSE => c.current.key.kind = "down"

HealthInv ==
    /\ success \in Int /\ alerts \in BOOLEAN /\ announced \in BOOLEAN
    /\ KeyOK(health) /\ (Unannounced(health) => announced = TRUE)
    /\ \/ check = [step |-> "idle"]
       \/ check \in [step: {"send"}, previous: HealthRows, current: HealthRows] /\ SendOK(check)
       \/ /\ check \in [step: {"store"}, previous: HealthRows, current: HealthRows]
          /\ KeyOK(check.current) /\ (Unannounced(check.current) => announced = TRUE)

LEMMA HealthInitOK == Health!Init => HealthInv
<1> SUFFICES ASSUME Health!Init PROVE HealthInv
  OBVIOUS
<1>1. Health!NoRow \in HealthRows /\ Health!NoRow.healthy = TRUE /\ Health!NoRow.pending = "none"
  BY DEF Health!NoRow, Health!NoKey, Health!None, HealthRows, HealthKeys
<1>2. KeyOK(health) /\ ~Unannounced(health)
  <2>1. health = Health!NoRow
    BY DEF Health!Init
  <2>2. QED
    BY <1>1, <2>1 DEF KeyOK, Unannounced
<1>3. success \in Int /\ alerts \in BOOLEAN /\ announced \in BOOLEAN /\ check = [step |-> "idle"]
  <2>1. success = 0 /\ alerts \in BOOLEAN /\ announced = FALSE /\ check = Health!Idle
    BY Zenon DEF Health!Init
  <2>2. success \in Int
    BY <2>1, SMT
  <2>3. announced \in BOOLEAN
    BY <2>1, Zenon
  <2>4. QED
    BY <2>1, <2>2, <2>3, Zenon DEF Health!Idle
<1>4. QED
  BY <1>2, <1>3 DEF HealthInv

LEMMA KeyIsOfItsKind ==
    ASSUME HealthInv, NEW h \in BOOLEAN, NEW l \in Int, NEW kind \in {"down", "recovered"}
    PROVE  /\ Health!AlertTransitionKey([healthy |-> h, last |-> l], health, kind) \in HealthKeys
           /\ Health!AlertTransitionKey([healthy |-> h, last |-> l], health, kind).kind = kind
<1> DEFINE e == [healthy |-> h, last |-> l]
           own == [kind |-> kind, anchor |-> IF kind = "recovered" THEN Health!First(health.last, e.last)
                                             ELSE Health!First(e.last, health.last)]
           key == Health!AlertTransitionKey(e, health, kind)
<1>1. health \in HealthRows /\ (health.pending # "none" => health.key.kind = health.pending)
  BY DEF HealthInv, KeyOK
<1>2. own \in HealthKeys /\ own.kind = kind
  BY <1>1 DEF HealthRows, HealthKeys, Health!First
<1>3. key = IF health.pending = kind /\ health.key # Health!NoKey THEN health.key ELSE own
  BY DEF Health!AlertTransitionKey
<1>4. health.key \in HealthKeys
  BY <1>1 DEF HealthRows
<1> HIDE DEF own, key
<1>5. key \in HealthKeys /\ key.kind = kind
  BY <1>1, <1>2, <1>3, <1>4
<1>6. QED
  BY <1>5 DEF key

LEMMA CheckingOK ==
    ASSUME HealthInv, Health!Check
    PROVE  HealthInv'
<1>1. PICK e \in Health!Evaluations :
        LET down == Health!Down(health, e, alerts)
            kind == IF down THEN "down" ELSE "recovered"
            current == [healthy |-> e.healthy, last |-> e.last, pending |-> "none",
                        key |-> Health!NoKey, alerts |-> alerts, stored |-> TRUE]
        IN  check' = IF alerts /\ (down \/ Health!Recovered(health, e))
                     THEN [step |-> "send", previous |-> health,
                           current |-> [current EXCEPT !.key = Health!AlertTransitionKey(e, health, kind)]]
                     ELSE [step |-> "store", previous |-> health, current |-> current]
  BY DEF Health!Check
<1>2. PICK h \in BOOLEAN, l \in Int : e = [healthy |-> h, last |-> l]
  <2>1. /\ success \in Int /\ Health!None \in Int
    BY DEF HealthInv, Health!None
  <2>2. CASE e \in {[healthy |-> FALSE, last |-> l] : l \in {Health!None, success}}
    BY <2>1, <2>2
  <2>3. CASE e = [healthy |-> TRUE, last |-> success]
    BY <2>1, <2>3
  <2>4. QED
    BY <1>1, <2>2, <2>3 DEF Health!Evaluations
<1>3. /\ UNCHANGED <<success, health, alerts, announced>>
      /\ health \in HealthRows /\ alerts \in BOOLEAN
      /\ e.healthy = h /\ e.last = l
  BY <1>2 DEF Health!Check, HealthInv, KeyOK
<1> DEFINE down == Health!Down(health, e, alerts)
           kind == IF down THEN "down" ELSE "recovered"
           key == Health!AlertTransitionKey(e, health, kind)
           plain == [healthy |-> h, last |-> l, pending |-> "none",
                     key |-> Health!NoKey, alerts |-> alerts, stored |-> TRUE]
           keyed == [healthy |-> h, last |-> l, pending |-> "none",
                     key |-> key, alerts |-> alerts, stored |-> TRUE]
<1>4. \/ /\ alerts /\ (down \/ Health!Recovered(health, e))
         /\ check' = [step |-> "send", previous |-> health, current |-> keyed]
      \/ /\ ~(alerts /\ (down \/ Health!Recovered(health, e)))
         /\ check' = [step |-> "store", previous |-> health, current |-> plain]
  BY <1>1, <1>3
<1>5. kind \in {"down", "recovered"} /\ key \in HealthKeys /\ key.kind = kind
  BY <1>2, KeyIsOfItsKind
<1>6. CASE /\ alerts /\ (down \/ Health!Recovered(health, e))
           /\ check' = [step |-> "send", previous |-> health, current |-> keyed]
  <2>1. keyed \in HealthRows /\ keyed.pending = "none" /\ keyed.key = key /\ keyed.healthy = h
    BY <1>3, <1>5 DEF HealthRows
  <2>2. h = FALSE => down
    BY <1>3, <1>6 DEF Health!Recovered
  <2>3. /\ check' \in [step: {"send"}, previous: HealthRows, current: HealthRows]
        /\ check'.current = keyed
    BY <1>3, <1>6, <2>1
  <2>4. SendOK(check')
    BY <1>5, <2>1, <2>2, <2>3 DEF SendOK
  <2>5. QED
    BY <1>3, <2>3, <2>4 DEF HealthInv
<1>7. CASE /\ ~(alerts /\ (down \/ Health!Recovered(health, e)))
           /\ check' = [step |-> "store", previous |-> health, current |-> plain]
  <2>1. /\ plain \in HealthRows /\ plain.pending = "none" /\ plain.alerts = alerts
        /\ plain.healthy = h
    BY <1>3 DEF HealthRows, HealthKeys, Health!NoKey, Health!None
  <2>2. ASSUME alerts = TRUE, h = FALSE PROVE announced = TRUE
    <3>1. ~down
      BY <1>7, <2>2
    <3>2. /\ health.stored /\ ~health.healthy /\ health.pending # "down" /\ health.alerts
      BY <1>3, <2>2, <3>1 DEF Health!Down
    <3>3. /\ health.stored \in BOOLEAN /\ health.healthy \in BOOLEAN /\ health.alerts \in BOOLEAN
      BY <1>3 DEF HealthRows
    <3>4. Unannounced(health)
      BY <3>2, <3>3 DEF Unannounced
    <3>5. QED
      BY <3>4 DEF HealthInv
  <2>3. /\ check' \in [step: {"store"}, previous: HealthRows, current: HealthRows]
        /\ check'.current = plain
    BY <1>3, <1>7, <2>1
  <2>4. KeyOK(check'.current) /\ (Unannounced(check'.current) => announced' = TRUE)
    BY <1>3, <2>1, <2>2, <2>3 DEF KeyOK, Unannounced
  <2>5. QED
    BY <1>3, <2>3, <2>4 DEF HealthInv
<1>8. QED
  BY <1>4, <1>6, <1>7

LEMMA SendingOK ==
    ASSUME HealthInv, Health!Sent \/ Health!SendFails
    PROVE  HealthInv'
<1>1. /\ check \in [step: {"send"}, previous: HealthRows, current: HealthRows] /\ SendOK(check)
      /\ UNCHANGED <<success, health, alerts>>
  BY DEF HealthInv, Health!Sent, Health!SendFails
<1> DEFINE w == check.current
<1>2. /\ w \in HealthRows /\ w.pending = "none" /\ w.key.kind \in {"down", "recovered"}
      /\ w.healthy = FALSE => w.key.kind = "down"
  BY <1>1 DEF SendOK
<1>3. CASE Health!Sent
  <2> DEFINE v == [w EXCEPT !.key = Health!NoKey]
  <2>1. /\ check' = [step |-> "store", previous |-> check.previous, current |-> v]
    BY <1>1, <1>3 DEF Health!Sent
  <2>2. v \in HealthRows /\ v.pending = "none" /\ v.healthy = w.healthy
    BY <1>2 DEF HealthRows, HealthKeys, Health!NoKey, Health!None
  <2>3. /\ check' \in [step: {"store"}, previous: HealthRows, current: HealthRows]
        /\ check'.current = v
    BY <1>1, <2>1, <2>2
  <2>4. /\ announced' \in BOOLEAN /\ (announced = TRUE => announced' = TRUE)
        /\ w.key.kind = "down" => announced' = TRUE
    BY <1>3 DEF Health!Sent, HealthInv
  <2>5. KeyOK(check'.current) /\ (Unannounced(check'.current) => announced' = TRUE)
    BY <1>2, <2>2, <2>3, <2>4 DEF KeyOK, Unannounced
  <2>6. KeyOK(health') /\ (Unannounced(health') => announced' = TRUE)
    BY <1>1, <2>4 DEF HealthInv
  <2>7. QED
    BY <1>1, <2>3, <2>4, <2>5, <2>6 DEF HealthInv
<1>4. CASE Health!SendFails
  <2> DEFINE v == [w EXCEPT !.pending = w.key.kind]
  <2>1. /\ check' = [step |-> "store", previous |-> check.previous, current |-> v]
        /\ announced' = announced
    BY <1>1, <1>4 DEF Health!SendFails
  <2>2. v \in HealthRows /\ v.pending = w.key.kind /\ v.key = w.key /\ v.healthy = w.healthy
    BY <1>2 DEF HealthRows
  <2>3. /\ check' \in [step: {"store"}, previous: HealthRows, current: HealthRows]
        /\ check'.current = v
    BY <1>1, <2>1, <2>2
  <2>4. KeyOK(check'.current) /\ ~Unannounced(check'.current)
    BY <1>2, <2>2, <2>3 DEF KeyOK, Unannounced
  <2>5. QED
    BY <1>1, <2>1, <2>3, <2>4 DEF HealthInv
<1>5. QED
  BY <1>3, <1>4

LEMMA PersistingOK ==
    ASSUME HealthInv, Health!PersistHealth
    PROVE  HealthInv'
<1>1. /\ check \in [step: {"store"}, previous: HealthRows, current: HealthRows]
      /\ KeyOK(check.current) /\ (Unannounced(check.current) => announced = TRUE)
      /\ health' = check.current /\ check' = [step |-> "idle"]
      /\ UNCHANGED <<success, alerts>>
  BY DEF HealthInv, Health!PersistHealth, Health!Idle
<1>2. /\ announced' \in BOOLEAN
      /\ announced = TRUE /\ ~check.current.healthy => announced' = TRUE
  BY DEF HealthInv, Health!PersistHealth
<1>3. Unannounced(health') => announced' = TRUE
  BY <1>1, <1>2 DEF Unannounced
<1>4. QED
  BY <1>1, <1>2, <1>3 DEF HealthInv

LEMMA HealthNextOK == HealthInv /\ [Health!Next]_healthVars => HealthInv'
<1>1. ASSUME HealthInv, UNCHANGED healthVars PROVE HealthInv'
  BY <1>1 DEF healthVars, HealthInv
<1>2. ASSUME HealthInv, Health!Collect \/ Health!Configure \/ Health!Crash PROVE HealthInv'
  <2>1. /\ success' \in Int /\ alerts' \in BOOLEAN /\ UNCHANGED <<health, announced>>
        /\ check' = check \/ check' = [step |-> "idle"]
    <3>1. success' \in Int
      BY <1>2 DEF HealthInv, Health!Collect, Health!Configure, Health!Crash
    <3>2. alerts' \in BOOLEAN
      BY <1>2 DEF HealthInv, Health!Collect, Health!Configure, Health!Crash
    <3>3. QED
      BY <1>2, <3>1, <3>2 DEF Health!Collect, Health!Configure, Health!Crash, Health!Idle
  <2>2. QED
    BY <1>2, <2>1 DEF HealthInv
<1>3. ASSUME HealthInv, Health!Next PROVE HealthInv'
  BY <1>2, <1>3, CheckingOK, SendingOK, PersistingOK DEF Health!Next
<1>4. QED
  BY <1>1, <1>3

\* The types: what the rows and a check carry are successes there have been.
TypedKeys == [kind: {"none", "down", "recovered"}, anchor: 0 .. MaxSuccess]
TypedRows == [healthy: BOOLEAN, last: 0 .. MaxSuccess, pending: {"none", "down", "recovered"},
              key: TypedKeys, alerts: BOOLEAN, stored: BOOLEAN]

HealthTypes ==
    /\ success \in 0 .. MaxSuccess /\ health \in TypedRows
    /\ alerts \in BOOLEAN /\ announced \in BOOLEAN
    /\ checks \in 0 .. MaxChecks /\ switches \in 0 .. MaxSwitches
    /\ \/ check = [step |-> "idle"]
       \/ check \in [step: {"send", "store"}, previous: TypedRows, current: TypedRows]

LEMMA HealthTypesInit == Health!Init => HealthTypes
<1> SUFFICES ASSUME Health!Init PROVE HealthTypes
  OBVIOUS
<1>1. /\ success = 0 /\ checks = 0 /\ switches = 0 /\ health = Health!NoRow /\ alerts \in BOOLEAN
      /\ announced = FALSE /\ check = [step |-> "idle"]
  BY Zenon DEF Health!Init, Health!Idle
<1>2. 0 \in 0 .. MaxSuccess /\ 0 \in 0 .. MaxChecks /\ 0 \in 0 .. MaxSwitches
  BY HealthAssumption DEF Health!HealthAssumption
<1>3. Health!NoRow \in TypedRows
  BY <1>2 DEF Health!NoRow, Health!NoKey, Health!None, TypedRows, TypedKeys
<1>4. announced \in BOOLEAN
  BY <1>1
<1>5. QED
  BY <1>1, <1>2, <1>3, <1>4, Zenon DEF HealthTypes

LEMMA CheckTyped ==
    ASSUME HealthTypes, Health!Check
    PROVE  check' \in [step: {"send", "store"}, previous: TypedRows, current: TypedRows]
<1>1. PICK e \in Health!Evaluations :
        LET down == Health!Down(health, e, alerts)
            kind == IF down THEN "down" ELSE "recovered"
            current == [healthy |-> e.healthy, last |-> e.last, pending |-> "none",
                        key |-> Health!NoKey, alerts |-> alerts, stored |-> TRUE]
        IN  check' = IF alerts /\ (down \/ Health!Recovered(health, e))
                     THEN [step |-> "send", previous |-> health,
                           current |-> [current EXCEPT !.key = Health!AlertTransitionKey(e, health, kind)]]
                     ELSE [step |-> "store", previous |-> health, current |-> current]
  BY DEF Health!Check
<1>2. /\ success \in 0 .. MaxSuccess /\ health \in TypedRows /\ alerts \in BOOLEAN
      /\ Health!None \in 0 .. MaxSuccess
  BY HealthAssumption DEF HealthTypes, Health!HealthAssumption, Health!None
<1>3. e.healthy \in BOOLEAN /\ e.last \in 0 .. MaxSuccess
  <2>1. CASE e \in {[healthy |-> FALSE, last |-> l] : l \in {Health!None, success}}
    <3>1. PICK l \in {Health!None, success} : e = [healthy |-> FALSE, last |-> l]
      BY <2>1
    <3>2. QED
      BY <1>2, <3>1
  <2>2. CASE e = [healthy |-> TRUE, last |-> success]
    BY <1>2, <2>2
  <2>3. QED
    BY <1>1, <2>1, <2>2 DEF Health!Evaluations
<1> DEFINE kind == IF Health!Down(health, e, alerts) THEN "down" ELSE "recovered"
           own == [kind |-> kind, anchor |-> IF kind = "recovered" THEN Health!First(health.last, e.last)
                                             ELSE Health!First(e.last, health.last)]
           key == Health!AlertTransitionKey(e, health, kind)
           plain == [healthy |-> e.healthy, last |-> e.last, pending |-> "none",
                     key |-> Health!NoKey, alerts |-> alerts, stored |-> TRUE]
           keyed == [healthy |-> e.healthy, last |-> e.last, pending |-> "none",
                     key |-> key, alerts |-> alerts, stored |-> TRUE]
<1>4. \/ check' = [step |-> "send", previous |-> health, current |-> keyed]
      \/ check' = [step |-> "store", previous |-> health, current |-> plain]
  BY <1>1
<1>5. key \in TypedKeys
  <2>1. kind \in {"down", "recovered"}
    OBVIOUS
  <2> HIDE DEF kind
  <2>2. health.key \in TypedKeys /\ health.last \in 0 .. MaxSuccess
    BY <1>2 DEF TypedRows
  <2>3. own \in TypedKeys
    BY <1>3, <2>1, <2>2 DEF TypedKeys, Health!First
  <2>4. key \in {health.key, own}
    BY DEF Health!AlertTransitionKey
  <2>5. QED
    BY <2>2, <2>3, <2>4
<1> HIDE DEF kind, key
<1>6. plain \in TypedRows /\ keyed \in TypedRows
  BY <1>2, <1>3, <1>5 DEF TypedRows, TypedKeys, Health!NoKey
<1> HIDE DEF plain, keyed
<1>7. QED
  BY <1>2, <1>4, <1>6

LEMMA HealthTypesNext == HealthTypes /\ [Health!Next]_healthVars => HealthTypes'
<1> SUFFICES ASSUME HealthTypes, [Health!Next]_healthVars PROVE HealthTypes'
  OBVIOUS
<1>1. MaxSuccess \in Nat /\ MaxChecks \in Nat /\ MaxSwitches \in Nat
  BY HealthAssumption DEF Health!HealthAssumption
<1>2. CASE UNCHANGED healthVars
  BY <1>2 DEF healthVars, HealthTypes
<1>3. CASE Health!Collect
  <2>1. success' \in 0 .. MaxSuccess
    BY <1>1, <1>3 DEF Health!Collect, HealthTypes
  <2>2. QED
    BY <1>3, <2>1 DEF Health!Collect, HealthTypes
<1>4. CASE Health!Configure
  <2>1. switches' \in 0 .. MaxSwitches
    BY <1>1, <1>4 DEF Health!Configure, HealthTypes
  <2>2. alerts' \in BOOLEAN
    BY <1>4 DEF Health!Configure
  <2>3. QED
    BY <1>4, <2>1, <2>2 DEF Health!Configure, HealthTypes
<1>5. CASE Health!Check
  <2>1. checks' \in 0 .. MaxChecks
    BY <1>1, <1>5 DEF Health!Check, HealthTypes
  <2>2. check' \in [step: {"send", "store"}, previous: TypedRows, current: TypedRows]
    BY <1>5, CheckTyped
  <2>3. QED
    BY <1>5, <2>1, <2>2 DEF Health!Check, HealthTypes
<1>6. CASE Health!Sent \/ Health!SendFails
  <2>1. check \in [step: {"send", "store"}, previous: TypedRows, current: TypedRows]
    BY <1>6 DEF HealthTypes, Health!Sent, Health!SendFails
  <2> DEFINE w == check.current
             sent == [w EXCEPT !.key = Health!NoKey]
             failed == [w EXCEPT !.pending = w.key.kind]
  <2>2. w \in TypedRows /\ check.previous \in TypedRows
    BY <2>1
  <2>3. sent \in TypedRows /\ failed \in TypedRows
    <3>1. Health!NoKey \in TypedKeys
      BY <1>1 DEF Health!NoKey, Health!None, TypedKeys
    <3>2. w.key.kind \in {"none", "down", "recovered"}
      BY <2>2 DEF TypedRows, TypedKeys
    <3> HIDE DEF w
    <3>3. QED
      BY <2>2, <3>1, <3>2 DEF TypedRows
  <2>4. \/ check' = [step |-> "store", previous |-> check.previous, current |-> sent]
        \/ check' = [step |-> "store", previous |-> check.previous, current |-> failed]
    BY <1>6, <2>1 DEF Health!Sent, Health!SendFails
  <2> HIDE DEF sent, failed, w
  <2>5. check' \in [step: {"send", "store"}, previous: TypedRows, current: TypedRows]
    BY <2>2, <2>3, <2>4
  <2>6. announced' \in BOOLEAN
    BY <1>6 DEF Health!Sent, Health!SendFails, HealthTypes
  <2>7. QED
    BY <1>6, <2>5, <2>6 DEF Health!Sent, Health!SendFails, HealthTypes
<1>7. CASE Health!PersistHealth \/ Health!Crash
  <2>1. check \in [step: {"send", "store"}, previous: TypedRows, current: TypedRows]
    BY <1>7 DEF HealthTypes, Health!PersistHealth, Health!Crash
  <2>2. health' \in TypedRows /\ check' = [step |-> "idle"]
    BY <1>7, <2>1 DEF HealthTypes, Health!PersistHealth, Health!Crash, Health!Idle
  <2>3. announced' \in BOOLEAN
    BY <1>7 DEF Health!PersistHealth, Health!Crash, HealthTypes
  <2>4. QED
    BY <1>7, <2>2, <2>3 DEF Health!PersistHealth, Health!Crash, HealthTypes
<1>8. QED
  BY <1>2, <1>3, <1>4, <1>5, <1>6, <1>7 DEF Health!Next

LEMMA HealthTyped == HealthTypes => Health!TypeOK
<1> SUFFICES ASSUME HealthTypes PROVE Health!TypeOK
  OBVIOUS
<1>1. check.step \in {"idle", "send", "store"}
      /\ (check.step # "idle" => check.previous \in TypedRows /\ check.current \in TypedRows)
  BY DEF HealthTypes
<1>2. Health!Kinds \cup {"none"} = {"none", "down", "recovered"}
  BY DEF Health!Kinds
<1>3. /\ success \in 0 .. MaxSuccess /\ health \in TypedRows
      /\ alerts \in BOOLEAN /\ announced \in BOOLEAN
      /\ checks \in 0 .. MaxChecks /\ switches \in 0 .. MaxSwitches
  BY DEF HealthTypes
<1>4. TypedRows = [healthy: BOOLEAN, last: 0 .. MaxSuccess, pending: Health!Kinds \cup {"none"},
                   key: [kind: Health!Kinds \cup {"none"}, anchor: 0 .. MaxSuccess],
                   alerts: BOOLEAN, stored: BOOLEAN]
  BY <1>2, Zenon DEF TypedRows, TypedKeys
<1> HIDE DEF TypedRows
<1>5. QED
  BY <1>1, <1>3, <1>4, Zenon DEF Health!TypeOK

-----------------------------------------------------------------------------
(* TelemetryStore: a sample is marked applied by the batch that counts it, so that a row
   that is applied is in its bucket, unless it displaced an older sample that a request had
   yet to aggregate elsewhere; what a request may acknowledge follows from where it stands. *)

StoreRows   == [at: Times \cup {0}, applied: BOOLEAN]
StoreBodies == UNION {[S -> Times] : S \in SUBSET Sequences}

\* The sample of sequence s at t is counted, replaced by a newer one, or has displaced one.
CountedOK(s, t, smp, cnt, dsp) == cnt[<<s, t>>] = 1 \/ smp[s].at > t \/ <<s, t>> \in dsp

\* So are the samples A of the body b.
CountedIn(A, b, smp, cnt, dsp) == \A s \in A : s \in DOMAIN b /\ CountedOK(s, b[s], smp, cnt, dsp)

\* What a request had pending as observed at t, its row may have a newer sample of by now.
PendingOK(s, t, smp, dsp) ==
    \/ smp[s].at = t
    \/ /\ smp[s].at > t
       /\ BucketOf[smp[s].at] = BucketOf[t] \/ <<s, smp[s].at>> \in dsp

\* An answer promises what it acknowledges, and that the panel continues above it.
PromiseOK(a, smp, cnt, dsp) ==
    /\ a.at = "reply" /\ "row" \notin DOMAIN a
    /\ a.body \in StoreBodies /\ a.acked \subseteq Sequences
    /\ CountedIn(a.acked, a.body, smp, cnt, dsp)
    /\ \A s \in a.acked : s <= a.highest

Merging == {"look", "merge", "hash", "write", "won", "conflict", "rebuild", "reread", "upsert",
            "invalidate", "answer"}

Invoked(i, smp, cnt, dsp) ==
    \/ i.at = "idle" /\ "row" \notin DOMAIN i
    \/ i.at = "insert" /\ "row" \notin DOMAIN i /\ i.body \in StoreBodies
    \/ /\ i.at \in {"readback", "bucket"} /\ "row" \notin DOMAIN i
       /\ DOMAIN i = {"at", "body", "acked", "pending"}
       /\ i.body \in StoreBodies /\ i.acked \subseteq DOMAIN i.body /\ i.pending \subseteq i.acked
       /\ \A s \in i.pending : PendingOK(s, i.body[s], smp, dsp)
       /\ CountedIn(i.acked \ i.pending, i.body, smp, cnt, dsp)
    \/ /\ i.at = "beat" /\ "row" \notin DOMAIN i
       /\ i.body \in StoreBodies /\ i.acked \subseteq DOMAIN i.body
       /\ CountedIn(i.acked, i.body, smp, cnt, dsp)
    \/ /\ i.at \in Merging /\ {"at", "answer"} \subseteq DOMAIN i
       /\ PromiseOK(i.answer, smp, cnt, dsp)
    \/ PromiseOK(i, smp, cnt, dsp)

TablesOK ==
    /\ sample \in [Sequences -> StoreRows] /\ counted \in [Store!Samples -> {0, 1}]
    /\ heartbeat \in Int /\ displacing \subseteq Store!Samples
    /\ \A s \in Sequences, t \in Times : counted[<<s, t>>] = 1 =>
           sample[s].at >= t /\ (sample[s].at = t => sample[s].applied = TRUE)
    /\ \A s \in Sequences : sample[s].applied = TRUE =>
           /\ sample[s].at \in Times
           /\ counted[<<s, sample[s].at>>] = 1 \/ <<s, sample[s].at>> \in displacing

InvocationsOK ==
    /\ invocation = [h \in Handlers |-> invocation[h]]
    /\ \A h \in Handlers : Invoked(invocation[h], sample, counted, displacing)

StoreInv == TablesOK /\ InvocationsOK

\* Sequence numbers and times are numbers, and there are finitely many.
LEMMA SequencesAre ==
    /\ IsFiniteSet(Sequences) /\ Sequences \subseteq Nat \ {0} /\ Times \subseteq Nat \ {0}
<1>1. /\ Store!Cardinality(Sequences) = Cardinality(Sequences)
      /\ Store!Cardinality(Times) = Cardinality(Times)
  BY DEF Store!Cardinality, Cardinality
<1>2. /\ Store!IsFiniteSet(Sequences) <=> IsFiniteSet(Sequences)
      /\ Store!IsFiniteSet(Times) <=> IsFiniteSet(Times)
  BY DEF Store!IsFiniteSet, IsFiniteSet
<1>3. IsFiniteSet(Sequences) /\ IsFiniteSet(Times)
  BY <1>2, StoreAssumption DEF Store!StoreAssumption
<1>4. Sequences = 1 .. Cardinality(Sequences) /\ Times = 1 .. Cardinality(Times)
  BY <1>1, StoreAssumption, Zenon DEF Store!StoreAssumption
<1>5. Cardinality(Sequences) \in Nat /\ Cardinality(Times) \in Nat
  BY <1>3, FS_CardinalityType
<1> DEFINE n == Cardinality(Sequences)
           k == Cardinality(Times)
<1>6. n \in Nat /\ k \in Nat /\ Sequences = 1 .. n /\ Times = 1 .. k
  BY <1>4, <1>5
<1> HIDE DEF n, k
<1>7. QED
  BY <1>3, <1>6

LEMMA BodiesAre ==
    ASSUME NEW b \in StoreBodies
    PROVE  /\ DOMAIN b \subseteq Sequences
           /\ \A s \in DOMAIN b : b[s] \in Times
<1>1. PICK S \in SUBSET Sequences : b \in [S -> Times]
  BY DEF StoreBodies
<1>2. QED
  BY <1>1

LEMMA StoreInitOK == Store!Init => StoreInv
<1> SUFFICES ASSUME Store!Init PROVE StoreInv
  OBVIOUS
<1>1. /\ sample = [s \in Sequences |-> [at |-> 0, applied |-> FALSE]]
      /\ counted = [x \in Store!Samples |-> 0]
      /\ heartbeat = 0 /\ displacing = {}
      /\ invocation = [h \in Handlers |-> [at |-> "idle"]]
  BY DEF Store!Init, Store!Idle
<1>2. sample \in [Sequences -> StoreRows] /\ \A s \in Sequences : sample[s].applied = FALSE
  BY <1>1 DEF StoreRows
<1>3. \A s \in Sequences, t \in Times : counted[<<s, t>>] = 0
  BY <1>1 DEF Store!Samples
<1>4. TablesOK
  BY <1>1, <1>2, <1>3 DEF TablesOK
<1>5. \A h \in Handlers : invocation[h].at = "idle" /\ "row" \notin DOMAIN invocation[h]
  BY <1>1
<1>6. InvocationsOK
  BY <1>1, <1>5 DEF InvocationsOK, Invoked
<1>7. QED
  BY <1>4, <1>6 DEF StoreInv

\* Where an invocation stands is kept by steps of others that count more, and replace what
\* is pending by what goes into the same bucket or is marked as displacing it.
LEMMA InvokedStays ==
    ASSUME NEW i, NEW smp, NEW cnt, NEW dsp, Invoked(i, smp, cnt, dsp),
           NEW smp2, NEW cnt2, NEW dsp2, dsp \subseteq dsp2,
           \A s \in Sequences : smp[s] \in StoreRows /\ smp2[s] \in StoreRows,
           \A s \in Sequences : smp2[s].at = smp[s].at \/ smp2[s].at > smp[s].at,
           \A s \in Sequences, t \in Times : cnt[<<s, t>>] = 1 => cnt2[<<s, t>>] = 1,
           i.at \in {"readback", "bucket"} =>
               \A s \in i.pending :
                   \/ smp2[s].at = smp[s].at
                   \/ BucketOf[smp2[s].at] = BucketOf[i.body[s]]
                   \/ <<s, smp2[s].at>> \in dsp2
    PROVE  Invoked(i, smp2, cnt2, dsp2)
<1>0. /\ \A s \in Sequences : smp[s].at \in Nat /\ smp2[s].at \in Nat
      /\ \A t \in Times : t \in Nat
  <2>1. \A t \in Times \cup {0} : t \in Nat
    BY SequencesAre
  <2>2. \A s \in Sequences : smp[s].at \in Times \cup {0} /\ smp2[s].at \in Times \cup {0}
    BY DEF StoreRows
  <2>3. QED
    BY <2>1, <2>2
<1>1. ASSUME NEW A, NEW b \in StoreBodies, CountedIn(A, b, smp, cnt, dsp)
      PROVE  CountedIn(A, b, smp2, cnt2, dsp2)
  <2>1. ASSUME NEW s \in A PROVE s \in DOMAIN b /\ CountedOK(s, b[s], smp2, cnt2, dsp2)
    <3>1. s \in DOMAIN b /\ CountedOK(s, b[s], smp, cnt, dsp)
      BY <1>1, <2>1 DEF CountedIn
    <3>2. s \in Sequences /\ b[s] \in Times
      BY <3>1, BodiesAre
    <3>3. smp[s].at > b[s] => smp2[s].at > b[s]
      BY <1>0, <3>2
    <3>4. QED
      BY <3>1, <3>2, <3>3 DEF CountedOK
  <2>2. QED
    BY <2>1 DEF CountedIn
<1>2. \A a : PromiseOK(a, smp, cnt, dsp) => PromiseOK(a, smp2, cnt2, dsp2)
  BY <1>1 DEF PromiseOK
<1>3. CASE i.at = "idle" /\ "row" \notin DOMAIN i
  BY <1>3 DEF Invoked
<1>4. CASE i.at = "insert" /\ "row" \notin DOMAIN i /\ i.body \in StoreBodies
  BY <1>4 DEF Invoked
<1>5. CASE /\ i.at \in {"readback", "bucket"} /\ "row" \notin DOMAIN i
           /\ DOMAIN i = {"at", "body", "acked", "pending"}
           /\ i.body \in StoreBodies /\ i.acked \subseteq DOMAIN i.body /\ i.pending \subseteq i.acked
           /\ \A s \in i.pending : PendingOK(s, i.body[s], smp, dsp)
           /\ CountedIn(i.acked \ i.pending, i.body, smp, cnt, dsp)
  <2>1. CountedIn(i.acked \ i.pending, i.body, smp2, cnt2, dsp2)
    BY <1>1, <1>5
  <2>2. ASSUME NEW s \in i.pending PROVE PendingOK(s, i.body[s], smp2, dsp2)
    <3>1. s \in Sequences /\ i.body[s] \in Times
      BY <1>5, BodiesAre
    <3>2. smp[s].at \in Nat /\ smp2[s].at \in Nat /\ i.body[s] \in Nat
      BY <1>0, <3>1
    <3>3. PendingOK(s, i.body[s], smp, dsp)
      BY <1>5
    <3>4. CASE smp2[s].at = smp[s].at
      BY <3>3, <3>4 DEF PendingOK
    <3>5. CASE smp2[s].at > smp[s].at
      <4>1. smp2[s].at > i.body[s] /\ smp2[s].at # smp[s].at
        BY <3>2, <3>3, <3>5 DEF PendingOK
      <4>2. BucketOf[smp2[s].at] = BucketOf[i.body[s]] \/ <<s, smp2[s].at>> \in dsp2
        BY <1>5, <4>1
      <4>3. QED
        BY <4>1, <4>2 DEF PendingOK
    <3>6. QED
      BY <3>1, <3>4, <3>5
  <2>3. QED
    BY <1>5, <2>1, <2>2 DEF Invoked
<1>6. CASE /\ i.at = "beat" /\ "row" \notin DOMAIN i
           /\ i.body \in StoreBodies /\ i.acked \subseteq DOMAIN i.body
           /\ CountedIn(i.acked, i.body, smp, cnt, dsp)
  <2>1. CountedIn(i.acked, i.body, smp2, cnt2, dsp2)
    BY <1>1, <1>6
  <2>2. QED
    BY <1>6, <2>1 DEF Invoked
<1>7. CASE i.at \in Merging /\ {"at", "answer"} \subseteq DOMAIN i /\ PromiseOK(i.answer, smp, cnt, dsp)
  BY <1>2, <1>7 DEF Invoked
<1>8. CASE PromiseOK(i, smp, cnt, dsp)
  BY <1>2, <1>8 DEF Invoked
<1>9. QED
  BY <1>3, <1>4, <1>5, <1>6, <1>7, <1>8 DEF Invoked

\* One invocation moves, the tables of samples and buckets stay.
LEMMA InvocationMoves ==
    ASSUME StoreInv, NEW h \in Handlers, NEW j, invocation' = [invocation EXCEPT ![h] = j],
           UNCHANGED <<sample, counted, displacing>>, heartbeat' \in Int,
           Invoked(j, sample, counted, displacing)
    PROVE  StoreInv'
<1>1. /\ invocation' = [g \in Handlers |-> invocation'[g]]
      /\ \A g \in Handlers : invocation'[g] = IF g = h THEN j ELSE invocation[g]
  BY DEF StoreInv, InvocationsOK
<1>2. InvocationsOK'
  BY <1>1 DEF StoreInv, InvocationsOK
<1>3. TablesOK'
  BY DEF StoreInv, TablesOK
<1>4. QED
  BY <1>2, <1>3 DEF StoreInv

LEMMA ReceivingOK ==
    ASSUME StoreInv, NEW h \in Handlers, Store!Receive(h)
    PROVE  StoreInv'
<1>1. PICK b \in Store!Bodies : invocation' = [invocation EXCEPT ![h] = [at |-> "insert", body |-> b]]
  BY DEF Store!Receive
<1>2. b \in StoreBodies
  BY DEF Store!Bodies, StoreBodies
<1>3. Invoked([at |-> "insert", body |-> b], sample, counted, displacing)
  BY <1>2 DEF Invoked
<1>4. UNCHANGED <<sample, counted, displacing, heartbeat>>
  BY DEF Store!Receive, Store!tables
<1>5. heartbeat' \in Int
  BY <1>4 DEF StoreInv, TablesOK
<1>6. QED
  BY <1>1, <1>3, <1>4, <1>5, InvocationMoves

\* Rows are replaced: who had an older sample pending counts the new one in its bucket, or
\* the new one is marked.
LEMMA InsertingOK ==
    ASSUME StoreInv, NEW h \in Handlers, Store!InsertSamples(h)
    PROVE  StoreInv'
<1> DEFINE body == invocation[h].body
           fresh == {s \in DOMAIN body : Store!Replaces(s, body[s])}
           misplaced == {s \in fresh : \E g \in Handlers \ {h} :
                            /\ invocation[g].at \in {"readback", "bucket"} /\ s \in invocation[g].pending
                            /\ BucketOf[invocation[g].body[s]] # BucketOf[body[s]]}
           stage == IF fresh = DOMAIN body THEN "bucket" ELSE "readback"
           j == [at |-> stage, body |-> body, acked |-> fresh, pending |-> fresh]
<1>1. /\ invocation[h].at = "insert"
      /\ sample' = [s \in Sequences |-> IF s \in fresh THEN [at |-> body[s], applied |-> FALSE]
                                        ELSE sample[s]]
      /\ displacing' = displacing \cup {<<s, body[s]>> : s \in misplaced}
      /\ invocation' = [invocation EXCEPT ![h] = j]
      /\ counted' = counted /\ heartbeat' = heartbeat
  BY DEF Store!InsertSamples
<1>2. body \in StoreBodies
  BY <1>1 DEF StoreInv, InvocationsOK, Invoked, PromiseOK, Merging
<1>3. /\ fresh \subseteq DOMAIN body /\ fresh \subseteq Sequences /\ misplaced \subseteq fresh
      /\ \A s \in fresh : body[s] \in Times /\ body[s] > sample[s].at
  BY <1>2, BodiesAre DEF Store!Replaces
<1>4. Times \subseteq Nat \ {0} /\ \A s \in Sequences : sample[s] \in StoreRows
  BY SequencesAre DEF StoreInv, TablesOK
<1>5. stage \in {"bucket", "readback"}
  OBVIOUS
<1> HIDE DEF body, fresh, misplaced, stage
<1>6. /\ \A s \in fresh : sample'[s] = [at |-> body[s], applied |-> FALSE]
      /\ \A s \in Sequences \ fresh : sample'[s] = sample[s]
  BY <1>1, <1>3
<1>7. /\ \A s \in fresh : sample'[s] \in StoreRows /\ sample'[s].at = body[s]
                          /\ sample'[s].applied = FALSE
      /\ sample' \in [Sequences -> StoreRows]
  BY <1>1, <1>3, <1>4, <1>6 DEF StoreRows
<1>8. ASSUME NEW s \in Sequences, NEW t \in Times, counted'[<<s, t>>] = 1
      PROVE  sample'[s].at >= t /\ (sample'[s].at = t => sample'[s].applied = TRUE)
  <2>1. sample[s].at >= t /\ (sample[s].at = t => sample[s].applied = TRUE)
    BY <1>1, <1>8 DEF StoreInv, TablesOK
  <2>2. CASE s \in fresh
    <3>1. sample'[s].at = body[s] /\ body[s] > sample[s].at
      BY <1>3, <1>7, <2>2
    <3>2. sample[s].at \in Nat /\ body[s] \in Nat /\ t \in Nat
      <4>1. sample[s].at \in Times \cup {0}
        BY <1>4 DEF StoreRows
      <4>2. body[s] \in Times
        BY <1>3, <2>2
      <4>3. \A x \in Times \cup {0} : x \in Nat
        BY <1>4
      <4>4. QED
        BY <4>1, <4>2, <4>3
    <3>3. QED
      BY <2>1, <3>1, <3>2
  <2>3. CASE s \notin fresh
    BY <1>6, <2>1, <2>3
  <2>4. QED
    BY <2>2, <2>3
<1>9. ASSUME NEW s \in Sequences, sample'[s].applied = TRUE
      PROVE  /\ sample'[s].at \in Times
             /\ counted'[<<s, sample'[s].at>>] = 1 \/ <<s, sample'[s].at>> \in displacing'
  <2>1. s \notin fresh
    BY <1>7, <1>9
  <2>2. sample'[s] = sample[s]
    BY <1>6, <2>1
  <2>3. QED
    BY <1>1, <1>9, <2>2 DEF StoreInv, TablesOK
<1>10. TablesOK'
  <2>1. displacing' \subseteq Store!Samples
    BY <1>1, <1>3 DEF StoreInv, TablesOK, Store!Samples
  <2>2. QED
    BY <1>1, <1>7, <1>8, <1>9, <2>1 DEF StoreInv, TablesOK
<1>11. ASSUME NEW g \in Handlers \ {h} PROVE Invoked(invocation[g], sample', counted', displacing')
  <2>1. Invoked(invocation[g], sample, counted, displacing)
    BY DEF StoreInv, InvocationsOK
  <2>2. ASSUME invocation[g].at \in {"readback", "bucket"}, NEW s \in invocation[g].pending
        PROVE  \/ sample'[s].at = sample[s].at
               \/ BucketOf[sample'[s].at] = BucketOf[invocation[g].body[s]]
               \/ <<s, sample'[s].at>> \in displacing'
    <3>1. s \in Sequences
      <4>1. invocation[g].pending \subseteq DOMAIN invocation[g].body /\ invocation[g].body \in StoreBodies
        BY <2>1, <2>2 DEF Invoked, Merging, PromiseOK
      <4>2. QED
        BY <2>2, <4>1, BodiesAre
    <3>2. CASE s \notin fresh
      BY <1>6, <3>1, <3>2
    <3>3. CASE s \in fresh
      <4>1. sample'[s].at = body[s]
        BY <1>7, <3>3
      <4>2. BucketOf[invocation[g].body[s]] # BucketOf[body[s]] => s \in misplaced
        BY <2>2, <3>3 DEF misplaced
      <4>3. s \in misplaced => <<s, body[s]>> \in displacing'
        BY <1>1
      <4>4. QED
        BY <4>1, <4>2, <4>3
    <3>4. QED
      BY <3>2, <3>3
  <2>3. displacing \subseteq displacing'
    BY <1>1
  <2>4. \A s \in Sequences, t \in Times : counted[<<s, t>>] = 1 => counted'[<<s, t>>] = 1
    BY <1>1
  <2>5. \A s \in Sequences : sample'[s].at = sample[s].at \/ sample'[s].at > sample[s].at
    BY <1>3, <1>6, <1>7
  <2>6. \A s \in Sequences : sample[s] \in StoreRows /\ sample'[s] \in StoreRows
    BY <1>4, <1>7
  <2>7. QED
    BY <2>1, <2>2, <2>3, <2>4, <2>5, <2>6, InvokedStays
<1>12. Invoked(j, sample', counted', displacing')
  <2>1. CountedIn(fresh \ fresh, body, sample', counted', displacing')
    BY DEF CountedIn
  <2>2. \A s \in fresh : PendingOK(s, body[s], sample', displacing')
    BY <1>7 DEF PendingOK
  <2>3. QED
    BY <1>2, <1>3, <1>5, <2>1, <2>2 DEF Invoked
<1>13. /\ invocation' = [g \in Handlers |-> invocation'[g]]
       /\ \A g \in Handlers : invocation'[g] = IF g = h THEN j ELSE invocation[g]
  BY <1>1 DEF StoreInv, InvocationsOK
<1>14. InvocationsOK'
  BY <1>11, <1>12, <1>13 DEF InvocationsOK
<1>15. QED
  BY <1>10, <1>14 DEF StoreInv

LEMMA ReadingBackOK ==
    ASSUME StoreInv, NEW h \in Handlers, Store!ReadBack(h)
    PROVE  StoreInv'
<1> DEFINE i == invocation[h]
           same == {s \in DOMAIN i.body \ i.acked : sample[s].at = i.body[s]}
           acked == i.acked \cup same
           pending2 == i.pending \cup {s \in same : ~sample[s].applied}
           j == [i EXCEPT !.at = "bucket", !.acked = acked, !.pending = pending2]
<1>1. /\ i.at = "readback"
      /\ invocation' = [invocation EXCEPT ![h] = [i EXCEPT !.at = "bucket", !.acked = @ \cup same,
                                    !.pending = @ \cup {s \in same : ~sample[s].applied}]]
      /\ UNCHANGED <<sample, counted, displacing, heartbeat>>
  BY DEF Store!ReadBack, Store!tables
<1>2. /\ DOMAIN i = {"at", "body", "acked", "pending"}
      /\ i.body \in StoreBodies /\ i.acked \subseteq DOMAIN i.body /\ i.pending \subseteq i.acked
      /\ \A s \in i.pending : PendingOK(s, i.body[s], sample, displacing)
      /\ CountedIn(i.acked \ i.pending, i.body, sample, counted, displacing)
  BY <1>1 DEF StoreInv, InvocationsOK, Invoked, Merging, PromiseOK
<1>3. \A s \in same : s \in DOMAIN i.body /\ s \in Sequences /\ s \notin i.acked
                      /\ sample[s].at = i.body[s]
  BY <1>2, BodiesAre
<1>4. CountedIn(acked \ pending2, i.body, sample, counted, displacing)
  <2>1. ASSUME NEW s \in acked \ pending2
        PROVE  s \in DOMAIN i.body /\ CountedOK(s, i.body[s], sample, counted, displacing)
    <3>1. CASE s \in i.acked
      <4>1. s \in i.acked \ i.pending
        BY <2>1, <3>1
      <4>2. QED
        BY <1>2, <4>1 DEF CountedIn
    <3>2. CASE s \in same
      <4>1. sample[s].applied
        BY <2>1, <3>2
      <4>2. sample[s] \in StoreRows
        BY <1>3, <3>2 DEF StoreInv, TablesOK
      <4>3. sample[s].applied = TRUE
        BY <4>1, <4>2 DEF StoreRows
      <4>4. QED
        BY <1>3, <3>2, <4>3 DEF StoreInv, TablesOK, CountedOK
    <3>3. QED
      BY <2>1, <3>1, <3>2
  <2>2. QED
    BY <2>1 DEF CountedIn
<1>5. /\ acked \subseteq DOMAIN i.body /\ pending2 \subseteq acked
      /\ \A s \in pending2 : PendingOK(s, i.body[s], sample, displacing)
  BY <1>2, <1>3 DEF PendingOK
<1>6. invocation' = [invocation EXCEPT ![h] = j]
  BY <1>1
<1> HIDE DEF i, acked, pending2
<1>7. Invoked(j, sample, counted, displacing)
  <2>1. /\ DOMAIN j = {"at", "body", "acked", "pending"}
        /\ j.at = "bucket" /\ j.body = i.body /\ j.acked = acked /\ j.pending = pending2
    BY <1>2
  <2> HIDE DEF j
  <2>2. "row" \notin DOMAIN j
    BY <2>1
  <2>3. QED
    BY <1>2, <1>4, <1>5, <2>1, <2>2 DEF Invoked
<1>8. heartbeat' \in Int
  BY <1>1 DEF StoreInv, TablesOK
<1>9. QED
  BY <1>1, <1>6, <1>7, <1>8, InvocationMoves

\* The batch counts what is not applied yet, and marks it.
LEMMA ApplyingOK ==
    ASSUME StoreInv, NEW h \in Handlers, Store!ApplyBuckets(h)
    PROVE  StoreInv'
<1> DEFINE i == invocation[h]
           agg == Store!Aggregated(i)
           marked2 == Store!Marked(i)
           adds == {<<s, sample[s].at>> : s \in agg}
           changed == {BucketOf[x[2]] : x \in adds}
           rows2 == [b \in changed |-> Store!Count(counted', b)]
           some == marked2 # {}
           j == [at |-> "beat", body |-> i.body, acked |-> i.acked, accepted |-> some, rows |-> rows2]
<1>1. /\ i.at = "bucket"
      /\ counted' = [x \in Store!Samples |-> IF x \in adds THEN counted[x] + 1 ELSE counted[x]]
      /\ sample' = [s \in Sequences |-> IF s \in marked2 THEN [sample[s] EXCEPT !.applied = TRUE]
                                        ELSE sample[s]]
      /\ UNCHANGED <<heartbeat, displacing>>
  BY DEF Store!ApplyBuckets
<1>2. invocation' = [invocation EXCEPT ![h] = j]
  BY Zenon DEF Store!ApplyBuckets
<1>3. /\ i.body \in StoreBodies /\ i.acked \subseteq DOMAIN i.body /\ i.pending \subseteq i.acked
      /\ \A s \in i.pending : PendingOK(s, i.body[s], sample, displacing)
      /\ CountedIn(i.acked \ i.pending, i.body, sample, counted, displacing)
  BY <1>1 DEF StoreInv, InvocationsOK, Invoked, Merging, PromiseOK
<1>4. /\ i.pending \subseteq Sequences /\ i.acked \subseteq Sequences
      /\ \A s \in i.acked : i.body[s] \in Times
  BY <1>3, BodiesAre
<1>5. \A s \in Sequences : sample[s] \in StoreRows
  BY DEF StoreInv, TablesOK
<1>6. /\ agg \subseteq marked2 /\ marked2 \subseteq i.pending
      /\ \A s \in marked2 : sample[s].applied = FALSE
      /\ \A s \in i.pending : s \in agg \/ sample[s].applied = TRUE
             \/ BucketOf[sample[s].at] # BucketOf[i.body[s]]
  <2>1. agg = {s \in i.pending : BucketOf[sample[s].at] = BucketOf[i.body[s]] /\ ~sample[s].applied}
    BY DEF Store!Aggregated
  <2>2. marked2 = {s \in i.pending : ~sample[s].applied}
    BY DEF Store!Marked
  <2>3. \A s \in i.pending : sample[s].applied \in BOOLEAN
    BY <1>4, <1>5 DEF StoreRows
  <2> HIDE DEF agg, marked2, i
  <2>4. QED
    BY <2>1, <2>2, <2>3
<1> HIDE DEF i, agg, marked2
<1>7. ASSUME NEW s \in Sequences
      PROVE  /\ sample'[s] \in StoreRows /\ sample'[s].at = sample[s].at
             /\ sample[s].applied = TRUE \/ s \in marked2 => sample'[s].applied = TRUE
             /\ sample'[s].applied = TRUE => sample[s].applied = TRUE \/ s \in marked2
  <2>1. sample'[s] = IF s \in marked2 THEN [sample[s] EXCEPT !.applied = TRUE] ELSE sample[s]
    BY <1>1
  <2>2. sample[s] \in StoreRows
    BY <1>5
  <2>3. QED
    BY <2>1, <2>2 DEF StoreRows
<1>8. ASSUME NEW s \in Sequences, NEW t \in Times
      PROVE  /\ counted'[<<s, t>>] \in {0, 1}
             /\ counted[<<s, t>>] = 1 => counted'[<<s, t>>] = 1
             /\ s \in agg /\ t = sample[s].at => counted'[<<s, t>>] = 1
             /\ counted'[<<s, t>>] = 1 => counted[<<s, t>>] = 1 \/ (s \in agg /\ t = sample[s].at)
  <2>1. <<s, t>> \in Store!Samples
    BY DEF Store!Samples
  <2>2. /\ counted[<<s, t>>] \in {0, 1}
        /\ counted'[<<s, t>>] = IF <<s, t>> \in adds THEN counted[<<s, t>>] + 1 ELSE counted[<<s, t>>]
    BY <1>1, <2>1 DEF StoreInv, TablesOK
  <2>3. <<s, t>> \in adds <=> s \in agg /\ t = sample[s].at
    OBVIOUS
  <2>4. s \in agg /\ t = sample[s].at => counted[<<s, t>>] = 0
    <3>1. s \in agg => sample[s].applied = FALSE
      BY <1>6
    <3>2. counted[<<s, t>>] = 1 => (sample[s].at = t => sample[s].applied = TRUE)
      BY DEF StoreInv, TablesOK
    <3>3. QED
      BY <2>2, <3>1, <3>2
  <2>5. QED
    BY <2>2, <2>3, <2>4
<1> HIDE DEF adds
<1>9. counted' \in [Store!Samples -> {0, 1}]
  <2>1. \A x \in Store!Samples : counted'[x] \in {0, 1}
    BY <1>8 DEF Store!Samples
  <2>2. QED
    BY <1>1, <2>1
<1>10. ASSUME NEW s \in Sequences, NEW t \in Times, counted'[<<s, t>>] = 1
       PROVE  sample'[s].at >= t /\ (sample'[s].at = t => sample'[s].applied = TRUE)
  <2>1. CASE counted[<<s, t>>] = 1
    BY <1>7, <2>1 DEF StoreInv, TablesOK
  <2>2. CASE s \in agg /\ t = sample[s].at
    <3>1. t \in Nat
      BY SequencesAre
    <3>2. s \in marked2 /\ sample'[s].at = t
      BY <1>6, <1>7, <2>2
    <3>3. sample'[s].applied = TRUE
      BY <1>7, <3>2
    <3>4. QED
      BY <3>1, <3>2, <3>3
  <2>3. QED
    BY <1>8, <1>10, <2>1, <2>2
<1>11. ASSUME NEW s \in Sequences, sample'[s].applied = TRUE
       PROVE  /\ sample'[s].at \in Times
              /\ counted'[<<s, sample'[s].at>>] = 1 \/ <<s, sample'[s].at>> \in displacing'
  <2>1. sample'[s].at = sample[s].at
    BY <1>7
  <2>2. CASE sample[s].applied = TRUE
    <3>1. /\ sample[s].at \in Times
          /\ counted[<<s, sample[s].at>>] = 1 \/ <<s, sample[s].at>> \in displacing
      BY <2>2 DEF StoreInv, TablesOK
    <3>2. counted[<<s, sample[s].at>>] = 1 => counted'[<<s, sample[s].at>>] = 1
      BY <1>8, <3>1
    <3>3. QED
      BY <1>1, <2>1, <3>1, <3>2
  <2>3. CASE s \in marked2 /\ sample[s].applied = FALSE
    <3>1. s \in i.pending /\ i.body[s] \in Times /\ PendingOK(s, i.body[s], sample, displacing)
      BY <1>3, <1>4, <1>6, <2>3
    <3>2. sample[s].at \in Times
      <4>1. sample[s].at \in Times \cup {0}
        BY <1>5 DEF StoreRows
      <4>2. \A t \in Times : t \in Nat \ {0}
        BY SequencesAre
      <4>3. sample[s].at # 0
        BY <3>1, <4>2 DEF PendingOK
      <4>4. QED
        BY <4>1, <4>3
    <3>3. s \in agg \/ <<s, sample[s].at>> \in displacing
      BY <1>6, <2>3, <3>1 DEF PendingOK
    <3>4. QED
      BY <1>1, <1>8, <2>1, <3>2, <3>3
  <2>4. QED
    BY <1>6, <1>7, <1>11, <2>2, <2>3
<1>12. TablesOK'
  <2>1. sample' \in [Sequences -> StoreRows]
    BY <1>1, <1>7
  <2>2. QED
    BY <1>1, <1>9, <1>10, <1>11, <2>1 DEF StoreInv, TablesOK
<1>13. ASSUME NEW g \in Handlers \ {h} PROVE Invoked(invocation[g], sample', counted', displacing')
  <2>1. Invoked(invocation[g], sample, counted, displacing)
    BY DEF StoreInv, InvocationsOK
  <2>2. ASSUME invocation[g].at \in {"readback", "bucket"}, NEW s \in invocation[g].pending
        PROVE  sample'[s].at = sample[s].at
    <3>1. invocation[g].pending \subseteq DOMAIN invocation[g].body /\ invocation[g].body \in StoreBodies
      BY <2>1, <2>2 DEF Invoked, Merging, PromiseOK
    <3>2. s \in Sequences
      BY <2>2, <3>1, BodiesAre
    <3>3. QED
      BY <1>7, <3>2
  <2>3. displacing \subseteq displacing'
    BY <1>1
  <2>4. \A s \in Sequences, t \in Times : counted[<<s, t>>] = 1 => counted'[<<s, t>>] = 1
    BY <1>8
  <2>5. \A s \in Sequences : /\ sample'[s].at = sample[s].at
                             /\ sample[s] \in StoreRows /\ sample'[s] \in StoreRows
    BY <1>5, <1>7
  <2>6. QED
    BY <2>1, <2>2, <2>3, <2>4, <2>5, InvokedStays
<1>14. Invoked(j, sample', counted', displacing')
  <2>1. CountedIn(i.acked, i.body, sample', counted', displacing')
    <3>1. ASSUME NEW s \in i.acked PROVE CountedOK(s, i.body[s], sample', counted', displacing')
      <4>1. s \in Sequences /\ i.body[s] \in Times /\ sample'[s].at = sample[s].at
        BY <1>4, <1>7, <3>1
      <4>2. CASE s \in i.pending
        <5>1. CASE sample[s].at = i.body[s]
          <6>1. s \in agg \/ sample[s].applied = TRUE
            BY <1>6, <4>2, <5>1
          <6>2. sample[s].applied = TRUE =>
                    counted[<<s, sample[s].at>>] = 1 \/ <<s, sample[s].at>> \in displacing
            BY <4>1 DEF StoreInv, TablesOK
          <6>3. QED
            BY <1>1, <1>8, <4>1, <5>1, <6>1, <6>2 DEF CountedOK
        <5>2. CASE sample[s].at > i.body[s]
          BY <4>1, <5>2 DEF CountedOK
        <5>3. QED
          BY <1>3, <4>2, <5>1, <5>2 DEF PendingOK
      <4>3. CASE s \notin i.pending
        <5>1. CountedOK(s, i.body[s], sample, counted, displacing)
          BY <1>3, <3>1, <4>3 DEF CountedIn
        <5>2. QED
          BY <1>1, <1>8, <4>1, <5>1 DEF CountedOK
      <4>4. QED
        BY <4>2, <4>3
    <3>2. QED
      BY <1>3, <3>1 DEF CountedIn
  <2> HIDE DEF some, rows2
  <2>2. /\ j.at = "beat" /\ j.body = i.body /\ j.acked = i.acked
        /\ "row" \notin DOMAIN j
    OBVIOUS
  <2> HIDE DEF j
  <2>3. QED
    BY <1>3, <2>1, <2>2 DEF Invoked
<1>15. /\ invocation' = [g \in Handlers |-> invocation'[g]]
       /\ \A g \in Handlers : invocation'[g] = IF g = h THEN j ELSE invocation[g]
  <2> HIDE DEF j
  <2>1. QED
    BY <1>2 DEF StoreInv, InvocationsOK
<1> HIDE DEF j
<1>16. InvocationsOK'
  BY <1>13, <1>14, <1>15 DEF InvocationsOK
<1>17. QED
  BY <1>12, <1>16 DEF StoreInv

\* The largest of finitely many numbers.
LEMMA MaxOfFinite ==
    ASSUME NEW S \in SUBSET Int, IsFiniteSet(S), S # {}
    PROVE  Store!Max(S) \in S /\ \A m \in S : Store!Max(S) >= m
BY LargestOf DEF Store!Max

LEMMA BeatingOK ==
    ASSUME StoreInv, NEW h \in Handlers, Store!Heartbeat(h)
    PROVE  StoreInv'
<1> DEFINE i == invocation[h]
           answer == [at |-> "reply", body |-> i.body, acked |-> i.acked, highest |-> heartbeat']
           stage == IF i.accepted THEN "merge" ELSE IF i.acked # {} THEN "look" ELSE "answer"
           j == [answer |-> answer, rows |-> i.rows, at |-> stage]
<1>1. /\ i.at = "beat" /\ heartbeat' = Store!Max({heartbeat} \cup i.acked)
      /\ invocation' = [invocation EXCEPT ![h] = j]
      /\ UNCHANGED <<sample, counted, displacing>>
  BY DEF Store!Heartbeat
<1>2. /\ i.body \in StoreBodies /\ i.acked \subseteq DOMAIN i.body
      /\ CountedIn(i.acked, i.body, sample, counted, displacing)
  BY <1>1 DEF StoreInv, InvocationsOK, Invoked, Merging, PromiseOK
<1>3. i.acked \subseteq Sequences
  BY <1>2, BodiesAre
<1>4. IsFiniteSet({heartbeat} \cup i.acked) /\ {heartbeat} \cup i.acked \in SUBSET Int
  <2>1. IsFiniteSet(i.acked)
    BY <1>3, SequencesAre, FS_Subset
  <2>2. IsFiniteSet({heartbeat})
    BY FS_Singleton
  <2>3. {heartbeat} \cup i.acked \in SUBSET Int
    <3>1. heartbeat \in Int
      BY DEF StoreInv, TablesOK
    <3>2. \A s \in i.acked : s \in Int
      <4>1. Sequences \subseteq Int
        BY SequencesAre
      <4>2. QED
        BY <1>3, <4>1, Zenon
    <3>3. QED
      BY <3>1, <3>2
  <2>4. QED
    BY <2>1, <2>2, <2>3, FS_Union
<1>5. heartbeat' \in Int /\ \A s \in i.acked : heartbeat' >= s
  BY <1>1, <1>4, MaxOfFinite
<1>6. stage \in {"merge", "look", "answer"}
  OBVIOUS
<1> HIDE DEF i, stage
<1>7. PromiseOK(answer, sample, counted, displacing)
  <2>1. \A s \in i.acked : s <= heartbeat'
    BY <1>3, <1>5, SequencesAre
  <2>2. QED
    BY <1>2, <1>3, <2>1 DEF PromiseOK
<1> HIDE DEF answer
<1>8. Invoked(j, sample, counted, displacing)
  <2>1. j.at = stage /\ j.answer = answer /\ {"at", "answer"} \subseteq DOMAIN j
    OBVIOUS
  <2>2. j.at \in Merging
    BY <1>6, <2>1 DEF Merging
  <2> HIDE DEF j
  <2>3. QED
    BY <1>7, <2>1, <2>2 DEF Invoked
<1>9. QED
  BY <1>1, <1>5, <1>8, InvocationMoves

\* What follows the heartbeat works on the row 'environment', and passes the answer on.
LEMMA AnswerIsPassed ==
    ASSUME StoreInv, NEW h \in Handlers, invocation[h].at \in Merging
    PROVE  /\ {"at", "answer"} \subseteq DOMAIN invocation[h]
           /\ PromiseOK(invocation[h].answer, sample, counted, displacing)
BY DEF StoreInv, InvocationsOK, Invoked, Merging, PromiseOK

LEMMA MergingMoves ==
    ASSUME StoreInv, NEW h \in Handlers, NEW j, invocation' = [invocation EXCEPT ![h] = j],
           UNCHANGED <<sample, counted, displacing, heartbeat>>,
           invocation[h].at \in Merging,
           j.at \in Merging, {"at", "answer"} \subseteq DOMAIN j, j.answer = invocation[h].answer
    PROVE  StoreInv'
<1>1. Invoked(j, sample, counted, displacing)
  BY AnswerIsPassed DEF Invoked
<1>2. heartbeat' \in Int
  BY DEF StoreInv, TablesOK
<1>3. QED
  BY <1>1, <1>2, InvocationMoves

LEMMA StageMoves ==
    ASSUME StoreInv, NEW h \in Handlers, NEW st \in Merging,
           invocation' = [invocation EXCEPT ![h].at = st],
           UNCHANGED <<sample, counted, displacing, heartbeat>>,
           invocation[h].at \in Merging
    PROVE  StoreInv'
<1> DEFINE j == [invocation[h] EXCEPT !.at = st]
<1>1. j.at = st /\ {"at", "answer"} \subseteq DOMAIN j /\ j.answer = invocation[h].answer
  BY AnswerIsPassed
<1>2. invocation' = [invocation EXCEPT ![h] = j]
  OBVIOUS
<1> HIDE DEF j
<1>3. QED
  BY <1>1, <1>2, MergingMoves

LEMMA WithIs ==
    ASSUME NEW i, NEW w, NEW n, NEW j, j = Store!With(i, w, n)
    PROVE  j.at \in {"rebuild", "hash"} /\ {"at", "answer"} \subseteq DOMAIN j /\ j.answer = i.answer
<1>1. CASE w = Store!NoRow
  BY <1>1 DEF Store!With
<1>2. CASE w # Store!NoRow
  <2> DEFINE m == Store!Merged(w.points, i.rows)
  <2>1. j = [at |-> "hash", answer |-> i.answer, rows |-> i.rows, attempt |-> n, row |-> w, merged |-> m]
    BY <1>2 DEF Store!With
  <2> HIDE DEF m
  <2>2. QED
    BY <2>1
<1>3. QED
  BY <1>1, <1>2

LEMMA MergeStepsOK ==
    ASSUME StoreInv, NEW h \in Handlers,
           \/ Store!LookForState(h) \/ Store!ReadPrevious(h) \/ Store!Hashed(h)
           \/ Store!CompareAndSet(h) \/ Store!Conflict(h) \/ Store!ReadBuckets(h)
           \/ Store!Reread(h) \/ Store!Upsert(h) \/ Store!InvalidateEnvironmentStateCache(h)
    PROVE  StoreInv'
<1> DEFINE i == invocation[h]
<1>1. CASE Store!LookForState(h)
  <2> DEFINE st == IF environment.version = 0 THEN "merge" ELSE "answer"
  <2>1. /\ i.at = "look" /\ invocation' = [invocation EXCEPT ![h].at = st]
        /\ UNCHANGED <<sample, counted, displacing, heartbeat>>
    BY <1>1 DEF Store!LookForState, Store!tables
  <2>2. st \in Merging /\ "look" \in Merging
    BY DEF Merging
  <2> HIDE DEF st
  <2>3. QED
    BY <2>1, <2>2, StageMoves
<1>2. CASE Store!ReadPrevious(h)
  <2>1. PICK w : invocation' = [invocation EXCEPT ![h] = Store!With(i, w, 1)]
    BY <1>2 DEF Store!ReadPrevious
  <2>2. i.at = "merge" /\ UNCHANGED <<sample, counted, displacing, heartbeat>>
    BY <1>2 DEF Store!ReadPrevious, Store!tables
  <2> DEFINE j == Store!With(i, w, 1)
  <2>3. j.at \in {"rebuild", "hash"} /\ {"at", "answer"} \subseteq DOMAIN j /\ j.answer = i.answer
    BY WithIs
  <2> HIDE DEF j
  <2>4. QED
    BY <2>1, <2>2, <2>3, MergingMoves DEF Merging, j
<1>3. CASE Store!Hashed(h)
  <2> DEFINE done == [at |-> "answer", answer |-> i.answer]
             write == [at |-> "write", answer |-> i.answer, rows |-> i.rows, attempt |-> i.attempt,
                       row |-> i.row, merged |-> i.merged, version |-> i.row.version]
  <2>1. /\ i.at = "hash" /\ UNCHANGED <<sample, counted, displacing, heartbeat>>
        /\ \/ invocation' = [invocation EXCEPT ![h] = done]
           \/ invocation' = [invocation EXCEPT ![h] = write]
    BY <1>3 DEF Store!Hashed, Store!tables
  <2>2. /\ done.at \in Merging /\ write.at \in Merging /\ "hash" \in Merging
        /\ {"at", "answer"} \subseteq DOMAIN done /\ {"at", "answer"} \subseteq DOMAIN write
        /\ done.answer = i.answer /\ write.answer = i.answer
    BY DEF Merging
  <2> HIDE DEF done, write
  <2>3. QED
    BY <2>1, <2>2, MergingMoves
<1>4. CASE Store!CompareAndSet(h)
  <2>1. /\ i.at = "write" /\ UNCHANGED <<sample, counted, displacing, heartbeat>>
        /\ \/ invocation' = [invocation EXCEPT ![h].at = "won"]
           \/ invocation' = [invocation EXCEPT ![h].at = "conflict"]
    BY <1>4 DEF Store!CompareAndSet, Store!tables
  <2>2. "write" \in Merging /\ "won" \in Merging /\ "conflict" \in Merging
    BY DEF Merging
  <2>3. QED
    BY <2>1, <2>2, StageMoves
<1>5. CASE Store!Conflict(h)
  <2> DEFINE next == Store!With(i, Store!Read, i.attempt + 1)
             rebuild == [at |-> "rebuild", answer |-> i.answer, rows |-> i.rows, reread |-> TRUE]
  <2>1. /\ i.at = "conflict" /\ UNCHANGED <<sample, counted, displacing, heartbeat>>
        /\ \/ invocation' = [invocation EXCEPT ![h] = next]
           \/ invocation' = [invocation EXCEPT ![h] = rebuild]
    BY <1>5 DEF Store!Conflict, Store!tables
  <2>2. next.at \in {"rebuild", "hash"} /\ {"at", "answer"} \subseteq DOMAIN next /\ next.answer = i.answer
    BY WithIs
  <2>3. rebuild.at = "rebuild" /\ {"at", "answer"} \subseteq DOMAIN rebuild /\ rebuild.answer = i.answer
    OBVIOUS
  <2> HIDE DEF next, rebuild
  <2>4. QED
    BY <2>1, <2>2, <2>3, MergingMoves DEF Merging
<1>6. CASE Store!ReadBuckets(h)
  <2>1. PICK m : invocation' = [invocation EXCEPT ![h] = [at |-> "reread", answer |-> i.answer, merged |-> m]]
    BY <1>6 DEF Store!ReadBuckets
  <2>2. i.at = "rebuild" /\ UNCHANGED <<sample, counted, displacing, heartbeat>>
    BY <1>6 DEF Store!ReadBuckets, Store!tables
  <2> DEFINE j == [at |-> "reread", answer |-> i.answer, merged |-> m]
  <2>3. j.at = "reread" /\ {"at", "answer"} \subseteq DOMAIN j /\ j.answer = i.answer
    OBVIOUS
  <2> HIDE DEF j
  <2>4. QED
    BY <2>1, <2>2, <2>3, MergingMoves DEF Merging, j
<1>7. CASE Store!Reread(h)
  <2>1. /\ i.at = "reread" /\ invocation' = [invocation EXCEPT ![h].at = "upsert"]
        /\ UNCHANGED <<sample, counted, displacing, heartbeat>>
    BY <1>7 DEF Store!Reread, Store!tables
  <2>2. QED
    BY <2>1, StageMoves DEF Merging
<1>8. CASE Store!Upsert(h)
  <2> DEFINE j == [at |-> "invalidate", answer |-> i.answer]
  <2>1. /\ i.at = "upsert" /\ invocation' = [invocation EXCEPT ![h] = j]
        /\ UNCHANGED <<sample, counted, displacing, heartbeat>>
    BY <1>8 DEF Store!Upsert, Store!tables
  <2>2. j.at = "invalidate" /\ {"at", "answer"} \subseteq DOMAIN j /\ j.answer = i.answer
    OBVIOUS
  <2> HIDE DEF j
  <2>3. QED
    BY <2>1, <2>2, MergingMoves DEF Merging
<1>9. CASE Store!InvalidateEnvironmentStateCache(h)
  <2>1. /\ i.at = "invalidate" /\ invocation' = [invocation EXCEPT ![h].at = "answer"]
        /\ UNCHANGED <<sample, counted, displacing, heartbeat>>
    BY <1>9 DEF Store!InvalidateEnvironmentStateCache, Store!tables
  <2>2. QED
    BY <2>1, StageMoves DEF Merging
<1>10. QED
  BY <1>1, <1>2, <1>3, <1>4, <1>5, <1>6, <1>7, <1>8, <1>9

\* The row of the isolate's cache changes for everyone who holds it, and nothing else of
\* theirs does.
LEMMA WinningOK ==
    ASSUME StoreInv, NEW h \in Handlers, Store!Won(h)
    PROVE  StoreInv'
<1> DEFINE i == invocation[h]
           Updated(w) == IF w.id = i.row.id
                         THEN [id |-> w.id, version |-> w.version + 1, points |-> i.merged] ELSE w
           New(g) == Updated(invocation[g].row)
           done == [at |-> "answer", answer |-> i.answer]
<1>1. /\ i.at = "won" /\ UNCHANGED <<sample, counted, displacing, heartbeat>>
      /\ invocation' = [g \in Handlers |->
                          IF g = h THEN done
                          ELSE IF Store!Holds(invocation[g]) THEN [invocation[g] EXCEPT !.row = New(g)]
                          ELSE invocation[g]]
  BY DEF Store!Won, Store!tables
<1>2. PromiseOK(i.answer, sample, counted, displacing)
  BY <1>1, AnswerIsPassed DEF Merging
<1> HIDE DEF New, i
<1>3. Invoked(done, sample, counted, displacing)
  BY <1>2 DEF Invoked, Merging
<1> HIDE DEF done
<1>4. ASSUME NEW g \in Handlers, Store!Holds(invocation[g])
      PROVE  Invoked([invocation[g] EXCEPT !.row = New(g)], sample, counted, displacing)
  <2> DEFINE old == invocation[g]
             j == [old EXCEPT !.row = New(g)]
  <2>1. "row" \in DOMAIN old
    BY <1>4 DEF Store!Holds
  <2>2. Invoked(old, sample, counted, displacing)
    BY DEF StoreInv, InvocationsOK
  <2> HIDE DEF old
  <2>3. old.at \in Merging /\ {"at", "answer"} \subseteq DOMAIN old /\ PromiseOK(old.answer, sample, counted, displacing)
    BY <2>1, <2>2 DEF Invoked, PromiseOK
  <2>4. j.at = old.at /\ {"at", "answer"} \subseteq DOMAIN j /\ j.answer = old.answer
    BY <2>3
  <2> HIDE DEF j
  <2>5. Invoked(j, sample, counted, displacing)
    BY <2>3, <2>4 DEF Invoked
  <2>6. QED
    BY <2>5 DEF j, old
<1>5. \A g \in Handlers : Invoked(invocation'[g], sample, counted, displacing)
  <2>1. ASSUME NEW g \in Handlers PROVE Invoked(invocation'[g], sample, counted, displacing)
    <3>1. CASE g = h
      BY <1>1, <1>3, <3>1
    <3>2. CASE g # h /\ Store!Holds(invocation[g])
      <4>1. invocation'[g] = [invocation[g] EXCEPT !.row = New(g)]
        BY <1>1, <3>2
      <4>2. QED
        BY <1>4, <3>2, <4>1
    <3>3. CASE g # h /\ ~Store!Holds(invocation[g])
      <4>1. invocation'[g] = invocation[g]
        BY <1>1, <3>3
      <4>2. QED
        BY <4>1 DEF StoreInv, InvocationsOK
    <3>4. QED
      BY <3>1, <3>2, <3>3
  <2>2. QED
    BY <2>1
<1>6. invocation' = [g \in Handlers |-> invocation'[g]]
  BY <1>1
<1>7. InvocationsOK'
  BY <1>1, <1>5, <1>6 DEF InvocationsOK
<1>8. TablesOK'
  BY <1>1 DEF StoreInv, TablesOK
<1>9. QED
  BY <1>7, <1>8 DEF StoreInv

LEMMA EndingOK ==
    ASSUME StoreInv, NEW h \in Handlers, Store!Answer(h) \/ Store!Done(h) \/ Store!End(h)
    PROVE  StoreInv'
<1>1. UNCHANGED <<sample, counted, displacing>> /\ heartbeat' \in Int
  BY DEF Store!Answer, Store!Done, Store!End, Store!tables, StoreInv, TablesOK
<1>2. CASE Store!Answer(h)
  <2> DEFINE j == invocation[h].answer
  <2>1. invocation[h].at = "answer" /\ invocation' = [invocation EXCEPT ![h] = j]
    BY <1>2 DEF Store!Answer
  <2>2. PromiseOK(j, sample, counted, displacing)
    BY <2>1, AnswerIsPassed DEF Merging
  <2> HIDE DEF j
  <2>3. Invoked(j, sample, counted, displacing)
    BY <2>2 DEF Invoked
  <2>4. QED
    BY <1>1, <2>1, <2>3, InvocationMoves
<1>3. CASE Store!Done(h) \/ Store!End(h)
  <2>1. invocation' = [invocation EXCEPT ![h] = Store!Idle]
    BY <1>3 DEF Store!Done, Store!End
  <2>2. Invoked(Store!Idle, sample, counted, displacing)
    BY DEF Invoked, Store!Idle
  <2>3. QED
    BY <1>1, <2>1, <2>2, InvocationMoves
<1>4. QED
  BY <1>2, <1>3

LEMMA StoreNextOK == StoreInv /\ [Store!Next]_storeVars => StoreInv'
<1>1. ASSUME StoreInv, UNCHANGED storeVars PROVE StoreInv'
  BY <1>1 DEF storeVars, StoreInv, TablesOK, InvocationsOK
<1>2. ASSUME StoreInv, Store!Next PROVE StoreInv'
  BY <1>2, ReceivingOK, InsertingOK, ReadingBackOK, ApplyingOK, BeatingOK, MergeStepsOK, WinningOK,
     EndingOK DEF Store!Next
<1>3. QED
  BY <1>1, <1>2

Points == [Store!Buckets -> Nat]
Rows   == [id: Nat \ {0}, version: Nat, points: Points]

\* Values of buckets that a request changed.
Changed(f) == DOMAIN f \subseteq Store!Buckets /\ \A b \in DOMAIN f : f[b] \in Nat

\* What an invocation carries from one step to the next.
Carries(i) ==
    /\ i.at \in {"beat", "look", "merge", "hash", "write", "won", "conflict", "rebuild"} =>
           {"at", "rows"} \subseteq DOMAIN i /\ Changed(i.rows)
    /\ i.at \in {"hash", "write", "won", "conflict"} => "row" \in DOMAIN i
    /\ i.at \in {"hash", "write", "won", "conflict", "reread", "upsert"} =>
           {"at", "merged"} \subseteq DOMAIN i /\ i.merged \in Points
    /\ "row" \in DOMAIN i => i.row \in Rows

StoreTypes ==
    /\ environment \in [version: Nat, points: Points]
    /\ cached \in [Store!Isolates -> {Store!Uncached, Store!NoRow} \cup Rows]
    /\ \A h \in Handlers : Carries(invocation[h])
    /\ heartbeat \in {0} \cup Sequences
    /\ requests \in 0 .. MaxRequests /\ losses \in 0 .. MaxLosses

LEMMA StoreConstants ==
    /\ IsFiniteSet(Handlers) /\ MaxRequests \in Nat /\ MaxLosses \in Nat
    /\ \A t \in Times : BucketOf[t] \in Store!Buckets
    /\ \A h \in Handlers : IsolateOf[h] \in Store!Isolates
    /\ \A c \in Store!Isolates : \E h \in Handlers : c = IsolateOf[h]
<1>1. /\ DOMAIN BucketOf = Times /\ DOMAIN IsolateOf = Handlers /\ Store!IsFiniteSet(Handlers)
      /\ MaxRequests \in Nat /\ MaxLosses \in Nat
  BY StoreAssumption DEF Store!StoreAssumption
<1>2. Store!IsFiniteSet(Handlers) <=> IsFiniteSet(Handlers)
  BY DEF Store!IsFiniteSet, IsFiniteSet
<1>3. QED
  BY <1>1, <1>2 DEF Store!Buckets, Store!Isolates, Store!Range

\* There is a number left for the object that is read.
LEMMA NumberIsLeft ==
    /\ Store!Min((1 .. 2 * Store!Cardinality(Handlers) + 1) \ Store!Used) \in Nat \ {0}
<1> DEFINE n == Cardinality(Handlers)
           held == {g \in Handlers : Store!Holds(invocation[g])}
           f == [h \in Handlers |-> cached[IsolateOf[h]].id]
           g == [h \in held |-> invocation[h].row.id]
           A == {f[h] : h \in Handlers}
           B == {g[h] : h \in held}
<1>1. IsFiniteSet(Handlers) /\ n \in Nat
  BY StoreConstants, FS_CardinalityType
<1>2. IsFiniteSet(held) /\ Cardinality(held) \in Nat /\ Cardinality(held) <= n
  BY <1>1, FS_Subset, FS_CardinalityType
<1>3. Store!Used = A \cup B
  BY StoreConstants DEF Store!Used
<1>4. IsFiniteSet(A) /\ Cardinality(A) <= n /\ Cardinality(A) \in Nat
  BY <1>1, FiniteImage, FS_CardinalityType
<1>5. IsFiniteSet(B) /\ Cardinality(B) <= n /\ Cardinality(B) \in Nat
  <2> HIDE DEF n, g, held
  <2>1. IsFiniteSet(B) /\ Cardinality(B) <= Cardinality(held)
    BY <1>2, FiniteImage
  <2>2. Cardinality(B) \in Nat
    BY <2>1, FS_CardinalityType
  <2>3. QED
    BY <1>1, <1>2, <2>1, <2>2
<1> HIDE DEF n, A, B, held
<1>6. IsFiniteSet(A \cup B) /\ Cardinality(A \cup B) \in Nat /\ Cardinality(A \cup B) <= 2 * n
  <2>1. IsFiniteSet(A \cup B) /\ Cardinality(A \cup B) = Cardinality(A) + Cardinality(B) - Cardinality(A \cap B)
    BY <1>4, <1>5, FS_Union
  <2>2. Cardinality(A \cup B) \in Nat /\ Cardinality(A \cap B) \in Nat
    <3>1. IsFiniteSet(A \cap B)
      BY <1>4, FS_Subset
    <3>2. QED
      BY <2>1, <3>1, FS_CardinalityType
  <2>3. QED
    BY <1>1, <1>4, <1>5, <2>1, <2>2
<1> DEFINE one == 1
           m == 2 * n + 1
           left == (one .. m) \ (A \cup B)
<1>7. one \in Int /\ m \in Int /\ Cardinality(one .. m) = 2 * n + 1
  <2>1. one \in Int /\ m \in Int /\ ~(one > m) /\ m - one + 1 = 2 * n + 1
    BY <1>1
  <2> HIDE DEF one, m
  <2>2. QED
    BY <2>1, FS_Interval
<1>8. left # {}
  <2> SUFFICES ASSUME left = {} PROVE FALSE
    OBVIOUS
  <2> HIDE DEF one, m
  <2>1. (one .. m) \subseteq A \cup B
    OBVIOUS
  <2>2. Cardinality(one .. m) <= Cardinality(A \cup B)
    BY <1>6, <2>1, FS_Subset
  <2>3. QED
    BY <1>1, <1>6, <1>7, <2>2
<1>9. left \in SUBSET Nat /\ 0 \notin left
  BY <1>1
<1>10. PICK k \in left : \A j \in left : k <= j
  <2> HIDE DEF left
  <2>1. QED
    BY <1>8, <1>9, LeastNumber
<1>11. Store!Min(left) \in left
  BY <1>10 DEF Store!Min
<1>12. left = (1 .. 2 * Store!Cardinality(Handlers) + 1) \ Store!Used
  <2>1. n = Store!Cardinality(Handlers)
    BY DEF n, Store!Cardinality, Cardinality
  <2>2. QED
    BY <1>3, <2>1
<1>13. QED
  BY <1>9, <1>11, <1>12

LEMMA ReadIs ==
    ASSUME StoreTypes
    PROVE  Store!Read = Store!NoRow \/ Store!Read \in Rows
<1> DEFINE n == Store!Min((1 .. 2 * Store!Cardinality(Handlers) + 1) \ Store!Used)
<1>1. n \in Nat \ {0}
  BY NumberIsLeft
<1>2. Store!Read = Store!NoRow
      \/ Store!Read = [id |-> n, version |-> environment.version, points |-> environment.points]
  BY DEF Store!Read
<1> HIDE DEF n
<1>3. QED
  BY <1>1, <1>2 DEF StoreTypes, Rows

\* The sum of a bucket.
LEMMA CountIs ==
    ASSUME NEW c \in [Store!Samples -> {0, 1}], NEW b
    PROVE  Store!Count(c, b) \in Nat
<1> DEFINE S == {x \in Store!Samples : BucketOf[x[2]] = b}
<1>1. Store!Count(c, b) = SumOver(c, S)
  BY DEF Store!Count, Store!SumFunctionOnSet, Store!FoldFunctionOnSet, Store!MapThenFoldSet, SumOver,
         Sums, Summand, Others
<1>2. IsFiniteSet(Store!Samples)
  <2>1. IsFiniteSet(Times)
    BY StoreAssumption DEF Store!StoreAssumption, Store!IsFiniteSet, IsFiniteSet
  <2>2. QED
    BY <2>1, SequencesAre, FS_Product DEF Store!Samples
<1>3. IsFiniteSet(S) /\ \A x \in S : c[x] \in Nat
  BY <1>2, FS_Subset
<1> DEFINE N == Nat
<1>4. N \in {Nat, Int} /\ \A x \in S : c[x] \in N
  BY <1>3
<1> HIDE DEF N, S
<1>5. SumOver(c, S) \in N
  BY <1>3, <1>4, SumTyped
<1>6. QED
  BY <1>1, <1>5 DEF N

-----------------------------------------------------------------------------
LEMMA StoreTypesInit == Store!Init => StoreTypes
<1> SUFFICES ASSUME Store!Init PROVE StoreTypes
  OBVIOUS
<1>1. /\ invocation = [h \in Handlers |-> [at |-> "idle"]] /\ heartbeat = 0 /\ requests = 0 /\ losses = 0
      /\ cached = [c \in Store!Isolates |-> Store!Uncached]
      /\ environment \in {[Store!NoState EXCEPT !.version = 1], Store!NoState}
  BY DEF Store!Init, Store!Idle
<1>2. environment \in [version: Nat, points: Points]
  <2>1. Store!NoState \in [version: Nat, points: Points]
    BY DEF Store!NoState, Points
  <2>2. [Store!NoState EXCEPT !.version = 1] \in [version: Nat, points: Points]
    BY <2>1
  <2>3. QED
    BY <1>1, <2>1, <2>2
<1>3. \A h \in Handlers : Carries(invocation[h])
  BY <1>1 DEF Carries
<1>4. QED
  BY <1>1, <1>2, <1>3, StoreConstants DEF StoreTypes

LEMMA Carried ==
    ASSUME StoreInv, StoreTypes, NEW h \in Handlers, NEW j, invocation' = [invocation EXCEPT ![h] = j],
           Carries(j)
    PROVE  \A g \in Handlers : Carries(invocation'[g])
BY DEF StoreInv, InvocationsOK, StoreTypes

\* Nothing else of the types moves.
Resting == UNCHANGED <<environment, cached, heartbeat, requests, losses>>

LEMMA StoreMoves ==
    ASSUME StoreInv, StoreTypes, NEW h \in Handlers, NEW j, invocation' = [invocation EXCEPT ![h] = j],
           Carries(j), Resting
    PROVE  StoreTypes'
<1>1. \A g \in Handlers : Carries(invocation'[g])
  BY Carried
<1>2. QED
  BY <1>1 DEF StoreTypes, Resting

LEMMA ReceivingTyped ==
    ASSUME StoreInv, StoreTypes, NEW h \in Handlers,
           Store!Receive(h) \/ Store!InsertSamples(h) \/ Store!ReadBack(h)
    PROVE  StoreTypes'
<1>1. CASE Store!Receive(h)
  <2>1. PICK b : invocation' = [invocation EXCEPT ![h] = [at |-> "insert", body |-> b]]
    BY <1>1 DEF Store!Receive
  <2>2. Carries([at |-> "insert", body |-> b])
    BY DEF Carries
  <2>3. \A g \in Handlers : Carries(invocation'[g])
    BY <2>1, <2>2, Carried
  <2>4. requests' \in 0 .. MaxRequests
    BY <1>1, StoreConstants DEF Store!Receive, StoreTypes
  <2>5. QED
    BY <1>1, <2>3, <2>4 DEF StoreTypes, Store!Receive, Store!tables
<1>2. CASE Store!InsertSamples(h)
  <2>1. PICK st \in {"bucket", "readback"} : \E b, a, p :
            invocation' = [invocation EXCEPT ![h] = [at |-> st, body |-> b, acked |-> a, pending |-> p]]
    BY <1>2, Zenon DEF Store!InsertSamples
  <2>2. PICK b, a, p :
            invocation' = [invocation EXCEPT ![h] = [at |-> st, body |-> b, acked |-> a, pending |-> p]]
    BY <2>1
  <2>3. Carries([at |-> st, body |-> b, acked |-> a, pending |-> p])
    BY <2>1 DEF Carries
  <2>4. Resting
    BY <1>2, Zenon DEF Store!InsertSamples, Resting
  <2>5. QED
    BY <2>2, <2>3, <2>4, StoreMoves
<1>3. CASE Store!ReadBack(h)
  <2> DEFINE i == invocation[h]
  <2>1. i.at = "readback" /\ DOMAIN i = {"at", "body", "acked", "pending"} /\ Resting
    BY <1>3 DEF Store!ReadBack, Store!tables, Resting, StoreInv, InvocationsOK, Invoked, Merging, PromiseOK
  <2>2. PICK S, T : invocation' = [invocation EXCEPT ![h] = [i EXCEPT !.at = "bucket", !.acked = @ \cup S,
                                                                      !.pending = @ \cup T]]
    BY <1>3 DEF Store!ReadBack
  <2> DEFINE j == [i EXCEPT !.at = "bucket", !.acked = @ \cup S, !.pending = @ \cup T]
  <2>3. j.at = "bucket" /\ "row" \notin DOMAIN j
    BY <2>1
  <2>4. invocation' = [invocation EXCEPT ![h] = j]
    BY <2>2
  <2> HIDE DEF j
  <2>5. Carries(j)
    BY <2>3 DEF Carries
  <2>6. QED
    BY <2>1, <2>4, <2>5, StoreMoves
<1>4. QED
  BY <1>1, <1>2, <1>3

LEMMA ApplyingTyped ==
    ASSUME StoreInv, StoreInv', StoreTypes, NEW h \in Handlers, Store!ApplyBuckets(h)
    PROVE  StoreTypes'
<1> DEFINE i == invocation[h]
           agg == Store!Aggregated(i)
           adds == {<<s, sample[s].at>> : s \in agg}
           changed == {BucketOf[x[2]] : x \in adds}
<1>1. i.at = "bucket" /\ Resting
  BY DEF Store!ApplyBuckets, Resting
<1>2. PICK acc : invocation' = [invocation EXCEPT ![h] =
                     [at |-> "beat", body |-> i.body, acked |-> i.acked, accepted |-> acc,
                      rows |-> [b \in changed |-> Store!Count(counted', b)]]]
  BY Zenon DEF Store!ApplyBuckets
<1>3. counted' \in [Store!Samples -> {0, 1}]
  BY DEF StoreInv, TablesOK
<1>4. changed \subseteq Store!Buckets
  <2>1. ASSUME NEW s \in agg PROVE BucketOf[sample[s].at] \in Store!Buckets
    <3>1. s \in i.pending /\ BucketOf[sample[s].at] = BucketOf[i.body[s]]
      BY DEF Store!Aggregated
    <3>2. i.body \in StoreBodies /\ i.pending \subseteq DOMAIN i.body
      BY <1>1 DEF StoreInv, InvocationsOK, Invoked, Merging, PromiseOK
    <3>3. i.body[s] \in Times
      BY <3>1, <3>2, BodiesAre
    <3>4. QED
      BY <3>1, <3>3, StoreConstants
  <2>2. QED
    BY <2>1
<1> HIDE DEF i, changed
<1> DEFINE f == [b \in changed |-> Store!Count(counted', b)]
           j == [at |-> "beat", body |-> i.body, acked |-> i.acked, accepted |-> acc, rows |-> f]
<1>5. Changed(f)
  BY <1>3, <1>4, CountIs DEF Changed
<1>6. invocation' = [invocation EXCEPT ![h] = j]
  BY <1>2
<1> HIDE DEF f
<1>7. Carries(j)
  BY <1>5 DEF Carries
<1> HIDE DEF j
<1>8. QED
  BY <1>1, <1>6, <1>7, StoreMoves

LEMMA BeatingTyped ==
    ASSUME StoreInv, StoreTypes, NEW h \in Handlers, Store!Heartbeat(h)
    PROVE  StoreTypes'
<1> DEFINE i == invocation[h]
<1>1. /\ i.at = "beat" /\ heartbeat' = Store!Max({heartbeat} \cup i.acked)
      /\ UNCHANGED <<environment, cached, requests, losses>>
  BY DEF Store!Heartbeat
<1>2. PICK a, st : /\ invocation' = [invocation EXCEPT ![h] = [answer |-> a, rows |-> i.rows, at |-> st]]
                   /\ st = IF i.accepted THEN "merge" ELSE IF i.acked # {} THEN "look" ELSE "answer"
  BY Zenon DEF Store!Heartbeat
<1>3. Changed(i.rows)
  BY <1>1 DEF StoreTypes, Carries
<1>4. Carries([answer |-> a, rows |-> i.rows, at |-> st])
  BY <1>2, <1>3 DEF Carries
<1>5. i.body \in StoreBodies /\ i.acked \subseteq DOMAIN i.body
  BY <1>1 DEF StoreInv, InvocationsOK, Invoked, Merging, PromiseOK
<1>6. i.acked \subseteq Sequences
  BY <1>5, BodiesAre
<1>7. heartbeat' \in {0} \cup Sequences
  <2> DEFINE S == {heartbeat} \cup i.acked
  <2>1. S \subseteq {0} \cup Sequences
    BY <1>6 DEF StoreTypes
  <2>2. IsFiniteSet({0} \cup Sequences) /\ ({0} \cup Sequences) \subseteq Int
    <3>1. IsFiniteSet(Sequences) /\ Sequences \subseteq Nat
      BY SequencesAre
    <3>2. IsFiniteSet(Sequences \cup {0})
      BY <3>1, FS_AddElement
    <3>3. Sequences \cup {0} = {0} \cup Sequences
      OBVIOUS
    <3>4. QED
      BY <3>1, <3>2, <3>3
  <2>3. IsFiniteSet(S) /\ S \in SUBSET Int
    BY <2>1, <2>2, FS_Subset
  <2>4. S # {}
    OBVIOUS
  <2>5. heartbeat' = Store!Max(S)
    BY <1>1
  <2> HIDE DEF S
  <2>6. QED
    BY <2>1, <2>3, <2>4, <2>5, MaxOfFinite
<1> HIDE DEF i
<1>8. \A g \in Handlers : Carries(invocation'[g])
  BY <1>2, <1>4, Carried
<1>9. QED
  BY <1>1, <1>7, <1>8 DEF StoreTypes

\* The stage alone.
LEMMA StageTyped ==
    ASSUME StoreInv, StoreTypes, NEW h \in Handlers, NEW st,
           invocation' = [invocation EXCEPT ![h].at = st],
           \/ invocation[h].at = "look" /\ st \in {"merge", "answer"}
           \/ invocation[h].at = "write" /\ st \in {"won", "conflict"}
           \/ invocation[h].at = "reread" /\ st = "upsert"
           \/ invocation[h].at = "invalidate" /\ st = "answer"
    PROVE  \A g \in Handlers : Carries(invocation'[g])
<1> DEFINE i == invocation[h]
           j == [i EXCEPT !.at = st]
<1>1. {"at", "answer"} \subseteq DOMAIN i
  BY AnswerIsPassed DEF Merging
<1>2. Carries(i)
  BY DEF StoreTypes
<1>3. invocation' = [invocation EXCEPT ![h] = j]
  OBVIOUS
<1> HIDE DEF i
<1>4. j.at = st /\ DOMAIN j = DOMAIN i /\ \A x \in DOMAIN i : x # "at" => j[x] = i[x]
  BY <1>1
<1>5. /\ "rows" \in DOMAIN i => j.rows = i.rows
      /\ "merged" \in DOMAIN i => j.merged = i.merged
      /\ "row" \in DOMAIN i => j.row = i.row
  BY <1>4
<1> HIDE DEF j
<1>6. Carries(j)
  BY <1>2, <1>4, <1>5 DEF Carries, i
<1>7. QED
  BY <1>3, <1>6, Carried

LEMMA MergedIs ==
    ASSUME NEW p \in Points, NEW f, Changed(f)
    PROVE  Store!Merged(p, f) \in Points
BY DEF Points, Changed, Store!Merged

LEMMA WithTyped ==
    ASSUME NEW i, Changed(i.rows), NEW w, w = Store!NoRow \/ w \in Rows, NEW n
    PROVE  Carries(Store!With(i, w, n))
<1>1. CASE w = Store!NoRow
  BY <1>1 DEF Store!With, Carries
<1>2. CASE w # Store!NoRow
  <2> DEFINE m == Store!Merged(w.points, i.rows)
  <2>1. m \in Points
    BY <1>2, MergedIs DEF Rows
  <2>2. Store!With(i, w, n) =
            [at |-> "hash", answer |-> i.answer, rows |-> i.rows, attempt |-> n, row |-> w, merged |-> m]
    BY <1>2 DEF Store!With
  <2> HIDE DEF m
  <2>3. QED
    BY <1>2, <2>1, <2>2 DEF Carries
<1>3. QED
  BY <1>1, <1>2

LEMMA CacheMoves ==
    ASSUME StoreTypes, NEW c \in Store!Isolates, NEW w \in {Store!Uncached, Store!NoRow} \cup Rows,
           cached' = [cached EXCEPT ![c] = w]
    PROVE  cached' \in [Store!Isolates -> {Store!Uncached, Store!NoRow} \cup Rows]
BY DEF StoreTypes

LEMMA MergeStepsTyped ==
    ASSUME StoreInv, StoreTypes, NEW h \in Handlers,
           \/ Store!LookForState(h) \/ Store!ReadPrevious(h) \/ Store!Hashed(h)
           \/ Store!CompareAndSet(h) \/ Store!Conflict(h) \/ Store!ReadBuckets(h)
           \/ Store!Reread(h) \/ Store!Upsert(h) \/ Store!InvalidateEnvironmentStateCache(h)
    PROVE  StoreTypes'
<1> DEFINE i == invocation[h]
           c == IsolateOf[h]
<1>1. Carries(i) /\ c \in Store!Isolates /\ environment \in [version: Nat, points: Points]
  BY StoreConstants DEF StoreTypes
<1>2. Store!Read \in {Store!NoRow} \cup Rows /\ Store!Read \in {Store!Uncached, Store!NoRow} \cup Rows
  BY ReadIs
<1>3. CASE Store!LookForState(h)
  <2> DEFINE st == IF environment.version = 0 THEN "merge" ELSE "answer"
  <2>1. i.at = "look" /\ invocation' = [invocation EXCEPT ![h].at = st] /\ Resting
    BY <1>3 DEF Store!LookForState, Store!tables, Resting
  <2>2. st \in {"merge", "answer"}
    OBVIOUS
  <2> HIDE DEF st
  <2>3. \A g \in Handlers : Carries(invocation'[g])
    BY <2>1, <2>2, StageTyped
  <2>4. QED
    BY <2>1, <2>3 DEF StoreTypes, Resting
<1>4. CASE Store!ReadPrevious(h)
  <2> DEFINE w == IF DOMAIN i.rows # {} /\ cached[c] # Store!Uncached THEN cached[c] ELSE Store!Read
             one == 1
  <2>1. /\ i.at = "merge" /\ cached' = [cached EXCEPT ![c] = w]
        /\ invocation' = [invocation EXCEPT ![h] = Store!With(i, w, one)]
        /\ UNCHANGED <<environment, heartbeat, requests, losses>>
    BY <1>4 DEF Store!ReadPrevious, Store!tables
  <2>2. w \in {Store!NoRow} \cup Rows
    BY <1>1, <1>2 DEF StoreTypes
  <2> HIDE DEF w, one
  <2>3. Changed(i.rows)
    BY <1>1, <2>1 DEF Carries
  <2>4. Carries(Store!With(i, w, one))
    BY <2>2, <2>3, WithTyped
  <2>5. \A g \in Handlers : Carries(invocation'[g])
    BY <2>1, <2>4, Carried
  <2>6. cached' \in [Store!Isolates -> {Store!Uncached, Store!NoRow} \cup Rows]
    BY <1>1, <2>1, <2>2, CacheMoves
  <2>7. QED
    BY <2>1, <2>5, <2>6 DEF StoreTypes
<1>5. CASE Store!Hashed(h)
  <2> DEFINE done == [at |-> "answer", answer |-> i.answer]
             write == [at |-> "write", answer |-> i.answer, rows |-> i.rows, attempt |-> i.attempt,
                       row |-> i.row, merged |-> i.merged, version |-> i.row.version]
  <2>1. /\ i.at = "hash" /\ Resting
        /\ \/ invocation' = [invocation EXCEPT ![h] = done]
           \/ invocation' = [invocation EXCEPT ![h] = write]
    BY <1>5 DEF Store!Hashed, Store!tables, Resting
  <2>2. Carries(done) /\ Carries(write)
    BY <1>1, <2>1 DEF Carries
  <2> HIDE DEF done, write
  <2>3. QED
    BY <2>1, <2>2, StoreMoves
<1>6. CASE Store!CompareAndSet(h)
  <2>1. PICK st \in {"won", "conflict"} : invocation' = [invocation EXCEPT ![h].at = st]
    BY <1>6 DEF Store!CompareAndSet
  <2>2. /\ i.at = "write" /\ UNCHANGED <<cached, heartbeat, requests, losses>>
        /\ \/ environment' = [version |-> environment.version + 1, points |-> i.merged]
           \/ environment' = environment
    BY <1>6 DEF Store!CompareAndSet, Store!tables
  <2>3. \A g \in Handlers : Carries(invocation'[g])
    BY <2>1, <2>2, StageTyped
  <2>4. i.merged \in Points
    BY <1>1, <2>2 DEF Carries
  <2>5. environment' \in [version: Nat, points: Points]
    BY <1>1, <2>2, <2>4
  <2>6. QED
    BY <2>2, <2>3, <2>5 DEF StoreTypes
<1>7. CASE Store!Conflict(h)
  <2> DEFINE n == i.attempt + 1
             next == Store!With(i, Store!Read, n)
             rebuild == [at |-> "rebuild", answer |-> i.answer, rows |-> i.rows, reread |-> TRUE]
  <2>1. /\ i.at = "conflict" /\ cached' = [cached EXCEPT ![c] = Store!Read]
        /\ UNCHANGED <<environment, heartbeat, requests, losses>>
        /\ \/ invocation' = [invocation EXCEPT ![h] = next]
           \/ invocation' = [invocation EXCEPT ![h] = rebuild]
    BY <1>7 DEF Store!Conflict, Store!tables
  <2>2. Changed(i.rows)
    BY <1>1, <2>1 DEF Carries
  <2>3. Carries(rebuild)
    BY <2>2 DEF Carries
  <2> HIDE DEF n
  <2>4. Carries(next)
    BY <1>2, <2>2, WithTyped
  <2> HIDE DEF next, rebuild
  <2>5. \A g \in Handlers : Carries(invocation'[g])
    BY <2>1, <2>3, <2>4, Carried
  <2>6. cached' \in [Store!Isolates -> {Store!Uncached, Store!NoRow} \cup Rows]
    BY <1>1, <1>2, <2>1, CacheMoves
  <2>7. QED
    BY <2>1, <2>5, <2>6 DEF StoreTypes
<1>8. CASE Store!ReadBuckets(h)
  <2> DEFINE all == [b \in Store!Buckets |-> Store!Count(counted, b)]
             none == Store!Merged(Store!NoState.points, i.rows)
  <2>1. /\ i.at = "rebuild" /\ Resting
        /\ \/ invocation' = [invocation EXCEPT ![h] = [at |-> "reread", answer |-> i.answer, merged |-> all]]
           \/ invocation' = [invocation EXCEPT ![h] = [at |-> "reread", answer |-> i.answer, merged |-> none]]
    BY <1>8 DEF Store!ReadBuckets, Store!tables, Resting
  <2>2. all \in Points
    <3>1. counted \in [Store!Samples -> {0, 1}]
      BY DEF StoreInv, TablesOK
    <3>2. QED
      BY <3>1, CountIs DEF Points
  <2>3. none \in Points
    <3>1. Store!NoState.points \in Points
      BY DEF Points, Store!NoState
    <3>2. Changed(i.rows)
      BY <1>1, <2>1 DEF Carries
    <3>3. QED
      BY <3>1, <3>2, MergedIs
  <2> HIDE DEF all, none
  <2> DEFINE j == [at |-> "reread", answer |-> i.answer, merged |-> all]
             k == [at |-> "reread", answer |-> i.answer, merged |-> none]
  <2>4. Carries(j) /\ Carries(k)
    BY <2>2, <2>3 DEF Carries
  <2>5. invocation' = [invocation EXCEPT ![h] = j] \/ invocation' = [invocation EXCEPT ![h] = k]
    BY <2>1
  <2> HIDE DEF j, k
  <2>6. QED
    BY <2>1, <2>4, <2>5, StoreMoves
<1>9. CASE Store!Reread(h)
  <2> DEFINE st == "upsert"
  <2>1. /\ i.at = "reread" /\ invocation' = [invocation EXCEPT ![h].at = st]
        /\ cached' = [cached EXCEPT ![c] = Store!Read]
        /\ UNCHANGED <<environment, heartbeat, requests, losses>>
    BY <1>9 DEF Store!Reread, Store!tables
  <2>2. st = "upsert"
    OBVIOUS
  <2> HIDE DEF st
  <2>3. \A g \in Handlers : Carries(invocation'[g])
    BY <2>1, <2>2, StageTyped
  <2>4. cached' \in [Store!Isolates -> {Store!Uncached, Store!NoRow} \cup Rows]
    BY <1>1, <1>2, <2>1, CacheMoves
  <2>5. QED
    BY <2>1, <2>3, <2>4 DEF StoreTypes
<1>10. CASE Store!Upsert(h)
  <2> DEFINE j == [at |-> "invalidate", answer |-> i.answer]
  <2>1. /\ i.at = "upsert" /\ invocation' = [invocation EXCEPT ![h] = j]
        /\ UNCHANGED <<cached, heartbeat, requests, losses>>
        /\ \/ environment' = environment
           \/ environment' = [version |-> environment.version + 1, points |-> i.merged]
    BY <1>10 DEF Store!Upsert, Store!tables
  <2>2. Carries(j) /\ i.merged \in Points
    BY <1>1, <2>1 DEF Carries
  <2> HIDE DEF j
  <2>3. \A g \in Handlers : Carries(invocation'[g])
    BY <2>1, <2>2, Carried
  <2>4. environment' \in [version: Nat, points: Points]
    BY <1>1, <2>1, <2>2
  <2>5. QED
    BY <2>1, <2>3, <2>4 DEF StoreTypes
<1>11. CASE Store!InvalidateEnvironmentStateCache(h)
  <2> DEFINE st == "answer"
  <2>1. /\ i.at = "invalidate" /\ invocation' = [invocation EXCEPT ![h].at = st]
        /\ cached' = [cached EXCEPT ![c] = Store!Uncached]
        /\ UNCHANGED <<environment, heartbeat, requests, losses>>
    BY <1>11 DEF Store!InvalidateEnvironmentStateCache, Store!tables
  <2>2. st = "answer"
    OBVIOUS
  <2> HIDE DEF st
  <2>3. \A g \in Handlers : Carries(invocation'[g])
    BY <2>1, <2>2, StageTyped
  <2>4. cached' \in [Store!Isolates -> {Store!Uncached, Store!NoRow} \cup Rows]
    BY <1>1, <2>1, CacheMoves
  <2>5. QED
    BY <2>1, <2>3, <2>4 DEF StoreTypes
<1>12. QED
  BY <1>3, <1>4, <1>5, <1>6, <1>7, <1>8, <1>9, <1>10, <1>11

LEMMA WinningTyped ==
    ASSUME StoreInv, StoreTypes, NEW h \in Handlers, Store!Won(h)
    PROVE  StoreTypes'
<1> DEFINE i == invocation[h]
           Updated(w) == IF w.id = i.row.id
                         THEN [id |-> w.id, version |-> w.version + 1, points |-> i.merged] ELSE w
           New(g) == Updated(invocation[g].row)
<1>1. /\ i.at = "won" /\ UNCHANGED <<environment, heartbeat, requests, losses>>
      /\ cached' = [c \in Store!Isolates |-> Updated(cached[c])]
      /\ invocation' = [g \in Handlers |->
                          IF g = h THEN [at |-> "answer", answer |-> i.answer]
                          ELSE IF Store!Holds(invocation[g]) THEN [invocation[g] EXCEPT !.row = New(g)]
                          ELSE invocation[g]]
  BY DEF Store!Won, Store!tables
<1>2. i.merged \in Points /\ i.row \in Rows
  BY <1>1 DEF StoreTypes, Carries
<1>3. ASSUME NEW w \in Rows PROVE Updated(w) \in Rows
  BY <1>2 DEF Rows
<1>4. ASSUME NEW w \in {Store!Uncached, Store!NoRow} PROVE Updated(w) = w
  BY <1>2 DEF Rows, Store!Uncached, Store!NoRow
<1>5. cached' \in [Store!Isolates -> {Store!Uncached, Store!NoRow} \cup Rows]
  <2> HIDE DEF Updated
  <2>1. \A c \in Store!Isolates : Updated(cached[c]) \in {Store!Uncached, Store!NoRow} \cup Rows
    BY <1>3, <1>4 DEF StoreTypes
  <2>2. QED
    BY <1>1, <2>1
<1>6. ASSUME NEW g \in Handlers PROVE Carries(invocation'[g])
  <2> HIDE DEF New
  <2>1. Carries(invocation[g])
    BY DEF StoreTypes
  <2>2. CASE g = h
    <3>1. invocation'[g] = [at |-> "answer", answer |-> i.answer]
      BY <1>1, <2>2
    <3>2. QED
      BY <3>1 DEF Carries
  <2>3. CASE g # h /\ Store!Holds(invocation[g])
    <3> DEFINE old == invocation[g]
               w == New(g)
               j == [old EXCEPT !.row = w]
    <3>1. invocation'[g] = j
      BY <1>1, <2>3
    <3>2. "row" \in DOMAIN old /\ old.row \in Rows
      BY <2>1, <2>3 DEF Store!Holds, Carries
    <3>3. w \in Rows
      <4> HIDE DEF Updated
      <4>1. QED
        BY <1>3, <3>2 DEF New
    <3> HIDE DEF w, old
    <3>4. DOMAIN j = DOMAIN old /\ j.row = w /\ \A x \in DOMAIN old : x # "row" => j[x] = old[x]
      BY <3>2
    <3>5. /\ {"at", "rows"} \subseteq DOMAIN old => j.at = old.at /\ j.rows = old.rows
          /\ {"at", "merged"} \subseteq DOMAIN old => j.at = old.at /\ j.merged = old.merged
      BY <3>4
    <3>6. "at" \in DOMAIN old
      <4>1. Invoked(old, sample, counted, displacing)
        BY DEF StoreInv, InvocationsOK, old
      <4>2. QED
        BY <3>2, <4>1 DEF Invoked, PromiseOK
    <3>7. j.at = old.at
      BY <3>4, <3>6
    <3> HIDE DEF j
    <3>8. Carries(j)
      BY <2>1, <3>2, <3>3, <3>4, <3>5, <3>7 DEF Carries, old
    <3>9. QED
      BY <3>1, <3>8
  <2>4. CASE g # h /\ ~Store!Holds(invocation[g])
    <3>1. invocation'[g] = invocation[g]
      BY <1>1, <2>4
    <3>2. QED
      BY <2>1, <3>1
  <2>5. QED
    BY <2>2, <2>3, <2>4
<1>7. QED
  BY <1>1, <1>5, <1>6 DEF StoreTypes

LEMMA EndingTyped ==
    ASSUME StoreInv, StoreTypes, NEW h \in Handlers, Store!Answer(h) \/ Store!Done(h) \/ Store!End(h)
    PROVE  StoreTypes'
<1>1. CASE Store!Answer(h)
  <2> DEFINE j == invocation[h].answer
  <2>1. invocation[h].at = "answer" /\ invocation' = [invocation EXCEPT ![h] = j] /\ Resting
    BY <1>1 DEF Store!Answer, Store!tables, Resting
  <2>2. PromiseOK(j, sample, counted, displacing)
    BY <2>1, AnswerIsPassed DEF Merging
  <2> HIDE DEF j
  <2>3. Carries(j)
    BY <2>2 DEF PromiseOK, Carries
  <2>4. QED
    BY <2>1, <2>3, StoreMoves
<1>2. CASE Store!Done(h) \/ Store!End(h)
  <2>1. invocation' = [invocation EXCEPT ![h] = Store!Idle]
    BY <1>2 DEF Store!Done, Store!End
  <2>2. Carries(Store!Idle)
    BY DEF Carries, Store!Idle
  <2>3. \A g \in Handlers : Carries(invocation'[g])
    BY <2>1, <2>2, Carried
  <2>4. losses' \in 0 .. MaxLosses
    BY <1>2, StoreConstants DEF Store!Done, Store!End, StoreTypes
  <2>5. QED
    BY <1>2, <2>3, <2>4 DEF Store!Done, Store!End, Store!tables, StoreTypes
<1>3. QED
  BY <1>1, <1>2

LEMMA StoreTypesNext ==
    StoreInv /\ StoreInv' /\ StoreTypes /\ [Store!Next]_storeVars => StoreTypes'
<1>1. ASSUME StoreTypes, UNCHANGED storeVars PROVE StoreTypes'
  BY <1>1 DEF storeVars, StoreTypes
<1>2. ASSUME StoreInv, StoreInv', StoreTypes, Store!Next PROVE StoreTypes'
  BY <1>2, ReceivingTyped, ApplyingTyped, BeatingTyped, MergeStepsTyped, WinningTyped, EndingTyped DEF Store!Next
<1>3. QED
  BY <1>1, <1>2

LEMMA StoreTyped == StoreInv /\ StoreTypes => Store!TypeOK
<1> SUFFICES ASSUME StoreInv, StoreTypes PROVE Store!TypeOK
  OBVIOUS
<1>1. \A s \in Sequences : sample[s].at \in {0} \cup Times /\ sample[s].applied \in BOOLEAN
  BY DEF StoreInv, TablesOK, StoreRows
<1>2. counted \in [Store!Samples -> Nat] /\ displacing \subseteq Store!Samples
  BY DEF StoreInv, TablesOK
<1>3. \A w \in Rows : [version |-> w.version, points |-> w.points] \in
                          [version: Nat, points: [Store!Buckets -> Nat]]
  BY DEF Rows, Points
<1>4. \A w \in {Store!Uncached, Store!NoRow} : ~(w.id > 0)
  BY DEF Store!Uncached, Store!NoRow
<1>5. \A h \in Handlers : Store!Holds(invocation[h]) => invocation[h].row \in Rows
  BY DEF StoreTypes, Carries, Store!Holds
<1>6. \A c \in Store!Isolates : cached[c].id > 0 => cached[c] \in Rows
  BY <1>4 DEF StoreTypes
<1>7. QED
  BY <1>1, <1>2, <1>3, <1>5, <1>6 DEF StoreTypes, Points, Store!TypeOK

-----------------------------------------------------------------------------
(* VideoLibrary: what a status says of the two lists, so that every writer finds a row it
   read earlier in a state it can handle; the counters follow the sets they count; and of
   the videos due in a pass none is at or before the cursor that will be recorded. *)

Phases   == {"base", "death"}
Counts   == [active: Nat, feed: Nat, blocked: Nat, death: Nat, dirty: BOOLEAN]
Liveness == [phase: Phases, cursor: Nat, upper: Nat, locked: BOOLEAN]
Runs     == [at: {"idle", "loop", "probing", "ending"}, phase: Phases, cursor: Nat, upper: Nat,
             row: Videos \cup {0}, moves: Int]
Storing  == [at: {"idle", "store", "sync", "count"}, items: SUBSET Videos]
Statuses == {"none", "active", "dead", "hidden"}

LibraryTypes ==
    /\ status \in [Videos -> Statuses] /\ counts \in Counts /\ liveness \in Liveness
    /\ recent \subseteq Videos /\ feed \subseteq Videos /\ blocked \subseteq Videos
    /\ death \subseteq Videos /\ due \subseteq Videos
    /\ run \in Runs /\ storing \in Storing /\ blocking \in Videos \cup {0}
    /\ settled \in BOOLEAN

\* A video on the death list is dead or hidden, one that is blocked is not active, and
\* the feed has active videos only.
ListsOK == \A v \in Videos :
    /\ status[v] = "dead" => v \in death
    /\ v \in death => status[v] \in {"dead", "hidden"}
    /\ v \in blocked => status[v] \in {"dead", "hidden"}
    /\ v \in feed => status[v] = "active"

\* The monitor alone moves the death list, so a row it probes is where it found it.
RunOK ==
    /\ run.at # "idle" => run.phase = liveness.phase /\ run.upper = liveness.upper
    /\ run.at = "loop" => run.cursor = liveness.cursor
    /\ run.at = "probing" => /\ run.row \in Videos
                             /\ run.cursor = Library!PlaceOf(run.phase, run.row)
                             /\ run.phase = "death" <=> run.row \in death

DueOK == \A v \in due :
    /\ v \in Library!Rows(liveness.phase)
    /\ Library!PlaceOf(liveness.phase, v) > liveness.cursor
    /\ Library!PlaceOf(liveness.phase, v) <= liveness.upper
    /\ run.at = "probing" => v = run.row \/ Library!PlaceOf(liveness.phase, v) > run.cursor
    /\ run.at = "ending" => Library!PlaceOf(liveness.phase, v) > run.cursor

Size(S) == Library!Cardinality(S)
ActiveIn(s) == {v \in Videos : s[v] = "active"}

CountsOK ==
    /\ counts.blocked = Size(blocked) /\ counts.death = Size(death)
    /\ settled => counts.active = Size(ActiveIn(status)) /\ counts.feed = Size(feed)

LibraryInv == LibraryTypes /\ ListsOK /\ RunOK /\ DueOK /\ CountsOK

\* Videos are numbers, finitely many, and a key belongs to one of them.
LEMMA VideosAre ==
    /\ IsFiniteSet(Videos) /\ Videos \subseteq Nat \ {0}
    /\ \A v \in Videos : KeyOf[v] \in Nat \ {0}
    /\ \A v, w \in Videos : KeyOf[v] = KeyOf[w] => v = w
<1>1. /\ Library!Cardinality(Videos) = Cardinality(Videos)
      /\ Library!IsFiniteSet(Videos) <=> IsFiniteSet(Videos)
  BY DEF Library!Cardinality, Cardinality, Library!IsFiniteSet, IsFiniteSet
<1>2. IsFiniteSet(Videos)
  BY <1>1, LibraryAssumption DEF Library!VideosAssumption
<1> DEFINE n == Cardinality(Videos)
<1>3. n \in Nat
  BY <1>2, FS_CardinalityType
<1>4. Videos = 1 .. n
  BY <1>1, LibraryAssumption, Zenon DEF Library!VideosAssumption
<1> HIDE DEF n
<1>5. Videos \subseteq Nat \ {0}
  BY <1>3, <1>4
<1>6. QED
  BY <1>2, <1>5, LibraryAssumption DEF Library!VideosAssumption

LEMMA Counting ==
    ASSUME NEW S \in SUBSET Videos
    PROVE  /\ Size(S) \in Nat
           /\ \A v \in Videos : /\ v \in S => Size(S) >= 1 /\ Size(S \ {v}) = Size(S) - 1
                                /\ v \notin S => Size(S \cup {v}) = Size(S) + 1
<1>1. \A U : Size(U) = Cardinality(U)
  BY DEF Size, Library!Cardinality, Cardinality
<1>2. IsFiniteSet(S)
  BY VideosAre, FS_Subset
<1>3. Cardinality(S) \in Nat
  BY <1>2, FS_CardinalityType
<1>4. ASSUME NEW v \in Videos, v \in S PROVE Cardinality(S) >= 1 /\ Cardinality(S \ {v}) = Cardinality(S) - 1
  <2>1. IsFiniteSet(S \ {v}) /\ Cardinality(S \ {v}) = Cardinality(S) - 1
    BY <1>2, <1>4, FS_RemoveElement
  <2>2. Cardinality(S \ {v}) \in Nat
    BY <2>1, FS_CardinalityType
  <2>3. QED
    BY <1>3, <2>1, <2>2
<1>5. ASSUME NEW v \in Videos, v \notin S PROVE Cardinality(S \cup {v}) = Cardinality(S) + 1
  BY <1>2, <1>5, FS_AddElement
<1>6. QED
  BY <1>1, <1>3, <1>4, <1>5

LEMMA LibraryInitOK == Library!Init => LibraryInv
<1> SUFFICES ASSUME Library!Init PROVE LibraryInv
  OBVIOUS
<1>1. /\ status = [v \in Videos |-> "none"]
      /\ recent = {} /\ feed = {} /\ blocked = {} /\ death = {} /\ due = {} /\ blocking = 0
      /\ counts = [active |-> 0, feed |-> 0, blocked |-> 0, death |-> 0, dirty |-> FALSE]
      /\ liveness = [phase |-> "base", cursor |-> 0, upper |-> 0, locked |-> FALSE]
      /\ run = [at |-> "idle", phase |-> "base", cursor |-> 0, upper |-> 0, row |-> 0, moves |-> 0]
      /\ storing = [at |-> "idle", items |-> {}]
  BY DEF Library!Init, Library!Idle, Library!NotStoring
<1>2. settled \in BOOLEAN
  BY Zenon DEF Library!Init
<1>3. LibraryTypes
  <2>1. counts \in Counts
    BY <1>1 DEF Counts
  <2>2. liveness \in Liveness
    BY <1>1 DEF Liveness, Phases
  <2>3. run \in Runs
    BY <1>1 DEF Runs, Phases
  <2>4. storing \in Storing
    BY <1>1 DEF Storing
  <2>5. status \in [Videos -> Statuses]
    BY <1>1 DEF Statuses
  <2>6. QED
    BY <1>1, <1>2, <2>1, <2>2, <2>3, <2>4, <2>5 DEF LibraryTypes
<1>4. ListsOK /\ RunOK /\ DueOK
  BY <1>1 DEF ListsOK, RunOK, DueOK
<1>5. Size({}) = 0
  <2>1. Size({}) = Cardinality({})
    BY DEF Size, Library!Cardinality, Cardinality
  <2>2. QED
    BY <2>1, FS_EmptySet
<1>6. ActiveIn(status) = {}
  BY <1>1 DEF ActiveIn
<1>7. CountsOK
  BY <1>1, <1>5, <1>6 DEF CountsOK
<1>8. QED
  BY <1>3, <1>4, <1>7 DEF LibraryInv

\* Places are positive, and of the rows the monitor looks at one comes first.
LEMMA PlacesAre ==
    ASSUME NEW phase \in Phases, NEW v \in Videos
    PROVE  /\ Library!PlaceOf(phase, v) \in Nat
           /\ \A w \in Videos : Library!PlaceOf(phase, v) = Library!PlaceOf(phase, w) => v = w
BY VideosAre DEF Library!PlaceOf, Phases

LEMMA RowsAre ==
    ASSUME LibraryInv, NEW phase \in Phases
    PROVE  Library!Rows(phase) \subseteq Videos
BY DEF Library!Rows, Library!Eligible, Library!Active, LibraryInv, LibraryTypes

LEMMA FirstRow ==
    ASSUME NEW phase \in Phases, NEW upper \in Nat, NEW R \in SUBSET Videos, R # {},
           \A v \in R : Library!PlaceOf(phase, v) <= upper
    PROVE  \E v \in R : \A w \in R : Library!PlaceOf(phase, v) <= Library!PlaceOf(phase, w)
<1> DEFINE B == {Library!PlaceOf(phase, v) : v \in R}
<1>1. B \in SUBSET (0 .. upper) /\ B # {}
  BY PlacesAre
<1>2. PICK k \in B : \A m \in B : k <= m
  BY <1>1, SmallestUpTo
<1>3. QED
  BY <1>2

\* The snapshot of a phase is a number.
LEMMA SnapshotIs ==
    ASSUME LibraryInv, NEW phase \in Phases
    PROVE  Library!PhaseSnapshot(phase) \in Nat
<1>1. ASSUME NEW S \in SUBSET Nat, IsFiniteSet(S), S # {} PROVE Library!Max(S) \in Nat
  <2>1. \E x \in S : \A y \in S : x >= y
    BY <1>1, LargestOf
  <2>2. QED
    BY <2>1 DEF Library!Max
<1>2. Library!Max(Library!Stored \cup {0}) \in Nat
  <2>1. IsFiniteSet(Library!Stored)
    BY VideosAre, FS_Subset DEF Library!Stored
  <2>2. IsFiniteSet(Library!Stored \cup {0}) /\ Library!Stored \cup {0} \in SUBSET Nat
    <3>1. IsFiniteSet(Library!Stored \cup {0})
      BY <2>1, FS_AddElement
    <3>2. Library!Stored \subseteq Videos
      BY DEF Library!Stored
    <3>3. QED
      BY <3>1, <3>2, VideosAre
  <2>3. QED
    BY <1>1, <2>2
<1>3. Library!Max({KeyOf[v] : v \in death} \cup {0}) \in Nat
  <2> DEFINE K == {KeyOf[v] : v \in death}
  <2>1. IsFiniteSet(death) /\ death \subseteq Videos
    BY VideosAre, FS_Subset DEF LibraryInv, LibraryTypes
  <2>2. IsFiniteSet(K)
    <3> DEFINE f == [v \in death |-> KeyOf[v]]
    <3>1. f \in Surjection(death, K)
      BY DEF Surjection
    <3>2. QED
      BY <2>1, <3>1, FS_Surjection
  <2>3. K \in SUBSET Nat
    BY <2>1, VideosAre
  <2> HIDE DEF K
  <2>4. IsFiniteSet(K \cup {0}) /\ K \cup {0} \in SUBSET Nat
    BY <2>2, <2>3, FS_AddElement
  <2>5. Library!Max(K \cup {0}) \in Nat
    BY <1>1, <2>4
  <2>6. QED
    BY <2>5 DEF K
<1>4. QED
  BY <1>2, <1>3 DEF Library!PhaseSnapshot, Library!MaxVideoId, Library!MaxDeathKey

\* What an invocation that leaves a part of the library alone keeps.
LEMMA ListsRest ==
    ASSUME LibraryInv, UNCHANGED <<status, feed, blocked, death>>
    PROVE  ListsOK'
BY DEF LibraryInv, ListsOK

LEMMA RowsRest ==
    ASSUME UNCHANGED <<status, blocked, death>>, NEW phase
    PROVE  Library!Rows(phase)' = Library!Rows(phase)
BY DEF Library!Rows, Library!Eligible, Library!Active, Library!Excluded

LEMMA CountsRest ==
    ASSUME LibraryInv, UNCHANGED <<status, feed, blocked, death, counts, settled>>
    PROVE  CountsOK'
BY DEF LibraryInv, CountsOK, Size, ActiveIn

LEMMA WithinIs ==
    ASSUME NEW phase, NEW cur, NEW up
    PROVE  Library!Within(phase, cur, up) =
             {v \in Library!Rows(phase) : /\ Library!PlaceOf(phase, v) > cur
                                          /\ Library!PlaceOf(phase, v) <= up}
BY DEF Library!Within

-----------------------------------------------------------------------------
\* A run begins where the last one was recorded, or with a snapshot.
LEMMA AcquiringOK ==
    ASSUME LibraryInv, Library!AcquireRunState
    PROVE  LibraryInv'
<1> DEFINE fresh == liveness.upper = 0
           up == IF fresh THEN Library!PhaseSnapshot(liveness.phase) ELSE liveness.upper
           cur == IF fresh THEN 0 ELSE liveness.cursor
           ph == liveness.phase
<1>1. /\ run.at = "idle"
      /\ liveness' = [liveness EXCEPT !.locked = TRUE, !.cursor = cur, !.upper = up]
      /\ run' = [at |-> "loop", phase |-> ph, cursor |-> cur, upper |-> up, row |-> 0, moves |-> 0]
      /\ due' = IF fresh THEN Library!Within(ph, 0, up) ELSE due
      /\ UNCHANGED <<status, recent, feed, blocked, death, counts, blocking, storing, settled>>
  BY DEF Library!AcquireRunState, Library!tables
<1>2. liveness \in Liveness /\ ph \in Phases /\ liveness.cursor \in Nat /\ liveness.upper \in Nat
  BY DEF LibraryInv, LibraryTypes, Liveness
<1>3. cur \in Nat /\ up \in Nat
  BY <1>2, SnapshotIs
<1>4. ~fresh => cur = liveness.cursor /\ up = liveness.upper
  OBVIOUS
<1>5. fresh => cur = 0
  OBVIOUS
<1> HIDE DEF fresh, up, cur, ph
<1>6. /\ liveness' \in Liveness /\ liveness'.cursor = cur /\ liveness'.upper = up
      /\ liveness'.phase = liveness.phase
  BY <1>1, <1>2, <1>3 DEF Liveness
<1>7. run' \in Runs
  BY <1>1, <1>2, <1>3 DEF Runs
<1>8. due' \subseteq Videos
  BY <1>1, <1>2, RowsAre, WithinIs DEF LibraryInv, LibraryTypes
<1>9. LibraryTypes'
  BY <1>1, <1>6, <1>7, <1>8 DEF LibraryInv, LibraryTypes
<1>10. RunOK'
  BY <1>1, <1>6 DEF RunOK, ph
<1>11. DueOK'
  <2>1. \A p : Library!Rows(p)' = Library!Rows(p)
    BY <1>1, RowsRest
  <2>2. ASSUME NEW v \in due'
        PROVE  /\ v \in Library!Rows(ph) /\ Library!PlaceOf(ph, v) > cur
               /\ Library!PlaceOf(ph, v) <= up
    <3>1. CASE fresh
      BY <1>1, <1>5, <2>2, <3>1, WithinIs
    <3>2. CASE ~fresh
      BY <1>1, <1>4, <2>2, <3>2 DEF LibraryInv, DueOK, ph
    <3>3. QED
      BY <3>1, <3>2
  <2>3. run'.at = "loop" /\ liveness'.phase = ph
    BY <1>1, <1>6 DEF ph
  <2>4. \A v : Library!PlaceOf(ph, v)' = Library!PlaceOf(ph, v)
    BY <1>1 DEF Library!PlaceOf, ph
  <2>5. QED
    BY <1>6, <2>1, <2>2, <2>3 DEF DueOK, Library!PlaceOf
<1>12. QED
  BY <1>1, <1>9, <1>10, <1>11, ListsRest, CountsRest DEF LibraryInv

\* The first row after the cursor: every other video that is due comes later.
LEMMA SelectingOK ==
    ASSUME LibraryInv, Library!SelectRow
    PROVE  LibraryInv'
<1> DEFINE rows2 == Library!Within(run.phase, run.cursor, run.upper)
           first == CHOOSE v \in rows2 : \A w \in rows2 :
                        Library!PlaceOf(run.phase, v) <= Library!PlaceOf(run.phase, w)
<1>1. /\ run.at = "loop" /\ rows2 # {}
      /\ run' = [run EXCEPT !.at = "probing", !.row = first, !.cursor = Library!PlaceOf(run.phase, first)]
      /\ UNCHANGED <<status, recent, feed, blocked, death, counts, liveness, blocking, storing, due, settled>>
  BY DEF Library!SelectRow, Library!NoRows, Library!tables
<1>2. /\ run \in Runs /\ run.phase \in Phases /\ run.upper \in Nat /\ run.phase = liveness.phase
      /\ run.cursor = liveness.cursor /\ run.upper = liveness.upper
  BY <1>1 DEF LibraryInv, LibraryTypes, Runs, RunOK
<1>3. /\ rows2 \in SUBSET Videos /\ rows2 \subseteq Library!Rows(run.phase)
      /\ \A v \in rows2 : Library!PlaceOf(run.phase, v) <= run.upper
  BY <1>2, RowsAre, WithinIs
<1>4. due \subseteq rows2
  BY <1>2, WithinIs DEF LibraryInv, DueOK
<1> HIDE DEF rows2
<1>5. \E v \in rows2 : \A w \in rows2 : Library!PlaceOf(run.phase, v) <= Library!PlaceOf(run.phase, w)
  BY <1>1, <1>2, <1>3, FirstRow
<1>6. /\ first \in rows2
      /\ \A w \in rows2 : Library!PlaceOf(run.phase, first) <= Library!PlaceOf(run.phase, w)
  BY <1>5
<1> HIDE DEF first
<1> DEFINE place == Library!PlaceOf(run.phase, first)
<1>7. first \in Videos /\ place \in Nat
  BY <1>2, <1>3, <1>6, PlacesAre
<1>8. /\ run' \in Runs /\ run'.at = "probing" /\ run'.row = first /\ run'.cursor = place
      /\ run'.phase = run.phase /\ run'.upper = run.upper
  BY <1>1, <1>2, <1>7 DEF Runs
<1>9. LibraryTypes'
  BY <1>1, <1>8 DEF LibraryInv, LibraryTypes
<1>10. run.phase = "death" <=> first \in death
  <2>1. first \in Library!Rows(run.phase)
    BY <1>3, <1>6
  <2>2. QED
    BY <1>2, <2>1 DEF Library!Rows, Library!Eligible, Library!Excluded, Phases
<1>11. RunOK'
  <2>1. Library!PlaceOf(run'.phase, run'.row) = place
    BY <1>8
  <2>2. QED
    BY <1>1, <1>2, <1>7, <1>8, <1>10, <2>1 DEF RunOK, Library!PlaceOf
<1>12. DueOK'
  <2>1. \A p : Library!Rows(p)' = Library!Rows(p)
    BY <1>1, RowsRest
  <2>2. ASSUME NEW v \in due PROVE v = first \/ Library!PlaceOf(liveness.phase, v) > place
    <3>1. v \in rows2 /\ v \in Videos
      BY <1>3, <1>4
    <3>2. place <= Library!PlaceOf(run.phase, v) /\ Library!PlaceOf(run.phase, v) \in Nat
      BY <1>2, <1>6, <3>1, PlacesAre
    <3>3. v # first => Library!PlaceOf(run.phase, v) # place
      BY <1>2, <1>7, <3>1, PlacesAre
    <3>4. QED
      BY <1>2, <1>7, <3>2, <3>3
  <2> HIDE DEF place
  <2>3. \A v \in due : /\ v \in Library!Rows(liveness.phase)
                       /\ Library!PlaceOf(liveness.phase, v) > liveness.cursor
                       /\ Library!PlaceOf(liveness.phase, v) <= liveness.upper
    BY DEF LibraryInv, DueOK
  <2>4. liveness' = liveness /\ due' = due
    BY <1>1
  <2>5. QED
    BY <1>8, <2>1, <2>2, <2>3, <2>4 DEF DueOK, Library!PlaceOf
<1>13. QED
  BY <1>1, <1>9, <1>11, <1>12, ListsRest, CountsRest DEF LibraryInv

LEMMA TransitionOK ==
    ASSUME LibraryInv, Library!TransitionPhase
    PROVE  LibraryInv'
<1> DEFINE next == IF run.phase = "base" THEN "death" ELSE "base"
           up == Library!PhaseSnapshot(next)
           st == IF run.phase = "death" \/ run.moves = 1 THEN "ending" ELSE "loop"
<1>1. /\ run.at = "loop"
      /\ liveness' = [liveness EXCEPT !.phase = next, !.cursor = 0, !.upper = up]
      /\ run' = [run EXCEPT !.phase = next, !.cursor = 0, !.upper = up, !.moves = @ + 1, !.at = st]
      /\ due' = Library!Within(next, 0, up)
      /\ UNCHANGED <<status, recent, feed, blocked, death, counts, blocking, storing, settled>>
  BY DEF Library!TransitionPhase, Library!tables
<1>2. /\ liveness \in Liveness /\ run \in Runs
  BY DEF LibraryInv, LibraryTypes
<1>3. next \in Phases /\ st \in {"loop", "ending"}
  BY DEF Phases
<1>4. up \in Nat
  BY <1>3, SnapshotIs
<1> HIDE DEF next, up, st
<1>5. /\ liveness' \in Liveness /\ liveness'.phase = next /\ liveness'.cursor = 0
      /\ liveness'.upper = up
  BY <1>1, <1>2, <1>3, <1>4 DEF Liveness
<1>6. /\ run' \in Runs /\ run'.phase = next /\ run'.cursor = 0 /\ run'.upper = up /\ run'.at = st
  <2> DEFINE m == run.moves + 1
  <2>1. m \in Int
    BY <1>2 DEF Runs
  <2>2. run' = [run EXCEPT !.phase = next, !.cursor = 0, !.upper = up, !.moves = m, !.at = st]
    BY <1>1, <1>2 DEF Runs
  <2> HIDE DEF m
  <2>3. QED
    BY <1>2, <1>3, <1>4, <2>1, <2>2 DEF Runs
<1>7. due' \subseteq Videos
  BY <1>1, <1>3, RowsAre, WithinIs
<1>8. LibraryTypes'
  BY <1>1, <1>5, <1>6, <1>7 DEF LibraryInv, LibraryTypes
<1>9. RunOK'
  BY <1>3, <1>5, <1>6 DEF RunOK
<1>10. DueOK'
  <2>1. \A p : Library!Rows(p)' = Library!Rows(p)
    BY <1>1, RowsRest
  <2>2. \A v \in due' : /\ v \in Library!Rows(next) /\ Library!PlaceOf(next, v) > 0
                        /\ Library!PlaceOf(next, v) <= up
    BY <1>1, WithinIs
  <2>3. run'.at # "probing"
    BY <1>3, <1>6
  <2>4. QED
    BY <1>5, <1>6, <2>1, <2>2, <2>3 DEF DueOK, Library!PlaceOf
<1>11. QED
  BY <1>1, <1>8, <1>9, <1>10, ListsRest, CountsRest DEF LibraryInv

\* Counters by what is taken from a set, and by what is put into it.
LEMMA Taken ==
    ASSUME NEW S \in SUBSET Videos, NEW v \in Videos, NEW n \in Nat, NEW p \in BOOLEAN,
           p <=> v \in S
    PROVE  /\ Library!AtLeast0(n - Library!Only(p)) \in Nat
           /\ n = Size(S) => Library!AtLeast0(n - Library!Only(p)) = Size(S \ {v})
<1>1. CASE v \in S
  <2>1. Library!Only(p) = 1
    BY <1>1 DEF Library!Only
  <2>2. Size(S) >= 1 /\ Size(S \ {v}) = Size(S) - 1
    BY <1>1, Counting
  <2>3. QED
    BY <2>1, <2>2 DEF Library!AtLeast0
<1>2. CASE v \notin S
  <2>1. Library!Only(p) = 0 /\ S \ {v} = S
    BY <1>2 DEF Library!Only
  <2>2. QED
    BY <2>1 DEF Library!AtLeast0
<1>3. QED
  BY <1>1, <1>2

LEMMA Given ==
    ASSUME NEW S \in SUBSET Videos, NEW v \in Videos, NEW n \in Nat, NEW p \in BOOLEAN,
           p => v \notin S
    PROVE  /\ n + Library!Only(p) \in Nat
           /\ n = Size(S) => n + Library!Only(p) = Size(S \cup (IF p THEN {v} ELSE {}))
<1>1. CASE p
  <2>1. Library!Only(p) = 1
    BY <1>1 DEF Library!Only
  <2>2. Size(S \cup {v}) = Size(S) + 1
    BY <1>1, Counting
  <2>3. (IF p THEN {v} ELSE {}) = {v}
    BY <1>1
  <2>4. QED
    BY <2>1, <2>2, <2>3
<1>2. CASE ~p
  <2>1. Library!Only(p) = 0 /\ S \cup {} = S
    BY <1>2 DEF Library!Only
  <2>2. (IF p THEN {v} ELSE {}) = {}
    BY <1>2
  <2>3. QED
    BY <2>1, <2>2
<1>3. QED
  BY <1>1, <1>2

LEMMA ActiveMoves ==
    ASSUME LibraryTypes, NEW v \in Videos, NEW s \in Statuses
    PROVE  /\ [status EXCEPT ![v] = s] \in [Videos -> Statuses]
           /\ ActiveIn([status EXCEPT ![v] = s]) =
                IF s = "active" THEN ActiveIn(status) \cup {v} ELSE ActiveIn(status) \ {v}
           /\ ActiveIn(status) \in SUBSET Videos
BY DEF LibraryTypes, ActiveIn

\* What the run in progress probes is done with, and the rest is still to come.
LEMMA ProbedLeaves ==
    ASSUME LibraryInv, run.at = "probing", run' = [run EXCEPT !.at = "ending"],
           due' = due \ {run.row}, liveness' = liveness,
           \A v \in due \ {run.row} :
               v \in Library!Rows(liveness.phase) => v \in Library!Rows(liveness.phase)'
    PROVE  /\ run' \in Runs /\ due' \subseteq Videos /\ RunOK' /\ DueOK'
<1>1. run \in Runs
  BY DEF LibraryInv, LibraryTypes
<1>2. /\ run' \in Runs /\ run'.at = "ending" /\ run'.phase = run.phase /\ run'.cursor = run.cursor
      /\ run'.upper = run.upper
  BY <1>1 DEF Runs
<1>3. due' \subseteq Videos
  BY DEF LibraryInv, LibraryTypes
<1>4. RunOK'
  BY <1>2 DEF LibraryInv, RunOK
<1>5. ASSUME NEW v \in due'
      PROVE  /\ v \in Library!Rows(liveness.phase)'
             /\ Library!PlaceOf(liveness.phase, v) > liveness.cursor
             /\ Library!PlaceOf(liveness.phase, v) <= liveness.upper
             /\ Library!PlaceOf(liveness.phase, v) > run.cursor
  BY DEF LibraryInv, DueOK
<1>6. DueOK'
  BY <1>2, <1>5 DEF DueOK, Library!PlaceOf
<1>7. QED
  BY <1>2, <1>3, <1>4, <1>6

LEMMA ProbingOK ==
    ASSUME LibraryInv, NEW answer \in Library!Answers, Library!ApplyProbe(answer)
    PROVE  LibraryInv'
<1> DEFINE v == run.row
<1>1. /\ run.at = "probing" /\ run' = [run EXCEPT !.at = "ending"] /\ due' = due \ {v}
      /\ UNCHANGED <<liveness, blocking, storing, settled>>
      /\ run.phase = "base" => Library!BaseMutation(v, answer = "dead")
      /\ run.phase # "base" => Library!DeathMutation(v, answer = "alive")
  BY DEF Library!ApplyProbe
<1>2. /\ v \in Videos /\ (run.phase = "death" <=> v \in death) /\ run.phase = liveness.phase
      /\ run.phase \in Phases
  BY <1>1 DEF LibraryInv, RunOK, LibraryTypes, Runs
<1>3. LibraryTypes /\ ListsOK /\ CountsOK /\ DueOK
  BY DEF LibraryInv
<1>4. /\ counts \in Counts /\ counts.active \in Nat /\ counts.feed \in Nat
      /\ counts.blocked \in Nat /\ counts.death \in Nat
      /\ status \in [Videos -> Statuses] /\ death \in SUBSET Videos /\ feed \in SUBSET Videos
  BY <1>3 DEF LibraryTypes, Counts
<1> HIDE DEF v
<1>5. CASE run.phase = "base" /\ answer = "dead"
  <2> DEFINE p == Library!CountsAsActive(v)
             q == v \in feed
             a == Library!AtLeast0(counts.active - Library!Only(p))
             f == Library!AtLeast0(counts.feed - Library!Only(q))
             d == counts.death + 1
  <2>1. /\ death' = death \cup {v} /\ status' = [status EXCEPT ![v] = "dead"] /\ feed' = feed \ {v}
        /\ UNCHANGED <<recent, blocked>>
    BY <1>1, <1>5 DEF Library!BaseMutation
  <2>2. counts' = [counts EXCEPT !.active = a, !.feed = f, !.death = d]
    BY <1>1, <1>4, <1>5, Zenon DEF Library!BaseMutation
  <2>3. p \in BOOLEAN /\ q \in BOOLEAN
    BY DEF Library!CountsAsActive
  <2>4. (p <=> v \in ActiveIn(status)) /\ (q <=> v \in feed)
    BY <1>2 DEF Library!CountsAsActive, ActiveIn
  <2> HIDE DEF p, q
  <2>5. ActiveIn(status) \in SUBSET Videos /\ ActiveIn(status') = ActiveIn(status) \ {v}
        /\ status' \in [Videos -> Statuses]
    BY <1>2, <1>3, <2>1, ActiveMoves DEF Statuses
  <2>6. a \in Nat /\ (counts.active = Size(ActiveIn(status)) => a = Size(ActiveIn(status) \ {v}))
    <3> DEFINE before == ActiveIn(status)
    <3>1. before \in SUBSET Videos /\ (p <=> v \in before)
      BY <2>4, <2>5
    <3> HIDE DEF before
    <3>2. a \in Nat /\ (counts.active = Size(before) => a = Size(before \ {v}))
      <4>1. v \in Videos /\ counts.active \in Nat /\ p \in BOOLEAN
        BY <1>2, <1>4, <2>3
      <4> HIDE DEF a
      <4>2. Library!AtLeast0(counts.active - Library!Only(p)) \in Nat
        BY <3>1, <4>1, Taken
      <4>3. counts.active = Size(before) => Library!AtLeast0(counts.active - Library!Only(p)) = Size(before \ {v})
        BY <3>1, <4>1, Taken
      <4>4. QED
        BY <4>2, <4>3 DEF a
    <3>3. QED
      BY <3>2 DEF before
  <2>7. f \in Nat /\ (counts.feed = Size(feed) => f = Size(feed \ {v}))
    BY <1>2, <1>4, <2>3, <2>4, Taken
  <2>8. d \in Nat /\ (counts.death = Size(death) => d = Size(death \cup {v}))
    <3>1. v \notin death
      BY <1>2, <1>5
    <3>2. QED
      BY <1>2, <1>4, <3>1, Counting
  <2> HIDE DEF a, f, d
  <2>9. /\ counts' \in Counts /\ counts'.active = a /\ counts'.feed = f /\ counts'.death = d
        /\ counts'.blocked = counts.blocked
    BY <1>4, <2>2, <2>6, <2>7, <2>8 DEF Counts
  <2>10. CountsOK'
    BY <1>1, <1>3, <2>1, <2>5, <2>6, <2>7, <2>8, <2>9 DEF CountsOK, Size
  <2>11. \A w \in Videos : status'[w] = IF w = v THEN "dead" ELSE status[w]
    BY <1>4, <2>1
  <2>12. ListsOK'
    BY <1>2, <1>3, <2>1, <2>11 DEF ListsOK
  <2>13. \A w \in due \ {v} : w \in Library!Rows(liveness.phase) => w \in Library!Rows(liveness.phase)'
    BY <1>1, <1>2, <1>5, <2>1, <2>11 DEF Library!Rows, Library!Eligible, Library!Active, Library!Excluded
  <2>14. run' \in Runs /\ due' \subseteq Videos /\ RunOK' /\ DueOK'
    BY <1>1, <2>13, ProbedLeaves DEF v
  <2>15. LibraryTypes'
    BY <1>1, <1>2, <1>3, <2>1, <2>5, <2>9, <2>14 DEF LibraryTypes
  <2>16. QED
    BY <2>10, <2>12, <2>14, <2>15 DEF LibraryInv
<1>6. CASE run.phase # "base" /\ answer = "alive"
  <2> DEFINE s == IF v \in blocked THEN "hidden" ELSE "active"
             p == s = "active"
             back == IF Library!Restored(v, s) = 1 THEN {v} ELSE {}
             q == v \in feed \cup back
             a == counts.active + Library!Only(p)
             f == counts.feed + Library!Only(q)
             d == Library!AtLeast0(counts.death - 1)
  <2>1. /\ death' = death \ {v} /\ status' = [status EXCEPT ![v] = s] /\ feed' = feed \cup back
        /\ UNCHANGED <<recent, blocked>>
    BY <1>1, <1>6 DEF Library!DeathMutation
  <2>2. counts' = [counts EXCEPT !.active = a, !.feed = f, !.death = d]
    BY <1>1, <1>4, <1>6, Zenon DEF Library!DeathMutation
  <2>3. v \in death /\ v \notin feed /\ v \notin ActiveIn(status) /\ run.phase = "death"
    BY <1>2, <1>3, <1>6 DEF ListsOK, ActiveIn, Phases
  <2>4. s \in {"hidden", "active"} /\ (back = {} \/ (back = {v} /\ s = "active"))
    BY DEF Library!Restored, Library!Only
  <2>5. p \in BOOLEAN /\ q \in BOOLEAN /\ (q <=> back = {v}) /\ (p <=> s = "active")
    BY <2>3, <2>4
  <2>6. v \in blocked => s = "hidden"
    OBVIOUS
  <2> HIDE DEF s, p, q, back
  <2>7. /\ ActiveIn(status) \in SUBSET Videos /\ status' \in [Videos -> Statuses]
        /\ ActiveIn(status') = ActiveIn(status) \cup (IF p THEN {v} ELSE {})
    <3>1. s \in Statuses
      BY <2>4 DEF Statuses
    <3>2. /\ ActiveIn(status) \in SUBSET Videos /\ status' \in [Videos -> Statuses]
          /\ ActiveIn(status') = IF s = "active" THEN ActiveIn(status) \cup {v} ELSE ActiveIn(status) \ {v}
      BY <1>2, <1>3, <2>1, <3>1, ActiveMoves
    <3>3. CASE p
      BY <2>5, <3>2, <3>3
    <3>4. CASE ~p
      BY <2>3, <2>5, <3>2, <3>4
    <3>5. QED
      BY <3>3, <3>4
  <2>8. a \in Nat /\ (counts.active = Size(ActiveIn(status)) => a = Size(ActiveIn(status')))
    <3> DEFINE before == ActiveIn(status)
    <3>1. before \in SUBSET Videos /\ (p => v \notin before) /\ ActiveIn(status') = before \cup (IF p THEN {v} ELSE {})
      BY <2>3, <2>7
    <3> HIDE DEF before
    <3>2. a \in Nat /\ (counts.active = Size(before) => a = Size(before \cup (IF p THEN {v} ELSE {})))
      <4>1. v \in Videos /\ counts.active \in Nat /\ p \in BOOLEAN
        BY <1>2, <1>4, <2>5
      <4> HIDE DEF a
      <4>2. counts.active + Library!Only(p) \in Nat
        BY <3>1, <4>1, Given
      <4>3. counts.active = Size(before) => counts.active + Library!Only(p) = Size(before \cup (IF p THEN {v} ELSE {}))
        BY <3>1, <4>1, Given
      <4>4. QED
        BY <4>2, <4>3 DEF a
    <3>3. QED
      BY <3>1, <3>2 DEF before
  <2>9. f \in Nat /\ (counts.feed = Size(feed) => f = Size(feed'))
    <3>1. feed' = feed \cup (IF q THEN {v} ELSE {})
      BY <2>1, <2>4, <2>5
    <3>2. QED
      BY <1>2, <1>4, <2>3, <2>5, <3>1, Given
  <2>10. d \in Nat /\ (counts.death = Size(death) => d = Size(death \ {v}))
    BY <1>2, <1>4, <2>3, Counting DEF Library!AtLeast0
  <2> HIDE DEF a, f, d
  <2>11. /\ counts' \in Counts /\ counts'.active = a /\ counts'.feed = f /\ counts'.death = d
         /\ counts'.blocked = counts.blocked
    BY <1>4, <2>2, <2>8, <2>9, <2>10 DEF Counts
  <2>12. CountsOK'
    BY <1>1, <1>3, <2>1, <2>8, <2>9, <2>10, <2>11 DEF CountsOK, Size, ActiveIn
  <2>13. \A w \in Videos : status'[w] = IF w = v THEN s ELSE status[w]
    BY <1>4, <2>1
  <2>14. ListsOK'
    BY <1>2, <1>3, <2>1, <2>3, <2>4, <2>6, <2>13 DEF ListsOK
  <2>15. \A w \in due \ {v} : w \in Library!Rows(liveness.phase) => w \in Library!Rows(liveness.phase)'
    BY <1>1, <1>2, <1>6, <2>1 DEF Library!Rows
  <2>16. run' \in Runs /\ due' \subseteq Videos /\ RunOK' /\ DueOK'
    BY <1>1, <2>15, ProbedLeaves DEF v
  <2>17. LibraryTypes'
    <3>1. feed' \subseteq Videos /\ death' \subseteq Videos
      BY <1>2, <1>4, <2>1, <2>4
    <3>2. QED
      BY <1>1, <1>3, <2>1, <2>7, <2>11, <2>16, <3>1 DEF LibraryTypes
  <2>18. QED
    BY <2>12, <2>14, <2>16, <2>17 DEF LibraryInv
<1>7. CASE ~(run.phase = "base" /\ answer = "dead") /\ ~(run.phase # "base" /\ answer = "alive")
  <2>1. UNCHANGED <<status, recent, feed, blocked, death, counts>>
    BY <1>1, <1>7 DEF Library!BaseMutation, Library!DeathMutation
  <2>2. \A p : Library!Rows(p)' = Library!Rows(p)
    BY <2>1, RowsRest
  <2>3. Library!Rows(liveness.phase)' = Library!Rows(liveness.phase)
    BY <1>1, <2>1 DEF Library!Rows, Library!Eligible, Library!Active, Library!Excluded
  <2>4. run' \in Runs /\ due' \subseteq Videos /\ RunOK' /\ DueOK'
    BY <1>1, <2>3, ProbedLeaves DEF v
  <2>5. LibraryTypes'
    BY <1>1, <1>3, <2>1, <2>4 DEF LibraryTypes
  <2>6. QED
    BY <1>1, <2>1, <2>4, <2>5, ListsRest, CountsRest DEF LibraryInv
<1>8. QED
  BY <1>5, <1>6, <1>7

\* The end of a run records its place, unless an error undoes it or the record is lost.
LEMMA RunEndsOK ==
    ASSUME LibraryInv,
           \/ \E error \in BOOLEAN : Library!RecordRun(error)
           \/ \E released \in BOOLEAN : Library!RunLost(released)
           \/ Library!LockExpires
    PROVE  LibraryInv'
<1>1. /\ UNCHANGED <<status, recent, feed, blocked, death, counts, blocking, storing, due, settled>>
      /\ run' = Library!Idle \/ (run' = run /\ run.at = "idle")
  BY DEF Library!RecordRun, Library!RunLost, Library!LockExpires, Library!tables
<1>2. liveness \in Liveness /\ run \in Runs
  BY DEF LibraryInv, LibraryTypes
<1>3. run' \in Runs /\ run'.at = "idle"
  BY <1>1, <1>2 DEF Library!Idle, Runs, Phases
<1>4. /\ liveness' \in Liveness /\ liveness'.phase = liveness.phase /\ liveness'.upper = liveness.upper
      /\ \/ liveness'.cursor = liveness.cursor
         \/ liveness'.cursor = run.cursor /\ run.at = "ending"
  <2>1. ASSUME NEW error \in BOOLEAN, Library!RecordRun(error)
        PROVE  <1>4!1 /\ <1>4!2
    <3>1. CASE error
      BY <1>2, <2>1, <3>1 DEF Library!RecordRun, Library!Progress, Liveness
    <3>2. CASE ~error
      <4>1. /\ run.at = "ending"
            /\ liveness' = [phase |-> run.phase, cursor |-> run.cursor, upper |-> run.upper, locked |-> FALSE]
        BY <2>1, <3>2 DEF Library!RecordRun, Library!Progress
      <4>2. run.phase = liveness.phase /\ run.upper = liveness.upper
        BY <4>1 DEF LibraryInv, RunOK
      <4>3. QED
        BY <1>2, <4>1, <4>2 DEF Liveness, Runs
    <3>3. QED
      BY <3>1, <3>2
  <2>2. ASSUME NEW b \in BOOLEAN, liveness' = [liveness EXCEPT !.locked = b]
        PROVE  <1>4!1 /\ <1>4!2
    BY <1>2, <2>2 DEF Liveness
  <2>3. ASSUME NEW released \in BOOLEAN, Library!RunLost(released) PROVE <1>4!1 /\ <1>4!2
    <3> DEFINE b == ~released
    <3>1. b \in BOOLEAN /\ liveness' = [liveness EXCEPT !.locked = b]
      BY <2>3, Zenon DEF Library!RunLost
    <3> HIDE DEF b
    <3>2. QED
      BY <2>2, <3>1
  <2>4. CASE Library!LockExpires
    BY <2>2, <2>4 DEF Library!LockExpires
  <2>5. QED
    BY <2>1, <2>3, <2>4
<1>5. LibraryTypes'
  BY <1>1, <1>3, <1>4 DEF LibraryInv, LibraryTypes
<1>6. RunOK'
  BY <1>3 DEF RunOK
<1>7. DueOK'
  <2>1. Library!Rows(liveness.phase)' = Library!Rows(liveness.phase)
    BY <1>1, <1>4 DEF Library!Rows, Library!Eligible, Library!Active, Library!Excluded
  <2>2. ASSUME NEW v \in due
        PROVE  /\ Library!PlaceOf(liveness.phase, v) > liveness'.cursor
               /\ Library!PlaceOf(liveness.phase, v) <= liveness.upper
               /\ v \in Library!Rows(liveness.phase)
    BY <1>4 DEF LibraryInv, DueOK
  <2>3. QED
    BY <1>1, <1>3, <1>4, <2>1, <2>2 DEF DueOK, Library!PlaceOf
<1>8. QED
  BY <1>1, <1>5, <1>6, <1>7, ListsRest, CountsRest DEF LibraryInv

\* What concerns neither the monitor nor the tables it reads.
LEMMA MonitorRests ==
    ASSUME LibraryInv, UNCHANGED <<liveness, run, due>>,
           \A v \in Videos : v \in death <=> v \in death',
           \A v \in due : v \in Library!Rows(liveness.phase)' \/ v \notin Library!Rows(liveness.phase)
    PROVE  RunOK' /\ DueOK'
<1>1. RunOK'
  BY DEF LibraryInv, RunOK, Library!PlaceOf
<1>2. DueOK'
  BY DEF LibraryInv, DueOK, Library!PlaceOf
<1>3. QED
  BY <1>1, <1>2

LEMMA BesidesOK ==
    ASSUME LibraryInv,
           \/ \E v \in Videos : Library!BlockRead(v) \/ Library!Ages(v)
           \/ Library!BlockAbandoned \/ Library!StoringStops
           \/ \E items \in SUBSET Videos \ {{}} : Library!FilterItems(items)
    PROVE  LibraryInv'
<1>1. UNCHANGED <<status, feed, blocked, death, counts, liveness, run, due, settled>>
  BY DEF Library!BlockRead, Library!Ages, Library!BlockAbandoned, Library!StoringStops,
         Library!FilterItems, Library!tables
<1>2. /\ recent' \subseteq Videos /\ blocking' \in Videos \cup {0} /\ storing' \in Storing
  <2>1. recent \subseteq Videos /\ blocking \in Videos \cup {0} /\ storing \in Storing
    BY DEF LibraryInv, LibraryTypes
  <2>2. CASE \E v \in Videos : Library!BlockRead(v) \/ Library!Ages(v)
    BY <2>1, <2>2 DEF Library!BlockRead, Library!Ages, Library!tables
  <2>3. CASE Library!BlockAbandoned \/ Library!StoringStops
    BY <2>1, <2>3 DEF Library!BlockAbandoned, Library!StoringStops, Library!NotStoring, Storing,
                      Library!tables
  <2>4. CASE \E items \in SUBSET Videos \ {{}} : Library!FilterItems(items)
    BY <2>1, <2>4 DEF Library!FilterItems, Storing, Library!tables
  <2>5. QED
    BY <2>2, <2>3, <2>4
<1>3. LibraryTypes'
  BY <1>1, <1>2 DEF LibraryInv, LibraryTypes
<1>4. Library!Rows(liveness.phase)' = Library!Rows(liveness.phase)
  BY <1>1 DEF Library!Rows, Library!Eligible, Library!Active, Library!Excluded
<1>5. RunOK' /\ DueOK'
  BY <1>1, <1>4, MonitorRests
<1>6. QED
  BY <1>1, <1>3, <1>5, ListsRest, CountsRest DEF LibraryInv

\* A video is blocked, wherever it is by now.
LEMMA BlockingOK ==
    ASSUME LibraryInv, Library!BlockWrite
    PROVE  LibraryInv'
<1> DEFINE v == blocking
           p == status[v] = "active"
           q == v \in feed
           a == Library!AtLeast0(counts.active - Library!Only(p))
           f == Library!AtLeast0(counts.feed - Library!Only(q))
           b == counts.blocked + 1
<1>1. /\ v # 0 /\ blocked' = blocked \cup {v} /\ feed' = feed \ {v} /\ blocking' = 0
      /\ status' = [status EXCEPT ![v] = "hidden"]
      /\ due' = due \ (IF liveness.phase = "base" THEN {v} ELSE {})
      /\ UNCHANGED <<recent, death, liveness, run, storing, settled>>
  BY DEF Library!BlockWrite
<1>2. \/ v \in blocked /\ counts' = counts
      \/ v \notin blocked /\ counts' = [counts EXCEPT !.active = a, !.feed = f, !.blocked = b]
  BY Zenon DEF Library!BlockWrite
<1>3. v \in Videos
  BY <1>1 DEF LibraryInv, LibraryTypes
<1>4. LibraryTypes /\ ListsOK /\ CountsOK /\ DueOK /\ RunOK
  BY DEF LibraryInv
<1>5. /\ counts \in Counts /\ counts.active \in Nat /\ counts.feed \in Nat
      /\ counts.blocked \in Nat /\ counts.death \in Nat
      /\ status \in [Videos -> Statuses] /\ blocked \in SUBSET Videos /\ feed \in SUBSET Videos
  BY <1>4 DEF LibraryTypes, Counts
<1>6. (p <=> v \in ActiveIn(status)) /\ (q <=> v \in feed) /\ p \in BOOLEAN /\ q \in BOOLEAN
  BY <1>3 DEF ActiveIn
<1> HIDE DEF v, p, q
<1>7. /\ ActiveIn(status) \in SUBSET Videos /\ ActiveIn(status') = ActiveIn(status) \ {v}
      /\ status' \in [Videos -> Statuses]
  BY <1>1, <1>3, <1>4, ActiveMoves DEF Statuses
<1>8. v \in blocked => /\ ActiveIn(status) \ {v} = ActiveIn(status) /\ feed \ {v} = feed
                       /\ blocked \cup {v} = blocked
  BY <1>3, <1>4 DEF ListsOK, ActiveIn
<1>9. a \in Nat /\ (counts.active = Size(ActiveIn(status)) => a = Size(ActiveIn(status) \ {v}))
  <2> DEFINE before == ActiveIn(status)
  <2>1. before \in SUBSET Videos /\ (p <=> v \in before) /\ counts.active \in Nat /\ p \in BOOLEAN
    BY <1>5, <1>6, <1>7
  <2> HIDE DEF before, a
  <2>2. Library!AtLeast0(counts.active - Library!Only(p)) \in Nat
    BY <1>3, <2>1, Taken
  <2>3. counts.active = Size(before) => Library!AtLeast0(counts.active - Library!Only(p)) = Size(before \ {v})
    BY <1>3, <2>1, Taken
  <2>4. QED
    BY <2>2, <2>3 DEF a, before
<1>10. f \in Nat /\ (counts.feed = Size(feed) => f = Size(feed \ {v}))
  BY <1>3, <1>5, <1>6, Taken
<1>11. v \notin blocked => b \in Nat /\ (counts.blocked = Size(blocked) => b = Size(blocked \cup {v}))
  BY <1>3, <1>5, Counting
<1> HIDE DEF a, f, b
<1>12. counts' \in Counts /\ CountsOK'
  <2>1. CASE v \in blocked /\ counts' = counts
    <3>1. /\ Size(ActiveIn(status'))= Size(ActiveIn(status)) /\ Size(feed') = Size(feed)
          /\ Size(blocked') = Size(blocked)
      BY <1>1, <1>7, <1>8, <2>1
    <3>2. QED
      BY <1>1, <1>4, <1>5, <2>1, <3>1 DEF CountsOK, Size, ActiveIn
  <2>2. CASE v \notin blocked /\ counts' = [counts EXCEPT !.active = a, !.feed = f, !.blocked = b]
    <3>1. /\ counts' \in Counts /\ counts'.active = a /\ counts'.feed = f /\ counts'.blocked = b
          /\ counts'.death = counts.death
      BY <1>5, <1>9, <1>10, <1>11, <2>2 DEF Counts
    <3>2. QED
      BY <1>1, <1>4, <1>7, <1>9, <1>10, <1>11, <2>2, <3>1 DEF CountsOK, Size, ActiveIn
  <2>3. QED
    BY <1>2, <2>1, <2>2
<1>13. \A w \in Videos : status'[w] = IF w = v THEN "hidden" ELSE status[w]
  BY <1>1, <1>5
<1>14. ListsOK'
  BY <1>1, <1>3, <1>4, <1>13 DEF ListsOK
<1>15. RunOK'
  BY <1>1, <1>4 DEF RunOK, Library!PlaceOf
<1>16. DueOK'
  <2>1. ASSUME NEW w \in due' PROVE w \in Library!Rows(liveness.phase)'
    <3>1. w \in due /\ w \in Library!Rows(liveness.phase) /\ w \in Videos
      BY <1>1, <1>4 DEF DueOK, LibraryTypes
    <3>2. CASE liveness.phase = "base"
      <4>1. w # v
        BY <1>1, <2>1, <3>2
      <4>2. QED
        BY <1>1, <1>13, <3>1, <3>2, <4>1 DEF Library!Rows, Library!Eligible, Library!Active, Library!Excluded
    <3>3. CASE liveness.phase # "base"
      BY <1>1, <3>1, <3>3 DEF Library!Rows
    <3>4. QED
      BY <3>2, <3>3
  <2>2. due' \subseteq due
    BY <1>1
  <2>3. QED
    BY <1>1, <1>4, <2>1, <2>2 DEF DueOK, Library!PlaceOf
<1>17. LibraryTypes'
  BY <1>1, <1>3, <1>4, <1>7, <1>12 DEF LibraryTypes
<1>18. QED
  BY <1>12, <1>14, <1>15, <1>16, <1>17 DEF LibraryInv

\* An operator takes a video off the blocklist: it was not in the feed, and comes back to
\* the active ones unless it is on the death list as well.
LEMMA UnblockingOK ==
    ASSUME LibraryInv, NEW v \in Videos, Library!Unblock(v)
    PROVE  LibraryInv'
<1> DEFINE back == status[v] = "hidden" /\ v \notin death
           a == counts.active + Library!Only(back)
           f == counts.feed + Library!Only(back /\ v \in feed)
           b == Library!AtLeast0(counts.blocked - 1)
<1>1. /\ v \in blocked /\ blocked' = blocked \ {v}
      /\ status' = IF back THEN [status EXCEPT ![v] = "active"] ELSE status
      /\ UNCHANGED <<recent, feed, death, liveness, run, blocking, storing, due, settled>>
  BY DEF Library!Unblock
<1>2. counts' = [counts EXCEPT !.active = a, !.feed = f, !.blocked = b, !.dirty = TRUE]
  BY Zenon DEF Library!Unblock
<1>3. LibraryTypes /\ ListsOK /\ CountsOK /\ DueOK /\ RunOK
  BY DEF LibraryInv
<1>4. /\ counts \in Counts /\ counts.active \in Nat /\ counts.feed \in Nat
      /\ counts.blocked \in Nat /\ counts.death \in Nat
      /\ status \in [Videos -> Statuses] /\ blocked \in SUBSET Videos /\ feed \in SUBSET Videos
  BY <1>3 DEF LibraryTypes, Counts
<1>5. v \notin feed /\ v \notin ActiveIn(status)
  BY <1>1, <1>3 DEF ListsOK, ActiveIn
<1>6. back \in BOOLEAN /\ (back <=> status[v] = "hidden" /\ v \notin death)
  OBVIOUS
<1>7. f = counts.feed
  <2>1. Library!Only(back /\ v \in feed) = 0
    BY <1>5 DEF Library!Only
  <2>2. QED
    BY <1>4, <2>1
<1> HIDE DEF back
<1>8. /\ ActiveIn(status) \in SUBSET Videos /\ status' \in [Videos -> Statuses]
      /\ ActiveIn(status') = ActiveIn(status) \cup (IF back THEN {v} ELSE {})
  BY <1>1, <1>3, <1>4, ActiveMoves DEF Statuses
<1>9. a \in Nat /\ (counts.active = Size(ActiveIn(status)) => a = Size(ActiveIn(status')))
  <2> DEFINE before == ActiveIn(status)
  <2>1. /\ before \in SUBSET Videos /\ v \notin before /\ counts.active \in Nat /\ back \in BOOLEAN
        /\ ActiveIn(status') = before \cup (IF back THEN {v} ELSE {})
    BY <1>4, <1>5, <1>6, <1>8
  <2> HIDE DEF before, a
  <2>2. counts.active + Library!Only(back) \in Nat
    BY <2>1, Given
  <2>3. counts.active = Size(before) => counts.active + Library!Only(back)
                                          = Size(before \cup (IF back THEN {v} ELSE {}))
    BY <2>1, Given
  <2>4. QED
    BY <2>1, <2>2, <2>3 DEF a, before
<1>10. b \in Nat /\ (counts.blocked = Size(blocked) => b = Size(blocked \ {v}))
  BY <1>1, <1>4, Counting DEF Library!AtLeast0
<1> HIDE DEF a, f, b
<1>11. /\ counts' \in Counts /\ counts'.active = a /\ counts'.feed = counts.feed /\ counts'.blocked = b
       /\ counts'.death = counts.death
  BY <1>2, <1>4, <1>7, <1>9, <1>10 DEF Counts
<1>12. CountsOK'
  BY <1>1, <1>3, <1>8, <1>9, <1>10, <1>11 DEF CountsOK, Size, ActiveIn
<1>13. \A w \in Videos : status'[w] = IF w = v /\ back THEN "active" ELSE status[w]
  BY <1>1, <1>4
<1>14. ListsOK'
  BY <1>1, <1>3, <1>6, <1>13 DEF ListsOK
<1>15. \A w \in due : w \in Library!Rows(liveness.phase) => w \in Library!Rows(liveness.phase)'
  <2>1. due \subseteq Videos
    BY <1>3 DEF LibraryTypes
  <2>2. QED
    BY <1>1, <1>13, <2>1 DEF Library!Rows, Library!Eligible, Library!Active, Library!Excluded
<1>16. RunOK' /\ DueOK'
  BY <1>1, <1>15, MonitorRests
<1>17. LibraryTypes'
  BY <1>1, <1>3, <1>8, <1>11 DEF LibraryTypes
<1>18. QED
  BY <1>12, <1>14, <1>16, <1>17 DEF LibraryInv

\* A store makes active what is neither hidden nor dead; the lists are what they are now,
\* not what they were when they were read, because the status already says so.
LEMMA UpsertingOK ==
    ASSUME LibraryInv, Library!UpsertItems
    PROVE  LibraryInv'
<1> DEFINE same == Library!CountActive(status') = Library!CountActive(status)
<1>1. /\ status' = [v \in Videos |-> IF v \in storing.items THEN Library!UpsertedStatus(v) ELSE status[v]]
      /\ recent' = recent \cup storing.items
      /\ storing' = [at |-> "sync", items |-> {}]
      /\ UNCHANGED <<feed, blocked, death, counts, liveness, run, blocking, due>>
  BY DEF Library!UpsertItems
<1>2. settled' = (settled /\ same)
  BY Zenon DEF Library!UpsertItems
<1>3. LibraryTypes /\ ListsOK /\ CountsOK
  BY DEF LibraryInv
<1>4. storing.items \subseteq Videos /\ storing' \in Storing
  BY <1>1, <1>3 DEF LibraryTypes, Storing
<1>5. \A v \in Videos : \/ status'[v] = status[v]
                        \/ status'[v] = "dead" /\ v \in death /\ status[v] # "hidden"
                        \/ status'[v] = "active" /\ v \notin death /\ status[v] # "hidden"
  BY <1>1 DEF Library!UpsertedStatus
<1>6. status' \in [Videos -> Statuses]
  BY <1>1, <1>3 DEF LibraryTypes, Statuses, Library!UpsertedStatus
<1>7. settled' \in BOOLEAN
  <2>1. settled \in BOOLEAN
    BY <1>3 DEF LibraryTypes
  <2>2. QED
    BY <1>2, <2>1, Zenon
<1>8. settled' => settled /\ Size(ActiveIn(status')) = Size(ActiveIn(status))
  <2>1. settled' => settled /\ same
    BY <1>2, Zenon
  <2>2. same => Size(ActiveIn(status')) = Size(ActiveIn(status))
    BY DEF Library!CountActive, Size, ActiveIn
  <2>3. QED
    BY <2>1, <2>2
<1> HIDE DEF same
<1>9. CountsOK'
  BY <1>1, <1>3, <1>8 DEF CountsOK, Size, ActiveIn
<1>10. ListsOK'
  BY <1>1, <1>3, <1>5 DEF ListsOK
<1>11. \A w \in due : w \in Library!Rows(liveness.phase) => w \in Library!Rows(liveness.phase)'
  BY <1>1, <1>3, <1>5 DEF Library!Rows, Library!Eligible, Library!Active, Library!Excluded, LibraryTypes, ListsOK
<1>12. RunOK' /\ DueOK'
  BY <1>1, <1>11, MonitorRests
<1>13. LibraryTypes'
  BY <1>1, <1>3, <1>4, <1>6, <1>7 DEF LibraryTypes
<1>14. QED
  BY <1>9, <1>10, <1>12, <1>13 DEF LibraryInv

\* The feed is synchronised with the rows, or the counters with both.
LEMMA SettlingOK ==
    ASSUME LibraryInv,
           Library!SyncFeed \/ Library!RefreshStatusVideoCounts \/ Library!RefreshDirtyCounts
    PROVE  LibraryInv'
<1>1. LibraryTypes /\ ListsOK /\ CountsOK /\ counts \in Counts
  BY DEF LibraryInv, LibraryTypes
<1>2. UNCHANGED <<status, recent, blocked, death, liveness, run, blocking, due>>
  BY DEF Library!SyncFeed, Library!RefreshStatusVideoCounts, Library!RefreshDirtyCounts, Library!tables
<1>3. storing' \in Storing
  BY <1>1 DEF LibraryTypes, Storing, Library!SyncFeed, Library!RefreshStatusVideoCounts,
              Library!RefreshDirtyCounts, Library!NotStoring
<1>4. \A w \in due : w \in Library!Rows(liveness.phase) => w \in Library!Rows(liveness.phase)'
  BY <1>2, RowsRest DEF Library!Rows, Library!Eligible, Library!Active, Library!Excluded
<1>5. RunOK' /\ DueOK'
  BY <1>2, <1>4, MonitorRests
<1>6. CASE Library!SyncFeed
  <2> DEFINE same == Library!Cardinality(Library!Desired) = Library!Cardinality(feed)
  <2>1. feed' = Library!Desired /\ counts' = counts
    BY <1>6 DEF Library!SyncFeed
  <2>2. settled' = (settled /\ same)
    BY <1>6, Zenon DEF Library!SyncFeed
  <2>3. feed' \subseteq Videos /\ \A v \in feed' : status[v] = "active"
    BY <2>1 DEF Library!Desired, Library!Eligible, Library!Active
  <2>4. settled \in BOOLEAN
    BY <1>1 DEF LibraryTypes
  <2>5. settled' \in BOOLEAN /\ (settled' => settled /\ same)
    BY <2>2, <2>4, Zenon
  <2>6. same => Size(feed') = Size(feed)
    BY <2>1 DEF Size
  <2> HIDE DEF same
  <2>7. CountsOK'
    BY <1>1, <1>2, <2>1, <2>5, <2>6 DEF CountsOK, Size, ActiveIn
  <2>8. ListsOK'
    BY <1>1, <1>2, <2>3 DEF ListsOK
  <2>9. LibraryTypes'
    BY <1>1, <1>2, <1>3, <2>1, <2>3, <2>5 DEF LibraryTypes
  <2>10. QED
    BY <1>5, <2>7, <2>8, <2>9 DEF LibraryInv
<1>7. CASE Library!RefreshStatusVideoCounts \/ Library!RefreshDirtyCounts
  <2> DEFINE a == Size(ActiveIn(status))
             f == Size(feed)
             fresh == [counts EXCEPT !.active = a, !.feed = f]
  <2>1. Library!Recounted(counts, status, feed) = fresh
    BY DEF Library!Recounted, Library!CountActive, Size, ActiveIn
  <2>2. feed' = feed /\ settled' = TRUE
    BY <1>7 DEF Library!RefreshStatusVideoCounts, Library!RefreshDirtyCounts, Library!tables
  <2>3. \/ counts' = fresh
        \/ counts' = [fresh EXCEPT !.blocked = Size(blocked), !.death = Size(death), !.dirty = FALSE]
    <3>1. CASE Library!RefreshStatusVideoCounts
      BY <2>1, <3>1 DEF Library!RefreshStatusVideoCounts
    <3>2. CASE Library!RefreshDirtyCounts
      BY <2>1, <3>2 DEF Library!RefreshDirtyCounts, Size
    <3>3. QED
      BY <1>7, <3>1, <3>2
  <2>4. a \in Nat /\ f \in Nat /\ Size(blocked) \in Nat /\ Size(death) \in Nat
    <3>1. ActiveIn(status) \in SUBSET Videos
      BY DEF ActiveIn
    <3>2. QED
      BY <1>1, <3>1, Counting DEF LibraryTypes
  <2> HIDE DEF a, f
  <2>5. fresh \in Counts /\ fresh.active = a /\ fresh.feed = f /\ fresh.blocked = counts.blocked
        /\ fresh.death = counts.death
    BY <1>1, <2>4 DEF Counts
  <2> HIDE DEF fresh
  <2>6. /\ counts' \in Counts /\ counts'.active = a /\ counts'.feed = f
        /\ counts'.blocked = Size(blocked) /\ counts'.death = Size(death)
    <3>1. CASE counts' = fresh
      BY <1>1, <2>5, <3>1 DEF CountsOK
    <3>2. CASE counts' = [fresh EXCEPT !.blocked = Size(blocked), !.death = Size(death), !.dirty = FALSE]
      BY <2>4, <2>5, <3>2 DEF Counts
    <3>3. QED
      BY <2>3, <3>1, <3>2
  <2>7. CountsOK'
    BY <1>2, <2>2, <2>6 DEF CountsOK, Size, ActiveIn, a, f
  <2>8. ListsOK'
    BY <1>1, <1>2, <2>2 DEF ListsOK
  <2>9. LibraryTypes'
    BY <1>1, <1>2, <1>3, <2>2, <2>6 DEF LibraryTypes
  <2>10. QED
    BY <1>5, <2>7, <2>8, <2>9 DEF LibraryInv
<1>8. QED
  BY <1>6, <1>7

LEMMA LibraryNextOK == LibraryInv /\ [Library!Next]_libraryVars => LibraryInv'
<1> SUFFICES ASSUME LibraryInv, [Library!Next]_libraryVars PROVE LibraryInv'
  OBVIOUS
<1>1. CASE UNCHANGED libraryVars
  <2>1. UNCHANGED <<status, recent, feed, blocked, death, counts, liveness, run, blocking, storing, due, settled>>
    BY <1>1 DEF libraryVars
  <2>2. LibraryTypes'
    BY <2>1 DEF LibraryInv, LibraryTypes
  <2>3. \A w \in due : w \in Library!Rows(liveness.phase) => w \in Library!Rows(liveness.phase)'
    BY <2>1 DEF Library!Rows, Library!Eligible, Library!Active, Library!Excluded
  <2>4. RunOK' /\ DueOK'
    BY <2>1, <2>3, MonitorRests
  <2>5. QED
    BY <2>1, <2>2, <2>4, ListsRest, CountsRest DEF LibraryInv
<1>2. CASE Library!LivenessStep
  BY <1>2, AcquiringOK, SelectingOK, TransitionOK, ProbingOK, RunEndsOK DEF Library!LivenessStep
<1>3. CASE (\E released \in BOOLEAN : Library!RunLost(released)) \/ Library!LockExpires
  BY <1>3, RunEndsOK
<1>4. CASE \E v \in Videos : Library!BlockRead(v) \/ Library!Unblock(v) \/ Library!Ages(v)
  BY <1>4, BesidesOK, UnblockingOK
<1>5. CASE Library!BlockWrite
  BY <1>5, BlockingOK
<1>6. CASE Library!UpsertItems
  BY <1>6, UpsertingOK
<1>7. CASE Library!SyncFeed \/ Library!RefreshStatusVideoCounts \/ Library!RefreshDirtyCounts
  BY <1>7, SettlingOK
<1>8. CASE \/ Library!BlockAbandoned \/ Library!StoringStops
           \/ \E items \in SUBSET Videos \ {{}} : Library!FilterItems(items)
  BY <1>8, BesidesOK
<1>9. CASE Library!Next
  BY <1>2, <1>3, <1>4, <1>5, <1>6, <1>7, <1>8, <1>9, Zenon DEF Library!Next
<1>10. QED
  BY <1>1, <1>9

\* What is bounded in the library, beside its types.
LibraryBounds == run.moves \in 0 .. 2 /\ stores \in 0 .. MaxStores /\ outside \in 0 .. MaxOutside

LEMMA LibraryBoundsInit == Library!Init => LibraryBounds
BY LibraryAssumption DEF Library!VideosAssumption, Library!Init, Library!Idle, LibraryBounds

LEMMA RunStaysBounded ==
    ASSUME LibraryInv, LibraryBounds, Library!Next
    PROVE  run'.moves \in 0 .. 2
<1>1. run \in Runs /\ run.moves \in 0 .. 2
  BY DEF LibraryInv, LibraryTypes, LibraryBounds
<1>2. CASE UNCHANGED run
  BY <1>1, <1>2
<1>3. CASE Library!AcquireRunState
  <2>1. PICK p, c, u : run' = [at |-> "loop", phase |-> p, cursor |-> c, upper |-> u, row |-> 0, moves |-> 0]
    BY <1>3 DEF Library!AcquireRunState
  <2>2. QED
    BY <2>1
<1>4. CASE Library!SelectRow
  <2>1. PICK p, c : run' = [run EXCEPT !.at = "probing", !.row = p, !.cursor = c]
    BY <1>4 DEF Library!SelectRow
  <2>2. QED
    BY <1>1, <2>1 DEF Runs
<1>5. CASE Library!TransitionPhase
  <2>1. run.moves < 2 /\ run'.moves = run.moves + 1
    BY <1>1, <1>5 DEF Library!TransitionPhase, Runs
  <2>2. QED
    BY <1>1, <2>1
<1>6. ASSUME NEW a \in Library!Answers, Library!ApplyProbe(a) PROVE run'.moves \in 0 .. 2
  <2>1. run' = [run EXCEPT !.at = "ending"]
    BY <1>6, Zenon DEF Library!ApplyProbe
  <2>2. QED
    BY <1>1, <2>1 DEF Runs
<1>7. CASE run' = Library!Idle
  BY <1>7 DEF Library!Idle
<1>8. CASE Library!LivenessStep
  BY <1>3, <1>4, <1>5, <1>6, <1>7, <1>8, Zenon DEF Library!LivenessStep, Library!RecordRun
<1>9. CASE ~Library!LivenessStep
  <2>1. UNCHANGED run \/ run' = Library!Idle
    BY <1>9, Zenon DEF Library!Next, Library!RunLost, Library!LockExpires, Library!BlockRead, Library!Unblock,
       Library!Ages, Library!BlockWrite, Library!BlockAbandoned, Library!FilterItems, Library!UpsertItems,
       Library!SyncFeed, Library!RefreshStatusVideoCounts, Library!StoringStops, Library!RefreshDirtyCounts
  <2>2. QED
    BY <1>2, <1>7, <2>1
<1>10. QED
  BY <1>8, <1>9

LEMMA LibraryBoundsNext == LibraryInv /\ LibraryBounds /\ [Library!Next]_libraryVars => LibraryBounds'
<1> SUFFICES ASSUME LibraryInv, LibraryBounds, [Library!Next]_libraryVars PROVE LibraryBounds'
  OBVIOUS
<1>1. CASE UNCHANGED libraryVars
  BY <1>1 DEF libraryVars, LibraryBounds
<1>2. CASE Library!Next
  <2>1. UNCHANGED stores \/ (stores < MaxStores /\ stores' = stores + 1)
    <3>1. CASE Library!LivenessStep
      BY <3>1, Zenon DEF Library!LivenessStep, Library!AcquireRunState, Library!SelectRow,
         Library!TransitionPhase, Library!ApplyProbe, Library!RecordRun
    <3>2. QED
      BY <1>2, <3>1, Zenon DEF Library!Next, Library!RunLost, Library!LockExpires, Library!BlockRead,
         Library!Unblock, Library!Ages, Library!BlockWrite, Library!BlockAbandoned, Library!FilterItems,
         Library!UpsertItems, Library!SyncFeed, Library!RefreshStatusVideoCounts, Library!StoringStops,
         Library!RefreshDirtyCounts
  <2>2. UNCHANGED outside \/ Library!Outside
    <3>1. CASE Library!LivenessStep
      BY <3>1, Zenon DEF Library!LivenessStep, Library!AcquireRunState, Library!SelectRow,
         Library!TransitionPhase, Library!ApplyProbe, Library!RecordRun
    <3>2. QED
      BY <1>2, <3>1, Zenon DEF Library!Next, Library!RunLost, Library!LockExpires, Library!BlockRead,
         Library!Unblock, Library!Ages, Library!BlockWrite, Library!BlockAbandoned, Library!FilterItems,
         Library!UpsertItems, Library!SyncFeed, Library!RefreshStatusVideoCounts, Library!StoringStops,
         Library!RefreshDirtyCounts
  <2>3. MaxStores \in Nat /\ MaxOutside \in Nat
    BY LibraryAssumption DEF Library!VideosAssumption
  <2>4. stores' \in 0 .. MaxStores /\ outside' \in 0 .. MaxOutside
    BY <2>1, <2>2, <2>3 DEF LibraryBounds, Library!Outside
  <2>5. QED
    BY <1>2, <2>4, RunStaysBounded DEF LibraryBounds
<1>3. QED
  BY <1>1, <1>2

LEMMA LibraryTyped == LibraryInv /\ LibraryBounds => Library!TypeOK
<1> SUFFICES ASSUME LibraryInv, LibraryBounds PROVE Library!TypeOK
  OBVIOUS
<1>1. LibraryTypes /\ LibraryBounds
  BY DEF LibraryInv
<1>2. run \in [at : {"idle", "loop", "probing", "ending"}, phase : {"base", "death"},
               cursor : Nat, upper : Nat, row : Videos \cup {0}, moves : 0 .. 2]
  BY <1>1 DEF LibraryTypes, LibraryBounds, Runs, Phases
<1>3. QED
  BY <1>1, <1>2 DEF LibraryTypes, LibraryBounds, Statuses, Counts, Liveness, Storing, Phases, Library!TypeOK

-----------------------------------------------------------------------------
(* Updater, for any number of runners, releases and failures. *)

LibraryFile == "WebView2Loader.dll"
Starter == "HomePanelUpdater.exe"

\* The stages in which a runner has decided to install.
Working == {"download", "wait", "backup", "replace", "verify", "restore"}

\* A runner that holds the mutex.
Holds(q) == q.at \notin {"idle", "lock"}

\* What a runner q may rely on, with the files inst, those spoilt sp, the newest release top.
RunnerOK(q, inst, sp, top) ==
    /\ q.release <= top
    /\ q.at \in Working => inst[Installation!Executable] <= q.release
    /\ q.at = "backup" => q.file = 1
    /\ q.at \in {"replace", "verify", "restore"} =>
          /\ q.before[Installation!Executable] <= q.release
          /\ q.before[Installation!Executable] = top => \A f \in Installation!Files : q.before[f] = top \/ f \in sp
          /\ \A f \in Installation!Files : inst[f] = q.release \/ inst[f] = q.before[f] \/ f \in sp
    /\ q.at = "replace" /\ q.file > 1 => inst[LibraryFile] = q.release \/ LibraryFile \in sp
    /\ q.at = "replace" /\ q.file > 2 => inst[Starter] = q.release \/ Starter \in sp
    /\ q.at = "restore" /\ q.file > 1 =>
          inst[Installation!Executable] = q.before[Installation!Executable] \/ (inst[Installation!Executable] <= 0 /\ Installation!Executable \in sp)
    /\ q.at = "restore" /\ q.file > 2 => inst[Starter] = q.before[Starter] \/ Starter \in sp

WholeOK(inst, sp, top) ==
    /\ inst[Installation!Executable] <= top
    /\ inst[Installation!Executable] = top => \A f \in Installation!Files : inst[f] = top \/ f \in sp

UpdaterInv ==
    /\ Installation!UpdaterAssumption /\ Installation!TypeOK
    /\ \A l \in Installation!Launchers : launch[l].release <= latest
    /\ \A r \in Runners : Holds(runner[r]) => installer = r
    /\ \A r \in Runners : RunnerOK(runner[r], installed, spoilt, latest)
    /\ WholeOK(installed, spoilt, latest)

-----------------------------------------------------------------------------
(* Types. *)

LEMMA Constants ==
    ASSUME Installation!UpdaterAssumption
    PROVE  /\ MaxRelease \in Nat /\ MaxTroubles \in Nat /\ MaxRelease > 0
           /\ Installation!NoRunner \notin Runners
           /\ 0 \in -1 .. MaxRelease /\ -1 \in -1 .. MaxRelease /\ 0 \in 0 .. MaxRelease
           /\ 1 \in -1 .. MaxRelease /\ 1 \in 1 .. MaxRelease
           /\ Installation!Executable \in Installation!Files /\ Starter \in Installation!Files /\ LibraryFile \in Installation!Files
           /\ Installation!Executable # Starter /\ Installation!Executable # LibraryFile /\ Starter # LibraryFile
           /\ Installation!Files = {Installation!Executable, Starter, LibraryFile}
BY DEF Installation!UpdaterAssumption, Installation!Files, Installation!Executable, Starter, LibraryFile

LEMMA EndedIsRunner == ASSUME Installation!UpdaterAssumption PROVE Installation!Ended \in Installation!Runner
BY Constants DEF Installation!Ended, Installation!Runner, Installation!NoFiles, Installation!Absent, Installation!Launchers

\* A runner goes on to a stage and a file.
LEMMA Moved ==
    ASSUME runner \in [Runners -> Installation!Runner], NEW r \in Runners, NEW n \in 1 .. 3,
           NEW at \in {"idle", "lock", "check", "download", "wait", "backup", "replace",
                       "verify", "restore", "done", "failed"},
           runner' = [runner EXCEPT ![r].at = at, ![r].file = n]
    PROVE  /\ runner' \in [Runners -> Installation!Runner]
           /\ runner'[r].at = at /\ runner'[r].file = n
           /\ runner'[r].release = runner[r].release /\ runner'[r].before = runner[r].before
           /\ \A p \in Runners : p # r => runner'[p] = runner[p]
BY DEF Installation!Runner

LEMMA GoesOn ==
    ASSUME Installation!TypeOK, NEW r \in Runners,
           NEW at \in {"idle", "lock", "check", "download", "wait", "backup", "replace",
                       "verify", "restore", "done", "failed"}, Installation!GoOn(r, at)
    PROVE  /\ runner' \in [Runners -> Installation!Runner]
           /\ runner'[r].at = at /\ runner'[r].file = 1
           /\ runner'[r].release = runner[r].release /\ runner'[r].before = runner[r].before
           /\ \A p \in Runners : p # r => runner'[p] = runner[p]
<1>1. runner \in [Runners -> Installation!Runner] /\ 1 \in 1 .. 3
  BY DEF Installation!TypeOK
<1>2. runner' = [runner EXCEPT ![r].at = at, ![r].file = 1]
  BY DEF Installation!GoOn
<1>3. QED
  BY <1>1, <1>2, Moved, Zenon

LEMMA TypesInit == Installation!UpdaterAssumption /\ Installation!Init => Installation!TypeOK
BY Constants, EndedIsRunner DEF Installation!Init, Installation!TypeOK, Installation!Launch, Installation!Launchers, Installation!NoLaunch, Installation!Absent

LEMMA TypesAround ==
    ASSUME Installation!UpdaterAssumption, Installation!TypeOK,
           \/ Installation!Publish \/ Installation!StartPanel \/ Installation!PanelEnds \/ Installation!CheckForUpdate \/ Installation!RunStandalone
           \/ \E f \in Installation!Files : Installation!Spoil(f)
           \/ \E l \in Installation!Launchers : Installation!SaveManifest(l) \/ Installation!CopyRunner(l) \/ Installation!LaunchFails(l)
    PROVE  Installation!TypeOK'
<1>1. CASE Installation!Publish
  BY <1>1, Constants DEF Installation!TypeOK, Installation!Publish
<1>2. CASE Installation!StartPanel \/ Installation!PanelEnds
  BY <1>2 DEF Installation!TypeOK, Installation!StartPanel, Installation!PanelEnds
<1>3. CASE Installation!CheckForUpdate \/ Installation!RunStandalone
  <2>1. /\ [at |-> "save", release |-> latest] \in Installation!Launch
        /\ launch \in [Installation!Launchers -> Installation!Launch]
    BY DEF Installation!TypeOK, Installation!Launch
  <2>2. launch' \in [Installation!Launchers -> Installation!Launch]
    BY <1>3, <2>1 DEF Installation!CheckForUpdate, Installation!RunStandalone
  <2>3. QED
    BY <1>3, <2>2 DEF Installation!TypeOK, Installation!CheckForUpdate, Installation!RunStandalone
<1>4. ASSUME NEW f \in Installation!Files, Installation!Spoil(f) PROVE Installation!TypeOK'
  BY <1>4, Constants DEF Installation!TypeOK, Installation!Spoil, Installation!Trouble, Installation!Absent, Installation!Damaged
<1>5. ASSUME NEW l \in Installation!Launchers, Installation!SaveManifest(l) PROVE Installation!TypeOK'
  BY <1>5 DEF Installation!TypeOK, Installation!SaveManifest, Installation!To, Installation!Launch
<1>6. ASSUME NEW l \in Installation!Launchers, Installation!CopyRunner(l) PROVE Installation!TypeOK'
  BY <1>6 DEF Installation!TypeOK, Installation!CopyRunner, Installation!To, Installation!Launch
<1>7. ASSUME NEW l \in Installation!Launchers, Installation!LaunchFails(l) PROVE Installation!TypeOK'
  BY <1>7, Constants DEF Installation!TypeOK, Installation!LaunchFails, Installation!Trouble, Installation!Launch, Installation!NoLaunch
<1>8. QED
  BY <1>1, <1>2, <1>3, <1>4, <1>5, <1>6, <1>7

LEMMA TypesRun ==
    ASSUME Installation!UpdaterAssumption, Installation!TypeOK, NEW r \in Runners,
           \/ \E l \in Installation!Launchers : Installation!CreateRunner(l, r)
           \/ Installation!Lock(r) \/ Installation!CheckManifest(r) \/ Installation!Download(r) \/ Installation!PanelStopped(r) \/ Installation!Backup(r)
           \/ Installation!InstallFails(r) \/ Installation!Finish(r)
    PROVE  Installation!TypeOK'
<1>1. ASSUME NEW l \in Installation!Launchers, Installation!CreateRunner(l, r) PROVE Installation!TypeOK'
  <2>1. [Installation!Ended EXCEPT !.at = "lock", !.by = l, !.release = launch[l].release] \in Installation!Runner
    BY EndedIsRunner DEF Installation!Runner, Installation!TypeOK, Installation!Launch
  <2>2. runner' \in [Runners -> Installation!Runner]
    BY <1>1, <2>1 DEF Installation!CreateRunner, Installation!TypeOK
  <2>3. launch' \in [Installation!Launchers -> Installation!Launch]
    BY <1>1, Constants DEF Installation!CreateRunner, Installation!TypeOK, Installation!Launch, Installation!NoLaunch
  <2>4. panel' \in {"running", "closing", "stopped"}
    BY <1>1 DEF Installation!CreateRunner, Installation!TypeOK
  <2>5. QED
    BY <1>1, <2>2, <2>3, <2>4 DEF Installation!CreateRunner, Installation!TypeOK
<1>2. CASE Installation!Lock(r)
  <2>1. runner' \in [Runners -> Installation!Runner]
    BY <1>2, GoesOn, EndedIsRunner DEF Installation!Lock, Installation!TypeOK
  <2>2. QED
    BY <1>2, <2>1 DEF Installation!Lock, Installation!TypeOK
<1>3. CASE Installation!CheckManifest(r)
  <2>1. runner' \in [Runners -> Installation!Runner]
    BY <1>3, GoesOn DEF Installation!CheckManifest
  <2>2. QED
    BY <1>3, <2>1, Constants DEF Installation!CheckManifest, Installation!TypeOK, Installation!Trouble
<1>4. CASE Installation!Download(r)
  <2>1. runner' \in [Runners -> Installation!Runner]
    BY <1>4, GoesOn DEF Installation!Download
  <2>2. QED
    BY <1>4, <2>1 DEF Installation!Download, Installation!TypeOK
<1>5. CASE Installation!PanelStopped(r)
  <2>1. runner' \in [Runners -> Installation!Runner]
    BY <1>5, GoesOn DEF Installation!PanelStopped
  <2>2. launch' \in [Installation!Launchers -> Installation!Launch]
    BY <1>5, Constants DEF Installation!PanelStopped, Installation!TypeOK, Installation!Launch, Installation!NoLaunch, Installation!Launchers
  <2>3. QED
    BY <1>5, <2>1, <2>2 DEF Installation!PanelStopped, Installation!TypeOK
<1>6. CASE Installation!Backup(r)
  <2> DEFINE Before == [Installation!Files -> -1 .. MaxRelease]
  <2>1. runner \in [Runners -> Installation!Runner] /\ installed \in Before
    BY DEF Installation!TypeOK
  <2>2. runner' = [runner EXCEPT ![r].at = "replace", ![r].before = installed]
    BY <1>6 DEF Installation!Backup
  <2>3. runner' \in [Runners -> Installation!Runner]
    BY <2>1, <2>2 DEF Installation!Runner
  <2>4. QED
    BY <1>6, <2>3 DEF Installation!Backup, Installation!TypeOK
<1>7. CASE Installation!InstallFails(r)
  <2>1. runner' \in [Runners -> Installation!Runner]
    BY <1>7, GoesOn DEF Installation!InstallFails
  <2>2. QED
    BY <1>7, <2>1, Constants DEF Installation!InstallFails, Installation!TypeOK, Installation!Trouble
<1>8. CASE Installation!Finish(r)
  <2>1. runner' \in [Runners -> Installation!Runner]
    BY <1>8, EndedIsRunner DEF Installation!Finish, Installation!TypeOK
  <2>2. QED
    BY <1>8, <2>1, Constants DEF Installation!Finish, Installation!TypeOK, Installation!Released, Installation!Absent
<1>9. QED
  BY <1>1, <1>2, <1>3, <1>4, <1>5, <1>6, <1>7, <1>8

\* What replaces and puts back files, and what being killed leaves.
LEMMA NextFileMoves ==
    ASSUME Installation!TypeOK, NEW r \in Runners, NEW past \in {"verify", "failed"}, Installation!NextFile(r, past)
    PROVE  /\ runner' \in [Runners -> Installation!Runner]
           /\ runner'[r].release = runner[r].release /\ runner'[r].before = runner[r].before
           /\ \A p \in Runners : p # r => runner'[p] = runner[p]
           /\ \/ runner[r].file = 3 /\ runner'[r].at = past
              \/ /\ runner[r].file < 3 /\ runner'[r].at = runner[r].at
                 /\ runner'[r].file = runner[r].file + 1
<1>1. runner[r] \in Installation!Runner /\ runner[r].file \in 1 .. 3
  BY DEF Installation!TypeOK, Installation!Runner
<1>2. CASE runner[r].file = 3
  <2>1. Installation!GoOn(r, past)
    BY <1>2 DEF Installation!NextFile
  <2>2. QED
    BY <1>2, <2>1, GoesOn
<1>3. CASE runner[r].file # 3
  <2>1. runner' = [runner EXCEPT ![r].file = runner[r].file + 1]
    BY <1>1, <1>3 DEF Installation!NextFile
  <2>2. QED
    BY <1>1, <1>3, <2>1 DEF Installation!TypeOK, Installation!Runner
<1>4. QED
  BY <1>2, <1>3

LEMMA TypesFiles ==
    ASSUME Installation!UpdaterAssumption, Installation!TypeOK, NEW r \in Runners,
           Installation!ReplaceOne(r) \/ Installation!VerifyInstalledFiles(r) \/ Installation!RestoreBackup(r) \/ Installation!KillRunner(r)
    PROVE  Installation!TypeOK'
<1>1. /\ runner[r] \in Installation!Runner /\ runner[r].file \in 1 .. 3
      /\ runner[r].release \in -1 .. MaxRelease
      /\ runner[r].before \in [Installation!Files -> -1 .. MaxRelease]
      /\ -1 \in -1 .. MaxRelease /\ troubles \in 0 .. MaxTroubles
  BY Constants DEF Installation!TypeOK, Installation!Runner
<1>2. Installation!Replacing[runner[r].file] \in Installation!Files /\ Installation!Restoring[runner[r].file] \in Installation!Files
  BY <1>1, Constants DEF Installation!Replacing, Installation!Restoring, LibraryFile, Starter
<1>3. CASE Installation!ReplaceOne(r)
  <2>1. runner' \in [Runners -> Installation!Runner]
    BY <1>3, GoesOn, NextFileMoves DEF Installation!ReplaceOne
  <2>2. installed' \in [Installation!Files -> -1 .. MaxRelease] /\ troubles' \in 0 .. MaxTroubles
    BY <1>1, <1>2, <1>3, Constants DEF Installation!ReplaceOne, Installation!TypeOK, Installation!Trouble
  <2>3. QED
    BY <1>3, <2>1, <2>2 DEF Installation!ReplaceOne, Installation!TypeOK
<1>4. CASE Installation!VerifyInstalledFiles(r)
  <2>1. runner' \in [Runners -> Installation!Runner]
    BY <1>4, GoesOn DEF Installation!VerifyInstalledFiles
  <2>2. troubles' \in 0 .. MaxTroubles
    BY <1>1, <1>4, Constants DEF Installation!VerifyInstalledFiles, Installation!Trouble
  <2>3. QED
    BY <1>4, <2>1, <2>2 DEF Installation!VerifyInstalledFiles, Installation!TypeOK
<1>5. CASE Installation!RestoreBackup(r)
  <2>1. runner' \in [Runners -> Installation!Runner]
    BY <1>5, GoesOn, NextFileMoves DEF Installation!RestoreBackup
  <2>2. installed' \in [Installation!Files -> -1 .. MaxRelease] /\ spoilt' \subseteq Installation!Files
    BY <1>1, <1>2, <1>5 DEF Installation!RestoreBackup, Installation!TypeOK, Installation!CutShort, Installation!Damaged
  <2>3. troubles' \in 0 .. MaxTroubles
    BY <1>1, <1>5, Constants DEF Installation!RestoreBackup, Installation!Trouble
  <2>4. QED
    BY <1>5, <2>1, <2>2, <2>3 DEF Installation!RestoreBackup, Installation!TypeOK
<1>6. CASE Installation!KillRunner(r)
  <2>1. runner' \in [Runners -> Installation!Runner] /\ installer' \in Runners \cup {Installation!NoRunner}
    BY <1>6, EndedIsRunner DEF Installation!KillRunner, Installation!TypeOK, Installation!Released
  <2>2. installed' \in [Installation!Files -> -1 .. MaxRelease] /\ spoilt' \subseteq Installation!Files
    BY <1>1, <1>2, <1>6 DEF Installation!KillRunner, Installation!TypeOK, Installation!CutShort, Installation!Damaged
  <2>3. QED
    BY <1>6, <2>1, <2>2 DEF Installation!KillRunner, Installation!TypeOK
<1>7. QED
  BY <1>3, <1>4, <1>5, <1>6

LEMMA TypesKept == Installation!UpdaterAssumption /\ Installation!TypeOK /\ [Installation!Next]_updaterVars => Installation!TypeOK'
BY TypesAround, TypesRun, TypesFiles DEF Installation!Next, updaterVars, Installation!TypeOK

-----------------------------------------------------------------------------
(* The files. *)

LEMMA UpdaterInitOK == Installation!UpdaterAssumption /\ Installation!Init => UpdaterInv
<1> SUFFICES ASSUME Installation!UpdaterAssumption, Installation!Init PROVE UpdaterInv
  OBVIOUS
<1>1. \A r \in Runners : runner[r] = Installation!Ended
  BY DEF Installation!Init
<1>2. Installation!Ended.at = "idle" /\ Installation!Ended.release = 0
  BY DEF Installation!Ended
<1>3. \A r \in Runners : RunnerOK(runner[r], installed, spoilt, latest) /\ ~Holds(runner[r])
  BY <1>1, <1>2 DEF Installation!Init, RunnerOK, Holds, Working
<1>4. WholeOK(installed, spoilt, latest)
  BY DEF Installation!Init, WholeOK, Installation!Files
<1>5. QED
  BY <1>3, <1>4, TypesInit DEF Installation!Init, UpdaterInv, Installation!NoLaunch

\* The numbers of a runner and of the files.
LEMMA Numbers ==
    ASSUME UpdaterInv, NEW r \in Runners
    PROVE  /\ runner[r] \in Installation!Runner /\ runner[r].release \in Int /\ runner[r].file \in 1 .. 3
           /\ latest \in Int /\ latest >= 1
           /\ \A f \in Installation!Files : installed[f] \in Int /\ runner[r].before[f] \in Int
           /\ RunnerOK(runner[r], installed, spoilt, latest)
BY Constants DEF UpdaterInv, Installation!TypeOK, Installation!Runner

LEMMA PublishOK == UpdaterInv /\ Installation!Publish => UpdaterInv'
<1> SUFFICES ASSUME UpdaterInv, Installation!Publish PROVE UpdaterInv'
  OBVIOUS
<1>1. /\ latest' = latest + 1 /\ latest \in Int
      /\ UNCHANGED <<installed, launch, runner, installer, spoilt>>
  BY DEF Installation!Publish, UpdaterInv, Installation!TypeOK
<1>2. Installation!TypeOK'
  BY TypesAround DEF UpdaterInv
<1>3. ASSUME NEW r \in Runners PROVE RunnerOK(runner[r], installed, spoilt, latest')
  <2>1. Installation!Executable \in Installation!Files
    BY DEF Installation!Files
  <2>2. QED
    BY <1>1, <2>1, Numbers DEF RunnerOK
<1>4. WholeOK(installed, spoilt, latest')
  <2>1. Installation!Executable \in Installation!Files
    BY DEF Installation!Files
  <2>2. installed[Installation!Executable] \in Int /\ installed[Installation!Executable] <= latest
    BY <2>1 DEF UpdaterInv, Installation!TypeOK, WholeOK
  <2>3. QED
    BY <1>1, <2>1, <2>2 DEF WholeOK
<1>5. \A l \in Installation!Launchers : launch[l].release <= latest'
  BY <1>1 DEF UpdaterInv, Installation!TypeOK, Installation!Launch
<1>6. QED
  BY <1>1, <1>2, <1>3, <1>4, <1>5 DEF UpdaterInv

\* A file that is damaged is one that nobody relies on.
LEMMA SpoiltOK ==
    ASSUME UpdaterInv, NEW f \in Installation!Files, NEW v \in {Installation!Absent, Installation!Damaged}, Installation!TypeOK',
           installed' = [installed EXCEPT ![f] = v], spoilt' = spoilt \cup {f}, latest' = latest
    PROVE  /\ \A r \in Runners : RunnerOK(runner[r], installed', spoilt', latest)
           /\ WholeOK(installed', spoilt', latest)
<1>1. /\ installed \in [Installation!Files -> -1 .. MaxRelease] /\ v \in Int /\ v <= 0 /\ Installation!UpdaterAssumption
      /\ latest \in Int /\ latest >= 1
  BY Constants DEF UpdaterInv, Installation!TypeOK, Installation!Absent, Installation!Damaged
<1>2. \A g \in Installation!Files : installed'[g] = IF g = f THEN v ELSE installed[g]
  BY <1>1
<1>3. /\ Installation!Executable \in Installation!Files /\ Starter \in Installation!Files /\ LibraryFile \in Installation!Files
      /\ MaxRelease \in Nat
  BY <1>1, Constants
<1>4. ASSUME NEW r \in Runners PROVE RunnerOK(runner[r], installed', spoilt', latest)
  <2> DEFINE q == runner[r]
  <2>1. /\ RunnerOK(q, installed, spoilt, latest) /\ q.release \in 0 .. MaxRelease
        /\ \A g \in Installation!Files : q.before[g] \in Int
    BY Numbers DEF Installation!Runner
  <2> HIDE DEF q
  <2>2. q.at \in Working => installed'[Installation!Executable] <= q.release
    BY <1>1, <1>2, <1>3, <2>1 DEF RunnerOK
  <2>3. q.at \in {"replace", "verify", "restore"} =>
          /\ q.before[Installation!Executable] <= q.release
          /\ q.before[Installation!Executable] = latest => \A g \in Installation!Files : q.before[g] = latest \/ g \in spoilt'
          /\ \A g \in Installation!Files : installed'[g] = q.release \/ installed'[g] = q.before[g] \/ g \in spoilt'
    BY <1>2, <2>1 DEF RunnerOK
  <2>4. /\ q.at = "replace" /\ q.file > 1 => installed'[LibraryFile] = q.release \/ LibraryFile \in spoilt'
        /\ q.at = "replace" /\ q.file > 2 => installed'[Starter] = q.release \/ Starter \in spoilt'
        /\ q.at = "restore" /\ q.file > 2 =>
              installed'[Starter] = q.before[Starter] \/ Starter \in spoilt'
    BY <1>2, <1>3, <2>1 DEF RunnerOK
  <2>5. q.at = "restore" /\ q.file > 1 =>
          \/ installed'[Installation!Executable] = q.before[Installation!Executable]
          \/ installed'[Installation!Executable] <= 0 /\ Installation!Executable \in spoilt'
    BY <1>1, <1>2, <1>3, <2>1 DEF RunnerOK
  <2>6. q.release <= latest /\ (q.at = "backup" => q.file = 1)
    BY <2>1 DEF RunnerOK
  <2>7. RunnerOK(q, installed', spoilt', latest)
    BY <2>2, <2>3, <2>4, <2>5, <2>6 DEF RunnerOK
  <2>8. QED
    BY <2>7 DEF q
<1>5. WholeOK(installed', spoilt', latest)
  <2>1. WholeOK(installed, spoilt, latest)
    BY DEF UpdaterInv
  <2>2. QED
    BY <1>1, <1>2, <1>3, <2>1 DEF WholeOK
<1>6. QED
  BY <1>4, <1>5

LEMMA SpoilOK == ASSUME UpdaterInv, NEW f \in Installation!Files, Installation!Spoil(f) PROVE UpdaterInv'
<1>1. Installation!TypeOK'
  BY TypesAround DEF UpdaterInv
<1>2. PICK v \in {Installation!Absent, Installation!Damaged} : installed' = [installed EXCEPT ![f] = v]
  BY DEF Installation!Spoil
<1>3. spoilt' = spoilt \cup {f} /\ UNCHANGED <<latest, launch, runner, installer>>
  BY DEF Installation!Spoil
<1>4. /\ \A r \in Runners : RunnerOK(runner[r], installed', spoilt', latest)
      /\ WholeOK(installed', spoilt', latest)
  BY <1>1, <1>2, <1>3, SpoiltOK
<1>5. QED
  BY <1>1, <1>3, <1>4 DEF UpdaterInv

\* Steps around the updater that touch neither a file nor a runner.
LEMMA AroundOK ==
    ASSUME UpdaterInv,
           \/ Installation!StartPanel \/ Installation!PanelEnds \/ Installation!CheckForUpdate \/ Installation!RunStandalone
           \/ \E l \in Installation!Launchers : Installation!SaveManifest(l) \/ Installation!CopyRunner(l) \/ Installation!LaunchFails(l)
    PROVE  UpdaterInv'
<1>1. Installation!TypeOK'
  BY TypesAround DEF UpdaterInv
<1>2. UNCHANGED <<latest, installed, runner, installer, spoilt>>
  BY DEF Installation!StartPanel, Installation!PanelEnds, Installation!CheckForUpdate, Installation!RunStandalone, Installation!SaveManifest, Installation!CopyRunner,
         Installation!LaunchFails
<1>3. /\ launch \in [Installation!Launchers -> Installation!Launch] /\ latest \in Int /\ latest >= 1
      /\ \A l \in Installation!Launchers : launch[l].release <= latest
  BY DEF UpdaterInv, Installation!TypeOK
<1>4. \A l \in Installation!Launchers : launch'[l].release <= latest
  <2>1. CASE Installation!StartPanel \/ Installation!PanelEnds
    BY <1>3, <2>1 DEF Installation!StartPanel, Installation!PanelEnds
  <2>2. CASE Installation!CheckForUpdate
    BY <1>3, <2>2 DEF Installation!CheckForUpdate
  <2>3. CASE Installation!RunStandalone
    BY <1>3, <2>3 DEF Installation!RunStandalone
  <2>4. ASSUME NEW k \in Installation!Launchers, Installation!SaveManifest(k) \/ Installation!CopyRunner(k)
        PROVE  \A l \in Installation!Launchers : launch'[l].release <= latest
    BY <1>3, <2>4 DEF Installation!SaveManifest, Installation!CopyRunner, Installation!To, Installation!Launch
  <2>5. ASSUME NEW k \in Installation!Launchers, Installation!LaunchFails(k)
        PROVE  \A l \in Installation!Launchers : launch'[l].release <= latest
    BY <1>3, <2>5 DEF Installation!LaunchFails, Installation!NoLaunch
  <2>6. QED
    BY <2>1, <2>2, <2>3, <2>4, <2>5
<1>5. QED
  BY <1>1, <1>2, <1>4 DEF UpdaterInv

-----------------------------------------------------------------------------
(* Runners that change no file. *)

\* A step of runner r: what remains to be shown of it.
LEMMA RunnerMoves ==
    ASSUME UpdaterInv, Installation!TypeOK', NEW r \in Runners,
           UNCHANGED <<latest, installed, spoilt>>,
           \A p \in Runners : p # r => runner'[p] = runner[p],
           \A l \in Installation!Launchers : launch'[l].release <= latest,
           \A p \in Runners : Holds(runner'[p]) => installer' = p,
           RunnerOK(runner'[r], installed, spoilt, latest)
    PROVE  UpdaterInv'
<1>1. \A p \in Runners : RunnerOK(runner'[p], installed, spoilt, latest)
  BY DEF UpdaterInv
<1>2. QED
  BY <1>1 DEF UpdaterInv

\* The runner that holds the mutex keeps it.
LEMMA HolderStays ==
    ASSUME UpdaterInv, NEW r \in Runners, Holds(runner[r]), UNCHANGED installer,
           \A p \in Runners : p # r => runner'[p] = runner[p]
    PROVE  \A p \in Runners : Holds(runner'[p]) => installer' = p
BY DEF UpdaterInv

\* A runner that ends gives it back.
LEMMA EndedGivesBack ==
    ASSUME UpdaterInv, NEW r \in Runners, runner' = [runner EXCEPT ![r] = Installation!Ended],
           installer' = Installation!Released(r) \/ (~Holds(runner[r]) /\ UNCHANGED installer)
    PROVE  /\ \A p \in Runners : Holds(runner'[p]) => installer' = p
           /\ \A p \in Runners : p # r => runner'[p] = runner[p]
           /\ runner'[r] = Installation!Ended
<1>1. runner \in [Runners -> Installation!Runner] /\ \A p \in Runners : Holds(runner[p]) => installer = p
  BY DEF UpdaterInv, Installation!TypeOK
<1>2. ~Holds(Installation!Ended)
  BY DEF Holds, Installation!Ended
<1>3. QED
  BY <1>1, <1>2 DEF Installation!Released

\* Nobody relies on anything in these stages but on a release that was published.
LEMMA WaitingIsOK ==
    ASSUME NEW q, q.at \notin Working, NEW inst, NEW sp, NEW top, q.release <= top
    PROVE  RunnerOK(q, inst, sp, top)
BY DEF RunnerOK, Working

LEMMA EndedIsOK == ASSUME UpdaterInv, NEW inst, NEW sp PROVE RunnerOK(Installation!Ended, inst, sp, latest)
<1>1. Installation!Ended.at \notin Working /\ Installation!Ended.release <= latest
  BY DEF UpdaterInv, Installation!TypeOK, Installation!Ended, Working
<1>2. QED
  BY <1>1, WaitingIsOK

LEMMA CreateOK ==
    ASSUME UpdaterInv, NEW l \in Installation!Launchers, NEW r \in Runners, Installation!CreateRunner(l, r) PROVE UpdaterInv'
<1>1. Installation!TypeOK'
  BY TypesRun DEF UpdaterInv
<1>2. /\ launch \in [Installation!Launchers -> Installation!Launch] /\ runner \in [Runners -> Installation!Runner]
      /\ latest \in Int /\ latest >= 1 /\ \A k \in Installation!Launchers : launch[k].release <= latest
      /\ UNCHANGED <<latest, installed, spoilt, installer>>
  BY DEF UpdaterInv, Installation!TypeOK, Installation!CreateRunner
<1>3. \A k \in Installation!Launchers : launch'[k].release <= latest
  BY <1>2 DEF Installation!CreateRunner, Installation!NoLaunch
<1>4. CASE UNCHANGED runner
  BY <1>1, <1>2, <1>3, <1>4 DEF UpdaterInv
<1>5. CASE runner' = [runner EXCEPT ![r] = [Installation!Ended EXCEPT !.at = "lock", !.by = l,
                                                         !.release = launch[l].release]]
  <2>1. /\ runner'[r].at = "lock" /\ runner'[r].release = launch[l].release
        /\ \A p \in Runners : p # r => runner'[p] = runner[p]
    BY <1>2, <1>5 DEF Installation!Ended
  <2>2. ~Holds(runner'[r]) /\ runner'[r].at \notin Working
    BY <2>1 DEF Holds, Working
  <2>3. RunnerOK(runner'[r], installed, spoilt, latest)
    BY <1>2, <2>1, <2>2, WaitingIsOK
  <2>4. \A p \in Runners : Holds(runner'[p]) => installer' = p
    BY <1>2, <2>1, <2>2 DEF UpdaterInv
  <2>5. QED
    BY <1>1, <1>2, <1>3, <2>1, <2>3, <2>4, RunnerMoves
<1>6. QED
  BY <1>4, <1>5 DEF Installation!CreateRunner

LEMMA LockOK == ASSUME UpdaterInv, NEW r \in Runners, Installation!Lock(r) PROVE UpdaterInv'
<1>1. Installation!TypeOK'
  BY TypesRun DEF UpdaterInv
<1>2. /\ Installation!TypeOK /\ UNCHANGED <<latest, installed, spoilt, launch>> /\ ~Holds(runner[r])
      /\ \A l \in Installation!Launchers : launch'[l].release <= latest
  BY DEF UpdaterInv, Installation!Lock, Installation!At, Holds
<1>3. CASE installer = Installation!NoRunner
  <2>1. installer' = r /\ Installation!GoOn(r, "check")
    BY <1>3 DEF Installation!Lock
  <2>2. /\ runner'[r].at = "check" /\ runner'[r].release = runner[r].release
        /\ \A p \in Runners : p # r => runner'[p] = runner[p]
    BY <1>2, <2>1, GoesOn
  <2>3. \A p \in Runners : Holds(runner'[p]) => installer' = p
    BY <1>3, <2>1, <2>2, Constants DEF UpdaterInv
  <2>4. runner'[r].at \notin Working /\ runner'[r].release <= latest
    BY <2>2, Numbers DEF Working, RunnerOK
  <2>5. RunnerOK(runner'[r], installed, spoilt, latest)
    BY <2>4, WaitingIsOK
  <2>6. QED
    BY <1>1, <1>2, <2>2, <2>3, <2>5, RunnerMoves
<1>4. CASE installer # Installation!NoRunner
  <2>1. runner' = [runner EXCEPT ![r] = Installation!Ended] /\ UNCHANGED installer
    BY <1>4 DEF Installation!Lock
  <2>2. QED
    BY <1>1, <1>2, <2>1, EndedGivesBack, EndedIsOK, RunnerMoves
<1>5. QED
  BY <1>3, <1>4

\* A runner that holds the mutex goes on to a stage in which it relies on nothing more.
LEMMA GoesOnOK ==
    ASSUME UpdaterInv, Installation!TypeOK', NEW r \in Runners, Holds(runner[r]),
           NEW at \in {"download", "wait", "backup", "done", "failed", "restore"},
           Installation!GoOn(r, at), UNCHANGED <<latest, installed, spoilt, installer>>,
           \A l \in Installation!Launchers : launch'[l].release <= latest,
           at \in {"download", "wait", "backup"} =>
               installed[Installation!Executable] <= runner[r].release,
           at = "restore" => runner[r].at \in {"replace", "verify"}
    PROVE  UpdaterInv'
<1>1. /\ runner'[r].at = at /\ runner'[r].file = 1
      /\ runner'[r].release = runner[r].release /\ runner'[r].before = runner[r].before
      /\ \A p \in Runners : p # r => runner'[p] = runner[p]
  BY GoesOn DEF UpdaterInv
<1>2. RunnerOK(runner[r], installed, spoilt, latest)
  BY DEF UpdaterInv
<1>3. RunnerOK(runner'[r], installed, spoilt, latest)
  <2>1. CASE at \in {"done", "failed"}
    <3>1. runner'[r].at \notin Working /\ runner'[r].release <= latest
      BY <1>1, <1>2, <2>1 DEF Working, RunnerOK
    <3>2. QED
      BY <3>1, WaitingIsOK
  <2>2. CASE at \in {"download", "wait", "backup"}
    BY <1>1, <1>2, <2>2 DEF RunnerOK
  <2>3. CASE at = "restore"
    BY <1>1, <1>2, <2>3 DEF RunnerOK, Working
  <2>4. QED
    BY <2>1, <2>2, <2>3
<1>4. QED
  BY <1>1, <1>3, HolderStays, RunnerMoves

LEMMA CheckOK == ASSUME UpdaterInv, NEW r \in Runners, Installation!CheckManifest(r) PROVE UpdaterInv'
<1>1. Installation!TypeOK'
  BY TypesRun DEF UpdaterInv
<1>2. /\ Holds(runner[r]) /\ UNCHANGED <<latest, installed, spoilt, installer, launch>>
      /\ \A l \in Installation!Launchers : launch'[l].release <= latest
  BY DEF Installation!CheckManifest, Installation!At, Holds, UpdaterInv
<1>3. CASE Installation!GoOn(r, "failed") \/ Installation!GoOn(r, "done")
  BY <1>1, <1>2, <1>3, GoesOnOK
<1>4. CASE Installation!Installable(r) /\ Installation!GoOn(r, "download")
  <2>1. installed[Installation!Executable] \in Int /\ runner[r].release \in Int /\ runner[r].release >= 0
    BY Numbers, Constants DEF Installation!Runner, UpdaterInv
  <2>2. installed[Installation!Executable] <= runner[r].release
    BY <1>4, <2>1 DEF Installation!Installable, Installation!Intact
  <2>3. QED
    BY <1>1, <1>2, <1>4, <2>2, GoesOnOK
<1>5. QED
  BY <1>3, <1>4 DEF Installation!CheckManifest

\* Downloading, waiting for the panel, and failing before a file is replaced.
LEMMA PreparesOK ==
    ASSUME UpdaterInv, NEW r \in Runners, Installation!Download(r) \/ Installation!PanelStopped(r) \/ Installation!InstallFails(r)
    PROVE  UpdaterInv'
<1>1. Installation!TypeOK'
  BY TypesRun DEF UpdaterInv
<1>2. /\ UNCHANGED <<latest, installed, spoilt, installer>>
      /\ Holds(runner[r]) /\ RunnerOK(runner[r], installed, spoilt, latest)
  BY DEF Installation!Download, Installation!PanelStopped, Installation!InstallFails, Installation!At, Holds, UpdaterInv
<1>3. \A l \in Installation!Launchers : launch'[l].release <= latest
  <2>1. /\ launch \in [Installation!Launchers -> Installation!Launch] /\ latest \in Int /\ latest >= 1
        /\ \A l \in Installation!Launchers : launch[l].release <= latest
    BY DEF UpdaterInv, Installation!TypeOK
  <2>2. UNCHANGED launch \/ launch' = [launch EXCEPT !["panel"] = Installation!NoLaunch]
    BY DEF Installation!Download, Installation!PanelStopped, Installation!InstallFails
  <2>3. QED
    BY <2>1, <2>2 DEF Installation!NoLaunch
<1>4. CASE Installation!Download(r)
  <2>1. Installation!GoOn(r, "wait") /\ installed[Installation!Executable] <= runner[r].release
    BY <1>2, <1>4 DEF Installation!Download, Installation!At, RunnerOK, Working
  <2>2. QED
    BY <1>1, <1>2, <1>3, <2>1, GoesOnOK
<1>5. CASE Installation!PanelStopped(r)
  <2>1. Installation!GoOn(r, "backup") /\ installed[Installation!Executable] <= runner[r].release
    BY <1>2, <1>5 DEF Installation!PanelStopped, Installation!At, RunnerOK, Working
  <2>2. QED
    BY <1>1, <1>2, <1>3, <2>1, GoesOnOK
<1>6. CASE Installation!InstallFails(r)
  BY <1>1, <1>2, <1>3, <1>6, GoesOnOK DEF Installation!InstallFails
<1>7. QED
  BY <1>4, <1>5, <1>6

LEMMA BackupOK == ASSUME UpdaterInv, NEW r \in Runners, Installation!Backup(r) PROVE UpdaterInv'
<1>1. Installation!TypeOK'
  BY TypesRun DEF UpdaterInv
<1>2. /\ UNCHANGED <<latest, installed, spoilt, installer, launch>>
      /\ Holds(runner[r]) /\ RunnerOK(runner[r], installed, spoilt, latest)
      /\ WholeOK(installed, spoilt, latest)
      /\ \A l \in Installation!Launchers : launch'[l].release <= latest
  BY DEF Installation!Backup, Installation!At, Holds, UpdaterInv
<1>3. runner \in [Runners -> Installation!Runner]
  BY DEF UpdaterInv, Installation!TypeOK
<1>4. /\ runner'[r].at = "replace" /\ runner'[r].before = installed
      /\ runner'[r].file = runner[r].file /\ runner'[r].release = runner[r].release
      /\ \A p \in Runners : p # r => runner'[p] = runner[p]
  BY <1>3 DEF Installation!Backup, Installation!Runner
<1>5. runner'[r].file = 1 /\ installed[Installation!Executable] <= runner[r].release
  BY <1>2, <1>4 DEF Installation!Backup, Installation!At, RunnerOK, Working
<1>6. RunnerOK(runner'[r], installed, spoilt, latest)
  BY <1>2, <1>4, <1>5 DEF RunnerOK, WholeOK
<1>7. QED
  BY <1>1, <1>2, <1>4, <1>6, HolderStays, RunnerMoves

LEMMA VerifyOK == ASSUME UpdaterInv, NEW r \in Runners, Installation!VerifyInstalledFiles(r) PROVE UpdaterInv'
<1>1. Installation!TypeOK'
  BY TypesFiles DEF UpdaterInv
<1>2. /\ UNCHANGED <<latest, installed, spoilt, installer, launch>>
      /\ runner[r].at = "verify" /\ Holds(runner[r])
      /\ \A l \in Installation!Launchers : launch'[l].release <= latest
  BY DEF Installation!VerifyInstalledFiles, Installation!At, Holds, UpdaterInv
<1>3. Installation!GoOn(r, "done") \/ Installation!GoOn(r, "restore")
  BY DEF Installation!VerifyInstalledFiles
<1>4. QED
  BY <1>1, <1>2, <1>3, GoesOnOK

LEMMA FinishOK == ASSUME UpdaterInv, NEW r \in Runners, Installation!Finish(r) PROVE UpdaterInv'
<1>1. Installation!TypeOK'
  BY TypesRun DEF UpdaterInv
<1>2. /\ UNCHANGED <<latest, installed, spoilt, launch>>
      /\ runner' = [runner EXCEPT ![r] = Installation!Ended] /\ installer' = Installation!Released(r)
      /\ \A l \in Installation!Launchers : launch'[l].release <= latest
  BY DEF Installation!Finish, UpdaterInv
<1>3. QED
  BY <1>1, <1>2, EndedGivesBack, EndedIsOK, RunnerMoves

-----------------------------------------------------------------------------
(* Runners that change a file. *)

\* Runner r writes a file: the others wait or have ended, and rely on none.
LEMMA WriterMoves ==
    ASSUME UpdaterInv, Installation!TypeOK', NEW r \in Runners, Holds(runner[r]),
           UNCHANGED <<latest, installer, launch>>,
           \A p \in Runners : p # r => runner'[p] = runner[p],
           RunnerOK(runner'[r], installed', spoilt', latest),
           WholeOK(installed', spoilt', latest)
    PROVE  UpdaterInv'
<1>1. ASSUME NEW p \in Runners, p # r PROVE RunnerOK(runner[p], installed', spoilt', latest)
  <2>1. runner[p].at \notin Working /\ runner[p].release <= latest
    BY <1>1 DEF UpdaterInv, Holds, Working, RunnerOK
  <2>2. QED
    BY <2>1, WaitingIsOK
<1>2. \A p \in Runners : RunnerOK(runner'[p], installed', spoilt', latest)
  BY <1>1
<1>3. \A p \in Runners : Holds(runner'[p]) => installer' = p
  BY HolderStays
<1>4. QED
  BY <1>2, <1>3 DEF UpdaterInv

LEMMA ReplaceOK == ASSUME UpdaterInv, NEW r \in Runners, Installation!ReplaceOne(r) PROVE UpdaterInv'
<1> DEFINE f == Installation!Replacing[runner[r].file]
<1>1. Installation!TypeOK'
  BY TypesFiles DEF UpdaterInv
<1>2. /\ UNCHANGED <<latest, spoilt, installer, launch>>
      /\ runner[r].at = "replace" /\ Holds(runner[r])
      /\ RunnerOK(runner[r], installed, spoilt, latest) /\ WholeOK(installed, spoilt, latest)
      /\ \A l \in Installation!Launchers : launch'[l].release <= latest
  BY DEF Installation!ReplaceOne, Installation!At, Holds, UpdaterInv
<1>3. CASE Installation!GoOn(r, "restore") /\ UNCHANGED installed
  BY <1>1, <1>2, <1>3, GoesOnOK
<1>4. CASE installed' = [installed EXCEPT ![f] = runner[r].release] /\ Installation!NextFile(r, "verify")
  <2>1. /\ runner'[r].release = runner[r].release /\ runner'[r].before = runner[r].before
        /\ \A p \in Runners : p # r => runner'[p] = runner[p]
        /\ \/ runner[r].file = 3 /\ runner'[r].at = "verify"
           \/ /\ runner[r].file < 3 /\ runner'[r].at = "replace"
              /\ runner'[r].file = runner[r].file + 1
    BY <1>2, <1>4, NextFileMoves DEF UpdaterInv
  <2>2. /\ runner[r].file \in 1 .. 3 /\ latest \in Int /\ runner[r].release \in Int
        /\ f = IF runner[r].file = 1 THEN LibraryFile
               ELSE IF runner[r].file = 2 THEN Starter ELSE Installation!Executable
    BY Numbers DEF Installation!Replacing, LibraryFile, Starter
  <2> HIDE DEF f
  <2>3. /\ Installation!Files = {Installation!Executable, Starter, LibraryFile}
        /\ Installation!Executable # Starter /\ Installation!Executable # LibraryFile /\ Starter # LibraryFile
    BY Constants DEF UpdaterInv
  <2>4. installed' \in [Installation!Files -> Int] /\ installed \in [Installation!Files -> Int]
    BY <1>1, Constants DEF UpdaterInv, Installation!TypeOK
  <2>5. \A g \in Installation!Files : installed'[g] = IF g = f THEN runner[r].release ELSE installed[g]
    BY <1>4, <2>4
  <2>6. RunnerOK(runner'[r], installed', spoilt, latest)
    <3>1. /\ installed[Installation!Executable] <= runner[r].release /\ runner[r].release <= latest
          /\ runner[r].before[Installation!Executable] <= runner[r].release
          /\ runner[r].before[Installation!Executable] = latest =>
                \A g \in Installation!Files : runner[r].before[g] = latest \/ g \in spoilt
          /\ \A g \in Installation!Files : installed'[g] \in {runner[r].release, runner[r].before[g]} \/ g \in spoilt
      BY <1>2, <2>5 DEF RunnerOK, Working
    <3>2. installed'[Installation!Executable] <= runner[r].release
      BY <2>2, <2>3, <2>5, <3>1
    <3>3. /\ runner[r].file >= 1 => installed'[LibraryFile] = runner[r].release \/ LibraryFile \in spoilt
          /\ runner[r].file >= 2 => installed'[Starter] = runner[r].release \/ Starter \in spoilt
      BY <1>2, <2>2, <2>3, <2>5 DEF RunnerOK
    <3>4. CASE runner'[r].at = "verify"
      BY <2>1, <3>1, <3>2, <3>4 DEF RunnerOK
    <3>5. CASE runner'[r].at = "replace"
      BY <2>1, <2>2, <3>1, <3>2, <3>3, <3>5 DEF RunnerOK
    <3>6. QED
      BY <2>1, <3>4, <3>5
  <2>7. WholeOK(installed', spoilt, latest)
    <3>1. /\ runner[r].release <= latest /\ installed[Installation!Executable] <= runner[r].release
          /\ runner[r].file > 1 => installed[LibraryFile] = runner[r].release \/ LibraryFile \in spoilt
          /\ runner[r].file > 2 => installed[Starter] = runner[r].release \/ Starter \in spoilt
      BY <1>2 DEF RunnerOK, Working
    <3>2. installed'[Installation!Executable] <= latest
      BY <1>2, <2>3, <2>5, <3>1 DEF WholeOK
    <3>3. ASSUME installed'[Installation!Executable] = latest, NEW g \in Installation!Files
          PROVE  installed'[g] = latest \/ g \in spoilt
      <4>1. CASE f = Installation!Executable
        BY <2>2, <2>3, <2>5, <3>1, <3>3, <4>1
      <4>2. CASE f # Installation!Executable
        <5>1. installed[Installation!Executable] = latest /\ runner[r].release = latest
          BY <2>2, <2>3, <2>4, <2>5, <3>1, <3>3, <4>2
        <5>2. QED
          BY <1>2, <2>5, <5>1 DEF WholeOK
      <4>3. QED
        BY <4>1, <4>2
    <3>4. QED
      BY <3>2, <3>3 DEF WholeOK
  <2>8. QED
    BY <1>1, <1>2, <2>1, <2>6, <2>7, WriterMoves
<1>5. QED
  BY <1>3, <1>4 DEF Installation!ReplaceOne

LEMMA RestoreOK == ASSUME UpdaterInv, NEW r \in Runners, Installation!RestoreBackup(r) PROVE UpdaterInv'
<1> DEFINE f == Installation!Restoring[runner[r].file]
<1>1. Installation!TypeOK'
  BY TypesFiles DEF UpdaterInv
<1>2. /\ UNCHANGED <<latest, installer, launch>>
      /\ runner[r].at = "restore" /\ Holds(runner[r])
      /\ RunnerOK(runner[r], installed, spoilt, latest) /\ WholeOK(installed, spoilt, latest)
      /\ \A l \in Installation!Launchers : launch'[l].release <= latest
  BY DEF Installation!RestoreBackup, Installation!At, Holds, UpdaterInv
<1>3. /\ runner[r].file \in 1 .. 3 /\ latest \in Int /\ latest >= 1
      /\ runner[r].release \in Int /\ \A g \in Installation!Files : runner[r].before[g] \in Int
      /\ f = IF runner[r].file = 1 THEN Installation!Executable
             ELSE IF runner[r].file = 2 THEN Starter ELSE LibraryFile
  BY Numbers DEF Installation!Restoring, LibraryFile, Starter
<1>4. /\ Installation!Files = {Installation!Executable, Starter, LibraryFile} /\ f \in Installation!Files
      /\ Installation!Executable # Starter /\ Installation!Executable # LibraryFile /\ Starter # LibraryFile
  BY <1>3, Constants DEF UpdaterInv
<1>5. CASE /\ installed' = [installed EXCEPT ![f] = runner[r].before[f]]
           /\ Installation!NextFile(r, "failed") /\ UNCHANGED spoilt
  <2>1. /\ runner'[r].release = runner[r].release /\ runner'[r].before = runner[r].before
        /\ \A p \in Runners : p # r => runner'[p] = runner[p]
        /\ \/ runner[r].file = 3 /\ runner'[r].at = "failed"
           \/ /\ runner[r].file < 3 /\ runner'[r].at = "restore"
              /\ runner'[r].file = runner[r].file + 1
    BY <1>2, <1>5, NextFileMoves DEF UpdaterInv
  <2> HIDE DEF f
  <2>2. installed' \in [Installation!Files -> Int] /\ installed \in [Installation!Files -> Int]
    BY <1>1, Constants DEF UpdaterInv, Installation!TypeOK
  <2>3. \A g \in Installation!Files : installed'[g] = IF g = f THEN runner[r].before[g] ELSE installed[g]
    BY <1>5, <2>2
  <2>4. /\ installed[Installation!Executable] <= runner[r].release /\ runner[r].release <= latest
        /\ runner[r].before[Installation!Executable] <= runner[r].release
        /\ runner[r].before[Installation!Executable] = latest =>
              \A g \in Installation!Files : runner[r].before[g] = latest \/ g \in spoilt
        /\ \A g \in Installation!Files : installed'[g] \in {runner[r].release, runner[r].before[g]} \/ g \in spoilt
        /\ runner[r].file > 1 =>
              \/ installed[Installation!Executable] = runner[r].before[Installation!Executable]
              \/ installed[Installation!Executable] <= 0 /\ Installation!Executable \in spoilt
        /\ runner[r].file > 2 =>
              installed[Starter] = runner[r].before[Starter] \/ Starter \in spoilt
    BY <1>2, <2>3 DEF RunnerOK, Working
  <2>5. installed'[Installation!Executable] <= runner[r].release
    BY <1>4, <2>3, <2>4
  <2>6. RunnerOK(runner'[r], installed', spoilt, latest)
    <3>1. /\ runner[r].file >= 1 =>
                \/ installed'[Installation!Executable] = runner[r].before[Installation!Executable]
                \/ installed'[Installation!Executable] <= 0 /\ Installation!Executable \in spoilt
          /\ runner[r].file >= 2 =>
                installed'[Starter] = runner[r].before[Starter] \/ Starter \in spoilt
      BY <1>3, <1>4, <2>3, <2>4
    <3>2. CASE runner'[r].at = "failed"
      BY <2>1, <2>4, <3>2 DEF RunnerOK, Working
    <3>3. CASE runner'[r].at = "restore"
      BY <1>3, <2>1, <2>4, <2>5, <3>1, <3>3 DEF RunnerOK
    <3>4. QED
      BY <2>1, <3>2, <3>3
  <2>7. WholeOK(installed', spoilt, latest)
    <3>1. installed'[Installation!Executable] <= latest
      BY <1>3, <1>4, <2>2, <2>4, <2>5
    <3>2. ASSUME installed'[Installation!Executable] = latest, NEW g \in Installation!Files
          PROVE  installed'[g] = latest \/ g \in spoilt
      <4>1. runner[r].release = latest
        BY <1>3, <1>4, <2>4, <2>5, <3>2
      <4>2. runner[r].before[Installation!Executable] = latest
        <5>1. CASE f = Installation!Executable
          BY <1>4, <2>3, <3>2, <5>1
        <5>2. CASE f # Installation!Executable
          BY <1>3, <1>4, <2>3, <2>4, <3>2, <5>2
        <5>3. QED
          BY <5>1, <5>2
      <4>3. QED
        BY <2>4, <4>1, <4>2
    <3>3. QED
      BY <3>1, <3>2 DEF WholeOK
  <2>8. QED
    BY <1>1, <1>2, <1>5, <2>1, <2>6, <2>7, WriterMoves
<1>6. CASE Installation!GoOn(r, "failed") /\ UNCHANGED <<installed, spoilt>>
  BY <1>1, <1>2, <1>6, GoesOnOK
<1>7. CASE Installation!GoOn(r, "failed") /\ Installation!CutShort(f)
  <2>1. WholeOK(installed', spoilt', latest)
    BY <1>1, <1>2, <1>4, <1>7, SpoiltOK DEF Installation!CutShort
  <2>2. /\ runner'[r].at = "failed" /\ runner'[r].release = runner[r].release
        /\ \A p \in Runners : p # r => runner'[p] = runner[p]
    BY <1>7, GoesOn DEF UpdaterInv
  <2>3. runner'[r].at \notin Working /\ runner'[r].release <= latest
    BY <1>2, <2>2 DEF Working, RunnerOK
  <2>4. RunnerOK(runner'[r], installed', spoilt', latest)
    BY <2>3, WaitingIsOK
  <2>5. QED
    BY <1>1, <1>2, <2>1, <2>2, <2>4, WriterMoves
<1>8. QED
  BY <1>5, <1>6, <1>7 DEF Installation!RestoreBackup

LEMMA KillOK == ASSUME UpdaterInv, NEW r \in Runners, Installation!KillRunner(r) PROVE UpdaterInv'
<1>1. Installation!TypeOK'
  BY TypesFiles DEF UpdaterInv
<1>2. /\ UNCHANGED <<latest, launch>> /\ installer' = Installation!Released(r)
      /\ runner' = [runner EXCEPT ![r] = Installation!Ended]
      /\ \A l \in Installation!Launchers : launch'[l].release <= latest
  BY DEF Installation!KillRunner, UpdaterInv
<1>3. /\ \A p \in Runners : Holds(runner'[p]) => installer' = p
      /\ \A p \in Runners : p # r => runner'[p] = runner[p]
      /\ runner'[r] = Installation!Ended
  BY <1>2, EndedGivesBack
<1>4. CASE UNCHANGED <<installed, spoilt>>
  BY <1>1, <1>2, <1>3, <1>4, EndedIsOK, RunnerMoves
<1>5. CASE Installation!CutShort(Installation!Restoring[runner[r].file])
  <2>1. Installation!Restoring[runner[r].file] \in Installation!Files
    BY Numbers, Constants DEF Installation!Restoring, LibraryFile, Starter, UpdaterInv
  <2>2. /\ \A p \in Runners : RunnerOK(runner[p], installed', spoilt', latest)
        /\ WholeOK(installed', spoilt', latest)
    BY <1>1, <1>2, <1>5, <2>1, SpoiltOK DEF Installation!CutShort
  <2>3. \A p \in Runners : RunnerOK(runner'[p], installed', spoilt', latest)
    BY <1>3, <2>2, EndedIsOK
  <2>4. QED
    BY <1>1, <1>2, <1>3, <2>2, <2>3 DEF UpdaterInv
<1>6. QED
  BY <1>4, <1>5 DEF Installation!KillRunner

LEMMA UpdaterNextOK == UpdaterInv /\ [Installation!Next]_updaterVars => UpdaterInv'
<1>1. ASSUME UpdaterInv, UNCHANGED updaterVars PROVE UpdaterInv'
  BY <1>1 DEF updaterVars, UpdaterInv, Installation!TypeOK
<1>2. ASSUME UpdaterInv, Installation!Next PROVE UpdaterInv'
  BY <1>2, PublishOK, SpoilOK, AroundOK, CreateOK, LockOK, CheckOK, PreparesOK, BackupOK,
     ReplaceOK, VerifyOK, RestoreOK, FinishOK, KillOK DEF Installation!Next
<1>3. QED
  BY <1>1, <1>2

Stages == {"idle", "lock", "check", "download", "wait", "backup", "replace", "verify",
           "restore", "done", "failed"}

\* Of all steps only a copy back takes a runner from putting back files to its failure.
LEMMA OnlyRestoreFails ==
    ASSUME UpdaterInv, Installation!Next, NEW r \in Runners, Installation!At(r, "restore"), Installation!At(r, "failed")'
    PROVE  Installation!RestoreBackup(r)
<1>1. /\ Installation!TypeOK /\ runner \in [Runners -> Installation!Runner]
      /\ runner[r].at = "restore" /\ runner'[r].at = "failed"
  BY DEF UpdaterInv, Installation!TypeOK, Installation!At
<1>2. /\ Installation!Ended.at = "idle"
      /\ \A p \in Runners : \A q : runner' = [runner EXCEPT ![p] = q] => p = r /\ q.at = "failed"
  BY <1>1 DEF Installation!Ended
<1>3. \A p \in Runners, at \in Stages : Installation!GoOn(p, at) => p = r /\ at = "failed"
  BY <1>1, GoesOn DEF Stages
<1>4. \A p \in Runners, past \in {"verify", "failed"} : Installation!NextFile(p, past) => p = r
  BY <1>1, NextFileMoves
<1>5. ASSUME NEW p \in Runners, Installation!CheckManifest(p) \/ Installation!Download(p) \/ Installation!PanelStopped(p)
                               \/ Installation!VerifyInstalledFiles(p) \/ Installation!InstallFails(p)
      PROVE  FALSE
  BY <1>1, <1>3, <1>5 DEF Installation!CheckManifest, Installation!Download, Installation!PanelStopped, Installation!VerifyInstalledFiles,
       Installation!InstallFails, Installation!At, Stages
<1>6. ASSUME NEW p \in Runners, Installation!Lock(p) \/ Installation!Finish(p) \/ Installation!KillRunner(p) PROVE FALSE
  BY <1>1, <1>2, <1>3, <1>6 DEF Installation!Lock, Installation!Finish, Installation!KillRunner, Installation!At, Stages
<1>7. ASSUME NEW p \in Runners, Installation!Backup(p) \/ \E l \in Installation!Launchers : Installation!CreateRunner(l, p)
      PROVE  FALSE
  <2>1. CASE Installation!Backup(p)
    BY <1>1, <2>1 DEF Installation!Backup, Installation!Runner
  <2>2. ASSUME NEW l \in Installation!Launchers, Installation!CreateRunner(l, p) PROVE FALSE
    BY <1>1, <2>2 DEF Installation!CreateRunner, Installation!Ended
  <2>3. QED
    BY <1>7, <2>1, <2>2
<1>8. ASSUME NEW p \in Runners, Installation!ReplaceOne(p) PROVE FALSE
  BY <1>1, <1>3, <1>4, <1>8 DEF Installation!ReplaceOne, Installation!At, Stages
<1>9. ASSUME NEW p \in Runners, Installation!RestoreBackup(p) PROVE Installation!RestoreBackup(r)
  BY <1>3, <1>4, <1>9 DEF Installation!RestoreBackup, Stages
<1>10. runner' # runner
  BY <1>1
<1>11. CASE \/ Installation!Publish \/ Installation!StartPanel \/ Installation!PanelEnds \/ Installation!CheckForUpdate \/ Installation!RunStandalone
            \/ \E f \in Installation!Files : Installation!Spoil(f)
            \/ \E l \in Installation!Launchers : Installation!SaveManifest(l) \/ Installation!CopyRunner(l) \/ Installation!LaunchFails(l)
  BY <1>10, <1>11 DEF Installation!Publish, Installation!StartPanel, Installation!PanelEnds, Installation!CheckForUpdate, Installation!RunStandalone, Installation!Spoil,
       Installation!SaveManifest, Installation!CopyRunner, Installation!LaunchFails
<1>12. QED
  BY <1>5, <1>6, <1>7, <1>8, <1>9, <1>11 DEF Installation!Next

\* A failed installation whose last copy back succeeds leaves every file as it was before
\* the first replacement, or damaged by something else: RestoreBackup goes through the
\* files in its order and holds the mutex all the while.
LEMMA FailureUndoes ==
    ASSUME UpdaterInv, Installation!Next, NEW r \in Runners, Installation!At(r, "restore"),
           Installation!At(r, "failed")', troubles' = troubles
    PROVE  \A f \in Installation!Files : installed'[f] = runner[r].before[f] \/ f \in spoilt'
<1>1. /\ Installation!RestoreBackup(r) /\ Installation!TypeOK /\ RunnerOK(runner[r], installed, spoilt, latest)
      /\ runner[r].at = "restore" /\ runner'[r].at = "failed" /\ troubles \in Int
  BY OnlyRestoreFails DEF UpdaterInv, Installation!TypeOK, Installation!At
<1>2. /\ installed' = [installed EXCEPT ![Installation!Restoring[runner[r].file]] =
                          runner[r].before[Installation!Restoring[runner[r].file]]]
      /\ Installation!NextFile(r, "failed") /\ spoilt' = spoilt
  BY <1>1 DEF Installation!RestoreBackup, Installation!Trouble
<1>3. runner[r].file = 3
  BY <1>1, <1>2, NextFileMoves
<1>4. Installation!Restoring[runner[r].file] = LibraryFile
  BY <1>3 DEF Installation!Restoring, LibraryFile
<1>5. \A g \in Installation!Files :
        installed'[g] = IF g = LibraryFile THEN runner[r].before[g] ELSE installed[g]
  BY <1>1, <1>2, <1>4 DEF Installation!TypeOK
<1>6. /\ installed[Installation!Executable] = runner[r].before[Installation!Executable] \/ Installation!Executable \in spoilt
      /\ installed[Starter] = runner[r].before[Starter] \/ Starter \in spoilt
  BY <1>1, <1>3 DEF RunnerOK
<1>7. Installation!Files = {Installation!Executable, Starter, LibraryFile}
  BY Constants DEF UpdaterInv
<1>8. QED
  BY <1>2, <1>5, <1>6, <1>7

-----------------------------------------------------------------------------
(* PlaybackPages: the ring of the feed is cut where the cursor is, and where the page that
   is read has got to; what lies between two cuts is exactly what was taken. *)

Elems(s)    == {s[i] : i \in DOMAIN s}
Distinct(s) == \A i, j \in DOMAIN s : s[i] = s[j] => i = j

LEMMA PageConstants ==
    /\ IsFiniteSet(PageVideos) /\ PageVideos \subseteq Nat \ {0}
    /\ Modulus \in Nat \ {0} /\ Multiplier \in Nat /\ Increment \in Nat
    /\ Seeds \subseteq Nat \ {0} /\ MaxPageChanges \in Nat
    /\ Limit \in Nat \ {0} /\ ScanLimit \in Nat \ {0} /\ QueryFloor \in Nat \ {0}
<1>1. Pages!IsFiniteSet(PageVideos) <=> IsFiniteSet(PageVideos)
  BY DEF Pages!IsFiniteSet, IsFiniteSet
<1>2. QED
  BY <1>1, PagesAssumption DEF Pages!PagesAssumption

LEMMA SameCardinality == \A S : Pages!Cardinality(S) = Cardinality(S)
BY DEF Pages!Cardinality, Cardinality

\* The key by which rows are ordered.
LEMMA ShuffleKeyOK == \A v \in PageVideos : Pages!ShuffleKey(v) \in Int
<1> SUFFICES ASSUME NEW v \in PageVideos PROVE Pages!ShuffleKey(v) \in Int
  OBVIOUS
<1>1. v \in Int /\ v % Modulus \in Int /\ Multiplier \in Int /\ Modulus \in Int /\ Modulus > 0
  BY PageConstants
<1> DEFINE x == v % Modulus
           y == x * Multiplier
<1>2. y \in Int
  BY <1>1
<1> HIDE DEF y
<1>3. y % Modulus \in Int
  BY <1>1, <1>2
<1>4. QED
  BY <1>3 DEF y, Pages!ShuffleKey

\* ORDER BY is a total order.
LEMMA BeforeOrder ==
    /\ \A v \in PageVideos : ~Pages!Before(v, v)
    /\ \A u, v, w \in PageVideos : Pages!Before(u, v) /\ Pages!Before(v, w) => Pages!Before(u, w)
    /\ \A v, w \in PageVideos : v = w \/ Pages!Before(v, w) \/ Pages!Before(w, v)
BY ShuffleKeyOK, PageConstants DEF Pages!Before

\* Where each video is in the order of its set.
LEMMA RankOK ==
    ASSUME NEW S \in SUBSET PageVideos
    PROVE  LET rank(v) == Pages!Cardinality({w \in S : Pages!Before(w, v)})
           IN  /\ Cardinality(S) \in Nat
               /\ \A v \in S : rank(v) \in 0 .. Cardinality(S) - 1
               /\ \A v, w \in S : Pages!Before(v, w) => rank(v) < rank(w)
<1> DEFINE B(v) == {w \in S : Pages!Before(w, v)}
<1>1. IsFiniteSet(S) /\ Cardinality(S) \in Nat
  BY PageConstants, FS_Subset, FS_CardinalityType
<1>2. \A v \in S : B(v) \in SUBSET S /\ v \notin B(v)
  BY BeforeOrder
<1>3. \A v, w \in S : Pages!Before(v, w) => B(v) \subseteq B(w) /\ v \in B(w)
  BY BeforeOrder
<1> HIDE DEF B
<1>4. ASSUME NEW v \in S PROVE IsFiniteSet(B(v)) /\ Cardinality(B(v)) \in 0 .. Cardinality(S) - 1
  <2>1. IsFiniteSet(B(v)) /\ Cardinality(B(v)) \in Nat
    BY <1>1, <1>2, FS_Subset, FS_CardinalityType
  <2>2. Cardinality(B(v)) <= Cardinality(S) /\ Cardinality(B(v)) # Cardinality(S)
    BY <1>1, <1>2, FS_Subset
  <2>3. QED
    BY <1>1, <2>1, <2>2
<1>5. ASSUME NEW v \in S, NEW w \in S, Pages!Before(v, w)
      PROVE  Cardinality(B(v)) < Cardinality(B(w))
  <2>1. B(v) \in SUBSET B(w) /\ B(v) # B(w) /\ IsFiniteSet(B(w))
    BY <1>2, <1>3, <1>4, <1>5
  <2>2. Cardinality(B(v)) <= Cardinality(B(w)) /\ Cardinality(B(v)) # Cardinality(B(w))
    BY <2>1, FS_Subset
  <2>3. QED
    BY <1>4, <2>2
<1>6. QED
  <2>1. /\ \A v \in S : Pages!Cardinality(B(v)) \in 0 .. Cardinality(S) - 1
        /\ \A v, w \in S : Pages!Before(v, w) => Pages!Cardinality(B(v)) < Pages!Cardinality(B(w))
    BY <1>4, <1>5, SameCardinality
  <2>2. QED
    BY <1>1, <2>1 DEF B

\* A list of the videos of S, each once and in the order of the feed.
Ordered(q, S) ==
    /\ q \in [1 .. Cardinality(S) -> S]
    /\ \A i, j \in 1 .. Cardinality(S) : i < j => Pages!Before(q[i], q[j])
    /\ \A v \in S : \E i \in 1 .. Cardinality(S) : q[i] = v

LEMMA InOrderOK ==
    ASSUME NEW S \in SUBSET PageVideos
    PROVE  Cardinality(S) \in Nat /\ Ordered(Pages!InOrder(S), S)
<1> DEFINE rank(v) == Pages!Cardinality({w \in S : Pages!Before(w, v)})
           n == Cardinality(S)
           r == [v \in S |-> rank(v)]
           q == Pages!InOrder(S)
<1>1. /\ n \in Nat
      /\ \A v \in S : rank(v) \in 0 .. n - 1
      /\ \A v, w \in S : Pages!Before(v, w) => rank(v) < rank(w)
  BY RankOK
<1>2. q = [i \in 1 .. n |-> CHOOSE v \in S : rank(v) = i - 1]
  BY SameCardinality DEF Pages!InOrder
<1> HIDE DEF rank, n, q
<1>3. \A v, w \in S : rank(v) = rank(w) => v = w
  BY <1>1, BeforeOrder
<1>4. \A k \in 0 .. n - 1 : \E v \in S : rank(v) = k
  <2>1. r \in Injection(S, 0 .. n - 1)
    BY <1>1, <1>3 DEF Injection, IsInjective
  <2>2. IsFiniteSet(0 .. n - 1) /\ Cardinality(0 .. n - 1) = n
    BY <1>1, FS_Interval
  <2>3. r \in Surjection(S, 0 .. n - 1)
    BY <2>1, <2>2, FS_Injection DEF n
  <2>4. QED
    BY <2>3 DEF Surjection
<1>5. \A i \in 1 .. n : q[i] \in S /\ rank(q[i]) = i - 1
  BY <1>1, <1>2, <1>4
<1>6. q \in [1 .. n -> S]
  BY <1>2, <1>5
<1>7. ASSUME NEW i \in 1 .. n, NEW j \in 1 .. n, i < j PROVE Pages!Before(q[i], q[j])
  <2>1. q[i] \in S /\ q[j] \in S /\ rank(q[i]) < rank(q[j])
    BY <1>1, <1>5, <1>7
  <2>2. q[i] # q[j] /\ ~Pages!Before(q[j], q[i])
    BY <1>1, <2>1
  <2>3. QED
    BY <2>1, <2>2, BeforeOrder
<1>8. ASSUME NEW v \in S PROVE \E i \in 1 .. n : q[i] = v
  <2>1. rank(v) + 1 \in 1 .. n /\ rank(v) = (rank(v) + 1) - 1
    BY <1>1
  <2>2. q[rank(v) + 1] \in S /\ rank(q[rank(v) + 1]) = rank(v)
    BY <1>5, <2>1
  <2>3. QED
    BY <1>3, <2>1, <2>2
<1>9. QED
  BY <1>1, <1>6, <1>7, <1>8 DEF Ordered, n, q

\* The ring from where the seed enters it.
Later(v, w) ==
    \/ Pages!InPhase(v, 0) /\ ~Pages!InPhase(w, 0)
    \/ (Pages!InPhase(v, 0) <=> Pages!InPhase(w, 0)) /\ Pages!Before(v, w)

\* What is left of it behind a cursor.
Left(phase, row) ==
    {v \in PageVideos : \/ Pages!InPhase(v, phase) /\ (row = 0 \/ Pages!Before(row, v))
                        \/ phase = 0 /\ Pages!InPhase(v, 1)}

Place(phase, row) ==
    /\ phase \in {0, 1} /\ row \in PageVideos \cup {0}
    /\ row # 0 => Pages!InPhase(row, phase)

LEMMA PivotOK == Pages!SeedShufflePivot \in Int => \A v \in PageVideos : Pages!InPhase(v, 1) <=> ~Pages!InPhase(v, 0)
BY ShuffleKeyOK DEF Pages!InPhase

LEMMA LaterOrder ==
    /\ \A v \in PageVideos : ~Later(v, v)
    /\ \A u, v, w \in PageVideos : Later(u, v) /\ Later(v, w) => Later(u, w)
    /\ \A v, w \in PageVideos : v = w \/ Later(v, w) \/ Later(w, v)
BY BeforeOrder DEF Later

\* Cuts of the ring.
LEMMA Cuts ==
    ASSUME Pages!SeedShufflePivot \in Int
    PROVE  /\ Left(0, 0) = PageVideos
           /\ \A phase, row : Place(phase, row) /\ row # 0 =>
                 Left(phase, row) = {v \in PageVideos : Later(row, v)}
           /\ \A phase, row : Place(phase, row) =>
                 \A v \in Left(phase, row), w \in PageVideos : Later(v, w) => w \in Left(phase, row)
           /\ \A row : Place(0, row) => Left(1, 0) \subseteq Left(0, row)
<1>0. \A v \in PageVideos : Pages!InPhase(v, 1) <=> ~Pages!InPhase(v, 0)
  BY PivotOK
<1>1. Left(0, 0) = PageVideos
  BY <1>0 DEF Left
<1>2. ASSUME NEW phase, NEW row, Place(phase, row), row # 0
      PROVE  Left(phase, row) = {v \in PageVideos : Later(row, v)}
  <2>1. row \in PageVideos /\ phase \in {0, 1} /\ Pages!InPhase(row, phase)
    BY <1>2 DEF Place
  <2>2. CASE phase = 0
    BY <1>0, <1>2, <2>1, <2>2 DEF Left, Later
  <2>3. CASE phase = 1
    BY <1>0, <1>2, <2>1, <2>3 DEF Left, Later
  <2>4. QED
    BY <2>1, <2>2, <2>3
<1>3. ASSUME NEW phase, NEW row, Place(phase, row), NEW v \in Left(phase, row),
             NEW w \in PageVideos, Later(v, w)
      PROVE  w \in Left(phase, row)
  <2>1. v \in PageVideos
    BY DEF Left
  <2>2. CASE row # 0
    <3>1. row \in PageVideos /\ Left(phase, row) = {x \in PageVideos : Later(row, x)}
      BY <1>2, <1>3, <2>2 DEF Place
    <3>2. QED
      BY <1>3, <2>1, <3>1, LaterOrder
  <2>3. CASE row = 0
    BY <1>0, <1>3, <2>1, <2>3 DEF Left, Later, Place
  <2>4. QED
    BY <2>2, <2>3
<1>4. ASSUME NEW row, Place(0, row) PROVE Left(1, 0) \subseteq Left(0, row)
  BY <1>0 DEF Left
<1>5. QED
  BY <1>1, <1>2, <1>3, <1>4

\* The rows a query looks for.
Ahead(phase, row) ==
    {v \in playable : Pages!InPhase(v, phase) /\ (row = 0 \/ Pages!Before(row, v))}

\* A query gives them in order; fewer than it asked for are all of them.
LEMMA RowsOK ==
    ASSUME playable \subseteq PageVideos, NEW phase, NEW row, NEW count \in Nat \ {0},
           NEW batch, batch = Pages!Rows(phase, row, count)
    PROVE  /\ Len(batch) \in 0 .. count /\ batch \in [1 .. Len(batch) -> Ahead(phase, row)]
           /\ \A i, j \in 1 .. Len(batch) : i < j => Pages!Before(batch[i], batch[j])
           /\ \A v \in Ahead(phase, row) :
                 \/ \E i \in 1 .. Len(batch) : batch[i] = v
                 \/ Len(batch) = count /\ \A i \in 1 .. Len(batch) : Pages!Before(batch[i], v)
<1> DEFINE S == Ahead(phase, row)
           n == Cardinality(S)
           q == Pages!InOrder(S)
           m == IF n < count THEN n ELSE count
<1>1. S \in SUBSET PageVideos
  BY DEF Ahead
<1>2. n \in Nat /\ Ordered(q, S)
  BY <1>1, InOrderOK
<1>3. batch = SubSeq(q, 1, IF Len(q) < count THEN Len(q) ELSE count)
  BY DEF Pages!Rows, Ahead
<1> HIDE DEF S, n, q
<1>4. q \in [1 .. n -> S]
  BY <1>2 DEF Ordered, n
<1>5. q \in Seq(S) /\ Len(q) = n
  BY <1>2, <1>4
<1>6. m \in 0 .. n /\ m \in 0 .. count /\ batch = SubSeq(q, 1, m)
  BY <1>2, <1>3, <1>5
<1> HIDE DEF m
<1>7. Len(batch) = m /\ \A i \in 1 .. m : batch[i] = q[i]
  BY <1>2, <1>5, <1>6
<1>8. batch \in [1 .. m -> S]
  <2>1. batch \in Seq(S)
    BY <1>2, <1>5, <1>6
  <2>2. QED
    BY <1>7, <2>1
<1>9. ASSUME NEW v \in S
      PROVE  \/ \E i \in 1 .. m : batch[i] = v
             \/ m = count /\ \A i \in 1 .. m : Pages!Before(batch[i], v)
  <2>1. PICK k \in 1 .. n : q[k] = v
    BY <1>2 DEF Ordered, n
  <2>2. CASE k <= m
    BY <1>2, <1>6, <1>7, <2>1, <2>2
  <2>3. CASE k > m
    <3>1. m = count
      BY <1>2, <2>1, <2>3 DEF m
    <3>2. \A i \in 1 .. m : i \in 1 .. n /\ i < k
      BY <1>2, <1>6, <2>1, <2>3
    <3>3. \A i \in 1 .. m : Pages!Before(q[i], q[k])
      BY <1>2, <2>1, <3>2 DEF Ordered, n
    <3>4. QED
      BY <1>7, <2>1, <3>1, <3>3
  <2>4. QED
    BY <1>2, <1>6, <2>1, <2>2, <2>3
<1>10. ASSUME NEW i \in 1 .. m, NEW j \in 1 .. m, i < j PROVE Pages!Before(batch[i], batch[j])
  <2>1. i \in 1 .. n /\ j \in 1 .. n
    BY <1>2, <1>6
  <2>2. Pages!Before(q[i], q[j])
    BY <1>2, <1>10, <2>1 DEF Ordered, n
  <2>3. QED
    BY <1>7, <2>2
<1>11. QED
  BY <1>6, <1>7, <1>8, <1>9, <1>10 DEF S

\* Between two cuts exactly X was read.
Took(L, M, X) == M \subseteq L /\ X \subseteq L \ M /\ playable \cap (L \ M) \subseteq X

Firsts(s, n) == {s[i] : i \in 1 .. n}

\* The rows up to the n-th are those up to its place.
LEMMA BatchStep ==
    ASSUME playable \subseteq PageVideos, Pages!SeedShufflePivot \in Int,
           NEW phase, NEW row, Place(phase, row), NEW count \in Nat \ {0},
           NEW batch, batch = Pages!Rows(phase, row, count), NEW n \in 1 .. Len(batch)
    PROVE  /\ batch[n] \in PageVideos /\ Place(phase, batch[n])
           /\ Took(Left(phase, row), Left(phase, batch[n]), Firsts(batch, n))
<1>1. /\ Len(batch) \in Nat /\ batch \in [1 .. Len(batch) -> Ahead(phase, row)]
      /\ \A i, j \in 1 .. Len(batch) : i < j => Pages!Before(batch[i], batch[j])
      /\ \A v \in Ahead(phase, row) :
            \/ \E i \in 1 .. Len(batch) : batch[i] = v
            \/ \A i \in 1 .. Len(batch) : Pages!Before(batch[i], v)
  BY RowsOK
<1> DEFINE L == Left(phase, row)
           x == batch[n]
           M == Left(phase, x)
<1>2. \A v \in Ahead(phase, row) : v \in PageVideos /\ v \in L /\ Pages!InPhase(v, phase)
  BY DEF Ahead, Left
<1>3. x \in Ahead(phase, row) /\ x \in PageVideos /\ Pages!InPhase(x, phase) /\ x # 0
  BY <1>1, <1>2, PageConstants
<1>4. Place(phase, x)
  BY <1>3 DEF Place
<1>5. M = {v \in PageVideos : Later(x, v)}
  BY <1>3, <1>4, Cuts
<1>6. M \subseteq L
  <2>1. \A v \in L, w \in PageVideos : Later(v, w) => w \in L
    BY Cuts
  <2>2. QED
    BY <1>2, <1>3, <1>5, <2>1
<1>7. \A i \in 1 .. n : i \in 1 .. Len(batch) /\ batch[i] \in Ahead(phase, row)
  BY <1>1
<1>8. ASSUME NEW i \in 1 .. n PROVE batch[i] \in L \ M
  <2>1. batch[i] \in L /\ batch[i] \in PageVideos /\ Pages!InPhase(batch[i], phase)
    BY <1>2, <1>7
  <2>2. ~Pages!Before(x, batch[i])
    <3>1. CASE i = n
      BY <1>3, <3>1, BeforeOrder
    <3>2. CASE i # n
      BY <1>1, <1>3, <1>7, <2>1, <3>2, BeforeOrder
    <3>3. QED
      BY <3>1, <3>2
  <2>3. Pages!InPhase(x, 0) <=> Pages!InPhase(batch[i], 0)
    BY <1>3, <2>1, PivotOK DEF Place
  <2>4. QED
    BY <1>5, <2>1, <2>2, <2>3 DEF Later
<1>9. ASSUME NEW v \in playable, v \in L \ M PROVE \E i \in 1 .. n : batch[i] = v
  <2>1. v \in PageVideos /\ ~Later(x, v) /\ v \in L
    BY <1>5, <1>9
  <2>2. Pages!InPhase(v, phase) /\ (row = 0 \/ Pages!Before(row, v))
    <3>1. CASE phase = 0 /\ Pages!InPhase(v, 1)
      BY <1>3, <2>1, <3>1, PivotOK DEF Later
    <3>2. CASE ~(phase = 0 /\ Pages!InPhase(v, 1))
      BY <2>1, <3>2 DEF Left
    <3>3. QED
      BY <3>1, <3>2
  <2>3. v \in Ahead(phase, row)
    BY <2>2 DEF Ahead
  <2>4. ~Pages!Before(x, v)
    <3>1. Pages!InPhase(x, 0) <=> Pages!InPhase(v, 0)
      BY <1>3, <2>1, <2>2, PivotOK DEF Place
    <3>2. QED
      BY <2>1, <3>1 DEF Later
  <2>5. PICK i \in 1 .. Len(batch) : batch[i] = v
    BY <1>1, <2>3, <2>4
  <2>6. i \in 1 .. n
    BY <1>1, <2>4, <2>5
  <2>7. QED
    BY <2>5, <2>6
<1>10. QED
  BY <1>3, <1>4, <1>6, <1>8, <1>9 DEF Took, Firsts

\* Fewer rows than were asked for are all of the phase.
LEMMA BatchWhole ==
    ASSUME playable \subseteq PageVideos, Pages!SeedShufflePivot \in Int,
           NEW phase, NEW row, Place(phase, row), NEW count \in Nat \ {0},
           NEW batch, batch = Pages!Rows(phase, row, count), Len(batch) < count
    PROVE  /\ phase = 0 => Took(Left(0, row), Left(1, 0), Firsts(batch, Len(batch)))
           /\ phase = 1 => Took(Left(1, row), {}, Firsts(batch, Len(batch)))
<1>1. /\ Len(batch) \in Nat /\ batch \in [1 .. Len(batch) -> Ahead(phase, row)]
      /\ \A v \in Ahead(phase, row) : \E i \in 1 .. Len(batch) : batch[i] = v
  BY RowsOK
<1>2. Firsts(batch, Len(batch)) = Ahead(phase, row)
  BY <1>1 DEF Firsts
<1>3. ASSUME phase = 1 PROVE Ahead(1, row) = playable \cap Left(1, row)
  BY <1>3 DEF Ahead, Left
<1>4. ASSUME phase = 0 PROVE Ahead(0, row) = playable \cap (Left(0, row) \ Left(1, 0))
  BY <1>4, PivotOK DEF Ahead, Left
<1>5. phase = 0 => Left(1, 0) \subseteq Left(0, row)
  BY Cuts
<1>6. QED
  BY <1>2, <1>3, <1>4, <1>5 DEF Took

-----------------------------------------------------------------------------
\* Between two cuts X was given: of what stayed in the feed, all that is wanted.
Gave(L, M, X) ==
    M \subseteq L /\ X \subseteq L \ M /\ \A v \in steady : Pages!Wanted(v) /\ v \in L \ M => v \in X

LEMMA TookGives ==
    ASSUME steady \subseteq playable, NEW L, NEW M, NEW X, Took(L, M, X),
           NEW Y, Y \subseteq X, \A v \in X : Pages!Wanted(v) => v \in Y
    PROVE  Gave(L, M, Y)
BY DEF Took, Gave

LEMMA GaveJoin ==
    ASSUME NEW L, NEW M, NEW N, NEW X, NEW Y, Gave(L, M, X), Gave(M, N, Y)
    PROVE  Gave(L, N, X \cup Y) /\ X \cap Y = {}
BY DEF Gave

\* What a page has found so far, in the order of the ring.
PageRow == [phase: {0, 1}, row: PageVideos]

Found(f) ==
    /\ f \in Seq(PageRow)
    /\ \A i \in 1 .. Len(f) : Place(f[i].phase, f[i].row)
    /\ \A i, j \in 1 .. Len(f) : i < j => Later(f[i].row, f[j].row)

RowsOf(f, n) == {f[i].row : i \in 1 .. n}

UpClosed(L) == \A v \in L, w \in PageVideos : Later(v, w) => w \in L

\* A cursor may name any of what was found: it is the cut behind those before it.
LEMMA CutBack ==
    ASSUME Pages!SeedShufflePivot \in Int, NEW f, Found(f), NEW n \in 1 .. Len(f),
           NEW L, NEW M, UpClosed(L), UpClosed(M), L \subseteq PageVideos,
           Gave(L, M, RowsOf(f, Len(f)))
    PROVE  Gave(L, Left(f[n].phase, f[n].row), RowsOf(f, n))
<1> DEFINE x == f[n].row
           N == Left(f[n].phase, x)
<1>1. /\ Len(f) \in Nat
      /\ \A i \in 1 .. Len(f) : f[i].row \in PageVideos /\ f[i].row \in L \ M /\ f[i].row # 0
  <2>1. Len(f) \in Nat /\ \A i \in 1 .. Len(f) : f[i] \in PageRow
    BY DEF Found
  <2>2. \A i \in 1 .. Len(f) : f[i].row \in L \ M
    BY DEF Gave, RowsOf
  <2>3. QED
    BY <2>1, <2>2, PageConstants DEF PageRow
<1>2. N = {v \in PageVideos : Later(x, v)}
  BY <1>1, Cuts DEF Found
<1>3. N \subseteq L
  BY <1>1, <1>2 DEF UpClosed
<1>4. ASSUME NEW i \in 1 .. n PROVE f[i].row \in L \ N
  <2>1. i \in 1 .. Len(f)
    BY <1>1
  <2>2. ~Later(x, f[i].row)
    BY <1>1, <2>1, LaterOrder DEF Found
  <2>3. QED
    BY <1>1, <1>2, <2>1, <2>2
<1>5. ASSUME NEW v \in steady, Pages!Wanted(v), v \in L \ N PROVE v \in RowsOf(f, n)
  <2>1. v \in PageVideos /\ ~Later(x, v)
    BY <1>2, <1>5
  <2>2. v \notin M
    BY <1>1, <2>1, LaterOrder DEF UpClosed
  <2>3. PICK i \in 1 .. Len(f) : f[i].row = v
    BY <1>5, <2>2 DEF Gave, RowsOf
  <2>4. i \in 1 .. n
    BY <1>1, <2>1, <2>3 DEF Found
  <2>5. QED
    BY <2>3, <2>4 DEF RowsOf
<1>6. QED
  BY <1>3, <1>4, <1>5 DEF Gave, RowsOf

\* Lists that are put together.
LEMMA ConcatIs ==
    ASSUME NEW S, NEW s \in Seq(S), NEW t \in Seq(S)
    PROVE  /\ s \o t \in Seq(S) /\ Len(s \o t) = Len(s) + Len(t)
           /\ \A i \in 1 .. Len(s) : (s \o t)[i] = s[i]
           /\ \A i \in Len(s) + 1 .. Len(s) + Len(t) : (s \o t)[i] = t[i - Len(s)]
OBVIOUS

LEMMA ConcatOK ==
    ASSUME NEW S, NEW s \in Seq(S), NEW t \in Seq(S)
    PROVE  /\ s \o t \in Seq(S) /\ Elems(s \o t) = Elems(s) \cup Elems(t)
           /\ Distinct(s) /\ Distinct(t) /\ Elems(s) \cap Elems(t) = {} => Distinct(s \o t)
<1> DEFINE u == s \o t
           m == Len(s)
           n == Len(t)
<1>1. /\ u \in Seq(S) /\ m \in Nat /\ n \in Nat /\ Len(u) = m + n
      /\ \A i \in 1 .. m : u[i] = s[i]
      /\ \A i \in m + 1 .. m + n : u[i] = t[i - m]
      /\ DOMAIN s = 1 .. m /\ DOMAIN t = 1 .. n /\ DOMAIN u = 1 .. m + n
  OBVIOUS
<1> HIDE DEF u, m, n
<1>2. Elems(u) = Elems(s) \cup Elems(t)
  <2>1. \A i \in 1 .. m + n : u[i] \in Elems(s) \cup Elems(t)
    <3> SUFFICES ASSUME NEW i \in 1 .. m + n PROVE u[i] \in Elems(s) \cup Elems(t)
      OBVIOUS
    <3>1. CASE i \in 1 .. m
      BY <1>1, <3>1 DEF Elems
    <3>2. CASE i \notin 1 .. m
      <4>1. i \in m + 1 .. m + n /\ i - m \in 1 .. n
        BY <1>1, <3>2
      <4>2. QED
        BY <1>1, <4>1 DEF Elems
    <3>3. QED
      BY <3>1, <3>2
  <2>2. \A i \in 1 .. m : s[i] \in Elems(u)
    BY <1>1 DEF Elems
  <2>3. \A i \in 1 .. n : t[i] \in Elems(u)
    <3> SUFFICES ASSUME NEW i \in 1 .. n PROVE t[i] \in Elems(u)
      OBVIOUS
    <3>1. i + m \in m + 1 .. m + n /\ i + m \in 1 .. m + n /\ (i + m) - m = i
      BY <1>1
    <3>2. u[i + m] = t[i]
      BY <1>1, <3>1
    <3>3. QED
      BY <1>1, <3>1, <3>2 DEF Elems
  <2>4. QED
    BY <1>1, <2>1, <2>2, <2>3 DEF Elems
<1>3. ASSUME Distinct(s), Distinct(t), Elems(s) \cap Elems(t) = {}
      PROVE  Distinct(u)
  <2> SUFFICES ASSUME NEW i \in 1 .. m + n, NEW j \in 1 .. m + n, u[i] = u[j] PROVE i = j
    BY <1>1 DEF Distinct
  <2>1. CASE i \in 1 .. m /\ j \in 1 .. m
    BY <1>1, <1>3, <2>1 DEF Distinct
  <2>2. CASE i \notin 1 .. m /\ j \notin 1 .. m
    <3>1. i - m \in 1 .. n /\ j - m \in 1 .. n /\ i \in m + 1 .. m + n /\ j \in m + 1 .. m + n
      BY <1>1, <2>2
    <3>2. t[i - m] = t[j - m]
      BY <1>1, <3>1
    <3>3. i - m = j - m
      BY <1>1, <1>3, <3>1, <3>2 DEF Distinct
    <3>4. QED
      BY <1>1, <3>3
  <2>3. CASE i \in 1 .. m /\ j \notin 1 .. m
    <3>1. j - m \in 1 .. n /\ j \in m + 1 .. m + n
      BY <1>1, <2>3
    <3>2. s[i] = t[j - m]
      BY <1>1, <2>3, <3>1
    <3>3. QED
      BY <1>1, <1>3, <2>3, <3>1, <3>2 DEF Elems
  <2>4. CASE i \notin 1 .. m /\ j \in 1 .. m
    <3>1. i - m \in 1 .. n /\ i \in m + 1 .. m + n
      BY <1>1, <2>4
    <3>2. s[j] = t[i - m]
      BY <1>1, <2>4, <3>1
    <3>3. QED
      BY <1>1, <1>3, <2>4, <3>1, <3>2 DEF Elems
  <2>5. QED
    BY <2>1, <2>2, <2>3, <2>4
<1>4. QED
  BY <1>1, <1>2, <1>3 DEF u

\* A list of rows of a set, in order: what a filter of the rows gives.
LEMMA OrderedList ==
    ASSUME NEW S \in SUBSET PageVideos, NEW q, q = Pages!InOrder(S)
    PROVE  q \in Seq(PageVideos) /\ Elems(q) = S /\ Distinct(q)
<1> DEFINE n == Cardinality(S)
<1>1. n \in Nat /\ Ordered(q, S)
  BY InOrderOK
<1> HIDE DEF n
<1>2. /\ q \in [1 .. n -> S] /\ \A v \in S : \E i \in 1 .. n : q[i] = v
      /\ \A i, j \in 1 .. n : i < j => Pages!Before(q[i], q[j])
  BY <1>1 DEF Ordered, n
<1>3. \A i \in 1 .. n : q[i] \in S
  BY <1>2
<1>4. \A i, j \in 1 .. n : i < j => q[i] # q[j]
  BY <1>2, <1>3, BeforeOrder
<1>5. \A i, j \in 1 .. n : q[i] = q[j] => i = j
  BY <1>1, <1>4
<1>6. DOMAIN q = 1 .. n /\ q \in Seq(S)
  BY <1>1, <1>2
<1>7. q \in Seq(PageVideos)
  BY <1>1, <1>2
<1>8. QED
  BY <1>2, <1>5, <1>6, <1>7 DEF Elems, Distinct

RowsFrom(phase, batch) == [i \in 1 .. Len(batch) |-> [phase |-> phase, row |-> batch[i]]]

Longer(f, batch, g) ==
    /\ Len(f) \in Nat /\ Len(batch) \in Nat /\ Len(g) = Len(f) + Len(batch)
    /\ RowsOf(g, Len(g)) = RowsOf(f, Len(f)) \cup Firsts(batch, Len(batch))

\* What was found, and a batch behind it.
LEMMA FoundMore ==
    ASSUME playable \subseteq PageVideos, steady \subseteq playable, Pages!SeedShufflePivot \in Int,
           filter = "both",
           NEW f, Found(f), NEW L, NEW phase, NEW row, Place(phase, row),
           Gave(L, Left(phase, row), RowsOf(f, Len(f))),
           NEW count \in Nat \ {0}, NEW batch, batch = Pages!Rows(phase, row, count),
           NEW g, g = f \o RowsFrom(phase, batch)
    PROVE  Found(g) /\ Longer(f, batch, g)
<1> DEFINE b == RowsFrom(phase, batch)
           m == Len(f)
           n == Len(batch)
<1>0. g = f \o b
  OBVIOUS
<1>1. /\ n \in 0 .. count /\ batch \in [1 .. n -> Ahead(phase, row)]
      /\ \A i, j \in 1 .. n : i < j => Pages!Before(batch[i], batch[j])
  BY RowsOK
<1>2. \A v \in Ahead(phase, row) : v \in PageVideos /\ v \in Left(phase, row) /\ Pages!InPhase(v, phase)
  BY DEF Ahead, Left
<1>3. \A i \in 1 .. n : batch[i] \in PageVideos /\ batch[i] \in Left(phase, row)
                        /\ Place(phase, batch[i]) /\ Pages!InPhase(batch[i], phase)
  BY <1>1, <1>2 DEF Place
<1>4. b \in [1 .. n -> PageRow] /\ \A i \in 1 .. n : b[i].phase = phase /\ b[i].row = batch[i]
  BY <1>3 DEF Place, PageRow, RowsFrom
<1> HIDE DEF b
<1>5. f \in Seq(PageRow) /\ m \in Nat /\ n \in Nat
  BY <1>1 DEF Found
<1> HIDE DEF m, n
<1>6. b \in Seq(PageRow) /\ Len(b) = n
  BY <1>4, <1>5
<1>7. /\ g \in Seq(PageRow) /\ Len(g) = m + n
      /\ \A i \in 1 .. m : g[i] = f[i]
      /\ \A i \in m + 1 .. m + n : g[i] = b[i - m]
  <2>1. /\ f \o b \in Seq(PageRow) /\ Len(f \o b) = Len(f) + Len(b)
        /\ \A i \in 1 .. Len(f) : (f \o b)[i] = f[i]
        /\ \A i \in Len(f) + 1 .. Len(f) + Len(b) : (f \o b)[i] = b[i - Len(f)]
    BY <1>5, <1>6, ConcatIs
  <2>2. QED
    BY <1>0, <1>6, <2>1 DEF m, n
<1>8. \A i \in 1 .. m : /\ f[i].row \in PageVideos /\ f[i].row \notin Left(phase, row)
                        /\ Place(f[i].phase, f[i].row)
  <2>1. \A i \in 1 .. m : f[i] \in PageRow
    BY <1>5 DEF m
  <2>2. \A i \in 1 .. m : f[i].row \in PageVideos
    BY <2>1 DEF PageRow
  <2>3. QED
    BY <2>2 DEF Found, Gave, RowsOf, m
<1>9. \A i \in m + 1 .. m + n : i - m \in 1 .. n /\ g[i].phase = phase /\ g[i].row = batch[i - m]
  <2>1. \A i \in m + 1 .. m + n : i - m \in 1 .. n
    BY <1>5
  <2>2. QED
    BY <1>4, <1>7, <2>1
<1>10. ASSUME NEW i \in 1 .. m + n PROVE Place(g[i].phase, g[i].row)
  <2>1. i \in 1 .. m \/ i \in m + 1 .. m + n
    BY <1>5
  <2>2. QED
    BY <1>3, <1>7, <1>8, <1>9, <2>1
<1>11. ASSUME NEW i \in 1 .. m + n, NEW j \in 1 .. m + n, i < j PROVE Later(g[i].row, g[j].row)
  <2>1. CASE j \in 1 .. m
    <3>1. i \in 1 .. m
      BY <1>5, <1>11, <2>1
    <3>2. QED
      BY <1>7, <1>11, <2>1, <3>1 DEF Found, m
  <2>2. CASE i \in m + 1 .. m + n
    <3>1. j \in m + 1 .. m + n
      BY <1>5, <1>11, <2>2
    <3>2. i - m < j - m
      BY <1>5, <1>11
    <3>3. Pages!Before(batch[i - m], batch[j - m])
      BY <1>1, <1>9, <2>2, <3>1, <3>2 DEF n
    <3>4. Pages!InPhase(batch[i - m], 0) <=> Pages!InPhase(batch[j - m], 0)
      <4>1. /\ Pages!InPhase(batch[i - m], phase) /\ Pages!InPhase(batch[j - m], phase)
            /\ batch[i - m] \in PageVideos /\ batch[j - m] \in PageVideos
        BY <1>3, <1>9, <2>2, <3>1
      <4>2. QED
        BY <4>1, PivotOK DEF Place
    <3>5. QED
      BY <1>9, <2>2, <3>1, <3>3, <3>4 DEF Later
  <2>3. CASE i \in 1 .. m /\ j \in m + 1 .. m + n
    <3>1. /\ g[i].row \in PageVideos /\ g[i].row \notin Left(phase, row)
          /\ g[j].row \in PageVideos /\ g[j].row \in Left(phase, row)
      BY <1>3, <1>7, <1>8, <1>9, <2>3
    <3>2. \A v \in Left(phase, row), w \in PageVideos : Later(v, w) => w \in Left(phase, row)
      BY Cuts
    <3> DEFINE v == g[i].row
               w == g[j].row
    <3>3. v \in PageVideos /\ w \in PageVideos /\ v # w /\ ~Later(w, v)
      BY <3>1, <3>2
    <3> HIDE DEF v, w
    <3>4. Later(v, w)
      BY <3>3, LaterOrder
    <3>5. QED
      BY <3>4 DEF v, w
  <2>4. (i \in 1 .. m \/ i \in m + 1 .. m + n) /\ (j \in 1 .. m \/ j \in m + 1 .. m + n)
    BY <1>5
  <2>5. QED
    BY <2>1, <2>2, <2>3, <2>4
<1>12. RowsOf(g, m + n) = RowsOf(f, m) \cup Firsts(batch, n)
  <2>1. ASSUME NEW i \in 1 .. m + n PROVE g[i].row \in RowsOf(f, m) \cup Firsts(batch, n)
    <3>1. i \in 1 .. m \/ i \in m + 1 .. m + n
      BY <1>5
    <3>2. QED
      BY <1>7, <1>9, <3>1 DEF RowsOf, Firsts
  <2>2. ASSUME NEW i \in 1 .. m PROVE f[i].row \in RowsOf(g, m + n)
    <3>1. i \in 1 .. m + n /\ g[i] = f[i]
      BY <1>5, <1>7
    <3>2. QED
      BY <3>1 DEF RowsOf
  <2>3. ASSUME NEW i \in 1 .. n PROVE batch[i] \in RowsOf(g, m + n)
    <3>1. i + m \in m + 1 .. m + n /\ i + m \in 1 .. m + n /\ (i + m) - m = i
      BY <1>5
    <3>2. g[i + m].row = batch[i]
      BY <1>9, <3>1
    <3>3. QED
      BY <3>1, <3>2 DEF RowsOf
  <2>4. RowsOf(g, m + n) \subseteq RowsOf(f, m) \cup Firsts(batch, n)
    BY <2>1 DEF RowsOf
  <2>5. RowsOf(f, m) \subseteq RowsOf(g, m + n)
    BY <2>2 DEF RowsOf
  <2>6. Firsts(batch, n) \subseteq RowsOf(g, m + n)
    BY <2>3 DEF Firsts
  <2>7. QED
    BY <2>4, <2>5, <2>6
<1>13. QED
  BY <1>1, <1>5, <1>7, <1>10, <1>11, <1>12 DEF Found, Longer, m, n

Places == [phase: {0, 1}, row: PageVideos \cup {0}]

PageRead ==
    [at: {"none", "reading"}, phase: {0, 1}, row: PageVideos \cup {0},
     found: Seq(PageRow) \cup Seq(PageVideos), scanned: 0 .. ScanLimit, last: Places]

\* A page that is read: its rows are those between the cursor and where it has got to.
PageOK(cur, pg) ==
    /\ Place(pg.phase, pg.row)
    /\ filter = "both" =>
          /\ Found(pg.found) /\ Len(pg.found) <= Limit
          /\ Gave(Left(cur.phase, cur.row), Left(pg.phase, pg.row), RowsOf(pg.found, Len(pg.found)))
    /\ filter = "landscape" =>
          /\ pg.found \in Seq(PageVideos) /\ Distinct(pg.found) /\ pg.scanned < ScanLimit
          /\ Gave(Left(cur.phase, cur.row), Left(pg.phase, pg.row), Elems(pg.found))

WalkOK(cur, pg, wk, srv) ==
    /\ cur \in Places /\ pg \in PageRead
    /\ wk \in {"walking", "ended", "fallback"}
    /\ srv \in Seq(PageVideos) /\ Distinct(srv)
    /\ wk = "walking" => /\ Place(cur.phase, cur.row)
                         /\ Gave(PageVideos, Left(cur.phase, cur.row), Elems(srv))
    /\ wk = "ended" => Gave(PageVideos, {}, Elems(srv))
    /\ pg.at = "reading" => wk = "walking" /\ PageOK(cur, pg)

FeedTyped ==
    /\ playable \subseteq PageVideos /\ steady \subseteq playable
    /\ seed \in Seeds /\ filter \in {"both", "landscape"} /\ changes \in 0 .. MaxPageChanges

PagesInv == FeedTyped /\ WalkOK(cursor, page, walk, served)

\* The pivot.
LEMMA PivotTyped == seed \in Seeds => Pages!SeedShufflePivot \in Int
<1> SUFFICES ASSUME seed \in Seeds PROVE Pages!SeedShufflePivot \in Int
  OBVIOUS
<1> DEFINE x == seed * Increment
<1>1. seed \in Int /\ Increment \in Int /\ Modulus \in Int /\ Modulus > 0
  BY PageConstants
<1>2. x \in Int
  BY <1>1
<1> HIDE DEF x
<1>3. x % Modulus \in Int
  BY <1>1, <1>2
<1>4. Modulus - (x % Modulus) \in Int
  BY <1>1, <1>3
<1>5. QED
  BY <1>3, <1>4 DEF x, Pages!SeedShufflePivot

\* A step of the walk: what remains to be shown of it.
LEMMA WalkKept ==
    ASSUME UNCHANGED <<seed, filter>>, steady' \subseteq steady,
           WalkOK(cursor', page', walk', served')
    PROVE  WalkOK(cursor, page, walk, served)'
<1>1. \A v, phase : Pages!InPhase(v, phase)' = Pages!InPhase(v, phase)
  <2>1. Pages!SeedShufflePivot' = Pages!SeedShufflePivot
    BY DEF Pages!SeedShufflePivot
  <2>2. QED
    BY <2>1 DEF Pages!InPhase
<1>2. Left(cursor.phase, cursor.row)' = Left(cursor'.phase, cursor'.row)
  BY <1>1 DEF Left
<1>3. Left(page.phase, page.row)' = Left(page'.phase, page'.row)
  BY <1>1 DEF Left
<1>4. /\ Place(cursor.phase, cursor.row)' <=> Place(cursor'.phase, cursor'.row)
      /\ Place(page.phase, page.row)' <=> Place(page'.phase, page'.row)
  BY <1>1 DEF Place
<1>5. Found(page.found)' <=> Found(page'.found)
  BY <1>1 DEF Found, Later, Place
<1>6. /\ Gave(PageVideos, Left(cursor'.phase, cursor'.row), Elems(served'))
            => Gave(PageVideos, Left(cursor.phase, cursor.row), Elems(served))'
      /\ Gave(PageVideos, {}, Elems(served')) => Gave(PageVideos, {}, Elems(served))'
  BY <1>2 DEF Gave, Pages!Wanted
<1>7. Gave(Left(cursor'.phase, cursor'.row), Left(page'.phase, page'.row),
           RowsOf(page'.found, Len(page'.found)))
         => Gave(Left(cursor.phase, cursor.row), Left(page.phase, page.row),
                 RowsOf(page.found, Len(page.found)))'
  BY <1>2, <1>3 DEF Gave, Pages!Wanted
<1>8. Gave(Left(cursor'.phase, cursor'.row), Left(page'.phase, page'.row), Elems(page'.found))
         => Gave(Left(cursor.phase, cursor.row), Left(page.phase, page.row), Elems(page.found))'
  BY <1>2, <1>3 DEF Gave, Pages!Wanted
<1>9. PageOK(cursor', page') => PageOK(cursor, page)'
  BY <1>4, <1>5, <1>7, <1>8 DEF PageOK
<1>10. QED
  BY <1>4, <1>6, <1>9 DEF WalkOK

LEMMA NoPageTyped == Pages!NoPage \in PageRead /\ Pages!NoPage.at = "none"
<1> DEFINE found == <<>>
           zero == 0
<1>1. Pages!Start \in Places
  BY DEF Pages!Start, Places
<1>2. found \in Seq(PageRow) \cup Seq(PageVideos) /\ zero \in 0 .. ScanLimit
  BY PageConstants
<1>3. Pages!NoPage = [at |-> "none", phase |-> 0, row |-> 0, found |-> found, scanned |-> zero,
                      last |-> Pages!Start]
  BY DEF Pages!NoPage
<1> HIDE DEF found, zero
<1>4. QED
  BY <1>1, <1>2, <1>3 DEF PageRead

LEMMA PagesBegin == Pages!Init => PagesInv
<1> SUFFICES ASSUME Pages!Init PROVE PagesInv
  OBVIOUS
<1>1. FeedTyped
  BY PageConstants DEF Pages!Init, FeedTyped
<1>2. /\ cursor.phase = 0 /\ cursor.row = 0 /\ cursor \in Places
      /\ page.at = "none" /\ page \in PageRead
  BY NoPageTyped DEF Pages!Init, Pages!Start, Places
<1>3. Place(cursor.phase, cursor.row)
  BY <1>2 DEF Place
<1>4. served \in Seq(PageVideos) /\ Distinct(served) /\ Elems(served) = {}
  BY DEF Pages!Init, Distinct, Elems
<1>5. Left(0, 0) = PageVideos
  BY PivotTyped, Cuts DEF FeedTyped, Pages!Init
<1>6. Gave(PageVideos, Left(cursor.phase, cursor.row), Elems(served))
  BY <1>2, <1>4, <1>5 DEF Gave
<1>7. walk = "walking"
  BY DEF Pages!Init
<1>8. QED
  BY <1>1, <1>2, <1>3, <1>4, <1>6, <1>7 DEF PagesInv, WalkOK

LEMMA FeedChangesOK == ASSUME PagesInv, NEW v \in PageVideos, Pages!FeedChanges(v) PROVE PagesInv'
<1>1. /\ UNCHANGED <<seed, filter, cursor, page, walk, served>> /\ steady' \subseteq steady
  BY DEF Pages!FeedChanges
<1>2. FeedTyped'
  BY PageConstants DEF PagesInv, FeedTyped, Pages!FeedChanges
<1>3. WalkOK(cursor', page', walk', served')
  BY <1>1 DEF PagesInv
<1>4. QED
  BY <1>1, <1>2, <1>3, WalkKept DEF PagesInv

LEMMA RequestOfPageOK == ASSUME PagesInv, Pages!Request PROVE PagesInv'
<1>1. /\ UNCHANGED <<playable, seed, filter, cursor, walk, served, steady, changes>>
      /\ walk = "walking" /\ page' = [Pages!NoPage EXCEPT !.at = "reading", !.phase = cursor.phase,
                                                          !.row = cursor.row]
  BY DEF Pages!Request
<1>2. WalkOK(cursor, page, walk, served) /\ cursor \in Places /\ Place(cursor.phase, cursor.row)
  BY <1>1 DEF PagesInv, WalkOK
<1>3. FeedTyped'
  BY <1>1 DEF PagesInv, FeedTyped
<1>4. /\ page' \in PageRead /\ page'.phase = cursor.phase /\ page'.row = cursor.row
      /\ page'.found = <<>> /\ page'.scanned = 0
  <2> DEFINE found == <<>>
             zero == 0
             ph == cursor.phase
             row == cursor.row
             st == "reading"
             start == Pages!Start
  <2>1. found \in Seq(PageRow) \cup Seq(PageVideos) /\ zero \in 0 .. ScanLimit
        /\ ph \in {0, 1} /\ row \in PageVideos \cup {0} /\ st \in {"none", "reading"}
        /\ start \in Places
    BY <1>2, PageConstants DEF Places, Pages!Start
  <2>2. page' = [at |-> st, phase |-> ph, row |-> row, found |-> found, scanned |-> zero,
                 last |-> start]
    BY <1>1 DEF Pages!NoPage
  <2> HIDE DEF found, zero, ph, row, st, start
  <2>3. page' \in PageRead /\ page'.phase = ph /\ page'.row = row /\ page'.found = found
        /\ page'.scanned = zero
    BY <2>1, <2>2 DEF PageRead
  <2>4. QED
    BY <2>3 DEF found, zero, ph, row
<1>5. PageOK(cursor, page')
  <2> DEFINE found == page'.found
  <2>1. found \in Seq(PageRow) /\ found \in Seq(PageVideos) /\ Len(found) = 0 /\ DOMAIN found = {}
    BY <1>4
  <2>2. Place(page'.phase, page'.row) /\ page'.scanned < ScanLimit
    BY <1>2, <1>4, PageConstants
  <2> HIDE DEF found
  <2>3. Found(found) /\ Len(found) <= Limit /\ RowsOf(found, Len(found)) = {}
    BY <2>1, PageConstants DEF Found, RowsOf
  <2>4. Distinct(found) /\ Elems(found) = {}
    BY <2>1 DEF Distinct, Elems
  <2>5. Left(page'.phase, page'.row) = Left(cursor.phase, cursor.row)
    BY <1>4
  <2>6. \A L : Gave(L, L, {})
    BY DEF Gave
  <2>7. QED
    BY <2>1, <2>2, <2>3, <2>4, <2>5, <2>6 DEF PageOK, found
<1>6. WalkOK(cursor', page', walk', served')
  BY <1>1, <1>2, <1>4, <1>5 DEF WalkOK
<1>7. QED
  BY <1>1, <1>3, <1>6, WalkKept DEF PagesInv

\* The rows that an answer gives.
LEMMA TakenOK ==
    ASSUME NEW f, Found(f), NEW n \in 0 .. Len(f), NEW taken, taken = SubSeq(f, 1, n),
           NEW ids, ids = Pages!Ids(taken)
    PROVE  /\ Len(taken) = n /\ \A i \in 1 .. n : taken[i] = f[i] /\ f[i] \in PageRow
           /\ ids \in Seq(PageVideos) /\ Distinct(ids) /\ Elems(ids) = RowsOf(f, n)
<1>1. f \in Seq(PageRow) /\ Len(f) \in Nat /\ n \in Nat
  BY DEF Found
<1>2. /\ taken \in Seq(PageRow) /\ Len(taken) = n
      /\ \A i \in 1 .. n : taken[i] = f[i] /\ f[i] \in PageRow
  BY <1>1
<1>3. ids = [i \in 1 .. n |-> taken[i].row]
  BY <1>2 DEF Pages!Ids
<1>4. \A i \in 1 .. n : ids[i] = f[i].row /\ f[i].row \in PageVideos
  BY <1>2, <1>3 DEF PageRow
<1>5. ids \in Seq(PageVideos) /\ DOMAIN ids = 1 .. n
  BY <1>1, <1>3, <1>4
<1>6. Elems(ids) = RowsOf(f, n)
  BY <1>4, <1>5 DEF Elems, RowsOf
<1>7. Distinct(ids)
  <2> SUFFICES ASSUME NEW i \in 1 .. n, NEW j \in 1 .. n, ids[i] = ids[j] PROVE i = j
    BY <1>5 DEF Distinct
  <2>1. f[i].row = f[j].row /\ f[i].row \in PageVideos /\ i \in 1 .. Len(f) /\ j \in 1 .. Len(f)
    BY <1>1, <1>4
  <2>2. ~(i < j) /\ ~(j < i)
    BY <2>1, LaterOrder DEF Found
  <2>3. QED
    BY <1>1, <2>2
<1>8. QED
  BY <1>2, <1>5, <1>6, <1>7

\* An answer adds to what was served.
LEMMA ServedOK ==
    ASSUME NEW srv \in Seq(PageVideos), Distinct(srv), NEW ids \in Seq(PageVideos), Distinct(ids),
           NEW M, NEW N, Gave(PageVideos, M, Elems(srv)), Gave(M, N, Elems(ids))
    PROVE  /\ srv \o ids \in Seq(PageVideos) /\ Distinct(srv \o ids)
           /\ Gave(PageVideos, N, Elems(srv \o ids))
<1>1. /\ Gave(PageVideos, N, Elems(srv) \cup Elems(ids)) /\ Elems(srv) \cap Elems(ids) = {}
  BY GaveJoin
<1>2. /\ srv \o ids \in Seq(PageVideos) /\ Elems(srv \o ids) = Elems(srv) \cup Elems(ids)
      /\ Distinct(srv \o ids)
  BY <1>1, ConcatOK
<1>3. QED
  BY <1>1, <1>2

Kept(X) == {v \in X : Pages!Wanted(v)}

\* What one query adds to a page.
LEMMA QueryOK ==
    ASSUME steady \subseteq playable, playable \subseteq PageVideos, Pages!SeedShufflePivot \in Int,
           NEW phase, NEW row, Place(phase, row), NEW count \in Nat \ {0},
           NEW batch, batch = Pages!Rows(phase, row, count),
           NEW L, NEW X, Gave(L, Left(phase, row), X)
    PROVE  /\ Len(batch) < count /\ phase = 0 => Gave(L, Left(1, 0), X \cup Kept(Firsts(batch, Len(batch))))
           /\ Len(batch) < count /\ phase = 1 => Gave(L, {}, X \cup Kept(Firsts(batch, Len(batch))))
           /\ \A n \in 1 .. Len(batch) :
                 /\ batch[n] \in PageVideos /\ Place(phase, batch[n])
                 /\ Gave(L, Left(phase, batch[n]), X \cup Kept(Firsts(batch, n)))
<1>1. ASSUME Len(batch) < count, phase = 0
      PROVE  Gave(L, Left(1, 0), X \cup Kept(Firsts(batch, Len(batch))))
  <2>1. Took(Left(phase, row), Left(1, 0), Firsts(batch, Len(batch)))
    BY <1>1, BatchWhole
  <2>2. Gave(Left(phase, row), Left(1, 0), Kept(Firsts(batch, Len(batch))))
    BY <2>1, TookGives DEF Kept
  <2>3. QED
    BY <2>2, GaveJoin
<1>2. ASSUME Len(batch) < count, phase = 1
      PROVE  Gave(L, {}, X \cup Kept(Firsts(batch, Len(batch))))
  <2>1. Took(Left(phase, row), {}, Firsts(batch, Len(batch)))
    BY <1>2, BatchWhole
  <2> DEFINE none == {}
  <2>2. Took(Left(phase, row), none, Firsts(batch, Len(batch)))
    BY <2>1
  <2> HIDE DEF none
  <2>3. Gave(Left(phase, row), none, Kept(Firsts(batch, Len(batch))))
    BY <2>2, TookGives DEF Kept
  <2>4. Gave(L, none, X \cup Kept(Firsts(batch, Len(batch))))
    BY <2>3, GaveJoin
  <2>5. QED
    BY <2>4 DEF none
<1>3. ASSUME NEW n \in 1 .. Len(batch)
      PROVE  /\ batch[n] \in PageVideos /\ Place(phase, batch[n])
             /\ Gave(L, Left(phase, batch[n]), X \cup Kept(Firsts(batch, n)))
  <2>1. /\ batch[n] \in PageVideos /\ Place(phase, batch[n])
        /\ Took(Left(phase, row), Left(phase, batch[n]), Firsts(batch, n))
    BY BatchStep
  <2>2. Gave(Left(phase, row), Left(phase, batch[n]), Kept(Firsts(batch, n)))
    BY <2>1, TookGives DEF Kept
  <2>3. QED
    BY <2>1, <2>2, GaveJoin
<1>4. QED
  BY <1>1, <1>2, <1>3

\* A row of a page as a cursor.
LEMMA RowPlace == \A r \in PageRow : r \in Places /\ r.phase \in {0, 1} /\ r.row \in PageVideos
BY DEF PageRow, Places

\* An answer with rows: its cursor is the last of them, or the walk has ended.
LEMMA AnswerOK ==
    ASSUME NEW items, NEW more, NEW last, Pages!Answer(items, more, last), walk = "walking",
           WalkOK(cursor, page, walk, served), last \in Places,
           items \in Seq(PageVideos), Distinct(items),
           more => Place(last.phase, last.row)
                   /\ Gave(Left(cursor.phase, cursor.row), Left(last.phase, last.row), Elems(items)),
           ~more => Gave(Left(cursor.phase, cursor.row), {}, Elems(items))
    PROVE  WalkOK(cursor', page', walk', served')
<1>1. /\ page' = Pages!NoPage /\ served' = served \o items /\ cursor' = last
      /\ walk' = IF more THEN "walking" ELSE "ended"
  BY DEF Pages!Answer
<1>2. /\ served \in Seq(PageVideos) /\ Distinct(served)
      /\ Gave(PageVideos, Left(cursor.phase, cursor.row), Elems(served))
  BY DEF WalkOK
<1>3. page' \in PageRead /\ page'.at = "none"
  BY <1>1, NoPageTyped
<1>4. CASE more
  <2>1. /\ served' \in Seq(PageVideos) /\ Distinct(served')
        /\ Gave(PageVideos, Left(last.phase, last.row), Elems(served'))
    BY <1>1, <1>2, <1>4, ServedOK
  <2>2. QED
    BY <1>1, <1>3, <1>4, <2>1 DEF WalkOK
<1>5. CASE ~more
  <2> DEFINE none == {}
  <2>1. Gave(Left(cursor.phase, cursor.row), none, Elems(items))
    BY <1>5
  <2> HIDE DEF none
  <2>2. /\ served' \in Seq(PageVideos) /\ Distinct(served')
        /\ Gave(PageVideos, none, Elems(served'))
    BY <1>1, <1>2, <2>1, ServedOK
  <2>3. QED
    BY <1>1, <1>3, <1>5, <2>2 DEF WalkOK, none
<1>6. QED
  BY <1>4, <1>5

LEMMA FallbackOK ==
    ASSUME Pages!Fallback, WalkOK(cursor, page, walk, served)
    PROVE  WalkOK(cursor', page', walk', served')
<1>1. page' = Pages!NoPage /\ served' = served /\ cursor' = cursor /\ walk' = "fallback"
  BY DEF Pages!Fallback
<1>2. page' \in PageRead /\ page'.at = "none"
  BY <1>1, NoPageTyped
<1>3. QED
  BY <1>1, <1>2 DEF WalkOK

LEMMA QueryAllOK == ASSUME PagesInv, Pages!QueryAll PROVE PagesInv'
<1> DEFINE f == page.found
           count == Limit + 1 - Len(f)
           phase == page.phase
           batch == Pages!Rows(phase, page.row, count)
           g == f \o RowsFrom(phase, batch)
           more == Len(g) > Limit \/ Len(batch) >= count
           n == IF Len(g) < Limit THEN Len(g) ELSE Limit
           taken == SubSeq(g, 1, n)
           L == Left(cursor.phase, cursor.row)
<1>1. /\ page.at = "reading" /\ filter = "both"
      /\ UNCHANGED <<playable, seed, filter, steady, changes>>
      /\ \/ /\ ~more /\ phase = 0
            /\ page' = [page EXCEPT !.phase = 1, !.row = 0, !.found = g]
            /\ UNCHANGED <<cursor, walk, served>>
         \/ Pages!Fallback
         \/ /\ more \/ phase # 0
            /\ Pages!Answer(Pages!Ids(taken), more /\ taken # <<>>,
                            IF taken = <<>> THEN Pages!Start ELSE Pages!LastTaken(g, taken))
  BY DEF Pages!QueryAll, RowsFrom
<1>2. /\ WalkOK(cursor, page, walk, served) /\ FeedTyped /\ Pages!SeedShufflePivot \in Int
      /\ playable \subseteq PageVideos /\ steady \subseteq playable
  BY PivotTyped DEF PagesInv, FeedTyped
<1>3. /\ walk = "walking" /\ page \in PageRead /\ phase \in {0, 1} /\ Place(phase, page.row)
      /\ Found(f) /\ Len(f) <= Limit /\ Gave(L, Left(phase, page.row), RowsOf(f, Len(f)))
      /\ Place(cursor.phase, cursor.row) /\ cursor \in Places
  <2>1. page.at = "reading" /\ filter = "both"
    BY <1>1
  <2>2. /\ walk = "walking" /\ page \in PageRead /\ PageOK(cursor, page)
        /\ Place(cursor.phase, cursor.row) /\ cursor \in Places
    BY <1>2, <2>1 DEF WalkOK
  <2>3. phase \in {0, 1}
    BY <2>2 DEF PageRead
  <2>4. /\ Place(phase, page.row) /\ Found(f) /\ Len(f) <= Limit
        /\ Gave(L, Left(phase, page.row), RowsOf(f, Len(f)))
    BY <2>1, <2>2 DEF PageOK
  <2>5. QED
    BY <2>2, <2>3, <2>4
<1>4. Limit \in Nat /\ Limit > 0 /\ Len(f) \in Nat /\ count \in Nat \ {0}
  BY <1>3, PageConstants DEF Found
<1> HIDE DEF f, count, phase, batch
<1>5. /\ Found(g) /\ Len(g) = Len(f) + Len(batch) /\ Len(batch) \in 0 .. count
      /\ RowsOf(g, Len(g)) = RowsOf(f, Len(f)) \cup Firsts(batch, Len(batch))
  <2> DEFINE row == page.row
  <2>1. /\ Gave(L, Left(phase, row), RowsOf(f, Len(f))) /\ Place(phase, row)
        /\ batch = Pages!Rows(phase, row, count)
        /\ g = f \o RowsFrom(phase, batch)
    BY <1>3 DEF batch
  <2> HIDE DEF row, L, g
  <2>2. /\ playable \subseteq PageVideos /\ steady \subseteq playable /\ Found(f)
        /\ Pages!SeedShufflePivot \in Int /\ filter = "both" /\ count \in Nat \ {0}
    BY <1>1, <1>2, <1>3, <1>4
  <2>3. Found(g) /\ Longer(f, batch, g)
    BY <2>1, <2>2, FoundMore
  <2>4. Len(batch) \in 0 .. count
    BY <2>1, <2>2, RowsOK
  <2>5. QED
    BY <2>3, <2>4 DEF Longer
<1>6. \A X : Kept(X) = X
  BY <1>1 DEF Kept, Pages!Wanted
<1>7. /\ Len(batch) < count /\ phase = 0 => Gave(L, Left(1, 0), RowsOf(g, Len(g)))
      /\ Len(batch) < count /\ phase = 1 => Gave(L, {}, RowsOf(g, Len(g)))
      /\ \A i \in 1 .. Len(batch) :
            /\ batch[i] \in PageVideos /\ Place(phase, batch[i])
            /\ Gave(L, Left(phase, batch[i]), RowsOf(f, Len(f)) \cup Firsts(batch, i))
  <2> DEFINE X == RowsOf(f, Len(f))
             row == page.row
  <2>1. Gave(L, Left(phase, row), X) /\ Place(phase, row) /\ batch = Pages!Rows(phase, row, count)
    BY <1>3 DEF batch
  <2> HIDE DEF X, row, L
  <2>2. /\ Len(batch) < count /\ phase = 0 => Gave(L, Left(1, 0), X \cup Kept(Firsts(batch, Len(batch))))
        /\ Len(batch) < count /\ phase = 1 => Gave(L, {}, X \cup Kept(Firsts(batch, Len(batch))))
        /\ \A i \in 1 .. Len(batch) :
              /\ batch[i] \in PageVideos /\ Place(phase, batch[i])
              /\ Gave(L, Left(phase, batch[i]), X \cup Kept(Firsts(batch, i)))
    BY <1>2, <1>4, <2>1, QueryOK
  <2>3. QED
    BY <1>5, <1>6, <2>2 DEF X
<1> HIDE DEF g
<1>8. FeedTyped' /\ UNCHANGED <<seed, filter>> /\ steady' \subseteq steady
  BY <1>1, <1>2 DEF FeedTyped
<1>9. CASE /\ ~more /\ phase = 0
           /\ page' = [page EXCEPT !.phase = 1, !.row = 0, !.found = g]
           /\ UNCHANGED <<cursor, walk, served>>
  <2> DEFINE one == 1
             zero == 0
  <2>1. one \in {0, 1} /\ zero \in PageVideos \cup {0} /\ g \in Seq(PageRow)
    BY <1>5 DEF Found
  <2>2. page' = [page EXCEPT !.phase = one, !.row = zero, !.found = g]
    BY <1>9
  <2> HIDE DEF one, zero
  <2>3. page' \in PageRead /\ page'.phase = one /\ page'.row = zero /\ page'.found = g
    BY <1>3, <2>1, <2>2 DEF PageRead
  <2>4. page'.phase = 1 /\ page'.row = 0 /\ page'.found = g
    BY <2>3 DEF one, zero
  <2>5. Len(batch) < count /\ Len(g) <= Limit
    BY <1>4, <1>5, <1>9
  <2>6. Place(page'.phase, page'.row)
    BY <2>4 DEF Place
  <2>7. Gave(L, Left(page'.phase, page'.row), RowsOf(page'.found, Len(page'.found)))
    BY <1>7, <1>9, <2>4, <2>5
  <2>8. PageOK(cursor', page')
    BY <1>1, <1>5, <1>9, <2>4, <2>5, <2>6, <2>7 DEF PageOK
  <2>9. WalkOK(cursor', page', walk', served')
    BY <1>2, <1>3, <1>9, <2>3, <2>8 DEF WalkOK
  <2>10. QED
    BY <1>8, <2>9, WalkKept DEF PagesInv
<1>10. CASE Pages!Fallback
  BY <1>2, <1>8, <1>10, FallbackOK, WalkKept DEF PagesInv
<1>11. CASE /\ more \/ phase # 0
            /\ Pages!Answer(Pages!Ids(taken), more /\ taken # <<>>,
                            IF taken = <<>> THEN Pages!Start ELSE Pages!LastTaken(g, taken))
  <2> DEFINE ids == Pages!Ids(taken)
             goes == more /\ taken # <<>>
             last == IF taken = <<>> THEN Pages!Start ELSE Pages!LastTaken(g, taken)
  <2>1. n \in 0 .. Len(g) /\ Len(g) \in Nat /\ n <= Limit
    BY <1>4, <1>5 DEF Found
  <2> HIDE DEF n
  <2>2. /\ Len(taken) = n /\ \A i \in 1 .. n : taken[i] = g[i] /\ g[i] \in PageRow
        /\ ids \in Seq(PageVideos) /\ Distinct(ids) /\ Elems(ids) = RowsOf(g, n)
    <3>1. taken = SubSeq(g, 1, n) /\ ids = Pages!Ids(taken)
      OBVIOUS
    <3> HIDE DEF taken, ids
    <3>2. QED
      BY <1>5, <2>1, <3>1, TakenOK
  <2>3. more => Len(batch) \in 1 .. Len(batch) /\ n # 0
    BY <1>3, <1>4, <1>5, <2>1 DEF n
  <2>4. ASSUME n # 0 PROVE taken # <<>> /\ last = g[n] /\ last \in Places /\ last = taken[n]
    <3>1. taken # <<>> /\ n \in 1 .. n
      BY <2>1, <2>2, <2>4
    <3>2. last = taken[n]
      BY <2>2, <3>1 DEF Pages!LastTaken
    <3>3. QED
      BY <2>2, <3>1, <3>2, RowPlace
  <2>5. n = 0 => taken = <<>> /\ last \in Places
    BY <2>2 DEF Places, Pages!Start
  <2>6. ASSUME goes
        PROVE  Place(last.phase, last.row) /\ Gave(L, Left(last.phase, last.row), Elems(ids))
    <3> DEFINE M == Left(phase, batch[Len(batch)])
    <3>1. /\ Place(phase, batch[Len(batch)]) /\ Gave(L, M, RowsOf(g, Len(g)))
      BY <1>5, <1>7, <2>3, <2>6
    <3>2. UpClosed(L) /\ UpClosed(M) /\ L \subseteq PageVideos
      BY <1>2, <1>3, <3>1, Cuts DEF UpClosed, Left
    <3>3. n \in 1 .. Len(g)
      BY <2>1, <2>3, <2>6
    <3> HIDE DEF L, M
    <3>4. Gave(L, Left(g[n].phase, g[n].row), RowsOf(g, n))
      BY <1>2, <1>5, <3>1, <3>2, <3>3, CutBack
    <3>5. Place(g[n].phase, g[n].row)
      BY <1>5, <3>3 DEF Found
    <3>6. QED
      BY <2>2, <2>3, <2>4, <2>6, <3>4, <3>5
  <2>7. ASSUME ~goes PROVE Gave(L, {}, Elems(ids))
    <3>1. ~more
      <4>1. more => taken # <<>>
        BY <2>3, <2>4
      <4>2. QED
        BY <4>1, <2>7
    <3>2. Len(batch) < count /\ n = Len(g) /\ phase = 1
      BY <1>3, <1>4, <1>5, <1>11, <2>1, <3>1 DEF n
    <3>3. QED
      BY <1>7, <2>2, <3>2
  <2>8. last \in Places
    BY <2>4, <2>5
  <2>9. Pages!Answer(ids, goes, last)
    BY <1>11
  <2> HIDE DEF ids, goes, last
  <2>10. WalkOK(cursor', page', walk', served')
    BY <1>2, <1>3, <2>2, <2>6, <2>7, <2>8, <2>9, AnswerOK
  <2>11. QED
    BY <1>8, <2>10, WalkKept DEF PagesInv
<1>12. QED
  BY <1>1, <1>9, <1>10, <1>11

LEMMA LeastOfTwo ==
    ASSUME NEW a \in Int, NEW b \in Int
    PROVE  /\ Pages!Min({a, b}) \in {a, b} /\ Pages!Min({a, b}) <= a /\ Pages!Min({a, b}) <= b
           /\ Pages!Max({a, b}) \in {a, b} /\ Pages!Max({a, b}) >= a /\ Pages!Max({a, b}) >= b
<1>1. (\E x \in {a, b} : \A y \in {a, b} : x <= y) /\ (\E x \in {a, b} : \A y \in {a, b} : x >= y)
  OBVIOUS
<1>2. Pages!Min({a, b}) \in {a, b} /\ \A y \in {a, b} : Pages!Min({a, b}) <= y
  BY <1>1 DEF Pages!Min
<1>3. Pages!Max({a, b}) \in {a, b} /\ \A y \in {a, b} : Pages!Max({a, b}) >= y
  BY <1>1 DEF Pages!Max
<1>4. QED
  BY <1>2, <1>3

\* A query may look at one row at least, and at no more than are left for the page.
LEMMA BudgetOK ==
    ASSUME NEW scanned \in Nat, scanned < ScanLimit, NEW wanted \in Int,
           NEW budget, budget = Pages!Min({ScanLimit - scanned, Pages!Max({QueryFloor, wanted})})
    PROVE  budget \in Nat \ {0} /\ scanned + budget <= ScanLimit
<1> DEFINE room == ScanLimit - scanned
           floor == Pages!Max({QueryFloor, wanted})
<1>1. QueryFloor \in Int /\ QueryFloor > 0 /\ room \in Int /\ room > 0
  BY PageConstants
<1>2. floor \in Int /\ floor > 0
  <2> DEFINE least == QueryFloor
  <2>1. least \in Int
    BY <1>1
  <2> HIDE DEF least
  <2>2. Pages!Max({least, wanted}) \in {least, wanted} /\ Pages!Max({least, wanted}) >= least
    BY <2>1, LeastOfTwo
  <2>3. QED
    BY <1>1, <2>1, <2>2 DEF least
<1>3. budget = Pages!Min({room, floor})
  OBVIOUS
<1> HIDE DEF floor
<1>4. budget \in {room, floor} /\ budget <= room
  <2> HIDE DEF room
  <2>1. QED
    BY <1>1, <1>2, <1>3, LeastOfTwo
<1>5. QED
  BY <1>1, <1>2, <1>4, PageConstants

\* The rows of a landscape video among the first n.
Hits(batch, n) ==
    Pages!InOrder({v \in playable : Pages!Matches(v) /\ \E i \in 1 .. n : batch[i] = v})

Grown(f, X, g) == g \in Seq(PageVideos) /\ Distinct(g) /\ Elems(g) = Elems(f) \cup X

\* What was found, and those among the rows that were looked at.
LEMMA HitsOK ==
    ASSUME playable \subseteq PageVideos, steady \subseteq playable, filter = "landscape",
           NEW f \in Seq(PageVideos), Distinct(f),
           NEW L, NEW phase, NEW row, Gave(L, Left(phase, row), Elems(f)),
           NEW count \in Nat \ {0}, NEW batch, batch = Pages!Rows(phase, row, count),
           NEW n \in Nat, n <= Len(batch), NEW g, g = f \o Hits(batch, n)
    PROVE  Grown(f, Kept(Firsts(batch, n)), g)
<1> DEFINE S == {v \in playable : Pages!Matches(v) /\ \E i \in 1 .. n : batch[i] = v}
           h == Hits(batch, n)
<1>1. Len(batch) \in 0 .. count /\ batch \in [1 .. Len(batch) -> Ahead(phase, row)]
  BY RowsOK
<1>2. \A i \in 1 .. n : batch[i] \in playable /\ batch[i] \in Left(phase, row)
  <2>1. \A v \in Ahead(phase, row) : v \in playable /\ v \in Left(phase, row)
    BY DEF Ahead, Left
  <2>2. \A i \in 1 .. n : i \in 1 .. Len(batch)
    BY <1>1
  <2>3. QED
    BY <1>1, <2>1, <2>2
<1>3. S = Kept(Firsts(batch, n)) /\ S \in SUBSET PageVideos
  BY <1>2 DEF Kept, Firsts, Pages!Wanted
<1>4. h = Pages!InOrder(S)
  BY DEF Hits
<1>5. h \in Seq(PageVideos) /\ Elems(h) = S /\ Distinct(h)
  <2> HIDE DEF S, h
  <2>1. QED
    BY <1>3, <1>4, OrderedList
<1>6. Elems(f) \cap Elems(h) = {}
  <2>1. Elems(h) \subseteq Left(phase, row)
    BY <1>2, <1>5
  <2>2. QED
    BY <2>1 DEF Gave
<1>7. g = f \o h
  OBVIOUS
<1> HIDE DEF S, h
<1>8. g \in Seq(PageVideos) /\ Elems(g) = Elems(f) \cup Elems(h) /\ Distinct(g)
  BY <1>5, <1>6, <1>7, ConcatOK
<1>9. QED
  BY <1>3, <1>5, <1>8 DEF Grown

LEMMA QueryOrientedOK == ASSUME PagesInv, Pages!QueryOriented PROVE PagesInv'
<1> DEFINE f == page.found
           wanted == Limit - Len(f)
           budget == Pages!Min({ScanLimit - page.scanned, Pages!Max({QueryFloor, wanted})})
           phase == page.phase
           batch == Pages!Rows(phase, page.row, budget + 1)
           usable == Pages!Min({Len(batch), budget})
           full == {n \in 1 .. usable : Len(Hits(batch, n)) >= wanted}
           looked == IF full # {} THEN Pages!Min(full) ELSE usable
           scanned == page.scanned + looked
           g == f \o Hits(batch, looked)
           last == IF looked = 0 THEN page.last ELSE [phase |-> phase, row |-> batch[looked]]
           spent == scanned >= ScanLimit
           L == Left(cursor.phase, cursor.row)
           nextPhase == IF Len(batch) > budget THEN phase ELSE 1
           nextRow == IF Len(batch) > budget THEN last.row ELSE 0
           going == looked < Len(batch) \/ phase = 0 \/ spent
<1>1. /\ page.at = "reading" /\ filter = "landscape"
      /\ UNCHANGED <<playable, seed, filter, steady, changes>>
      /\ \/ /\ full # {}
            /\ Pages!Answer(g, going, last)
         \/ /\ full = {} /\ spent
            /\ Pages!Answer(g, TRUE, last)
         \/ /\ full = {} /\ ~spent /\ (Len(batch) > budget \/ phase = 0)
            /\ page' = [page EXCEPT !.phase = nextPhase, !.row = nextRow, !.found = g,
                                    !.scanned = scanned, !.last = last]
            /\ UNCHANGED <<cursor, walk, served>>
         \/ Pages!Fallback
         \/ /\ full = {} /\ ~(Len(batch) > budget \/ phase = 0)
            /\ Pages!Answer(g, FALSE, last)
  BY DEF Pages!QueryOriented, Hits
<1>2. /\ WalkOK(cursor, page, walk, served) /\ FeedTyped /\ Pages!SeedShufflePivot \in Int
      /\ playable \subseteq PageVideos /\ steady \subseteq playable
  BY PivotTyped DEF PagesInv, FeedTyped
<1>3. /\ walk = "walking" /\ page \in PageRead /\ phase \in {0, 1} /\ Place(phase, page.row)
      /\ f \in Seq(PageVideos) /\ Distinct(f) /\ Gave(L, Left(phase, page.row), Elems(f))
      /\ page.scanned \in Nat /\ page.scanned < ScanLimit /\ page.last \in Places
  <2>1. page.at = "reading" /\ filter = "landscape"
    BY <1>1
  <2>2. walk = "walking" /\ page \in PageRead /\ PageOK(cursor, page)
    BY <1>2, <2>1 DEF WalkOK
  <2>3. phase \in {0, 1} /\ page.scanned \in Nat /\ page.last \in Places
    BY <2>2, PageConstants DEF PageRead
  <2>4. /\ Place(phase, page.row) /\ f \in Seq(PageVideos) /\ Distinct(f)
        /\ Gave(L, Left(phase, page.row), Elems(f)) /\ page.scanned < ScanLimit
    BY <2>1, <2>2 DEF PageOK
  <2>5. QED
    BY <2>2, <2>3, <2>4
<1>4. wanted \in Int /\ Len(f) \in Nat
  BY <1>3, PageConstants
<1>5. budget \in Nat \ {0} /\ page.scanned + budget <= ScanLimit
  <2> DEFINE sc == page.scanned
  <2>1. sc \in Nat /\ sc < ScanLimit /\ budget = Pages!Min({ScanLimit - sc, Pages!Max({QueryFloor, wanted})})
    BY <1>3
  <2> HIDE DEF sc, wanted, budget
  <2>2. budget \in Nat \ {0} /\ sc + budget <= ScanLimit
    BY <1>4, <2>1, BudgetOK
  <2>3. QED
    BY <2>2 DEF sc
<1> DEFINE count == budget + 1
           row == page.row
<1>6. batch = Pages!Rows(phase, row, count)
  OBVIOUS
<1>7. Place(phase, row) /\ Gave(L, Left(phase, row), Elems(f))
  BY <1>3
<1> HIDE DEF f, wanted, budget, phase, row, batch, L
<1>8. count \in Nat \ {0}
  BY <1>5
<1> HIDE DEF count
<1>9. Len(batch) \in 0 .. count
  BY <1>2, <1>6, <1>8, RowsOK
<1>10. /\ usable \in Nat /\ usable <= Len(batch) /\ usable <= budget
       /\ usable = Len(batch) \/ usable = budget
       /\ Len(batch) <= budget => usable = Len(batch)
       /\ Len(batch) > budget => usable = budget
  <2> DEFINE len == Len(batch)
  <2>1. len \in Int /\ budget \in Int /\ len \in Nat /\ budget \in Nat
    BY <1>5, <1>8, <1>9
  <2> HIDE DEF len
  <2>2. Pages!Min({len, budget}) \in {len, budget} /\ Pages!Min({len, budget}) <= len
        /\ Pages!Min({len, budget}) <= budget
    BY <2>1, LeastOfTwo
  <2>3. usable = Pages!Min({len, budget})
    BY DEF len
  <2> HIDE DEF usable
  <2>4. QED
    BY <2>1, <2>2, <2>3 DEF len
<1> HIDE DEF usable
<1>11. looked \in Nat /\ looked <= usable /\ (full = {} => looked = usable) /\ (full # {} => looked > 0)
  <2>1. CASE full = {}
    BY <1>10, <2>1
  <2>2. CASE full # {}
    <3>1. full \in SUBSET (0 .. usable) /\ \A n \in full : n > 0
      BY <1>10
    <3>2. looked = Pages!Min(full)
      BY <2>2
    <3> HIDE DEF full, looked
    <3>3. \E k \in full : \A m \in full : k <= m
      BY <1>10, <2>2, <3>1, SmallestUpTo
    <3>4. looked \in full
      BY <3>2, <3>3 DEF Pages!Min
    <3>5. QED
      BY <1>10, <2>2, <3>1, <3>4
  <2>3. QED
    BY <2>1, <2>2
<1> HIDE DEF looked, full
<1>12. looked <= Len(batch) /\ looked <= budget
  BY <1>5, <1>9, <1>10, <1>11
<1>13. scanned \in 0 .. ScanLimit
  BY <1>3, <1>5, <1>11, <1>12, PageConstants
<1>14. g \in Seq(PageVideos) /\ Distinct(g) /\ Elems(g) = Elems(f) \cup Kept(Firsts(batch, looked))
  <2>1. /\ filter = "landscape" /\ f \in Seq(PageVideos) /\ Distinct(f)
        /\ Gave(L, Left(phase, row), Elems(f)) /\ looked \in Nat /\ looked <= Len(batch)
        /\ g = f \o Hits(batch, looked)
    BY <1>1, <1>3, <1>7, <1>11, <1>12 DEF f
  <2> HIDE DEF g
  <2>2. Grown(f, Kept(Firsts(batch, looked)), g)
    BY <1>2, <1>6, <1>8, <2>1, HitsOK
  <2>3. QED
    BY <2>2 DEF Grown
<1>15. /\ looked = Len(batch) /\ Len(batch) < count /\ phase = 0 => Gave(L, Left(1, 0), Elems(g))
       /\ looked = Len(batch) /\ Len(batch) < count /\ phase = 1 => Gave(L, {}, Elems(g))
       /\ looked > 0 => /\ batch[looked] \in PageVideos /\ Place(phase, batch[looked])
                        /\ Gave(L, Left(phase, batch[looked]), Elems(g))
  <2> DEFINE X == Elems(f)
  <2>1. Gave(L, Left(phase, row), X)
    BY <1>7
  <2> HIDE DEF X
  <2>2. /\ Len(batch) < count /\ phase = 0 => Gave(L, Left(1, 0), X \cup Kept(Firsts(batch, Len(batch))))
        /\ Len(batch) < count /\ phase = 1 => Gave(L, {}, X \cup Kept(Firsts(batch, Len(batch))))
        /\ \A i \in 1 .. Len(batch) :
              /\ batch[i] \in PageVideos /\ Place(phase, batch[i])
              /\ Gave(L, Left(phase, batch[i]), X \cup Kept(Firsts(batch, i)))
    BY <1>2, <1>6, <1>7, <1>8, <2>1, QueryOK
  <2>3. looked > 0 => looked \in 1 .. Len(batch)
    BY <1>9, <1>11, <1>12
  <2>4. QED
    BY <1>14, <2>2, <2>3 DEF X
<1> HIDE DEF g
<1>16. /\ last \in Places
       /\ looked > 0 => last.phase = phase /\ last.row = batch[looked]
  <2>1. looked = 0 => last \in Places
    BY <1>3
  <2>2. looked # 0 => last = [phase |-> phase, row |-> batch[looked]]
    OBVIOUS
  <2>3. looked # 0 => batch[looked] \in PageVideos
    BY <1>11, <1>15
  <2> HIDE DEF last
  <2>4. QED
    BY <1>3, <1>11, <2>1, <2>2, <2>3 DEF Places
<1> HIDE DEF last
<1>17. FeedTyped' /\ UNCHANGED <<seed, filter>> /\ steady' \subseteq steady
  BY <1>1, <1>2 DEF FeedTyped
<1>18. ASSUME NEW more, Pages!Answer(g, more, last), more => looked > 0,
              ~more => looked = Len(batch) /\ Len(batch) <= budget /\ phase = 1
       PROVE  WalkOK(cursor', page', walk', served')
  <2>1. more => Place(last.phase, last.row) /\ Gave(L, Left(last.phase, last.row), Elems(g))
    BY <1>15, <1>16, <1>18
  <2>2. ~more => Gave(L, {}, Elems(g))
    BY <1>5, <1>9, <1>15, <1>18 DEF count
  <2>3. QED
    BY <1>2, <1>3, <1>14, <1>16, <1>18, <2>1, <2>2, AnswerOK DEF L
<1>19. CASE full # {} /\ Pages!Answer(g, going, last)
  <2>1. going => looked > 0
    BY <1>11, <1>19
  <2>2. ~going => looked = Len(batch) /\ Len(batch) <= budget /\ phase = 1
    BY <1>3, <1>5, <1>9, <1>11, <1>12
  <2>3. Pages!Answer(g, going, last)
    BY <1>19
  <2> HIDE DEF going
  <2>4. WalkOK(cursor', page', walk', served')
    BY <1>18, <2>1, <2>2, <2>3
  <2>5. QED
    BY <1>17, <2>4, WalkKept DEF PagesInv
<1>20. CASE full = {} /\ spent /\ Pages!Answer(g, TRUE, last)
  <2> DEFINE yes == TRUE
  <2>1. looked > 0 /\ yes
    BY <1>3, <1>11, <1>20, PageConstants
  <2>2. Pages!Answer(g, yes, last)
    BY <1>20
  <2> HIDE DEF yes
  <2>3. WalkOK(cursor', page', walk', served')
    BY <1>18, <2>1, <2>2
  <2>4. QED
    BY <1>17, <2>3, WalkKept DEF PagesInv
<1>21. CASE /\ full = {} /\ ~spent /\ (Len(batch) > budget \/ phase = 0)
            /\ page' = [page EXCEPT !.phase = nextPhase, !.row = nextRow, !.found = g,
                                    !.scanned = scanned, !.last = last]
            /\ UNCHANGED <<cursor, walk, served>>
  <2>1. nextPhase \in {0, 1} /\ nextRow \in PageVideos \cup {0}
    BY <1>3, <1>16 DEF Places
  <2>2. Place(nextPhase, nextRow) /\ Gave(L, Left(nextPhase, nextRow), Elems(g))
    <3>1. CASE Len(batch) > budget
      BY <1>5, <1>10, <1>11, <1>15, <1>16, <1>21, <3>1
    <3>2. CASE ~(Len(batch) > budget)
      <4>1. looked = Len(batch) /\ Len(batch) < count /\ phase = 0
        BY <1>5, <1>9, <1>10, <1>11, <1>21, <3>2 DEF count
      <4>2. nextPhase = 1 /\ nextRow = 0
        BY <3>2
      <4>3. Gave(L, Left(1, 0), Elems(g))
        BY <1>15, <4>1
      <4> HIDE DEF nextPhase, nextRow
      <4>4. QED
        BY <4>2, <4>3 DEF Place
    <3>3. QED
      BY <3>1, <3>2
  <2>3. scanned < ScanLimit
    BY <1>13, <1>21, PageConstants
  <2>4. page' = [page EXCEPT !.phase = nextPhase, !.row = nextRow, !.found = g,
                             !.scanned = scanned, !.last = last]
    BY <1>21
  <2> HIDE DEF nextPhase, nextRow, scanned
  <2>5. /\ page' \in PageRead /\ page'.phase = nextPhase /\ page'.row = nextRow /\ page'.found = g
        /\ page'.scanned = scanned
    BY <1>3, <1>13, <1>14, <1>16, <2>1, <2>4 DEF PageRead
  <2>6. PageOK(cursor', page')
    BY <1>1, <1>14, <1>21, <2>2, <2>3, <2>5 DEF PageOK, L
  <2>7. WalkOK(cursor', page', walk', served')
    BY <1>2, <1>3, <1>21, <2>5, <2>6 DEF WalkOK
  <2>8. QED
    BY <1>17, <2>7, WalkKept DEF PagesInv
<1>22. CASE Pages!Fallback
  BY <1>2, <1>17, <1>22, FallbackOK, WalkKept DEF PagesInv
<1>23. CASE full = {} /\ ~(Len(batch) > budget \/ phase = 0) /\ Pages!Answer(g, FALSE, last)
  <2> DEFINE no == FALSE
  <2>1. looked = Len(batch) /\ Len(batch) <= budget /\ phase = 1 /\ ~no
    BY <1>3, <1>5, <1>9, <1>10, <1>11, <1>23
  <2>2. Pages!Answer(g, no, last)
    BY <1>23
  <2> HIDE DEF no
  <2>3. WalkOK(cursor', page', walk', served')
    BY <1>18, <2>1, <2>2
  <2>4. QED
    BY <1>17, <2>3, WalkKept DEF PagesInv
<1>24. QED
  BY <1>1, <1>19, <1>20, <1>21, <1>22, <1>23

LEMMA PagesNextOK == PagesInv /\ [Pages!Next]_pagesVars => PagesInv'
<1> SUFFICES ASSUME PagesInv, [Pages!Next]_pagesVars PROVE PagesInv'
  OBVIOUS
<1>1. CASE UNCHANGED pagesVars
  <2>1. UNCHANGED <<playable, seed, filter, cursor, page, walk, served, steady, changes>>
    BY <1>1 DEF pagesVars
  <2>2. FeedTyped' /\ WalkOK(cursor', page', walk', served')
    BY <2>1 DEF PagesInv, FeedTyped
  <2>3. QED
    BY <2>1, <2>2, WalkKept DEF PagesInv
<1>2. CASE Pages!Next
  BY <1>2, RequestOfPageOK, QueryAllOK, QueryOrientedOK, FeedChangesOK DEF Pages!Next
<1>3. QED
  BY <1>1, <1>2

LEMMA PagesAreExact == PagesInv => Pages!WalkIsExact
<1> SUFFICES ASSUME PagesInv PROVE Pages!WalkIsExact
  OBVIOUS
<1>1. WalkOK(cursor, page, walk, served) /\ steady \subseteq PageVideos
  BY DEF PagesInv, FeedTyped
<1>2. \A i, j \in DOMAIN served : served[i] = served[j] => i = j
  BY <1>1 DEF WalkOK, Distinct
<1>3. ASSUME walk = "ended", NEW v \in steady, Pages!Wanted(v)
      PROVE  \E i \in DOMAIN served : served[i] = v
  BY <1>1, <1>3 DEF WalkOK, Gave, Elems
<1>4. QED
  BY <1>2, <1>3 DEF Pages!WalkIsExact

LEMMA PagesTyped == PagesInv => Pages!TypeOK
<1> SUFFICES ASSUME PagesInv PROVE Pages!TypeOK
  OBVIOUS
<1>1. WalkOK(cursor, page, walk, served) /\ FeedTyped
  BY DEF PagesInv
<1>2. page \in PageRead /\ cursor \in Places
  BY <1>1 DEF WalkOK
<1>3. /\ page.at \in {"none", "reading"} /\ page.phase \in {0, 1} /\ page.row \in PageVideos \cup {0}
      /\ page.scanned \in 0 .. ScanLimit /\ page.last \in Places
  BY <1>2 DEF PageRead
<1>4. QED
  BY <1>1, <1>2, <1>3 DEF FeedTyped, WalkOK, Places, Pages!TypeOK

-----------------------------------------------------------------------------
(* The components side by side: each of them starts in its Init and takes its steps. *)

allVars == <<part, storeVars, responseVars, healthVars, libraryVars, pagesVars, cacheVars,
             updaterVars>>

LEMMA PartsBegin ==
    StoresInit => /\ Responses!Init /\ Health!Init /\ Cache!Init /\ Installation!Init
                  /\ Store!Init /\ Library!Init /\ Pages!Init
BY DEF StoresInit

LEMMA PartsStep ==
    [StoresNext]_allVars => /\ [Responses!Next]_responseVars /\ [Health!Next]_healthVars
                            /\ [Cache!Next]_cacheVars /\ [Installation!Next]_updaterVars
                            /\ [Store!Next]_storeVars /\ [Library!Next]_libraryVars
                            /\ [Pages!Next]_pagesVars /\ part' = part
<1>1. CASE UNCHANGED allVars
  BY <1>1, Zenon DEF allVars
<1>2. CASE StoresNext
  BY <1>2, Zenon DEF StoresNext
<1>3. QED
  BY <1>1, <1>2

\* An answer of the response cache has every change its isolate had marked when the request
\* arrived, whatever is stored, marked, loaded, joined and repeated meanwhile (cached); and
\* after a viewer was told that a video is blocked no page of the playback cache shows it,
\* not to those who join a read either (blockPlaybackVideo drops the map before it answers).
THEOREM AnswersStayFresh == StoresSpec => []AnswersAreFresh
<1> DEFINE Inv == ResponsesInv /\ CacheInv
<1>1. StoresInit => Inv
  BY PartsBegin, ResponsesInitOK, CacheInitOK
<1>2. Inv /\ [StoresNext]_allVars => Inv'
  BY PartsStep, ResponsesNextOK, CacheNextOK
<1>3. Inv => AnswersAreFresh
  <2>1. ResponsesInv => Responses!AnswersAreFresh
    BY DEF ResponsesInv, RequestOK, Responses!AnswersAreFresh
  <2>2. CacheInv => Cache!NoBlockedVideoServed
    BY DEF CacheInv, LateOK, Cache!NoBlockedVideoServed
  <2>3. QED
    BY <2>1, <2>2 DEF AnswersAreFresh
<1>4. QED
  BY <1>1, <1>2, <1>3, PTL DEF StoresSpec, allVars

\* An outage on record, with alerts configured, was announced since it began or is due at
\* the next check, whatever mails failed, checks died and settings changed: the row keeps
\* which transition is pending, and under which key.
THEOREM OutageAnnounced == StoresSpec => []OutageIsAnnounced
<1>1. StoresInit => HealthInv
  BY PartsBegin, HealthInitOK
<1>2. HealthInv /\ [StoresNext]_allVars => HealthInv'
  BY PartsStep, HealthNextOK
<1>3. HealthInv => OutageIsAnnounced
  BY DEF HealthInv, KeyOK, HealthRows, Unannounced, OutageIsAnnounced, Health!OutageIsAnnounced
<1>4. QED
  BY <1>1, <1>2, <1>3, PTL DEF StoresSpec, allVars

\* What the Worker acknowledges from its rows is in its bucket, or a newer sample of its
\* sequence has taken its place, or it has itself taken the place of one that a request had
\* yet to aggregate in another bucket, which is the case the code gets wrong; the panel
\* continues above it; and no sample enters its bucket twice. Requests overlap, repeat one
\* another and end anywhere: the batch that counts a sample marks its row applied.
THEOREM SamplesCounted == StoresSpec => []AcknowledgedIsCounted
<1>1. StoresInit => StoreInv
  BY PartsBegin, StoreInitOK
<1>2. StoreInv /\ [StoresNext]_allVars => StoreInv'
  BY PartsStep, StoreNextOK
<1>3. StoreInv => AcknowledgedIsCounted
  <2> SUFFICES ASSUME StoreInv PROVE Store!AcknowledgedIsApplied /\ Store!SampleCountedOnce
    BY DEF AcknowledgedIsCounted
  <2>1. Store!SampleCountedOnce
    BY DEF StoreInv, TablesOK, Store!SampleCountedOnce
  <2>2. ASSUME NEW h \in Handlers, invocation[h].at = "reply"
        PROVE  PromiseOK(invocation[h], sample, counted, displacing)
    BY <2>2 DEF StoreInv, InvocationsOK, Invoked, Merging
  <2>3. Store!AcknowledgedIsApplied
    BY <2>2 DEF PromiseOK, CountedIn, CountedOK, Store!AcknowledgedIsApplied
  <2>4. QED
    BY <2>1, <2>3
<1>4. QED
  BY <1>1, <1>2, <1>3, PTL DEF StoresSpec, allVars

\* Whatever overlaps a probe, a block request and a store, an excluded video is neither
\* active nor in the feed, the counters kept by differences agree with their tables, and
\* no video that stays eligible is left out of a pass. And whatever enters and leaves the
\* feed between the pages of a walk and inside of them, the walk gives no video twice and,
\* at its end, has given every wanted one that was in the feed throughout.
THEOREM LibraryConsistent == StoresSpec => []LibraryIsConsistent
<1> DEFINE Inv == LibraryInv /\ PagesInv
<1>1. StoresInit => Inv
  BY PartsBegin, LibraryInitOK, PagesBegin
<1>2. Inv /\ [StoresNext]_allVars => Inv'
  BY PartsStep, LibraryNextOK, PagesNextOK
<1>3. Inv => LibraryIsConsistent
  <2> SUFFICES ASSUME LibraryInv, PagesInv PROVE LibraryIsConsistent
    OBVIOUS
  <2>1. Library!ExcludedNeverPlays
    BY DEF LibraryInv, LibraryTypes, ListsOK, Library!ExcludedNeverPlays, Library!Excluded
  <2>2. Library!CountsExact
    BY DEF LibraryInv, CountsOK, Size, ActiveIn, Library!CountsExact, Library!CountActive
  <2>3. Library!PassSkipsNone
    BY DEF LibraryInv, DueOK, Library!PassSkipsNone
  <2>4. Pages!WalkIsExact
    BY PagesAreExact
  <2>5. QED
    BY <2>1, <2>2, <2>3, <2>4 DEF LibraryIsConsistent
<1>4. QED
  BY <1>1, <1>2, <1>3, PTL DEF StoresSpec, allVars

\* The variables of all seven components keep their types: the row of telemetry, its copies
\* in the isolates and what an invocation merges into it are values for every bucket; there
\* are no more generations than changes; what a check of the collector carries is a row; the
\* library's counters are never negative; the mutex of an installation has one holder at
\* most, a stage has its file and a file is a release, absent or damaged.
THEOREM StoresTyped == StoresSpec => []TypesOK
<1> DEFINE Inv == /\ part \in {"store", "responses", "health", "library", "pages", "cache", "updater"}
                  /\ ResponsesInv /\ ResponseBounds /\ CacheInv /\ CacheBounds /\ NoMapYet /\ HealthTypes
                  /\ StoreInv /\ StoreTypes /\ LibraryInv /\ LibraryBounds /\ UpdaterInv /\ PagesInv
<1>1. StoresInit => Inv
  <2>1. StoresInit => part \in {"store", "responses", "health", "library", "pages", "cache", "updater"}
    BY DEF StoresInit
  <2>2. QED
    BY <2>1, PartsBegin, UpdaterAssumption, ResponsesInitOK, ResponseBoundsInit, CacheInitOK, CacheTypesInit,
       NoMapInit, HealthTypesInit, StoreInitOK, StoreTypesInit, LibraryInitOK, LibraryBoundsInit,
       UpdaterInitOK, PagesBegin
<1>2. Inv /\ [StoresNext]_allVars => Inv'
  BY PartsStep, ResponsesNextOK, ResponseBoundsNext, CacheNextOK, CacheTypesNext, NoMapNext,
     HealthTypesNext, StoreNextOK, StoreTypesNext, LibraryNextOK, LibraryBoundsNext, UpdaterNextOK, PagesNextOK
<1>3. Inv => TypesOK
  <2>1. UpdaterInv => Installation!TypeOK
    BY DEF UpdaterInv
  <2>2. QED
    BY <2>1, ResponsesTyped, CacheTyped, HealthTyped, StoreTyped, LibraryTyped, PagesTyped DEF TypesOK
<1>4. QED
  BY <1>1, <1>2, <1>3, PTL DEF StoresSpec, allVars

\* Wherever runners fail or are killed, the executable is the newest release only when the
\* other files are too, or were damaged: HardenedInstallPendingUpdate replaces the
\* executable last and puts it back first. And an installation that fails, and whose last
\* copy back succeeds, has put every file back.
THEOREM InstallationWhole == StoresSpec => InstallationIsWhole
<1>1. StoresInit => UpdaterInv
  BY PartsBegin, UpdaterAssumption, UpdaterInitOK
<1>2. UpdaterInv /\ [StoresNext]_allVars => UpdaterInv'
  BY PartsStep, UpdaterNextOK
<1>3. UpdaterInv' => Installation!NewestIsWhole'
  BY DEF UpdaterInv, WholeOK, Installation!NewestIsWhole
<1>4. UpdaterInv /\ Installation!Next => Installation!FailedStepUndoes
  BY FailureUndoes DEF Installation!FailedStepUndoes
<1>5. UpdaterInv /\ UpdaterInv' /\ [StoresNext]_allVars =>
          [part = "updater" => Installation!NewestIsWhole' /\ Installation!FailedStepUndoes]_updaterVars
  BY <1>3, <1>4, PartsStep
<1>6. QED
  BY <1>1, <1>2, <1>5, PTL DEF StoresSpec, allVars, InstallationIsWhole
=============================================================================
