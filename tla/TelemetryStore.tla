--------------------------- MODULE TelemetryStore ---------------------------
(* POST /v1/telemetry (telemetry_route.ts): the samples of a panel in the tables of D1
   and in the row 'environment' of current_state. A request stores its samples,
   aggregates into their buckets those that no request has aggregated yet, and merges
   the buckets it changed into the row, from a copy of the row that its isolate keeps
   and with a compare-and-set on the version (telemetry_history.ts). Every statement,
   and every batch of statements, is atomic; everything else interleaves.

   A sample is a sequence number and the time it was observed at; the value of a bucket
   is how many samples it has. One panel; nothing is older than ENVIRONMENT_HISTORY_MS;
   a request fits into one batch of D1; the exchange's object in R2 (module Telemetry)
   is older than the row. *)
EXTENDS Integers, FiniteSets, FiniteSetsExt, Functions

CONSTANTS
    Sequences,      \* sequence numbers, 1 .. n
    Times,          \* when samples are observed: a sequence number may be used again
    BucketOf,       \* telemetryBucketAt
    Handlers,       \* invocations at a time
    IsolateOf,      \* the isolate each of them runs in
    Materialised,   \* the row exists at first
    MaxRequests,    \* bound: requests
    MaxFaults       \* bound: invocations that end early

StoreAssumption ==
    /\ IsFiniteSet(Sequences) /\ Sequences = 1 .. Cardinality(Sequences)
    /\ IsFiniteSet(Times) /\ Times = 1 .. Cardinality(Times)
    /\ DOMAIN BucketOf = Times /\ DOMAIN IsolateOf = Handlers /\ IsFiniteSet(Handlers)
    /\ Materialised \in BOOLEAN /\ MaxRequests \in Nat /\ MaxFaults \in Nat

VARIABLES
    sample,     \* environment_samples
    counted,    \* environment_buckets, kept apart for each sample
    heartbeat,  \* last_sequence of device_heartbeats
    state,      \* the row 'environment'
    cached,     \* ENVIRONMENT_STATE_CACHE of each isolate
    handler,    \* the invocations
    requests, faults,
    displacing  \* history: samples that took the place of an older one of their sequence
                \* that a request had yet to aggregate, in another bucket

vars == <<sample, counted, heartbeat, state, cached, handler, requests, faults, displacing>>

tables == <<sample, counted, heartbeat>>

Buckets  == Range(BucketOf)
Isolates == Range(IsolateOf)
Samples  == Sequences \X Times

Idle     == [at |-> "idle"]
NoState  == [version |-> 0, points |-> [b \in Buckets |-> 0]]
Uncached == [id |-> -1]
NoRow    == [id |-> 0]

Holds(i) == "row" \in DOMAIN i /\ i.row.id > 0

TypeOK ==
    LET Rows == [version : Nat, points : [Buckets -> Nat]]
        Kept(r) == r.id > 0 => [version |-> r.version, points |-> r.points] \in Rows
    IN  /\ \A s \in Sequences : sample[s].at \in {0} \cup Times /\ sample[s].applied \in BOOLEAN
        /\ counted \in [Samples -> Nat] /\ heartbeat \in {0} \cup Sequences
        /\ state \in Rows
        /\ \A c \in Isolates : Kept(cached[c])
        /\ \A h \in Handlers : Holds(handler[h]) => Kept(handler[h].row)
        /\ displacing \subseteq Samples
        /\ requests \in 0 .. MaxRequests /\ faults \in 0 .. MaxFaults

Init ==
    /\ sample = [s \in Sequences |-> [at |-> 0, applied |-> FALSE]]
    /\ counted = [x \in Samples |-> 0]
    /\ heartbeat = 0
    /\ state = IF Materialised THEN [NoState EXCEPT !.version = 1] ELSE NoState
    /\ cached = [c \in Isolates |-> Uncached]
    /\ handler = [h \in Handlers |-> Idle]
    /\ requests = 0 /\ faults = 0 /\ displacing = {}

-----------------------------------------------------------------------------
(* receiveTelemetryOptimized: samples and buckets. *)

\* The samples of a request, duplicates removed: when each sequence was observed.
Bodies == UNION {[S -> Times] : S \in (SUBSET Sequences) \ {{}}}

Receive(h) ==
    /\ handler[h].at = "idle" /\ requests < MaxRequests
    /\ requests' = requests + 1
    /\ \E body \in Bodies : handler' = [handler EXCEPT ![h] = [at |-> "insert", body |-> body]]
    /\ UNCHANGED <<tables, state, cached, faults, displacing>>

\* telemetrySampleStatement: rows that are new, or newer than what their sequence has.
Replaces(s, t) == t > sample[s].at

InsertSamples(h) ==
    LET body  == handler[h].body
        fresh == {s \in DOMAIN body : Replaces(s, body[s])}
        misplaced == {s \in fresh : \E g \in Handlers \ {h} :
                         /\ handler[g].at \in {"readback", "bucket"} /\ s \in handler[g].pending
                         /\ BucketOf[handler[g].body[s]] # BucketOf[body[s]]}
    IN  /\ handler[h].at = "insert"
        /\ sample' = [s \in Sequences |-> IF s \in fresh THEN [at |-> body[s], applied |-> FALSE]
                                          ELSE sample[s]]
        /\ displacing' = displacing \cup {<<s, body[s]>> : s \in misplaced}
        /\ handler' = [handler EXCEPT ![h] =
                         [at |-> IF fresh = DOMAIN body THEN "bucket" ELSE "readback",
                          body |-> body, acked |-> fresh, pending |-> fresh]]
        /\ UNCHANGED <<counted, heartbeat, state, cached, requests, faults>>

\* telemetrySampleReadbackStatement, storedSampleMatches: an older sample of a reused
\* sequence is not acknowledged.
ReadBack(h) ==
    LET i    == handler[h]
        same == {s \in DOMAIN i.body \ i.acked : sample[s].at = i.body[s]}
    IN  /\ i.at = "readback"
        /\ handler' = [handler EXCEPT ![h] =
                         [i EXCEPT !.at = "bucket", !.acked = @ \cup same,
                                   !.pending = @ \cup {s \in same : ~sample[s].applied}]]
        /\ UNCHANGED <<tables, state, cached, requests, faults, displacing>>

\* A mistake: what the request has stored is aggregated, applied or not.
AggregatedAgain(i) == {s \in i.pending : BucketOf[sample[s].at] = BucketOf[i.body[s]]}

\* telemetrySequenceBucketStatement: of the sequences of a bucket of the request.
Aggregated(i) ==
    {s \in i.pending : BucketOf[sample[s].at] = BucketOf[i.body[s]] /\ ~sample[s].applied}

\* A mistake: the sequences of the whole request are marked, stored by it or not.
MarkedAll(i) == {s \in DOMAIN i.body : ~sample[s].applied}

\* markTelemetrySamplesAppliedStatement, wherever the time of the sample is by now.
Marked(i) == {s \in i.pending : ~sample[s].applied}

Count(c, b) == SumFunctionOnSet(c, {x \in Samples : BucketOf[x[2]] = b})

\* The batch of flushBuckets. What a bucket's statement returns is its new value.
ApplyBuckets(h) ==
    LET i       == handler[h]
        adds    == {<<s, sample[s].at>> : s \in Aggregated(i)}
        changed == {BucketOf[x[2]] : x \in adds}
    IN  /\ i.at = "bucket"
        /\ counted' = [x \in Samples |-> IF x \in adds THEN counted[x] + 1 ELSE counted[x]]
        /\ sample' = [s \in Sequences |-> IF s \in Marked(i) THEN [sample[s] EXCEPT !.applied = TRUE]
                                          ELSE sample[s]]
        /\ handler' = [handler EXCEPT ![h] =
                         [at |-> "beat", body |-> i.body, acked |-> i.acked,
                          accepted |-> Marked(i) # {},
                          rows |-> [b \in changed |-> Count(counted', b)]]]
        /\ UNCHANGED <<heartbeat, state, cached, requests, faults, displacing>>

\* telemetryHeartbeatReturningStatement. Without an accepted sample the row is only
\* rebuilt when it is missing.
Heartbeat(h) ==
    LET i == handler[h]
        answer == [at |-> "reply", body |-> i.body, acked |-> i.acked, highest |-> heartbeat']
    IN  /\ i.at = "beat"
        /\ heartbeat' = Max({heartbeat} \cup i.acked)
        /\ handler' = [handler EXCEPT ![h] =
                         [answer |-> answer, rows |-> i.rows,
                          at |-> IF i.accepted THEN "merge"
                                 ELSE IF i.acked # {} THEN "look" ELSE "answer"]]
        /\ UNCHANGED <<sample, counted, state, cached, requests, faults, displacing>>

LookForState(h) ==
    /\ handler[h].at = "look"
    /\ handler' = [handler EXCEPT ![h].at = IF state.version = 0 THEN "merge" ELSE "answer"]
    /\ UNCHANGED <<tables, state, cached, requests, faults, displacing>>

-----------------------------------------------------------------------------
(* mergeEnvironmentRows. A row that was read is an object with an identity: the
   invocations of an isolate share the one in its cache. *)

Used == {cached[c].id : c \in Isolates} \cup {handler[h].row.id : h \in {g \in Handlers : Holds(handler[g])}}

\* readState: a new object, or null.
Read == IF state.version = 0 THEN NoRow
        ELSE [id |-> Min((1 .. 2 * Cardinality(Handlers) + 1) \ Used),
              version |-> state.version, points |-> state.points]

Merged(points, rows) == [b \in Buckets |-> IF b \in DOMAIN rows THEN rows[b] ELSE points[b]]

\* What follows a read: a merge from the row, or the rebuild without one.
With(i, row, attempt) ==
    IF row = NoRow THEN [at |-> "rebuild", answer |-> i.answer, rows |-> i.rows, reread |-> TRUE]
    ELSE [at |-> "hash", answer |-> i.answer, rows |-> i.rows, attempt |-> attempt, row |-> row,
          merged |-> Merged(row.points, i.rows)]

\* readEnvironmentState: the cached object unless the request only restores the row.
ReadPrevious(h) ==
    LET i == handler[h]
        c == IsolateOf[h]
        row == IF DOMAIN i.rows # {} /\ cached[c] # Uncached THEN cached[c] ELSE Read
    IN  /\ i.at = "merge"
        /\ cached' = [cached EXCEPT ![c] = row]
        /\ handler' = [handler EXCEPT ![h] = With(i, row, 1)]
        /\ UNCHANGED <<tables, state, requests, faults, displacing>>

\* The hash is computed: the object may have another version by now.
Hashed(h) ==
    LET i == handler[h] IN
    /\ i.at = "hash"
    /\ handler' = [handler EXCEPT ![h] =
                     IF i.row.points = i.merged THEN [at |-> "answer", answer |-> i.answer]
                     ELSE [at |-> "write", answer |-> i.answer, rows |-> i.rows, attempt |-> i.attempt,
                           row |-> i.row, merged |-> i.merged, version |-> i.row.version]]
    /\ UNCHANGED <<tables, state, cached, requests, faults, displacing>>

CompareAndSet(h) ==
    LET i == handler[h]
        won == state.version = i.version
    IN  /\ i.at = "write"
        /\ state' = IF won THEN [version |-> state.version + 1, points |-> i.merged] ELSE state
        /\ handler' = [handler EXCEPT ![h].at = IF won THEN "won" ELSE "conflict"]
        /\ UNCHANGED <<tables, cached, requests, faults, displacing>>

\* updateCachedEnvironmentRow changes the object, for everyone who holds it.
Won(h) ==
    LET i == handler[h]
        Updated(row) == IF row.id = i.row.id
                        THEN [id |-> row.id, version |-> row.version + 1, points |-> i.merged] ELSE row
    IN  /\ i.at = "won"
        /\ cached' = [c \in Isolates |-> Updated(cached[c])]
        /\ handler' = [g \in Handlers |->
                         IF g = h THEN [at |-> "answer", answer |-> i.answer]
                         ELSE IF Holds(handler[g]) THEN [handler[g] EXCEPT !.row = Updated(@)]
                         ELSE handler[g]]
        /\ UNCHANGED <<tables, state, requests, faults, displacing>>

FAST_MERGE_ATTEMPTS == 2

\* The row is read again after every conflict, the last one too.
Conflict(h) ==
    LET i == handler[h] IN
    /\ i.at = "conflict"
    /\ cached' = [cached EXCEPT ![IsolateOf[h]] = Read]
    /\ handler' = [handler EXCEPT ![h] =
                     IF i.attempt < FAST_MERGE_ATTEMPTS THEN With(i, Read, i.attempt + 1)
                     ELSE [at |-> "rebuild", answer |-> i.answer, rows |-> i.rows, reread |-> TRUE]]
    /\ UNCHANGED <<tables, state, requests, faults, displacing>>

\* The buckets of D1, and what the request has got when there are none.
ReadBuckets(h) ==
    LET i == handler[h]
        all == [b \in Buckets |-> Count(counted, b)]
        some == \E b \in Buckets : all[b] > 0
    IN  /\ i.at = "rebuild"
        /\ handler' = [handler EXCEPT ![h] =
                         [at |-> "reread", answer |-> i.answer,
                          merged |-> IF some THEN all ELSE Merged(NoState.points, i.rows)]]
        /\ UNCHANGED <<tables, state, cached, requests, faults, displacing>>

\* For the selected device; the cache gets the object.
Reread(h) ==
    /\ handler[h].at = "reread"
    /\ cached' = [cached EXCEPT ![IsolateOf[h]] = Read]
    /\ handler' = [handler EXCEPT ![h].at = "upsert"]
    /\ UNCHANGED <<tables, state, requests, faults, displacing>>

\* updateState: without a condition on the version.
Upsert(h) ==
    LET i == handler[h] IN
    /\ handler[h].at = "upsert"
    /\ state' = IF state.version > 0 /\ state.points = i.merged THEN state
                ELSE [version |-> state.version + 1, points |-> i.merged]
    /\ handler' = [handler EXCEPT ![h] = [at |-> "invalidate", answer |-> i.answer]]
    /\ UNCHANGED <<tables, cached, requests, faults, displacing>>

InvalidateEnvironmentStateCache(h) ==
    /\ handler[h].at = "invalidate"
    /\ cached' = [cached EXCEPT ![IsolateOf[h]] = Uncached]
    /\ handler' = [handler EXCEPT ![h].at = "answer"]
    /\ UNCHANGED <<tables, state, requests, faults, displacing>>

-----------------------------------------------------------------------------
Answer(h) ==
    /\ handler[h].at = "answer"
    /\ handler' = [handler EXCEPT ![h] = handler[h].answer]
    /\ UNCHANGED <<tables, state, cached, requests, faults, displacing>>

Done(h) ==
    /\ handler[h].at = "reply"
    /\ handler' = [handler EXCEPT ![h] = Idle]
    /\ UNCHANGED <<tables, state, cached, requests, faults, displacing>>

\* The invocation ends, or a statement of it fails: the panel sends the samples again.
End(h) ==
    /\ handler[h].at \notin {"idle", "reply"} /\ faults < MaxFaults
    /\ faults' = faults + 1
    /\ handler' = [handler EXCEPT ![h] = Idle]
    /\ UNCHANGED <<tables, state, cached, requests, displacing>>

Next ==
    \E h \in Handlers :
        \/ Receive(h) \/ InsertSamples(h) \/ ReadBack(h) \/ ApplyBuckets(h) \/ Heartbeat(h)
        \/ LookForState(h) \/ ReadPrevious(h) \/ Hashed(h) \/ CompareAndSet(h) \/ Won(h)
        \/ Conflict(h) \/ ReadBuckets(h) \/ Reread(h) \/ Upsert(h)
        \/ InvalidateEnvironmentStateCache(h) \/ Answer(h) \/ Done(h) \/ End(h)

Spec == Init /\ [][Next]_vars

-----------------------------------------------------------------------------
\* A sample enters its bucket at most once, however often and by how many requests at
\* once it is sent ("applies a concurrently retried sample to its bucket only once").
SampleCountedOnce == \A x \in Samples : counted[x] <= 1

\* What is acknowledged is in its bucket, or a newer sample of its sequence has taken its
\* place; and the panel continues above everything that was acknowledged. The exception
\* is a sample that took the place of an older one, of another bucket, that a request had
\* yet to aggregate: that request leaves it out of the bucket but marks its row, by the
\* sequence alone; its own request takes it for applied, and acknowledges what nobody
\* has counted.
AcknowledgedIsApplied ==
    \A h \in Handlers : handler[h].at = "reply" =>
        \A s \in handler[h].acked :
            LET x == <<s, handler[h].body[s]>> IN
            /\ s <= handler[h].highest
            /\ counted[x] = 1 \/ sample[s].at > x[2] \/ x \in displacing

\* A bucket that is in the row stays in it, whichever writers compete ("reloads after a
\* competing writer and preserves its device history"). The code does not keep it: an
\* invocation that waits for its hash takes the version of the shared row after another
\* one has changed it, and writes what it merged before.
CompetitorPreserved ==
    [][\A b \in Buckets : state.points[b] > 0 => state'.points[b] > 0]_state
=============================================================================
