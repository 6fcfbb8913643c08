------------------------------- MODULE Radar -------------------------------
(* The rain radar (radar_source.ts, radar_bundle.ts, radar_bundle_prewarm.ts,
   radar_bundle_cache.ts). The job selects the frames of the newest observation and its
   forecasts, stores their tiles as one bundle in R2 and only then the payload. A device
   asks for the bundle of its payload: it comes from the edge cache, from R2, or is put
   together by shards, each in a Durable Object of its own.

   A tile is known by the times of its path: [base, valid]; the places on the map are the
   same in all frames. Time is counted in frames of five minutes. *)
EXTENDS Integers, FiniteSets, FiniteSetsExt

CONSTANTS
    Window,     \* RADAR_FORECAST_WINDOW_MS
    Beyond,     \* frames JMA has forecasts for
    PerShard,   \* MAX_PATHS_PER_SHARD
    Requests,   \* requests of devices for a bundle
    MaxTime,    \* bound: observations
    MaxFaults   \* bound: failed fetches

RadarAssumption ==
    /\ {Window, Beyond, PerShard} \subseteq Nat \ {0}
    /\ {MaxTime, MaxFaults} \subseteq Nat

VARIABLES
    observed, forecast, \* targetTimes_N1.json: base times; targetTimes_N2.json: entries
    job,                \* the run of the radar job
    state,              \* current_state of the radar: its payload
    latest,             \* R2: radar-bundles/v1/latest.hpb
    edge,               \* the edge cache: base time -> bundle
    request,            \* the requests for a bundle
    made,               \* history: the payloads of the job
    faults

vars == <<observed, forecast, job, state, latest, edge, request, made, faults>>

Times == 0 .. MaxTime
NoTime == 0
Entry(b, v) == [base |-> b, valid |-> v]
NoBundle == [base |-> NoTime, paths |-> {}, records |-> 0]

-----------------------------------------------------------------------------
(* The supplier: the two lists are published one after the other, in either order. *)

Observe ==
    /\ Cardinality(observed) < MaxTime
    /\ observed' = observed \cup {Max(observed \cup {0}) + 1}
    /\ UNCHANGED <<forecast, job, state, latest, edge, request, made, faults>>

\* Forecasts of the newest base time are added, also before its observation.
Forecast(b, n) ==
    /\ b <= Max(observed \cup {0}) + 1
    /\ \A e \in forecast : e.base <= b
    /\ Entry(b, b + n) \notin forecast
    /\ n > 1 => Entry(b, b + n - 1) \in forecast
    /\ forecast' = forecast \cup {Entry(b, b + n)}
    /\ UNCHANGED <<observed, job, state, latest, edge, request, made, faults>>

\* The newest observation that has forecasts, with those of the next hour.
selectRadarForecastEntries(times, entries) ==
    LET current == times \cap {e.base : e \in entries}
        Newest  == Max(current)
        future  == {e \in entries : e.base = Newest /\ e.valid > Newest /\ e.valid <= Newest + Window}
    IN  IF current = {} \/ future = {} THEN {} ELSE future \cup {Entry(Newest, Newest)}

BaseOf(payload) == IF payload = {} THEN NoTime ELSE (CHOOSE e \in payload : TRUE).base

\* The paths of a bundle: the tiles of the payload's frames with the base time asked for.
radarBundlePaths(payload, b) == {e \in payload : e.base = b}

\* Paths are cut into shards in their order.
Shards(paths) == 1 .. (Cardinality(paths) + PerShard - 1) \div PerShard
ShardOf(paths, e) == (Cardinality({x \in paths : x.valid < e.valid}) \div PerShard) + 1
PathsOf(paths, i) == {e \in paths : ShardOf(paths, e) = i}

Bundle(b, paths, tiles) == [base |-> b, paths |-> tiles, records |-> Cardinality(paths)]

-----------------------------------------------------------------------------
(* The job. *)

NoJob == [at |-> "idle", payload |-> {}]

fetchRadar ==
    /\ job.at = "idle"
    /\ LET entries == selectRadarForecastEntries(observed, forecast)
       IN  /\ entries # {}
           /\ job' = [at |-> "prewarm", payload |-> entries]
           /\ made' = made \cup {entries}
    /\ UNCHANGED <<observed, forecast, state, latest, edge, request, faults>>

\* Every shard answers and the bundle is put as a whole.
prewarmRadarBundle ==
    /\ job.at = "prewarm"
    /\ LET b == BaseOf(job.payload)
           paths == radarBundlePaths(job.payload, b)
       IN  latest' = Bundle(b, paths, paths)
    /\ job' = [job EXCEPT !.at = "store"]
    /\ UNCHANGED <<observed, forecast, state, edge, request, made, faults>>

\* A shard or the put fails: the payload is not stored.
PrewarmFails ==
    /\ job.at = "prewarm" /\ faults < MaxFaults
    /\ faults' = faults + 1 /\ job' = NoJob
    /\ UNCHANGED <<observed, forecast, state, latest, edge, request, made>>

updateState ==
    /\ job.at = "store"
    /\ state' = job.payload /\ job' = NoJob
    /\ UNCHANGED <<observed, forecast, latest, edge, request, made, faults>>

-----------------------------------------------------------------------------
(* A request for the bundle of a base time. *)

NoRequest == [at |-> "new", base |-> NoTime, paths |-> {}, got |-> {}, bundle |-> NoBundle,
              writes |-> {}]
Worker == <<observed, forecast, job, state, made>>

\* A mistake: the latest bundle serves whoever asks.
AnyLatest(b) == latest.records > 0

\* The bundle in R2 is the latest of any base time.
MatchesBase(b) == latest.records > 0 /\ latest.base = b

\* A device asks for the bundle of the payload it was sent, now or earlier.
Ask(r, b) ==
    /\ request[r] = NoRequest /\ b <= BaseOf(state)
    /\ request' = [request EXCEPT ![r] = [NoRequest EXCEPT !.at = "fast", !.base = b]]
    /\ UNCHANGED <<Worker, latest, edge, faults>>

Answered(r, bundle, writes) ==
    request' = [request EXCEPT ![r].at = "answered", ![r].bundle = bundle, ![r].writes = writes]

\* cachedRadarBundleResponse reads the edge cache, then R2; what R2 gives is put on the edge.
cachedRadarBundleResponse(r) ==
    /\ request[r].at = "fast"
    /\ LET b == request[r].base
       IN  \/ edge[b] # NoBundle /\ Answered(r, edge[b], {})
           \/ edge[b] = NoBundle /\ MatchesBase(b) /\ Answered(r, latest, {"edge"})
           \/ /\ edge[b] = NoBundle /\ ~MatchesBase(b)
              /\ request' = [request EXCEPT ![r].at = "state"]
    /\ UNCHANGED <<Worker, latest, edge, faults>>

\* radarBundleResponse reads the payload, which may have another base time by now.
readState(r) ==
    /\ request[r].at = "state"
    /\ LET paths == radarBundlePaths(state, request[r].base)
       IN  request' = [request EXCEPT ![r].at = IF paths = {} THEN "refused" ELSE "match",
                                      ![r].paths = paths]
    /\ UNCHANGED <<Worker, latest, edge, faults>>

\* radarBundleResponseForPayload: the edge, R2 if it has as many records, or the shards.
Stored(r) == MatchesBase(request[r].base) /\ latest.records = Cardinality(request[r].paths)

radarBundleResponseForPayload(r) ==
    /\ request[r].at = "match"
    /\ LET b == request[r].base
       IN  \/ edge[b] # NoBundle /\ Answered(r, edge[b], {})
           \/ edge[b] = NoBundle /\ Stored(r) /\ Answered(r, latest, {"edge"})
           \/ /\ edge[b] = NoBundle /\ ~Stored(r)
              /\ request' = [request EXCEPT ![r].at = "shards"]
    /\ UNCHANGED <<Worker, latest, edge, faults>>

\* Shards answer in any order.
radarBundleShardResponse(r, i) ==
    /\ request[r].at = "shards" /\ i \in Shards(request[r].paths) \ request[r].got
    /\ request' = [request EXCEPT ![r].got = @ \cup {i}]
    /\ UNCHANGED <<Worker, latest, edge, faults>>

\* A shard has a tile it cannot fetch: the request fails.
ShardFails(r) ==
    /\ request[r].at = "shards" /\ faults < MaxFaults
    /\ faults' = faults + 1
    /\ request' = [request EXCEPT ![r].at = "refused"]
    /\ UNCHANGED <<Worker, latest, edge>>

\* A mistake: what has arrived is sent.
AnyShards(r) == request[r].got # {}

AllShards(r) == request[r].got = Shards(request[r].paths)

\* The bodies are written one after the other; the clones of the answer are put on the
\* edge and in R2 (cacheBundle).
shardStream(r) ==
    /\ request[r].at = "shards" /\ AllShards(r)
    /\ LET paths == request[r].paths
           tiles == UNION {PathsOf(paths, i) : i \in request[r].got}
       IN  Answered(r, Bundle(request[r].base, paths, tiles), {"edge", "r2"})
    /\ UNCHANGED <<Worker, latest, edge, faults>>

\* A body breaks off: the answer and its clones are aborted.
StreamBreaks(r) ==
    /\ request[r].at = "shards" /\ AllShards(r) /\ faults < MaxFaults
    /\ faults' = faults + 1
    /\ request' = [request EXCEPT ![r].at = "refused"]
    /\ UNCHANGED <<Worker, latest, edge>>

\* A put follows the answer, however late.
PutOnEdge(r) ==
    /\ "edge" \in request[r].writes
    /\ edge' = [edge EXCEPT ![request[r].base] = request[r].bundle]
    /\ request' = [request EXCEPT ![r].writes = @ \ {"edge"}]
    /\ UNCHANGED <<Worker, latest, faults>>

PutInR2(r) ==
    /\ "r2" \in request[r].writes
    /\ latest' = request[r].bundle
    /\ request' = [request EXCEPT ![r].writes = @ \ {"r2"}]
    /\ UNCHANGED <<Worker, edge, faults>>

PutFails(r) ==
    /\ \E w \in request[r].writes : request' = [request EXCEPT ![r].writes = @ \ {w}]
    /\ UNCHANGED <<Worker, latest, edge, faults>>

\* max-age is over, or the edge drops the bundle.
Evict(b) ==
    /\ edge[b] # NoBundle /\ edge' = [edge EXCEPT ![b] = NoBundle]
    /\ UNCHANGED <<Worker, latest, request, faults>>

-----------------------------------------------------------------------------
Init ==
    /\ observed = {} /\ forecast = {} /\ job = NoJob /\ state = {} /\ latest = NoBundle
    /\ edge = [b \in Times |-> NoBundle]
    /\ request = [r \in Requests |-> NoRequest]
    /\ made = {} /\ faults = 0

JobStep ==
    fetchRadar \/ prewarmRadarBundle \/ PrewarmFails \/ updateState

RequestStep(r) ==
    \/ \E b \in {BaseOf(p) : p \in made} : Ask(r, b)
    \/ cachedRadarBundleResponse(r) \/ readState(r) \/ radarBundleResponseForPayload(r)
    \/ (\E i \in Shards(request[r].paths) : radarBundleShardResponse(r, i))
    \/ ShardFails(r) \/ shardStream(r) \/ StreamBreaks(r)
    \/ PutOnEdge(r) \/ PutInR2(r) \/ PutFails(r)

Next ==
    \/ Observe
    \/ \E b \in 1 .. MaxTime, n \in 1 .. Beyond : Forecast(b, n)
    \/ JobStep
    \/ \E r \in Requests : RequestStep(r)
    \/ \E b \in Times : Evict(b)

Spec == Init /\ [][Next]_vars

-----------------------------------------------------------------------------
TypeOK ==
    /\ observed \subseteq Times /\ faults \in 0 .. MaxFaults
    /\ job.at \in {"idle", "prewarm", "store"}
    /\ \A r \in Requests :
          /\ request[r].at \in {"new", "fast", "state", "match", "shards", "answered", "refused"}
          /\ request[r].writes \subseteq {"edge", "r2"}

\* Whatever way a bundle was kept and however late it was put there, an answered bundle is
\* that of a whole payload of the base time asked for, and has the records it claims.
BundleIsWhole ==
    \A r \in Requests : request[r].at = "answered" =>
        LET bundle == request[r].bundle
        IN  /\ bundle.paths \in made /\ BaseOf(bundle.paths) = request[r].base
            /\ bundle.records = Cardinality(bundle.paths)
=============================================================================
