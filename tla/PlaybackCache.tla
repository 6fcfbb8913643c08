--------------------------- MODULE PlaybackCache ---------------------------
(* The response caches of one isolate of the video Worker (entry-core.js): a map of
   pages per database in a WeakMap, in which concurrent requests for one page share
   its read. An invalidation drops the map, not its entries, so that a read under way
   fills a map nobody looks at any more. Here: one key of the map, one video that a
   viewer blocks. *)
EXTENDS Naturals

CONSTANTS
    Requests,   \* requests for the page
    MaxMaps,    \* bound: maps created
    MaxEvents   \* bound: expiries, evictions, failures and other invalidations

CacheAssumption == MaxMaps \in Nat \ {0} /\ MaxEvents \in Nat

VARIABLES
    gone,       \* the video is blocked in the database
    block,      \* the block request: "none", "written", "answered"
    map,        \* the map the WeakMap holds, 0 for none
    created,    \* maps created so far
    entry,      \* of each map: the entry of the key
    req,        \* of each request: where it is, the map it holds, what its page shows
    late,       \* history: requests begun after the answer to the block
    events

vars == <<gone, block, map, created, entry, req, late, events>>

Maps == 1 .. MaxMaps
NoEntry == [kind |-> "none", by |-> 0, shows |-> FALSE]
NoRequest == [at |-> "none", map |-> 0, by |-> 0, shows |-> FALSE]

Event == events < MaxEvents /\ events' = events + 1

-----------------------------------------------------------------------------
\* cachedPlaybackPage until its first await: the map, made when there is none; a page
\* in it that has not expired; a read in it to wait for, however old; or a new read.
CachedPlaybackPage(r) ==
    LET m == IF map = 0 THEN created + 1 ELSE map
        e == entry[m]
    IN  /\ req[r].at = "none"
        /\ m \in Maps
        /\ map' = m /\ created' = IF map = 0 THEN m ELSE created
        /\ CASE e.kind = "page" ->
                    /\ req' = [req EXCEPT ![r] = [at |-> "served", map |-> m, by |-> r, shows |-> e.shows]]
                    /\ entry' = entry
             [] e.kind = "pending" ->
                    /\ req' = [req EXCEPT ![r] = [at |-> "waiting", map |-> m, by |-> e.by, shows |-> FALSE]]
                    /\ entry' = entry
             [] OTHER ->
                    /\ req' = [req EXCEPT ![r] = [at |-> "reading", map |-> m, by |-> r, shows |-> FALSE]]
                    /\ entry' = [entry EXCEPT ![m] = [kind |-> "pending", by |-> r, shows |-> FALSE]]
        /\ late' = IF block = "answered" THEN late \cup {r} ELSE late
        /\ UNCHANGED <<gone, block, events>>

\* The database reads the page; the isolate has not resumed yet.
ReadLands(r) ==
    /\ req[r].at = "reading"
    /\ req' = [req EXCEPT ![r].at = "read", ![r].shows = ~gone]
    /\ UNCHANGED <<gone, block, map, created, entry, late, events>>

\* The read resolves: every request that waits for it has its page, and the map the
\* read began with gets it.
ReadReturns(r) ==
    /\ req[r].at = "read"
    /\ req' = [q \in Requests |->
                 IF q = r \/ (req[q].at = "waiting" /\ req[q].by = r)
                 THEN [req[q] EXCEPT !.at = "served", !.shows = req[r].shows] ELSE req[q]]
    /\ entry' = [entry EXCEPT ![req[r].map] = [kind |-> "page", by |-> r, shows |-> req[r].shows]]
    /\ UNCHANGED <<gone, block, map, created, late, events>>

ReadFails(r) ==
    /\ req[r].at \in {"reading", "read"}
    /\ Event
    /\ req' = [q \in Requests |->
                 IF q = r \/ (req[q].at = "waiting" /\ req[q].by = r)
                 THEN [req[q] EXCEPT !.at = "failed"] ELSE req[q]]
    /\ entry' = [entry EXCEPT ![req[r].map] = NoEntry]
    /\ UNCHANGED <<gone, block, map, created, late>>

\* A page is older than its TTL, or trimPlaybackCache removes the oldest entry, even
\* one that is still being read.
EntryLeaves(m) ==
    /\ entry[m].kind # "none"
    /\ Event
    /\ entry' = [entry EXCEPT ![m] = NoEntry]
    /\ UNCHANGED <<gone, block, map, created, req, late>>

\* The batch of blockPlaybackMedia.
BlockWrites ==
    /\ block = "none"
    /\ block' = "written" /\ gone' = TRUE
    /\ UNCHANGED <<map, created, entry, req, late, events>>

\* A mistake: the map is emptied, and stays where reads under way will fill it.
EmptyTheMap ==
    /\ map' = map
    /\ entry' = [m \in Maps |-> IF m = map THEN NoEntry ELSE entry[m]]

InvalidatePlaybackResponseCache == map' = 0 /\ entry' = entry

\* blockPlaybackVideo resumes: the caches are dropped before the viewer is told.
BlockAnswers ==
    /\ block = "written"
    /\ InvalidatePlaybackResponseCache
    /\ block' = "answered"
    /\ UNCHANGED <<gone, created, req, late, events>>

\* A collection, an import or the liveness monitor invalidates.
OtherInvalidation ==
    /\ map # 0
    /\ Event
    /\ InvalidatePlaybackResponseCache
    /\ UNCHANGED <<gone, block, created, req, late>>

-----------------------------------------------------------------------------
Init ==
    /\ gone = FALSE /\ block = "none" /\ map = 0 /\ created = 0
    /\ entry = [m \in Maps |-> NoEntry]
    /\ req = [r \in Requests |-> NoRequest]
    /\ late = {} /\ events = 0

Next ==
    \/ \E r \in Requests : CachedPlaybackPage(r) \/ ReadLands(r) \/ ReadReturns(r) \/ ReadFails(r)
    \/ \E m \in Maps : EntryLeaves(m)
    \/ BlockWrites \/ BlockAnswers \/ OtherInvalidation

Spec == Init /\ [][Next]_vars

-----------------------------------------------------------------------------
TypeOK ==
    /\ gone \in BOOLEAN /\ block \in {"none", "written", "answered"}
    /\ map \in 0 .. created /\ created \in 0 .. MaxMaps
    /\ \A m \in Maps : entry[m].kind \in {"none", "pending", "page"} /\ entry[m].shows \in BOOLEAN
    /\ \A r \in Requests : /\ req[r].at \in {"none", "reading", "read", "waiting", "served", "failed"}
                           /\ req[r].map \in 0 .. created
    /\ late \subseteq Requests /\ events \in 0 .. MaxEvents

\* A request made in this isolate after the viewer was told that the video is blocked
\* never gets a page with it, not from a read that began before the block either.
NoBlockedVideoServed == \A r \in late : req[r].at = "served" => ~req[r].shows
=============================================================================
