------------------------------ MODULE MCStores ------------------------------
(* What the panel and the two Workers keep in files, tables and memory, for TLC: seven
   components, each in a small instance. A behaviour is one of a single component,
   `part`; the others rest in their initial states. One run then explores the sum of
   their states, not the product, and each property speaks of its component in every
   state of the run. *)
EXTENDS Integers

CONSTANTS
    Sequences, Times, BucketOf, Handlers, IsolateOf, Materialised,          \* TelemetryStore
    MaxRequests, MaxLosses,
    Requests, MaxChanges,                                                   \* ResponseCache
    MaxSuccess, MaxChecks, MaxSwitches,                                     \* StationheadHealth
    Videos, KeyOf, MaxStores, MaxOutside,                                   \* VideoLibrary
    PageVideos, Landscape, Seeds, Modulus, Multiplier, Increment, Limit,    \* PlaybackPages
    ScanLimit, QueryFloor, MaxPageChanges,
    MaxMaps, MaxEvents,                                                     \* PlaybackCache
    Runners, MaxRelease, MaxTroubles                                        \* Updater

VARIABLES
    part,
    sample, counted, heartbeat, environment, cached, invocation, requests, losses, displacing,
    stored, unmarked, marked, generation, entry, request,
    success, health, alerts, check, checks, switches, announced,
    status, recent, feed, blocked, death, counts, liveness, run, blocking, storing, stores,
    outside, due, settled,
    playable, seed, filter, cursor, page, walk, served, steady, changes,
    gone, block, map, created, shared, req, late, events,
    latest, installed, pending, panel, launch, runner, installer, spoilt, troubles

storeVars    == <<sample, counted, heartbeat, environment, cached, invocation, requests,
                  losses, displacing>>
responseVars == <<stored, unmarked, marked, generation, entry, request>>
healthVars   == <<success, health, alerts, check, checks, switches, announced>>
libraryVars  == <<status, recent, feed, blocked, death, counts, liveness, run, blocking,
                  storing, stores, outside, due, settled>>
pagesVars    == <<playable, seed, filter, cursor, page, walk, served, steady, changes>>
cacheVars    == <<gone, block, map, created, shared, req, late, events>>
updaterVars  == <<latest, installed, pending, panel, launch, runner, installer, spoilt, troubles>>

Store        == INSTANCE TelemetryStore
                    WITH MaxFaults <- MaxLosses, state <- environment, handler <- invocation,
                         faults <- losses
Responses    == INSTANCE ResponseCache
Health       == INSTANCE StationheadHealth WITH row <- health
Library      == INSTANCE VideoLibrary
Pages        == INSTANCE PlaybackPages WITH Videos <- PageVideos, MaxChanges <- MaxPageChanges
Cache        == INSTANCE PlaybackCache WITH entry <- shared
Installation == INSTANCE Updater

\* For TLC: a bucket for each time, one isolate, keys in the opposite order.
TimesAsBuckets == [t \in {1, 2} |-> t]
SameIsolate    == [h \in {1, 2} |-> 1]
ReversedKeys   == [v \in {1, 2} |-> 3 - v]

ASSUME StoreAssumption    == Store!StoreAssumption
ASSUME ResponseAssumption == Responses!ResponseAssumption
ASSUME HealthAssumption   == Health!HealthAssumption
ASSUME LibraryAssumption  == Library!VideosAssumption
ASSUME PagesAssumption    == Pages!PagesAssumption
ASSUME CacheAssumption    == Cache!CacheAssumption
ASSUME UpdaterAssumption  == Installation!UpdaterAssumption

-----------------------------------------------------------------------------
StoresInit ==
    /\ part \in {"store", "responses", "health", "library", "pages", "cache", "updater"}
    /\ Store!Init /\ Responses!Init /\ Library!Init /\ Cache!Init
    /\ Installation!Init
    /\ Health!Init /\ (part # "health" => alerts = FALSE)
    /\ Pages!Init /\ (part # "pages" => playable = {} /\ seed = (CHOOSE x \in Seeds : TRUE) /\ filter = "both")

StoresNext ==
    /\ part' = part
    /\ \/ /\ part = "store" /\ Store!Next
          /\ UNCHANGED <<responseVars, healthVars, libraryVars, pagesVars, cacheVars,
                         updaterVars>>
       \/ /\ part = "responses" /\ Responses!Next
          /\ UNCHANGED <<storeVars, healthVars, libraryVars, pagesVars, cacheVars,
                         updaterVars>>
       \/ /\ part = "health" /\ Health!Next
          /\ UNCHANGED <<storeVars, responseVars, libraryVars, pagesVars, cacheVars,
                         updaterVars>>
       \/ /\ part = "library" /\ Library!Next
          /\ UNCHANGED <<storeVars, responseVars, healthVars, pagesVars, cacheVars,
                         updaterVars>>
       \/ /\ part = "pages" /\ Pages!Next
          /\ UNCHANGED <<storeVars, responseVars, healthVars, libraryVars, cacheVars,
                         updaterVars>>
       \/ /\ part = "cache" /\ Cache!Next
          /\ UNCHANGED <<storeVars, responseVars, healthVars, libraryVars, pagesVars,
                         updaterVars>>
       \/ /\ part = "updater" /\ Installation!Next
          /\ UNCHANGED <<storeVars, responseVars, healthVars, libraryVars, pagesVars,
                         cacheVars>>

StoresSpec ==
    StoresInit /\ [][StoresNext]_<<part, storeVars, responseVars, healthVars,
                                   libraryVars, pagesVars, cacheVars, updaterVars>>

-----------------------------------------------------------------------------
\* The type invariants of the components.
TypesOK ==
    CASE part = "store"     -> Store!TypeOK
      [] part = "responses" -> Responses!TypeOK
      [] part = "health"    -> Health!TypeOK
      [] part = "library"   -> Library!TypeOK
      [] part = "pages"     -> Pages!TypeOK
      [] part = "cache"     -> Cache!TypeOK
      [] part = "updater"   -> Installation!TypeOK

\* TelemetryStore: what the endpoint acknowledges is in its bucket or was replaced by a
\* newer sample, except for what has displaced a sample still to be aggregated elsewhere;
\* and a sample enters its bucket once.
AcknowledgedIsCounted ==
    part = "store" => Store!AcknowledgedIsApplied /\ Store!SampleCountedOnce

\* ResponseCache and PlaybackCache: an answer has every change its isolate had marked
\* before, and no page gives a blocked video to those who ask afterwards.
AnswersAreFresh ==
    /\ part = "responses" => Responses!AnswersAreFresh
    /\ part = "cache" => Cache!NoBlockedVideoServed

\* StationheadHealth: an outage on record has been announced, or will be.
OutageIsAnnounced == Health!OutageIsAnnounced

\* VideoLibrary and PlaybackPages: what is on a list is not shown, counters agree, a pass
\* skips no video, and a walk over the pages gives every video once.
LibraryIsConsistent ==
    /\ part = "library" =>
           Library!ExcludedNeverPlays /\ Library!CountsExact /\ Library!PassSkipsNone
    /\ part = "pages" => Pages!WalkIsExact

\* Updater: wherever runners are killed or fail, the newest executable is never beside
\* files of another release, and an installation that puts everything back changes nothing.
InstallationIsWhole ==
    [][part = "updater" =>
          Installation!NewestIsWhole' /\ Installation!FailedStepUndoes]_updaterVars
=============================================================================
