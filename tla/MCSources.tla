----------------------------- MODULE MCSources -----------------------------
(* What the Worker asks of others, for TLC: the releases it announces (UpdateCheck) and,
   each in a small instance, the readings of the energy supplier, the rain radar and the
   tokens of Spotify. A behaviour is one of a single component, `part`; the others rest
   in their initial states. One run then explores the sum of their states, not the
   product. *)
EXTENDS MCUpdateCheck

CONSTANTS
    HalfHour, SlotsPerDay, PROFILE_DAYS, OCTOPUS_COLLECTION_DAYS, FloorSlot, \* Octopus
    MonthStart, D1_BATCH_SIZE, Charge, Late, Corrected, StartNow, MaxNow, MaxOutages,
    Window, Beyond, PerShard, Requests, MaxTime, MaxLosses,                  \* Radar
    Accounts, States, Callbacks, TokenRequests, SESSION_TTL, TOKEN_SKEW,     \* SpotifyAuth
    Lifetime, MaxClock

VARIABLES
    part,
    now, missing, amended, stored, totals, octopusToken, sync, torn, faults,
    observed, forecast, job, state, latest, edge, ask, made, losses,
    clock, sessions, credentials, callback, request, codes, begun

octopusVars == <<now, missing, amended, stored, totals, octopusToken, sync, torn, faults>>
radarVars   == <<observed, forecast, job, state, latest, edge, ask, made, losses>>
spotifyVars == <<clock, sessions, credentials, callback, request, codes, begun>>

Energy  == INSTANCE Octopus WITH Energy <- Charge, MaxFaults <- MaxOutages
Rain    == INSTANCE Radar WITH MaxFaults <- MaxLosses, request <- ask, faults <- losses
Spotify == INSTANCE SpotifyAuth WITH Devices <- Accounts, Requests <- TokenRequests

ASSUME EnergyAssumption  == Energy!OctopusAssumption
ASSUME RainAssumption    == Rain!RadarAssumption
ASSUME SpotifyAssumption == Spotify!SpotifyAssumption

-----------------------------------------------------------------------------
SourcesInit ==
    /\ part \in {"releases", "energy", "rain", "spotify"}
    /\ Init /\ Energy!Init /\ Rain!Init /\ Spotify!Init

SourcesNext ==
    /\ part' = part
    /\ \/ part = "releases" /\ Next /\ UNCHANGED <<octopusVars, radarVars, spotifyVars>>
       \/ part = "energy" /\ Energy!Next /\ UNCHANGED <<vars, radarVars, spotifyVars>>
       \/ part = "rain" /\ Rain!Next /\ UNCHANGED <<vars, octopusVars, spotifyVars>>
       \/ part = "spotify" /\ Spotify!Next /\ UNCHANGED <<vars, octopusVars, radarVars>>

SourcesSpec ==
    /\ SourcesInit /\ [][SourcesNext]_<<part, vars, octopusVars, radarVars, spotifyVars>>
    /\ Fairness

-----------------------------------------------------------------------------
\* The type invariants of the four modules.
TypesOK ==
    /\ TypeOK
    /\ Energy!TypeOK
    /\ Rain!TypeOK
    /\ Spotify!TypeOK

\* Octopus: the sums, the profile and the usage put together from several places are those
\* of the readings that were fetched.
FetchedIsTrue == Energy!TotalsFollowReadings /\ Energy!ProfileIsTrue

\* Radar and SpotifyAuth: what a device is given is of one origin: a bundle is that of one
\* whole payload, and a device's row and the tokens of an answer are of one grant, of a
\* session this device began.
AnswersAreOfOneOrigin == Rain!BundleIsWhole /\ Spotify!CredentialsAreOneGrant
=============================================================================
