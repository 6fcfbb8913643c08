---------------------------- MODULE SpotifyAuth ----------------------------
(* Authorization at Spotify (spotify_oauth.ts). A device begins a session and opens the
   page of Spotify with its state; the callback of the browser takes the session, trades
   its code for tokens and stores them for the session's device; requests for an access
   token get the stored one, or one the stored refresh token is traded for. Nothing keeps
   callbacks and requests apart: each reads the row, waits for Spotify and writes the row.

   A grant is the code it began with; a token says whose grant it is of and, an access
   token, until when Spotify honours it. Encryption is left out. *)
EXTENDS Integers

CONSTANTS
    Devices,
    States,       \* states of sessions; Spotify gives one code for each
    Callbacks,    \* requests of browsers, which may repeat one
    Requests,     \* requests for an access token
    SESSION_TTL, TOKEN_SKEW, Lifetime, \* ticks; expires_in of a token
    MaxClock      \* bound: ticks

VARIABLES
    clock,
    sessions,     \* spotify_oauth_sessions: state -> [device, expires]
    credentials,  \* spotify_credentials: device -> row
    callback,     \* the callbacks
    request,      \* the requests for an access token
    codes,        \* Spotify: codes that were traded
    begun         \* history: who began the session of a state

vars == <<clock, sessions, credentials, callback, request, codes, begun>>

NoOne == "none"

SpotifyAssumption ==
    {SESSION_TTL, TOKEN_SKEW, Lifetime, MaxClock} \subseteq Nat /\ NoOne \notin Devices

NoSession == [device |-> NoOne, expires |-> 0]
NoRow == [device |-> NoOne]
Access(grant) == [grant |-> grant, until |-> clock + Lifetime]
Row(d, refresh, access, expires) ==
    [device |-> d, refresh |-> refresh, access |-> access, expires |-> expires]

Tick ==
    /\ clock < MaxClock /\ clock' = clock + 1
    /\ UNCHANGED <<sessions, credentials, callback, request, codes, begun>>

-----------------------------------------------------------------------------
(* startSpotifyAuthorization: the session is inserted, expired ones are deleted. *)

Expired(s, now) == sessions[s] # NoSession /\ sessions[s].expires < now

startSpotifyAuthorization(d, s) ==
    /\ begun[s] = NoOne
    /\ begun' = [begun EXCEPT ![s] = d]
    /\ \E swept \in {{x \in States : Expired(x, clock)}, {}} :  \* a failed cleanup only warns
          sessions' = [x \in States |->
              IF x = s THEN [device |-> d, expires |-> clock + SESSION_TTL]
              ELSE IF x \in swept THEN NoSession ELSE sessions[x]]
    /\ UNCHANGED <<clock, credentials, callback, request, codes>>

-----------------------------------------------------------------------------
(* spotifyCallback. *)

NoCallback == [at |-> "new"]

\* The session is read; the browser has a code unless the user declined.
SelectSession(h, s, code) ==
    /\ callback[h].at = "new" /\ begun[s] # NoOne
    /\ callback' = [callback EXCEPT ![h] =
           [at |-> "delete", state |-> s, code |-> code, now |-> clock, session |-> sessions[s]]]
    /\ UNCHANGED <<clock, sessions, credentials, request, codes, begun>>

\* A session that has expired serves no more, and none without a code.
Serves(c) == c.session # NoSession /\ c.session.expires >= c.now /\ c.code

DeleteSession(h) ==
    /\ callback[h].at = "delete"
    /\ sessions' = [sessions EXCEPT ![callback[h].state] = NoSession]
    /\ callback' = [callback EXCEPT ![h].at = IF Serves(callback[h]) THEN "trade" ELSE "failed"]
    /\ UNCHANGED <<clock, credentials, request, codes, begun>>

\* Spotify trades a code once.
TradeCode(h) ==
    /\ callback[h].at = "trade"
    /\ LET s == callback[h].state
       IN  IF s \in codes THEN callback' = [callback EXCEPT ![h].at = "failed"]
           ELSE callback' = [callback EXCEPT ![h] =
                    [at |-> "store", state |-> s, session |-> @.session, refresh |-> s,
                     access |-> Access(s), expires |-> @.now + Lifetime]]
    /\ codes' = codes \cup {callback[h].state}
    /\ UNCHANGED <<clock, sessions, credentials, request, begun>>

StoreCredentials(h) ==
    /\ callback[h].at = "store"
    /\ LET c == callback[h]
       IN  credentials' = [credentials EXCEPT ![c.session.device] =
                              Row(c.session.device, c.refresh, c.access, c.expires)]
    /\ callback' = [callback EXCEPT ![h] = [at |-> "done"]]
    /\ UNCHANGED <<clock, sessions, request, codes, begun>>

-----------------------------------------------------------------------------
(* spotifyAccessToken. *)

NoRequest == [at |-> "new"]
Answer(d, access, expires) ==
    [at |-> "answered", device |-> d, access |-> access, expires |-> expires]

\* The row's token is good for longer than the skew, or its refresh token is traded.
Select(r, d) ==
    /\ request[r].at = "new"
    /\ LET row == credentials[d]
       IN  request' = [request EXCEPT ![r] =
               CASE row = NoRow -> [at |-> "failed"]
                 [] row # NoRow /\ row.expires > clock + TOKEN_SKEW ->
                       Answer(d, row.access, row.expires)
                 [] OTHER -> [at |-> "trade", device |-> d, row |-> row, now |-> clock]]
    /\ UNCHANGED <<clock, sessions, credentials, callback, codes, begun>>

TradeRefreshToken(r) ==
    /\ request[r].at = "trade"
    /\ request' = [request EXCEPT ![r] =
           [at |-> "store", device |-> @.device, refresh |-> @.row.refresh,
            access |-> Access(@.row.refresh), expires |-> @.now + Lifetime]]
    /\ UNCHANGED <<clock, sessions, credentials, callback, codes, begun>>

\* A mistake: the refresh token is written only when Spotify replaces it.
RefreshTokenOfRow(r) == credentials[request[r].device].refresh

\* The replacement, or the refresh token that was read.
RefreshTokenOf(r) == request[r].refresh

UpdateCredentials(r) ==
    /\ request[r].at = "store"
    /\ LET q == request[r]
       IN  /\ credentials' = [credentials EXCEPT ![q.device] =
                                 Row(q.device, RefreshTokenOf(r), q.access, q.expires)]
           /\ request' = [request EXCEPT ![r] = Answer(q.device, q.access, q.expires)]
    /\ UNCHANGED <<clock, sessions, callback, codes, begun>>

\* Spotify or D1 fails.
Fails(r) ==
    /\ request[r].at \in {"trade", "store"}
    /\ request' = [request EXCEPT ![r] = [at |-> "failed"]]
    /\ UNCHANGED <<clock, sessions, credentials, callback, codes, begun>>

CallbackFails(h) ==
    /\ callback[h].at \in {"delete", "trade", "store"}
    /\ callback' = [callback EXCEPT ![h] = [at |-> "failed"]]
    /\ UNCHANGED <<clock, sessions, credentials, request, codes, begun>>

-----------------------------------------------------------------------------
Init ==
    /\ clock = 0 /\ codes = {}
    /\ sessions = [s \in States |-> NoSession]
    /\ credentials = [d \in Devices |-> NoRow]
    /\ callback = [h \in Callbacks |-> NoCallback]
    /\ request = [r \in Requests |-> NoRequest]
    /\ begun = [s \in States |-> NoOne]

Next ==
    \/ Tick
    \/ \E d \in Devices, s \in States : startSpotifyAuthorization(d, s)
    \/ \E h \in Callbacks :
          \/ \E s \in States, code \in BOOLEAN : SelectSession(h, s, code)
          \/ DeleteSession(h) \/ TradeCode(h) \/ StoreCredentials(h) \/ CallbackFails(h)
    \/ \E r \in Requests :
          \/ \E d \in Devices : Select(r, d)
          \/ TradeRefreshToken(r) \/ UpdateCredentials(r) \/ Fails(r)

Spec == Init /\ [][Next]_vars

-----------------------------------------------------------------------------
TypeOK ==
    /\ clock \in 0 .. MaxClock /\ codes \subseteq States
    /\ \A s \in States : sessions[s].device \in Devices \cup {NoOne}
    /\ \A d \in Devices : credentials[d].device \in {d, NoOne}
    /\ \A h \in Callbacks : callback[h].at \in {"new", "delete", "trade", "store", "done", "failed"}
    /\ \A r \in Requests : request[r].at \in {"new", "trade", "store", "answered", "failed"}

\* However callbacks and refreshes overtake each other, a device's row holds the access and
\* the refresh token of one grant, of a session this device began, and neither the row nor
\* an answer promises a token for longer than Spotify honours it.
CredentialsAreOneGrant ==
    /\ \A d \in Devices : credentials[d] # NoRow =>
          LET row == credentials[d]
          IN  /\ row.access.grant = row.refresh /\ begun[row.refresh] = d
              /\ row.expires <= row.access.until
    /\ \A r \in Requests : request[r].at = "answered" =>
          /\ begun[request[r].access.grant] = request[r].device
          /\ request[r].expires <= request[r].access.until
=============================================================================
