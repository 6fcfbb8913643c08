----------------------------- MODULE StateSync -----------------------------
(***************************************************************************)
(* How the state of the Worker reaches a panel.  Sources write rows of     *)
(* current_state, whose version grows when the hash of the content does    *)
(* not agree with the row's, and only then (updateState, snapshot.ts); the *)
(* environment lives in an R2 object that every isolate caches             *)
(* (environment_r2.ts).  A poll sends the versions the panel holds; the    *)
(* Worker compares them with a snapshot and adds the payloads that differ  *)
(* (device_sync.ts); the panel writes them to files, then accepts the      *)
(* versions and saves them (native/src/cloud_client_sync.cpp).  When a     *)
(* poll fails the panel patches its files: presence is forced to home and  *)
(* the dashboard shows the error (cloud_client.cpp).                       *)
(*                                                                         *)
(* The dashboard is one document with one version, the sum of the versions *)
(* of its parts.  It shows the content of each part, which is represented  *)
(* by its version, and its status.  A source that turns stale and one that *)
(* recovers with the content it had change the document and no version: a  *)
(* poll does not tell the panel, which learns of it with the next change   *)
(* of content.  So it is, too, with error messages, times and whatever     *)
(* else stablePayload leaves out of the hash; these are not modelled.      *)
(***************************************************************************)
EXTENDS Integers, FiniteSets, FiniteSetsExt

CONSTANTS
    Sources,            \* sources of the dashboard with a row in D1
    SwitchBot,          \* the one that is also a document of its own
    Isolates,           \* Worker isolates that answer polls
    LegacyEnvironment,  \* version of the environment row in D1; 0 if there is none
    MaxVersion,         \* bound: versions of a source
    MaxEnvironment,     \* bound: versions of the environment
    MaxUnclean,         \* bound: ends of its process while files and saved versions differ
    StorageFails        \* whether R2 reads and file writes may fail

\* Assumed of every instance.
SyncAssumption ==
    /\ SwitchBot \in Sources /\ IsFiniteSet(Sources)
    /\ "environment" \notin Sources /\ "dashboard" \notin Sources
    /\ LegacyEnvironment \in Nat /\ MaxVersion \in Nat \ {0} /\ MaxEnvironment \in Nat
    /\ MaxUnclean \in Nat /\ StorageFails \in BOOLEAN

VARIABLES
    state,      \* versions in current_state; 0 for a source without a row
    status,     \* the status of each row; "none" for a source without a row
    r2,         \* version of the environment object in R2; 0 if there is none
    cache,      \* ENVIRONMENT_CACHE of each isolate; -1 if expired
    poll,       \* the poll in progress
    file,       \* the document files of the panel
    held,       \* dashboardVersion_, switchbotVersion_
    meta,       \* the versions in dashboard.meta.json
    dirty,      \* cacheMetadataDirty_
    fallback,   \* presenceFallbackActive_
    unclean     \* counts those ends of the process

rowVars == <<state, status>>
serverVars == <<rowVars, r2, cache>>
panelVars == <<file, held, meta, dirty, fallback>>
vars == <<serverVars, poll, panelVars, unclean>>

Documents == {"dashboard", SwitchBot}
Parts(doc) == IF doc = "dashboard" THEN Sources \cup {"environment"} ELSE {doc}

\* The sources whose status a document shows: that of SwitchBot is its payload alone.
Reporting(doc) == IF doc = "dashboard" THEN Sources ELSE {}

Statuses == {"none", "ok", "stale", "error"}
NoPart == [p \in {} |-> 0]

\* What a file holds: nothing, a payload, or one the panel has patched itself, whose
\* remaining content is left out.
NoFile == [kind |-> "absent", view |-> NoPart, status |-> NoPart]
PatchedFile == [NoFile EXCEPT !.kind = "patched"]
Files(doc) ==
    {NoFile, PatchedFile}
    \cup [kind: {"payload"}, view: [Parts(doc) -> Nat], status: [Reporting(doc) -> Statuses]]

IdlePoll == [step |-> "idle"]

TypeOK ==
    /\ state \in [Sources -> 0 .. MaxVersion] /\ r2 \in 0 .. MaxEnvironment
    /\ status \in [Sources -> Statuses]
    /\ \A s \in Sources : status[s] = "none" <=> state[s] = 0
    /\ cache \in [Isolates -> -1 .. MaxEnvironment]
    /\ poll.step \in {"idle", "reading", "rows", "reply", "patch", "error"}
    /\ \A doc \in Documents : file[doc] \in Files(doc)
    /\ held \in [Documents -> Int] /\ meta \in [Documents -> Int]
    /\ \A doc \in Documents : held[doc] >= -1 /\ meta[doc] >= -1
    /\ dirty \in BOOLEAN /\ fallback \in BOOLEAN /\ unclean \in 0 .. MaxUnclean

Init ==
    /\ state = [s \in Sources |-> 0] /\ r2 = 0
    /\ status = [s \in Sources |-> "none"]
    /\ cache = [i \in Isolates |-> -1]
    /\ poll = IdlePoll
    /\ file = [doc \in Documents |-> NoFile]
    /\ held = [doc \in Documents |-> -1] /\ meta = held
    /\ dirty = FALSE /\ fallback = FALSE /\ unclean = 0

SumOf(versions) == MapThenSumSet(LAMBDA s : versions[s], Sources)

-----------------------------------------------------------------------------
(* The Worker.                                                             *)

\* updateState with content whose hash is not that of the row.
UpdateSource(s) ==
    /\ state[s] < MaxVersion
    /\ state' = [state EXCEPT ![s] = @ + 1]
    /\ status' = [status EXCEPT ![s] = "ok"]
    /\ UNCHANGED <<r2, cache, poll, panelVars, unclean>>

\* updateState with the content of the row, from which a stale source recovers.
RepeatSource(s) ==
    /\ status[s] = "stale"
    /\ status' = [status EXCEPT ![s] = "ok"]
    /\ UNCHANGED <<state, r2, cache, poll, panelVars, unclean>>

\* updateState with an error: the first row of a source, or the status of the row it has.
FailSource(s) ==
    /\ \/ /\ state[s] = 0
          /\ state' = [state EXCEPT ![s] = 1]
          /\ status' = [status EXCEPT ![s] = "error"]
       \/ /\ status[s] = "ok"
          /\ status' = [status EXCEPT ![s] = "stale"]
          /\ UNCHANGED state
    /\ UNCHANGED <<r2, cache, poll, panelVars, unclean>>

\* A telemetry merge that changes the environment; its status is always ok.
UpdateEnvironment ==
    /\ r2 < MaxEnvironment
    /\ r2' = r2 + 1
    /\ UNCHANGED <<rowVars, cache, poll, panelVars, unclean>>

ExpireCache(i) ==
    /\ cache[i] # -1
    /\ cache' = [cache EXCEPT ![i] = -1]
    /\ UNCHANGED <<rowVars, r2, poll, panelVars, unclean>>

\* The snapshot statement and the read of the environment run concurrently.
SnapshotRows ==
    /\ poll.step = "reading" /\ ~poll.hasRows
    /\ poll' = [poll EXCEPT !.hasRows = TRUE, !.rows = state]
    /\ UNCHANGED <<serverVars, panelVars, unclean>>

\* readR2EnvironmentState: the cache, the object, or nothing when the read fails.
ReadEnvironment(i) ==
    /\ poll.step = "reading" /\ ~poll.hasEnv
    /\ \/ /\ cache[i] # -1
          /\ poll' = [poll EXCEPT !.hasEnv = TRUE, !.env = cache[i]]
          /\ UNCHANGED cache
       \/ /\ cache[i] = -1
          /\ poll' = [poll EXCEPT !.hasEnv = TRUE, !.env = r2]
          /\ cache' = [cache EXCEPT ![i] = r2]
       \/ /\ cache[i] = -1 /\ StorageFails
          /\ poll' = [poll EXCEPT !.hasEnv = TRUE, !.env = 0]
          /\ UNCHANGED cache
    /\ UNCHANGED <<rowVars, r2, panelVars, unclean>>

\* preferredEnvironmentState: the object in R2, else the row in D1.
Environment(env) == IF env # 0 THEN env ELSE LegacyEnvironment

\* A mistake: the environment is left out of the sum.
VersionOfRowsOnly(doc, rows, env) == IF doc = "dashboard" THEN SumOf(rows) ELSE rows[doc]

\* The versions of a reply.
VersionOf(doc, rows, env) ==
    IF doc = "dashboard" THEN SumOf(rows) + Environment(env) ELSE rows[doc]

\* What the payload of a document shows: the content of its parts, and their status.
ViewOf(doc, rows, env) ==
    [p \in Parts(doc) |-> IF p = "environment" THEN Environment(env) ELSE rows[p]]
StatusOf(doc, statuses) == [s \in Reporting(doc) |-> statuses[s]]

CompareVersions ==
    /\ poll.step = "reading" /\ poll.hasRows /\ poll.hasEnv
    /\ LET version == [doc \in Documents |-> VersionOf(doc, poll.rows, poll.env)] IN
         poll' = [step |-> "rows", version |-> version, env |-> poll.env,
                  changed |-> {doc \in Documents : version[doc] # poll.asked[doc]}]
    /\ UNCHANGED <<serverVars, panelVars, unclean>>

\* The rows are read by a statement of their own, after the snapshot.
ReadPayloads ==
    /\ poll.step = "rows"
    /\ poll' = [step |-> "reply", version |-> poll.version,
                todo |-> {doc \in poll.changed : doc = "dashboard" \/ state[doc] # 0},
                applied |-> {},
                view |-> [doc \in Documents |-> ViewOf(doc, state, poll.env)],
                status |-> [doc \in Documents |-> StatusOf(doc, status)]]
    /\ UNCHANGED <<serverVars, panelVars, unclean>>

-----------------------------------------------------------------------------
(* The panel: Synchronize and Loop.                                        *)

\* The version a poll reports for a document.
Reported(doc) ==
    IF file[doc].kind = "absent" \/ (doc = SwitchBot /\ fallback) THEN -1 ELSE held[doc]

StartPoll ==
    /\ poll.step = "idle"
    /\ poll' = [step |-> "reading", asked |-> [doc \in Documents |-> Reported(doc)],
                hasRows |-> FALSE, rows |-> [s \in Sources |-> 0], hasEnv |-> FALSE, env |-> 0]
    /\ UNCHANGED <<serverVars, panelVars, unclean>>

\* The request fails, or a file cannot be written.
FailPoll ==
    /\ \/ poll.step \in {"reading", "rows"}
       \/ poll.step = "reply" /\ (poll.applied = {} \/ StorageFails)
    /\ poll' = [step |-> "patch"]
    /\ UNCHANGED <<serverVars, panelVars, unclean>>

\* Files are written in the order of the documents, the dashboard first.
WriteDocument(doc) ==
    /\ poll.step = "reply" /\ doc \in poll.todo
    /\ doc # "dashboard" => "dashboard" \notin poll.todo
    /\ file' = [file EXCEPT ![doc] = [kind |-> "payload", view |-> poll.view[doc],
                                      status |-> poll.status[doc]]]
    /\ fallback' = (fallback /\ doc # SwitchBot)
    /\ poll' = [poll EXCEPT !.todo = @ \ {doc}, !.applied = @ \cup {doc}]
    /\ UNCHANGED <<serverVars, held, meta, dirty, unclean>>

\* acceptedVersion: withheld when the payload was absent.
Accepted(doc) ==
    IF doc \in poll.applied THEN poll.version[doc] ELSE held[doc]

AcceptVersions ==
    /\ poll.step = "reply" /\ poll.todo = {}
    /\ held' = [doc \in Documents |-> Accepted(doc)]
    /\ LET unsaved == dirty \/ held' # held IN
         \/ /\ unsaved
            /\ meta' = held' /\ dirty' = FALSE
         \/ /\ ~unsaved \/ StorageFails
            /\ dirty' = unsaved /\ UNCHANGED meta
    /\ poll' = IdlePoll
    /\ UNCHANGED <<serverVars, file, fallback, unclean>>

\* ApplyPresenceFallback.
ForcePresence ==
    /\ poll.step = "patch"
    /\ poll' = [step |-> "error"]
    /\ \/ /\ ~fallback
          /\ file' = [file EXCEPT ![SwitchBot] = PatchedFile]
          /\ held' = [held EXCEPT ![SwitchBot] = -1]
          /\ dirty' = TRUE /\ fallback' = TRUE
       \/ /\ fallback \/ StorageFails
          /\ UNCHANGED <<file, held, dirty, fallback>>
    /\ UNCHANGED <<serverVars, meta, unclean>>

\* A mistake: the versions held survive a failed poll.
HeldAfterErrorKept(versions) == versions

\* The dashboard file no longer is what its version says.
HeldAfterError(versions) == [versions EXCEPT !["dashboard"] = -1]

\* The rest of Loop's handler: DashboardWithCloudError.
ShowError ==
    /\ poll.step = "error"
    /\ held' = HeldAfterError(held) /\ dirty' = TRUE
    /\ \/ file' = [file EXCEPT !["dashboard"] = PatchedFile]
       \/ StorageFails /\ UNCHANGED file
    /\ poll' = IdlePoll
    /\ UNCHANGED <<serverVars, meta, fallback, unclean>>

\* The files are not those dashboard.meta.json tells of: a poll has failed since the
\* last one whose versions were saved, or a poll has written some of its files.
Unsaved == dirty \/ poll.step \in {"patch", "error"} \/ (poll.step = "reply" /\ poll.applied # {})

\* The process ends and starts again; LoadCacheMetadata.
Restart ==
    /\ Unsaved => unclean < MaxUnclean
    /\ unclean' = IF Unsaved THEN unclean + 1 ELSE unclean
    /\ poll' = IdlePoll
    /\ held' = meta /\ dirty' = FALSE /\ fallback' = FALSE
    /\ UNCHANGED <<serverVars, file, meta>>

-----------------------------------------------------------------------------
Worker ==
    \/ \E s \in Sources : UpdateSource(s) \/ RepeatSource(s) \/ FailSource(s)
    \/ UpdateEnvironment
    \/ \E i \in Isolates : ExpireCache(i) \/ ReadEnvironment(i)
    \/ SnapshotRows \/ CompareVersions \/ ReadPayloads

Panel ==
    \/ StartPoll \/ FailPoll \/ AcceptVersions \/ ForcePresence \/ ShowError \/ Restart
    \/ \E doc \in Documents : WriteDocument(doc)

Next == Worker \/ Panel

Spec == Init /\ [][Next]_vars

\* What the poll has read so far is the latest content there is.
UpToDate ==
    /\ poll.step = "reading" /\ poll.hasEnv => poll.env = r2
    /\ poll.step = "rows" => poll.env = r2
    /\ poll.step = "reply" => \A doc \in Documents : poll.view[doc] = ViewOf(doc, state, r2)

SnapshotLast == poll.step = "reading" /\ poll.hasEnv /\ SnapshotRows

PollStep ==
    \/ SnapshotRows \/ CompareVersions \/ ReadPayloads \/ AcceptVersions
    \/ \E i \in Isolates : ReadEnvironment(i)
    \/ \E doc \in Documents : WriteDocument(doc)

\* Polls go on for ever and caches expire.  However often requests, reads of R2 and
\* writes of files fail and the process ends, they also succeed, again and again within
\* one poll.
Fairness ==
    /\ \A i \in Isolates : WF_vars(ExpireCache(i))
    /\ WF_vars(StartPoll) /\ WF_vars(PollStep)
    /\ WF_vars(ForcePresence) /\ WF_vars(ShowError)
    /\ SF_vars(\E i \in Isolates : ReadEnvironment(i) /\ UpToDate')
    /\ SF_vars(SnapshotLast /\ UpToDate) /\ SF_vars(CompareVersions /\ UpToDate)
    /\ SF_vars(ReadPayloads /\ UpToDate)
    /\ \A doc \in Documents : SF_vars(WriteDocument(doc) /\ UpToDate)
    /\ SF_vars(AcceptVersions)

FairSpec == Spec /\ Fairness

-----------------------------------------------------------------------------
(* Properties.                                                             *)

CurrentVersion(doc) == VersionOf(doc, state, r2)

\* The file holds the content of every part, and shows a source to have succeeded at some
\* time exactly if it has.  Whether it is ok or stale may be as of an earlier time.
Current(doc) ==
    /\ file[doc].kind = "payload" /\ file[doc].view = ViewOf(doc, state, r2)
    /\ \A s \in Reporting(doc) : file[doc].status[s] = "error" <=> status[s] = "error"

\* The Worker sends nothing for a document whose versions agree: whenever the version
\* the next poll will report is the current one, the file really holds the current
\* content of every part, whatever was cached, patched, withheld or read in between, and
\* no error of a source that succeeded since.  It is not claimed that the file shows
\* which sources are stale: updateState keeps the version when a source turns stale or
\* recovers with the same content, and the panel goes on showing what it did.
AgreedIsCurrent ==
    poll.step = "idle" =>
        \A doc \in Documents : Reported(doc) = CurrentVersion(doc) => Current(doc)

\* The panel's files hold the latest content: what must come true again and again.
CaughtUp == \A doc \in Documents : Current(doc) \/ CurrentVersion(doc) = 0

\* "presence forced to home until a fresh SwitchBot state is received"
\* (cloud_client_sync.cpp:96): with polls succeeding, the patched presence is replaced.
FallbackEnds == file[SwitchBot].kind = "patched" /\ state[SwitchBot] # 0
                    ~> file[SwitchBot].kind # "patched"
=============================================================================
