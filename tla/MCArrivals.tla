----------------------------- MODULE MCArrivals -----------------------------
(* What must get there through queues, caches and locks that hold it up for a while, for
   TLC: the import of a list of videos (VideoImport) and, in a small instance,
   the state of the Worker on its way to a panel (StateSync).  A behaviour is one of a
   single component, `part`, under its fairness; the other rests in its initial state. *)
EXTENDS MCVideoImport, Integers

CONSTANTS
    Sources, SwitchBot, Isolates, LegacyEnvironment, MaxVersion, MaxEnvironment,  \* StateSync
    MaxUnclean, StorageFails

VARIABLES part, state, status, r2, cache, poll, file, held, meta, dirty, fallback, unclean

syncVars == <<state, status, r2, cache, poll, file, held, meta, dirty, fallback, unclean>>

Sync == INSTANCE StateSync

ASSUME ArrivingAssumption == Sync!SyncAssumption

-----------------------------------------------------------------------------
ArrivalsInit ==
    /\ part \in {"imports", "sync"}
    /\ Init /\ (part = "sync" => stored = {})
    /\ Sync!Init

ArrivalsNext ==
    /\ part' = part
    /\ \/ part = "imports" /\ Next /\ UNCHANGED syncVars
       \/ part = "sync" /\ Sync!Next /\ UNCHANGED vars

\* The fairness of StateSync, while the behaviour is one of it.
SyncFairness == LET On == part = "sync" IN
    /\ \A i \in Isolates : WF_syncVars(On /\ Sync!ExpireCache(i))
    /\ WF_syncVars(On /\ Sync!StartPoll) /\ WF_syncVars(On /\ Sync!PollStep)
    /\ WF_syncVars(On /\ Sync!ForcePresence) /\ WF_syncVars(On /\ Sync!ShowError)
    /\ SF_syncVars(On /\ \E i \in Isolates : Sync!ReadEnvironment(i) /\ Sync!UpToDate')
    /\ SF_syncVars(On /\ Sync!SnapshotLast /\ Sync!UpToDate)
    /\ SF_syncVars(On /\ Sync!CompareVersions /\ Sync!UpToDate)
    /\ SF_syncVars(On /\ Sync!ReadPayloads /\ Sync!UpToDate)
    /\ \A doc \in Sync!Documents :
          SF_syncVars(On /\ Sync!WriteDocument(doc) /\ Sync!UpToDate)
    /\ SF_syncVars(On /\ Sync!AcceptVersions)

ArrivalsSpec ==
    /\ ArrivalsInit /\ [][ArrivalsNext]_<<part, vars, syncVars>>
    /\ \/ part = "imports" /\ Fairness
       \/ part = "sync" /\ SyncFairness

-----------------------------------------------------------------------------
\* StateSync: where the versions agree the panel's file holds the current content of every
\* part; whether a source is ok or stale it may show as of an earlier time.
AgreedIsCurrent == Sync!AgreedIsCurrent

\* VideoImport and StateSync: an accepted import is completed or given up in the end,
\* which is for good, and every change of content reaches the panel, whose files hold the
\* latest again and again; a change of status alone waits for the next of content.  Each is
\* true throughout the behaviours of the other.
GetsThere == []<>(AcceptedIsSettled /\ Sync!CaughtUp)
=============================================================================
