--------------------------- MODULE CollectionRun ---------------------------
(* One group of scheduled video sources and the rows of collection_runs it writes
   (scheduled-group-runner.js, scheduled-source-runner.js, source-feed-*.js). The
   sources run one after another, each as a task raced against a timeout: a task
   that loses the race is abandoned, not stopped, and goes on beside the sources
   after it. The task and the runner share the error of the abort, and with it
   the mark that the run has been recorded. *)
EXTENDS Naturals, FiniteSets

CONSTANTS
    Sources,    \* the configured sources, 1 .. n, in their order
    Items,      \* canonical keys of videos
    Excluded,   \* those on the blocklist or the death list
    MaxFaults   \* bound: failed statements and lost isolates

CollectionAssumption ==
    /\ IsFiniteSet(Sources) /\ Sources = 1 .. Cardinality(Sources) /\ Sources # {}
    /\ Excluded \subseteq Items
    /\ MaxFaults \in Nat

VARIABLES
    group,      \* "running", "finalizing", "ended", or "lost" with its isolate
    cur,        \* the source it is at
    parent,     \* the parent signal is aborted
    runner,     \* of each source: "none", "racing", "recording", "ok", "failed"
    task,       \* of each source: where its task is, and the items it carries
    aborted,    \* of each source: its signal is aborted
    marked,     \* of each source: the abort's error has collectionRunRecorded
    rec,        \* of each source: its row of collection_runs
    seen,       \* collectionSeenKeys, shared by the sources of the group
    stored,     \* keys in the videos table
    lost,       \* history: a write of the row's outcome failed
    finalError, \* history: the row that carries the failure of the finalisation
    faults

rows == <<rec, stored, seen, lost>>
vars == <<group, cur, parent, runner, task, aborted, marked, rows, finalError, faults>>

NoTask == [at |-> "none", items |-> {}, todo |-> {}, error |-> "none"]
NoRow  == [state |-> "none", error |-> FALSE, found |-> {}]

Fault(fails) == faults + (IF fails THEN 1 ELSE 0) <= MaxFaults
             /\ faults' = faults + (IF fails THEN 1 ELSE 0)

At(s, place) == group # "lost" /\ task[s].at = place
Goes(s, place) == task' = [task EXCEPT ![s].at = place]

\* The task ends: fulfilled, or rejected with an error that is marked or is not.
Ends(s, outcome) == Goes(s, outcome)

Closed(s, error, found) == rec' = [rec EXCEPT ![s] = [state |-> "closed", error |-> error, found |-> found]]
Errored(s) == rec' = [rec EXCEPT ![s].error = TRUE]

-----------------------------------------------------------------------------
(* The task of a source: collectAndPersist. *)

\* The browser answers with the videos it found, or fails. An aborted signal is
\* looked at before and after the capture is kept.
CollectReturns(s, found, fails) ==
    /\ At(s, "collect")
    /\ Fault(fails)
    /\ IF fails \/ aborted[s] THEN Ends(s, "unmarked")
       ELSE task' = [task EXCEPT ![s].at = "capture", ![s].items = found]
    /\ UNCHANGED <<group, cur, parent, runner, aborted, marked, rows, finalError>>

PersistCollectionCapture(s) ==
    /\ At(s, "capture")
    /\ IF aborted[s] THEN Ends(s, "unmarked") ELSE Goes(s, "filter")
    /\ UNCHANGED <<group, cur, parent, runner, aborted, marked, rows, finalError, faults>>

\* What the group has already stored is not filtered or stored again.
FilterReturns(s, fails) ==
    LET found    == task[s].items
        eligible == found \ (Excluded \ seen)
        todo     == eligible \ seen
        place    == CASE found = {} -> "empty"
                      [] found # {} /\ eligible = {} -> "exclude"
                      [] todo = {} /\ eligible # {} -> "close"
                      [] OTHER -> "save"
    IN  /\ At(s, "filter")
        /\ Fault(fails)
        /\ IF fails \/ aborted[s] THEN Ends(s, "unmarked")
           ELSE task' = [task EXCEPT ![s].at = place, ![s].items = eligible, ![s].todo = todo]
        /\ UNCHANGED <<group, cur, parent, runner, aborted, marked, rows, finalError>>

\* An error in the body of persistMergedFeed: it is recorded unless its mark says so.
Caught(s, error) ==
    IF error = "abort" /\ marked[s] THEN Ends(s, "marked")
    ELSE task' = [task EXCEPT ![s].at = "fail", ![s].error = error]

\* saveSourceFeedItems, in batches of which the first ones may have been stored.
SaveLands(s, fails) ==
    /\ At(s, "save")
    /\ Fault(fails)
    /\ \E part \in SUBSET task[s].todo :
        /\ fails \/ part = task[s].todo
        /\ stored' = stored \cup part
    /\ IF fails THEN Caught(s, "other") ELSE Goes(s, "saved")
    /\ UNCHANGED <<group, cur, parent, runner, aborted, marked, rec, seen, lost, finalError>>

SaveReturns(s) ==
    /\ At(s, "saved")
    /\ IF aborted[s] THEN Caught(s, "abort") /\ seen' = seen
       ELSE Goes(s, "close") /\ seen' = seen \cup task[s].todo
    /\ UNCHANGED <<group, cur, parent, runner, aborted, marked, rec, stored, lost, finalError, faults>>

\* finishCollectionRun without an error, and finishExcludedOnlyRun: the row is closed
\* in one batch ...
CloseLands(s, fails) ==
    /\ task[s].at \in {"close", "exclude"} /\ group # "lost"
    /\ Fault(fails)
    /\ IF fails THEN /\ rec' = rec
                     /\ IF task[s].at = "close" THEN Caught(s, "other") ELSE Ends(s, "unmarked")
       ELSE /\ Closed(s, FALSE, task[s].items)
            /\ Goes(s, IF task[s].at = "close" THEN "closed" ELSE "excluded")
    /\ UNCHANGED <<group, cur, parent, runner, aborted, marked, seen, stored, lost, finalError>>

\* A mistake: a row that is closed is not looked at again.
Undisturbed(s) == TRUE

InTime(s) == ~aborted[s]

\* ... and an abort seen after it is written over the success.
CloseReturns(s) ==
    /\ task[s].at \in {"closed", "excluded"} /\ group # "lost"
    /\ IF InTime(s) THEN Ends(s, "done")
       ELSE Goes(s, IF task[s].at = "closed" THEN "reclose" ELSE "reexclude")
    /\ UNCHANGED <<group, cur, parent, runner, aborted, marked, rows, finalError, faults>>

Reclose(s, fails) ==
    /\ task[s].at \in {"reclose", "reexclude"} /\ group # "lost"
    /\ Fault(fails)
    /\ IF fails THEN /\ rec' = rec /\ marked' = marked
                     /\ lost' = [lost EXCEPT ![s] = TRUE]
                     /\ IF task[s].at = "reclose" THEN Caught(s, "other") ELSE Ends(s, "unmarked")
       ELSE /\ Errored(s)
            /\ marked' = [marked EXCEPT ![s] = TRUE]
            /\ lost' = lost
            /\ Ends(s, "marked")
    /\ UNCHANGED <<group, cur, parent, runner, aborted, seen, stored, finalError>>

\* The catch of persistMergedFeed: the failure is recorded, and marked as recorded
\* even when that write fails.
RecordCaught(s, fails) ==
    /\ At(s, "fail")
    /\ Fault(fails)
    /\ IF fails THEN rec' = rec ELSE Closed(s, TRUE, task[s].items)
    /\ lost' = [lost EXCEPT ![s] = @ \/ fails]
    /\ marked' = [marked EXCEPT ![s] = @ \/ task[s].error = "abort"]
    /\ Ends(s, "marked")
    /\ UNCHANGED <<group, cur, parent, runner, aborted, seen, stored, finalError>>

\* Nothing was collected: recorded as a failure, outside of the try.
RecordEmpty(s, fails) ==
    /\ At(s, "empty")
    /\ Fault(fails)
    /\ IF fails THEN rec' = rec /\ Ends(s, "unmarked")
       ELSE Closed(s, TRUE, {}) /\ Ends(s, "marked")
    /\ UNCHANGED <<group, cur, parent, runner, aborted, marked, seen, stored, lost, finalError>>

-----------------------------------------------------------------------------
(* The runner of a source: runScheduledSource. *)

Ended(s) == task[s].at \in {"done", "marked", "unmarked"}

BeginRun(s, fails) ==
    /\ group = "running" /\ s = cur /\ runner[s] = "none" /\ ~parent
    /\ Fault(fails)
    /\ runner' = [runner EXCEPT ![s] = IF fails THEN "failed" ELSE "racing"]
    /\ IF fails THEN UNCHANGED <<rec, task>>
       ELSE /\ rec' = [rec EXCEPT ![s].state = "open"]
            /\ Goes(s, "collect")
    /\ UNCHANGED <<group, cur, parent, aborted, marked, seen, stored, lost, finalError>>

\* The timeout of the source, or the parent's signal, wins the race; a task that has
\* ended has settled the race before a timer can fire.
Abort(s) ==
    /\ group # "lost" /\ runner[s] = "racing" /\ ~Ended(s)
    /\ aborted' = [aborted EXCEPT ![s] = TRUE]
    /\ runner' = [runner EXCEPT ![s] = IF marked[s] THEN "failed" ELSE "recording"]
    /\ parent' \in {parent, TRUE}
    /\ UNCHANGED <<group, cur, task, marked, rows, finalError, faults>>

RaceSettles(s) ==
    /\ group # "lost" /\ runner[s] = "racing" /\ Ended(s)
    /\ runner' = [runner EXCEPT ![s] = CASE task[s].at = "done"   -> "ok"
                                         [] task[s].at = "marked" -> "failed"
                                         [] OTHER                 -> "recording"]
    /\ UNCHANGED <<group, cur, parent, task, aborted, marked, rows, finalError, faults>>

RecordCollectionFailure(s, fails) ==
    /\ group # "lost" /\ runner[s] = "recording"
    /\ Fault(fails)
    /\ runner' = [runner EXCEPT ![s] = "failed"]
    /\ IF fails THEN rec' = rec ELSE Closed(s, TRUE, {})
    /\ marked' = [marked EXCEPT ![s] = @ \/ (aborted[s] /\ ~fails)]
    /\ lost' = [lost EXCEPT ![s] = @ \/ fails]
    /\ UNCHANGED <<group, cur, parent, task, aborted, seen, stored, finalError>>

-----------------------------------------------------------------------------
(* The group: runCollectionConfigs. *)

Settled(s) == runner[s] \in {"ok", "failed"}
Succeeded == {s \in Sources : runner[s] = "ok"}

\* The next source, unless the parent is aborted; then the feed is finalised if a
\* source succeeded.
NextSource ==
    LET over == parent \/ cur = Cardinality(Sources) IN
    /\ group = "running"
    /\ Settled(cur) \/ (parent /\ runner[cur] = "none")
    /\ cur' = IF over THEN cur ELSE cur + 1
    /\ group' = CASE ~over -> "running"
                  [] over /\ ~parent /\ Succeeded # {} -> "finalizing"
                  [] OTHER -> "ended"
    /\ UNCHANGED <<parent, runner, task, aborted, marked, rows, finalError, faults>>

\* finalizeCompactedFeed; its failure is written on the last row that succeeded.
Finalize(fails, recordFails) ==
    LET last == CHOOSE s \in Succeeded : \A t \in Succeeded : t <= s IN
    /\ group = "finalizing"
    /\ recordFails => fails
    /\ Fault(fails)
    /\ group' = "ended"
    /\ IF fails /\ ~recordFails
       THEN Errored(last) /\ finalError' = {last}
       ELSE UNCHANGED <<rec, finalError>>
    /\ UNCHANGED <<cur, parent, runner, task, aborted, marked, stored, seen, lost>>

\* The isolate goes away with the group and every task it still had.
IsolateLost ==
    /\ group # "lost" /\ (group # "ended" \/ \E s \in Sources : task[s].at # "none" /\ ~Ended(s))
    /\ Fault(TRUE)
    /\ group' = "lost"
    /\ UNCHANGED <<cur, parent, runner, task, aborted, marked, rows, finalError>>

\* The next group finds rows still open long after their timeout.
CloseStaleCollectionRuns ==
    /\ group \in {"lost", "ended"}
    /\ \E s \in Sources : rec[s].state = "open"
    /\ rec' = [s \in Sources |-> IF rec[s].state = "open"
                                 THEN [rec[s] EXCEPT !.state = "closed", !.error = TRUE] ELSE rec[s]]
    /\ UNCHANGED <<group, cur, parent, runner, task, aborted, marked, seen, stored, lost, finalError, faults>>

-----------------------------------------------------------------------------
Init ==
    /\ group = "running" /\ cur = 1 /\ parent = FALSE
    /\ runner = [s \in Sources |-> "none"]
    /\ task = [s \in Sources |-> NoTask]
    /\ aborted = [s \in Sources |-> FALSE] /\ marked = [s \in Sources |-> FALSE]
    /\ rec = [s \in Sources |-> NoRow]
    /\ seen = {} /\ stored = {}
    /\ lost = [s \in Sources |-> FALSE] /\ finalError = {} /\ faults = 0

TaskStep(s, fails) ==
    \/ \E found \in SUBSET Items : CollectReturns(s, found, fails)
    \/ FilterReturns(s, fails) \/ SaveLands(s, fails)
    \/ CloseLands(s, fails) \/ Reclose(s, fails) \/ RecordCaught(s, fails) \/ RecordEmpty(s, fails)
    \/ ~fails /\ (PersistCollectionCapture(s) \/ SaveReturns(s) \/ CloseReturns(s))

RunnerStep(s, fails) == BeginRun(s, fails) \/ RecordCollectionFailure(s, fails)

GroupStep == NextSource \/ \E fails, recordFails \in BOOLEAN : Finalize(fails, recordFails)

Next ==
    \/ \E s \in Sources, fails \in BOOLEAN : TaskStep(s, fails) \/ RunnerStep(s, fails)
    \/ \E s \in Sources : Abort(s) \/ RaceSettles(s)
    \/ GroupStep \/ IsolateLost \/ CloseStaleCollectionRuns

Spec == Init /\ [][Next]_vars

\* Timers fire and D1 answers the runner; a task is owed nothing: a page may hang.
Fairness ==
    /\ WF_vars(GroupStep)
    /\ \A s \in Sources : /\ WF_vars(\E fails \in BOOLEAN : RunnerStep(s, fails))
                          /\ WF_vars(Abort(s) \/ RaceSettles(s))

FairSpec == Spec /\ Fairness

-----------------------------------------------------------------------------
TypeOK ==
    /\ group \in {"running", "finalizing", "ended", "lost"}
    /\ cur \in Sources /\ parent \in BOOLEAN
    /\ runner \in [Sources -> {"none", "racing", "recording", "ok", "failed"}]
    /\ task \in [Sources -> [at : {"none", "collect", "capture", "filter", "empty", "exclude", "save",
                                   "saved", "close", "closed", "excluded", "reclose", "reexclude",
                                   "fail", "done", "marked", "unmarked"},
                             items : SUBSET Items, todo : SUBSET Items,
                             error : {"none", "abort", "other"}]]
    /\ aborted \in [Sources -> BOOLEAN] /\ marked \in [Sources -> BOOLEAN]
    /\ lost \in [Sources -> BOOLEAN]
    /\ rec \in [Sources -> [state : {"none", "open", "closed"}, error : BOOLEAN, found : SUBSET Items]]
    /\ seen \subseteq Items /\ stored \subseteq Items
    /\ finalError \subseteq Sources /\ faults \in 0 .. MaxFaults

\* Once a source's runner and its task are both through, abandoned or not, its row says
\* what the group was told: closed, with an error exactly when the source failed. Only
\* a write that failed, or the finalisation's own failure, excuses a difference.
OutcomeIsRecorded ==
    \A s \in Sources :
        Settled(s) /\ Ended(s) /\ ~lost[s] =>
            /\ rec[s].state = "closed"
            /\ rec[s].error <=> (runner[s] = "failed" \/ s \in finalError)

\* What a source of the group is credited with is in the library, also what it did not
\* store itself because an earlier source was thought to have stored it.
CreditedIsStored ==
    /\ seen \subseteq stored
    /\ \A s \in Sources : rec[s].state = "closed" /\ ~rec[s].error => rec[s].found \subseteq stored

\* A source that hangs for ever does not keep the group from ending.
GroupEnds == <>(group \in {"ended", "lost"})
=============================================================================
