---------------------------- MODULE VideoLibrary ----------------------------
(* The tables of the video library and everyone who writes them: the liveness
   monitor that probes one video a run (liveness-monitor.js), the viewer's block
   request (video-blocklist.js), a collection or import that stores videos and
   finalises the feed, and the counters beside the tables (status-counts.js).
   A statement of D1 and a batch of statements are atomic, with the triggers
   they fire; everything between two awaits can interleave. *)
EXTENDS Integers, FiniteSets, FiniteSetsExt

CONSTANTS
    Videos,     \* the ids AUTOINCREMENT hands out, 1 .. n
    KeyOf,      \* canonical_key of each, as its place in the order of keys
    MaxStores,  \* bound: collections and imports
    MaxOutside  \* bound: losses, unblocks and videos that age

VideosAssumption ==
    /\ IsFiniteSet(Videos) /\ Videos = 1 .. Cardinality(Videos)
    /\ \A v \in Videos : KeyOf[v] \in Nat \ {0}
    /\ \A v, w \in Videos : KeyOf[v] = KeyOf[w] => v = w
    /\ MaxStores \in Nat /\ MaxOutside \in Nat

VARIABLES
    status,     \* videos.status, "none" before the row exists
    recent,     \* those with last_seen_at within 48 hours
    feed,       \* ranking_entries of period '24h'
    blocked,    \* video_blocklist
    death,      \* video_death_list
    counts,     \* status_counts
    liveness,   \* video_liveness_state: phase, cursor, upper bound, lock
    run,        \* the liveness run in progress: its place and its local copies
    blocking,   \* the block request in progress: the video it read, 0 if none
    storing,    \* the collection in progress: its place and the items it passed
    stores,     \* collections and imports begun
    outside,    \* losses, unblocks and agings so far
    \* history
    due,        \* in this pass since its snapshot, eligible all along, not probed
    settled     \* active and feed counters have been refreshed since the last store

tables == <<status, recent, feed, blocked, death>>
vars == <<tables, counts, liveness, run, blocking, storing, stores, outside, due, settled>>

Idle == [at |-> "idle", phase |-> "base", cursor |-> 0, upper |-> 0, row |-> 0, moves |-> 0]
NotStoring == [at |-> "idle", items |-> {}]

Stored   == {v \in Videos : status[v] # "none"}
Excluded == blocked \cup death
Active   == {v \in Videos : status[v] = "active"}
Eligible == Active \ Excluded

-----------------------------------------------------------------------------
(* Rows and counters. *)

Only(p) == IF p THEN 1 ELSE 0
\* A mistake: a counter that lags behind its table falls below zero.
Unclamped(n) == n

AtLeast0(n) == IF n < 0 THEN 0 ELSE n

\* A mistake: a row is taken for one that is active, as it was when it was read.
TakenForActive(v) == TRUE

CountsAsActive(v) == status[v] = "active"

MaxVideoId == Max(Stored \cup {0})
MaxDeathKey == Max({KeyOf[v] : v \in death} \cup {0})

\* What the feed should hold: active, seen within 48 hours, on neither list.
Desired == Eligible \cap recent

CountActive(s) == Cardinality({v \in Videos : s[v] = "active"})

\* refreshStatusVideoCounts: the two counters it recomputes, the others kept.
Recounted(c, s, f) == [c EXCEPT !.active = CountActive(s), !.feed = Cardinality(f)]

\* A loss, an unblock or an aging, as often as the bound allows.
Outside == outside < MaxOutside /\ outside' = outside + 1

-----------------------------------------------------------------------------
(* The liveness monitor: one run at a time, one probe a run. *)

PhaseSnapshot(phase) == IF phase = "base" THEN MaxVideoId ELSE MaxDeathKey
PlaceOf(phase, v)    == IF phase = "base" THEN v ELSE KeyOf[v]
Rows(phase)          == IF phase = "base" THEN Eligible ELSE death

Within(phase, cursor, upper) ==
    {v \in Rows(phase) : PlaceOf(phase, v) > cursor /\ PlaceOf(phase, v) <= upper}

\* UPDATE ... WHERE lock_until IS NULL OR lock_until < now: takes the lock, and the
\* snapshot of the phase when it has none.
AcquireRunState ==
    LET fresh == liveness.upper = 0
        upper == IF fresh THEN PhaseSnapshot(liveness.phase) ELSE liveness.upper
        cursor == IF fresh THEN 0 ELSE liveness.cursor
    IN  /\ run.at = "idle"
        /\ ~liveness.locked
        /\ liveness' = [liveness EXCEPT !.locked = TRUE, !.cursor = cursor, !.upper = upper]
        /\ run' = [at |-> "loop", phase |-> liveness.phase, cursor |-> cursor, upper |-> upper,
                   row |-> 0, moves |-> 0]
        /\ due' = IF fresh THEN Within(liveness.phase, 0, upper) ELSE due
        /\ UNCHANGED <<tables, counts, blocking, storing, settled, stores, outside>>

NoRows == run.upper = 0 \/ Within(run.phase, run.cursor, run.upper) = {}

\* The first row after the cursor is taken to be probed; only the local copy moves.
SelectRow ==
    /\ run.at = "loop" /\ run.moves < 2 /\ ~NoRows
    /\ LET rows == Within(run.phase, run.cursor, run.upper)
           row  == CHOOSE v \in rows : \A w \in rows : PlaceOf(run.phase, v) <= PlaceOf(run.phase, w)
       IN  run' = [run EXCEPT !.at = "probing", !.row = row, !.cursor = PlaceOf(run.phase, row)]
    /\ UNCHANGED <<tables, counts, liveness, blocking, storing, due, settled, stores, outside>>

\* No row is left: the other phase begins with a snapshot of its own; a run goes
\* round at most once.
TransitionPhase ==
    LET next == IF run.phase = "base" THEN "death" ELSE "base"
        upper == PhaseSnapshot(next)
    IN  /\ run.at = "loop" /\ run.moves < 2 /\ NoRows
        /\ liveness' = [liveness EXCEPT !.phase = next, !.cursor = 0, !.upper = upper]
        /\ run' = [run EXCEPT !.phase = next, !.cursor = 0, !.upper = upper,
                              !.moves = @ + 1,
                              !.at = IF run.phase = "death" \/ run.moves = 1 THEN "ending" ELSE "loop"]
        /\ due' = Within(next, 0, upper)
        /\ UNCHANGED <<tables, counts, blocking, storing, settled, stores, outside>>

\* A dead video: the counters by what the rows are now, the death list (whose
\* trigger sets the status), the row, the feed.
BaseMutation(v, dead) ==
    /\ death'  = IF dead THEN death \cup {v} ELSE death
    /\ status' = IF dead THEN [status EXCEPT ![v] = "dead"] ELSE status
    /\ feed'   = IF dead THEN feed \ {v} ELSE feed
    /\ counts' = IF dead
                 THEN [counts EXCEPT !.active = AtLeast0(@ - Only(CountsAsActive(v))),
                                     !.feed   = AtLeast0(@ - Only(v \in feed)),
                                     !.death  = @ + 1]
                 ELSE counts
    /\ UNCHANGED <<recent, blocked>>

\* restoreRevivedRankingStatement.
Restored(v, s) == Only(s = "active" /\ v \in recent /\ v \notin feed)

\* A revived video: off the death list, its status by the blocklist, back in the
\* feed when it is recent; then the counters by what the rows have become.
DeathMutation(v, alive) ==
    LET s == IF v \in blocked THEN "hidden" ELSE "active"
        back == IF Restored(v, s) = 1 THEN {v} ELSE {}
    IN  /\ death'  = IF alive THEN death \ {v} ELSE death
        /\ status' = IF alive THEN [status EXCEPT ![v] = s] ELSE status
        /\ feed'   = IF alive THEN feed \cup back ELSE feed
        /\ counts' = IF alive
                     THEN [counts EXCEPT !.active = @ + Only(s = "active"),
                                         !.feed   = @ + Only(v \in feed \cup back),
                                         !.death  = AtLeast0(@ - 1)]
                     ELSE counts
        /\ UNCHANGED <<recent, blocked>>

\* probeVideoUrl and classifyProbeStatus: an error or a timeout is no verdict.
Answers == {"alive", "dead", "unknown"}

\* The probe answers and its result is applied in one batch. An answer that is
\* neither alive nor dead changes only the rows' bookkeeping.
ApplyProbe(answer) ==
    /\ run.at = "probing"
    /\ IF run.phase = "base"
       THEN BaseMutation(run.row, answer = "dead")
       ELSE DeathMutation(run.row, answer = "alive")
    /\ run' = [run EXCEPT !.at = "ending"]
    /\ due' = due \ {run.row}
    /\ UNCHANGED <<liveness, blocking, storing, settled, stores, outside>>

\* A mistake: what the run keeps in memory is recorded after an error too.
ProgressAnyway(error) ==
    [phase |-> run.phase, cursor |-> run.cursor, upper |-> run.upper, locked |-> FALSE]

Progress(error) ==
    IF error THEN [liveness EXCEPT !.locked = FALSE]
    ELSE [phase |-> run.phase, cursor |-> run.cursor, upper |-> run.upper, locked |-> FALSE]

\* recordRunAndRelease, which only the holder of the lock's token can do. After an
\* error the trigger liveness_preserve_progress_on_error puts the progress back.
RecordRun(error) ==
    /\ run.at # "idle" /\ (error \/ run.at = "ending")
    /\ liveness' = Progress(error)
    /\ run' = Idle
    /\ UNCHANGED <<tables, counts, blocking, storing, due, settled, stores, outside>>

\* The record cannot be written: releaseLock succeeds, or fails as well, or the
\* isolate is gone. The lock then lasts until lock_until.
RunLost(released) ==
    /\ run.at # "idle"
    /\ liveness' = [liveness EXCEPT !.locked = ~released]
    /\ run' = Idle
    /\ Outside
    /\ UNCHANGED <<tables, counts, blocking, storing, due, settled, stores>>

\* A run is over long before LOCK_TTL_MS, so only an abandoned lock expires.
LockExpires ==
    /\ run.at = "idle" /\ liveness.locked
    /\ liveness' = [liveness EXCEPT !.locked = FALSE]
    /\ UNCHANGED <<tables, counts, run, blocking, storing, due, settled, stores, outside>>

-----------------------------------------------------------------------------
(* A viewer blocks a video: one read, then one batch. *)

BlockRead(v) ==
    /\ blocking = 0
    /\ v \in Active \ Excluded
    /\ blocking' = v
    /\ UNCHANGED <<tables, counts, liveness, run, storing, due, settled, stores, outside>>

\* The trigger of the INSERT takes the counters by what the rows are now and hides
\* an active video; the UPDATE hides it whatever its status has become.
BlockWrite ==
    LET v == blocking IN
    /\ v # 0
    /\ blocked' = blocked \cup {v}
    /\ counts'  = IF v \in blocked THEN counts
                  ELSE [counts EXCEPT !.active  = AtLeast0(@ - Only(status[v] = "active")),
                                      !.feed    = AtLeast0(@ - Only(v \in feed)),
                                      !.blocked = @ + 1]
    /\ status'  = [status EXCEPT ![v] = "hidden"]
    /\ feed'    = feed \ {v}
    /\ blocking' = 0
    /\ due' = due \ (IF liveness.phase = "base" THEN {v} ELSE {})
    /\ UNCHANGED <<recent, death, liveness, run, storing, settled, stores, outside>>

BlockAbandoned ==
    /\ blocking # 0
    /\ blocking' = 0
    /\ Outside
    /\ UNCHANGED <<tables, counts, liveness, run, storing, due, settled, stores>>

\* An operator deletes the row of the blocklist: its trigger restores the status of
\* a video that is not on the death list, and marks the counters dirty.
Unblock(v) ==
    LET back == status[v] = "hidden" /\ v \notin death IN
    /\ v \in blocked
    /\ blocked' = blocked \ {v}
    /\ counts'  = [counts EXCEPT !.active  = @ + Only(back),
                                 !.feed    = @ + Only(back /\ v \in feed),
                                 !.blocked = AtLeast0(@ - 1),
                                 !.dirty   = TRUE]
    /\ status'  = IF back THEN [status EXCEPT ![v] = "active"] ELSE status
    /\ Outside
    /\ UNCHANGED <<recent, feed, death, liveness, run, blocking, storing, due, settled, stores>>

-----------------------------------------------------------------------------
(* A collection or import: the two lists are read, the rest is stored, the feed
   is synchronised, then the counters are refreshed. *)

\* filterExcludedItems.
FilterItems(items) ==
    /\ storing.at = "idle"
    /\ \A v \in items : \A w \in Videos : w < v => w \in Stored \cup items
    /\ storing' = [at |-> "store", items |-> items \ Excluded]
    /\ stores < MaxStores /\ stores' = stores + 1
    /\ UNCHANGED <<tables, counts, liveness, run, blocking, due, settled, outside>>

\* A mistake: a row that was hidden since the lists were read becomes active.
ActiveUnlessDead(v) == IF v \in death THEN "dead" ELSE "active"

\* upsertVideoItemsStatement: a stored row becomes active unless it is hidden, and
\* video_death_keep_status takes back what is on the death list.
UpsertedStatus(v) ==
    IF status[v] = "hidden" THEN "hidden" ELSE IF v \in death THEN "dead" ELSE "active"

UpsertItems ==
    LET items == storing.items
    IN  /\ storing.at = "store"
        /\ status' = [v \in Videos |-> IF v \in items THEN UpsertedStatus(v) ELSE status[v]]
        /\ recent' = recent \cup items
        /\ storing' = [at |-> "sync", items |-> {}]
        /\ settled' = (settled /\ CountActive(status') = CountActive(status))
        /\ UNCHANGED <<feed, blocked, death, counts, liveness, run, blocking, due, stores, outside>>

\* syncCompactedFeedInDatabase.
SyncFeed ==
    /\ storing.at = "sync"
    /\ feed' = Desired
    /\ storing' = [storing EXCEPT !.at = "count"]
    /\ settled' = (settled /\ Cardinality(Desired) = Cardinality(feed))
    /\ UNCHANGED <<status, recent, blocked, death, counts, liveness, run, blocking, due, stores, outside>>

RefreshStatusVideoCounts ==
    /\ storing.at = "count"
    /\ counts' = Recounted(counts, status, feed)
    /\ storing' = NotStoring
    /\ settled' = TRUE
    /\ UNCHANGED <<tables, liveness, run, blocking, due, stores, outside>>

\* A statement fails, the feed's lock is busy, or the isolate is gone.
StoringStops ==
    /\ storing.at # "idle"
    /\ storing' = NotStoring
    /\ Outside
    /\ UNCHANGED <<tables, counts, liveness, run, blocking, due, settled, stores>>

\* refreshStatusCounts: a status page reads dirty counters and has them all recounted.
RefreshDirtyCounts ==
    /\ counts.dirty
    /\ counts' = [Recounted(counts, status, feed) EXCEPT
                    !.blocked = Cardinality(blocked), !.death = Cardinality(death), !.dirty = FALSE]
    /\ settled' = TRUE
    /\ UNCHANGED <<tables, liveness, run, blocking, storing, due, stores, outside>>

\* 48 hours pass without the video being collected.
Ages(v) ==
    /\ v \in recent
    /\ recent' = recent \ {v}
    /\ Outside
    /\ UNCHANGED <<status, feed, blocked, death, counts, liveness, run, blocking, storing, due, settled, stores>>

-----------------------------------------------------------------------------
Init ==
    /\ status = [v \in Videos |-> "none"]
    /\ recent = {} /\ feed = {} /\ blocked = {} /\ death = {}
    /\ counts = [active |-> 0, feed |-> 0, blocked |-> 0, death |-> 0, dirty |-> FALSE]
    /\ liveness = [phase |-> "base", cursor |-> 0, upper |-> 0, locked |-> FALSE]
    /\ run = Idle
    /\ blocking = 0
    /\ storing = NotStoring
    /\ stores = 0 /\ outside = 0
    /\ due = {}
    /\ settled = TRUE

LivenessStep ==
    \/ AcquireRunState \/ SelectRow \/ TransitionPhase
    \/ \E answer \in Answers : ApplyProbe(answer)
    \/ \E error \in BOOLEAN : RecordRun(error)

Next ==
    \/ LivenessStep
    \/ \E released \in BOOLEAN : RunLost(released)
    \/ LockExpires
    \/ \E v \in Videos : BlockRead(v) \/ Unblock(v) \/ Ages(v)
    \/ BlockWrite \/ BlockAbandoned
    \/ \E items \in SUBSET Videos \ {{}} : FilterItems(items)
    \/ UpsertItems \/ SyncFeed \/ RefreshStatusVideoCounts \/ StoringStops
    \/ RefreshDirtyCounts

Spec == Init /\ [][Next]_vars

-----------------------------------------------------------------------------
TypeOK ==
    /\ status \in [Videos -> {"none", "active", "dead", "hidden"}]
    /\ recent \subseteq Videos /\ feed \subseteq Videos
    /\ blocked \subseteq Videos /\ death \subseteq Videos
    /\ counts \in [active : Nat, feed : Nat, blocked : Nat, death : Nat, dirty : BOOLEAN]
    /\ liveness \in [phase : {"base", "death"}, cursor : Nat, upper : Nat, locked : BOOLEAN]
    /\ run \in [at : {"idle", "loop", "probing", "ending"}, phase : {"base", "death"},
                cursor : Nat, upper : Nat, row : Videos \cup {0}, moves : 0 .. 2]
    /\ blocking \in Videos \cup {0}
    /\ storing \in [at : {"idle", "store", "sync", "count"}, items : SUBSET Videos]
    /\ stores \in 0 .. MaxStores /\ outside \in 0 .. MaxOutside
    /\ due \subseteq Videos /\ settled \in BOOLEAN

\* A blocked or dead video is never active and never in the feed, whatever the order
\* of a probe, a block request, a store and a synchronisation that overlap: neither
\* page of videos (the feed's or the fallback's) can show it.
ExcludedNeverPlays == \A v \in Excluded : v \notin feed /\ status[v] # "active"

\* The counters kept by differences agree with the tables: the lists' always, the
\* active and feed counters unless a store has not been followed by its refresh.
CountsExact ==
    /\ counts.blocked = Cardinality(blocked)
    /\ counts.death = Cardinality(death)
    /\ settled => counts.active = CountActive(status) /\ counts.feed = Cardinality(feed)

\* No video of a pass is skipped: one that was in the snapshot, and has been eligible
\* since, is probed before the pass ends, through errors, crashes and lost records.
PassSkipsNone == \A v \in due : PlaceOf(liveness.phase, v) > liveness.cursor
=============================================================================
