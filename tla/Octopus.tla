------------------------------ MODULE Octopus ------------------------------
(* The energy source (octopus_source.ts, octopus_history.ts): the job reads the latest
   days of half-hourly readings, keeps those that are old enough in octopus_readings and
   their sums in octopus_daily_totals, and answers with two rows of whole days and the
   usage of the month. Older days of the answer come from the sums, the next ones from
   the readings and the latest from what was just fetched.

   Time is counted in ticks of which a half hour has HalfHour, from the start of a day
   in Japan; a reading is known by its slot, the half hour it begins with. There is one
   supply point. One run of the job is at work at a time: its lease is longer than it. *)
EXTENDS Integers, FiniteSets, FiniteSetsExt, Functions

CONSTANTS
    HalfHour,         \* ticks of HALF_HOUR_MS
    SlotsPerDay,      \* PROFILE_SLOTS
    PROFILE_DAYS, OCTOPUS_COLLECTION_DAYS,
    FloorSlot,        \* OCTOPUS_HISTORY_FLOOR_MS
    MonthStart,       \* the day the billing month began
    D1_BATCH_SIZE,
    Energy,           \* what a reading says, with SlotsPerDay! as its unit
    Late, Corrected,  \* slots published late, and slots whose reading may be corrected
    StartNow, MaxNow, \* bound: ticks
    MaxFaults         \* bound: calls that fail, tokens that are refused

VARIABLES
    now,
    missing, amended, \* slots not yet published, slots whose reading was corrected
    stored,           \* octopus_readings: slot -> reading
    totals,           \* octopus_daily_totals: day -> [kwh, slots]
    octopusToken,     \* the token this isolate remembers
    sync,             \* the run of the job; history: `seen`, all it fetched
    torn,             \* history: days whose readings changed and whose sum did not follow
    faults

vars == <<now, missing, amended, stored, totals, octopusToken, sync, torn, faults>>

DAY == SlotsPerDay * HalfHour
SlotAt(ticks) == ticks \div HalfHour       \* of a time on a half hour
DayOf(slot) == slot \div SlotsPerDay
SlotsOf(day) == {day * SlotsPerDay + i : i \in 0 .. SlotsPerDay - 1}
LastSlot == SlotAt(MaxNow)
Days == 0 .. DayOf(LastSlot)

Only(f, S) == Restrict(f, DOMAIN f \cap S)
Without(f, S) == Restrict(f, DOMAIN f \ S)
Over(f, g) == [x \in DOMAIN f \cup DOMAIN g |-> IF x \in DOMAIN g THEN g[x] ELSE f[x]]
SumOf(f) == FoldFunction(LAMBDA a, b : a + b, 0, f)
Nothing == [x \in {} |-> 0]

\* The slots from one time to another; ceil and floor of the code fall on half hours.
SlotsFrom(from, to) == {s \in 0 .. LastSlot : from <= s * HalfHour /\ s * HalfHour < to}

octopusStableCutoffJst(t) == ((t - 2 * DAY) \div HalfHour) * HalfHour
octopusCollectionStart(t) ==
    LET aligned == ((t - OCTOPUS_COLLECTION_DAYS * DAY + HalfHour - 1) \div HalfHour) * HalfHour
    IN  Max({FloorSlot * HalfHour, aligned})
jstDayStart(t) == (t \div DAY) * DAY

-----------------------------------------------------------------------------
(* The supplier. *)

Reading(s) == IF s \in amended THEN 2 * Energy ELSE Energy

\* halfHourlyReadings of a range: half hours that are over and published.
Published(from, to) ==
    [s \in {x \in SlotsFrom(from, to) : (x + 1) * HalfHour <= now /\ x \notin missing} |-> Reading(s)]

Tick ==
    /\ now < MaxNow /\ now' = now + 1
    /\ UNCHANGED <<missing, amended, stored, totals, octopusToken, sync, torn, faults>>

PublishLate(s) ==
    /\ s \in missing /\ missing' = missing \ {s}
    /\ UNCHANGED <<now, amended, stored, totals, octopusToken, sync, torn, faults>>

Amend(s) ==
    /\ s \in Corrected \ amended /\ (s + 1) * HalfHour <= now
    /\ amended' = amended \cup {s}
    /\ UNCHANGED <<now, missing, stored, totals, octopusToken, sync, torn, faults>>

\* A token ends before the 55 minutes the code counts on.
Refuse ==
    /\ faults < MaxFaults /\ octopusToken = "valid"
    /\ faults' = faults + 1
    /\ octopusToken' = "refused"
    /\ sync' = [sync EXCEPT !.token = IF @ = "valid" THEN "refused" ELSE @]
    /\ UNCHANGED <<now, missing, amended, stored, totals, torn>>

\* OCTOPUS_TOKEN_TTL_MS is over.
TokenExpires ==
    /\ octopusToken \in {"valid", "refused"} /\ sync.at = "idle"
    /\ octopusToken' = "expired"
    /\ UNCHANGED <<now, missing, amended, stored, totals, sync, torn, faults>>

-----------------------------------------------------------------------------
(* A run of the job. *)

Idle == [at |-> "idle", now |-> 0, token |-> "none", again |-> FALSE, cursor |-> 0,
         fetched |-> Nothing, changed |-> {}, days |-> {}, live |-> Nothing,
         seen |-> Nothing, profile |-> Nothing, usage |-> 0]

Kept == <<now, missing, amended>>

fetchOctopus ==
    /\ sync.at = "idle"
    /\ sync' = [Idle EXCEPT !.at = "authenticate", !.now = now]
    /\ UNCHANGED <<Kept, stored, totals, octopusToken, torn, faults>>

\* The refresh token of an expired token is tried first, and the credentials when it is
\* refused; a token that was refused is forgotten and only the credentials are used.
authenticateOctopus ==
    /\ sync.at = "authenticate"
    /\ \/ /\ ~sync.again /\ octopusToken \in {"valid", "refused"}
          /\ sync' = [sync EXCEPT !.at = "floor", !.token = octopusToken]
          /\ UNCHANGED <<octopusToken, faults>>
       \/ /\ sync.again \/ octopusToken \in {"none", "expired"}
          /\ octopusToken' = "valid"
          /\ sync' = [sync EXCEPT !.at = "floor", !.token = "valid"]
          /\ UNCHANGED faults
    /\ UNCHANGED <<Kept, stored, totals, torn>>

\* synchronizeOctopusHistory begins.
enforceHistoryFloor ==
    /\ sync.at = "floor"
    /\ stored' = Without(stored, 0 .. FloorSlot - 1)
    /\ sync' = [sync EXCEPT !.at = "fetch", !.cursor = octopusCollectionStart(sync.now),
                            !.live = Nothing, !.seen = Nothing]
    /\ UNCHANGED <<Kept, totals, octopusToken, torn, faults>>

\* The end of the range at the cursor: SAFE_RANGE_MS, two days.
RangeEnd == Min({sync.now, sync.cursor + 2 * DAY})

Stable(f) == Only(f, SlotsFrom(FloorSlot * HalfHour, octopusStableCutoffJst(sync.now)))
\* A mistake: the cutoff belongs to neither side.
LiveAfterCutoff(f) == Only(f, SlotsFrom(octopusStableCutoffJst(sync.now) + HalfHour, sync.now))

Live(f) == Only(f, SlotsFrom(octopusStableCutoffJst(sync.now), sync.now))

\* The stored readings from the first to the last of those that arrived, and those that
\* differ from them.
readComparableStoredReadings(f) == Only(stored, Min(DOMAIN f) .. Max(DOMAIN f))

changedOctopusReadings(incoming) ==
    IF DOMAIN incoming = {} THEN {}
    ELSE LET existing == readComparableStoredReadings(incoming)
         IN  {s \in DOMAIN incoming : s \notin DOMAIN existing \/ existing[s] # incoming[s]}

isAuthorizationError == sync.token = "refused"

\* The readings of the range arrive and are compared with the stored ones.
fetchOctopusRangeReadings ==
    /\ sync.at = "fetch" /\ sync.cursor < sync.now /\ ~isAuthorizationError
    /\ LET readings == Published(sync.cursor, RangeEnd)
           changed  == changedOctopusReadings(Stable(readings))
       IN  sync' = [sync EXCEPT !.at = "persist", !.fetched = readings, !.changed = changed,
                                !.days = {DayOf(s) : s \in changed}]
    /\ UNCHANGED <<Kept, stored, totals, octopusToken, torn, faults>>

\* The readings are refused: once, the job logs in again and starts over.
StartOver ==
    /\ sync.at = "fetch" /\ sync.cursor < sync.now /\ isAuthorizationError
    /\ \/ /\ ~sync.again
          /\ octopusToken' = "none"
          /\ sync' = [sync EXCEPT !.at = "authenticate", !.again = TRUE]
       \/ /\ sync.again
          /\ sync' = Idle
          /\ UNCHANGED octopusToken
    /\ UNCHANGED <<Kept, stored, totals, torn, faults>>

\* One batch of D1: the next changed readings, in the order of their time.
NextBatch == {s \in sync.changed : Cardinality({r \in sync.changed : r < s}) < D1_BATCH_SIZE}

persistStableReadings ==
    /\ sync.at = "persist" /\ sync.changed # {}
    /\ stored' = Over(stored, Restrict(sync.fetched, NextBatch))
    /\ torn' = torn \cup {DayOf(s) : s \in NextBatch}
    /\ sync' = [sync EXCEPT !.changed = @ \ NextBatch]
    /\ UNCHANGED <<Kept, totals, octopusToken, faults>>

\* The sum of a day: SUM and COUNT of its readings.
DailyTotal(f, d) ==
    LET readings == Only(f, SlotsOf(d))
    IN  [kwh |-> SumOf(readings), slots |-> Cardinality(DOMAIN readings)]

\* A mistake: the sum of what was fetched.
OfTheFetched(f, d) ==
    LET readings == Only(f, SlotsOf(d) \cap DOMAIN sync.fetched)
    IN  [kwh |-> SumOf(readings), slots |-> Cardinality(DOMAIN readings)]

SelectedTotal(f, d) == DailyTotal(f, d)

refreshDailyTotals(d) ==
    /\ sync.at = "persist" /\ sync.changed = {} /\ d \in sync.days
    /\ totals' = Over(totals, [x \in {d} |-> SelectedTotal(stored, d)])
    /\ torn' = torn \ {d}
    /\ sync' = [sync EXCEPT !.days = @ \ {d}]
    /\ UNCHANGED <<Kept, stored, octopusToken, faults>>

addLiveReadings ==
    /\ sync.at = "persist" /\ sync.changed = {} /\ sync.days = {}
    /\ sync' = [sync EXCEPT !.at = "fetch", !.cursor = RangeEnd, !.fetched = Nothing,
                            !.live = Over(@, Live(sync.fetched)),
                            !.seen = Over(@, sync.fetched)]
    /\ UNCHANGED <<Kept, stored, totals, octopusToken, torn, faults>>

\* A call fails or the Worker ends.
JobEnds ==
    /\ sync.at \notin {"idle", "answered"} /\ faults < MaxFaults
    /\ faults' = faults + 1
    /\ sync' = Idle
    /\ UNCHANGED <<Kept, stored, totals, octopusToken, torn>>

-----------------------------------------------------------------------------
(* The answer. *)

readRawRange(from, to) == Only(stored, SlotsFrom(from, to))

\* A day's sum is spread over its first slots, as many as it has readings; without any
\* row the readings are read instead.
readDailyRange(from, to) ==
    LET days == {d \in DOMAIN totals : from <= d * DAY /\ d * DAY < to /\ totals[d].slots > 0}
        Spread(d) == {s \in SlotsOf(d) : s - d * SlotsPerDay < totals[d].slots}
    IN  IF days = {} THEN readRawRange(from, to)
        ELSE [s \in UNION {Spread(d) : d \in days} |->
                 totals[DayOf(s)].kwh \div totals[DayOf(s)].slots]

\* The first time of the segment that is read from the sums, and its end.
DailyStart(from, to) == Min({to, jstDayStart(from + DAY - 1)})
StableDailyEnd == jstDayStart(now - 2 * DAY)
DailyEnd(from, to) == Max({DailyStart(from, to), Min({to, StableDailyEnd})})

readStoredOctopusRanges(from, to) ==
    Over(Over(readRawRange(from, DailyStart(from, to)),
              readDailyRange(DailyStart(from, to), DailyEnd(from, to))),
         readRawRange(DailyEnd(from, to), to))

mergeReadings(old, live) == Over(old, live)

currentEnd == jstDayStart(sync.now) - DAY
currentStart == currentEnd - PROFILE_DAYS * DAY
previousStart == currentStart - PROFILE_DAYS * DAY

\* A day is complete with a reading for each of its half hours.
dayTotal(readings, d) ==
    IF SlotsOf(d) \subseteq DOMAIN readings THEN SumOf(Restrict(readings, SlotsOf(d))) ELSE -1

buildOctopusDailyProfile(readings) ==
    [d \in previousStart \div DAY .. currentEnd \div DAY - 1 |-> dayTotal(readings, d)]

currentUsage(readings) ==
    SumOf(Only(readings, SlotsFrom(MonthStart * DAY, sync.now)))

Answer ==
    /\ sync.at = "fetch" /\ sync.cursor >= sync.now
    /\ LET old == readStoredOctopusRanges(Min({MonthStart * DAY, previousStart}),
                                          Max({sync.now, currentEnd}))
           readings == mergeReadings(old, sync.live)
       IN  sync' = [sync EXCEPT !.at = "answered", !.profile = buildOctopusDailyProfile(readings),
                                !.usage = currentUsage(readings)]
    /\ UNCHANGED <<Kept, stored, totals, octopusToken, torn, faults>>

\* The state is stored (updateState) and the job rests until it is due.
JobDone ==
    /\ sync.at = "answered"
    /\ sync' = Idle
    /\ UNCHANGED <<Kept, stored, totals, octopusToken, torn, faults>>

-----------------------------------------------------------------------------
\* Rows below the floor are left of an earlier version.
Init ==
    /\ now = StartNow
    /\ missing = Late /\ amended = {}
    /\ stored = [s \in 0 .. FloorSlot - 1 |-> Energy] /\ totals = Nothing
    /\ octopusToken = "none" /\ sync = Idle /\ torn = {} /\ faults = 0

Supplier == Tick \/ Refuse \/ TokenExpires \/ \E s \in 0 .. LastSlot : PublishLate(s) \/ Amend(s)

Job ==
    \/ fetchOctopus \/ authenticateOctopus \/ enforceHistoryFloor
    \/ fetchOctopusRangeReadings \/ StartOver
    \/ persistStableReadings \/ (\E d \in Days : refreshDailyTotals(d)) \/ addLiveReadings
    \/ JobEnds \/ Answer \/ JobDone

Next == Supplier \/ Job
Spec == Init /\ [][Next]_vars

OctopusAssumption ==
    /\ {HalfHour, SlotsPerDay, PROFILE_DAYS, D1_BATCH_SIZE, Energy} \subseteq Nat \ {0}
    /\ OCTOPUS_COLLECTION_DAYS \in Nat /\ OCTOPUS_COLLECTION_DAYS > 2
    /\ {FloorSlot, MonthStart, StartNow, MaxNow, MaxFaults} \subseteq Nat
    /\ StartNow >= (2 + 2 * PROFILE_DAYS) * DAY /\ StartNow <= MaxNow
    /\ FloorSlot % SlotsPerDay = 0
    /\ Late \cup Corrected \subseteq 0 .. LastSlot
    /\ \A n \in 1 .. SlotsPerDay : Energy % n = 0

-----------------------------------------------------------------------------
TypeOK ==
    /\ now \in StartNow .. MaxNow /\ faults \in 0 .. MaxFaults
    /\ missing \subseteq Late /\ amended \subseteq Corrected /\ torn \subseteq Days
    /\ DOMAIN stored \subseteq 0 .. LastSlot /\ DOMAIN totals \subseteq Days
    /\ \A d \in DOMAIN totals : totals[d].slots \in 1 .. SlotsPerDay
    /\ octopusToken \in {"none", "valid", "refused", "expired"}
    /\ sync.at \in {"idle", "authenticate", "floor", "fetch", "persist", "answered"}

\* Once the changed readings of a day have been summed again, and until they change, its
\* row is the sum of its readings (refreshDailyTotals); a day that is being changed, or
\* whose run ended in between, is not spoken of.
TotalsFollowReadings ==
    \A d \in Days \ torn : d * SlotsPerDay >= FloorSlot =>
        IF d \in DOMAIN totals THEN totals[d] = DailyTotal(stored, d)
        ELSE DOMAIN stored \cap SlotsOf(d) = {}

\* The profile and the usage put together from sums, stored and latest readings are those
\* of all readings this and earlier runs fetched: no half hour is lost or counted twice
\* where two sources meet (buildOctopusDailyProfile, readStoredOctopusRanges,
\* addLiveReadings).
ProfileIsTrue ==
    sync.at = "answered" /\ torn = {} =>
        LET readings == Over(stored, sync.seen)
        IN  /\ sync.profile = buildOctopusDailyProfile(readings)
            /\ sync.usage = currentUsage(readings)
=============================================================================
