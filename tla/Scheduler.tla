----------------------------- MODULE Scheduler -----------------------------
(***************************************************************************)
(* The job scheduler of the Worker: the jobs table in D1, the tick that    *)
(* selects one due job and completes it by compare-and-set                 *)
(* (cloud/src/scheduler_tick.ts), requestRefresh and the reconciliation of *)
(* the system jobs (scheduler.ts), and the SchedulerCoordinator Durable    *)
(* Object whose single alarm drives the ticks (scheduler_coordinator.ts).  *)
(*                                                                         *)
(* Every wait of the code is a step boundary: the Durable Object's alarm   *)
(* handler, its /wake and /ensure requests and the Worker's refresh        *)
(* requests interleave there.  Storage operations of the Durable Object    *)
(* are atomic, as are single D1 statements.  Time is in seconds.           *)
(***************************************************************************)
EXTENDS Naturals, FiniteSets

CONSTANTS
    Jobs,           \* names in the jobs table
    SystemJobs,     \* jobs whose next_run_at reconcileSystemJobs clamps
    Refreshable,    \* REFRESHABLE_JOBS
    Interval,       \* interval_seconds of each job
    MinRetry,       \* MIN_RETRY_SECONDS (60)
    MaxExponent,    \* MAX_FAILURE_EXPONENT (4)
    RecoveryDelay,  \* RECOVERY_ALARM_DELAY_MS (60 s)
    MaxTime,        \* bound: the clock
    MaxRefreshes,   \* bound: refresh requests
    MaxFaults,      \* bound: failures of D1, evictions and lost wakes
    OldLease,       \* lease_until an earlier release may have left in a row
    NoJob, NoAlarm, \* nothing selected; no alarm set
    Faults          \* the failures that may happen, a subset of AllFaults

AllFaults == {"d1", "evict", "wake"}
MinDelay  == 1      \* MIN_ALARM_DELAY_MS (1 s)

ASSUME SchedulerAssumption ==
    /\ Jobs # {} /\ SystemJobs \subseteq Jobs /\ Refreshable \subseteq Jobs
    /\ Interval \in [Jobs -> Nat \ {0}]
    /\ MinRetry \in Nat \ {0} /\ MaxExponent \in 0 .. 4 /\ RecoveryDelay \in Nat \ {0}
    /\ MaxTime \in Nat \ {0} /\ MaxRefreshes \in Nat /\ MaxFaults \in Nat
    /\ OldLease \in Nat
    /\ NoJob \notin Jobs /\ NoAlarm \notin Nat
    /\ Faults \subseteq AllFaults

VARIABLES
    now,        \* Math.floor(Date.now() / 1000)
    nextRun,    \* jobs.next_run_at; 0 asks for a run as soon as possible
    lease,      \* jobs.lease_until; 0 is NULL
    failures,   \* jobs.consecutive_failures, up to MaxExponent + 1
    alarm,      \* the alarm of the Durable Object
    tick,       \* the alarm handler in progress
    ensure,     \* the /ensure request in progress
    asking,     \* the jobs of the refresh request in progress
    wakes,      \* /wake requests on their way
    refreshes,  \* refresh requests so far
    faults,     \* failures so far
    owed,       \* jobs refreshed since they were last selected (ghost)
    absorbed,   \* those of them whose run then was itself a refresh (ghost)
    ensured,    \* an /ensure or /wake has been served (ghost)
    degraded    \* a wake or an /ensure failed since the last reading (ghost)

tableVars == <<nextRun, lease, failures>>
ghostVars == <<owed, absorbed, ensured, degraded>>
signalVars == <<asking, wakes, refreshes>>
vars == <<now, tableVars, alarm, tick, ensure, signalVars, ghostVars, faults>>

-----------------------------------------------------------------------------
Larger(a, b)  == IF a >= b THEN a ELSE b
Smaller(a, b) == IF a <= b THEN a ELSE b

\* Failure f may happen now.
Fail(f) == f \in Faults /\ faults < MaxFaults

IdleTick   == [st |-> "idle", job |-> NoJob, seen |-> 0, wakeAt |-> 0]
IdleEnsure == [st |-> "idle", wakeAt |-> 0]

Init ==
    /\ now = 1
    /\ nextRun \in [Jobs -> {0, 1, MaxTime + 9}]
    /\ lease \in [Jobs -> {0, OldLease}]
    /\ failures = [j \in Jobs |-> 0]
    /\ alarm = NoAlarm
    /\ tick = IdleTick
    /\ ensure = IdleEnsure
    /\ asking = {}
    /\ wakes = 0
    /\ refreshes = 0
    /\ faults = 0
    /\ owed = {}
    /\ absorbed = {}
    /\ ensured = FALSE
    /\ degraded = FALSE

PassTime ==
    /\ now < MaxTime
    /\ now' = now + 1
    /\ UNCHANGED <<tableVars, alarm, tick, ensure, signalVars, ghostVars, faults>>

-----------------------------------------------------------------------------
(* The jobs table.                                                         *)

Unleased(j) == lease[j] = 0 \/ lease[j] < now
Due(j)      == nextRun[j] <= now /\ Unleased(j)

\* Mistake: the clamp counts the interval backwards.
ReconciledBackwards(next) ==
    [j \in Jobs |-> IF j \in SystemJobs /\ next[j] # 0 /\ next[j] > now + Interval[j]
                    THEN now - Interval[j] ELSE next[j]]

\* ensureSystemJobs: either its one-hour cache is fresh, or the system jobs'
\* next_run_at is brought within one interval, a requested refresh kept.
Reconciled(next) ==
    [j \in Jobs |-> IF j \in SystemJobs /\ next[j] # 0 /\ next[j] > now + Interval[j]
                    THEN now + Interval[j] ELSE next[j]]

EnsureSystemJobs == nextRun' \in {nextRun, Reconciled(nextRun)}

\* 2 ** exponent, for the exponents MAX_FAILURE_EXPONENT allows
TwoTo(exponent) == <<1, 2, 4, 8, 16>>[exponent + 1]

RetryDelay(j, ok, failed) ==
    IF ok THEN Interval[j]
    ELSE Smaller(Interval[j], MinRetry * TwoTo(Smaller(MaxExponent, failed - 1)))

\* POST /v1/refresh: requestRefresh begins with ensureSystemJobs ...
StartRefresh(names) ==
    /\ asking = {}
    /\ refreshes < MaxRefreshes
    /\ refreshes' = refreshes + 1
    /\ asking' = names
    /\ EnsureSystemJobs
    /\ UNCHANGED <<now, lease, failures, alarm, tick, ensure, wakes, ghostVars, faults>>

\* ... then marks the rows, and the Worker sends the wake.
MarkRefresh ==
    /\ asking # {}
    /\ nextRun' = [j \in Jobs |-> IF j \in asking THEN 0 ELSE nextRun[j]]
    /\ owed' = owed \cup asking
    /\ absorbed' = absorbed \cup
           {j \in asking : tick.st = "run" /\ tick.job = j /\ tick.seen = 0}
    /\ asking' = {}
    /\ wakes' = wakes + 1
    /\ UNCHANGED <<now, lease, failures, alarm, tick, ensure, refreshes, ensured, degraded, faults>>

\* D1 fails between the two: the request answers an error and no wake is sent.
FailRefresh ==
    /\ Fail("d1")
    /\ asking # {}
    /\ asking' = {}
    /\ degraded' = TRUE
    /\ faults' = faults + 1
    /\ UNCHANGED <<now, tableVars, alarm, tick, ensure, wakes, refreshes, owed, absorbed, ensured>>

-----------------------------------------------------------------------------
(* The Durable Object: requests.                                           *)

\* Mistake: an alarm that is set stays where it is.
EarlierFirstWins(desired) == IF alarm = NoAlarm THEN desired ELSE alarm

\* setEarlierAlarm
Earlier(desired) == IF alarm = NoAlarm \/ desired < alarm THEN desired ELSE alarm

\* The wake_at of one row, no sooner than the smallest delay of an alarm.
RowWakeAt(j, next) ==
    Larger(now + MinDelay,
           IF lease[j] # 0 /\ lease[j] >= now THEN lease[j] + 1
           ELSE IF next[j] <= now THEN now ELSE next[j])

\* nextWakeAt: the MIN over the rows of the table.
NextWake(next) ==
    {t \in {RowWakeAt(j, next) : j \in Jobs} : \A j \in Jobs : t <= RowWakeAt(j, next)}

Wake ==
    /\ wakes > 0
    /\ wakes' = wakes - 1
    /\ alarm' = Earlier(now + MinDelay)
    /\ ensured' = TRUE
    /\ UNCHANGED <<now, tableVars, tick, ensure, asking, refreshes, owed, absorbed, degraded, faults>>

\* signalCoordinator failed; queueSchedulerWake only logs it.
LoseWake ==
    /\ Fail("wake")
    /\ wakes > 0
    /\ wakes' = wakes - 1
    /\ degraded' = TRUE
    /\ faults' = faults + 1
    /\ UNCHANGED <<now, tableVars, alarm, tick, ensure, asking, refreshes, owed, absorbed, ensured>>

\* /ensure reads the table, and sets the alarm in a later step.
StartEnsure ==
    /\ ensure.st = "idle"
    /\ EnsureSystemJobs
    /\ \E t \in NextWake(nextRun') : ensure' = [st |-> "arm", wakeAt |-> t]
    /\ UNCHANGED <<now, lease, failures, alarm, tick, signalVars, ghostVars, faults>>

ArmEnsure ==
    /\ ensure.st = "arm"
    /\ ensure' = IdleEnsure
    /\ alarm' = Earlier(ensure.wakeAt)
    /\ ensured' = TRUE
    /\ UNCHANGED <<now, tableVars, tick, signalVars, owed, absorbed, degraded, faults>>

\* The object is evicted between the two; the Worker only logs the failure.
LoseEnsure ==
    /\ Fail("evict")
    /\ ensure.st = "arm"
    /\ ensure' = IdleEnsure
    /\ degraded' = TRUE
    /\ faults' = faults + 1
    /\ UNCHANGED <<now, tableVars, alarm, tick, signalVars, owed, absorbed, ensured>>

-----------------------------------------------------------------------------
(* The Durable Object: the alarm handler.                                  *)

\* The platform clears the alarm and calls alarm(); ensureSystemJobs comes first.
\* The bound of the clock stands for every later time.
FireAlarm ==
    /\ tick.st = "idle"
    /\ alarm # NoAlarm
    /\ alarm <= now \/ now = MaxTime
    /\ alarm' = NoAlarm
    /\ EnsureSystemJobs
    /\ tick' = [IdleTick EXCEPT !.st = "select"]
    /\ UNCHANGED <<now, lease, failures, ensure, signalVars, ghostVars, faults>>

\* selectDueJob: the smallest next_run_at first, no lease taken.
SelectJob ==
    /\ tick.st = "select"
    /\ \/ \E j \in Jobs :
             /\ Due(j)
             /\ \A k \in Jobs : Due(k) => nextRun[j] <= nextRun[k]
             /\ tick' = [tick EXCEPT !.st = "run", !.job = j, !.seen = nextRun[j]]
             /\ owed' = owed \ {j}
             /\ absorbed' = absorbed \ {j}
       \/ /\ \A j \in Jobs : ~Due(j)
          /\ tick' = [tick EXCEPT !.st = "read"]
          /\ UNCHANGED <<owed, absorbed>>
    /\ UNCHANGED <<now, tableVars, alarm, ensure, signalVars, ensured, degraded, faults>>

\* A D1 error anywhere in the tick only ends the tick.
FailTick ==
    /\ Fail("d1")
    /\ tick.st \in {"select", "run"}
    /\ tick' = [IdleTick EXCEPT !.st = "read"]
    /\ faults' = faults + 1
    /\ UNCHANGED <<now, tableVars, alarm, ensure, signalVars, ghostVars>>

\* Mistake: the completion does not compare next_run_at.
StillSelectedUnleased(j, seen) == Unleased(j)

\* Mistake: the completion expects the lease that acquireDueJobs would take.
StillSelectedLeased(j, seen) == nextRun[j] = seen /\ lease[j] # 0 /\ lease[j] < now

\* The compare-and-set of finishSelectedJob.
StillSelected(j, seen) == nextRun[j] = seen /\ Unleased(j)

\* executeJob succeeded (ok) or threw, and finishSelectedJob.
FinishJob(ok) ==
    /\ tick.st = "run"
    /\ LET j == tick.job
           failed == IF ok THEN 0 ELSE Smaller(failures[j] + 1, MaxExponent + 1)
       IN IF StillSelected(j, tick.seen)
          THEN /\ nextRun' = [nextRun EXCEPT ![j] = now + RetryDelay(j, ok, failed)]
               /\ lease' = [lease EXCEPT ![j] = 0]
               /\ failures' = [failures EXCEPT ![j] = failed]
          ELSE UNCHANGED tableVars
    /\ tick' = [IdleTick EXCEPT !.st = "read"]
    /\ UNCHANGED <<now, alarm, ensure, signalVars, ghostVars, faults>>

\* scheduleNext: nextWakeAt, then setEarlierAlarm.
ReadNextWake ==
    /\ tick.st = "read"
    /\ EnsureSystemJobs
    /\ \E t \in NextWake(nextRun') : tick' = [tick EXCEPT !.st = "arm", !.wakeAt = t]
    /\ degraded' = FALSE
    /\ UNCHANGED <<now, lease, failures, alarm, ensure, signalVars, owed, absorbed, ensured, faults>>

ArmNext ==
    /\ tick.st = "arm"
    /\ tick' = IdleTick
    /\ alarm' = Earlier(tick.wakeAt)
    /\ UNCHANGED <<now, tableVars, ensure, signalVars, ghostVars, faults>>

\* Mistake: the failure is logged and no recovery alarm is set.
RecoverAlarmLogged ==
    /\ Fail("d1")
    /\ tick.st = "read"
    /\ tick' = IdleTick
    /\ degraded' = TRUE
    /\ faults' = faults + 1
    /\ UNCHANGED <<now, tableVars, alarm, ensure, signalVars, owed, absorbed, ensured>>

\* nextWakeAt threw: a recovery alarm, whatever alarm was set before.
RecoverAlarm ==
    /\ Fail("d1")
    /\ tick.st = "read"
    /\ tick' = IdleTick
    /\ alarm' = now + RecoveryDelay
    /\ degraded' = TRUE
    /\ faults' = faults + 1
    /\ UNCHANGED <<now, tableVars, ensure, signalVars, owed, absorbed, ensured>>

\* The object dies inside alarm(); the platform delivers the alarm again.
EvictTick ==
    /\ Fail("evict")
    /\ tick.st # "idle"
    /\ tick' = IdleTick
    /\ alarm' = Earlier(now)
    /\ degraded' = TRUE
    /\ faults' = faults + 1
    /\ UNCHANGED <<now, tableVars, ensure, signalVars, owed, absorbed, ensured>>

-----------------------------------------------------------------------------
TickStep ==
    \/ FireAlarm \/ SelectJob \/ FailTick
    \/ \E ok \in BOOLEAN : FinishJob(ok)
    \/ ReadNextWake \/ ArmNext \/ RecoverAlarm \/ EvictTick

Next ==
    \/ PassTime
    \/ \E names \in (SUBSET Refreshable) \ {{}} : StartRefresh(names)
    \/ MarkRefresh \/ FailRefresh
    \/ Wake \/ LoseWake \/ StartEnsure \/ ArmEnsure \/ LoseEnsure
    \/ TickStep

Spec == Init /\ [][Next]_vars

\* The clock, the Durable Object and the requests to it make progress; /ensure
\* comes with the Worker's traffic and its daily watchdog.
Fairness ==
    /\ WF_vars(PassTime)
    /\ WF_vars(MarkRefresh) /\ WF_vars(Wake \/ LoseWake)
    /\ WF_vars(StartEnsure) /\ WF_vars(ArmEnsure)
    /\ WF_vars(FireAlarm)
    /\ WF_vars(SelectJob \/ \E ok \in BOOLEAN : FinishJob(ok))
    /\ WF_vars(ReadNextWake \/ ArmNext)

FairSpec == Spec /\ Fairness

-----------------------------------------------------------------------------
(* What the scheduler promises.                                            *)

\* Type invariant of the jobs table, the alarm and the requests in progress.
TypeOK ==
    /\ now \in Nat
    /\ nextRun \in [Jobs -> Nat]
    /\ lease \in [Jobs -> Nat]
    /\ failures \in [Jobs -> Nat]
    /\ alarm \in Nat \cup {NoAlarm}
    /\ tick \in [st : {"idle", "select", "run", "read", "arm"},
                 job : Jobs \cup {NoJob}, seen : Nat, wakeAt : Nat]
    /\ ensure \in [st : {"idle", "arm"}, wakeAt : Nat]
    /\ wakes \in Nat /\ refreshes \in Nat
    /\ faults \in 0 .. MaxFaults
    /\ asking \subseteq Jobs
    /\ owed \subseteq Jobs /\ absorbed \subseteq Jobs
    /\ ensured \in BOOLEAN /\ degraded \in BOOLEAN

\* Once /ensure or /wake has been served the chain of alarms never breaks:
\* an alarm is set, or the handler that will set the next one is running.
AlarmChain == ensured => (alarm # NoAlarm \/ tick.st # "idle")

\* No alarm is later than the row it should wake up for: whatever the order
\* of ticks, /ensure and /wake, the alarm covers the earliest due time of the
\* table unless a signal is under way, was lost, or a reading failed.
AlarmCoversTable ==
    (/\ ensured /\ ~degraded
     /\ tick.st = "idle" /\ ensure.st = "idle" /\ asking = {} /\ wakes = 0)
        => \A j \in Jobs : alarm <= RowWakeAt(j, nextRun)

\* A refresh requested while a job is running is not overwritten by the
\* completion of that run: a job owed a run keeps next_run_at = 0.  Only a run
\* that a refresh had started is beyond the compare-and-set on next_run_at.
RefreshKept == \A j \in owed \ absorbed : nextRun[j] = 0

\* A due job is run, whichever jobs and refreshes come before it.
DueJobRuns ==
    \A j \in Jobs :
        (nextRun[j] <= now /\ Unleased(j)) ~> (tick.st = "run" /\ tick.job = j)
=============================================================================
