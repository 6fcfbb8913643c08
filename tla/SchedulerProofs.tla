-------------------------- MODULE SchedulerProofs --------------------------
(***************************************************************************)
(* Proofs about the job scheduler of the Worker, for every set of jobs,    *)
(* every interval and every combination of faults.  TypeCorrect comes      *)
(* first; the other theorems use it.                                       *)
(***************************************************************************)
EXTENDS Scheduler, TLAPS

\* A delay after a run is a positive number of seconds.
LEMMA RetryDelayType ==
    ASSUME NEW j \in Jobs, NEW ok \in BOOLEAN, NEW failed \in Nat,
           ok \/ failed > 0
    PROVE  RetryDelay(j, ok, failed) \in Nat \ {0}
<1>1. Interval[j] \in Nat \ {0}
  BY SchedulerAssumption
<1>2. CASE ok
  BY <1>1, <1>2 DEF RetryDelay
<1>3. CASE ~ok
  <2> DEFINE e == Smaller(MaxExponent, failed - 1)
  <2>1. e \in 0 .. 4
    BY <1>3, SchedulerAssumption DEF Smaller
  <2>2. TwoTo(e) \in {1, 2, 4, 8, 16}
    BY <2>1 DEF TwoTo
  <2>3. MinRetry * TwoTo(e) \in Nat \ {0}
    <3>1. MinRetry \in Nat \ {0}
      BY SchedulerAssumption
    <3>2. QED
      BY <2>2, <3>1
  <2>4. RetryDelay(j, ok, failed) = Smaller(Interval[j], MinRetry * TwoTo(e))
    BY <1>3 DEF RetryDelay
  <2>5. QED
    BY <1>1, <2>3, <2>4 DEF Smaller
<1>4. QED
  BY <1>2, <1>3

\* The clamp of reconcileSystemJobs keeps next_run_at a number, never moves it
\* later and keeps a requested refresh.
LEMMA ReconciledFacts ==
    ASSUME now \in Nat, nextRun \in [Jobs -> Nat], EnsureSystemJobs
    PROVE  /\ nextRun' \in [Jobs -> Nat]
           /\ \A j \in Jobs : nextRun'[j] <= nextRun[j]
           /\ \A j \in Jobs : nextRun[j] = 0 => nextRun'[j] = 0
<1>1. \A j \in Jobs : Interval[j] \in Nat
  BY SchedulerAssumption
<1>2. CASE nextRun' = nextRun
  BY <1>2
<1>3. CASE nextRun' = Reconciled(nextRun)
  BY <1>1, <1>3 DEF Reconciled
<1>4. QED
  BY <1>2, <1>3 DEF EnsureSystemJobs

\* The time a row asks to be woken at is later than the present.
LEMMA RowWakeAtType ==
    ASSUME now \in Nat, lease \in [Jobs -> Nat],
           NEW next \in [Jobs -> Nat], NEW j \in Jobs
    PROVE  RowWakeAt(j, next) \in Nat /\ RowWakeAt(j, next) >= now + 1
BY DEF RowWakeAt, Larger, MinDelay

\* The jobs table, the alarm and every request in progress keep their types.
THEOREM TypeCorrect == Spec => []TypeOK
<1> USE SchedulerAssumption
<1>1. Init => TypeOK
  <2> SUFFICES ASSUME Init PROVE TypeOK
    OBVIOUS
  <2>1. \A j \in Jobs : nextRun[j] \in Nat /\ lease[j] \in Nat
    BY DEF Init
  <2>2. 0 \in 0 .. MaxFaults
    OBVIOUS
  <2>3. QED
    BY <2>1, <2>2 DEF Init, TypeOK, IdleTick, IdleEnsure
<1>2. TypeOK /\ [Next]_vars => TypeOK'
  <2> SUFFICES ASSUME TypeOK, [Next]_vars PROVE TypeOK'
    OBVIOUS
  <2> USE DEF TypeOK
  <2>1. CASE PassTime
    BY <2>1 DEF PassTime, tableVars, signalVars, ghostVars
  <2>2. ASSUME NEW names \in (SUBSET Refreshable) \ {{}}, StartRefresh(names) PROVE TypeOK'
    BY <2>2, ReconciledFacts DEF StartRefresh, ghostVars
  <2>3. CASE MarkRefresh
    BY <2>3 DEF MarkRefresh
  <2>4. CASE FailRefresh
    BY <2>4 DEF FailRefresh, Fail, tableVars
  <2>5. CASE Wake
    BY <2>5 DEF Wake, tableVars, Earlier, MinDelay
  <2>6. CASE LoseWake
    BY <2>6 DEF LoseWake, Fail, tableVars
  <2>7. CASE StartEnsure
    <3>1. nextRun' \in [Jobs -> Nat]
      BY <2>7, ReconciledFacts DEF StartEnsure
    <3>2. PICK t \in NextWake(nextRun') : ensure' = [st |-> "arm", wakeAt |-> t]
      BY <2>7 DEF StartEnsure
    <3>3. t \in Nat
      BY <3>1, <3>2, RowWakeAtType DEF NextWake
    <3>4. QED
      BY <2>7, <3>1, <3>2, <3>3 DEF StartEnsure, signalVars, ghostVars
  <2>8. CASE ArmEnsure
    BY <2>8 DEF ArmEnsure, IdleEnsure, tableVars, signalVars, Earlier
  <2>9. CASE LoseEnsure
    BY <2>9 DEF LoseEnsure, Fail, IdleEnsure, tableVars, signalVars
  <2>10. CASE FireAlarm
    BY <2>10, ReconciledFacts DEF FireAlarm, IdleTick, signalVars, ghostVars
  <2>11. CASE SelectJob
    BY <2>11 DEF SelectJob, tableVars, signalVars
  <2>12. CASE FailTick
    BY <2>12 DEF FailTick, Fail, IdleTick, tableVars, signalVars, ghostVars
  <2>13. ASSUME NEW ok \in BOOLEAN, FinishJob(ok) PROVE TypeOK'
    <3> DEFINE j == tick.job
               failed == IF ok THEN 0 ELSE Smaller(failures[j] + 1, MaxExponent + 1)
    <3>1. CASE j \in Jobs
      <4>1. failed \in Nat /\ (ok \/ failed > 0)
        BY <3>1 DEF Smaller
      <4>2. now + RetryDelay(j, ok, failed) \in Nat
        BY <3>1, <4>1, RetryDelayType
      <4> HIDE DEF failed
      <4>3. nextRun' \in [Jobs -> Nat] /\ lease' \in [Jobs -> Nat] /\ failures' \in [Jobs -> Nat]
        BY <2>13, <4>1, <4>2 DEF FinishJob, tableVars, failed
      <4>4. QED
        BY <2>13, <4>3 DEF FinishJob, IdleTick, signalVars, ghostVars
    <3>2. CASE j \notin Jobs
      <4>1. nextRun' \in [Jobs -> Nat] /\ lease' \in [Jobs -> Nat] /\ failures' \in [Jobs -> Nat]
        BY <2>13, <3>2 DEF FinishJob, tableVars
      <4>2. QED
        BY <2>13, <4>1 DEF FinishJob, IdleTick, signalVars, ghostVars
    <3>3. QED
      BY <3>1, <3>2
  <2>14. CASE ReadNextWake
    <3>1. nextRun' \in [Jobs -> Nat]
      BY <2>14, ReconciledFacts DEF ReadNextWake
    <3>2. PICK t \in NextWake(nextRun') : tick' = [tick EXCEPT !.st = "arm", !.wakeAt = t]
      BY <2>14 DEF ReadNextWake
    <3>3. t \in Nat
      BY <3>1, <3>2, RowWakeAtType DEF NextWake
    <3>4. QED
      BY <2>14, <3>1, <3>2, <3>3 DEF ReadNextWake, signalVars
  <2>15. CASE ArmNext
    BY <2>15 DEF ArmNext, IdleTick, tableVars, signalVars, ghostVars, Earlier
  <2>16. CASE RecoverAlarm
    BY <2>16 DEF RecoverAlarm, Fail, IdleTick, tableVars, signalVars
  <2>17. CASE EvictTick
    BY <2>17 DEF EvictTick, Fail, IdleTick, tableVars, signalVars, Earlier
  <2>18. CASE UNCHANGED vars
    BY <2>18 DEF vars, tableVars, signalVars, ghostVars
  <2>19. QED
    BY <2>1, <2>2, <2>3, <2>4, <2>5, <2>6, <2>7, <2>8, <2>9, <2>10, <2>11, <2>12,
       <2>13, <2>14, <2>15, <2>16, <2>17, <2>18 DEF Next, TickStep
<1>3. QED
  BY <1>1, <1>2, PTL DEF Spec

-----------------------------------------------------------------------------
\* Until the first /ensure or /wake nothing runs; after it an alarm is set or
\* the handler runs that will set one.
ChainInv ==
    /\ AlarmChain
    /\ ~ensured => (alarm = NoAlarm /\ tick.st = "idle")

\* The chain of alarms never breaks, whatever fails: a wake, a D1 statement or
\* the object itself.
THEOREM AlarmChainKept == Spec => []AlarmChain
<1> USE SchedulerAssumption
<1>1. Init => ChainInv
  BY DEF Init, ChainInv, AlarmChain, IdleTick
<1>2. TypeOK /\ ChainInv /\ [Next]_vars => ChainInv'
  <2> SUFFICES ASSUME TypeOK, ChainInv, [Next]_vars PROVE ChainInv'
    OBVIOUS
  <2> USE DEF ChainInv, AlarmChain, TypeOK
  <2>1. CASE FireAlarm
    BY <2>1 DEF FireAlarm, IdleTick, ghostVars
  <2>2. CASE SelectJob
    BY <2>2 DEF SelectJob
  <2>3. CASE FailTick
    BY <2>3 DEF FailTick, IdleTick, ghostVars
  <2>4. ASSUME NEW ok \in BOOLEAN, FinishJob(ok) PROVE ChainInv'
    BY <2>4 DEF FinishJob, IdleTick, ghostVars
  <2>5. CASE ReadNextWake
    BY <2>5 DEF ReadNextWake
  <2>6. CASE ArmNext \/ RecoverAlarm \/ EvictTick
    BY <2>6 DEF ArmNext, RecoverAlarm, EvictTick, IdleTick, ghostVars, Earlier
  <2>7. CASE Wake \/ LoseWake \/ StartEnsure \/ ArmEnsure \/ LoseEnsure
    BY <2>7 DEF Wake, LoseWake, StartEnsure, ArmEnsure, LoseEnsure, signalVars, ghostVars,
       Earlier, MinDelay
  <2>8. CASE PassTime \/ MarkRefresh \/ FailRefresh
    BY <2>8 DEF PassTime, MarkRefresh, FailRefresh, signalVars, ghostVars
  <2>9. ASSUME NEW names \in (SUBSET Refreshable) \ {{}}, StartRefresh(names) PROVE ChainInv'
    BY <2>9 DEF StartRefresh, ghostVars
  <2>10. CASE UNCHANGED vars
    BY <2>10 DEF vars, ghostVars
  <2>11. QED
    BY <2>1, <2>2, <2>3, <2>4, <2>5, <2>6, <2>7, <2>8, <2>9, <2>10 DEF Next, TickStep
<1>3. ChainInv => AlarmChain
  BY DEF ChainInv
<1>4. QED
  BY <1>1, <1>2, <1>3, TypeCorrect, PTL DEF Spec

-----------------------------------------------------------------------------
\* A run that could overwrite a refresh did not begin from next_run_at = 0.
RefreshInv ==
    /\ RefreshKept
    /\ tick.st = "run" /\ tick.job \in owed \ absorbed => tick.seen # 0

\* A refresh is never overwritten by a completion, except by that of a run
\* which a refresh had started.
THEOREM RefreshIsKept == Spec => []RefreshKept
<1> USE SchedulerAssumption
<1>1. Init => RefreshInv
  BY DEF Init, RefreshInv, RefreshKept, IdleTick
<1>2. TypeOK /\ RefreshInv /\ [Next]_vars => RefreshInv'
  <2> SUFFICES ASSUME TypeOK, RefreshInv, [Next]_vars PROVE RefreshInv'
    OBVIOUS
  <2> USE DEF RefreshInv, RefreshKept, TypeOK
  <2>1. ASSUME NEW names \in (SUBSET Refreshable) \ {{}}, StartRefresh(names) PROVE RefreshInv'
    BY <2>1, ReconciledFacts DEF StartRefresh, ghostVars
  <2>2. CASE MarkRefresh
    BY <2>2 DEF MarkRefresh
  <2>3. CASE StartEnsure
    BY <2>3, ReconciledFacts DEF StartEnsure, ghostVars
  <2>4. CASE FireAlarm
    BY <2>4, ReconciledFacts DEF FireAlarm, IdleTick, ghostVars
  <2>5. CASE SelectJob
    BY <2>5 DEF SelectJob, tableVars
  <2>6. ASSUME NEW ok \in BOOLEAN, FinishJob(ok) PROVE RefreshInv'
    <3>1. tick'.st = "read" /\ owed' = owed /\ absorbed' = absorbed
      BY <2>6 DEF FinishJob, IdleTick, ghostVars
    <3>2. \A j \in owed \ absorbed : nextRun'[j] = 0
      <4> SUFFICES ASSUME NEW j \in owed \ absorbed PROVE nextRun'[j] = 0
        OBVIOUS
      <4>1. nextRun[j] = 0
        OBVIOUS
      <4>2. CASE j = tick.job
        <5>1. tick.seen # nextRun[j]
          BY <2>6, <4>1, <4>2 DEF FinishJob
        <5>2. QED
          BY <2>6, <4>1, <4>2, <5>1 DEF FinishJob, StillSelected, tableVars
      <4>3. CASE j # tick.job
        BY <2>6, <4>1, <4>3 DEF FinishJob, tableVars
      <4>4. QED
        BY <4>2, <4>3
    <3>3. QED
      BY <3>1, <3>2
  <2>7. CASE ReadNextWake
    BY <2>7, ReconciledFacts DEF ReadNextWake, NextWake
  <2>8. CASE PassTime \/ FailRefresh \/ Wake \/ LoseWake \/ ArmEnsure \/ LoseEnsure
    BY <2>8 DEF PassTime, FailRefresh, Wake, LoseWake, ArmEnsure, LoseEnsure, tableVars,
       ghostVars
  <2>9. CASE FailTick \/ ArmNext \/ RecoverAlarm \/ EvictTick
    BY <2>9 DEF FailTick, ArmNext, RecoverAlarm, EvictTick, IdleTick, tableVars, ghostVars
  <2>10. CASE UNCHANGED vars
    BY <2>10 DEF vars, tableVars, ghostVars
  <2>11. QED
    BY <2>1, <2>2, <2>3, <2>4, <2>5, <2>6, <2>7, <2>8, <2>9, <2>10 DEF Next, TickStep
<1>3. RefreshInv => RefreshKept
  BY DEF RefreshInv
<1>4. QED
  BY <1>1, <1>2, <1>3, TypeCorrect, PTL DEF Spec

-----------------------------------------------------------------------------
LEMMA RowWakeAtSame ==
    ASSUME NEW j \in Jobs, UNCHANGED <<now, nextRun, lease>>
    PROVE  RowWakeAt(j, nextRun)' = RowWakeAt(j, nextRun)
BY DEF RowWakeAt, Larger, MinDelay

\* Time alone makes no row due earlier.
LEMMA RowWakeAtMonotone ==
    ASSUME NEW j \in Jobs, now \in Nat, nextRun \in [Jobs -> Nat], lease \in [Jobs -> Nat],
           now' = now + 1, UNCHANGED <<nextRun, lease>>
    PROVE  RowWakeAt(j, nextRun)' >= RowWakeAt(j, nextRun)
BY DEF RowWakeAt, Larger, MinDelay

\* What guarantees that row j is woken up for: a signal on its way, the alarm,
\* or a handler or /ensure that has not yet set the alarm it will set.
Covered(j) ==
    \/ wakes > 0 \/ asking # {}
    \/ alarm # NoAlarm /\ alarm <= RowWakeAt(j, nextRun)
    \/ tick.st \in {"select", "run", "read"}
    \/ tick.st = "arm" /\ tick.wakeAt <= RowWakeAt(j, nextRun)
    \/ ensure.st = "arm" /\ ensure.wakeAt <= RowWakeAt(j, nextRun)

\* While nothing is degraded every row is covered; before the first alarm, what
\* /ensure has read is enough for every row unless a signal follows it.
CoverInv ==
    /\ ~ensured => (alarm = NoAlarm /\ tick.st = "idle")
    /\ (ensured /\ ~degraded) => \A j \in Jobs : Covered(j)
    /\ (~ensured /\ ~degraded /\ ensure.st = "arm") =>
          \/ wakes > 0 \/ asking # {}
          \/ \A j \in Jobs : ensure.wakeAt <= RowWakeAt(j, nextRun)

\* No alarm is later than any row it should wake up for.
THEOREM AlarmAlwaysCovers == Spec => []AlarmCoversTable
<1> USE SchedulerAssumption
<1>1. Init => CoverInv
  BY DEF Init, CoverInv, IdleTick, IdleEnsure
<1>2. TypeOK /\ CoverInv /\ [Next]_vars => CoverInv'
  <2> SUFFICES ASSUME TypeOK, CoverInv, [Next]_vars PROVE CoverInv'
    OBVIOUS
  <2> USE DEF TypeOK
  <2>1. CASE PassTime
    <3>1. \A j \in Jobs : /\ RowWakeAt(j, nextRun) \in Nat
                          /\ RowWakeAt(j, nextRun)' \in Nat
                          /\ RowWakeAt(j, nextRun)' >= RowWakeAt(j, nextRun)
      <4>1. now' = now + 1 /\ UNCHANGED <<nextRun, lease>>
        BY <2>1 DEF PassTime, tableVars
      <4>2. \A j \in Jobs : RowWakeAt(j, nextRun)' >= RowWakeAt(j, nextRun)
        BY <4>1, RowWakeAtMonotone
      <4>3. \A j \in Jobs : RowWakeAt(j, nextRun) \in Nat
        BY RowWakeAtType
      <4>4. \A j \in Jobs : RowWakeAt(j, nextRun)' \in Nat
        BY <4>1 DEF RowWakeAt, Larger, MinDelay
      <4>5. QED
        BY <4>2, <4>3, <4>4
    <3>2. UNCHANGED <<alarm, tick, ensure, asking, wakes, ensured, degraded>>
      BY <2>1 DEF PassTime, signalVars, ghostVars
    <3>3. QED
      BY <3>1, <3>2 DEF CoverInv, Covered
  <2>2. ASSUME NEW names \in (SUBSET Refreshable) \ {{}}, StartRefresh(names) PROVE CoverInv'
    <3>1. asking' # {}
      BY <2>2 DEF StartRefresh
    <3>2. UNCHANGED <<alarm, tick, ensured>>
      BY <2>2 DEF StartRefresh, ghostVars
    <3>3. \A j \in Jobs : Covered(j)'
      BY <3>1 DEF Covered
    <3>4. QED
      BY <3>1, <3>2, <3>3 DEF CoverInv
  <2>3. CASE MarkRefresh
    BY <2>3 DEF MarkRefresh, CoverInv, Covered
  <2>4. CASE FailRefresh \/ LoseWake \/ LoseEnsure \/ EvictTick \/ RecoverAlarm
    <3>1. degraded' = TRUE /\ ensured' = ensured
      BY <2>4 DEF FailRefresh, LoseWake, LoseEnsure, EvictTick, RecoverAlarm
    <3>2. ~ensured => (alarm' = NoAlarm /\ tick'.st = "idle")
      BY <2>4 DEF FailRefresh, LoseWake, LoseEnsure, EvictTick, RecoverAlarm, CoverInv
    <3>3. QED
      BY <3>1, <3>2 DEF CoverInv
  <2>5. CASE Wake
    <3>1. ensured' = TRUE /\ alarm' \in Nat /\ alarm' <= now + 1
      BY <2>5 DEF Wake, Earlier, MinDelay
    <3>2. UNCHANGED <<now, nextRun, lease>>
      BY <2>5 DEF Wake, tableVars
    <3>3. \A j \in Jobs : alarm' <= RowWakeAt(j, nextRun)'
      BY <3>1, <3>2, RowWakeAtType, RowWakeAtSame
    <3>4. QED
      BY <3>1, <3>3 DEF CoverInv, Covered
  <2>6. CASE StartEnsure
    <3>1. PICK t \in NextWake(nextRun') : ensure' = [st |-> "arm", wakeAt |-> t]
      BY <2>6 DEF StartEnsure
    <3>2. \A j \in Jobs : t <= RowWakeAt(j, nextRun)'
      BY <2>6, <3>1 DEF NextWake, StartEnsure, RowWakeAt, Larger, MinDelay
    <3>3. UNCHANGED <<alarm, tick, ensured>>
      BY <2>6 DEF StartEnsure, ghostVars
    <3>4. QED
      BY <3>1, <3>2, <3>3 DEF CoverInv, Covered
  <2>7. CASE ArmEnsure
    <3>1. UNCHANGED <<now, nextRun, lease, tick, asking, wakes, degraded>>
      BY <2>7 DEF ArmEnsure, tableVars, signalVars
    <3>2. /\ ensured' /\ alarm' \in Nat /\ alarm' <= ensure.wakeAt
          /\ alarm # NoAlarm => alarm' <= alarm
      BY <2>7 DEF ArmEnsure, Earlier
    <3>3. \A j \in Jobs : RowWakeAt(j, nextRun) \in Nat
                          /\ RowWakeAt(j, nextRun)' = RowWakeAt(j, nextRun)
      BY <3>1, RowWakeAtType, RowWakeAtSame
    <3>4. ensure.st = "arm"
      BY <2>7 DEF ArmEnsure
    <3>5. QED
      BY <3>1, <3>2, <3>3, <3>4 DEF CoverInv, Covered
  <2>8. CASE FireAlarm
    BY <2>8 DEF FireAlarm, IdleTick, ghostVars, CoverInv, Covered
  <2>9. CASE SelectJob
    BY <2>9 DEF SelectJob, CoverInv, Covered
  <2>10. CASE FailTick
    BY <2>10 DEF FailTick, IdleTick, ghostVars, CoverInv, Covered
  <2>11. ASSUME NEW ok \in BOOLEAN, FinishJob(ok) PROVE CoverInv'
    BY <2>11 DEF FinishJob, IdleTick, ghostVars, CoverInv, Covered
  <2>12. CASE ReadNextWake
    <3>1. PICK t \in NextWake(nextRun') : tick' = [tick EXCEPT !.st = "arm", !.wakeAt = t]
      BY <2>12 DEF ReadNextWake
    <3>2. \A j \in Jobs : t <= RowWakeAt(j, nextRun)'
      BY <2>12, <3>1 DEF NextWake, ReadNextWake, RowWakeAt, Larger, MinDelay
    <3>3. tick'.st = "arm" /\ tick'.wakeAt = t
      BY <3>1
    <3>4. ensured /\ ensured'
      BY <2>12 DEF ReadNextWake, CoverInv
    <3>5. QED
      BY <3>2, <3>3, <3>4 DEF CoverInv, Covered
  <2>13. CASE ArmNext
    <3>1. UNCHANGED <<now, nextRun, lease, ensure, asking, wakes, degraded, ensured>>
      BY <2>13 DEF ArmNext, tableVars, signalVars, ghostVars
    <3>2. /\ tick.st = "arm" /\ tick'.st = "idle"
          /\ alarm' \in Nat /\ alarm' <= tick.wakeAt
          /\ alarm # NoAlarm => alarm' <= alarm
      BY <2>13 DEF ArmNext, IdleTick, Earlier
    <3>3. \A j \in Jobs : RowWakeAt(j, nextRun) \in Nat
                          /\ RowWakeAt(j, nextRun)' = RowWakeAt(j, nextRun)
      BY <3>1, RowWakeAtType, RowWakeAtSame
    <3>4. QED
      BY <3>1, <3>2, <3>3 DEF CoverInv, Covered
  <2>14. CASE UNCHANGED vars
    <3>1. UNCHANGED <<now, nextRun, lease, alarm, tick, ensure, asking, wakes, degraded, ensured>>
      BY <2>14 DEF vars, tableVars, signalVars, ghostVars
    <3>2. \A j \in Jobs : RowWakeAt(j, nextRun)' = RowWakeAt(j, nextRun)
      BY <3>1, RowWakeAtSame
    <3>3. QED
      BY <3>1, <3>2 DEF CoverInv, Covered
  <2>15. QED
    BY <2>1, <2>2, <2>3, <2>4, <2>5, <2>6, <2>7, <2>8, <2>9, <2>10, <2>11, <2>12,
       <2>13, <2>14 DEF Next, TickStep
<1>3. CoverInv => AlarmCoversTable
  BY DEF CoverInv, Covered, AlarmCoversTable
<1>4. QED
  BY <1>1, <1>2, <1>3, TypeCorrect, PTL DEF Spec
=============================================================================
