---------------------------- MODULE UpdateCheck ----------------------------
(***************************************************************************)
(* The announcement of a release to the panels: performUpdateCheck         *)
(* (cloud/src/update_check.ts) compares the published manifest with the    *)
(* release it announced last, queues one check_update command per known    *)
(* device with enqueueCommandOnce (device_control.ts), and stores what it  *)
(* announced.  The scheduler's job and the /v1/update/ping requests of     *)
(* release builds run it; within an isolate they share one check in        *)
(* progress, between isolates nothing does.  Every await is a step         *)
(* boundary, and a check may end there with an error.                      *)
(*                                                                         *)
(* A release is a number, in the order of publication, and its manifest    *)
(* the payload of its commands.                                            *)
(***************************************************************************)
EXTENDS CommandTable

CONSTANTS
    Isolates,      \* Worker isolates that run checks
    MaxRelease,    \* bound: releases published
    MaxFailures    \* bound: checks that end with an error

ASSUME UpdateAssumption ==
    /\ Payloads = 1 .. MaxRelease /\ MaxRelease \in Nat \ {0}
    /\ MaxFailures \in Nat

VARIABLES
    release,     \* the release in latest.json; 0 before the first
    announced,   \* current_state 'update': the release announced last, 0 if none
    known,       \* the devices knownDeviceIds would return
    check,       \* the check in progress of each isolate
    rows,        \* device_commands
    failures,    \* checks that ended with an error
    audience,    \* the devices known when each release was published (ghost)
    baselines    \* releases stored while no other was announced (ghost)

vars == <<release, announced, known, check, rows, failures, audience, baselines>>

IdleCheck == [step |-> "idle", seen |-> 0, first |-> FALSE, todo |-> {}, attempt |-> 0]

Check == [step: {"idle", "previous", "devices", "queue", "find", "store"},
          seen: 0 .. MaxRelease,   \* identity read from the manifest
          first: BOOLEAN,          \* no release was announced before
          todo: SUBSET Devices,    \* devices still to be told
          attempt: 0 .. 1]         \* attempt of enqueueCommandOnce

TypeOK ==
    /\ release \in 0 .. MaxRelease /\ announced \in 0 .. MaxRelease
    /\ known \subseteq Devices
    /\ check \in [Isolates -> Check]
    /\ IsTable(rows)
    /\ failures \in 0 .. MaxFailures
    /\ audience \in [Payloads -> SUBSET Devices]
    /\ baselines \subseteq Payloads

Init ==
    /\ release = 0 /\ announced = 0 /\ known = {}
    /\ check = [w \in Isolates |-> IdleCheck]
    /\ rows = NoRows /\ failures = 0
    /\ audience = [r \in Payloads |-> {}] /\ baselines = {}

Step(w, next) == check' = [check EXCEPT ![w] = next]

-----------------------------------------------------------------------------
(* Around the check: releases, devices, and panels that acknowledge        *)
(* commands (modelled in CommandDelivery).                                 *)

Publish ==
    /\ release < MaxRelease
    /\ release' = release + 1
    /\ audience' = [audience EXCEPT ![release + 1] = known]
    /\ UNCHANGED <<announced, known, check, rows, failures, baselines>>

\* A device sends its first heartbeat.
Join(d) ==
    /\ d \notin known
    /\ known' = known \cup {d}
    /\ UNCHANGED <<release, announced, check, rows, failures, audience, baselines>>

\* A panel has fetched a command and acknowledges it; what it fetched makes no
\* difference to a check.
Acknowledge(id) ==
    /\ id \in DOMAIN rows
    /\ rows' = Acknowledged(rows, rows[id].device, id)
    /\ rows' # rows
    /\ UNCHANGED <<release, announced, known, check, failures, audience, baselines>>

-----------------------------------------------------------------------------
(* performUpdateCheck.                                                     *)

\* coalescedUpdateCheck starts one only when the isolate has none in progress.
ReadManifest(w) ==
    /\ check[w].step = "idle" /\ release # 0
    /\ Step(w, [IdleCheck EXCEPT !.step = "previous", !.seen = release])
    /\ UNCHANGED <<release, announced, known, rows, failures, audience, baselines>>

\* A mistake: every new release is taken for the baseline.
AfterPreviousUntold(seen, previous) ==
    IF seen = previous THEN "idle" ELSE "store"

\* Nothing new; the baseline, which is not announced; a release to announce.
AfterPrevious(seen, previous) ==
    CASE seen = previous -> "idle"
      [] seen # previous /\ previous = 0 -> "store"
      [] seen # previous /\ previous # 0 -> "devices"

ReadPrevious(w) ==
    /\ check[w].step = "previous"
    /\ LET next == AfterPrevious(check[w].seen, announced) IN
         Step(w, IF next = "idle" THEN IdleCheck
                 ELSE [check[w] EXCEPT !.step = next, !.first = (announced = 0)])
    /\ UNCHANGED <<release, announced, known, rows, failures, audience, baselines>>

ReadDevices(w) ==
    /\ check[w].step = "devices"
    /\ Step(w, [check[w] EXCEPT !.step = IF known = {} THEN "store" ELSE "queue", !.todo = known])
    /\ UNCHANGED <<release, announced, known, rows, failures, audience, baselines>>

\* The device is told: the loop goes on with the next one, or ends.
Told(w, d) ==
    Step(w, [check[w] EXCEPT !.todo = @ \ {d}, !.attempt = 0,
                             !.step = IF check[w].todo = {d} THEN "store" ELSE "queue"])

\* The order in which a Set of device ids is visited does not matter; choose one.
NextDevice(w) == CHOOSE d \in check[w].todo : TRUE

TryInsert(w) ==
    /\ check[w].step = "queue"
    /\ LET d == NextDevice(w) IN
        /\ rows' = Inserted(rows, d, check[w].seen, Cardinality(DOMAIN rows) + 1)
        /\ IF rows' # rows THEN Told(w, d)
           ELSE Step(w, [check[w] EXCEPT !.step = "find"])
    /\ UNCHANGED <<release, announced, known, failures, audience, baselines>>

\* What a check that ended with an error leaves in activeUpdateCheck, if .finally did not clear it.
AbandonedCheckKept == [IdleCheck EXCEPT !.step = "rejected"]

\* activeUpdateCheck is cleared whether the check succeeded or not.
AbandonedCheck == IdleCheck

\* The pending row that stopped the insertion may be completed meanwhile: try again, once.
FindExisting(w) ==
    /\ check[w].step = "find"
    /\ LET d == NextDevice(w) IN
        \/ /\ PendingFor(rows, d, check[w].seen) # {}
           /\ Told(w, d)
           /\ UNCHANGED failures
        \/ /\ PendingFor(rows, d, check[w].seen) = {} /\ check[w].attempt = 0
           /\ Step(w, [check[w] EXCEPT !.step = "queue", !.attempt = 1])
           /\ UNCHANGED failures
        \/ /\ PendingFor(rows, d, check[w].seen) = {} /\ check[w].attempt = 1
           /\ failures < MaxFailures /\ failures' = failures + 1
           /\ Step(w, AbandonedCheck)
    /\ UNCHANGED <<release, announced, known, rows, audience, baselines>>

\* updateState(env, {source: "update"})
Store(w) ==
    /\ check[w].step = "store"
    /\ announced' = check[w].seen
    /\ baselines' = IF check[w].first THEN baselines \cup {check[w].seen} ELSE baselines
    /\ Step(w, IdleCheck)
    /\ UNCHANGED <<release, known, rows, failures, audience>>

\* D1 or R2 fails, or the isolate ends.
Fail(w) ==
    /\ check[w].step \in {"previous", "devices", "queue", "find", "store"}
    /\ failures < MaxFailures /\ failures' = failures + 1
    /\ Step(w, AbandonedCheck)
    /\ UNCHANGED <<release, announced, known, rows, audience, baselines>>

CheckStep(w) ==
    ReadPrevious(w) \/ ReadDevices(w) \/ TryInsert(w) \/ FindExisting(w) \/ Store(w)

Next ==
    \/ Publish
    \/ \E d \in Devices : Join(d)
    \/ \E id \in DOMAIN rows : Acknowledge(id)
    \/ \E w \in Isolates : ReadManifest(w) \/ CheckStep(w) \/ Fail(w)

Spec == Init /\ [][Next]_vars

\* A check that has begun goes on, and the scheduler's job starts one again and again.
Fairness ==
    /\ \A w \in Isolates : WF_vars(CheckStep(w))
    /\ WF_vars(\E w \in Isolates : ReadManifest(w))

-----------------------------------------------------------------------------
(* Properties.                                                             *)

RowsFor(d, r) == {id \in DOMAIN rows : rows[id].device = d /\ rows[id].payload = r}

\* A release is recorded as announced only after every device known when it was
\* published has had a command for it, whatever fails or overlaps; the baseline is not announced.
AnnouncedWasCommanded ==
    announced # 0 /\ announced \notin baselines =>
        \A d \in audience[announced] : RowsFor(d, announced) # {}

\* Failed, overlapping and outdated checks notwithstanding, the latest release is announced in the end.
LatestAnnounced == <>[](release # 0 => announced = release)
=============================================================================
