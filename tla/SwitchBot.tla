----------------------------- MODULE SwitchBot -----------------------------
(* Presence at home (switchbot*.ts). A poll of the scheduler and the webhooks of the
   devices each read the row 'switchbot' of current_state, derive the next state from
   it, turn the plugs off when that state is newly away, and store it, over whatever
   another one has stored meanwhile. One contact sensor, which also sees motion, and
   one plug of SWITCHBOT_CONTROL_PLUG_IDS. Times are ages: an exit is "young" until
   SWITCHBOT_EXIT_CONFIRM_SECONDS have passed, a poll of the devices "recent" until
   SWITCHBOT_FALLBACK_POLL_SECONDS have. *)
EXTENDS Integers, FiniteSets

CONSTANTS
    Webhooks,   \* webhooks handled at a time
    MaxEvents,  \* bound: what happens at home
    MaxFaults   \* bound: failed answers of SwitchBot and ended invocations

SwitchBotAssumption == MaxEvents \in Nat /\ MaxFaults \in Nat /\ "poll" \notin Webhooks

VARIABLES
    home,       \* what the sensors and the plug show
    event,      \* the webhooks on their way
    row,        \* the state in the row
    op,         \* the poll and the webhooks in progress
    events, faults

vars == <<home, event, row, op, events, faults>>

Ops  == {"poll"} \cup Webhooks
Idle == [at |-> "idle"]

DeviceStates == [open : BOOLEAN, motion : BOOLEAN, power : {"on", "off"}]
\* told: history, the plug was known to be off or turned off on the way to this state.
States == [presence : {"home", "away"}, devices : DeviceStates, open : BOOLEAN,
           mode : {"none", "IN_DOOR", "OUT_DOOR"}, candidate : {"none", "young", "ripe"},
           available : BOOLEAN, recent : BOOLEAN, told : BOOLEAN]

\* The webhooks: what the sensor, its button or the plug says.
Modes   == {"IN_DOOR", "OUT_DOOR"}
Plugs   == {"on", "off"}
Reports == {"open", "close", "motion", "still"} \cup Modes \cup Plugs

TypeOK ==
    /\ home \in DeviceStates /\ row \in States /\ event \subseteq Reports
    /\ \A o \in Ops : op[o].at \in {"idle", "ask", "control", "store"}
    /\ \A o \in Ops : op[o].at \in {"control", "store"} => op[o].next \in States
    /\ events \in 0 .. MaxEvents /\ faults \in 0 .. MaxFaults

Quiet == [open |-> FALSE, motion |-> FALSE, power |-> "on"]

\* After a first poll.
Init ==
    /\ home = Quiet
    /\ row = [presence |-> "home", devices |-> Quiet, open |-> FALSE, mode |-> "none",
              candidate |-> "none", available |-> TRUE, recent |-> FALSE, told |-> FALSE]
    /\ event = {}
    /\ op = [o \in Ops |-> Idle]
    /\ events = 0 /\ faults = 0

-----------------------------------------------------------------------------
(* At home. *)

Seen(devices, report) ==
    CASE report \in {"open", "close"}  -> [devices EXCEPT !.open = report = "open"]
      [] report \in {"motion", "still"} -> [devices EXCEPT !.motion = report = "motion"]
      [] report \in Plugs               -> [devices EXCEPT !.power = report]
      [] report \in Modes               -> devices

\* A webhook may come late, after a newer one, or never.
Happens(report) ==
    /\ events < MaxEvents /\ events' = events + 1
    /\ report \in Modes \/ Seen(home, report) # home
    /\ home' = Seen(home, report)
    /\ \/ event' = event \cup {report}
       \/ event' = event
    /\ UNCHANGED <<row, op, faults>>

\* Time passes, for the row and for whoever holds a state.
Older(state) == [state EXCEPT !.candidate = IF @ = "young" THEN "ripe" ELSE @, !.recent = FALSE]

Age ==
    /\ row' = Older(row)
    /\ op' = [o \in Ops |->
                IF op[o].at = "ask" THEN [op[o] EXCEPT !.previous = Older(@)]
                ELSE IF op[o].at \in {"control", "store"} THEN [op[o] EXCEPT !.next = Older(@)]
                ELSE op[o]]
    /\ UNCHANGED <<home, event, events, faults>>

-----------------------------------------------------------------------------
(* switchbot_state.ts. *)

\* The mode of the door, which the sensor's device keeps: a webhook of the sensor that
\* does not bring one repeats it.
Mode(previous, report) == IF report \in Modes THEN report ELSE previous.mode
Event(previous, report) ==
    IF report \in {"none"} \cup Plugs THEN "none" ELSE Mode(previous, report)

\* Somebody is seen, or comes in.
Activity(devices, previous, report) ==
    Event(previous, report) = "IN_DOOR" \/ report = "motion" \/ devices.open \/ devices.motion

Candidate(devices, previous, report, leaving) ==
    IF Activity(devices, previous, report) THEN "none"
    ELSE IF Event(previous, report) = "OUT_DOOR" \/ leaving THEN "young"
    ELSE previous.candidate

State(devices, previous, report, candidate) ==
    [presence  |-> IF Activity(devices, previous, report) THEN "home"
                   ELSE IF candidate = "ripe" THEN "away" ELSE previous.presence,
     devices   |-> devices, open |-> devices.open, mode |-> Mode(previous, report),
     candidate |-> candidate, available |-> TRUE, recent |-> previous.recent, told |-> FALSE]

\* A mistake: every look at a closed door begins the exit anew.
DeriveFromClosedDoor(devices, previous, report) ==
    State(devices, previous, report, Candidate(devices, previous, report, ~devices.open))

\* deriveSwitchBotState. Presence is unknown only before the first poll.
DeriveSwitchBotState(devices, previous, report) ==
    State(devices, previous, report,
          Candidate(devices, previous, report, previous.open /\ ~devices.open))

\* failSafeSwitchBotState: without reliable sensors somebody is at home.
FailSafeSwitchBotState(previous) ==
    [previous EXCEPT !.presence = "home", !.candidate = "none", !.available = FALSE, !.told = FALSE]

\* A mistake: the controls wait for a state that was already away.
ToControlLater(previous, next) ==
    previous.presence = "away" /\ next.presence = "away" /\ next.devices.power # "off"

\* applyAwayControls: the state is newly away, and the plug not known to be off.
ToControl(previous, next) ==
    previous.presence # "away" /\ next.presence = "away" /\ next.devices.power # "off"

\* What follows a derived state: the controls, then the row.
Proceed(previous, next) ==
    IF ToControl(previous, next) THEN [at |-> "control", next |-> next]
    ELSE [at |-> "store",
          next |-> [next EXCEPT !.told = next.presence = "away" /\
                                          (previous.told \/ next.devices.power = "off")]]

-----------------------------------------------------------------------------
(* fetchSwitchBotOptimized. *)

\* The devices were asked a short while ago: the state only grows older.
PollRecent ==
    /\ op["poll"].at = "idle" /\ row.recent
    /\ op' = [op EXCEPT !["poll"] =
                IF row.available THEN Proceed(row, DeriveSwitchBotState(row.devices, row, "none"))
                ELSE [at |-> "store", next |-> FailSafeSwitchBotState(row)]]
    /\ UNCHANGED <<home, event, row, events, faults>>

PollDevices ==
    /\ op["poll"].at = "idle" /\ ~row.recent
    /\ op' = [op EXCEPT !["poll"] = [at |-> "ask", previous |-> row]]
    /\ UNCHANGED <<home, event, row, events, faults>>

\* Every device answers; normalizeDevice takes what it says.
DevicesAnswer ==
    LET previous == op["poll"].previous IN
    /\ op["poll"].at = "ask"
    /\ op' = [op EXCEPT !["poll"] =
                Proceed(previous, [DeriveSwitchBotState(home, previous, "none") EXCEPT !.recent = TRUE])]
    /\ UNCHANGED <<home, event, row, events, faults>>

\* The list of devices fails (the next poll asks again), or a sensor; the plug may answer.
DevicesFail ==
    /\ op["poll"].at = "ask"
    /\ faults < MaxFaults /\ faults' = faults + 1
    /\ LET failed == FailSafeSwitchBotState(op["poll"].previous) IN
       \E next \in {failed, [failed EXCEPT !.recent = TRUE],
                    [failed EXCEPT !.recent = TRUE, !.devices.power = home.power]} :
           op' = [op EXCEPT !["poll"] = [at |-> "store", next |-> next]]
    /\ UNCHANGED <<home, event, row, events>>

-----------------------------------------------------------------------------
\* handleSwitchBotWebhook, up to the first call.
Webhook(w) ==
    /\ op[w].at = "idle"
    /\ \E report \in event :
        /\ event' = event \ {report}
        /\ op' = [op EXCEPT ![w] =
                    Proceed(row, DeriveSwitchBotState(Seen(row.devices, report), row, report))]
    /\ UNCHANGED <<home, row, events, faults>>

\* sendSwitchBotCommand: turnOff.
TurnOff(o) ==
    /\ op[o].at = "control"
    /\ home' = [home EXCEPT !.power = "off"]
    /\ op' = [op EXCEPT ![o] = [at |-> "store", next |-> [@.next EXCEPT !.told = TRUE]]]
    /\ UNCHANGED <<event, row, events, faults>>

\* updateState, whatever the row holds by now.
UpdateState(o) ==
    /\ op[o].at = "store"
    /\ row' = op[o].next
    /\ op' = [op EXCEPT ![o] = Idle]
    /\ UNCHANGED <<home, event, events, faults>>

\* A command or a statement fails, or the invocation ends: a webhook leaves the row as
\* it is. The plug may have been turned off.
Fails(o) ==
    /\ op[o].at \in {"control", "store"}
    /\ faults < MaxFaults /\ faults' = faults + 1
    /\ home' \in {home} \cup (IF op[o].at = "control" THEN {[home EXCEPT !.power = "off"]} ELSE {})
    /\ op' = [op EXCEPT ![o] = Idle]
    /\ UNCHANGED <<event, row, events>>

\* runSelectedJob (scheduler_tick.ts) reads the row again after a poll that failed, and
\* stores the fail-safe state of it.
PollFails ==
    /\ op["poll"].at \in {"control", "store"}
    /\ faults < MaxFaults /\ faults' = faults + 1
    /\ op' = [op EXCEPT !["poll"] = [at |-> "store", next |-> FailSafeSwitchBotState(row)]]
    /\ UNCHANGED <<home, event, row, events>>

Poll == PollRecent \/ PollDevices

Next ==
    \/ \E report \in Reports : Happens(report)
    \/ Age \/ Poll \/ DevicesAnswer \/ DevicesFail \/ PollFails
    \/ \E w \in Webhooks : Webhook(w)
    \/ \E o \in Ops : TurnOff(o) \/ UpdateState(o) \/ Fails(o)

Spec == Init /\ [][Next]_vars

\* What goes on by itself: the scheduler's poll, and what a webhook has begun.
Step(o) ==
    \/ o = "poll" /\ (Poll \/ DevicesAnswer \/ DevicesFail)
    \/ TurnOff(o) \/ UpdateState(o) \/ Fails(o)

\* Time passes; webhooks need not come.
Fairness == WF_vars(Age) /\ \A o \in Ops : WF_vars(Step(o))

FairSpec == Spec /\ Fairness

-----------------------------------------------------------------------------
\* The row never says away before the plug has been seen off or turned off, whatever
\* command fails and whichever older state is stored over a newer one.
AwayIsControlled == row.presence = "away" => row.told

\* An exit the row has noticed ends: in away, or because somebody shows up, or the
\* sensors are no longer reliable; it does not stay a candidate.
ExitSettles == row.candidate # "none" ~> (row.presence = "away" \/ row.candidate = "none")
=============================================================================
