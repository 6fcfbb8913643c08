------------------------- MODULE StationheadHealth -------------------------
(* The monitor of the Stationhead collector (stationhead_health.ts), a job of the
   scheduler. It compares what the collector says of itself with the row of the last
   check, announces a transition by mail and stores the row, in this order; a mail
   that fails is tried again by the checks that follow, under the same key. *)
EXTENDS Integers

CONSTANTS
    MaxSuccess,     \* bound: successful collections
    MaxChecks,      \* bound: checks
    MaxSwitches     \* bound: changes of the configuration of alerts

HealthAssumption == MaxSuccess \in Nat \ {0} /\ MaxChecks \in Nat /\ MaxSwitches \in Nat

VARIABLES
    success,    \* the collector's last success; 0 before the first
    row,        \* the row stationhead_health of current_state
    alerts,     \* RESEND_API_KEY and STATIONHEAD_ALERT_TO are set
    check,      \* the check in progress
    checks, switches,
    announced   \* history: an outage was announced since a healthy row was stored

vars == <<success, row, alerts, check, checks, switches, announced>>

None == 0
NoKey == [kind |-> "none", anchor |-> None]
NoRow == [healthy |-> TRUE, last |-> None, pending |-> "none", key |-> NoKey, alerts |-> FALSE, stored |-> FALSE]

Kinds == {"down", "recovered"}
Idle == [step |-> "idle"]

TypeOK ==
    LET Keys == [kind : Kinds \cup {"none"}, anchor : 0 .. MaxSuccess]
        Rows == [healthy : BOOLEAN, last : 0 .. MaxSuccess, pending : Kinds \cup {"none"},
                 key : Keys, alerts : BOOLEAN, stored : BOOLEAN]
    IN  /\ success \in 0 .. MaxSuccess /\ row \in Rows /\ alerts \in BOOLEAN
        /\ check.step \in {"idle", "send", "store"}
        /\ check.step # "idle" => check.previous \in Rows /\ check.current \in Rows
        /\ checks \in 0 .. MaxChecks /\ switches \in 0 .. MaxSwitches
        /\ announced \in BOOLEAN

Init ==
    /\ success = 0 /\ row = NoRow /\ alerts \in BOOLEAN
    /\ check = Idle /\ checks = 0 /\ switches = 0
    /\ announced = FALSE

-----------------------------------------------------------------------------
Collect ==
    /\ success < MaxSuccess
    /\ success' = success + 1
    /\ UNCHANGED <<row, alerts, check, checks, switches, announced>>

Configure ==
    /\ switches < MaxSwitches /\ switches' = switches + 1
    /\ alerts' = ~alerts
    /\ UNCHANGED <<success, row, check, checks, announced>>

\* evaluateStationheadHealth: without an answer nothing is known of the last success;
\* without a success it cannot be healthy.
Evaluations ==
    {[healthy |-> FALSE, last |-> l] : l \in {None, success}}
        \cup (IF success = 0 THEN {} ELSE {[healthy |-> TRUE, last |-> success]})

\* A mistake: a mail that failed is not remembered once the row says unhealthy.
DownOnce(previous, e, enabled) ==
    ~e.healthy /\ (~previous.stored \/ previous.healthy \/ (enabled /\ ~previous.alerts))

\* A healthy row, none, a mail that failed, or alerts that were not configured then.
Down(previous, e, enabled) ==
    ~e.healthy /\ (~previous.stored \/ previous.healthy \/ previous.pending = "down"
                     \/ (enabled /\ ~previous.alerts))

Recovered(previous, e) ==
    e.healthy /\ previous.stored /\ (~previous.healthy \/ previous.pending = "recovered")

First(a, b) == IF a # None THEN a ELSE b

\* alertTransitionKey: a retry keeps the key of the first attempt.
AlertTransitionKey(e, previous, kind) ==
    IF previous.pending = kind /\ previous.key # NoKey THEN previous.key
    ELSE [kind |-> kind, anchor |-> IF kind = "recovered" THEN First(previous.last, e.last)
                                    ELSE First(e.last, previous.last)]

\* The row is read, then the collector asked.
Check ==
    /\ check.step = "idle" /\ checks < MaxChecks
    /\ checks' = checks + 1
    /\ \E e \in Evaluations :
        LET down == Down(row, e, alerts)
            kind == IF down THEN "down" ELSE "recovered"
            current == [healthy |-> e.healthy, last |-> e.last, pending |-> "none", key |-> NoKey,
                        alerts |-> alerts, stored |-> TRUE]
        IN  check' = IF alerts /\ (down \/ Recovered(row, e))
                     THEN [step |-> "send", previous |-> row,
                           current |-> [current EXCEPT !.key = AlertTransitionKey(e, row, kind)]]
                     ELSE [step |-> "store", previous |-> row, current |-> current]
    /\ UNCHANGED <<success, row, alerts, switches, announced>>

\* The mail is accepted and the answer says so.
Sent ==
    /\ check.step = "send"
    /\ check' = [check EXCEPT !.step = "store", !.current.key = NoKey]
    /\ announced' = (announced \/ check.current.key.kind = "down")
    /\ UNCHANGED <<success, row, alerts, checks, switches>>

\* It is refused, or times out: it may have been accepted.
SendFails ==
    /\ check.step = "send"
    /\ check' = [check EXCEPT !.step = "store", !.current.pending = check.current.key.kind]
    /\ UNCHANGED <<success, row, alerts, checks, switches, announced>>

\* persistHealth.
PersistHealth ==
    /\ check.step = "store"
    /\ row' = check.current
    /\ check' = Idle
    /\ announced' = (announced /\ ~check.current.healthy)
    /\ UNCHANGED <<success, alerts, checks, switches>>

\* The invocation ends, or D1 fails, after the mail or before it.
Crash ==
    /\ check.step # "idle"
    /\ check' = Idle
    /\ UNCHANGED <<success, row, alerts, checks, switches, announced>>

Next == Collect \/ Configure \/ Check \/ Sent \/ SendFails \/ PersistHealth \/ Crash

Spec == Init /\ [][Next]_vars

-----------------------------------------------------------------------------
\* An outage on record was announced since it began, or is marked to be announced by the
\* next check, whatever mails failed, checks died and settings changed meanwhile.
OutageIsAnnounced ==
    check.step = "idle" /\ row.stored /\ ~row.healthy /\ row.alerts =>
        announced \/ row.pending = "down"
=============================================================================
