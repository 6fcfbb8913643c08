----------------------------- MODULE LoopsProofs -----------------------------
(* Proofs about the components MCLoops puts side by side, for any values of their
   constants: presence at home (SwitchBot), a group of collected sources (CollectionRun), the player
   page (Player); what is proved of the delivery (Telemetry) is in TelemetryProofs. *)
EXTENDS MCLoops, TelemetryProofs

-----------------------------------------------------------------------------
(* SwitchBot. Whoever holds a state that says away has seen the plug off, or is about to
   turn it off: the row, the poll that asks the devices from an older row, and the state
   an invocation is about to store. *)

AwayTold(s) == s.presence = "away" => s.told

PresenceStates ==
    [presence : {"home", "away"},
     devices : [open : BOOLEAN, motion : BOOLEAN, power : {"on", "off"}], open : BOOLEAN,
     mode : {"none", "IN_DOOR", "OUT_DOOR"}, candidate : {"none", "young", "ripe"},
     available : BOOLEAN, recent : BOOLEAN, told : BOOLEAN]

PresenceOps ==
    [at : {"idle"}] \cup [at : {"ask"}, previous : PresenceStates]
    \cup [at : {"control"}, next : PresenceStates] \cup [at : {"store"}, next : PresenceStates]

PresenceOpOK(q) ==
    /\ q \in PresenceOps
    /\ q.at = "ask" => AwayTold(q.previous)
    /\ q.at = "store" => AwayTold(q.next)

PresenceInv ==
    /\ home \in Presence!DeviceStates /\ row \in PresenceStates /\ event \subseteq Presence!Reports
    /\ events \in 0 .. MaxEvents /\ losses \in 0 .. MaxLosses
    /\ op = [o \in Presence!Ops |-> op[o]]
    /\ \A o \in Presence!Ops : PresenceOpOK(op[o])
    /\ AwayTold(row)

LEMMA PresenceStatesAre == PresenceStates = Presence!States
  BY DEF PresenceStates, Presence!States, Presence!DeviceStates

\* What happens at home, and the states derived from it.
LEMMA SeenTyped ==
    ASSUME NEW d \in Presence!DeviceStates, NEW r \in Presence!Reports
    PROVE  Presence!Seen(d, r) \in Presence!DeviceStates
  BY DEF Presence!Seen, Presence!DeviceStates, Presence!Reports, Presence!Modes, Presence!Plugs

LEMMA DerivedTyped ==
    ASSUME NEW d \in Presence!DeviceStates, NEW s \in PresenceStates,
           NEW r \in Presence!Reports \cup {"none"}
    PROVE  Presence!DeriveSwitchBotState(d, s, r) \in PresenceStates
<1>1. Presence!Mode(s, r) \in {"none", "IN_DOOR", "OUT_DOOR"}
  BY DEF Presence!Mode, Presence!Modes, PresenceStates
<1>2. \A b \in BOOLEAN : Presence!Candidate(d, s, r, b) \in {"none", "young", "ripe"}
  BY DEF Presence!Candidate, PresenceStates
<1>3. (s.open /\ ~d.open) \in BOOLEAN
  BY DEF PresenceStates
<1>4. \A c \in {"none", "young", "ripe"} : Presence!State(d, s, r, c) \in PresenceStates
  BY <1>1 DEF Presence!State, PresenceStates, Presence!DeviceStates
<1>5. QED
  BY <1>2, <1>3, <1>4 DEF Presence!DeriveSwitchBotState

LEMMA FailSafeTyped ==
    ASSUME NEW s \in PresenceStates
    PROVE  /\ Presence!FailSafeSwitchBotState(s) \in PresenceStates
           /\ Presence!FailSafeSwitchBotState(s).presence = "home"
  BY DEF Presence!FailSafeSwitchBotState, PresenceStates

LEMMA OlderOK ==
    ASSUME NEW s \in PresenceStates
    PROVE  Presence!Older(s) \in PresenceStates /\ (AwayTold(s) => AwayTold(Presence!Older(s)))
  BY DEF Presence!Older, PresenceStates, AwayTold

\* The controls, or a state whose plug is known to be off.
LEMMA ProceedOK ==
    ASSUME NEW s \in PresenceStates, NEW n \in PresenceStates, AwayTold(s)
    PROVE  PresenceOpOK(Presence!Proceed(s, n))
<1>1. CASE Presence!ToControl(s, n)
  BY <1>1 DEF Presence!Proceed, PresenceOpOK, PresenceOps
<1>2. CASE ~Presence!ToControl(s, n)
  <2> DEFINE t == [n EXCEPT !.told = n.presence = "away" /\ (s.told \/ n.devices.power = "off")]
  <2>1. t \in PresenceStates /\ t.presence = n.presence
        /\ t.told = (n.presence = "away" /\ (s.told \/ n.devices.power = "off"))
    BY DEF PresenceStates
  <2>2. s.presence = "away" => s.told
    BY DEF AwayTold
  <2>3. AwayTold(t)
    BY <1>2, <2>1, <2>2 DEF AwayTold, Presence!ToControl
  <2>4. Presence!Proceed(s, n) = [at |-> "store", next |-> t]
    BY <1>2 DEF Presence!Proceed
  <2>5. [at |-> "store", next |-> t] \in PresenceOps
    BY <2>1 DEF PresenceOps
  <2>6. QED
    BY <2>3, <2>4, <2>5 DEF PresenceOpOK
<1>3. QED
  BY <1>1, <1>2

LEMMA PresenceInitOK == Presence!Init => PresenceInv
<1> SUFFICES ASSUME Presence!Init PROVE PresenceInv
  OBVIOUS
<1>1. op = [o \in Presence!Ops |-> [at |-> "idle"]]
  BY DEF Presence!Init, Presence!Idle
<1>2. \A o \in Presence!Ops : op[o] = [at |-> "idle"]
  BY <1>1
<1>3. op = [o \in Presence!Ops |-> op[o]]
  BY <1>1, <1>2
<1>4. \A o \in Presence!Ops : PresenceOpOK(op[o])
  BY <1>2 DEF PresenceOpOK, PresenceOps
<1>5. row \in PresenceStates /\ AwayTold(row) /\ home \in Presence!DeviceStates
  BY DEF Presence!Init, Presence!Quiet, Presence!DeviceStates, PresenceStates, AwayTold
<1>6. events \in 0 .. MaxEvents /\ losses \in 0 .. MaxLosses /\ event = {}
  BY PresenceAssumption DEF Presence!Init, Presence!SwitchBotAssumption
<1>7. QED
  BY <1>3, <1>4, <1>5, <1>6 DEF PresenceInv

\* One invocation moves on, the row may change, and nothing else the invariant speaks of.
LEMMA PresenceMoves ==
    ASSUME PresenceInv, NEW o \in Presence!Ops, NEW q, PresenceOpOK(q),
           op' = [op EXCEPT ![o] = q],
           home' \in Presence!DeviceStates, event' \subseteq Presence!Reports,
           events' \in 0 .. MaxEvents, losses' \in 0 .. MaxLosses,
           row' \in PresenceStates, AwayTold(row')
    PROVE  PresenceInv'
<1>1. op' = [x \in Presence!Ops |-> op'[x]]
  BY DEF PresenceInv
<1>2. \A x \in Presence!Ops : op'[x] = IF x = o THEN q ELSE op[x]
  BY DEF PresenceInv
<1>3. \A x \in Presence!Ops : PresenceOpOK(op'[x])
  BY <1>2 DEF PresenceInv
<1>4. QED
  BY <1>1, <1>3 DEF PresenceInv, AwayTold

LEMMA PresenceNextOK == PresenceInv /\ [Presence!Next]_presenceVars => PresenceInv'
<1> SUFFICES ASSUME PresenceInv, [Presence!Next]_presenceVars PROVE PresenceInv'
  OBVIOUS
<1> USE PresenceAssumption DEF Presence!SwitchBotAssumption
<1>1. "poll" \in Presence!Ops /\ \A w \in Webhooks : w \in Presence!Ops
  BY DEF Presence!Ops
<1>2. PresenceOpOK(Presence!Idle)
  BY DEF PresenceOpOK, PresenceOps, Presence!Idle
<1>3. ASSUME NEW r \in Presence!Reports, Presence!Happens(r) PROVE PresenceInv'
  <2>1. home' \in Presence!DeviceStates /\ event' \subseteq Presence!Reports
    BY <1>3, SeenTyped DEF PresenceInv, Presence!Happens
  <2>2. events' \in 0 .. MaxEvents
    BY <1>3 DEF PresenceInv, Presence!Happens
  <2>3. QED
    BY <1>3, <2>1, <2>2 DEF PresenceInv, Presence!Happens, AwayTold
<1>4. CASE Presence!Age
  <2>1. row' \in PresenceStates /\ AwayTold(row')
    BY <1>4, OlderOK DEF PresenceInv, Presence!Age
  <2>2. ASSUME NEW o \in Presence!Ops PROVE PresenceOpOK(op'[o])
    <3>1. CASE op[o].at = "ask"
      <4>1. op'[o] = [op[o] EXCEPT !.previous = Presence!Older(op[o].previous)]
        BY <1>4, <3>1 DEF Presence!Age
      <4>2. /\ op[o] \in [at : {"ask"}, previous : PresenceStates]
            /\ AwayTold(op[o].previous) /\ op[o].previous \in PresenceStates
        BY <3>1 DEF PresenceInv, PresenceOpOK, PresenceOps
      <4>3. /\ op'[o] \in [at : {"ask"}, previous : PresenceStates]
            /\ op'[o].previous = Presence!Older(op[o].previous)
        BY <4>1, <4>2, OlderOK
      <4>4. QED
        BY <4>2, <4>3, OlderOK DEF PresenceOpOK, PresenceOps
    <3>2. CASE op[o].at \in {"control", "store"}
      <4>1. op'[o] = [op[o] EXCEPT !.next = Presence!Older(op[o].next)]
        BY <1>4, <3>2 DEF Presence!Age
      <4>2. /\ op[o] \in [at : {op[o].at}, next : PresenceStates] /\ op[o].next \in PresenceStates
            /\ op[o].at = "store" => AwayTold(op[o].next)
        BY <3>2 DEF PresenceInv, PresenceOpOK, PresenceOps
      <4>3. /\ op'[o] \in [at : {op[o].at}, next : PresenceStates] /\ op'[o].at = op[o].at
            /\ op'[o].next = Presence!Older(op[o].next)
        BY <4>1, <4>2, OlderOK
      <4>4. QED
        BY <3>2, <4>2, <4>3, OlderOK DEF PresenceOpOK, PresenceOps
    <3>3. CASE op[o].at \notin {"ask", "control", "store"}
      BY <1>4, <3>3 DEF PresenceInv, Presence!Age
    <3>4. QED
      BY <3>1, <3>2, <3>3
  <2>3. op' = [o \in Presence!Ops |-> op'[o]]
    BY <1>4 DEF Presence!Age
  <2>4. QED
    BY <1>4, <2>1, <2>2, <2>3 DEF PresenceInv, Presence!Age, AwayTold
<1>5. CASE Presence!PollRecent
  <2>1. CASE row.available
    <3>1. Presence!DeriveSwitchBotState(row.devices, row, "none") \in PresenceStates
      BY DerivedTyped DEF PresenceInv, PresenceStates, Presence!DeviceStates
    <3>2. QED
      BY <1>1, <1>5, <2>1, <3>1, ProceedOK, PresenceMoves DEF PresenceInv, Presence!PollRecent
  <2>2. CASE ~row.available
    <3>1. PresenceOpOK([at |-> "store", next |-> Presence!FailSafeSwitchBotState(row)])
      BY FailSafeTyped DEF PresenceInv, PresenceOpOK, PresenceOps, AwayTold
    <3>2. QED
      BY <1>1, <1>5, <2>2, <3>1, PresenceMoves DEF PresenceInv, Presence!PollRecent
  <2>3. QED
    BY <2>1, <2>2
<1>6. CASE Presence!PollDevices
  <2>1. PresenceOpOK([at |-> "ask", previous |-> row])
    BY DEF PresenceInv, PresenceOpOK, PresenceOps
  <2>2. QED
    BY <1>1, <1>6, <2>1, PresenceMoves DEF PresenceInv, Presence!PollDevices
<1>7. CASE Presence!DevicesAnswer
  <2> DEFINE previous == op["poll"].previous
             derived  == Presence!DeriveSwitchBotState(home, previous, "none")
  <2>1. previous \in PresenceStates /\ AwayTold(previous)
    BY <1>1, <1>7 DEF PresenceInv, PresenceOpOK, PresenceOps, Presence!DevicesAnswer
  <2>2. derived \in PresenceStates
    BY <2>1, DerivedTyped DEF PresenceInv
  <2>3. [derived EXCEPT !.recent = TRUE] \in PresenceStates
    BY <2>2 DEF PresenceStates
  <2>4. PresenceOpOK(Presence!Proceed(previous, [derived EXCEPT !.recent = TRUE]))
    BY <2>1, <2>3, ProceedOK
  <2>5. QED
    BY <1>1, <1>7, <2>4, PresenceMoves DEF PresenceInv, Presence!DevicesAnswer
<1>8. CASE Presence!DevicesFail
  <2> DEFINE failed == Presence!FailSafeSwitchBotState(op["poll"].previous)
  <2>1. failed \in PresenceStates /\ failed.presence = "home"
    BY <1>1, <1>8, FailSafeTyped DEF PresenceInv, PresenceOpOK, PresenceOps, Presence!DevicesFail
  <2>2. PICK n \in {failed, [failed EXCEPT !.recent = TRUE],
                     [failed EXCEPT !.recent = TRUE, !.devices.power = home.power]} :
          op' = [op EXCEPT !["poll"] = [at |-> "store", next |-> n]]
    BY <1>8 DEF Presence!DevicesFail
  <2>3. n \in PresenceStates /\ n.presence = "home"
    <3>1. home.power \in {"on", "off"}
      BY DEF PresenceInv, Presence!DeviceStates
    <3>2. [failed EXCEPT !.recent = TRUE] \in PresenceStates
          /\ [failed EXCEPT !.recent = TRUE].presence = "home"
      BY <2>1 DEF PresenceStates
    <3>3. [failed EXCEPT !.recent = TRUE, !.devices.power = home.power] \in PresenceStates
          /\ [failed EXCEPT !.recent = TRUE, !.devices.power = home.power].presence = "home"
      BY <2>1, <3>1 DEF PresenceStates
    <3>4. QED
      BY <2>1, <3>2, <3>3
  <2>4. PresenceOpOK([at |-> "store", next |-> n])
    BY <2>3 DEF PresenceOpOK, PresenceOps, AwayTold
  <2>5. QED
    BY <1>1, <1>8, <2>2, <2>4, PresenceMoves DEF PresenceInv, Presence!DevicesFail
<1>9. CASE Presence!PollFails
  <2>1. PresenceOpOK([at |-> "store", next |-> Presence!FailSafeSwitchBotState(row)])
    BY FailSafeTyped DEF PresenceInv, PresenceOpOK, PresenceOps, AwayTold
  <2>2. QED
    BY <1>1, <1>9, <2>1, PresenceMoves DEF PresenceInv, Presence!PollFails
<1>10. ASSUME NEW w \in Webhooks, Presence!Webhook(w) PROVE PresenceInv'
  <2>1. PICK r \in event :
          /\ event' = event \ {r}
          /\ op' = [op EXCEPT ![w] = Presence!Proceed(row,
                      Presence!DeriveSwitchBotState(Presence!Seen(row.devices, r), row, r))]
    BY <1>10 DEF Presence!Webhook
  <2>2. r \in Presence!Reports /\ row.devices \in Presence!DeviceStates
    BY DEF PresenceInv, PresenceStates, Presence!DeviceStates
  <2>3. Presence!Seen(row.devices, r) \in Presence!DeviceStates
    BY <2>2, SeenTyped
  <2>4. Presence!DeriveSwitchBotState(Presence!Seen(row.devices, r), row, r) \in PresenceStates
    BY <2>2, <2>3, DerivedTyped DEF PresenceInv
  <2>5. PresenceOpOK(Presence!Proceed(row,
                      Presence!DeriveSwitchBotState(Presence!Seen(row.devices, r), row, r)))
    BY <2>4, ProceedOK DEF PresenceInv
  <2>6. QED
    BY <1>1, <1>10, <2>1, <2>5, PresenceMoves DEF PresenceInv, Presence!Webhook
<1>11. ASSUME NEW o \in Presence!Ops, Presence!TurnOff(o) PROVE PresenceInv'
  <2> DEFINE n == [op[o].next EXCEPT !.told = TRUE]
  <2>1. op[o].next \in PresenceStates
    BY <1>11 DEF PresenceInv, PresenceOpOK, PresenceOps, Presence!TurnOff
  <2>2. n \in PresenceStates /\ n.told
    BY <2>1 DEF PresenceStates
  <2>3. PresenceOpOK([at |-> "store", next |-> n])
    BY <2>2 DEF PresenceOpOK, PresenceOps, AwayTold
  <2>4. op' = [op EXCEPT ![o] = [at |-> "store", next |-> n]]
    BY <1>11 DEF Presence!TurnOff
  <2>5. home' \in Presence!DeviceStates
    BY <1>11 DEF PresenceInv, Presence!TurnOff, Presence!DeviceStates
  <2>6. QED
    BY <1>11, <2>3, <2>4, <2>5, PresenceMoves DEF PresenceInv, Presence!TurnOff
<1>12. ASSUME NEW o \in Presence!Ops, Presence!UpdateState(o) PROVE PresenceInv'
  <2>1. op[o].next \in PresenceStates /\ AwayTold(op[o].next)
    BY <1>12 DEF PresenceInv, PresenceOpOK, PresenceOps, Presence!UpdateState
  <2>2. QED
    BY <1>2, <1>12, <2>1, PresenceMoves DEF PresenceInv, Presence!UpdateState
<1>13. ASSUME NEW o \in Presence!Ops, Presence!Fails(o) PROVE PresenceInv'
  <2>1. home' \in Presence!DeviceStates
    BY <1>13 DEF PresenceInv, Presence!Fails, Presence!DeviceStates
  <2>2. QED
    BY <1>2, <1>13, <2>1, PresenceMoves DEF PresenceInv, Presence!Fails
<1>14. CASE UNCHANGED presenceVars
  BY <1>14 DEF PresenceInv, AwayTold, presenceVars
<1>15. QED
  BY <1>3, <1>4, <1>5, <1>6, <1>7, <1>8, <1>9, <1>10, <1>11, <1>12, <1>13, <1>14
     DEF Presence!Next, Presence!Poll

-----------------------------------------------------------------------------
(* CollectionRun. What is known of a source whose runner is r, whose task is t, whose
   signal is aborted (a), whose abort is marked (m), whose row is w, a write of which was
   lost (l), and whose row carries the failure of the finalisation (f). *)

Rewriting == {"closed", "excluded", "reclose", "reexclude"}

OutcomeOK(r, t, a, m, w, l, f) ==
    /\ m => a
    /\ r = "none" => t.at = "none" /\ ~a
    /\ r = "racing" => t.at # "none" /\ ~a
    /\ r = "recording" => t.at # "none" /\ (a \/ t.at = "unmarked")
    /\ r = "ok" => t.at = "done"
    /\ r = "failed" => a \/ t.at \in {"none", "marked", "unmarked"}
    /\ f => r = "ok"
    /\ t.at = "done" => /\ r \in {"racing", "ok"} /\ ~a
                        /\ w.state = "closed" /\ (w.error <=> f)
    /\ t.at \in Rewriting => w.state = "closed"
    /\ t.at \in {"closed", "excluded"} /\ w.error => a
    /\ t.at \in {"reclose", "reexclude"} => a
    /\ t.at = "fail" /\ t.error = "abort" => a
    /\ ~l /\ t.at \notin Rewriting \cup {"none"} /\ (t.at = "marked" \/ m \/ r = "failed") =>
           w.state = "closed" /\ w.error

\* ... and of what it credits itself with, when sn was seen and st is stored.
CreditOK(t, w, sn, st) ==
    /\ t.at \in {"save", "saved"} => t.items \subseteq t.todo \cup sn
    /\ t.at = "saved" => t.todo \subseteq st
    /\ t.at \in {"close", "exclude"} => t.items \subseteq st
    /\ w.state = "closed" /\ ~w.error => w.found \subseteq st

TaskPlaces == {"none", "collect", "capture", "filter", "empty", "exclude", "save", "saved",
               "close", "closed", "excluded", "reclose", "reexclude", "fail", "done", "marked",
               "unmarked"}
Tasks == [at : TaskPlaces, items : SUBSET Items, todo : SUBSET Items,
          error : {"none", "abort", "other"}]
Rows  == [state : {"none", "open", "closed"}, error : BOOLEAN, found : SUBSET Items]

CollectionTypeOK ==
    /\ group \in {"running", "finalizing", "ended", "lost"}
    /\ cur \in Sources /\ parent \in BOOLEAN
    /\ runner \in [Sources -> {"none", "racing", "recording", "ok", "failed"}]
    /\ task \in [Sources -> Tasks] /\ rec \in [Sources -> Rows]
    /\ aborted \in [Sources -> BOOLEAN] /\ marked \in [Sources -> BOOLEAN]
    /\ lost \in [Sources -> BOOLEAN]
    /\ seen \subseteq Items /\ stored \subseteq Items
    /\ finalError \subseteq Sources /\ faults \in 0 .. MaxFaults

LEMMA CollectionTypes == CollectionTypeOK <=> Collecting!TypeOK
  BY DEF Collecting!TypeOK, CollectionTypeOK, Tasks, TaskPlaces, Rows

CollectionInv ==
    /\ CollectionTypeOK
    /\ group = "finalizing" => Collecting!Succeeded # {}
    /\ group \in {"running", "finalizing"} => finalError = {}
    /\ seen \subseteq stored
    /\ \A s \in Sources :
          /\ OutcomeOK(runner[s], task[s], aborted[s], marked[s], rec[s], lost[s], s \in finalError)
          /\ CreditOK(task[s], rec[s], seen, stored)

LEMMA SourcesAre ==
    /\ IsFiniteSet(Sources) /\ Sources # {}
    /\ Cardinality(Sources) \in Nat /\ Sources = 1 .. Cardinality(Sources)
    /\ Collecting!Cardinality(Sources) = Cardinality(Sources)
<1>1. Collecting!Cardinality(Sources) = Cardinality(Sources)
  BY DEF Collecting!Cardinality, Cardinality
<1>2. Collecting!IsFiniteSet(Sources) <=> IsFiniteSet(Sources)
  BY DEF Collecting!IsFiniteSet, IsFiniteSet
<1>3. IsFiniteSet(Sources) /\ Sources # {}
  BY <1>2, CollectionAssumption DEF Collecting!CollectionAssumption
<1>4. Sources = 1 .. Cardinality(Sources)
  BY <1>1, CollectionAssumption, Zenon DEF Collecting!CollectionAssumption
<1>5. QED
  BY <1>1, <1>3, <1>4, FS_CardinalityType

LEMMA CollectionInitOK == Collecting!Init => CollectionInv
<1> SUFFICES ASSUME Collecting!Init PROVE CollectionInv
  OBVIOUS
<1>1. \A s \in Sources :
        /\ runner[s] = "none" /\ task[s] = Collecting!NoTask /\ aborted[s] = FALSE
        /\ marked[s] = FALSE /\ rec[s] = Collecting!NoRow /\ lost[s] = FALSE
  BY DEF Collecting!Init
<1>2. Collecting!NoTask \in Tasks /\ Collecting!NoRow \in Rows
  BY DEF Collecting!NoTask, Collecting!NoRow, Tasks, TaskPlaces, Rows
<1>3. 1 \in Sources
  <2>1. Cardinality(Sources) # 0
    BY SourcesAre, FS_EmptySet
  <2>2. 1 \in 1 .. Cardinality(Sources)
    BY <2>1, SourcesAre
  <2>3. QED
    BY <2>2, SourcesAre, Zenon
<1>4. CollectionTypeOK
  <2>1. MaxFaults \in Nat
    BY CollectionAssumption DEF Collecting!CollectionAssumption
  <2>2. /\ group = "running" /\ cur = 1 /\ parent = FALSE
        /\ seen = {} /\ stored = {} /\ finalError = {} /\ faults = 0
    BY DEF Collecting!Init
  <2>3. /\ runner \in [Sources -> {"none", "racing", "recording", "ok", "failed"}]
        /\ aborted \in [Sources -> BOOLEAN] /\ marked \in [Sources -> BOOLEAN]
        /\ lost \in [Sources -> BOOLEAN]
    BY DEF Collecting!Init
  <2>4. task \in [Sources -> Tasks] /\ rec \in [Sources -> Rows]
    BY <1>2 DEF Collecting!Init
  <2>5. cur \in Sources
    BY <1>3, <2>2
  <2>6. faults \in 0 .. MaxFaults
    BY <2>1, <2>2
  <2>7. QED
    BY <2>2, <2>3, <2>4, <2>5, <2>6 DEF CollectionTypeOK
<1>5. QED
  BY <1>1, <1>4 DEF CollectionInv, Collecting!Init, OutcomeOK, CreditOK, Collecting!NoTask,
     Collecting!NoRow, Rewriting

\* One source changes; the sets of keys may grow.
LEMMA SourceMoves ==
    ASSUME CollectionInv, NEW s \in Sources, CollectionTypeOK',
           \A x \in Sources \ {s} :
              /\ runner'[x] = runner[x] /\ task'[x] = task[x] /\ aborted'[x] = aborted[x]
              /\ marked'[x] = marked[x] /\ rec'[x] = rec[x] /\ lost'[x] = lost[x],
           group' = group, finalError' = finalError,
           seen \subseteq seen', stored \subseteq stored', seen' \subseteq stored',
           runner[s] = "ok" => runner'[s] = "ok",
           OutcomeOK(runner'[s], task'[s], aborted'[s], marked'[s], rec'[s], lost'[s],
                     s \in finalError),
           CreditOK(task'[s], rec'[s], seen', stored')
    PROVE  CollectionInv'
<1>1. ASSUME NEW x \in Sources
      PROVE  /\ OutcomeOK(runner'[x], task'[x], aborted'[x], marked'[x], rec'[x], lost'[x],
                          x \in finalError')
             /\ CreditOK(task'[x], rec'[x], seen', stored')
  <2>1. CASE x = s
    BY <2>1
  <2>2. CASE x # s
    <3>1. CreditOK(task[x], rec[x], seen, stored)
      BY DEF CollectionInv
    <3>2. CreditOK(task[x], rec[x], seen', stored')
      BY <3>1 DEF CreditOK
    <3>3. QED
      BY <2>2, <3>2 DEF CollectionInv
  <2>3. QED
    BY <2>1, <2>2
<1>2. group' = "finalizing" => Collecting!Succeeded' # {}
  BY DEF CollectionInv, Collecting!Succeeded
<1>3. QED
  BY <1>1, <1>2 DEF CollectionInv

\* What a step of a task or its runner may do to the types.
LEMMA GoesTyped ==
    ASSUME CollectionTypeOK, NEW s \in Sources, NEW p \in TaskPlaces, Collecting!Goes(s, p)
    PROVE  /\ task' \in [Sources -> Tasks]
           /\ \A x \in Sources \ {s} : task'[x] = task[x]
           /\ task'[s].at = p /\ task'[s].items = task[s].items /\ task'[s].todo = task[s].todo
           /\ task'[s].error = task[s].error
<1>1. task \in [Sources -> Tasks] /\ task' = [task EXCEPT ![s] = [task[s] EXCEPT !.at = p]]
  BY DEF CollectionTypeOK, Collecting!Goes
<1>2. [task[s] EXCEPT !.at = p] \in Tasks
  BY <1>1 DEF Tasks
<1>3. QED
  BY <1>1, <1>2 DEF Tasks

LEMMA CaughtTyped ==
    ASSUME CollectionTypeOK, NEW s \in Sources, NEW e \in {"abort", "other"},
           Collecting!Caught(s, e)
    PROVE  /\ task' \in [Sources -> Tasks]
           /\ \A x \in Sources \ {s} : task'[x] = task[x]
           /\ \/ task'[s].at = "marked" /\ e = "abort" /\ marked[s]
              \/ task'[s].at = "fail" /\ task'[s].error = e
<1>1. CASE e = "abort" /\ marked[s]
  BY <1>1, GoesTyped DEF Collecting!Caught, Collecting!Ends, TaskPlaces
<1>2. CASE ~(e = "abort" /\ marked[s])
  <2>1. /\ task \in [Sources -> Tasks]
        /\ task' = [task EXCEPT ![s] = [task[s] EXCEPT !.at = "fail", !.error = e]]
    BY <1>2 DEF CollectionTypeOK, Collecting!Caught
  <2>2. [task[s] EXCEPT !.at = "fail", !.error = e] \in Tasks
    BY <2>1 DEF Tasks, TaskPlaces
  <2>3. QED
    BY <2>1, <2>2 DEF Tasks
<1>3. QED
  BY <1>1, <1>2

LEMMA ClosedTyped ==
    ASSUME CollectionTypeOK, NEW s \in Sources, NEW e \in BOOLEAN, NEW f \in SUBSET Items,
           Collecting!Closed(s, e, f)
    PROVE  /\ rec' \in [Sources -> Rows]
           /\ \A x \in Sources \ {s} : rec'[x] = rec[x]
           /\ rec'[s].state = "closed" /\ rec'[s].error = e /\ rec'[s].found = f
<1>1. rec \in [Sources -> Rows] /\ [state |-> "closed", error |-> e, found |-> f] \in Rows
  BY DEF CollectionTypeOK, Rows
<1>2. QED
  BY <1>1 DEF Collecting!Closed

LEMMA ErroredTyped ==
    ASSUME CollectionTypeOK, NEW s \in Sources, Collecting!Errored(s)
    PROVE  /\ rec' \in [Sources -> Rows]
           /\ \A x \in Sources \ {s} : rec'[x] = rec[x]
           /\ rec'[s].state = rec[s].state /\ rec'[s].error = TRUE
           /\ rec'[s].found = rec[s].found
<1> DEFINE w == [rec[s] EXCEPT !.error = TRUE]
<1>1. rec \in [Sources -> Rows] /\ rec' = [rec EXCEPT ![s] = w]
  BY Zenon DEF CollectionTypeOK, Collecting!Errored
<1>2. w \in Rows /\ w.state = rec[s].state /\ w.error = TRUE /\ w.found = rec[s].found
  BY <1>1 DEF Rows
<1> HIDE DEF w
<1>3. QED
  BY <1>1, <1>2

LEMMA FaultTyped ==
    ASSUME CollectionTypeOK, NEW b \in BOOLEAN, Collecting!Fault(b)
    PROVE  faults' \in 0 .. MaxFaults
<1>1. faults \in 0 .. MaxFaults /\ MaxFaults \in Nat
  BY CollectionAssumption DEF CollectionTypeOK, Collecting!CollectionAssumption
<1>2. QED
  BY <1>1 DEF Collecting!Fault

\* The task goes on to another place, and of its source only the task changes.
LEMMA TaskGoes ==
    ASSUME CollectionInv, NEW s \in Sources, NEW p \in TaskPlaces, Collecting!Goes(s, p),
           UNCHANGED <<group, cur, parent, runner, aborted, marked, rec, lost, finalError, stored>>,
           faults' \in 0 .. MaxFaults, seen \subseteq seen', seen' \subseteq stored,
           OutcomeOK(runner[s], task'[s], aborted[s], marked[s], rec[s], lost[s],
                     s \in finalError),
           CreditOK(task'[s], rec[s], seen', stored)
    PROVE  CollectionInv'
<1>1. CollectionTypeOK
  BY DEF CollectionInv
<1>2. task' \in [Sources -> Tasks] /\ \A x \in Sources \ {s} : task'[x] = task[x]
  BY <1>1, GoesTyped
<1>3. CollectionTypeOK'
  BY <1>1, <1>2 DEF CollectionTypeOK
<1>4. QED
  BY <1>1, <1>2, <1>3, SourceMoves

LEMMA CollectStepsOK ==
    ASSUME CollectionInv, NEW s \in Sources, NEW fails \in BOOLEAN,
           \/ \E found \in SUBSET Items : Collecting!CollectReturns(s, found, fails)
           \/ Collecting!FilterReturns(s, fails)
           \/ Collecting!PersistCollectionCapture(s)
    PROVE  CollectionInv'
<1>1. /\ CollectionTypeOK /\ seen \subseteq stored
      /\ OutcomeOK(runner[s], task[s], aborted[s], marked[s], rec[s], lost[s], s \in finalError)
      /\ CreditOK(task[s], rec[s], seen, stored)
      /\ task[s].at \in {"collect", "capture", "filter"}
      /\ UNCHANGED <<group, cur, parent, runner, aborted, marked, rec, seen, stored, lost,
                     finalError>>
  BY DEF CollectionInv, Collecting!CollectReturns, Collecting!FilterReturns,
     Collecting!PersistCollectionCapture, Collecting!At, Collecting!rows
<1>2. faults' \in 0 .. MaxFaults
  BY <1>1, FaultTyped DEF CollectionTypeOK, Collecting!CollectReturns,
     Collecting!FilterReturns, Collecting!PersistCollectionCapture
<1>3. task \in [Sources -> Tasks] /\ seen \subseteq Items
  BY <1>1 DEF CollectionTypeOK
<1>4. /\ task' \in [Sources -> Tasks]
      /\ \A x \in Sources \ {s} : task'[x] = task[x]
      /\ task'[s].at \in {"capture", "filter", "unmarked", "empty", "exclude", "close", "save"}
      /\ task'[s].at = "save" => task'[s].items \subseteq task'[s].todo \cup seen
      /\ task'[s].at \in {"close", "exclude"} => task'[s].items \subseteq seen
  <2>1. ASSUME NEW found \in SUBSET Items, Collecting!CollectReturns(s, found, fails)
        PROVE  <1>4!1 /\ <1>4!2 /\ task'[s].at \in {"capture", "unmarked"}
    <3>1. CASE fails \/ aborted[s]
      BY <1>1, <2>1, <3>1, GoesTyped DEF Collecting!CollectReturns, Collecting!Ends, TaskPlaces
    <3>2. CASE ~(fails \/ aborted[s])
      <4>1. task' = [task EXCEPT ![s] = [task[s] EXCEPT !.at = "capture", !.items = found]]
        BY <2>1, <3>2 DEF Collecting!CollectReturns
      <4>2. [task[s] EXCEPT !.at = "capture", !.items = found] \in Tasks
        BY <1>3 DEF Tasks, TaskPlaces
      <4>3. QED
        BY <1>3, <4>1, <4>2 DEF Tasks
    <3>3. QED
      BY <3>1, <3>2
  <2>2. ASSUME Collecting!PersistCollectionCapture(s)
        PROVE  <1>4!1 /\ <1>4!2 /\ task'[s].at \in {"filter", "unmarked"}
    BY <1>1, <2>2, GoesTyped DEF Collecting!PersistCollectionCapture, Collecting!Ends, TaskPlaces
  <2>3. ASSUME Collecting!FilterReturns(s, fails)
        PROVE  <1>4
    <3>1. CASE fails \/ aborted[s]
      BY <1>1, <2>3, <3>1, GoesTyped DEF Collecting!FilterReturns, Collecting!Ends, TaskPlaces
    <3>2. CASE ~(fails \/ aborted[s])
      <4> DEFINE found    == task[s].items
                 eligible == found \ (Excluded \ seen)
                 todo     == eligible \ seen
                 place    == CASE found = {} -> "empty"
                               [] found # {} /\ eligible = {} -> "exclude"
                               [] todo = {} /\ eligible # {} -> "close"
                               [] OTHER -> "save"
      <4>1. task' = [task EXCEPT ![s] = [task[s] EXCEPT !.at = place, !.items = eligible,
                                                        !.todo = todo]]
        BY <2>3, <3>2 DEF Collecting!FilterReturns
      <4>2. place \in {"empty", "exclude", "close", "save"}
        OBVIOUS
      <4>3. place = "exclude" => eligible = {}
        OBVIOUS
      <4>4. place = "close" => todo = {}
        OBVIOUS
      <4>5. found \in SUBSET Items
        BY <1>3 DEF Tasks
      <4>6. eligible \in SUBSET Items /\ todo \in SUBSET Items /\ eligible \subseteq todo \cup seen
        BY <4>5
      <4> HIDE DEF place, eligible, todo
      <4>7. [task[s] EXCEPT !.at = place, !.items = eligible, !.todo = todo] \in Tasks
        BY <1>3, <4>2, <4>6 DEF Tasks, TaskPlaces
      <4>8. /\ task' \in [Sources -> Tasks]
            /\ \A x \in Sources \ {s} : task'[x] = task[x]
            /\ task'[s].at = place /\ task'[s].items = eligible /\ task'[s].todo = todo
        BY <1>3, <4>1, <4>7 DEF Tasks
      <4>9. QED
        BY <4>2, <4>3, <4>4, <4>6, <4>8
    <3>3. QED
      BY <3>1, <3>2
  <2>4. QED
    BY <2>1, <2>2, <2>3
<1>5. CollectionTypeOK'
  BY <1>1, <1>2, <1>4 DEF CollectionTypeOK
<1>6. OutcomeOK(runner'[s], task'[s], aborted'[s], marked'[s], rec'[s], lost'[s], s \in finalError)
  BY <1>1, <1>4 DEF OutcomeOK, Rewriting
<1>7. CreditOK(task'[s], rec'[s], seen', stored')
  BY <1>1, <1>4 DEF CreditOK
<1>8. QED
  BY <1>1, <1>4, <1>5, <1>6, <1>7, SourceMoves

LEMMA SaveStepsOK ==
    ASSUME CollectionInv, NEW s \in Sources, NEW fails \in BOOLEAN,
           Collecting!SaveLands(s, fails) \/ Collecting!SaveReturns(s)
    PROVE  CollectionInv'
<1>1. /\ CollectionTypeOK /\ seen \subseteq stored
      /\ OutcomeOK(runner[s], task[s], aborted[s], marked[s], rec[s], lost[s], s \in finalError)
      /\ CreditOK(task[s], rec[s], seen, stored)
      /\ task[s].at \in {"save", "saved"}
      /\ UNCHANGED <<group, cur, parent, runner, aborted, marked, rec, lost, finalError>>
  BY DEF CollectionInv, Collecting!SaveLands, Collecting!SaveReturns, Collecting!At
<1>2. /\ task \in [Sources -> Tasks] /\ seen \subseteq Items /\ stored \subseteq Items
      /\ task[s].todo \subseteq Items
  BY <1>1 DEF CollectionTypeOK, Tasks
<1>3. CASE Collecting!SaveLands(s, fails)
  <2>1. faults' \in 0 .. MaxFaults /\ seen' = seen
    BY <1>1, <1>3, FaultTyped DEF Collecting!SaveLands
  <2>2. /\ stored \subseteq stored' /\ stored' \subseteq Items
        /\ fails \/ task[s].todo \subseteq stored'
    BY <1>2, <1>3 DEF Collecting!SaveLands
  <2>3. /\ task' \in [Sources -> Tasks]
        /\ \A x \in Sources \ {s} : task'[x] = task[x]
        /\ \/ task'[s].at = "fail" /\ task'[s].error = "other"
           \/ /\ ~fails /\ task'[s].at = "saved" /\ task'[s].items = task[s].items
              /\ task'[s].todo = task[s].todo
    <3>1. CASE fails
      BY <1>1, <1>3, <3>1, CaughtTyped DEF Collecting!SaveLands
    <3>2. CASE ~fails
      BY <1>1, <1>3, <3>2, GoesTyped DEF Collecting!SaveLands, TaskPlaces
    <3>3. QED
      BY <3>1, <3>2
  <2>4. CollectionTypeOK'
    BY <1>1, <2>1, <2>2, <2>3 DEF CollectionTypeOK
  <2>5. OutcomeOK(runner'[s], task'[s], aborted'[s], marked'[s], rec'[s], lost'[s],
                  s \in finalError)
    BY <1>1, <1>3, <2>3 DEF OutcomeOK, Rewriting, Collecting!SaveLands, Collecting!At
  <2>6. CreditOK(task'[s], rec'[s], seen', stored')
    <3>1. task'[s].at = "saved" => /\ task'[s].items \subseteq task'[s].todo \cup seen'
                                   /\ task'[s].todo \subseteq stored'
      BY <1>1, <1>3, <2>1, <2>2, <2>3 DEF CreditOK, Collecting!SaveLands, Collecting!At
    <3>2. rec'[s].state = "closed" /\ ~rec'[s].error => rec'[s].found \subseteq stored'
      BY <1>1, <2>2 DEF CreditOK
    <3>3. QED
      BY <2>3, <3>1, <3>2 DEF CreditOK
  <2>7. seen' \subseteq stored'
    BY <1>1, <2>1, <2>2
  <2>8. QED
    BY <1>1, <2>1, <2>2, <2>3, <2>4, <2>5, <2>6, <2>7, SourceMoves
<1>4. CASE Collecting!SaveReturns(s)
  <2>1. task[s].at = "saved" /\ task[s].todo \subseteq stored /\ stored' = stored
        /\ faults' = faults /\ task[s].items \subseteq task[s].todo \cup seen
    BY <1>1, <1>4 DEF CreditOK, Collecting!SaveReturns, Collecting!At
  <2>2. /\ task' \in [Sources -> Tasks]
        /\ \A x \in Sources \ {s} : task'[x] = task[x]
        /\ \/ /\ aborted[s] /\ seen' = seen
              /\ \/ task'[s].at = "marked" /\ marked[s]
                 \/ task'[s].at = "fail" /\ task'[s].error = "abort"
           \/ /\ task'[s].at = "close" /\ task'[s].items = task[s].items
              /\ seen' = seen \cup task[s].todo
    <3>1. CASE aborted[s]
      BY <1>1, <1>4, <3>1, CaughtTyped DEF Collecting!SaveReturns
    <3>2. CASE ~aborted[s]
      BY <1>1, <1>4, <3>2, GoesTyped DEF Collecting!SaveReturns, TaskPlaces
    <3>3. QED
      BY <3>1, <3>2
  <2>3. seen \subseteq seen' /\ seen' \subseteq stored' /\ seen' \subseteq Items
    BY <1>1, <1>2, <2>1, <2>2
  <2>4. CollectionTypeOK'
    BY <1>1, <2>1, <2>2, <2>3 DEF CollectionTypeOK
  <2>5. OutcomeOK(runner'[s], task'[s], aborted'[s], marked'[s], rec'[s], lost'[s],
                  s \in finalError)
    BY <1>1, <2>1, <2>2 DEF OutcomeOK, Rewriting
  <2>6. CreditOK(task'[s], rec'[s], seen', stored')
    BY <1>1, <2>1, <2>2 DEF CreditOK
  <2>7. QED
    BY <1>1, <2>1, <2>2, <2>3, <2>4, <2>5, <2>6, SourceMoves
<1>5. QED
  BY <1>3, <1>4

LEMMA CloseStepsOK ==
    ASSUME CollectionInv, NEW s \in Sources, NEW fails \in BOOLEAN,
           \/ Collecting!CloseLands(s, fails) \/ Collecting!CloseReturns(s)
           \/ Collecting!Reclose(s, fails)
    PROVE  CollectionInv'
<1>1. /\ CollectionTypeOK /\ seen \subseteq stored
      /\ OutcomeOK(runner[s], task[s], aborted[s], marked[s], rec[s], lost[s], s \in finalError)
      /\ CreditOK(task[s], rec[s], seen, stored)
      /\ UNCHANGED <<group, cur, parent, runner, aborted, seen, stored, finalError>>
  BY DEF CollectionInv, Collecting!CloseLands, Collecting!CloseReturns, Collecting!Reclose,
     Collecting!rows
<1>2. /\ task \in [Sources -> Tasks] /\ rec \in [Sources -> Rows] /\ task[s].items \in SUBSET Items
      /\ lost \in [Sources -> BOOLEAN] /\ marked \in [Sources -> BOOLEAN]
      /\ aborted \in [Sources -> BOOLEAN]
  BY <1>1 DEF CollectionTypeOK, Tasks
<1>3. CASE Collecting!CloseLands(s, fails)
  <2>1. /\ task[s].at \in {"close", "exclude"} /\ task[s].items \subseteq stored
        /\ faults' \in 0 .. MaxFaults /\ marked' = marked /\ lost' = lost
    BY <1>1, <1>3, FaultTyped DEF Collecting!CloseLands, CreditOK
  <2>2. CASE fails
    <3>1. rec' = rec
      BY <1>3, <2>2 DEF Collecting!CloseLands
    <3>2. /\ task' \in [Sources -> Tasks]
          /\ \A x \in Sources \ {s} : task'[x] = task[x]
          /\ \/ task'[s].at = "fail" /\ task'[s].error = "other"
             \/ task'[s].at = "unmarked"
      <4>1. CASE task[s].at = "close"
        BY <1>1, <1>3, <2>2, <4>1, CaughtTyped DEF Collecting!CloseLands
      <4>2. CASE task[s].at # "close"
        BY <1>1, <1>3, <2>2, <4>2, GoesTyped DEF Collecting!CloseLands, Collecting!Ends, TaskPlaces
      <4>3. QED
        BY <4>1, <4>2
    <3>3. CollectionTypeOK'
      BY <1>1, <2>1, <3>1, <3>2 DEF CollectionTypeOK
    <3>4. OutcomeOK(runner'[s], task'[s], aborted'[s], marked'[s], rec'[s], lost'[s],
                    s \in finalError)
      BY <1>1, <2>1, <3>1, <3>2 DEF OutcomeOK, Rewriting
    <3>5. CreditOK(task'[s], rec'[s], seen', stored')
      BY <1>1, <3>1, <3>2 DEF CreditOK
    <3>6. QED
      BY <1>1, <2>1, <3>1, <3>2, <3>3, <3>4, <3>5, SourceMoves
  <2>3. CASE ~fails
    <3>1. /\ rec' \in [Sources -> Rows]
          /\ \A x \in Sources \ {s} : rec'[x] = rec[x]
          /\ rec'[s].state = "closed" /\ rec'[s].error = FALSE /\ rec'[s].found = task[s].items
      BY <1>1, <1>2, <1>3, <2>3, ClosedTyped DEF Collecting!CloseLands
    <3>2. /\ task' \in [Sources -> Tasks]
          /\ \A x \in Sources \ {s} : task'[x] = task[x]
          /\ task'[s].at \in {"closed", "excluded"}
      BY <1>1, <1>3, <2>3, GoesTyped DEF Collecting!CloseLands, TaskPlaces
    <3>3. CollectionTypeOK'
      BY <1>1, <2>1, <3>1, <3>2 DEF CollectionTypeOK
    <3>4. OutcomeOK(runner'[s], task'[s], aborted'[s], marked'[s], rec'[s], lost'[s],
                    s \in finalError)
      BY <1>1, <2>1, <3>1, <3>2 DEF OutcomeOK, Rewriting
    <3>5. CreditOK(task'[s], rec'[s], seen', stored')
      BY <1>1, <2>1, <3>1, <3>2 DEF CreditOK
    <3>6. QED
      BY <1>1, <2>1, <3>1, <3>2, <3>3, <3>4, <3>5, SourceMoves
  <2>4. QED
    BY <2>2, <2>3
<1>4. CASE Collecting!CloseReturns(s)
  <2>1. /\ task[s].at \in {"closed", "excluded"} /\ faults' = faults
        /\ UNCHANGED <<rec, marked, lost>>
    BY <1>4 DEF Collecting!CloseReturns, Collecting!rows
  <2>2. /\ task' \in [Sources -> Tasks]
        /\ \A x \in Sources \ {s} : task'[x] = task[x]
        /\ \/ task'[s].at = "done" /\ ~aborted[s]
           \/ task'[s].at \in {"reclose", "reexclude"} /\ aborted[s]
    <3>1. CASE Collecting!InTime(s)
      BY <1>1, <1>4, <3>1, GoesTyped DEF Collecting!CloseReturns, Collecting!Ends,
         Collecting!InTime, TaskPlaces
    <3>2. CASE ~Collecting!InTime(s)
      BY <1>1, <1>4, <3>2, GoesTyped DEF Collecting!CloseReturns, Collecting!InTime, TaskPlaces
    <3>3. QED
      BY <3>1, <3>2
  <2>3. CollectionTypeOK'
    BY <1>1, <2>1, <2>2 DEF CollectionTypeOK
  <2>4. OutcomeOK(runner'[s], task'[s], aborted'[s], marked'[s], rec'[s], lost'[s],
                  s \in finalError)
    <3>1. runner[s] \in {"none", "racing", "recording", "ok", "failed"}
      BY <1>1 DEF CollectionTypeOK
    <3>2. QED
      BY <1>1, <2>1, <2>2, <3>1 DEF OutcomeOK, Rewriting
  <2>5. CreditOK(task'[s], rec'[s], seen', stored')
    BY <1>1, <2>1, <2>2 DEF CreditOK
  <2>6. QED
    BY <1>1, <2>1, <2>2, <2>3, <2>4, <2>5, SourceMoves
<1>5. CASE Collecting!Reclose(s, fails)
  <2>1. /\ task[s].at \in {"reclose", "reexclude"} /\ faults' \in 0 .. MaxFaults
    BY <1>1, <1>5, FaultTyped DEF Collecting!Reclose
  <2>2. CASE fails
    <3>1. rec' = rec /\ marked' = marked /\ lost' = [lost EXCEPT ![s] = TRUE]
      BY <1>5, <2>2, Zenon DEF Collecting!Reclose
    <3>2. /\ task' \in [Sources -> Tasks]
          /\ \A x \in Sources \ {s} : task'[x] = task[x]
          /\ \/ task'[s].at = "fail" /\ task'[s].error = "other"
             \/ task'[s].at = "unmarked"
      <4>1. CASE task[s].at = "reclose"
        BY <1>1, <1>5, <2>2, <4>1, CaughtTyped DEF Collecting!Reclose
      <4>2. CASE task[s].at # "reclose"
        BY <1>1, <1>5, <2>2, <4>2, GoesTyped DEF Collecting!Reclose, Collecting!Ends, TaskPlaces
      <4>3. QED
        BY <4>1, <4>2
    <3>3. /\ lost' \in [Sources -> BOOLEAN] /\ lost'[s] = TRUE
          /\ \A x \in Sources \ {s} : lost'[x] = lost[x]
      BY <1>2, <3>1
    <3>4. CollectionTypeOK'
      BY <1>1, <2>1, <3>1, <3>2, <3>3 DEF CollectionTypeOK
    <3>5. OutcomeOK(runner'[s], task'[s], aborted'[s], marked'[s], rec'[s], lost'[s],
                    s \in finalError)
      BY <1>1, <2>1, <3>1, <3>2, <3>3 DEF OutcomeOK, Rewriting
    <3>6. CreditOK(task'[s], rec'[s], seen', stored')
      BY <1>1, <3>1, <3>2 DEF CreditOK
    <3>7. QED
      BY <1>1, <2>1, <3>1, <3>2, <3>3, <3>4, <3>5, <3>6, SourceMoves
  <2>3. CASE ~fails
    <3>1. Collecting!Errored(s) /\ marked' = [marked EXCEPT ![s] = TRUE] /\ lost' = lost
          /\ Collecting!Goes(s, "marked")
      BY <1>5, <2>3, Zenon DEF Collecting!Reclose, Collecting!Ends
    <3>2. /\ rec' \in [Sources -> Rows] /\ \A x \in Sources \ {s} : rec'[x] = rec[x]
          /\ rec'[s].state = rec[s].state /\ rec'[s].error = TRUE
      BY <1>1, <3>1, ErroredTyped
    <3>3. /\ task' \in [Sources -> Tasks] /\ \A x \in Sources \ {s} : task'[x] = task[x]
          /\ task'[s].at = "marked"
      BY <1>1, <3>1, GoesTyped DEF TaskPlaces
    <3>4. /\ marked' \in [Sources -> BOOLEAN] /\ marked'[s] = TRUE
          /\ \A x \in Sources \ {s} : marked'[x] = marked[x]
      BY <1>2, <3>1
    <3>5. CollectionTypeOK'
      BY <1>1, <2>1, <3>1, <3>2, <3>3, <3>4 DEF CollectionTypeOK
    <3>6. OutcomeOK(runner'[s], task'[s], aborted'[s], marked'[s], rec'[s], lost'[s],
                    s \in finalError)
      BY <1>1, <2>1, <3>1, <3>2, <3>3, <3>4 DEF OutcomeOK, Rewriting
    <3>7. CreditOK(task'[s], rec'[s], seen', stored')
      BY <1>1, <3>2, <3>3 DEF CreditOK
    <3>8. QED
      BY <1>1, <2>1, <3>1, <3>2, <3>3, <3>4, <3>5, <3>6, <3>7, SourceMoves
  <2>4. QED
    BY <2>2, <2>3
<1>6. QED
  BY <1>3, <1>4, <1>5

LEMMA RecordStepsOK ==
    ASSUME CollectionInv, NEW s \in Sources, NEW fails \in BOOLEAN,
           Collecting!RecordCaught(s, fails) \/ Collecting!RecordEmpty(s, fails)
    PROVE  CollectionInv'
<1>1. /\ CollectionTypeOK /\ seen \subseteq stored
      /\ OutcomeOK(runner[s], task[s], aborted[s], marked[s], rec[s], lost[s], s \in finalError)
      /\ CreditOK(task[s], rec[s], seen, stored)
      /\ UNCHANGED <<group, cur, parent, runner, aborted, seen, stored, finalError>>
      /\ task[s].at \in {"fail", "empty"} /\ faults' \in 0 .. MaxFaults
  BY FaultTyped DEF CollectionInv, Collecting!RecordCaught, Collecting!RecordEmpty, Collecting!At
<1>2. /\ task \in [Sources -> Tasks] /\ rec \in [Sources -> Rows] /\ task[s].items \in SUBSET Items
      /\ lost \in [Sources -> BOOLEAN] /\ marked \in [Sources -> BOOLEAN]
  BY <1>1 DEF CollectionTypeOK, Tasks
<1>3. /\ rec' \in [Sources -> Rows] /\ \A x \in Sources \ {s} : rec'[x] = rec[x]
      /\ IF fails THEN rec' = rec ELSE rec'[s].state = "closed" /\ rec'[s].error = TRUE
  <2>1. CASE fails
    BY <1>2, <2>1 DEF Collecting!RecordCaught, Collecting!RecordEmpty
  <2>2. CASE ~fails
    BY <1>1, <1>2, <2>2, ClosedTyped DEF Collecting!RecordCaught, Collecting!RecordEmpty
  <2>3. QED
    BY <2>1, <2>2
<1>4. CASE Collecting!RecordCaught(s, fails)
  <2>1. /\ task' \in [Sources -> Tasks] /\ \A x \in Sources \ {s} : task'[x] = task[x]
        /\ task'[s].at = "marked"
    BY <1>1, <1>4, GoesTyped DEF Collecting!RecordCaught, Collecting!Ends, TaskPlaces
  <2>2. /\ lost' \in [Sources -> BOOLEAN] /\ \A x \in Sources \ {s} : lost'[x] = lost[x]
        /\ lost'[s] = (lost[s] \/ fails)
    <3>1. lost' = [lost EXCEPT ![s] = lost[s] \/ fails]
      BY <1>4, Zenon DEF Collecting!RecordCaught
    <3>2. QED
      BY <1>2, <3>1
  <2>3. /\ marked' \in [Sources -> BOOLEAN] /\ \A x \in Sources \ {s} : marked'[x] = marked[x]
        /\ marked'[s] = (marked[s] \/ task[s].error = "abort")
    <3>1. marked' = [marked EXCEPT ![s] = marked[s] \/ task[s].error = "abort"]
      BY <1>4, Zenon DEF Collecting!RecordCaught
    <3>2. (marked[s] \/ task[s].error = "abort") \in BOOLEAN
      OBVIOUS
    <3>3. QED
      BY <1>2, <3>1, <3>2
  <2>4. CollectionTypeOK'
    BY <1>1, <1>3, <2>1, <2>2, <2>3 DEF CollectionTypeOK
  <2>5. OutcomeOK(runner'[s], task'[s], aborted'[s], marked'[s], rec'[s], lost'[s],
                  s \in finalError)
    BY <1>1, <1>3, <1>4, <2>1, <2>2, <2>3 DEF OutcomeOK, Rewriting, Collecting!RecordCaught,
       Collecting!At
  <2>6. CreditOK(task'[s], rec'[s], seen', stored')
    BY <1>1, <1>3, <2>1 DEF CreditOK
  <2>7. QED
    BY <1>1, <1>3, <2>1, <2>2, <2>3, <2>4, <2>5, <2>6, SourceMoves
<1>5. CASE Collecting!RecordEmpty(s, fails)
  <2>1. /\ task' \in [Sources -> Tasks] /\ \A x \in Sources \ {s} : task'[x] = task[x]
        /\ task'[s].at = IF fails THEN "unmarked" ELSE "marked"
    BY <1>1, <1>5, GoesTyped DEF Collecting!RecordEmpty, Collecting!Ends, TaskPlaces
  <2>2. lost' = lost /\ marked' = marked /\ task[s].at = "empty"
    BY <1>5 DEF Collecting!RecordEmpty, Collecting!At
  <2>3. CollectionTypeOK'
    BY <1>1, <1>3, <2>1, <2>2 DEF CollectionTypeOK
  <2>4. OutcomeOK(runner'[s], task'[s], aborted'[s], marked'[s], rec'[s], lost'[s],
                  s \in finalError)
    BY <1>1, <1>3, <2>1, <2>2 DEF OutcomeOK, Rewriting
  <2>5. CreditOK(task'[s], rec'[s], seen', stored')
    BY <1>1, <1>3, <2>1 DEF CreditOK
  <2>6. QED
    BY <1>1, <1>3, <2>1, <2>2, <2>3, <2>4, <2>5, SourceMoves
<1>6. QED
  BY <1>4, <1>5

LEMMA RunnerStepsOK ==
    ASSUME CollectionInv, NEW s \in Sources, NEW fails \in BOOLEAN,
           \/ Collecting!BeginRun(s, fails) \/ Collecting!RecordCollectionFailure(s, fails)
           \/ Collecting!Abort(s) \/ Collecting!RaceSettles(s)
    PROVE  CollectionInv'
<1> DEFINE Kinds == {"none", "racing", "recording", "ok", "failed"}
<1>1. /\ CollectionTypeOK /\ seen \subseteq stored
      /\ OutcomeOK(runner[s], task[s], aborted[s], marked[s], rec[s], lost[s], s \in finalError)
      /\ CreditOK(task[s], rec[s], seen, stored)
      /\ UNCHANGED <<group, cur, seen, stored, finalError>>
  BY DEF CollectionInv, Collecting!BeginRun, Collecting!RecordCollectionFailure,
     Collecting!Abort, Collecting!RaceSettles, Collecting!rows
<1>2. /\ task \in [Sources -> Tasks] /\ rec \in [Sources -> Rows] /\ runner \in [Sources -> Kinds]
      /\ lost \in [Sources -> BOOLEAN] /\ marked \in [Sources -> BOOLEAN]
      /\ aborted \in [Sources -> BOOLEAN] /\ faults \in 0 .. MaxFaults /\ parent \in BOOLEAN
  BY <1>1 DEF CollectionTypeOK
<1>3. ASSUME NEW k \in Kinds, runner' = [runner EXCEPT ![s] = k]
      PROVE  /\ runner' \in [Sources -> Kinds] /\ runner'[s] = k
             /\ \A x \in Sources \ {s} : runner'[x] = runner[x]
  BY <1>2, <1>3
<1>4. CASE Collecting!BeginRun(s, fails)
  <2>1. /\ runner[s] = "none" /\ faults' \in 0 .. MaxFaults
        /\ UNCHANGED <<parent, aborted, marked, lost>>
        /\ runner' = [runner EXCEPT ![s] = IF fails THEN "failed" ELSE "racing"]
    BY <1>1, <1>4, FaultTyped DEF Collecting!BeginRun
  <2>2. /\ runner' \in [Sources -> Kinds] /\ runner'[s] = (IF fails THEN "failed" ELSE "racing")
        /\ \A x \in Sources \ {s} : runner'[x] = runner[x]
    BY <1>3, <2>1
  <2>3. task[s].at = "none" /\ ~aborted[s] /\ ~marked[s] /\ ~(s \in finalError)
    BY <1>1, <2>1 DEF OutcomeOK
  <2>4. CASE fails
    <3>1. rec' = rec /\ task' = task
      BY <1>4, <2>4 DEF Collecting!BeginRun
    <3>2. CollectionTypeOK'
      BY <1>1, <2>1, <2>2, <3>1 DEF CollectionTypeOK
    <3>3. OutcomeOK(runner'[s], task'[s], aborted'[s], marked'[s], rec'[s], lost'[s],
                    s \in finalError)
      BY <2>1, <2>2, <2>3, <2>4, <3>1 DEF OutcomeOK, Rewriting
    <3>4. CreditOK(task'[s], rec'[s], seen', stored')
      BY <1>1, <3>1 DEF CreditOK
    <3>5. QED
      BY <1>1, <2>1, <2>2, <3>1, <3>2, <3>3, <3>4, SourceMoves
  <2>5. CASE ~fails
    <3>1. rec' = [rec EXCEPT ![s] = [rec[s] EXCEPT !.state = "open"]] /\ Collecting!Goes(s, "collect")
      BY <1>4, <2>5 DEF Collecting!BeginRun
    <3>2. [rec[s] EXCEPT !.state = "open"] \in Rows
      BY <1>2 DEF Rows
    <3>3. /\ rec' \in [Sources -> Rows] /\ \A x \in Sources \ {s} : rec'[x] = rec[x]
          /\ rec'[s].state = "open"
      BY <1>2, <3>1, <3>2 DEF Rows
    <3>4. /\ task' \in [Sources -> Tasks] /\ \A x \in Sources \ {s} : task'[x] = task[x]
          /\ task'[s].at = "collect"
      BY <1>1, <3>1, GoesTyped DEF TaskPlaces
    <3>5. CollectionTypeOK'
      BY <1>1, <2>1, <2>2, <3>3, <3>4 DEF CollectionTypeOK
    <3>6. OutcomeOK(runner'[s], task'[s], aborted'[s], marked'[s], rec'[s], lost'[s],
                    s \in finalError)
      BY <2>1, <2>2, <2>3, <2>5, <3>3, <3>4 DEF OutcomeOK, Rewriting
    <3>7. CreditOK(task'[s], rec'[s], seen', stored')
      BY <3>3, <3>4 DEF CreditOK
    <3>8. QED
      BY <1>1, <2>1, <2>2, <3>3, <3>4, <3>5, <3>6, <3>7, SourceMoves
  <2>6. QED
    BY <2>4, <2>5
<1>5. CASE Collecting!RecordCollectionFailure(s, fails)
  <2>1. /\ runner[s] = "recording" /\ faults' \in 0 .. MaxFaults
        /\ UNCHANGED <<parent, task, aborted>>
        /\ runner' = [runner EXCEPT ![s] = "failed"]
    BY <1>1, <1>5, FaultTyped DEF Collecting!RecordCollectionFailure
  <2>2. /\ runner' \in [Sources -> Kinds] /\ runner'[s] = "failed"
        /\ \A x \in Sources \ {s} : runner'[x] = runner[x]
    BY <1>3, <2>1
  <2>3. /\ rec' \in [Sources -> Rows] /\ \A x \in Sources \ {s} : rec'[x] = rec[x]
        /\ IF fails THEN rec' = rec ELSE rec'[s].state = "closed" /\ rec'[s].error = TRUE
    <3>1. CASE fails
      BY <1>2, <1>5, <3>1 DEF Collecting!RecordCollectionFailure
    <3>2. CASE ~fails
      BY <1>1, <1>2, <1>5, <3>2, ClosedTyped DEF Collecting!RecordCollectionFailure
    <3>3. QED
      BY <3>1, <3>2
  <2>4. /\ lost' \in [Sources -> BOOLEAN] /\ \A x \in Sources \ {s} : lost'[x] = lost[x]
        /\ lost'[s] = (lost[s] \/ fails)
    <3>1. lost' = [lost EXCEPT ![s] = lost[s] \/ fails]
      BY <1>5, Zenon DEF Collecting!RecordCollectionFailure
    <3>2. QED
      BY <1>2, <3>1
  <2>5. /\ marked' \in [Sources -> BOOLEAN] /\ \A x \in Sources \ {s} : marked'[x] = marked[x]
        /\ marked'[s] = (marked[s] \/ (aborted[s] /\ ~fails))
    <3>1. marked' = [marked EXCEPT ![s] = marked[s] \/ (aborted[s] /\ ~fails)]
      BY <1>5, Zenon DEF Collecting!RecordCollectionFailure
    <3>2. QED
      BY <1>2, <3>1
  <2>6. CollectionTypeOK'
    BY <1>1, <2>1, <2>2, <2>3, <2>4, <2>5 DEF CollectionTypeOK
  <2>7. OutcomeOK(runner'[s], task'[s], aborted'[s], marked'[s], rec'[s], lost'[s],
                  s \in finalError)
    BY <1>1, <2>1, <2>2, <2>3, <2>4, <2>5 DEF OutcomeOK, Rewriting
  <2>8. CreditOK(task'[s], rec'[s], seen', stored')
    BY <1>1, <2>1, <2>3 DEF CreditOK
  <2>9. QED
    BY <1>1, <2>1, <2>2, <2>3, <2>4, <2>5, <2>6, <2>7, <2>8, SourceMoves
<1>6. CASE Collecting!Abort(s)
  <2>1. /\ runner[s] = "racing" /\ ~Collecting!Ended(s) /\ faults' = faults
        /\ UNCHANGED <<task, marked, rec, lost>> /\ parent' \in BOOLEAN
    BY <1>2, <1>6 DEF Collecting!Abort, Collecting!rows
  <2>2. /\ aborted' \in [Sources -> BOOLEAN] /\ aborted'[s] = TRUE
        /\ \A x \in Sources \ {s} : aborted'[x] = aborted[x]
    BY <1>2, <1>6 DEF Collecting!Abort
  <2>3. /\ runner' \in [Sources -> Kinds]
        /\ runner'[s] = (IF marked[s] THEN "failed" ELSE "recording")
        /\ \A x \in Sources \ {s} : runner'[x] = runner[x]
    BY <1>3, <1>6 DEF Collecting!Abort
  <2>4. CollectionTypeOK'
    BY <1>1, <2>1, <2>2, <2>3 DEF CollectionTypeOK
  <2>5. OutcomeOK(runner'[s], task'[s], aborted'[s], marked'[s], rec'[s], lost'[s],
                  s \in finalError)
    BY <1>1, <2>1, <2>2, <2>3 DEF OutcomeOK, Rewriting, Collecting!Ended
  <2>6. CreditOK(task'[s], rec'[s], seen', stored')
    BY <1>1, <2>1 DEF CreditOK
  <2>7. QED
    BY <1>1, <2>1, <2>2, <2>3, <2>4, <2>5, <2>6, SourceMoves
<1>7. CASE Collecting!RaceSettles(s)
  <2> DEFINE k == CASE task[s].at = "done" -> "ok"
                    [] task[s].at = "marked" -> "failed"
                    [] OTHER -> "recording"
  <2>1. /\ runner[s] = "racing" /\ Collecting!Ended(s) /\ faults' = faults
        /\ UNCHANGED <<task, parent, aborted, marked, rec, lost>>
        /\ runner' = [runner EXCEPT ![s] = k]
    BY <1>7 DEF Collecting!RaceSettles, Collecting!rows
  <2>2. task[s].at \in {"done", "marked", "unmarked"} /\ k \in Kinds
    BY <2>1 DEF Collecting!Ended
  <2>3. \/ k = "ok" /\ task[s].at = "done"
        \/ k = "failed" /\ task[s].at = "marked"
        \/ k = "recording" /\ task[s].at = "unmarked"
    BY <2>1 DEF Collecting!Ended
  <2> HIDE DEF k
  <2>4. /\ runner' \in [Sources -> Kinds] /\ runner'[s] = k
        /\ \A x \in Sources \ {s} : runner'[x] = runner[x]
    BY <1>3, <2>1, <2>2
  <2>5. CollectionTypeOK'
    BY <1>1, <2>1, <2>4 DEF CollectionTypeOK
  <2>6. OutcomeOK(runner'[s], task'[s], aborted'[s], marked'[s], rec'[s], lost'[s],
                  s \in finalError)
    BY <1>1, <2>1, <2>3, <2>4 DEF OutcomeOK, Rewriting
  <2>7. CreditOK(task'[s], rec'[s], seen', stored')
    BY <1>1, <2>1 DEF CreditOK
  <2>8. QED
    BY <1>1, <2>1, <2>4, <2>5, <2>6, <2>7, SourceMoves
<1>8. QED
  BY <1>4, <1>5, <1>6, <1>7

\* The group goes on, its isolate is lost, or its rows are closed by the next group.
LEMMA GroupStepsOK ==
    ASSUME CollectionInv, Collecting!NextSource \/ Collecting!IsolateLost
    PROVE  CollectionInv'
<1>1. /\ CollectionTypeOK
      /\ UNCHANGED <<parent, runner, task, aborted, marked, rec, seen, stored, lost, finalError>>
  BY DEF CollectionInv, Collecting!NextSource, Collecting!IsolateLost, Collecting!rows
<1>2. /\ group \in {"running", "finalizing", "ended", "lost"} /\ cur \in Sources
      /\ faults \in 0 .. MaxFaults
  BY <1>1 DEF CollectionTypeOK
<1>3. CASE Collecting!NextSource
  <2> DEFINE over == parent \/ cur = Cardinality(Sources)
  <2>1. cur' \in Sources
    <3>1. cur' = (IF over THEN cur ELSE cur + 1)
      BY <1>3, SourcesAre DEF Collecting!NextSource
    <3>2. CASE over
      BY <1>2, <3>1, <3>2
    <3>3. CASE ~over
      <4>1. cur \in 1 .. Cardinality(Sources)
        BY <1>2, SourcesAre, Zenon
      <4>2. cur + 1 \in 1 .. Cardinality(Sources)
        BY <3>3, <4>1, SourcesAre
      <4>3. QED
        BY <3>1, <3>3, <4>2, SourcesAre, Zenon
    <3>4. QED
      BY <3>2, <3>3
  <2>2. /\ group = "running" /\ faults' = faults
        /\ \/ group' = "running" \/ group' = "ended"
           \/ group' = "finalizing" /\ Collecting!Succeeded # {}
    BY <1>3 DEF Collecting!NextSource
  <2>3. Collecting!Succeeded' = Collecting!Succeeded
    BY <1>1 DEF Collecting!Succeeded
  <2>4. CollectionTypeOK'
    BY <1>1, <1>2, <2>1, <2>2 DEF CollectionTypeOK
  <2>5. QED
    BY <1>1, <2>2, <2>3, <2>4 DEF CollectionInv
<1>4. CASE Collecting!IsolateLost
  <2>1. group' = "lost" /\ cur' = cur /\ faults' \in 0 .. MaxFaults
    BY <1>1, <1>4, FaultTyped DEF Collecting!IsolateLost
  <2>2. CollectionTypeOK'
    BY <1>1, <1>2, <2>1 DEF CollectionTypeOK
  <2>3. QED
    BY <1>1, <2>1, <2>2 DEF CollectionInv
<1>5. QED
  BY <1>3, <1>4

LEMMA StaleRunsOK == CollectionInv /\ Collecting!CloseStaleCollectionRuns => CollectionInv'
<1> SUFFICES ASSUME CollectionInv, Collecting!CloseStaleCollectionRuns PROVE CollectionInv'
  OBVIOUS
<1>1. /\ CollectionTypeOK
      /\ UNCHANGED <<group, cur, parent, runner, task, aborted, marked, seen, stored, lost,
                     finalError, faults>>
  BY DEF CollectionInv, Collecting!CloseStaleCollectionRuns
<1>2. ASSUME NEW s \in Sources
      PROVE  \/ rec'[s] = rec[s]
             \/ /\ rec[s].state = "open" /\ rec'[s] \in Rows
                /\ rec'[s].state = "closed" /\ rec'[s].error
  <2>1. rec[s] \in Rows
    BY <1>1 DEF CollectionTypeOK
  <2>2. CASE rec[s].state = "open"
    <3>1. rec'[s] = [rec[s] EXCEPT !.state = "closed", !.error = TRUE]
      BY <2>2 DEF Collecting!CloseStaleCollectionRuns
    <3>2. QED
      BY <2>1, <2>2, <3>1 DEF Rows
  <2>3. CASE rec[s].state # "open"
    BY <2>3 DEF Collecting!CloseStaleCollectionRuns
  <2>4. QED
    BY <2>2, <2>3
<1>3. rec' \in [Sources -> Rows]
  <2>1. rec' = [s \in Sources |-> rec'[s]] /\ rec \in [Sources -> Rows]
    BY <1>1 DEF CollectionTypeOK, Collecting!CloseStaleCollectionRuns
  <2>2. QED
    BY <1>2, <2>1
<1>4. CollectionTypeOK'
  BY <1>1, <1>3 DEF CollectionTypeOK
<1>5. ASSUME NEW s \in Sources
      PROVE  /\ OutcomeOK(runner[s], task[s], aborted[s], marked[s], rec'[s], lost[s],
                          s \in finalError)
             /\ CreditOK(task[s], rec'[s], seen, stored)
  <2>1. /\ OutcomeOK(runner[s], task[s], aborted[s], marked[s], rec[s], lost[s], s \in finalError)
        /\ CreditOK(task[s], rec[s], seen, stored)
    BY DEF CollectionInv
  <2>2. QED
    BY <1>2, <2>1 DEF OutcomeOK, CreditOK, Rewriting
<1>6. QED
  BY <1>1, <1>4, <1>5 DEF CollectionInv, Collecting!Succeeded

LEMMA FinalizeOK ==
    ASSUME CollectionInv, NEW fails \in BOOLEAN, NEW recordFails \in BOOLEAN,
           Collecting!Finalize(fails, recordFails)
    PROVE  CollectionInv'
<1> DEFINE Last(s) == s \in Collecting!Succeeded /\ \A t \in Collecting!Succeeded : t <= s
           last == CHOOSE s \in Collecting!Succeeded : \A t \in Collecting!Succeeded : t <= s
<1>1. /\ CollectionTypeOK /\ group = "finalizing" /\ group' = "ended" /\ finalError = {}
      /\ UNCHANGED <<cur, parent, runner, task, aborted, marked, seen, stored, lost>>
      /\ faults' \in 0 .. MaxFaults
  BY FaultTyped DEF CollectionInv, Collecting!Finalize
<1>2. last \in Collecting!Succeeded
  <2>1. IsFiniteSet(Sources) /\ Sources \subseteq Int
    <3>1. 1 .. Cardinality(Sources) \subseteq Int
      BY SourcesAre
    <3>2. QED
      BY <3>1, SourcesAre, Zenon
  <2>2. Collecting!Succeeded \subseteq Sources
    BY DEF Collecting!Succeeded
  <2>3. Collecting!Succeeded \in SUBSET Int /\ Collecting!Succeeded # {}
        /\ IsFiniteSet(Collecting!Succeeded)
    BY <1>1, <2>1, <2>2, FS_Subset DEF CollectionInv
  <2>4. PICK n \in Collecting!Succeeded : \A m \in Collecting!Succeeded : n >= m
    BY <2>3, LargestOf
  <2>5. \A m \in Collecting!Succeeded : m <= n
    BY <2>3, <2>4
  <2>6. QED
    BY <2>5
<1>3. last \in Sources /\ runner[last] = "ok"
  BY <1>2 DEF Collecting!Succeeded
<1>4. \/ rec' = rec /\ finalError' = finalError
      \/ Collecting!Errored(last) /\ finalError' = {last}
  BY DEF Collecting!Finalize
<1> HIDE DEF last
<1>5. CASE rec' = rec /\ finalError' = finalError
  <2>1. CollectionTypeOK'
    BY <1>1, <1>5 DEF CollectionTypeOK
  <2>2. QED
    BY <1>1, <1>5, <2>1 DEF CollectionInv
<1>6. CASE Collecting!Errored(last) /\ finalError' = {last}
  <2>1. /\ rec' \in [Sources -> Rows] /\ \A x \in Sources \ {last} : rec'[x] = rec[x]
        /\ rec'[last].state = rec[last].state /\ rec'[last].error = TRUE
    BY <1>1, <1>3, <1>6, ErroredTyped
  <2>2. CollectionTypeOK'
    BY <1>1, <1>3, <1>6, <2>1 DEF CollectionTypeOK
  <2>3. ASSUME NEW s \in Sources
        PROVE  /\ OutcomeOK(runner[s], task[s], aborted[s], marked[s], rec'[s], lost[s],
                            s \in finalError')
               /\ CreditOK(task[s], rec'[s], seen, stored)
    <3>1. /\ OutcomeOK(runner[s], task[s], aborted[s], marked[s], rec[s], lost[s],
                        s \in finalError)
          /\ CreditOK(task[s], rec[s], seen, stored) /\ s \notin finalError
      BY <1>1 DEF CollectionInv
    <3>2. CASE s = last
      BY <1>3, <1>6, <2>1, <3>1, <3>2 DEF OutcomeOK, CreditOK, Rewriting
    <3>3. CASE s # last
      BY <1>6, <2>1, <3>1, <3>3 DEF OutcomeOK, CreditOK, Rewriting
    <3>4. QED
      BY <3>2, <3>3
  <2>4. QED
    BY <1>1, <2>2, <2>3 DEF CollectionInv
<1>7. QED
  BY <1>4, <1>5, <1>6

LEMMA CollectionNextOK ==
    CollectionInv /\ [Collecting!Next]_collectionVars => CollectionInv'
<1> SUFFICES ASSUME CollectionInv, [Collecting!Next]_collectionVars PROVE CollectionInv'
  OBVIOUS
<1>1. ASSUME NEW s \in Sources, NEW fails \in BOOLEAN, Collecting!TaskStep(s, fails)
      PROVE  CollectionInv'
  BY <1>1, CollectStepsOK, SaveStepsOK, CloseStepsOK, RecordStepsOK DEF Collecting!TaskStep
<1>2. ASSUME NEW s \in Sources, NEW fails \in BOOLEAN,
             \/ Collecting!RunnerStep(s, fails)
             \/ Collecting!Abort(s) \/ Collecting!RaceSettles(s)
      PROVE  CollectionInv'
  BY <1>2, RunnerStepsOK DEF Collecting!RunnerStep
<1>3. CASE Collecting!GroupStep \/ Collecting!IsolateLost
  BY <1>3, GroupStepsOK, FinalizeOK DEF Collecting!GroupStep
<1>4. CASE Collecting!CloseStaleCollectionRuns
  BY <1>4, StaleRunsOK
<1>5. CASE UNCHANGED collectionVars
  <2>1. UNCHANGED <<group, cur, parent, runner, task, aborted, marked, rec, seen, stored, lost,
                    finalError, faults>>
    BY <1>5 DEF collectionVars
  <2>2. CollectionTypeOK' /\ Collecting!Succeeded' = Collecting!Succeeded
    BY <2>1 DEF CollectionTypeOK, CollectionInv, Collecting!Succeeded
  <2>3. QED
    BY <2>1, <2>2 DEF CollectionInv
<1>6. QED
  BY <1>1, <1>2, <1>3, <1>4, <1>5 DEF Collecting!Next

-----------------------------------------------------------------------------
(* Player. The list and the selection agree whatever happens. The rest holds until a
   list begins with older calls under way (`overlapped`): then the search of each call
   is the one of the page's state, an element loads only what such a search gets to, one
   call at most is about to change the page (Main), and a call that is told later that
   its load was given up has no index left to try (Hopeless). *)

\* The types of the page's state and of a call.
Elements == [index: Int, pending: BOOLEAN, ready: BOOLEAN, src: Int]

PageState ==
    [orientation: Orientations, items: [of: SUBSET Orientations, len: Nat], failed: SUBSET Int,
     activeSlot: {0, 1}, activeIndex: Int, slots: [{0, 1} -> Elements], moving: BOOLEAN]

PageCall ==
    [kind: {"none", "show", "next", "preload"},
     at: {"free", "fetch", "loop", "await", "stale", "found", "swap", "play"},
     fresh: BOOLEAN, slot: {0, 1}, start: Int, offset: Nat, attempts: Nat, index: Int,
     playable: BOOLEAN, page: Int, of: SUBSET Orientations]

PageTyped == state \in PageState /\ call \in [Calls -> PageCall]

\* What holds whatever overlaps.
ElementOK(e) == e.src = e.index /\ ~(e.pending /\ e.ready)

FetchOK(c, s) ==
    /\ c.at = "free" => c.kind = "none" /\ c.fresh
    /\ c.at = "fetch" => /\ c.kind = "show" /\ c.of # {}
                         /\ c.fresh => c.of = {s.orientation}

ListOK ==
    /\ state.items.len > 0 => state.items.of = {state.orientation}
    /\ \A p \in Calls : FetchOK(call[p], state)
    /\ \A k \in {0, 1} : ElementOK(state.slots[k])

\* The slot and the index a search begins with, for an empty page and after the active item.
Target(s) == IF s.activeIndex = Page!NoIndex THEN 0 ELSE 1 - s.activeSlot
Base(s)   == IF s.activeIndex = Page!NoIndex THEN 0 ELSE (s.activeIndex + 1) % s.items.len
Idx(s, j) == (Base(s) + j) % s.items.len

Failed(s, n) == \A j \in 0 .. n - 1 : Idx(s, j) \in s.failed

\* A search gets to the index i at its attempt j; of the active item only at the last.
Reaches(s, j, i) ==
    /\ j \in 0 .. Page!Attempts(s) - 1 /\ i = Idx(s, j) /\ Failed(s, j)
    /\ i \in s.failed => j = Page!Attempts(s) - 1

IsIndex(s, i) == i \in 0 .. s.items.len - 1

Main(c)    == c.at # "free" /\ (c.kind = "next" \/ (c.kind = "show" /\ c.fresh))
Working(c) == c.at \notin {"free", "fetch"}

\* The search of a call is the one of the page's state.
Searches(c, s) ==
    c.slot = Target(s) /\ c.start = Base(s) /\ c.attempts = Page!Attempts(s)

Hopeless(c, s) ==
    \A o \in c.offset .. c.attempts - 1 :
        s.items.len = 0 \/ (IF c.start = Page!NotANumber THEN Page!NotANumber
                            ELSE (c.start + o) % s.items.len) \in s.failed

LoopOK(c, s) ==
    \/ c.kind = "preload" /\ Hopeless(c, s)
    \/ /\ Searches(c, s) /\ c.offset \in 0 .. c.attempts /\ Failed(s, c.offset)
       /\ c.offset = c.attempts => IsIndex(s, c.index)

NonePending(s) == \A k \in {0, 1} : ~s.slots[k].pending

CallOK(c, s) ==
    /\ ~c.fresh => c.at = "fetch"
    /\ Working(c) => s.items.len > 0
    /\ c.at = "fetch" /\ c.fresh => s.items.len = 0
    /\ Main(c) => s.moving
    /\ c.kind = "show" /\ c.at \in {"loop", "await", "found"} => s.activeIndex = Page!NoIndex
    /\ c.kind = "next" => s.activeIndex # Page!NoIndex
    /\ c.at = "loop" => c.kind # "none" /\ LoopOK(c, s)
    /\ c.at = "await" => /\ c.kind # "none" /\ Searches(c, s) /\ s.slots[c.slot].pending
                         /\ s.slots[c.slot].index = c.index /\ Reaches(s, c.offset, c.index)
    /\ c.at = "stale" => c.kind = "preload" /\ c.offset + 1 >= c.attempts
    /\ c.at = "found" /\ c.kind # "preload" =>
          /\ c.kind # "none" /\ c.slot = Target(s) /\ IsIndex(s, c.index)
          /\ IF c.playable THEN NonePending(s) /\ s.slots[c.slot].src = c.index
             ELSE Failed(s, Page!Attempts(s))
    /\ c.at = "swap" => /\ c.kind = "next" /\ c.slot = Target(s) /\ IsIndex(s, c.index)
                        /\ NonePending(s) /\ s.slots[c.slot].src = c.index
                        /\ s.activeIndex # Page!NoIndex
    /\ c.at = "play" => /\ c.kind \in {"show", "next"} /\ c.slot = s.activeSlot
                        /\ s.activeIndex # Page!NoIndex /\ NonePending(s)

\* Two calls beside each other.
PairOK(c, d, s) ==
    /\ Main(c) => ~Main(d)
    /\ Main(c) /\ c.kind = "show" => ~Working(d)
    /\ Main(c) /\ c.at \in {"found", "swap", "play"} /\ d.at = "loop" => Hopeless(d, s)
    /\ Main(c) /\ c.at = "loop" /\ s.slots[Target(s)].ready /\ d.at = "loop" => Hopeless(d, s)

PageHolds(s) ==
    /\ s.activeIndex # Page!NoIndex =>
          /\ IsIndex(s, s.activeIndex) /\ s.slots[s.activeSlot].src = s.activeIndex
          /\ ~s.slots[s.activeSlot].pending
    /\ \A k \in {0, 1} : s.slots[k].pending =>
          k = Target(s) /\ \E j \in 0 .. Page!Attempts(s) - 1 : Reaches(s, j, s.slots[k].index)
    /\ s.items.len > 0 /\ ~s.moving => s.activeIndex # Page!NoIndex

Calm ==
    /\ PageHolds(state)
    /\ \A p \in Calls : CallOK(call[p], state)
    /\ \A p \in Calls : \A q \in Calls : p # q => PairOK(call[p], call[q], state)

PageInv == PageTyped /\ ListOK /\ (~overlapped => Calm)

-----------------------------------------------------------------------------
(* The pieces of the page's functions: their types and what they change. *)

\* The constants of the page are positive.
LEMMA PageNumbers ==
    /\ \A o \in Orientations : Length[o] \in Nat /\ Length[o] > 0
    /\ MaxSkipAttempts \in Nat /\ MaxSkipAttempts > 0
BY PlayerAssumption DEF Page!PlayerAssumption

\* findPlayable tries at most every item, and at least one of a list that has any.
LEMMA AttemptsOK ==
    ASSUME NEW s \in PageState
    PROVE  /\ Page!Attempts(s) \in Nat /\ Page!Attempts(s) <= s.items.len
           /\ s.items.len > 0 => Page!Attempts(s) > 0
<1> DEFINE m == MaxSkipAttempts
           n == s.items.len
<1>1. m \in Nat /\ m > 0 /\ n \in Nat
  BY PageNumbers DEF PageState
<1> HIDE DEF m, n
<1>2. \E x \in {m, n} : \A y \in {m, n} : x <= y
  BY <1>1
<1>3. Page!Min({m, n}) \in {m, n} /\ \A y \in {m, n} : Page!Min({m, n}) <= y
  BY <1>2 DEF Page!Min
<1>4. QED
  BY <1>1, <1>3 DEF Page!Attempts, m, n

\* The index after the active one.
LEMMA FollowingOK ==
    ASSUME NEW s \in PageState, s.items.len > 0
    PROVE  /\ Page!Following(s) \in Int
           /\ IsIndex(s, s.activeIndex) => Page!Following(s) = (s.activeIndex + 1) % s.items.len
BY DEF PageState, Page!Following, Page!NotANumber, IsIndex

\* A call that is not under way.
LEMMA FreeTyped == Page!Free \in PageCall
BY DEF Page!Free, Page!NoIndex, PageCall

\* findPlayable begins with all its attempts before it.
LEMMA FindingOK ==
    ASSUME NEW s \in PageState, NEW kind \in {"show", "next", "preload"}, NEW k \in {0, 1},
           NEW start \in Int, NEW c, c = Page!Finding(s, kind, k, start)
    PROVE  /\ c \in PageCall /\ c.kind = kind /\ c.at = "loop" /\ c.fresh /\ c.slot = k
           /\ c.start = start /\ c.offset = 0 /\ c.attempts = Page!Attempts(s)
BY FreeTyped, AttemptsOK DEF Page!Finding, Page!Free, PageCall

\* preloadNext begins a search of the idle slot, or nothing.
LEMMA PreloadOK ==
    ASSUME NEW s \in PageState, NEW c, c = Page!PreloadNext(s)
    PROVE  /\ c \in PageCall
           /\ c = Page!Free \/ (s.items.len > 0 /\ s.activeIndex # Page!NoIndex
                                /\ c.kind = "preload" /\ c.at = "loop" /\ c.fresh
                                /\ c.slot = 1 - s.activeSlot /\ c.start = Page!Following(s)
                                /\ c.offset = 0 /\ c.attempts = Page!Attempts(s))
<1>1. CASE s.items.len = 0 \/ s.activeIndex = Page!NoIndex
  BY <1>1, FreeTyped DEF Page!PreloadNext
<1>2. CASE ~(s.items.len = 0 \/ s.activeIndex = Page!NoIndex)
  <2>1. s.items.len > 0 /\ s.activeSlot \in {0, 1} /\ 1 - s.activeSlot \in {0, 1}
    BY <1>2 DEF PageState
  <2>2. c = Page!Finding(s, "preload", 1 - s.activeSlot, Page!Following(s))
    BY <1>2 DEF Page!PreloadNext
  <2>3. QED
    BY <1>2, <2>1, <2>2, FollowingOK, FindingOK
<1>3. QED
  BY <1>1, <1>2

\* A call goes on at another await.
LEMMA AtOK ==
    ASSUME call \in [Calls -> PageCall], NEW p \in Calls,
           NEW at \in {"found", "play"}, NEW i \in Int, NEW playable \in BOOLEAN,
           NEW c, c = Page!At(p, at, i, playable)
    PROVE  /\ c \in PageCall /\ c.at = at /\ c.kind = call[p].kind /\ c.fresh = call[p].fresh
           /\ c.slot = call[p].slot /\ c.index = i /\ c.playable = playable
<1>1. call[p] \in PageCall
  OBVIOUS
<1>2. QED
  BY <1>1, FreeTyped DEF Page!At, Page!Free, PageCall

\* Who awaited the slot awaits a token of the past, and nothing else changes.
LEMMA OutdatedOK ==
    ASSUME NEW c \in [Calls -> PageCall], NEW k \in {0, 1}
    PROVE  /\ Page!Outdated(c, k) \in [Calls -> PageCall]
           /\ \A p \in Calls :
                 IF c[p].at = "await" /\ c[p].slot = k
                 THEN /\ Page!Outdated(c, k)[p].at = "stale"
                      /\ Page!Outdated(c, k)[p].kind = c[p].kind
                      /\ Page!Outdated(c, k)[p].fresh = c[p].fresh
                      /\ Page!Outdated(c, k)[p].offset = c[p].offset
                      /\ Page!Outdated(c, k)[p].attempts = c[p].attempts
                 ELSE Page!Outdated(c, k)[p] = c[p]
<1>1. ASSUME NEW p \in Calls
      PROVE  /\ [c[p] EXCEPT !.at = "stale"] \in PageCall
             /\ [c[p] EXCEPT !.at = "stale"].kind = c[p].kind
             /\ [c[p] EXCEPT !.at = "stale"].fresh = c[p].fresh
             /\ [c[p] EXCEPT !.at = "stale"].offset = c[p].offset
             /\ [c[p] EXCEPT !.at = "stale"].attempts = c[p].attempts
             /\ [c[p] EXCEPT !.at = "stale"].at = "stale"
  <2>1. c[p] \in PageCall
    OBVIOUS
  <2>2. QED
    BY <2>1 DEF PageCall
<1>2. QED
  BY <1>1 DEF Page!Outdated

\* What becomes of the calls when the page is reset.
Reset(d, c) ==
    /\ c.at \in {"free", "fetch"} => d.at = c.at /\ d.kind = c.kind
    /\ c.at \notin {"free", "fetch"} => d.at \notin {"free", "fetch"}
    /\ d.kind = "show" => ~d.fresh
    /\ d.kind # "show" => d.fresh = c.fresh

\* A new feedGeneration leaves each call where it was, or with a token of the past.
LEMMA SupersededOK ==
    ASSUME NEW c \in [Calls -> PageCall]
    PROVE  /\ Page!Superseded(c) \in [Calls -> PageCall]
           /\ \A p \in Calls : Reset(Page!Superseded(c)[p], c[p]) /\ Page!Superseded(c)[p].of = c[p].of
<1> DEFINE a == Page!Outdated(c, 0)
           d == Page!Outdated(a, 1)
<1>1. a \in [Calls -> PageCall]
  BY OutdatedOK
<1>2. d \in [Calls -> PageCall]
  BY <1>1, OutdatedOK
<1>3. Page!Superseded(c) = [p \in Calls |-> [d[p] EXCEPT !.fresh = @ /\ d[p].kind # "show"]]
  BY DEF Page!Superseded
<1>4. ASSUME NEW p \in Calls
      PROVE  /\ d[p].kind = c[p].kind /\ d[p].of = c[p].of /\ d[p].fresh = c[p].fresh
             /\ d[p].at = c[p].at \/ (d[p].at = "stale" /\ c[p].at = "await")
  <2>1. a[p] = IF c[p].at = "await" /\ c[p].slot = 0 THEN [c[p] EXCEPT !.at = "stale"] ELSE c[p]
    BY DEF Page!Outdated
  <2>2. d[p] = IF a[p].at = "await" /\ a[p].slot = 1 THEN [a[p] EXCEPT !.at = "stale"] ELSE a[p]
    BY DEF Page!Outdated
  <2>3. c[p] \in PageCall /\ a[p] \in PageCall
    BY <1>1
  <2> HIDE DEF a, d
  <2>4. /\ a[p].kind = c[p].kind /\ a[p].of = c[p].of /\ a[p].fresh = c[p].fresh
        /\ a[p].at = c[p].at \/ (a[p].at = "stale" /\ c[p].at = "await")
    BY <2>1, <2>3 DEF PageCall
  <2>5. /\ d[p].kind = a[p].kind /\ d[p].of = a[p].of /\ d[p].fresh = a[p].fresh
        /\ d[p].at = a[p].at \/ (d[p].at = "stale" /\ a[p].at = "await")
    BY <2>2, <2>3 DEF PageCall
  <2>6. QED
    BY <2>4, <2>5
<1> HIDE DEF a, d
<1>5. ASSUME NEW p \in Calls
      PROVE  /\ [d[p] EXCEPT !.fresh = @ /\ d[p].kind # "show"] \in PageCall
             /\ Reset([d[p] EXCEPT !.fresh = @ /\ d[p].kind # "show"], c[p])
             /\ [d[p] EXCEPT !.fresh = @ /\ d[p].kind # "show"].of = c[p].of
  <2> DEFINE e == [d[p] EXCEPT !.fresh = @ /\ d[p].kind # "show"]
  <2>1. d[p] \in PageCall
    BY <1>2
  <2>2. /\ e \in PageCall /\ e.at = d[p].at /\ e.kind = d[p].kind /\ e.of = d[p].of
        /\ d[p].kind = "show" => ~e.fresh
        /\ d[p].kind # "show" => e.fresh = d[p].fresh
    BY <2>1 DEF PageCall
  <2> HIDE DEF e
  <2>3. Reset(e, c[p]) /\ e.of = c[p].of
    BY <1>4, <2>2 DEF Reset
  <2>4. QED
    BY <2>2, <2>3 DEF e
<1>6. QED
  BY <1>3, <1>5, ZenonT(30)

\* What most steps leave of the page's state.
SameList(s, t) == t.items = s.items /\ t.orientation = s.orientation

\* resetSlot empties one slot.
LEMMA ResetSlotOK ==
    ASSUME NEW s \in PageState, NEW k \in {0, 1}, NEW t, t = Page!ResetSlot(s, k)
    PROVE  /\ t \in PageState /\ SameList(s, t) /\ t.failed = s.failed /\ t.moving = s.moving
           /\ t.activeSlot = s.activeSlot /\ t.activeIndex = s.activeIndex
           /\ t.slots[k] = Page!EmptySlot /\ t.slots[1 - k] = s.slots[1 - k]
<1>1. Page!EmptySlot \in Elements
  BY DEF Page!EmptySlot, Page!NoIndex, Elements
<1>2. t = [s EXCEPT !.slots[k] = Page!EmptySlot]
  BY DEF Page!ResetSlot
<1> HIDE DEF Page!EmptySlot
<1>3. QED
  BY <1>1, <1>2 DEF PageState, SameList

\* A reset empties the list and both slots.
LEMMA ClearedOK ==
    ASSUME NEW s \in PageState, NEW m \in BOOLEAN, NEW t, t = [Page!Cleared(s) EXCEPT !.moving = m]
    PROVE  /\ t \in PageState /\ t.orientation = s.orientation /\ t.items = Page!NoItems
           /\ t.failed = {} /\ t.activeIndex = Page!NoIndex /\ t.moving = m
           /\ \A k \in {0, 1} : t.slots[k] = Page!EmptySlot
<1>1. Page!EmptySlot \in Elements /\ Page!NoItems \in [of: SUBSET Orientations, len: Nat]
      /\ Page!NoIndex \in Int
  BY DEF Page!EmptySlot, Page!NoIndex, Elements, Page!NoItems
<1>2. t = [s EXCEPT !.items = Page!NoItems, !.failed = {}, !.activeIndex = Page!NoIndex,
                    !.slots = [k \in {0, 1} |-> Page!EmptySlot], !.moving = m]
  BY DEF Page!Cleared
<1> DEFINE both == [k \in {0, 1} |-> Page!EmptySlot]
<1>3. both \in [{0, 1} -> Elements] /\ \A k \in {0, 1} : both[k] = Page!EmptySlot
  BY <1>1
<1> HIDE DEF both, Page!EmptySlot, Page!NoItems, Page!NoIndex
<1>4. t = [s EXCEPT !.items = Page!NoItems, !.failed = {}, !.activeIndex = Page!NoIndex,
                    !.slots = both, !.moving = m]
  BY <1>2 DEF both
<1>5. t \in PageState /\ t.orientation = s.orientation /\ t.items = Page!NoItems
      /\ t.failed = {} /\ t.activeIndex = Page!NoIndex /\ t.moving = m /\ t.slots = both
  BY <1>1, <1>3, <1>4 DEF PageState
<1>6. QED
  BY <1>3, <1>5

\* prepareFailedSlot left the item in a slot: the rest of the page's state is as it was.
Prepared(s, t, k, i) ==
    /\ t \in PageState /\ SameList(s, t) /\ t.failed = s.failed /\ t.moving = s.moving
    /\ t.activeSlot = s.activeSlot /\ t.activeIndex = s.activeIndex
    /\ t.slots[1 - k] = s.slots[1 - k]
    /\ s.items.len > 0 => /\ t.slots[k].index = i /\ t.slots[k].src = i
                          /\ ~t.slots[k].pending /\ ~t.slots[k].ready
    /\ s.items.len = 0 => t = s

\* prepareFailedSlot leaves the item in the slot, if there is a list.
LEMMA PrepareOK ==
    ASSUME NEW s \in PageState, NEW k \in {0, 1}, NEW i \in Int,
           NEW t, t = Page!PrepareFailedSlot(s, k, i)
    PROVE  Prepared(s, t, k, i)
<1> DEFINE e == [Page!EmptySlot EXCEPT !.index = i, !.src = i]
<1>1. e \in Elements /\ e.index = i /\ e.src = i /\ ~e.pending /\ ~e.ready
  BY DEF Page!EmptySlot, Page!NoIndex, Elements
<1>2. t = IF s.items.len = 0 THEN s ELSE [s EXCEPT !.slots[k] = e]
  BY DEF Page!PrepareFailedSlot
<1> HIDE DEF e
<1>3. CASE s.items.len = 0
  BY <1>2, <1>3 DEF PageState, SameList, Prepared
<1>4. CASE s.items.len # 0
  BY <1>1, <1>2, <1>4 DEF PageState, SameList, Prepared
<1>5. QED
  BY <1>3, <1>4

\* An emptied slot neither loads nor is ready.
LEMMA EmptyElement ==
    /\ ElementOK(Page!EmptySlot) /\ ~Page!EmptySlot.pending /\ ~Page!EmptySlot.ready
    /\ Page!EmptySlot.index = Page!NoIndex
BY DEF Page!EmptySlot, ElementOK

\* The index a search is at, and the first that did not fail yet.
LEMMA TryIsFirst ==
    ASSUME PageTyped, NEW p \in Calls
    PROVE  /\ Page!Tries(p) = {} <=> Hopeless(call[p], state)
           /\ Page!Tries(p) # {} =>
                 /\ Page!Try(p) \in call[p].offset .. call[p].attempts - 1
                 /\ state.items.len > 0 /\ Page!IndexAt(p, Page!Try(p)) \notin state.failed
                 /\ \A o \in call[p].offset .. Page!Try(p) - 1 : Page!Skipped(p, o)
<1>1. call[p] \in PageCall /\ state \in PageState
  BY DEF PageTyped
<1>2. Page!Tries(p) = {} <=> Hopeless(call[p], state)
  BY DEF Page!Tries, Page!Skipped, Page!IndexAt, Hopeless
<1>3. ASSUME Page!Tries(p) # {}
      PROVE  Page!Try(p) \in Page!Tries(p) /\ \A o \in Page!Tries(p) : Page!Try(p) <= o
  <2> DEFINE B == Page!Tries(p)
  <2>1. call[p].attempts \in Nat /\ call[p].offset \in Nat
    BY <1>1 DEF PageCall
  <2>2. B \in SUBSET (0 .. call[p].attempts)
    BY <2>1 DEF Page!Tries
  <2>3. \E k \in B : \A m \in B : k <= m
    BY <1>3, <2>1, <2>2, SmallestUpTo
  <2> HIDE DEF B
  <2>4. Page!Min(B) \in B /\ \A m \in B : Page!Min(B) <= m
    BY <2>3 DEF Page!Min
  <2>5. QED
    BY <2>4 DEF Page!Try, B
<1>4. ASSUME Page!Tries(p) # {}
      PROVE  /\ Page!Try(p) \in call[p].offset .. call[p].attempts - 1
             /\ ~Page!Skipped(p, Page!Try(p))
             /\ \A o \in call[p].offset .. Page!Try(p) - 1 : Page!Skipped(p, o)
  <2>1. call[p].attempts \in Nat /\ call[p].offset \in Nat
    BY <1>1 DEF PageCall
  <2>2. Page!Try(p) \in call[p].offset .. call[p].attempts - 1 /\ ~Page!Skipped(p, Page!Try(p))
    BY <1>3, <1>4 DEF Page!Tries
  <2>3. ASSUME NEW o \in call[p].offset .. Page!Try(p) - 1, ~Page!Skipped(p, o) PROVE FALSE
    <3>1. o \in call[p].offset .. call[p].attempts - 1 /\ o < Page!Try(p)
      BY <2>1, <2>2
    <3>2. o \in Page!Tries(p)
      BY <2>3, <3>1 DEF Page!Tries
    <3>3. Page!Try(p) <= o
      BY <1>3, <1>4, <3>2
    <3>4. QED
      BY <2>1, <2>2, <3>1, <3>3
  <2>4. QED
    BY <2>2, <2>3
<1>5. state.items.len \in Nat
  BY <1>1 DEF PageState
<1>6. QED
  BY <1>2, <1>4, <1>5 DEF Page!Skipped

-----------------------------------------------------------------------------
(* What the conditions on a call depend on. *)

\* The page as calls see it, but for `moving`.
SamePage(s, t) ==
    /\ t.items = s.items /\ t.failed = s.failed /\ t.slots = s.slots
    /\ t.activeSlot = s.activeSlot /\ t.activeIndex = s.activeIndex

\* The conditions on calls look at no more of the page than SamePage, but for a transition.
LEMMA SamePageOK ==
    ASSUME NEW s, NEW t, SamePage(s, t)
    PROVE  /\ \A c : CallOK(c, s) /\ (Main(c) => t.moving) => CallOK(c, t)
           /\ \A c, d : PairOK(c, d, s) => PairOK(c, d, t)
<1>1. /\ Target(t) = Target(s) /\ Base(t) = Base(s) /\ Page!Attempts(t) = Page!Attempts(s)
      /\ t.items.len = s.items.len /\ t.failed = s.failed /\ t.slots = s.slots
      /\ t.activeIndex = s.activeIndex /\ t.activeSlot = s.activeSlot
  BY DEF SamePage, Target, Base, Page!Attempts
<1>2. \A j : Idx(t, j) = Idx(s, j)
  BY <1>1 DEF Idx
<1>3. \A n : Failed(t, n) = Failed(s, n)
  BY <1>1, <1>2 DEF Failed
<1>4. \A j, i : Reaches(t, j, i) = Reaches(s, j, i)
  BY <1>1, <1>2, <1>3 DEF Reaches
<1>5. \A i : IsIndex(t, i) = IsIndex(s, i)
  BY <1>1 DEF IsIndex
<1>6. \A c : Hopeless(c, t) = Hopeless(c, s)
  BY <1>1 DEF Hopeless
<1>7. NonePending(t) = NonePending(s)
  BY <1>1 DEF NonePending
<1>8. \A c : Searches(c, t) = Searches(c, s)
  BY <1>1 DEF Searches
<1>9. \A c : LoopOK(c, t) = LoopOK(c, s)
  BY <1>3, <1>5, <1>6, <1>8 DEF LoopOK
<1>10. ASSUME NEW c, CallOK(c, s), Main(c) => t.moving PROVE CallOK(c, t)
  BY <1>1, <1>3, <1>4, <1>5, <1>7, <1>8, <1>9, <1>10 DEF CallOK
<1>11. ASSUME NEW c, NEW d, PairOK(c, d, s) PROVE PairOK(c, d, t)
  BY <1>1, <1>6, <1>11 DEF PairOK
<1>12. QED
  BY <1>10, <1>11

\* A call that waits for a page of the feed or for a promise of the past depends on little.
Resting(c) == c.at \in {"free", "fetch", "stale"}

\* What a call that waits depends on.
LEMMA RestingOK ==
    ASSUME NEW s, NEW t, NEW c, CallOK(c, s), FetchOK(c, s), Resting(c),
           t.items = s.items, Main(c) => t.moving
    PROVE  CallOK(c, t)
<1>1. c.kind # "next"
  BY DEF CallOK, FetchOK, Resting
<1>2. t.items.len = s.items.len
  OBVIOUS
<1>3. ~c.fresh => c.at = "fetch"
  BY DEF CallOK
<1>4. Working(c) => t.items.len > 0
  BY <1>2 DEF CallOK
<1>5. c.at = "fetch" /\ c.fresh => t.items.len = 0
  BY <1>2 DEF CallOK
<1>6. c.at = "stale" => c.kind = "preload" /\ c.offset + 1 >= c.attempts
  BY DEF CallOK
<1>7. c.at \notin {"loop", "await", "found", "swap", "play"}
  BY DEF Resting
<1>8. QED
  BY <1>1, <1>3, <1>4, <1>5, <1>6, <1>7 DEF CallOK

\* Two calls beside each other change only by a search that begins or goes on.
LEMMA PairAside ==
    ASSUME NEW c, NEW d, NEW e, NEW s, NEW t, PairOK(c, d, s),
           e.at # "loop", Main(e) => Main(d), Working(e) => Working(d)
    PROVE  PairOK(c, e, t)
BY DEF PairOK

\* A call stays beside another as what it was.
LEMMA PairWith ==
    ASSUME NEW c, NEW d, NEW e, NEW s, NEW t, PairOK(c, d, s), d.at # "loop",
           Main(e) => Main(c) /\ e.kind = c.kind
    PROVE  PairOK(e, d, t)
BY DEF PairOK

\* A free call disturbs no other.
LEMMA PairWithFree ==
    ASSUME NEW c, NEW d, NEW s, c.at = "free"
    PROVE  PairOK(c, d, s) /\ PairOK(d, c, s)
BY DEF PairOK, Main, Working

\* What is known of a free call.
LEMMA FreeCall ==
    /\ Page!Free.at = "free" /\ Page!Free.kind = "none" /\ Page!Free.fresh
    /\ \A s : FetchOK(Page!Free, s) /\ CallOK(Page!Free, s)
BY DEF Page!Free, FetchOK, CallOK, Main, Working

\* A step of one call that leaves the page alone.
LEMMA OneCall ==
    ASSUME PageInv, NEW p \in Calls, NEW c \in PageCall, call' = [call EXCEPT ![p] = c],
           state' = state, overlapped' = overlapped, FetchOK(c, state),
           ~overlapped => /\ CallOK(c, state)
                          /\ \A q \in Calls \ {p} : PairOK(c, call[q], state) /\ PairOK(call[q], c, state)
    PROVE  PageInv'
<1>1. call \in [Calls -> PageCall]
  BY DEF PageInv, PageTyped
<1>2. call' \in [Calls -> PageCall] /\ \A q \in Calls : call'[q] = IF q = p THEN c ELSE call[q]
  BY <1>1
<1>3. PageTyped'
  BY <1>2 DEF PageInv, PageTyped
<1>4. ListOK'
  BY <1>2 DEF PageInv, ListOK
<1>5. ASSUME ~overlapped PROVE Calm'
  <2>1. PageHolds(state)'
    BY <1>5 DEF PageInv, Calm
  <2>2. \A q \in Calls : CallOK(call'[q], state)
    BY <1>2, <1>5 DEF PageInv, Calm
  <2>3. ASSUME NEW q \in Calls, NEW r \in Calls, q # r
        PROVE  PairOK(call'[q], call'[r], state)
    BY <1>2, <1>5, <2>3 DEF PageInv, Calm
  <2>4. QED
    BY <2>1, <2>2, <2>3 DEF Calm
<1>6. QED
  BY <1>3, <1>4, <1>5 DEF PageInv

\* A call that ends leaves the others as they were.
LEMMA CallEnds ==
    ASSUME PageInv, NEW p \in Calls, call' = [call EXCEPT ![p] = Page!Free],
           state' = state, overlapped' = overlapped
    PROVE  PageInv'
BY FreeTyped, FreeCall, PairWithFree, OneCall

\* What is known of a call, and of two.
LEMMA CalmFacts ==
    ASSUME PageInv, ~overlapped
    PROVE  /\ PageHolds(state)
           /\ \A p \in Calls : CallOK(call[p], state)
           /\ \A p, q \in Calls : p # q => PairOK(call[p], call[q], state)
BY DEF PageInv, Calm

\* A search that can still load an index is the one of the page's state.
LEMMA SearchGoesOn ==
    ASSUME PageInv, ~overlapped, NEW p \in Calls, call[p].at = "loop", Page!Tries(p) # {}
    PROVE  /\ Searches(call[p], state) /\ state.items.len > 0
           /\ Page!Try(p) \in 0 .. Page!Attempts(state) - 1
           /\ Page!IndexAt(p, Page!Try(p)) = Idx(state, Page!Try(p))
           /\ Idx(state, Page!Try(p)) \notin state.failed
           /\ IsIndex(state, Idx(state, Page!Try(p)))
           /\ Failed(state, Page!Try(p))
           /\ Base(state) \in Nat
<1>1. call[p] \in PageCall /\ state \in PageState
  BY DEF PageInv, PageTyped
<1>2. CallOK(call[p], state)
  BY CalmFacts
<1>3. /\ ~Hopeless(call[p], state)
      /\ Page!Try(p) \in call[p].offset .. call[p].attempts - 1
      /\ state.items.len > 0 /\ Page!IndexAt(p, Page!Try(p)) \notin state.failed
      /\ \A o \in call[p].offset .. Page!Try(p) - 1 : Page!Skipped(p, o)
  BY TryIsFirst DEF PageInv
<1>4. Searches(call[p], state) /\ call[p].offset \in 0 .. call[p].attempts /\ Failed(state, call[p].offset)
  BY <1>2, <1>3 DEF CallOK, LoopOK
<1>5. /\ call[p].start = Base(state) /\ call[p].attempts = Page!Attempts(state)
      /\ call[p].attempts \in Nat /\ call[p].offset \in Nat
  BY <1>1, <1>4 DEF Searches, PageCall
<1>6. Base(state) \in Nat /\ Base(state) # Page!NotANumber
  <2>1. state.items.len \in Nat /\ state.activeIndex \in Int
    BY <1>1 DEF PageState
  <2>2. state.activeIndex # Page!NoIndex => IsIndex(state, state.activeIndex)
    BY CalmFacts DEF PageHolds
  <2>3. QED
    BY <1>3, <2>1, <2>2 DEF Base, IsIndex, Page!NotANumber
<1>7. \A o : Page!IndexAt(p, o) = Idx(state, o)
  BY <1>3, <1>5, <1>6 DEF Page!IndexAt, Idx
<1>8. \A o \in call[p].offset .. Page!Try(p) - 1 : Idx(state, o) \in state.failed
  BY <1>3, <1>7 DEF Page!Skipped
<1>9. Failed(state, Page!Try(p))
  <2>1. \A o \in 0 .. call[p].offset - 1 : Idx(state, o) \in state.failed
    BY <1>4 DEF Failed
  <2>2. Page!Try(p) \in Int
    BY <1>3, <1>5
  <2>3. \A o \in 0 .. Page!Try(p) - 1 : Idx(state, o) \in state.failed
    BY <1>5, <1>8, <2>1, <2>2
  <2>4. QED
    BY <2>3 DEF Failed
<1>10. Page!Try(p) \in 0 .. Page!Attempts(state) - 1
  BY <1>3, <1>5
<1>11. IsIndex(state, Idx(state, Page!Try(p)))
  <2>1. state.items.len \in Nat
    BY <1>1 DEF PageState
  <2>2. Page!Try(p) \in Nat
    BY <1>10, <1>5
  <2>3. QED
    BY <1>3, <1>6, <2>1, <2>2 DEF IsIndex, Idx
<1>12. QED
  BY <1>3, <1>4, <1>6, <1>7, <1>9, <1>10, <1>11

\* A search with no attempt left is hopeless for every other one too.
LEMMA AllFailed ==
    ASSUME NEW s \in PageState, NEW c, Searches(c, s), c.offset \in Nat,
           Failed(s, Page!Attempts(s)), Base(s) \in Nat
    PROVE  Hopeless(c, s)
<1>1. Page!Attempts(s) \in Nat
  BY AttemptsOK
<1>2. c.start = Base(s) /\ c.attempts = Page!Attempts(s) /\ Base(s) # Page!NotANumber
  BY DEF Searches, Page!NotANumber
<1>3. ASSUME NEW o \in c.offset .. c.attempts - 1
      PROVE  (c.start + o) % s.items.len \in s.failed
  BY <1>1, <1>2 DEF Failed, Idx
<1>4. QED
  BY <1>2, <1>3 DEF Hopeless

-----------------------------------------------------------------------------
(* The steps that move one call and leave the page alone. *)

\* A search finds its item loaded.
LEMMA AlreadyLoadedOK == ASSUME PageInv, NEW p \in Calls, Page!AlreadyLoaded(p) PROVE PageInv'
<1> DEFINE i == Page!IndexAt(p, Page!Try(p))
           k == call[p].slot
           yes == TRUE
           c == Page!At(p, "found", i, yes)
<1>1. /\ call[p].at = "loop" /\ Page!Tries(p) # {} /\ i # Page!NotANumber
      /\ state.slots[k].index = i /\ state.slots[k].ready
      /\ call' = [call EXCEPT ![p] = c] /\ UNCHANGED <<state, overlapped>>
  BY DEF Page!AlreadyLoaded
<1>2. call[p] \in PageCall /\ state \in PageState /\ call \in [Calls -> PageCall]
  BY DEF PageInv, PageTyped
<1>3. i \in Int
  <2>1. k \in {0, 1}
    BY <1>2 DEF PageCall
  <2>2. state.slots[k] \in Elements
    BY <1>2, <2>1 DEF PageState
  <2>3. QED
    BY <1>1, <2>2 DEF Elements
<1> HIDE DEF i
<1>4. /\ c \in PageCall /\ c.at = "found" /\ c.kind = call[p].kind /\ c.fresh = call[p].fresh
      /\ c.slot = k /\ c.index = i /\ c.playable
  <2>1. yes \in BOOLEAN
    OBVIOUS
  <2>2. c = Page!At(p, "found", i, yes)
    OBVIOUS
  <2> HIDE DEF yes, c
  <2>3. /\ c \in PageCall /\ c.at = "found" /\ c.kind = call[p].kind /\ c.fresh = call[p].fresh
        /\ c.slot = call[p].slot /\ c.index = i /\ c.playable = yes
    BY <1>2, <1>3, <2>1, <2>2, AtOK
  <2>4. QED
    BY <2>3 DEF yes
<1>5. FetchOK(c, state)
  BY <1>4 DEF FetchOK
<1> HIDE DEF c
<1>6. ASSUME ~overlapped PROVE CallOK(c, state)
  <2>1. CallOK(call[p], state)
    BY <1>6, CalmFacts
  <2>2. Searches(call[p], state) /\ state.items.len > 0 /\ IsIndex(state, i)
    BY <1>1, <1>6, SearchGoesOn DEF i
  <2>3. k = Target(state) /\ k \in {0, 1}
    BY <1>2, <2>2 DEF Searches, PageCall
  <2>4. NonePending(state) /\ state.slots[k].src = i
    <3>1. ~state.slots[k].pending /\ state.slots[k].src = i
      BY <1>1, <2>3 DEF PageInv, ListOK, ElementOK
    <3>2. \A m \in {0, 1} : state.slots[m].pending => m = k
      BY <1>6, <2>3, CalmFacts DEF PageHolds
    <3>3. QED
      BY <3>1, <3>2 DEF NonePending
  <2>5. Main(c) => state.moving
    BY <1>1, <1>4, <2>1 DEF CallOK, Main
  <2>6. c.fresh /\ c.kind # "none"
    BY <1>1, <1>4, <2>1 DEF CallOK
  <2>7. /\ c.kind = "show" => state.activeIndex = Page!NoIndex
        /\ c.kind = "next" => state.activeIndex # Page!NoIndex
    BY <1>1, <1>4, <2>1 DEF CallOK
  <2>8. QED
    BY <1>4, <2>2, <2>3, <2>4, <2>5, <2>6, <2>7 DEF CallOK
<1>7. ASSUME ~overlapped, NEW q \in Calls \ {p}
      PROVE  PairOK(c, call[q], state) /\ PairOK(call[q], c, state)
  <2>1. PairOK(call[p], call[q], state) /\ PairOK(call[q], call[p], state)
    BY <1>7, CalmFacts
  <2>2. k = Target(state)
    BY <1>1, <1>7, SearchGoesOn DEF Searches
  <2>3. Main(c) = Main(call[p]) /\ Working(c) = Working(call[p])
    BY <1>1, <1>4 DEF Main, Working
  <2>4. PairOK(c, call[q], state)
    BY <1>1, <1>4, <2>1, <2>2, <2>3 DEF PairOK
  <2>5. PairOK(call[q], c, state)
    BY <1>4, <2>1, <2>3, PairAside
  <2>6. QED
    BY <2>4, <2>5
<1>8. QED
  BY <1>1, <1>4, <1>5, <1>6, <1>7, OneCall

\* A search ends with its attempts: nothing it can try plays.
LEMMA GiveUpOK == ASSUME PageInv, NEW p \in Calls, Page!GiveUp(p) PROVE PageInv'
<1> DEFINE last == IF call[p].offset < call[p].attempts
                   THEN Page!IndexAt(p, call[p].attempts - 1) ELSE call[p].index
           no == FALSE
           c == Page!At(p, "found", last, no)
<1>1. /\ call[p].at = "loop" /\ Page!Tries(p) = {}
      /\ call' = [call EXCEPT ![p] = c] /\ UNCHANGED <<state, overlapped>>
  BY DEF Page!GiveUp
<1>2. call[p] \in PageCall /\ state \in PageState /\ call \in [Calls -> PageCall]
  BY DEF PageInv, PageTyped
<1>3. /\ call[p].offset \in Nat /\ call[p].attempts \in Nat /\ call[p].index \in Int
      /\ call[p].start \in Int /\ state.items.len \in Nat
  BY <1>2 DEF PageCall, PageState
<1>4. \A o \in Int : Page!IndexAt(p, o) \in Int
  BY <1>3 DEF Page!IndexAt, Page!NotANumber
<1>5. last \in Int
  BY <1>3, <1>4
<1>6. /\ c \in PageCall /\ c.at = "found" /\ c.kind = call[p].kind /\ c.fresh = call[p].fresh
      /\ c.slot = call[p].slot /\ c.index = last /\ ~c.playable
  <2>1. no \in BOOLEAN /\ ~no
    OBVIOUS
  <2> HIDE DEF last, no
  <2>2. QED
    BY <1>2, <1>5, <2>1, AtOK
<1> HIDE DEF c
<1>7. FetchOK(c, state)
  BY <1>6 DEF FetchOK
<1>8. Hopeless(call[p], state)
  BY <1>1, TryIsFirst DEF PageInv
<1>9. ASSUME ~overlapped, call[p].kind # "preload"
      PROVE  /\ Searches(call[p], state) /\ IsIndex(state, last) /\ Base(state) \in Nat
             /\ Failed(state, Page!Attempts(state))
  <2>1. CallOK(call[p], state) /\ PageHolds(state)
    BY <1>9, CalmFacts
  <2>2. state.items.len > 0 /\ LoopOK(call[p], state)
    BY <1>1, <2>1 DEF CallOK, Working
  <2>3. /\ Searches(call[p], state) /\ call[p].offset \in 0 .. call[p].attempts
        /\ Failed(state, call[p].offset)
        /\ call[p].offset = call[p].attempts => IsIndex(state, call[p].index)
    BY <1>9, <2>2 DEF LoopOK
  <2>4. Base(state) \in Nat
    <3>1. state.activeIndex \in Int
      BY <1>2 DEF PageState
    <3>2. QED
      BY <1>3, <2>1, <2>2, <3>1 DEF PageHolds, IsIndex, Base
  <2>5. \A o \in call[p].offset .. call[p].attempts - 1 : Idx(state, o) \in state.failed
    BY <1>3, <1>8, <2>2, <2>3, <2>4 DEF Hopeless, Searches, Idx, Page!NotANumber
  <2>6. Failed(state, Page!Attempts(state))
    <3>1. \A o \in 0 .. call[p].offset - 1 : Idx(state, o) \in state.failed
      BY <2>3 DEF Failed
    <3>2. \A o \in 0 .. call[p].attempts - 1 : Idx(state, o) \in state.failed
      BY <1>3, <2>5, <3>1
    <3>3. QED
      BY <2>3, <3>2 DEF Failed, Searches
  <2>7. IsIndex(state, last)
    <3>1. CASE call[p].offset < call[p].attempts
      <4>1. last = (Base(state) + (call[p].attempts - 1)) % state.items.len
        BY <2>2, <2>3, <2>4, <3>1 DEF Page!IndexAt, Searches, Page!NotANumber
      <4>2. QED
        BY <1>3, <2>2, <2>4, <3>1, <4>1 DEF IsIndex
    <3>2. CASE ~(call[p].offset < call[p].attempts)
      BY <1>3, <2>3, <3>2
    <3>3. QED
      BY <3>1, <3>2
  <2>8. QED
    BY <2>3, <2>4, <2>6, <2>7
<1> HIDE DEF last
<1>10. ASSUME ~overlapped PROVE CallOK(c, state)
  <2>1. CallOK(call[p], state)
    BY <1>10, CalmFacts
  <2>2. Main(c) => state.moving
    BY <1>1, <1>6, <2>1 DEF CallOK, Main
  <2>3. c.fresh /\ c.kind # "none" /\ state.items.len > 0
    BY <1>1, <1>6, <2>1 DEF CallOK, Working
  <2>4. /\ c.kind = "show" => state.activeIndex = Page!NoIndex
        /\ c.kind = "next" => state.activeIndex # Page!NoIndex
    BY <1>1, <1>6, <2>1 DEF CallOK
  <2>5. c.kind # "preload" => /\ c.slot = Target(state) /\ IsIndex(state, c.index)
                              /\ Failed(state, Page!Attempts(state))
    BY <1>6, <1>9, <1>10 DEF Searches
  <2>6. QED
    BY <1>6, <2>2, <2>3, <2>4, <2>5 DEF CallOK
<1>11. ASSUME ~overlapped, NEW q \in Calls \ {p}
       PROVE  PairOK(c, call[q], state) /\ PairOK(call[q], c, state)
  <2>1. PairOK(call[p], call[q], state) /\ PairOK(call[q], call[p], state) /\ CallOK(call[q], state)
    BY <1>11, CalmFacts
  <2>2. Main(c) = Main(call[p]) /\ Working(c) = Working(call[p])
    BY <1>1, <1>6 DEF Main, Working
  <2>3. Main(c) /\ call[q].at = "loop" => Hopeless(call[q], state)
    <3>1. SUFFICES ASSUME Main(c), call[q].at = "loop", ~Hopeless(call[q], state) PROVE FALSE
      OBVIOUS
    <3>2. Searches(call[q], state) /\ call[q].offset \in Nat
      <4>1. call[q] \in PageCall
        BY <1>2
      <4>2. QED
        BY <2>1, <3>1, <4>1 DEF CallOK, LoopOK, PageCall
    <3>3. call[p].kind # "preload"
      BY <1>6, <3>1 DEF Main
    <3>4. QED
      BY <1>2, <1>9, <1>11, <3>1, <3>2, <3>3, AllFailed
  <2>4. PairOK(c, call[q], state)
    BY <1>1, <1>6, <2>1, <2>2, <2>3 DEF PairOK
  <2>5. PairOK(call[q], c, state)
    BY <1>6, <2>1, <2>2, PairAside
  <2>6. QED
    BY <2>4, <2>5
<1>12. QED
  BY <1>1, <1>6, <1>7, <1>10, <1>11, OneCall

\* A wait with a token of the past ends in a loop that has no index left.
LEMMA StaleWaitEndsOK == ASSUME PageInv, NEW p \in Calls, Page!StaleWaitEnds(p) PROVE PageInv'
<1> DEFINE c == [call[p] EXCEPT !.at = "loop", !.offset = @ + 1]
<1>1. /\ Page!Quiet /\ call[p].at = "stale" /\ UNCHANGED <<state, overlapped>>
      /\ call' = [call EXCEPT ![p].at = "loop", ![p].offset = @ + 1]
  BY DEF Page!StaleWaitEnds
<1>2. call[p] \in PageCall /\ call \in [Calls -> PageCall] /\ state \in PageState
  BY DEF PageInv, PageTyped
<1>3. call' = [call EXCEPT ![p] = c]
  BY <1>1, <1>2
<1>4. /\ c \in PageCall /\ c.at = "loop" /\ c.kind = call[p].kind /\ c.fresh = call[p].fresh
      /\ c.attempts = call[p].attempts /\ c.offset = call[p].offset + 1
      /\ c.attempts \in Nat /\ c.offset \in Nat
  <2> DEFINE n == call[p].offset + 1
  <2>1. n \in Nat
    BY <1>2 DEF PageCall
  <2>2. c = [call[p] EXCEPT !.at = "loop", !.offset = n]
    OBVIOUS
  <2>3. n = call[p].offset + 1
    OBVIOUS
  <2> HIDE DEF n, c
  <2>4. QED
    BY <1>2, <2>1, <2>2, <2>3 DEF PageCall
<1> HIDE DEF c
<1>5. FetchOK(c, state)
  BY <1>4 DEF FetchOK
<1>6. ASSUME ~overlapped PROVE CallOK(c, state) /\ Hopeless(c, state) /\ ~Main(c)
  <2>1. CallOK(call[p], state)
    BY <1>6, CalmFacts
  <2>2. c.kind = "preload" /\ c.offset >= c.attempts
    BY <1>1, <1>4, <2>1 DEF CallOK
  <2>3. Hopeless(c, state)
    BY <1>4, <2>2 DEF Hopeless
  <2>4. c.fresh /\ state.items.len > 0
    BY <1>1, <1>4, <2>1 DEF CallOK, Working
  <2>5. QED
    BY <1>4, <2>2, <2>3, <2>4 DEF CallOK, LoopOK, Main
<1>7. ASSUME ~overlapped, NEW q \in Calls \ {p}
      PROVE  PairOK(c, call[q], state) /\ PairOK(call[q], c, state)
  <2>1. PairOK(call[p], call[q], state) /\ PairOK(call[q], call[p], state)
    BY <1>7, CalmFacts
  <2>2. Working(c) = Working(call[p])
    BY <1>1, <1>4 DEF Working
  <2>3. QED
    BY <1>6, <1>7, <2>1, <2>2 DEF PairOK
<1>8. QED
  BY <1>1, <1>3, <1>4, <1>5, <1>6, <1>7, OneCall

\* A page of the feed is of the orientation the request names.
LEMMA PageArrivesOK == ASSUME PageInv, NEW p \in Calls, Page!PageArrives(p) PROVE PageInv'
<1> DEFINE n == call[p].page + 1
           of == call[p].of \cup {state.orientation}
           c == [call[p] EXCEPT !.page = n, !.of = of]
<1>1. /\ call[p].at = "fetch" /\ UNCHANGED <<state, overlapped>>
      /\ call' = [call EXCEPT ![p] = IF call[p].fresh THEN c ELSE Page!Free]
  <2>1. call \in [Calls -> PageCall]
    BY DEF PageInv, PageTyped
  <2>2. QED
    BY <2>1 DEF Page!PageArrives, Page!StillCurrent
<1>2. CASE ~call[p].fresh
  BY <1>1, <1>2, CallEnds
<1>3. CASE call[p].fresh
  <2>1. call[p] \in PageCall /\ call \in [Calls -> PageCall] /\ state \in PageState
    BY DEF PageInv, PageTyped
  <2>2. /\ c \in PageCall /\ c.at = "fetch" /\ c.kind = call[p].kind /\ c.fresh
        /\ c.of = of
    <3>1. n \in Int /\ of \in SUBSET Orientations
      BY <2>1 DEF PageCall, PageState
    <3> HIDE DEF n, of
    <3>2. QED
      BY <1>1, <1>3, <2>1, <3>1 DEF PageCall
  <2>3. c.of = {state.orientation} /\ FetchOK(c, state)
    BY <1>1, <1>3, <2>2 DEF PageInv, ListOK, FetchOK
  <2>4. call' = [call EXCEPT ![p] = c]
    BY <1>1, <1>3
  <2> HIDE DEF c
  <2>5. ASSUME ~overlapped PROVE CallOK(c, state)
    <3>1. CallOK(call[p], state)
      BY <2>5, CalmFacts
    <3>2. Main(c) = Main(call[p]) /\ ~Working(c) /\ c.kind # "next"
      BY <1>1, <1>3, <2>2, <2>3 DEF Main, Working, FetchOK
    <3>3. QED
      BY <1>1, <1>3, <2>2, <3>1, <3>2 DEF CallOK
  <2>6. ASSUME ~overlapped, NEW q \in Calls \ {p}
        PROVE  PairOK(c, call[q], state) /\ PairOK(call[q], c, state)
    <3>1. PairOK(call[p], call[q], state) /\ PairOK(call[q], call[p], state)
      BY <2>6, CalmFacts
    <3>2. QED
      BY <1>1, <1>3, <2>2, <3>1 DEF PairOK, Main, Working
  <2>7. QED
    BY <1>1, <2>2, <2>3, <2>4, <2>5, <2>6, OneCall
<1>4. QED
  BY <1>2, <1>3

\* A preload ends.
LEMMA PreloadFoundOK == ASSUME PageInv, NEW p \in Calls, Page!PreloadFound(p) PROVE PageInv'
BY CallEnds DEF Page!PreloadFound

-----------------------------------------------------------------------------
(* The page is reset: for another orientation, and when the token comes or goes. *)

\* What a reset makes of a call: it is left idle, or its answer no longer counts.
Passed(d) ==
    /\ d.at = "free" => d.kind = "none" /\ d.fresh
    /\ d.at = "fetch" => d.kind = "show" /\ ~d.fresh /\ d.of # {}

\* The request that a reset begins.
Requesting(d, s) == d.at = "fetch" /\ d.kind = "show" /\ d.fresh /\ d.of = {s.orientation}

\* A call that is idle, or whose answer no longer counts, asks nothing of the page.
LEMMA PassedOK ==
    ASSUME NEW d, NEW s, Passed(d), d.at \in {"free", "fetch"}
    PROVE  CallOK(d, s) /\ ~Main(d) /\ ~Working(d)
<1>1. ~Main(d) /\ ~Working(d) /\ d.kind # "next"
  BY DEF Passed, Main, Working
<1>2. ~d.fresh => d.at = "fetch"
  BY DEF Passed
<1>3. d.at = "fetch" => ~d.fresh
  BY DEF Passed
<1>4. QED
  BY <1>1, <1>2, <1>3 DEF CallOK

\* A request that counts asks for a page without a list.
LEMMA RequestingOK ==
    ASSUME NEW d, NEW s, Requesting(d, s), s.moving, s.items.len = 0
    PROVE  CallOK(d, s) /\ ~Working(d)
<1>1. ~Working(d) /\ d.kind = "show" /\ d.at = "fetch" /\ d.fresh
  BY DEF Requesting, Working
<1>2. QED
  BY <1>1 DEF CallOK

\* A reset, with or without a new request.
LEMMA ResetHolds ==
    ASSUME PageInv, NEW s \in PageState, NEW m \in BOOLEAN, NEW fresh \in SUBSET Calls,
           state' = [Page!Cleared(s) EXCEPT !.moving = m],
           overlapped' = Page!Overlaps,
           call' \in [Calls -> PageCall],
           \A p, q \in fresh : p = q,
           fresh # {} => m,
           \A p \in fresh : Requesting(call'[p], s),
           \A p \in Calls \ fresh :
              /\ Passed(call'[p])
              /\ call[p].at \in {"free", "fetch"} => call'[p].at \in {"free", "fetch"}
    PROVE  PageInv'
<1>1. /\ state' \in PageState /\ state'.orientation = s.orientation /\ state'.items = Page!NoItems
      /\ state'.failed = {} /\ state'.activeIndex = Page!NoIndex /\ state'.moving = m
      /\ \A k \in {0, 1} : state'.slots[k] = Page!EmptySlot
  BY ClearedOK, ZenonT(30)
<1>2. PageTyped'
  BY <1>1 DEF PageTyped
<1>3. state'.items.len = 0
  BY <1>1 DEF Page!NoItems
<1>4. ListOK'
  <2>1. \A k \in {0, 1} : ElementOK(state'.slots[k])
    BY <1>1, EmptyElement
  <2>2. ASSUME NEW p \in Calls PROVE FetchOK(call'[p], state')
    <3>1. CASE p \in fresh
      BY <1>1, <3>1 DEF Requesting, FetchOK
    <3>2. CASE p \notin fresh
      BY <3>2 DEF Passed, FetchOK
    <3>3. QED
      BY <3>1, <3>2
  <2>3. QED
    BY <1>3, <2>1, <2>2 DEF ListOK
<1>5. ASSUME ~overlapped' PROVE Calm'
  <2>1. \A p \in Calls : call[p].at \in {"free", "fetch"}
    BY <1>5 DEF Page!Overlaps
  <2>2. ASSUME NEW p \in Calls
        PROVE  CallOK(call'[p], state') /\ ~Working(call'[p]) /\ (p \notin fresh => ~Main(call'[p]))
    <3>1. CASE p \in fresh
      <4>1. Requesting(call'[p], state')
        BY <1>1, <3>1 DEF Requesting
      <4>2. state'.moving
        BY <1>1, <3>1
      <4>3. QED
        BY <1>3, <3>1, <4>1, <4>2, RequestingOK
    <3>2. CASE p \notin fresh
      BY <2>1, <3>2, PassedOK
    <3>3. QED
      BY <3>1, <3>2
  <2>3. PageHolds(state')
    <3>1. \A k \in {0, 1} : ~state'.slots[k].pending
      BY <1>1, EmptyElement
    <3>2. QED
      BY <1>1, <1>3, <3>1 DEF PageHolds
  <2>4. ASSUME NEW p \in Calls, NEW q \in Calls, p # q
        PROVE  PairOK(call'[p], call'[q], state')
    <3>1. call'[q].at # "loop" /\ ~Working(call'[q])
      BY <2>2 DEF Working
    <3>2. ~(Main(call'[p]) /\ Main(call'[q]))
      BY <2>2, <2>4
    <3>3. QED
      BY <3>1, <3>2 DEF PairOK
  <2>5. QED
    BY <2>2, <2>3, <2>4 DEF Calm
<1>6. QED
  BY <1>2, <1>4, <1>5 DEF PageInv

\* A new feedGeneration makes every call one whose answer no longer counts.
LEMMA SupersededPasses ==
    ASSUME PageInv, NEW c \in [Calls -> PageCall],
           \A p \in Calls : c[p] = call[p] \/ c[p] = Page!Free
    PROVE  /\ Page!Superseded(c) \in [Calls -> PageCall]
           /\ \A p \in Calls :
                 /\ Passed(Page!Superseded(c)[p])
                 /\ call[p].at \in {"free", "fetch"} => Page!Superseded(c)[p].at \in {"free", "fetch"}
<1>1. /\ Page!Superseded(c) \in [Calls -> PageCall]
      /\ \A p \in Calls : Reset(Page!Superseded(c)[p], c[p]) /\ Page!Superseded(c)[p].of = c[p].of
  BY SupersededOK
<1>2. ASSUME NEW p \in Calls
      PROVE  /\ Passed(Page!Superseded(c)[p])
             /\ call[p].at \in {"free", "fetch"} => Page!Superseded(c)[p].at \in {"free", "fetch"}
  <2>1. FetchOK(c[p], state)
    <3>1. FetchOK(call[p], state) /\ FetchOK(Page!Free, state)
      BY FreeCall DEF PageInv, ListOK
    <3>2. QED
      BY <3>1
  <2>2. /\ Reset(Page!Superseded(c)[p], c[p]) /\ Page!Superseded(c)[p].of = c[p].of
    BY <1>1
  <2>3. c[p].at = call[p].at \/ c[p].at = "free"
    BY FreeCall
  <2> DEFINE d == Page!Superseded(c)[p]
             e == c[p]
  <2>4. Reset(d, e) /\ d.of = e.of /\ FetchOK(e, state) /\ (e.at = call[p].at \/ e.at = "free")
    BY <2>1, <2>2, <2>3
  <2> HIDE DEF d, e
  <2>5. Passed(d)
    BY <2>4 DEF Reset, FetchOK, Passed
  <2>6. call[p].at \in {"free", "fetch"} => d.at \in {"free", "fetch"}
    BY <2>4 DEF Reset
  <2>7. QED
    BY <2>5, <2>6 DEF d
<1>3. QED
  BY <1>1, <1>2

\* A reset without a new request.
LEMMA MissingAuthOK ==
    ASSUME PageInv, NEW c \in [Calls -> PageCall],
           \A p \in Calls : c[p] = call[p] \/ c[p] = Page!Free,
           NEW s \in PageState, state' = [Page!Cleared(s) EXCEPT !.moving = FALSE],
           call' = Page!Superseded(c), overlapped' = Page!Overlaps
    PROVE  PageInv'
<1> DEFINE fresh == {}
           no == FALSE
<1>1. fresh \in SUBSET Calls /\ no \in BOOLEAN
  OBVIOUS
<1>2. state' = [Page!Cleared(s) EXCEPT !.moving = no]
  OBVIOUS
<1>3. \A p, q \in fresh : p = q
  OBVIOUS
<1>4. fresh # {} => no
  OBVIOUS
<1>5. \A p \in fresh : Requesting(call'[p], s)
  OBVIOUS
<1> HIDE DEF fresh, no
<1>6. call' \in [Calls -> PageCall]
  BY SupersededPasses
<1>7. \A p \in Calls \ fresh :
              /\ Passed(call'[p])
              /\ call[p].at \in {"free", "fetch"} => call'[p].at \in {"free", "fetch"}
  BY SupersededPasses
<1>8. QED
  BY <1>1, <1>2, <1>3, <1>4, <1>5, <1>6, <1>7, ResetHolds

\* A reset with a new request.
LEMMA ShowFirstOK ==
    ASSUME PageInv, NEW p \in Calls, NEW s \in PageState, NEW hasToken, Page!ShowFirst(p, s, hasToken)
    PROVE  PageInv'
<1>1. call \in [Calls -> PageCall]
  BY DEF PageInv, PageTyped
<1>2. CASE ~hasToken
  BY <1>1, <1>2, MissingAuthOK DEF Page!ShowFirst
<1>3. CASE hasToken
  <2> DEFINE c == [Page!Free EXCEPT !.kind = "show", !.at = "fetch", !.page = 1, !.of = {s.orientation}]
             fresh == {p}
             yes == TRUE
  <2>1. /\ state' = [Page!Cleared(s) EXCEPT !.moving = yes]
        /\ call' = [Page!Superseded(call) EXCEPT ![p] = c]
        /\ overlapped' = Page!Overlaps
    BY <1>3 DEF Page!ShowFirst
  <2>2. c \in PageCall /\ Requesting(c, s)
    <3> DEFINE of == {s.orientation}
    <3>1. of \in SUBSET Orientations
      BY DEF PageState
    <3>2. c = [Page!Free EXCEPT !.kind = "show", !.at = "fetch", !.page = 1, !.of = of]
      OBVIOUS
    <3> HIDE DEF of, c
    <3>3. c \in PageCall /\ c.kind = "show" /\ c.at = "fetch" /\ c.of = of /\ c.fresh
      <4> DEFINE page == 1
      <4>1. page \in Int /\ c = [Page!Free EXCEPT !.kind = "show", !.at = "fetch", !.page = page, !.of = of]
        BY <3>2
      <4> HIDE DEF page
      <4>2. QED
        BY FreeTyped, FreeCall, <3>1, <4>1 DEF PageCall
    <3>4. QED
      BY <3>3 DEF Requesting, of
  <2>3. fresh \in SUBSET Calls /\ (\A q, r \in fresh : q = r) /\ yes \in BOOLEAN /\ (fresh # {} => yes)
    OBVIOUS
  <2> HIDE DEF c
  <2>4. /\ Page!Superseded(call) \in [Calls -> PageCall]
        /\ \A q \in Calls :
              /\ Passed(Page!Superseded(call)[q])
              /\ call[q].at \in {"free", "fetch"} => Page!Superseded(call)[q].at \in {"free", "fetch"}
    BY <1>1, SupersededPasses
  <2>5. /\ call' \in [Calls -> PageCall] /\ call'[p] = c
        /\ \A q \in Calls \ fresh : call'[q] = Page!Superseded(call)[q]
    BY <2>1, <2>2, <2>4
  <2>6. \A q \in fresh : Requesting(call'[q], s)
    BY <2>2, <2>5
  <2>7. \A q \in Calls \ fresh :
              /\ Passed(call'[q])
              /\ call[q].at \in {"free", "fetch"} => call'[q].at \in {"free", "fetch"}
    BY <2>4, <2>5
  <2> HIDE DEF fresh, yes
  <2>8. QED
    BY <2>1, <2>3, <2>5, <2>6, <2>7, ResetHolds
<1>4. QED
  BY <1>2, <1>3

\* The page without a token.
LEMMA ResetForMissingAuthOK ==
    ASSUME PageInv, NEW c \in [Calls -> PageCall],
           \A p \in Calls : c[p] = call[p] \/ c[p] = Page!Free,
           Page!ResetPlaybackForMissingAuth(c)
    PROVE  PageInv'
<1>1. state \in PageState
  BY DEF PageInv, PageTyped
<1>2. QED
  BY <1>1, MissingAuthOK DEF Page!ResetPlaybackForMissingAuth

\* A page of the feed is answered 401.
LEMMA PageRejectedOK == ASSUME PageInv, NEW p \in Calls, Page!PageRejected(p) PROVE PageInv'
<1> DEFINE c == [call EXCEPT ![p] = Page!Free]
<1>1. call \in [Calls -> PageCall]
  BY DEF PageInv, PageTyped
<1>2. c \in [Calls -> PageCall] /\ \A q \in Calls : c[q] = call[q] \/ c[q] = Page!Free
  BY <1>1, FreeTyped
<1>3. Page!ResetPlaybackForMissingAuth(c)
  BY DEF Page!PageRejected
<1> HIDE DEF c
<1>4. QED
  BY <1>2, <1>3, ResetForMissingAuthOK

\* Nothing of the page changes.
LEMMA UnchangedOK == ASSUME PageInv, UNCHANGED <<state, call, overlapped>> PROVE PageInv'
BY DEF PageInv, PageTyped, ListOK, Calm

\* Another orientation.
LEMMA SelectOrientationOK ==
    ASSUME PageInv, NEW p \in Calls, NEW o \in Orientations, Page!SelectOrientation(o, p)
    PROVE  PageInv'
<1> DEFINE s == [state EXCEPT !.orientation = o]
<1>1. s \in PageState
  BY DEF PageInv, PageTyped, PageState
<1>2. Page!ShowFirst(p, s, token)
  BY DEF Page!SelectOrientation
<1> HIDE DEF s
<1>3. QED
  BY <1>1, <1>2, ShowFirstOK

\* The token goes.
LEMMA TokenRemovedOK ==
    ASSUME PageInv, NEW here \in BOOLEAN, Page!TokenRemoved(here)
    PROVE  PageInv'
<1>1. call \in [Calls -> PageCall]
  BY DEF PageInv, PageTyped
<1>2. CASE here
  BY <1>1, <1>2, ResetForMissingAuthOK DEF Page!TokenRemoved
<1>3. CASE ~here
  BY <1>3, UnchangedOK DEF Page!TokenRemoved
<1>4. QED
  BY <1>2, <1>3

\* The token comes.
LEMMA TokenStoredOK == ASSUME PageInv, NEW p \in Calls, Page!TokenStored(p) PROVE PageInv'
<1>1. state \in PageState
  BY DEF PageInv, PageTyped
<1>2. Page!ShowFirst(p, state, TRUE) \/ UNCHANGED <<state, call, overlapped>>
  BY DEF Page!TokenStored
<1> DEFINE yes == TRUE
<1>3. Page!ShowFirst(p, state, yes) \/ UNCHANGED <<state, call, overlapped>>
  BY <1>2
<1> HIDE DEF yes
<1>4. QED
  BY <1>1, <1>3, ShowFirstOK, UnchangedOK

-----------------------------------------------------------------------------
(* The elements load. *)

\* A slot that is given other contents.
WithSlot(s, k, e) == [s EXCEPT !.slots[k] = e]

\* One slot changes.
LEMMA SlotChanges ==
    ASSUME NEW s \in PageState, NEW k \in {0, 1}, NEW e \in Elements,
           NEW t, t = WithSlot(s, k, e)
    PROVE  /\ t \in PageState /\ SameList(s, t) /\ t.failed = s.failed /\ t.moving = s.moving
           /\ t.activeSlot = s.activeSlot /\ t.activeIndex = s.activeIndex
           /\ t.slots[k] = e /\ \A m \in {0, 1} \ {k} : t.slots[m] = s.slots[m]
BY DEF PageState, SameList, WithSlot

\* The conditions on searches say the same of two pages of one list and one active item.
SameItem(s, t) ==
    t.items = s.items /\ t.activeSlot = s.activeSlot /\ t.activeIndex = s.activeIndex

\* What a search looks at.
LEMMA SameSearch ==
    ASSUME NEW s, NEW t, SameItem(s, t)
    PROVE  /\ Target(t) = Target(s) /\ Base(t) = Base(s) /\ Page!Attempts(t) = Page!Attempts(s)
           /\ \A j : Idx(t, j) = Idx(s, j)
           /\ \A i : IsIndex(t, i) = IsIndex(s, i)
           /\ \A c : Searches(c, t) = Searches(c, s)
           /\ s.failed \subseteq t.failed => \A n : Failed(s, n) => Failed(t, n)
           /\ t.failed = s.failed =>
                 /\ \A j, i : Reaches(t, j, i) = Reaches(s, j, i)
                 /\ \A c : Hopeless(c, t) = Hopeless(c, s)
                 /\ \A c : LoopOK(c, t) = LoopOK(c, s)
<1>1. Target(t) = Target(s) /\ Base(t) = Base(s) /\ Page!Attempts(t) = Page!Attempts(s)
  BY DEF SameItem, Target, Base, Page!Attempts
<1>2. \A j : Idx(t, j) = Idx(s, j)
  BY <1>1 DEF SameItem, Idx
<1>3. \A i : IsIndex(t, i) = IsIndex(s, i)
  BY DEF SameItem, IsIndex
<1>4. \A c : Searches(c, t) = Searches(c, s)
  BY <1>1 DEF Searches
<1>5. s.failed \subseteq t.failed => \A n : Failed(s, n) => Failed(t, n)
  BY <1>2 DEF Failed
<1>6. ASSUME t.failed = s.failed
      PROVE  /\ \A n : Failed(t, n) = Failed(s, n)
             /\ \A c : Hopeless(c, t) = Hopeless(c, s)
  BY <1>2, <1>6 DEF Failed, Hopeless, SameItem
<1>7. ASSUME t.failed = s.failed
      PROVE  /\ \A j, i : Reaches(t, j, i) = Reaches(s, j, i)
             /\ \A c : LoopOK(c, t) = LoopOK(c, s)
  BY <1>1, <1>2, <1>3, <1>4, <1>6, <1>7 DEF SameItem, Reaches, LoopOK
<1>8. QED
  BY <1>1, <1>2, <1>3, <1>4, <1>5, <1>6, <1>7

\* A search is about one of the two slots.
LEMMA TargetIsSlot ==
    ASSUME NEW s \in PageState
    PROVE  Target(s) \in {0, 1} /\ (s.activeIndex # Page!NoIndex => Target(s) # s.activeSlot)
BY DEF PageState, Target

\* The load under way is of the index that a search gets to.
LEMMA OneLoad ==
    ASSUME PageInv, ~overlapped, NEW p \in Calls, call[p].at = "loop", Page!Tries(p) # {},
           state.slots[call[p].slot].pending
    PROVE  state.slots[call[p].slot].index = Page!IndexAt(p, Page!Try(p))
<1>1. /\ Searches(call[p], state)
      /\ Page!Try(p) \in 0 .. Page!Attempts(state) - 1
      /\ Page!IndexAt(p, Page!Try(p)) = Idx(state, Page!Try(p))
      /\ Idx(state, Page!Try(p)) \notin state.failed
      /\ Failed(state, Page!Try(p))
  BY SearchGoesOn
<1>2. state \in PageState /\ PageHolds(state)
  BY CalmFacts DEF PageInv, PageTyped
<1>3. Target(state) \in {0, 1} /\ call[p].slot = Target(state)
  BY <1>1, <1>2, TargetIsSlot DEF Searches
<1>4. PICK j \in 0 .. Page!Attempts(state) - 1 : Reaches(state, j, state.slots[call[p].slot].index)
  BY <1>2, <1>3 DEF PageHolds
<1>5. Page!Attempts(state) \in Nat
  BY <1>2, AttemptsOK
<1>6. /\ state.slots[call[p].slot].index = Idx(state, j) /\ Failed(state, j)
      /\ Idx(state, j) \in state.failed => j = Page!Attempts(state) - 1
  BY <1>4 DEF Reaches
<1>7. ~(j > Page!Try(p))
  BY <1>1, <1>5, <1>6 DEF Failed
<1>8. ~(j < Page!Try(p))
  BY <1>1, <1>5, <1>6 DEF Failed
<1>9. j = Page!Try(p)
  BY <1>1, <1>5, <1>7, <1>8
<1>10. QED
  BY <1>1, <1>6, <1>9

\* The call that waits for a load.
LEMMA WaitsOK ==
    ASSUME PageInv, NEW p \in Calls, call[p].at = "loop", Page!Tries(p) # {},
           Page!IndexAt(p, Page!Try(p)) \in Int,
           NEW c, c = [call[p] EXCEPT !.at = "await", !.offset = Page!Try(p),
                                      !.index = Page!IndexAt(p, Page!Try(p))]
    PROVE  /\ c \in PageCall /\ c.at = "await" /\ c.offset = Page!Try(p)
           /\ c.index = Page!IndexAt(p, Page!Try(p)) /\ c.kind = call[p].kind
           /\ c.fresh = call[p].fresh /\ c.slot = call[p].slot /\ c.start = call[p].start
           /\ c.attempts = call[p].attempts
<1> DEFINE n == Page!Try(p)
           i == Page!IndexAt(p, n)
<1>1. call[p] \in PageCall
  BY DEF PageInv, PageTyped
<1>2. n \in Nat
  <2>1. call[p].offset \in Nat /\ call[p].attempts \in Nat
    BY <1>1 DEF PageCall
  <2>2. n \in call[p].offset .. call[p].attempts - 1
    BY TryIsFirst DEF PageInv
  <2>3. QED
    BY <2>1, <2>2
<1>3. i \in Int /\ c = [call[p] EXCEPT !.at = "await", !.offset = n, !.index = i]
  OBVIOUS
<1> HIDE DEF n, i
<1>4. /\ c \in PageCall /\ c.at = "await" /\ c.offset = n
      /\ c.index = i /\ c.kind = call[p].kind
      /\ c.fresh = call[p].fresh /\ c.slot = call[p].slot /\ c.start = call[p].start
      /\ c.attempts = call[p].attempts
  BY <1>1, <1>2, <1>3 DEF PageCall
<1>5. QED
  BY <1>4 DEF n, i

\* A wait for the load of what the search is at.
LEMMA AwaitOK ==
    ASSUME PageInv, ~overlapped, NEW p \in Calls, call[p].at = "loop", Page!Tries(p) # {},
           NEW c, c.at = "await", c.offset = Page!Try(p),
           c.index = Page!IndexAt(p, Page!Try(p)), c.kind = call[p].kind,
           c.fresh = call[p].fresh, c.slot = call[p].slot, c.start = call[p].start,
           c.attempts = call[p].attempts,
           NEW t, t.items = state.items, t.activeSlot = state.activeSlot,
           t.activeIndex = state.activeIndex, t.failed = state.failed, t.moving = state.moving,
           t.slots[c.slot].pending, t.slots[c.slot].index = c.index
    PROVE  CallOK(c, t) /\ Reaches(t, c.offset, c.index)
<1>1. CallOK(call[p], state)
  BY CalmFacts
<1>2. /\ Searches(call[p], state) /\ state.items.len > 0
      /\ Page!Try(p) \in 0 .. Page!Attempts(state) - 1
      /\ Page!IndexAt(p, Page!Try(p)) = Idx(state, Page!Try(p))
      /\ Idx(state, Page!Try(p)) \notin state.failed
      /\ Failed(state, Page!Try(p))
  BY SearchGoesOn
<1>3. Searches(c, t)
  <2>1. Searches(c, state)
    BY <1>2 DEF Searches
  <2>2. QED
    BY <2>1, SameSearch DEF SameItem
<1>4. Reaches(t, c.offset, c.index)
  <2>1. Reaches(state, c.offset, c.index)
    BY <1>2 DEF Reaches
  <2>2. QED
    BY <2>1, SameSearch DEF SameItem
<1>5. Main(c) => t.moving
  BY <1>1 DEF CallOK, Main
<1>6. c.fresh /\ c.kind # "none"
  BY <1>1 DEF CallOK
<1>7. /\ c.kind = "show" => t.activeIndex = Page!NoIndex
      /\ c.kind = "next" => t.activeIndex # Page!NoIndex
  BY <1>1 DEF CallOK
<1>8. QED
  BY <1>2, <1>3, <1>4, <1>5, <1>6, <1>7 DEF CallOK

\* A search joins the load that is under way.
LEMMA JoinOK ==
    ASSUME PageInv, NEW p \in Calls, call[p].at = "loop", Page!Tries(p) # {},
           state.slots[call[p].slot].pending,
           state.slots[call[p].slot].index = Page!IndexAt(p, Page!Try(p)),
           state' = state, overlapped' = overlapped,
           call' = [call EXCEPT ![p] = [call[p] EXCEPT !.at = "await", !.offset = Page!Try(p),
                                          !.index = Page!IndexAt(p, Page!Try(p))]]
    PROVE  PageInv'
<1> DEFINE c == [call[p] EXCEPT !.at = "await", !.offset = Page!Try(p),
                                !.index = Page!IndexAt(p, Page!Try(p))]
<1>1. call[p] \in PageCall /\ state \in PageState
  BY DEF PageInv, PageTyped
<1>2. Page!IndexAt(p, Page!Try(p)) \in Int
  <2>1. call[p].slot \in {0, 1}
    BY <1>1 DEF PageCall
  <2>2. state.slots[call[p].slot] \in Elements
    BY <1>1, <2>1 DEF PageState
  <2>3. QED
    BY <2>2 DEF Elements
<1>3. /\ c \in PageCall /\ c.at = "await" /\ c.offset = Page!Try(p)
      /\ c.index = Page!IndexAt(p, Page!Try(p)) /\ c.kind = call[p].kind
      /\ c.fresh = call[p].fresh /\ c.slot = call[p].slot /\ c.start = call[p].start
      /\ c.attempts = call[p].attempts
  BY <1>2, WaitsOK
<1>4. call' = [call EXCEPT ![p] = c]
  OBVIOUS
<1> HIDE DEF c
<1>5. FetchOK(c, state)
  BY <1>3 DEF FetchOK
<1>6. ASSUME ~overlapped PROVE CallOK(c, state)
  <2>1. state.slots[c.slot].pending /\ state.slots[c.slot].index = c.index
    BY <1>3
  <2>2. QED
    BY <1>3, <1>6, <2>1, AwaitOK
<1>7. ASSUME ~overlapped, NEW q \in Calls \ {p}
      PROVE  PairOK(c, call[q], state) /\ PairOK(call[q], c, state)
  <2>1. PairOK(call[p], call[q], state) /\ PairOK(call[q], call[p], state)
    BY <1>7, CalmFacts
  <2>2. Main(c) = Main(call[p]) /\ Working(c) = Working(call[p])
    BY <1>3 DEF Main, Working
  <2>3. PairOK(call[q], c, state)
    BY <1>3, <2>1, <2>2, PairAside
  <2>4. PairOK(c, call[q], state)
    BY <1>3, <2>1, <2>2 DEF PairOK
  <2>5. QED
    BY <2>3, <2>4
<1>8. QED
  BY <1>3, <1>4, <1>5, <1>6, <1>7, OneCall

\* The index a search is at.
LEMMA IndexIsInt ==
    ASSUME PageInv, NEW p \in Calls, NEW o \in Int
    PROVE  Page!IndexAt(p, o) \in Int
<1>1. call[p] \in PageCall /\ state \in PageState
  BY DEF PageInv, PageTyped
<1>2. call[p].start \in Int /\ state.items.len \in Nat
  BY <1>1 DEF PageCall, PageState
<1>3. QED
  BY <1>2 DEF Page!IndexAt, Page!NotANumber

\* Who is past its search is the one that changes the page.
LEMMA MainOf ==
    ASSUME NEW c, NEW s, CallOK(c, s), (c.at = "found" /\ c.kind # "preload") \/ c.at \in {"swap", "play"},
           c \in PageCall
    PROVE  Main(c)
<1>1. c.fresh
  BY DEF CallOK
<1>2. c.kind \in {"show", "next"}
  BY DEF CallOK, PageCall
<1>3. QED
  BY <1>1, <1>2 DEF Main

\* A search, or one that ends without effect, beside a slot that changes.
LEMMA BesideSlot ==
    ASSUME NEW s, NEW t, NEW c, CallOK(c, s),
           c.at = "loop" \/ (c.at = "found" /\ c.kind = "preload"),
           t.items = s.items, t.activeSlot = s.activeSlot, t.activeIndex = s.activeIndex,
           t.failed = s.failed, t.moving = s.moving
    PROVE  CallOK(c, t)
<1>1. LoopOK(c, s) => LoopOK(c, t)
  BY SameSearch DEF SameItem
<1>2. Main(c) => t.moving
  BY DEF CallOK
<1>3. Working(c) /\ t.items.len > 0 /\ c.fresh
  BY DEF CallOK, Working
<1>4. /\ c.kind = "show" => t.activeIndex = Page!NoIndex \/ c.at # "loop"
      /\ c.kind = "next" => t.activeIndex # Page!NoIndex
  BY DEF CallOK
<1>5. c.at = "loop" => c.kind # "none" /\ LoopOK(c, t)
  BY <1>1 DEF CallOK
<1>6. QED
  BY <1>2, <1>3, <1>4, <1>5 DEF CallOK

\* A load begins where none was under way: nobody waits for another one.
LEMMA LoadBeginsOK ==
    ASSUME PageInv, NEW p \in Calls, Page!LoadSlot(p),
           ~/\ state.slots[call[p].slot].index = Page!IndexAt(p, Page!Try(p))
            /\ state.slots[call[p].slot].pending
    PROVE  PageInv'
<1> DEFINE k == call[p].slot
           i == Page!IndexAt(p, Page!Try(p))
           c == [call[p] EXCEPT !.at = "await", !.offset = Page!Try(p), !.index = i]
           e == [index |-> i, pending |-> TRUE, ready |-> FALSE, src |-> i]
           d == Page!Outdated(call, k)
<1>0. /\ call[p].at = "loop" /\ Page!Tries(p) # {} /\ overlapped' = overlapped
      /\ state' = WithSlot(state, k, e) /\ call' = [d EXCEPT ![p] = c]
  BY DEF Page!LoadSlot, WithSlot
<1> HIDE DEF c, e, d, k, i
<1>1. call[p] \in PageCall /\ state \in PageState /\ call \in [Calls -> PageCall]
  BY DEF PageInv, PageTyped
<1>2. k \in {0, 1}
  BY <1>1 DEF PageCall, k
<1>3. Page!Try(p) \in Int
  <2>1. call[p].offset \in Nat /\ call[p].attempts \in Nat
    BY <1>1 DEF PageCall
  <2>2. QED
    BY <1>0, <2>1, TryIsFirst DEF PageInv
<1>4. i \in Int
  BY <1>3, IndexIsInt DEF i
<1>5. /\ c \in PageCall /\ c.at = "await" /\ c.offset = Page!Try(p)
      /\ c.index = Page!IndexAt(p, Page!Try(p)) /\ c.kind = call[p].kind
      /\ c.fresh = call[p].fresh /\ c.slot = call[p].slot /\ c.start = call[p].start
      /\ c.attempts = call[p].attempts
  BY <1>0, <1>4, WaitsOK DEF c, i
<1>6. e \in Elements /\ e.index = i /\ e.pending /\ ~e.ready /\ e.src = i
  BY <1>4 DEF Elements, e
<1>8. /\ state' \in PageState /\ SameList(state, state') /\ state'.failed = state.failed
      /\ state'.moving = state.moving /\ state'.activeSlot = state.activeSlot
      /\ state'.activeIndex = state.activeIndex
      /\ state'.slots[k] = e /\ \A m \in {0, 1} \ {k} : state'.slots[m] = state.slots[m]
  BY <1>0, <1>1, <1>2, <1>6, SlotChanges
<1>9. d \in [Calls -> PageCall]
  BY <1>1, <1>2, OutdatedOK DEF d
<1>10. call' \in [Calls -> PageCall] /\ \A q \in Calls : call'[q] = IF q = p THEN c ELSE d[q]
  BY <1>0, <1>5, <1>9
<1>11. PageTyped'
  BY <1>8, <1>10 DEF PageTyped
<1>12. \A q \in Calls : d[q] = call[q] \/ d[q].at = "stale"
  BY <1>1, <1>2, OutdatedOK DEF d
<1>13. ListOK'
  <2>1. \A q \in Calls : FetchOK(call'[q], state')
    <3>1. FetchOK(c, state')
      BY <1>5 DEF FetchOK
    <3>2. ASSUME NEW q \in Calls \ {p} PROVE FetchOK(d[q], state')
      <4>1. CASE d[q] = call[q]
        BY <1>8, <4>1 DEF PageInv, ListOK, FetchOK, SameList
      <4>2. CASE d[q].at = "stale"
        BY <4>2 DEF FetchOK
      <4>3. QED
        BY <1>12, <4>1, <4>2
    <3>3. QED
      BY <1>10, <3>1, <3>2
  <2>2. \A m \in {0, 1} : ElementOK(state'.slots[m])
    BY <1>6, <1>8 DEF PageInv, ListOK, ElementOK
  <2>3. state'.items.len > 0 => state'.items.of = {state'.orientation}
    BY <1>8 DEF PageInv, ListOK, SameList
  <2>4. QED
    BY <2>1, <2>2, <2>3 DEF ListOK
<1>14. ASSUME ~overlapped PROVE Calm'
  <2>1. /\ PageHolds(state) /\ \A q \in Calls : CallOK(call[q], state)
        /\ \A q, r \in Calls : q # r => PairOK(call[q], call[r], state)
    BY <1>14, CalmFacts
  <2>2. ~state.slots[k].pending
    BY <1>0, <1>14, OneLoad DEF k, i
  <2>3. /\ Target(state') = Target(state)
        /\ \A f : Hopeless(f, state') = Hopeless(f, state)
    <3>1. SameItem(state, state')
      BY <1>8 DEF SameItem, SameList
    <3>2. QED
      BY <1>8, <3>1, SameSearch
  <2>4. k = Target(state) /\ Target(state') = Target(state) /\ ~state'.slots[Target(state')].ready
    <3>1. k = Target(state)
      BY <1>0, <1>14, SearchGoesOn DEF Searches, k
    <3>2. QED
      BY <1>6, <1>8, <2>3, <3>1
  <2>5. \A q \in Calls : call[q].at # "await"
    BY <2>1, <2>2, <2>4 DEF CallOK, Searches
  <2>6. \A q \in Calls : d[q] = call[q]
    BY <1>1, <1>2, <2>5, OutdatedOK DEF d
  <2>7. ~Hopeless(call[p], state)
    BY <1>0, TryIsFirst DEF PageInv
  <2>8. CallOK(c, state') /\ Reaches(state', c.offset, c.index)
    <3>1. state'.slots[c.slot].pending /\ state'.slots[c.slot].index = c.index
      BY <1>5, <1>6, <1>8 DEF k, i
    <3>2. state'.items = state.items
      BY <1>8 DEF SameList
    <3>3. QED
      BY <1>0, <1>5, <1>8, <1>14, <3>1, <3>2, AwaitOK
  <2>9. ASSUME NEW q \in Calls \ {p} PROVE CallOK(call[q], state')
    <3>1. CallOK(call[q], state) /\ PairOK(call[q], call[p], state) /\ FetchOK(call[q], state)
          /\ call[q] \in PageCall
      BY <1>1, <2>1 DEF PageInv, ListOK
    <3>2. ~(Main(call[q]) /\ call[q].at \in {"found", "swap", "play"})
      BY <1>0, <2>7, <3>1 DEF PairOK
    <3>3. Resting(call[q]) \/ call[q].at = "loop" \/ (call[q].at = "found" /\ call[q].kind = "preload")
      <4>1. call[q].at \in {"free", "fetch", "loop", "await", "stale", "found", "swap", "play"}
        BY <3>1 DEF PageCall
      <4>2. QED
        BY <2>5, <3>1, <3>2, <4>1, MainOf DEF Resting
    <3>4. state'.items = state.items
      BY <1>8 DEF SameList
    <3>5. CASE Resting(call[q])
      <4>1. Main(call[q]) => state'.moving
        BY <1>8, <3>1 DEF CallOK
      <4>2. QED
        BY <3>1, <3>4, <3>5, <4>1, RestingOK
    <3>6. CASE call[q].at = "loop" \/ (call[q].at = "found" /\ call[q].kind = "preload")
      BY <1>8, <3>1, <3>4, <3>6, BesideSlot
    <3>7. QED
      BY <3>3, <3>5, <3>6
  <2>10. PageHolds(state')
    <3>1. Target(state) \in {0, 1} /\ (state.activeIndex # Page!NoIndex => Target(state) # state.activeSlot)
          /\ state.activeSlot \in {0, 1}
      BY <1>1, TargetIsSlot DEF PageState
    <3>2. state'.activeIndex # Page!NoIndex =>
             /\ IsIndex(state', state'.activeIndex)
             /\ state'.slots[state'.activeSlot].src = state'.activeIndex
             /\ ~state'.slots[state'.activeSlot].pending
      BY <1>8, <2>1, <2>4, <3>1 DEF PageHolds, IsIndex, SameList
    <3>3. \A m \in {0, 1} : state'.slots[m].pending => m = k
      BY <1>8, <2>1, <2>4 DEF PageHolds
    <3>4. c.offset \in 0 .. Page!Attempts(state') - 1 /\ state'.slots[k].index = c.index
      BY <1>5, <1>6, <1>8, <2>8 DEF Reaches, i
    <3>5. state'.items.len > 0 /\ ~state'.moving => state'.activeIndex # Page!NoIndex
      BY <1>8, <2>1 DEF PageHolds, SameList
    <3>6. QED
      BY <2>4, <2>8, <3>2, <3>3, <3>4, <3>5 DEF PageHolds
  <2>11. ASSUME NEW q \in Calls, NEW r \in Calls, q # r
         PROVE  PairOK(call'[q], call'[r], state')
    <3>1. PairOK(call[q], call[r], state)
      BY <2>1, <2>11
    <3>2. Main(c) = Main(call[p]) /\ Working(c) = Working(call[p])
      BY <1>0, <1>5 DEF Main, Working
    <3>3. CASE r = p
      <4>1. call'[r] = c /\ call'[q] = call[q]
        BY <1>10, <2>6, <2>11, <3>3
      <4>2. QED
        BY <1>5, <3>1, <3>2, <3>3, <4>1, PairAside
    <3>4. CASE r # p
      <4>1. call'[r] = call[r] /\ \/ call'[q] = call[q]
                                  \/ q = p /\ call'[q] = c
        BY <1>10, <2>6, <3>4
      <4>2. Hopeless(call[r], state) => Hopeless(call[r], state')
        BY <2>3
      <4>3. CASE call'[q] = call[q]
        BY <2>4, <3>1, <4>1, <4>2, <4>3 DEF PairOK
      <4>4. CASE q = p /\ call'[q] = c
        BY <1>0, <1>5, <2>4, <3>1, <3>2, <4>1, <4>2, <4>4 DEF PairOK
      <4>5. QED
        BY <4>1, <4>3, <4>4
    <3>5. QED
      BY <3>3, <3>4
  <2>12. \A q \in Calls : CallOK(call'[q], state')
    BY <1>10, <2>6, <2>8, <2>9
  <2>13. QED
    BY <2>10, <2>11, <2>12 DEF Calm
<1>15. QED
  BY <1>0, <1>11, <1>13, <1>14 DEF PageInv

\* loadSlot: a new load, or the one under way.
LEMMA LoadSlotOK == ASSUME PageInv, NEW p \in Calls, Page!LoadSlot(p) PROVE PageInv'
<1> DEFINE k == call[p].slot
           i == Page!IndexAt(p, Page!Try(p))
<1>1. call[p].at = "loop" /\ Page!Tries(p) # {} /\ overlapped' = overlapped
  BY DEF Page!LoadSlot
<1>2. CASE state.slots[k].index = i /\ state.slots[k].pending
  <2>1. /\ state' = state
        /\ call' = [call EXCEPT ![p] = [call[p] EXCEPT !.at = "await", !.offset = Page!Try(p), !.index = i]]
    BY <1>2 DEF Page!LoadSlot
  <2>2. QED
    BY <1>1, <1>2, <2>1, JoinOK
<1>3. CASE ~(state.slots[k].index = i /\ state.slots[k].pending)
  BY <1>3, LoadBeginsOK
<1>4. QED
  BY <1>2, <1>3

\* The types and the list, when a step leaves the list alone.
LEMMA ListKept ==
    ASSUME PageInv, state' \in PageState, SameList(state, state'), call' \in [Calls -> PageCall],
           \A q \in Calls : FetchOK(call'[q], state),
           \A m \in {0, 1} : ElementOK(state'.slots[m])
    PROVE  PageTyped' /\ ListOK'
<1>1. \A q \in Calls : FetchOK(call'[q], state')
  BY DEF FetchOK, SameList
<1>2. state'.items.len > 0 => state'.items.of = {state'.orientation}
  BY DEF PageInv, ListOK, SameList
<1>3. QED
  BY <1>1, <1>2 DEF PageTyped, ListOK

\* An index out of no list: only with a search that began before the list was emptied.
LEMMA LoopThrowsOK == ASSUME PageInv, NEW p \in Calls, Page!LoopThrows(p) PROVE PageInv'
<1> DEFINE k == call[p].slot
           s == Page!ResetSlot(state, k)
           d == Page!Outdated(call, k)
<1>1. /\ call[p].at = "loop" /\ Page!Tries(p) # {} /\ Page!IndexAt(p, Page!Try(p)) = Page!NotANumber
      /\ state' = (IF call[p].kind = "next" THEN [s EXCEPT !.moving = FALSE] ELSE s)
      /\ call' = [d EXCEPT ![p] = Page!Free] /\ overlapped' = overlapped
  BY DEF Page!LoopThrows
<1> HIDE DEF s, d
<1>2. call[p] \in PageCall /\ state \in PageState /\ call \in [Calls -> PageCall]
  BY DEF PageInv, PageTyped
<1>3. k \in {0, 1}
  BY <1>2 DEF PageCall
<1> HIDE DEF k
<1>4. overlapped
  <2>1. SUFFICES ASSUME ~overlapped PROVE FALSE
    BY DEF PageInv
  <2>2. state.items.len > 0 /\ IsIndex(state, Page!NotANumber)
    BY <1>1, <2>1, SearchGoesOn
  <2>3. QED
    BY <2>2 DEF IsIndex, Page!NotANumber
<1>5. /\ s \in PageState /\ SameList(state, s)
      /\ s.slots[k] = Page!EmptySlot /\ s.slots[1 - k] = state.slots[1 - k]
  BY <1>2, <1>3, ResetSlotOK DEF s
<1>6. state' \in PageState /\ SameList(state, state') /\ state'.slots = s.slots
  BY <1>1, <1>5 DEF PageState, SameList
<1>7. d \in [Calls -> PageCall] /\ \A q \in Calls : d[q] = call[q] \/ d[q].at = "stale"
  BY <1>2, <1>3, OutdatedOK DEF d
<1>8. call' \in [Calls -> PageCall] /\ \A q \in Calls : call'[q] = IF q = p THEN Page!Free ELSE d[q]
  BY <1>1, <1>7, FreeTyped
<1>9. \A q \in Calls : FetchOK(call'[q], state)
  BY <1>7, <1>8, FreeCall DEF FetchOK, PageInv, ListOK
<1>10. \A m \in {0, 1} : ElementOK(state'.slots[m])
  <2>1. ElementOK(state.slots[1 - k])
    BY <1>3 DEF PageInv, ListOK
  <2>2. QED
    BY <1>3, <1>5, <1>6, <2>1, EmptyElement
<1>11. QED
  BY <1>1, <1>4, <1>6, <1>8, <1>9, <1>10, ListKept DEF PageInv

\* Who goes on when the load of a slot settles.
Resumes(c, k) == c.at = "await" /\ c.slot = k

\* The calls of a page none of whose elements loads any more, when nothing else happens.
LEMMA SettledCalls ==
    ASSUME PageInv, ~overlapped, Page!Quiet, NEW k \in {0, 1}, state.slots[k].pending,
           NEW q \in Calls
    PROVE  Resting(call[q]) \/ Resumes(call[q], k)
<1>1. call[q] \in PageCall /\ CallOK(call[q], state) /\ PageHolds(state)
  BY CalmFacts DEF PageInv, PageTyped
<1>2. k = Target(state) /\ ~NonePending(state)
  BY <1>1 DEF PageHolds, NonePending
<1>3. call[q].at \notin {"loop", "found"}
  BY DEF Page!Quiet
<1>4. call[q].at \notin {"swap", "play"}
  BY <1>1, <1>2 DEF CallOK
<1>5. call[q].at = "await" => call[q].slot = k
  BY <1>1, <1>2 DEF CallOK, Searches
<1>6. call[q].at \in {"free", "fetch", "loop", "await", "stale", "found", "swap", "play"}
  BY <1>1 DEF PageCall
<1>7. QED
  BY <1>3, <1>4, <1>5, <1>6 DEF Resting, Resumes

\* A page whose load is over, with or without a result.
LEMMA SettledPage ==
    ASSUME PageInv, ~overlapped, NEW k \in {0, 1}, state.slots[k].pending,
           NEW t, SameItem(state, t), t.moving = state.moving,
           ~t.slots[k].pending, \A m \in {0, 1} \ {k} : t.slots[m] = state.slots[m]
    PROVE  /\ PageHolds(t) /\ NonePending(t) /\ k = Target(state) /\ Target(t) = Target(state)
           /\ \E j \in 0 .. Page!Attempts(state) - 1 : Reaches(state, j, state.slots[k].index)
<1>1. PageHolds(state) /\ state \in PageState
  BY CalmFacts DEF PageInv, PageTyped
<1>2. k = Target(state) /\ Target(t) = Target(state)
      /\ \E j \in 0 .. Page!Attempts(state) - 1 : Reaches(state, j, state.slots[k].index)
  BY <1>1, SameSearch DEF PageHolds
<1>3. NonePending(t)
  BY <1>1, <1>2 DEF PageHolds, NonePending
<1>4. t.activeIndex # Page!NoIndex =>
          /\ IsIndex(t, t.activeIndex) /\ t.slots[t.activeSlot].src = t.activeIndex
          /\ ~t.slots[t.activeSlot].pending
  <2>1. state.activeIndex # Page!NoIndex => k # state.activeSlot /\ state.activeSlot \in {0, 1}
    BY <1>1, <1>2, TargetIsSlot DEF PageState
  <2>2. QED
    BY <1>1, <2>1 DEF PageHolds, IsIndex, SameItem
<1>5. t.items.len > 0 /\ ~t.moving => t.activeIndex # Page!NoIndex
  BY <1>1 DEF PageHolds, SameItem
<1>6. PageHolds(t)
  BY <1>3, <1>4, <1>5 DEF PageHolds, NonePending
<1>7. QED
  BY <1>2, <1>3, <1>6

\* The load succeeded: who waited for it has found what to play.
LEMMA FoundAfterLoad ==
    ASSUME PageInv, ~overlapped, NEW k \in {0, 1}, state.slots[k].pending,
           NEW t, SameItem(state, t), t.moving = state.moving,
           ~t.slots[k].pending, t.slots[k].src = state.slots[k].src,
           \A m \in {0, 1} \ {k} : t.slots[m] = state.slots[m],
           NEW q \in Calls, Resumes(call[q], k),
           NEW c, c.at = "found", c.kind = call[q].kind, c.fresh = call[q].fresh,
           c.slot = call[q].slot, c.index = call[q].index, c.playable
    PROVE  CallOK(c, t)
<1>1. CallOK(call[q], state) /\ PageHolds(state) /\ state \in PageState
  BY CalmFacts DEF PageInv, PageTyped
<1>2. /\ NonePending(t) /\ k = Target(t)
      /\ \E j \in 0 .. Page!Attempts(state) - 1 : Reaches(state, j, state.slots[k].index)
  BY SettledPage
<1>3. /\ call[q].kind # "none" /\ state.slots[k].index = c.index /\ c.slot = k
  BY <1>1 DEF CallOK, Resumes
<1>4. state.items.len > 0 /\ state.items.len \in Nat /\ state.activeIndex \in Int
  BY <1>1 DEF CallOK, Resumes, Working, PageState
<1>5. IsIndex(t, c.index)
  <2>1. PICK j \in 0 .. Page!Attempts(state) - 1 : c.index = Idx(state, j)
    BY <1>2, <1>3 DEF Reaches
  <2>2. j \in Nat
    BY <1>1, <2>1, AttemptsOK
  <2>3. Base(state) \in Nat
    BY <1>1, <1>4 DEF PageHolds, IsIndex, Base
  <2>4. IsIndex(state, c.index)
    BY <1>4, <2>1, <2>2, <2>3 DEF Idx, IsIndex
  <2>5. QED
    BY <2>4, SameSearch
<1>6. t.slots[c.slot].src = c.index
  BY <1>3 DEF PageInv, ListOK, ElementOK
<1>7. Main(c) => t.moving
  BY <1>1 DEF CallOK, Main, Resumes
<1>8. c.fresh /\ t.items.len > 0
  BY <1>1, <1>4 DEF CallOK, Resumes, SameItem
<1>9. /\ c.kind = "show" => t.activeIndex = Page!NoIndex
      /\ c.kind = "next" => t.activeIndex # Page!NoIndex
  BY <1>1 DEF CallOK, Resumes, SameItem
<1>10. QED
  BY <1>2, <1>3, <1>5, <1>6, <1>7, <1>8, <1>9 DEF CallOK

\* The load failed: who waited for it goes on after the index that failed.
LEMMA LoopAfterLoad ==
    ASSUME PageInv, ~overlapped, NEW k \in {0, 1}, state.slots[k].pending,
           NEW t, SameItem(state, t), t.moving = state.moving,
           ~t.slots[k].pending, t.failed = state.failed \cup {state.slots[k].index},
           \A m \in {0, 1} \ {k} : t.slots[m] = state.slots[m],
           NEW q \in Calls, Resumes(call[q], k),
           NEW c, c.at = "loop", c.kind = call[q].kind, c.fresh = call[q].fresh,
           c.slot = call[q].slot, c.index = call[q].index, c.start = call[q].start,
           c.attempts = call[q].attempts, c.offset = call[q].offset + 1
    PROVE  CallOK(c, t)
<1>1. CallOK(call[q], state) /\ PageHolds(state) /\ state \in PageState
  BY CalmFacts DEF PageInv, PageTyped
<1>2. /\ call[q].kind # "none" /\ Searches(call[q], state)
      /\ state.slots[k].index = call[q].index /\ Reaches(state, call[q].offset, call[q].index)
  BY <1>1 DEF CallOK, Resumes
<1>3. state.items.len > 0 /\ state.items.len \in Nat /\ state.activeIndex \in Int
  BY <1>1, <1>2 DEF CallOK, Resumes, Working, PageState
<1>4. /\ call[q].offset \in 0 .. call[q].attempts - 1 /\ call[q].attempts \in Nat
      /\ call[q].index = Idx(state, call[q].offset) /\ Failed(state, call[q].offset)
  BY <1>1, <1>2, AttemptsOK DEF Reaches, Searches
<1>5. Searches(c, t)
  <2>1. Searches(c, state)
    BY <1>2 DEF Searches
  <2>2. QED
    BY <2>1, SameSearch
<1>6. Failed(t, c.offset)
  <2>1. \A j \in 0 .. call[q].offset - 1 : Idx(state, j) \in t.failed
    BY <1>4 DEF Failed
  <2>2. Idx(state, call[q].offset) \in t.failed
    BY <1>2, <1>4
  <2>3. \A j \in 0 .. c.offset - 1 : Idx(state, j) \in t.failed
    BY <1>4, <2>1, <2>2
  <2>4. QED
    BY <2>3, SameSearch DEF Failed
<1>7. IsIndex(t, c.index)
  <2>1. Base(state) \in Nat
    BY <1>1, <1>3 DEF PageHolds, IsIndex, Base
  <2>2. IsIndex(state, c.index)
    BY <1>3, <1>4, <2>1 DEF Idx, IsIndex
  <2>3. QED
    BY <2>2, SameSearch
<1>8. LoopOK(c, t)
  BY <1>4, <1>5, <1>6, <1>7 DEF LoopOK
<1>9. Main(c) => t.moving
  BY <1>1 DEF CallOK, Main, Resumes
<1>10. c.fresh /\ t.items.len > 0
  BY <1>1, <1>3 DEF CallOK, Resumes, SameItem
<1>11. /\ c.kind = "show" => t.activeIndex = Page!NoIndex
       /\ c.kind = "next" => t.activeIndex # Page!NoIndex
  BY <1>1 DEF CallOK, Resumes, SameItem
<1>12. QED
  BY <1>2, <1>8, <1>9, <1>10, <1>11 DEF CallOK

\* Calls that a load resumes stay beside each other as they were.
LEMMA SettledPairs ==
    ASSUME PageInv, ~overlapped, NEW k \in {0, 1}, NEW t, NEW c,
           \A q \in Calls : \/ Resting(call[q]) /\ c[q] = call[q]
                            \/ /\ Resumes(call[q], k) /\ c[q].kind = call[q].kind
                               /\ c[q].fresh = call[q].fresh /\ c[q].at \in {"found", "loop"},
           \/ \A q \in Calls : c[q].at # "loop"
           \/ (\A q \in Calls : c[q].at # "found") /\ ~t.slots[Target(t)].ready,
           NEW q \in Calls, NEW r \in Calls, q # r
    PROVE  PairOK(c[q], c[r], t)
<1>1. PairOK(call[q], call[r], state)
  BY CalmFacts
<1>2. \A p \in Calls : /\ Main(c[p]) = Main(call[p]) /\ c[p].kind = call[p].kind
                       /\ Working(c[p]) = Working(call[p])
                       /\ c[p].at \notin {"swap", "play"}
  BY DEF Main, Working, Resting, Resumes
<1>3. Main(c[q]) => ~Main(c[r])
  BY <1>1, <1>2 DEF PairOK
<1>4. Main(c[q]) /\ c[q].kind = "show" => ~Working(c[r])
  BY <1>1, <1>2 DEF PairOK
<1>5. c[q].at \in {"found", "swap", "play"} => c[r].at # "loop"
  BY <1>2
<1>6. c[q].at = "loop" /\ t.slots[Target(t)].ready => c[r].at # "loop"
  OBVIOUS
<1>7. QED
  BY <1>3, <1>4, <1>5, <1>6 DEF PairOK

\* An element has data: every search that waited for it finds its item.
LEMMA LoadSucceedsOK ==
    ASSUME PageInv, NEW k \in {0, 1}, Page!LoadSettles(k, TRUE)
    PROVE  PageInv'
<1> DEFINE yes == TRUE
           f == [p \in Calls |-> Page!At(p, "found", call[p].index, yes)]
           i == state.slots[k].index
           e == [state.slots[k] EXCEPT !.pending = FALSE, !.ready = TRUE]
           left == state.failed \ {i}
<1>1. /\ Page!Quiet /\ state.slots[k].pending /\ overlapped' = overlapped
      /\ state' = [state EXCEPT !.slots[k].pending = FALSE, !.slots[k].ready = TRUE, !.failed = left]
      /\ call' = [p \in Calls |-> IF Resumes(call[p], k) THEN f[p] ELSE call[p]]
  BY DEF Page!LoadSettles, Resumes
<1>2. state \in PageState /\ call \in [Calls -> PageCall] /\ state.slots[k] \in Elements
  BY DEF PageInv, PageTyped, PageState
<1>3. /\ e \in Elements /\ e.index = state.slots[k].index /\ e.src = state.slots[k].src
      /\ ~e.pending /\ e.ready
  BY <1>2 DEF Elements
<1>4. state' = [state EXCEPT !.slots[k] = e, !.failed = left] /\ left \in SUBSET Int
  BY <1>1, <1>2 DEF PageState
<1> HIDE DEF e, left, i
<1>5. /\ state' \in PageState /\ SameItem(state, state') /\ SameList(state, state')
      /\ state'.moving = state.moving /\ state'.slots[k] = e
      /\ \A m \in {0, 1} \ {k} : state'.slots[m] = state.slots[m]
  BY <1>2, <1>3, <1>4 DEF PageState, SameItem, SameList
<1>6. \A p \in Calls : /\ f[p] \in PageCall /\ f[p].at = "found" /\ f[p].kind = call[p].kind
                       /\ f[p].fresh = call[p].fresh /\ f[p].slot = call[p].slot
                       /\ f[p].index = call[p].index /\ f[p].playable
  <2> TAKE p \in Calls
  <2>1. call[p].index \in Int /\ yes \in BOOLEAN
    BY <1>2 DEF PageCall
  <2>2. f[p] = Page!At(p, "found", call[p].index, yes)
    OBVIOUS
  <2> HIDE DEF f, yes
  <2>3. /\ f[p] \in PageCall /\ f[p].at = "found" /\ f[p].kind = call[p].kind
        /\ f[p].fresh = call[p].fresh /\ f[p].slot = call[p].slot
        /\ f[p].index = call[p].index /\ f[p].playable = yes
    BY <1>2, <2>1, <2>2, AtOK
  <2>4. QED
    BY <2>3 DEF yes
<1> HIDE DEF f
<1>7. /\ call' \in [Calls -> PageCall]
      /\ \A q \in Calls : call'[q] = IF Resumes(call[q], k) THEN f[q] ELSE call[q]
  BY <1>1, <1>2, <1>6
<1>8. \A q \in Calls : FetchOK(call'[q], state)
  BY <1>6, <1>7 DEF FetchOK, PageInv, ListOK
<1>9. \A m \in {0, 1} : ElementOK(state'.slots[m])
  BY <1>3, <1>5 DEF ElementOK, PageInv, ListOK
<1>10. ASSUME ~overlapped PROVE Calm'
  <2>1. PageHolds(state')
    BY <1>1, <1>3, <1>5, <1>10, SettledPage
  <2>2. \A q \in Calls : Resting(call[q]) \/ Resumes(call[q], k)
    BY <1>1, <1>10, SettledCalls
  <2>3. ASSUME NEW q \in Calls PROVE CallOK(call'[q], state')
    <3>1. CASE Resumes(call[q], k)
      <4>1. call'[q] = f[q] /\ ~state'.slots[k].pending /\ state'.slots[k].src = state.slots[k].src
        BY <1>3, <1>5, <1>7, <3>1
      <4>2. QED
        BY <1>1, <1>5, <1>6, <1>10, <3>1, <4>1, FoundAfterLoad
    <3>2. CASE ~Resumes(call[q], k)
      <4>1. call'[q] = call[q] /\ Resting(call[q]) /\ CallOK(call[q], state) /\ FetchOK(call[q], state)
        BY <1>7, <1>10, <2>2, <3>2, CalmFacts DEF PageInv, ListOK
      <4>2. state'.items = state.items /\ (Main(call[q]) => state'.moving)
        BY <1>5, <4>1 DEF SameItem, CallOK
      <4>3. QED
        BY <4>1, <4>2, RestingOK
    <3>3. QED
      BY <3>1, <3>2
  <2>4. \A q \in Calls : \/ Resting(call[q]) /\ call'[q] = call[q]
                         \/ /\ Resumes(call[q], k) /\ call'[q].kind = call[q].kind
                            /\ call'[q].fresh = call[q].fresh /\ call'[q].at \in {"found", "loop"}
    BY <1>6, <1>7, <2>2
  <2>5. \A q \in Calls : call'[q].at # "loop"
    BY <1>6, <1>7, <2>2 DEF Resting
  <2>6. \A q, r \in Calls : q # r => PairOK(call'[q], call'[r], state')
    BY <1>10, <2>4, <2>5, SettledPairs
  <2>7. QED
    BY <2>1, <2>3, <2>6 DEF Calm
<1>11. QED
  BY <1>1, <1>5, <1>7, <1>8, <1>9, <1>10, ListKept DEF PageInv

\* An element fails: every search that waited for it goes on.
LEMMA LoadFailsOK ==
    ASSUME PageInv, NEW k \in {0, 1}, Page!LoadSettles(k, FALSE)
    PROVE  PageInv'
<1> DEFINE f == [p \in Calls |-> [call[p] EXCEPT !.at = "loop", !.offset = @ + 1]]
           i == state.slots[k].index
           s == Page!ResetSlot(state, k)
           more == state.failed \cup {i}
<1>1. /\ Page!Quiet /\ state.slots[k].pending /\ overlapped' = overlapped
      /\ state' = [s EXCEPT !.failed = @ \cup {i}]
      /\ call' = [p \in Calls |-> IF Resumes(call[p], k) THEN f[p] ELSE call[p]]
  BY DEF Page!LoadSettles, Resumes
<1>2. state \in PageState /\ call \in [Calls -> PageCall] /\ state.slots[k] \in Elements
  BY DEF PageInv, PageTyped, PageState
<1> HIDE DEF s
<1>3. /\ s \in PageState /\ SameList(state, s) /\ s.failed = state.failed /\ s.moving = state.moving
      /\ s.activeSlot = state.activeSlot /\ s.activeIndex = state.activeIndex
      /\ s.slots[k] = Page!EmptySlot /\ s.slots[1 - k] = state.slots[1 - k]
  BY <1>2, ResetSlotOK DEF s
<1>4. more \in SUBSET Int /\ state' = [s EXCEPT !.failed = more]
  BY <1>1, <1>2, <1>3 DEF PageState, Elements
<1>5. /\ state' \in PageState /\ SameItem(state, state') /\ SameList(state, state')
      /\ state'.moving = state.moving /\ state'.slots[k] = Page!EmptySlot
      /\ state'.failed = more
      /\ \A m \in {0, 1} \ {k} : state'.slots[m] = state.slots[m]
  <2> HIDE DEF more
  <2>1. /\ state' \in PageState /\ state'.items = s.items /\ state'.orientation = s.orientation
        /\ state'.activeSlot = s.activeSlot /\ state'.activeIndex = s.activeIndex
        /\ state'.moving = s.moving /\ state'.slots = s.slots /\ state'.failed = more
    BY <1>3, <1>4 DEF PageState
  <2>2. \A m \in {0, 1} \ {k} : m = 1 - k
    OBVIOUS
  <2>3. QED
    BY <1>3, <2>1, <2>2 DEF SameItem, SameList
<1>6. \A p \in Calls : /\ f[p] \in PageCall /\ f[p].at = "loop" /\ f[p].kind = call[p].kind
                       /\ f[p].fresh = call[p].fresh /\ f[p].slot = call[p].slot
                       /\ f[p].index = call[p].index /\ f[p].start = call[p].start
                       /\ f[p].attempts = call[p].attempts /\ f[p].offset = call[p].offset + 1
  <2> TAKE p \in Calls
  <2> DEFINE n == call[p].offset + 1
  <2>1. call[p] \in PageCall /\ n \in Nat
    BY <1>2 DEF PageCall
  <2>2. f[p] = [call[p] EXCEPT !.at = "loop", !.offset = n] /\ n = call[p].offset + 1
    OBVIOUS
  <2> HIDE DEF f, n
  <2>3. QED
    BY <2>1, <2>2 DEF PageCall
<1> HIDE DEF f
<1>7. /\ call' \in [Calls -> PageCall]
      /\ \A q \in Calls : call'[q] = IF Resumes(call[q], k) THEN f[q] ELSE call[q]
  BY <1>1, <1>2, <1>6
<1>8. \A q \in Calls : FetchOK(call'[q], state)
  BY <1>6, <1>7 DEF FetchOK, PageInv, ListOK
<1>9. \A m \in {0, 1} : ElementOK(state'.slots[m])
  BY <1>5, EmptyElement DEF PageInv, ListOK
<1>10. ASSUME ~overlapped PROVE Calm'
  <2>1. ~state'.slots[k].pending /\ ~state'.slots[k].ready
    BY <1>5, EmptyElement
  <2>2. PageHolds(state') /\ k = Target(state')
    BY <1>1, <1>5, <1>10, <2>1, SettledPage
  <2>3. \A q \in Calls : Resting(call[q]) \/ Resumes(call[q], k)
    BY <1>1, <1>10, SettledCalls
  <2>4. ASSUME NEW q \in Calls PROVE CallOK(call'[q], state')
    <3>1. CASE Resumes(call[q], k)
      <4>1. call'[q] = f[q] /\ state'.failed = state.failed \cup {state.slots[k].index}
        BY <1>5, <1>7, <3>1
      <4>2. QED
        BY <1>1, <1>5, <1>6, <1>10, <2>1, <3>1, <4>1, LoopAfterLoad
    <3>2. CASE ~Resumes(call[q], k)
      <4>1. call'[q] = call[q] /\ Resting(call[q]) /\ CallOK(call[q], state) /\ FetchOK(call[q], state)
        BY <1>7, <1>10, <2>3, <3>2, CalmFacts DEF PageInv, ListOK
      <4>2. state'.items = state.items /\ (Main(call[q]) => state'.moving)
        BY <1>5, <4>1 DEF SameItem, CallOK
      <4>3. QED
        BY <4>1, <4>2, RestingOK
    <3>3. QED
      BY <3>1, <3>2
  <2>5. \A q \in Calls : \/ Resting(call[q]) /\ call'[q] = call[q]
                         \/ /\ Resumes(call[q], k) /\ call'[q].kind = call[q].kind
                            /\ call'[q].fresh = call[q].fresh /\ call'[q].at \in {"found", "loop"}
    BY <1>6, <1>7, <2>3
  <2>6. (\A q \in Calls : call'[q].at # "found") /\ ~state'.slots[Target(state')].ready
    BY <1>6, <1>7, <2>1, <2>2, <2>3 DEF Resting
  <2>7. \A q, r \in Calls : q # r => PairOK(call'[q], call'[r], state')
    BY <1>10, <2>5, <2>6, SettledPairs
  <2>8. QED
    BY <2>2, <2>4, <2>7 DEF Calm
<1>11. QED
  BY <1>1, <1>5, <1>7, <1>8, <1>9, <1>10, ListKept DEF PageInv

\* A load settles, one way or the other.
LEMMA LoadSettlesOK ==
    ASSUME PageInv, NEW k \in {0, 1}, NEW ok \in BOOLEAN, Page!LoadSettles(k, ok)
    PROVE  PageInv'
<1>1. CASE ok
  <2>1. Page!LoadSettles(k, TRUE)
    BY <1>1
  <2>2. QED
    BY <2>1, LoadSucceedsOK
<1>2. CASE ~ok
  <2>1. Page!LoadSettles(k, FALSE)
    BY <1>2
  <2>2. QED
    BY <2>1, LoadFailsOK
<1>3. QED
  BY <1>1, <1>2

\* A search gets back to the active item only with the last index of the list.
LEMMA BackAtActive ==
    ASSUME NEW n \in Nat, NEW a \in 0 .. n - 1, NEW j \in 0 .. n - 1,
           (((a + 1) % n) + j) % n = a
    PROVE  j = n - 1
<1>1. CASE a + 1 < n
  <2>1. (a + 1) % n = a + 1
    BY <1>1
  <2>2. CASE a + 1 + j < n
    BY <2>1, <2>2
  <2>3. CASE a + 1 + j >= n
    <3>1. (a + 1 + j) % n = a + 1 + j - n
      BY <1>1, <2>3
    <3>2. QED
      BY <2>1, <3>1
  <2>4. QED
    BY <2>2, <2>3
<1>2. CASE a + 1 = n
  <2>1. (a + 1) % n = 0
    BY <1>2
  <2>2. (0 + j) % n = j
    OBVIOUS
  <2>3. QED
    BY <1>2, <2>1, <2>2
<1>3. QED
  BY <1>1, <1>2

\* An index that fails later takes no search to another index.
LEMMA ReachesMore ==
    ASSUME NEW s \in PageState, NEW t, SameItem(s, t), PageHolds(s),
           t.failed = s.failed \/ (s.activeIndex # Page!NoIndex
                                   /\ t.failed = s.failed \cup {s.activeIndex}),
           NEW j, NEW i, Reaches(s, j, i), s.items.len > 0
    PROVE  Reaches(t, j, i)
<1>1. CASE t.failed = s.failed
  BY <1>1, SameSearch
<1>2. CASE s.activeIndex # Page!NoIndex /\ t.failed = s.failed \cup {s.activeIndex}
  <2>1. /\ j \in 0 .. Page!Attempts(s) - 1 /\ i = Idx(s, j) /\ Failed(s, j)
        /\ i \in s.failed => j = Page!Attempts(s) - 1
    BY DEF Reaches
  <2>2. Failed(t, j) /\ i = Idx(t, j) /\ Page!Attempts(t) = Page!Attempts(s)
    BY <1>2, <2>1, SameSearch
  <2>3. i = s.activeIndex => j = Page!Attempts(s) - 1
    <3>1. SUFFICES ASSUME i = s.activeIndex PROVE j = Page!Attempts(s) - 1
      OBVIOUS
    <3>2. /\ s.items.len \in Nat /\ s.activeIndex \in 0 .. s.items.len - 1
          /\ Page!Attempts(s) \in Nat /\ Page!Attempts(s) <= s.items.len
      BY <1>2, AttemptsOK DEF PageHolds, IsIndex, PageState
    <3>3. j \in 0 .. s.items.len - 1
      BY <2>1, <3>2
    <3>4. (((s.activeIndex + 1) % s.items.len) + j) % s.items.len = s.activeIndex
      BY <1>2, <2>1, <3>1 DEF Idx, Base
    <3>5. j = s.items.len - 1
      BY <3>2, <3>3, <3>4, BackAtActive
    <3>6. QED
      BY <2>1, <3>2, <3>5
  <2>4. i \in t.failed => j = Page!Attempts(t) - 1
    BY <1>2, <2>1, <2>2, <2>3
  <2>5. QED
    BY <2>1, <2>2, <2>4 DEF Reaches
<1>3. QED
  BY <1>1, <1>2

\* An element fails after it had data.
LEMMA MediaErrorOK == ASSUME PageInv, NEW k \in {0, 1}, Page!MediaError(k) PROVE PageInv'
<1> DEFINE e == [state.slots[k] EXCEPT !.ready = FALSE]
           more == IF k = state.activeSlot /\ state.activeIndex >= 0 /\ ~state.moving
                   THEN state.failed \cup {state.activeIndex} ELSE state.failed
<1>1. /\ Page!Quiet /\ state.slots[k].ready /\ call' = call /\ overlapped' = overlapped
      /\ state' = [state EXCEPT !.slots[k].ready = FALSE, !.failed = more]
  BY DEF Page!MediaError
<1>2. state \in PageState /\ call \in [Calls -> PageCall] /\ state.slots[k] \in Elements
  BY DEF PageInv, PageTyped, PageState
<1>3. /\ e \in Elements /\ e.index = state.slots[k].index /\ e.src = state.slots[k].src
      /\ e.pending = state.slots[k].pending /\ ~e.ready
  BY <1>2 DEF Elements
<1>4. state' = [state EXCEPT !.slots[k] = e, !.failed = more] /\ more \in SUBSET Int
  BY <1>1, <1>2 DEF PageState
<1>5. \/ more = state.failed
      \/ state.activeIndex # Page!NoIndex /\ more = state.failed \cup {state.activeIndex}
  BY DEF Page!NoIndex
<1> HIDE DEF e, more
<1>6. /\ state' \in PageState /\ SameItem(state, state') /\ SameList(state, state')
      /\ state'.moving = state.moving /\ state'.slots[k] = e /\ state'.failed = more
      /\ \A m \in {0, 1} \ {k} : state'.slots[m] = state.slots[m]
  BY <1>2, <1>3, <1>4 DEF PageState, SameItem, SameList
<1>7. \A q \in Calls : FetchOK(call'[q], state)
  BY <1>1 DEF PageInv, ListOK
<1>8. \A m \in {0, 1} : ElementOK(state'.slots[m])
  BY <1>3, <1>6 DEF ElementOK, PageInv, ListOK
<1>9. ASSUME ~overlapped PROVE Calm'
  <2>1. PageHolds(state)
    BY <1>9, CalmFacts
  <2>2. \A m \in {0, 1} : /\ state'.slots[m].index = state.slots[m].index
                          /\ state'.slots[m].src = state.slots[m].src
                          /\ state'.slots[m].pending = state.slots[m].pending
    BY <1>3, <1>6
  <2>3. /\ Target(state') = Target(state) /\ Page!Attempts(state') = Page!Attempts(state)
        /\ \A i : IsIndex(state', i) = IsIndex(state, i)
        /\ \A c : Searches(c, state') = Searches(c, state)
    BY <1>6, SameSearch
  <2>4. NonePending(state') = NonePending(state)
    BY <2>2 DEF NonePending
  <2>5. /\ state'.items = state.items /\ state'.activeIndex = state.activeIndex
        /\ state'.activeSlot = state.activeSlot
    BY <1>6 DEF SameItem
  <2>6. state.items.len > 0 => \A j, i : Reaches(state, j, i) => Reaches(state', j, i)
    BY <1>2, <1>5, <1>6, <2>1, ReachesMore
  <2>7. \A m \in {0, 1} : state.slots[m].pending => state.items.len > 0
    <3>1. ASSUME NEW m \in {0, 1}, state.slots[m].pending PROVE state.items.len > 0
      <4>1. PICK j \in 0 .. Page!Attempts(state) - 1 : TRUE
        BY <2>1, <3>1 DEF PageHolds
      <4>2. QED
        BY <1>2, <4>1, AttemptsOK DEF PageState
    <3>2. QED
      BY <3>1
  <2>8. PageHolds(state')
    <3>1. state'.activeIndex # Page!NoIndex =>
             /\ IsIndex(state', state'.activeIndex)
             /\ state'.slots[state'.activeSlot].src = state'.activeIndex
             /\ ~state'.slots[state'.activeSlot].pending
      <4>1. state.activeSlot \in {0, 1}
        BY <1>2 DEF PageState
      <4>2. QED
        BY <2>1, <2>2, <2>3, <2>5, <4>1 DEF PageHolds
    <3>2. \A m \in {0, 1} : state'.slots[m].pending =>
             /\ m = Target(state')
             /\ \E j \in 0 .. Page!Attempts(state') - 1 : Reaches(state', j, state'.slots[m].index)
      BY <2>1, <2>2, <2>3, <2>6, <2>7 DEF PageHolds
    <3>3. state'.items.len > 0 /\ ~state'.moving => state'.activeIndex # Page!NoIndex
      BY <1>6, <2>1, <2>5 DEF PageHolds
    <3>4. QED
      BY <3>1, <3>2, <3>3 DEF PageHolds
  <2>9. ASSUME NEW q \in Calls PROVE CallOK(call'[q], state')
    <3> DEFINE c == call[q]
    <3>1. CallOK(c, state) /\ c \in PageCall /\ c.at \notin {"loop", "found"} /\ FetchOK(c, state)
      BY <1>1, <1>2, <1>9, CalmFacts DEF Page!Quiet, PageInv, ListOK
    <3> HIDE DEF c
    <3>2. c.at \in {"free", "fetch", "await", "stale", "swap", "play"} /\ c.slot \in {0, 1}
      BY <3>1 DEF PageCall
    <3>3. CASE Resting(c)
      <4>1. Main(c) => state'.moving
        BY <1>6, <3>1 DEF CallOK
      <4>2. QED
        BY <1>1, <2>5, <3>1, <3>3, <4>1, RestingOK DEF c
    <3>4. CASE c.at \in {"await", "swap", "play"}
      <4>1. /\ c.fresh /\ state'.items.len > 0 /\ (Main(c) => state'.moving)
            /\ c.kind = "show" /\ c.at = "await" => state'.activeIndex = Page!NoIndex
            /\ c.kind = "next" => state'.activeIndex # Page!NoIndex
        BY <1>6, <2>5, <3>1, <3>4 DEF CallOK, Working
      <4>2. c.at = "await" => /\ c.kind # "none" /\ Searches(c, state') /\ state'.slots[c.slot].pending
                              /\ state'.slots[c.slot].index = c.index
                              /\ Reaches(state', c.offset, c.index)
        BY <2>2, <2>3, <2>5, <2>6, <3>1, <3>2, <4>1 DEF CallOK
      <4>3. c.at = "swap" => /\ c.kind = "next" /\ c.slot = Target(state') /\ IsIndex(state', c.index)
                             /\ NonePending(state') /\ state'.slots[c.slot].src = c.index
                             /\ state'.activeIndex # Page!NoIndex
        BY <2>2, <2>3, <2>4, <2>5, <3>1, <3>2 DEF CallOK
      <4>4. c.at = "play" => /\ c.kind \in {"show", "next"} /\ c.slot = state'.activeSlot
                             /\ state'.activeIndex # Page!NoIndex /\ NonePending(state')
        BY <2>4, <2>5, <3>1 DEF CallOK
      <4>5. CallOK(c, state')
        BY <3>4, <4>1, <4>2, <4>3, <4>4 DEF CallOK
      <4>6. QED
        BY <1>1, <4>5 DEF c
    <3>5. QED
      BY <3>2, <3>3, <3>4 DEF Resting
  <2>10. ASSUME NEW q \in Calls, NEW r \in Calls, q # r
         PROVE  PairOK(call'[q], call'[r], state')
    <3>1. PairOK(call[q], call[r], state) /\ call[r].at # "loop"
      BY <1>1, <1>9, <2>10, CalmFacts DEF Page!Quiet
    <3>2. QED
      BY <1>1, <3>1, PairWith
  <2>11. QED
    BY <2>8, <2>9, <2>10 DEF Calm
<1>10. QED
  BY <1>1, <1>2, <1>6, <1>7, <1>8, <1>9, ListKept DEF PageInv

-----------------------------------------------------------------------------
(* A transition ends or begins. *)

\* A step gives one call another value; others at most wait for a promise of the past.
LEMMA CallsKept ==
    ASSUME PageInv, NEW p \in Calls, NEW c \in PageCall, FetchOK(c, state),
           NEW d \in [Calls -> PageCall],
           \A q \in Calls : d[q] = call[q] \/ d[q].at = "stale",
           call' = [d EXCEPT ![p] = c]
    PROVE  /\ call' \in [Calls -> PageCall] /\ \A q \in Calls : FetchOK(call'[q], state)
           /\ \A q \in Calls : call'[q] = IF q = p THEN c ELSE d[q]
<1>1. call' \in [Calls -> PageCall] /\ \A q \in Calls : call'[q] = IF q = p THEN c ELSE d[q]
  OBVIOUS
<1>2. ASSUME NEW q \in Calls PROVE FetchOK(call'[q], state)
  <2>1. FetchOK(call[q], state)
    BY DEF PageInv, ListOK
  <2>2. d[q].at = "stale" => FetchOK(d[q], state)
    BY DEF FetchOK
  <2>3. QED
    BY <1>1, <2>1, <2>2
<1>3. QED
  BY <1>1, <1>2

\* Beside the one that changes the page, when nothing loads.
LEMMA OthersRest ==
    ASSUME PageInv, ~overlapped, Page!Quiet, NEW p \in Calls, Main(call[p]), NonePending(state),
           NEW q \in Calls \ {p}
    PROVE  Resting(call[q]) /\ ~Main(call[q])
<1>1. CallOK(call[q], state) /\ PairOK(call[p], call[q], state) /\ call[q] \in PageCall /\ state \in PageState
  BY CalmFacts DEF PageInv, PageTyped
<1>2. ~Main(call[q]) /\ call[q].at \notin {"loop", "found"}
  BY <1>1 DEF PairOK, Page!Quiet
<1>3. call[q].at # "await"
  <2>1. Target(state) \in {0, 1}
    BY <1>1, TargetIsSlot
  <2>2. QED
    BY <1>1, <2>1 DEF CallOK, NonePending, Searches
<1>4. call[q].at \notin {"swap", "play"}
  BY <1>1, <1>2, MainOf
<1>5. call[q].at \in {"free", "fetch", "loop", "await", "stale", "found", "swap", "play"}
  BY <1>1 DEF PageCall
<1>6. QED
  BY <1>2, <1>3, <1>4, <1>5 DEF Resting

\* Beside showFirst nothing is at work.
LEMMA OthersIdle ==
    ASSUME PageInv, ~overlapped, NEW p \in Calls, Main(call[p]), call[p].kind = "show",
           NEW q \in Calls \ {p}
    PROVE  Resting(call[q]) /\ ~Main(call[q]) /\ ~Working(call[q])
BY CalmFacts DEF PairOK, Working, Resting

\* The page shows an item, nothing loads, and one call goes on beside others that rest.
LEMMA CalmAgain ==
    ASSUME PageInv, ~overlapped, NEW p \in Calls,
           \A q \in Calls \ {p} : Resting(call[q]) /\ ~Main(call[q]) /\ call'[q] = call[q],
           state' \in PageState, state'.items = state.items,
           IsIndex(state', state'.activeIndex), NonePending(state'),
           state'.slots[state'.activeSlot].src = state'.activeIndex,
           CallOK(call'[p], state'),
           Main(call'[p]) => Main(call[p]) /\ call'[p].kind = call[p].kind
    PROVE  Calm'
<1>1. PageHolds(state')
  <2>1. state'.activeIndex # Page!NoIndex /\ state'.activeSlot \in {0, 1}
    BY DEF IsIndex, Page!NoIndex, PageState
  <2>2. QED
    BY <2>1 DEF PageHolds, NonePending
<1>2. ASSUME NEW q \in Calls \ {p} PROVE CallOK(call'[q], state')
  <2>1. CallOK(call[q], state) /\ FetchOK(call[q], state)
    BY CalmFacts DEF PageInv, ListOK
  <2>2. QED
    BY <2>1, RestingOK
<1>3. ASSUME NEW q \in Calls, NEW r \in Calls, q # r
      PROVE  PairOK(call'[q], call'[r], state')
  <2>1. PairOK(call[q], call[r], state)
    BY <1>3, CalmFacts
  <2>2. CASE q = p
    <3>1. call'[r] = call[r] /\ call[r].at # "loop"
      BY <1>3, <2>2 DEF Resting
    <3>2. QED
      BY <2>1, <2>2, <3>1, PairWith
  <2>3. CASE q # p
    BY <2>3 DEF PairOK
  <2>4. QED
    BY <2>2, <2>3
<1>4. QED
  BY <1>1, <1>2, <1>3 DEF Calm

\* The search that begins when a transition is over.
LEMMA PreloadBegins ==
    ASSUME NEW t \in PageState, IsIndex(t, t.activeIndex), NEW c, c = Page!PreloadNext(t)
    PROVE  CallOK(c, t) /\ ~Main(c)
<1>1. t.items.len \in Nat /\ t.items.len > 0 /\ t.activeIndex # Page!NoIndex
      /\ t.activeIndex \in Int
  BY DEF IsIndex, Page!NoIndex, PageState
<1>2. /\ c.kind = "preload" /\ c.at = "loop" /\ c.fresh
      /\ c.slot = 1 - t.activeSlot /\ c.start = Page!Following(t)
      /\ c.offset = 0 /\ c.attempts = Page!Attempts(t)
  <2>1. c # Page!Free
    <3>1. t.activeSlot \in {0, 1} /\ 1 - t.activeSlot \in {0, 1}
      BY DEF PageState
    <3>2. c = Page!Finding(t, "preload", 1 - t.activeSlot, Page!Following(t))
      BY <1>1 DEF Page!PreloadNext
    <3>3. c.at = "loop"
      BY <1>1, <3>1, <3>2, FollowingOK, FindingOK
    <3>4. QED
      BY <3>3, FreeCall
  <2>2. QED
    BY <2>1, PreloadOK
<1>3. Page!Attempts(t) \in Nat /\ Page!Attempts(t) > 0
  BY <1>1, AttemptsOK
<1>4. Page!Following(t) = Base(t)
  BY <1>1, FollowingOK DEF Base
<1>5. Searches(c, t)
  BY <1>1, <1>2, <1>4 DEF Searches, Target
<1>6. LoopOK(c, t)
  BY <1>2, <1>3, <1>5 DEF LoopOK, Failed
<1>7. QED
  BY <1>1, <1>2, <1>6 DEF CallOK, Main

\* The type of a preload that begins, or does not.
LEMMA PreloadTyped ==
    ASSUME NEW t \in PageState, NEW s, NEW c, c = Page!PreloadNext(t)
    PROVE  c \in PageCall /\ FetchOK(c, s)
<1>1. c \in PageCall /\ (c = Page!Free \/ c.at = "loop")
  BY PreloadOK
<1>2. QED
  BY <1>1, FreeCall DEF FetchOK

\* nextVideo ends: the old slot is emptied and the next item is searched for it.
LEMMA EndTransitionOK ==
    ASSUME PageInv, NEW p \in Calls, NEW s \in PageState, SameList(state, s), s.slots = state.slots,
           overlapped' = overlapped, Page!EndTransition(s, call, p),
           ~overlapped =>
              /\ \A q \in Calls \ {p} : Resting(call[q]) /\ ~Main(call[q])
              /\ IsIndex(s, s.activeIndex) /\ s.activeSlot = call[p].slot
              /\ s.slots[s.activeSlot].src = s.activeIndex /\ NonePending(s)
    PROVE  PageInv'
<1> DEFINE k == 1 - call[p].slot
           r == Page!ResetSlot(s, k)
           t == Page!TransitionOver(s, k)
           d == Page!Outdated(call, k)
           c == Page!PreloadNext(t)
<1>1. state' = t /\ call' = [d EXCEPT ![p] = c]
  BY DEF Page!EndTransition
<1>2. call[p] \in PageCall /\ call \in [Calls -> PageCall]
  BY DEF PageInv, PageTyped
<1>3. k \in {0, 1} /\ call[p].slot = 1 - k
  BY <1>2 DEF PageCall
<1>4. t = [r EXCEPT !.moving = FALSE]
  BY DEF Page!TransitionOver
<1> HIDE DEF c, d, r, k
<1>5. /\ r \in PageState /\ SameList(s, r)
      /\ r.activeSlot = s.activeSlot /\ r.activeIndex = s.activeIndex
      /\ r.slots[k] = Page!EmptySlot /\ r.slots[1 - k] = s.slots[1 - k]
  BY <1>3, ResetSlotOK DEF r
<1> HIDE DEF t
<1>6. /\ t \in PageState /\ SameList(s, t)
      /\ t.activeSlot = s.activeSlot /\ t.activeIndex = s.activeIndex
      /\ t.slots[k] = Page!EmptySlot /\ t.slots[1 - k] = s.slots[1 - k]
  BY <1>4, <1>5 DEF PageState, SameList
<1>7. d \in [Calls -> PageCall] /\ \A q \in Calls : d[q] = call[q] \/ d[q].at = "stale"
  BY <1>2, <1>3, OutdatedOK DEF d
<1>8. c \in PageCall /\ FetchOK(c, state)
  BY <1>6, PreloadTyped DEF c
<1>9. /\ call' \in [Calls -> PageCall] /\ \A q \in Calls : FetchOK(call'[q], state)
      /\ \A q \in Calls : call'[q] = IF q = p THEN c ELSE d[q]
  BY <1>1, <1>7, <1>8, CallsKept
<1>10. \A m \in {0, 1} : ElementOK(t.slots[m])
  <2>1. ElementOK(s.slots[1 - k])
    BY <1>3 DEF PageInv, ListOK
  <2>2. QED
    BY <1>3, <1>6, <2>1, EmptyElement
<1>11. SameList(state, t)
  BY <1>6 DEF SameList
<1>12. PageTyped' /\ ListOK'
  BY <1>1, <1>6, <1>9, <1>10, <1>11, ListKept
<1>13. ASSUME ~overlapped PROVE Calm'
  <2>1. \A q \in Calls \ {p} : Resting(call[q]) /\ ~Main(call[q]) /\ call'[q] = call[q]
    <3>1. \A q \in Calls \ {p} : d[q] = call[q]
      BY <1>2, <1>3, <1>13, OutdatedOK DEF d, Resting
    <3>2. QED
      BY <1>9, <1>13, <3>1
  <2>2. IsIndex(t, t.activeIndex) /\ t.items = state.items
    BY <1>6, <1>11, <1>13 DEF IsIndex, SameList
  <2>3. NonePending(t)
    <3>1. ~t.slots[k].pending /\ ~t.slots[1 - k].pending
      BY <1>3, <1>6, <1>13, EmptyElement DEF NonePending
    <3>2. QED
      BY <1>3, <3>1 DEF NonePending
  <2>4. t.slots[t.activeSlot].src = t.activeIndex
    BY <1>3, <1>6, <1>13
  <2>5. CallOK(c, t) /\ ~Main(c)
    BY <1>6, <2>2, PreloadBegins DEF c
  <2>6. call'[p] = c
    BY <1>9
  <2>7. QED
    BY <1>1, <1>6, <1>13, <2>1, <2>2, <2>3, <2>4, <2>5, <2>6, CalmAgain
<1>14. QED
  BY <1>12, <1>13 DEF PageInv

\* showFirst ends, and the next item is searched.
LEMMA EndShowOK ==
    ASSUME PageInv, NEW p \in Calls, NEW s \in PageState, SameList(state, s),
           \A m \in {0, 1} : ElementOK(s.slots[m]),
           NEW d \in [Calls -> PageCall], \A q \in Calls : d[q] = call[q] \/ d[q].at = "stale",
           overlapped' = overlapped, Page!EndShow(s, d, p),
           ~overlapped =>
              /\ \A q \in Calls \ {p} : Resting(call[q]) /\ ~Main(call[q]) /\ d[q] = call[q]
              /\ IsIndex(s, s.activeIndex)
              /\ s.slots[s.activeSlot].src = s.activeIndex /\ NonePending(s)
    PROVE  PageInv'
<1> DEFINE c == Page!PreloadNext(s)
<1>1. /\ state' = (IF call[p].fresh THEN [s EXCEPT !.moving = FALSE] ELSE s)
      /\ call' = [d EXCEPT ![p] = c]
  BY DEF Page!EndShow, Page!StillCurrent
<1>2. c \in PageCall /\ FetchOK(c, state)
  BY PreloadTyped
<1>3. c = Page!PreloadNext(s)
  OBVIOUS
<1> HIDE DEF c
<1>4. state' \in PageState /\ SameList(s, state') /\ SamePage(s, state')
  BY <1>1 DEF PageState, SameList, SamePage
<1>5. /\ call' \in [Calls -> PageCall] /\ \A q \in Calls : FetchOK(call'[q], state)
      /\ \A q \in Calls : call'[q] = IF q = p THEN c ELSE d[q]
  BY <1>1, <1>2, CallsKept
<1>6. SameList(state, state') /\ \A m \in {0, 1} : ElementOK(state'.slots[m])
  BY <1>4 DEF SameList, SamePage
<1>7. PageTyped' /\ ListOK'
  BY <1>4, <1>5, <1>6, ListKept
<1>8. ASSUME ~overlapped PROVE Calm'
  <2>1. CallOK(c, s) /\ ~Main(c)
    BY <1>3, <1>8, PreloadBegins
  <2>2. CallOK(c, state')
    BY <1>4, <2>1, SamePageOK
  <2>3. /\ IsIndex(state', state'.activeIndex) /\ NonePending(state')
        /\ state'.slots[state'.activeSlot].src = state'.activeIndex
    BY <1>4, <1>8 DEF SamePage, IsIndex, NonePending
  <2>4. state'.items = state.items
    BY <1>6 DEF SameList
  <2>5. \A q \in Calls \ {p} : Resting(call[q]) /\ ~Main(call[q]) /\ call'[q] = call[q]
    BY <1>5, <1>8
  <2>6. call'[p] = c
    BY <1>5
  <2>7. QED
    BY <1>4, <1>8, <2>1, <2>2, <2>3, <2>4, <2>5, <2>6, CalmAgain
<1>9. QED
  BY <1>7, <1>8 DEF PageInv

\* The incoming item becomes the active one and begins to play.
LEMMA PlayBegins ==
    ASSUME PageInv, NEW p \in Calls, NEW c \in PageCall, c.at = "play", c.kind = call[p].kind,
           c.fresh = call[p].fresh, c.slot = call[p].slot,
           overlapped' = overlapped, call' = [call EXCEPT ![p] = c],
           NEW t, t = [state EXCEPT !.activeSlot = call[p].slot, !.activeIndex = call[p].index],
           state' = t,
           ~overlapped =>
              /\ \A q \in Calls \ {p} : Resting(call[q]) /\ ~Main(call[q])
              /\ call[p].kind \in {"show", "next"} /\ Working(call[p])
              /\ IsIndex(state, call[p].index) /\ NonePending(state)
              /\ state.slots[call[p].slot].src = call[p].index
    PROVE  PageInv'
<1>1. call[p] \in PageCall /\ call \in [Calls -> PageCall] /\ state \in PageState
  BY DEF PageInv, PageTyped
<1>2. call[p].slot \in {0, 1} /\ call[p].index \in Int
  BY <1>1 DEF PageCall
<1>3. /\ t \in PageState /\ SameList(state, t) /\ t.slots = state.slots /\ t.moving = state.moving
      /\ t.activeSlot = call[p].slot /\ t.activeIndex = call[p].index
  BY <1>1, <1>2 DEF PageState, SameList
<1>4. FetchOK(c, state)
  BY DEF FetchOK
<1>5. /\ call' \in [Calls -> PageCall] /\ \A q \in Calls : FetchOK(call'[q], state)
      /\ \A q \in Calls : call'[q] = IF q = p THEN c ELSE call[q]
  BY <1>1, <1>4, CallsKept
<1>6. \A m \in {0, 1} : ElementOK(t.slots[m])
  BY <1>3 DEF PageInv, ListOK
<1>7. PageTyped' /\ ListOK'
  BY <1>3, <1>5, <1>6, ListKept
<1>8. ASSUME ~overlapped PROVE Calm'
  <2>1. CallOK(call[p], state)
    BY <1>8, CalmFacts
  <2>2. t.items = state.items /\ IsIndex(t, t.activeIndex) /\ NonePending(t)
        /\ t.slots[t.activeSlot].src = t.activeIndex
    BY <1>3, <1>8 DEF SameList, IsIndex, NonePending
  <2>3. t.activeIndex # Page!NoIndex /\ t.items.len > 0
    BY <1>1, <1>3, <2>1, <2>2, <1>8 DEF IsIndex, Page!NoIndex, CallOK, SameList
  <2>4. c.fresh /\ t.moving
    <3>1. call[p].fresh
      BY <1>8, <2>1 DEF CallOK, Working
    <3>2. Main(call[p])
      BY <1>8, <3>1 DEF Main, Working
    <3>3. QED
      BY <1>3, <2>1, <3>1, <3>2 DEF CallOK
  <2>5. CallOK(c, t)
    BY <1>3, <1>8, <2>2, <2>3, <2>4 DEF CallOK
  <2>6. Main(c) => Main(call[p]) /\ c.kind = call[p].kind
    BY <1>8 DEF Main, Working
  <2>7. \A q \in Calls \ {p} : Resting(call[q]) /\ ~Main(call[q]) /\ call'[q] = call[q]
    BY <1>5, <1>8
  <2>8. call'[p] = c /\ state' = t
    BY <1>5
  <2>9. QED
    BY <1>3, <1>8, <2>2, <2>5, <2>6, <2>7, <2>8, CalmAgain
<1>9. QED
  BY <1>7, <1>8 DEF PageInv

\* What a transition does not look at holds when nothing overlaps: its own slot and index.
LEMMA SwapFacts ==
    ASSUME PageInv, ~overlapped, Page!Quiet, NEW p \in Calls, call[p].at = "swap"
    PROVE  /\ \A q \in Calls \ {p} : Resting(call[q]) /\ ~Main(call[q])
           /\ call[p].kind = "next" /\ IsIndex(state, call[p].index) /\ NonePending(state)
           /\ state.slots[call[p].slot].src = call[p].index
<1>1. CallOK(call[p], state) /\ call[p] \in PageCall
  BY CalmFacts DEF PageInv, PageTyped
<1>2. Main(call[p])
  BY <1>1, MainOf
<1>3. /\ call[p].kind = "next" /\ IsIndex(state, call[p].index) /\ NonePending(state)
      /\ state.slots[call[p].slot].src = call[p].index
  BY <1>1 DEF CallOK
<1>4. QED
  BY <1>2, <1>3, OthersRest

\* The timer of the transition.
LEMMA SwapEndsOK == ASSUME PageInv, NEW p \in Calls, Page!SwapEnds(p) PROVE PageInv'
<1> DEFINE s == [state EXCEPT !.activeSlot = call[p].slot, !.activeIndex = call[p].index]
           no == FALSE
           none == Page!NoIndex
           c == Page!At(p, "play", none, no)
<1>1. /\ Page!Quiet /\ call[p].at = "swap" /\ overlapped' = overlapped
      /\ IF call[p].playable THEN state' = s /\ call' = [call EXCEPT ![p] = c]
         ELSE Page!EndTransition(s, call, p)
  BY DEF Page!SwapEnds
<1>2. call[p] \in PageCall /\ call \in [Calls -> PageCall] /\ state \in PageState
  BY DEF PageInv, PageTyped
<1>3. /\ s \in PageState /\ SameList(state, s) /\ s.slots = state.slots
      /\ s.activeSlot = call[p].slot /\ s.activeIndex = call[p].index
  BY <1>2 DEF PageState, PageCall, SameList
<1>4. CASE call[p].playable
  <2>1. no \in BOOLEAN /\ none \in Int
    BY DEF Page!NoIndex
  <2>2. state' = [state EXCEPT !.activeSlot = call[p].slot, !.activeIndex = call[p].index]
        /\ call' = [call EXCEPT ![p] = c]
    BY <1>1, <1>4
  <2> HIDE DEF no, none, s
  <2>3. c \in PageCall /\ c.at = "play" /\ c.kind = call[p].kind /\ c.fresh = call[p].fresh
        /\ c.slot = call[p].slot
    BY <1>2, <2>1, AtOK
  <2> HIDE DEF c
  <2>4. ~overlapped =>
              /\ \A q \in Calls \ {p} : Resting(call[q]) /\ ~Main(call[q])
              /\ call[p].kind \in {"show", "next"} /\ Working(call[p])
              /\ IsIndex(state, call[p].index) /\ NonePending(state)
              /\ state.slots[call[p].slot].src = call[p].index
    BY <1>1, SwapFacts DEF Working
  <2>5. QED
    BY <1>1, <2>2, <2>3, <2>4, PlayBegins
<1>5. CASE ~call[p].playable
  <2>1. Page!EndTransition(s, call, p)
    BY <1>1, <1>5
  <2> HIDE DEF s
  <2>2. ~overlapped =>
              /\ \A q \in Calls \ {p} : Resting(call[q]) /\ ~Main(call[q])
              /\ IsIndex(s, s.activeIndex) /\ s.activeSlot = call[p].slot
              /\ s.slots[s.activeSlot].src = s.activeIndex /\ NonePending(s)
    BY <1>1, <1>3, SwapFacts DEF IsIndex, SameList, NonePending
  <2>3. QED
    BY <1>1, <1>3, <2>1, <2>2, EndTransitionOK
<1>6. QED
  BY <1>4, <1>5

\* play() settles.
LEMMA PlayEndsOK == ASSUME PageInv, NEW p \in Calls, Page!PlayEnds(p) PROVE PageInv'
<1>1. /\ Page!Quiet /\ call[p].at = "play" /\ overlapped' = overlapped
      /\ IF call[p].kind = "show" THEN Page!EndShow(state, call, p) ELSE Page!EndTransition(state, call, p)
  BY DEF Page!PlayEnds
<1>2. call[p] \in PageCall /\ call \in [Calls -> PageCall] /\ state \in PageState
  BY DEF PageInv, PageTyped
<1>3. ~overlapped =>
         /\ \A q \in Calls \ {p} : Resting(call[q]) /\ ~Main(call[q])
         /\ IsIndex(state, state.activeIndex) /\ state.activeSlot = call[p].slot
         /\ state.slots[state.activeSlot].src = state.activeIndex /\ NonePending(state)
  <2> SUFFICES ASSUME ~overlapped
               PROVE  /\ \A q \in Calls \ {p} : Resting(call[q]) /\ ~Main(call[q])
                      /\ IsIndex(state, state.activeIndex) /\ state.activeSlot = call[p].slot
                      /\ state.slots[state.activeSlot].src = state.activeIndex /\ NonePending(state)
    OBVIOUS
  <2>1. CallOK(call[p], state) /\ PageHolds(state)
    BY CalmFacts
  <2>2. Main(call[p])
    BY <1>1, <1>2, <2>1, MainOf
  <2>3. call[p].slot = state.activeSlot /\ state.activeIndex # Page!NoIndex /\ NonePending(state)
    BY <1>1, <2>1 DEF CallOK
  <2>4. QED
    BY <1>1, <2>1, <2>2, <2>3, OthersRest DEF PageHolds
<1>4. SameList(state, state)
  BY DEF SameList
<1>5. CASE call[p].kind = "show"
  <2>1. \A m \in {0, 1} : ElementOK(state.slots[m])
    BY DEF PageInv, ListOK
  <2>2. Page!EndShow(state, call, p)
    BY <1>1, <1>5
  <2>3. QED
    BY <1>1, <1>2, <1>3, <1>4, <2>1, <2>2, EndShowOK
<1>6. CASE call[p].kind # "show"
  BY <1>1, <1>2, <1>3, <1>4, <1>6, EndTransitionOK
<1>7. QED
  BY <1>5, <1>6

\* When showFirst goes on after its search, nothing else is under way.
LEMMA ShowFoundFacts ==
    ASSUME PageInv, ~overlapped, NEW p \in Calls, call[p].at = "found", call[p].kind = "show"
    PROVE  /\ Main(call[p]) /\ call[p].fresh /\ call[p].slot = 0 /\ Target(state) = 0
           /\ IsIndex(state, call[p].index) /\ state.items.len > 0
           /\ \A q \in Calls \ {p} : Resting(call[q]) /\ ~Main(call[q]) /\ call[q].at # "await"
           /\ call[p].playable => NonePending(state) /\ state.slots[0].src = call[p].index
           /\ ~state.slots[1].pending
<1>1. CallOK(call[p], state) /\ call[p] \in PageCall /\ PageHolds(state)
  BY CalmFacts DEF PageInv, PageTyped
<1>2. Main(call[p]) /\ call[p].fresh
  BY <1>1, MainOf DEF CallOK
<1>3. state.activeIndex = Page!NoIndex /\ call[p].slot = Target(state)
      /\ IsIndex(state, call[p].index) /\ state.items.len > 0
  BY <1>1 DEF CallOK, Working
<1>4. Target(state) = 0
  BY <1>3 DEF Target
<1>5. \A q \in Calls \ {p} : Resting(call[q]) /\ ~Main(call[q]) /\ call[q].at # "await"
  BY <1>2, OthersIdle DEF Working
<1>6. call[p].playable => NonePending(state) /\ state.slots[0].src = call[p].index
  BY <1>1, <1>3, <1>4 DEF CallOK
<1>7. ~state.slots[1].pending
  BY <1>1, <1>4 DEF PageHolds
<1>8. QED
  BY <1>2, <1>3, <1>4, <1>5, <1>6, <1>7

\* showFirst goes on after its search.
LEMMA ShowFoundOK == ASSUME PageInv, NEW p \in Calls, Page!ShowFound(p) PROVE PageInv'
<1>1. call[p].at = "found" /\ call[p].kind = "show" /\ overlapped' = overlapped
  BY DEF Page!ShowFound
<1>2. call[p] \in PageCall /\ call \in [Calls -> PageCall] /\ state \in PageState
      /\ call[p].slot \in {0, 1} /\ call[p].index \in Int
  BY DEF PageInv, PageTyped, PageCall
<1>3. CASE ~call[p].fresh
  BY <1>1, <1>3, CallEnds DEF Page!ShowFound, Page!StillCurrent
<1>4. CASE call[p].fresh /\ call[p].playable
  <2> DEFINE no == FALSE
             none == Page!NoIndex
             c == Page!At(p, "play", none, no)
             t == [state EXCEPT !.activeSlot = 0, !.activeIndex = call[p].index]
  <2>1. state' = t /\ call' = [call EXCEPT ![p] = c]
    BY <1>1, <1>4 DEF Page!ShowFound, Page!StillCurrent, Page!Shown
  <2>2. no \in BOOLEAN /\ none \in Int
    BY DEF Page!NoIndex
  <2>3. call[p].slot = 0 => t = [state EXCEPT !.activeSlot = call[p].slot, !.activeIndex = call[p].index]
    OBVIOUS
  <2>4. /\ t \in PageState /\ SameList(state, t) /\ t.slots = state.slots /\ t.moving = state.moving
        /\ t.activeSlot = 0 /\ t.activeIndex = call[p].index
    <3> DEFINE zero == 0
    <3>1. zero \in {0, 1} /\ t = [state EXCEPT !.activeSlot = zero, !.activeIndex = call[p].index]
      OBVIOUS
    <3> HIDE DEF zero, t
    <3>2. /\ t \in PageState /\ SameList(state, t) /\ t.slots = state.slots /\ t.moving = state.moving
          /\ t.activeSlot = zero /\ t.activeIndex = call[p].index
      BY <1>2, <3>1 DEF PageState, SameList
    <3>3. QED
      BY <3>2 DEF zero
  <2> HIDE DEF no, none, t
  <2>5. c \in PageCall /\ c.at = "play" /\ c.kind = call[p].kind /\ c.fresh = call[p].fresh
        /\ c.slot = call[p].slot
    BY <1>2, <2>2, AtOK
  <2> HIDE DEF c
  <2>6. CASE overlapped
    <3>1. FetchOK(c, state)
      BY <2>5 DEF FetchOK
    <3>2. /\ call' \in [Calls -> PageCall] /\ \A q \in Calls : FetchOK(call'[q], state)
      BY <1>2, <2>1, <2>5, <3>1, CallsKept
    <3>3. \A m \in {0, 1} : ElementOK(t.slots[m])
      BY <2>4 DEF PageInv, ListOK
    <3>4. QED
      BY <1>1, <2>1, <2>4, <2>6, <3>2, <3>3, ListKept DEF PageInv
  <2>7. CASE ~overlapped
    <3>1. /\ \A q \in Calls \ {p} : Resting(call[q]) /\ ~Main(call[q])
          /\ call[p].kind \in {"show", "next"} /\ Working(call[p])
          /\ IsIndex(state, call[p].index) /\ NonePending(state)
          /\ state.slots[call[p].slot].src = call[p].index /\ call[p].slot = 0
      BY <1>1, <1>4, <2>7, ShowFoundFacts DEF Working
    <3>2. t = [state EXCEPT !.activeSlot = call[p].slot, !.activeIndex = call[p].index]
      BY <2>3, <3>1
    <3>3. QED
      BY <1>1, <2>1, <2>5, <3>1, <3>2, PlayBegins
  <2>8. QED
    BY <2>6, <2>7
<1>5. CASE call[p].fresh /\ ~call[p].playable
  <2> DEFINE r == Page!PrepareFailedSlot(state, 0, call[p].index)
             s == [r EXCEPT !.activeSlot = 0, !.activeIndex = call[p].index]
             d == Page!Outdated(call, 0)
  <2>1. Page!EndShow(s, d, p)
    BY <1>1, <1>5 DEF Page!ShowFound, Page!StillCurrent, Page!Shown
  <2> HIDE DEF r
  <2>2. /\ r \in PageState /\ SameList(state, r) /\ r.slots[1 - 0] = state.slots[1 - 0]
        /\ state.items.len > 0 => /\ r.slots[0].index = call[p].index /\ r.slots[0].src = call[p].index
                                  /\ ~r.slots[0].pending /\ ~r.slots[0].ready
        /\ state.items.len = 0 => r = state
    <3> DEFINE zero == 0
    <3>1. zero \in {0, 1} /\ r = Page!PrepareFailedSlot(state, zero, call[p].index)
      BY DEF r
    <3> HIDE DEF zero
    <3>2. Prepared(state, r, zero, call[p].index)
      BY <1>2, <3>1, PrepareOK
    <3>3. QED
      BY <3>2 DEF zero, Prepared
  <2>3. /\ s \in PageState /\ SameList(state, s) /\ s.slots = r.slots
        /\ s.activeSlot = 0 /\ s.activeIndex = call[p].index
    <3> DEFINE zero == 0
    <3>1. zero \in {0, 1} /\ s = [r EXCEPT !.activeSlot = zero, !.activeIndex = call[p].index]
      OBVIOUS
    <3> HIDE DEF zero, s
    <3>2. /\ s \in PageState /\ SameList(r, s) /\ s.slots = r.slots
          /\ s.activeSlot = zero /\ s.activeIndex = call[p].index
      BY <1>2, <2>2, <3>1 DEF PageState, SameList
    <3>3. QED
      BY <2>2, <3>2 DEF zero, SameList
  <2>4. d \in [Calls -> PageCall] /\ \A q \in Calls : d[q] = call[q] \/ d[q].at = "stale"
    BY <1>2, OutdatedOK
  <2>5. \A m \in {0, 1} : ElementOK(s.slots[m])
    <3>1. ElementOK(state.slots[0]) /\ ElementOK(state.slots[1]) /\ s.slots[1] = state.slots[1]
      BY <2>2, <2>3 DEF PageInv, ListOK
    <3>2. state.items.len \in Nat
      BY <1>2 DEF PageState
    <3>3. ElementOK(s.slots[0])
      BY <2>2, <2>3, <3>1, <3>2 DEF ElementOK
    <3>4. QED
      BY <3>1, <3>3
  <2> HIDE DEF s
  <2>6. ASSUME ~overlapped
        PROVE  /\ \A q \in Calls \ {p} : Resting(call[q]) /\ ~Main(call[q]) /\ d[q] = call[q]
               /\ IsIndex(s, s.activeIndex)
               /\ s.slots[s.activeSlot].src = s.activeIndex /\ NonePending(s)
    <3>1. /\ \A q \in Calls \ {p} : Resting(call[q]) /\ ~Main(call[q]) /\ call[q].at # "await"
          /\ IsIndex(state, call[p].index) /\ state.items.len > 0 /\ ~state.slots[1].pending
      BY <1>1, <2>6, ShowFoundFacts
    <3>2. \A q \in Calls \ {p} : d[q] = call[q]
      BY <1>2, <3>1, OutdatedOK
    <3>3. IsIndex(s, s.activeIndex)
      BY <2>3, <3>1 DEF IsIndex, SameList
    <3>4. s.slots[s.activeSlot].src = s.activeIndex /\ NonePending(s)
      BY <2>2, <2>3, <3>1 DEF NonePending
    <3>5. QED
      BY <3>1, <3>2, <3>3, <3>4
  <2> HIDE DEF d
  <2>7. QED
    BY <1>1, <2>1, <2>3, <2>4, <2>5, <2>6, EndShowOK
<1>6. QED
  BY <1>3, <1>4, <1>5

\* A call goes on as "swap": its page holds what it found, whatever loads there was given up.
LEMMA SwapOK ==
    ASSUME PageInv, ~overlapped, NEW p \in Calls, call[p].at = "found", call[p].kind = "next",
           NEW c, c.at = "swap", c.kind = "next", c.fresh = call[p].fresh, c.slot = call[p].slot,
           c.index = call[p].index,
           NEW t, SameItem(state, t), t.moving = state.moving,
           NonePending(t), t.slots[c.slot].src = c.index
    PROVE  CallOK(c, t)
<1>1. CallOK(call[p], state)
  BY CalmFacts
<1>2. c.fresh /\ state.items.len > 0 /\ state.moving
  BY <1>1 DEF CallOK, Working, Main
<1>3. /\ c.slot = Target(state) /\ IsIndex(state, c.index) /\ state.activeIndex # Page!NoIndex
  BY <1>1 DEF CallOK
<1>4. c.slot = Target(t) /\ IsIndex(t, c.index) /\ t.activeIndex # Page!NoIndex /\ t.items.len > 0
  BY <1>2, <1>3, SameSearch DEF SameItem
<1>5. QED
  BY <1>2, <1>4 DEF CallOK

\* Nothing that was found plays: who else waits has no index left to try.
LEMMA NoneLeft ==
    ASSUME PageInv, ~overlapped, NEW p \in Calls, call[p].at = "found", call[p].kind = "next",
           ~call[p].playable,
           NEW q \in Calls \ {p}, call[q].at = "await"
    PROVE  call[q].kind = "preload" /\ call[q].offset + 1 >= call[q].attempts
<1>1. /\ CallOK(call[p], state) /\ CallOK(call[q], state) /\ PairOK(call[p], call[q], state)
      /\ call[q] \in PageCall /\ state \in PageState /\ call[p] \in PageCall
  BY CalmFacts DEF PageInv, PageTyped
<1>2. Main(call[p]) /\ Failed(state, Page!Attempts(state))
  BY <1>1, MainOf DEF CallOK
<1>3. call[q].kind = "preload"
  BY <1>1, <1>2 DEF PairOK, CallOK, Main, PageCall
<1>4. Searches(call[q], state) /\ Reaches(state, call[q].offset, call[q].index)
  BY <1>1 DEF CallOK
<1>5. /\ call[q].offset \in 0 .. Page!Attempts(state) - 1 /\ call[q].index = Idx(state, call[q].offset)
      /\ call[q].index \in state.failed => call[q].offset = Page!Attempts(state) - 1
      /\ Page!Attempts(state) \in Nat /\ call[q].attempts = Page!Attempts(state)
  BY <1>1, <1>4, AttemptsOK DEF Reaches, Searches
<1>6. call[q].index \in state.failed
  BY <1>2, <1>5 DEF Failed
<1>7. QED
  BY <1>3, <1>5, <1>6

\* nextVideo found an item that plays.
LEMMA NextPlaysOK ==
    ASSUME PageInv, NEW p \in Calls, Page!NextFound(p), call[p].playable PROVE PageInv'
<1> DEFINE c == [call[p] EXCEPT !.at = "swap"]
<1>1. call[p].at = "found" /\ call[p].kind = "next" /\ overlapped' = overlapped /\ state' = state
  BY DEF Page!NextFound
<1>2. call[p] \in PageCall /\ call \in [Calls -> PageCall] /\ state \in PageState
  BY DEF PageInv, PageTyped
<1>3. call' = [call EXCEPT ![p] = c]
  BY <1>2 DEF Page!NextFound
<1>4. /\ c \in PageCall /\ c.at = "swap" /\ c.kind = call[p].kind /\ c.fresh = call[p].fresh
      /\ c.slot = call[p].slot /\ c.index = call[p].index
  BY <1>2 DEF PageCall
<1> HIDE DEF c
<1>5. FetchOK(c, state)
  BY <1>4 DEF FetchOK
<1>6. ASSUME ~overlapped PROVE CallOK(c, state)
  <2>1. CallOK(call[p], state)
    BY <1>6, CalmFacts
  <2>2. NonePending(state) /\ state.slots[c.slot].src = c.index
    BY <1>1, <1>4, <2>1 DEF CallOK
  <2>3. SameItem(state, state)
    BY DEF SameItem
  <2>4. QED
    BY <1>1, <1>4, <1>6, <2>2, <2>3, SwapOK
<1>7. ASSUME ~overlapped, NEW q \in Calls \ {p}
      PROVE  PairOK(c, call[q], state) /\ PairOK(call[q], c, state)
  <2>1. PairOK(call[p], call[q], state) /\ PairOK(call[q], call[p], state)
    BY <1>7, CalmFacts
  <2>2. Main(c) = Main(call[p]) /\ Working(c) = Working(call[p])
    BY <1>1, <1>4 DEF Main, Working
  <2>3. PairOK(c, call[q], state)
    BY <1>1, <1>4, <2>1, <2>2 DEF PairOK
  <2>4. PairOK(call[q], c, state)
    BY <1>4, <2>1, <2>2, PairAside
  <2>5. QED
    BY <2>3, <2>4
<1>8. QED
  BY <1>1, <1>3, <1>4, <1>5, <1>6, <1>7, OneCall

\* nextVideo found none that plays, and shows the last it tried.
LEMMA NextFailsOK ==
    ASSUME PageInv, NEW p \in Calls, Page!NextFound(p), ~call[p].playable PROVE PageInv'
<1> DEFINE k == call[p].slot
           e == Page!Outdated(call, k)
           d == IF state.items.len = 0 THEN call ELSE e
           c == [d[p] EXCEPT !.at = "swap"]
<1>1. /\ call[p].at = "found" /\ call[p].kind = "next" /\ overlapped' = overlapped
      /\ state' = Page!PrepareFailedSlot(state, k, call[p].index)
  BY DEF Page!NextFound
<1>2. call[p] \in PageCall /\ call \in [Calls -> PageCall] /\ state \in PageState
  BY DEF PageInv, PageTyped
<1>3. k \in {0, 1} /\ call[p].index \in Int /\ state.items.len \in Nat
  BY <1>2 DEF PageCall, PageState
<1>4. e \in [Calls -> PageCall] /\ \A q \in Calls : e[q] = call[q] \/ e[q].at = "stale"
  BY <1>2, <1>3, OutdatedOK
<1>5. e[p] = call[p]
  BY <1>1, <1>2, <1>3, OutdatedOK
<1> HIDE DEF e
<1>6. d \in [Calls -> PageCall] /\ (\A q \in Calls : d[q] = call[q] \/ d[q].at = "stale") /\ d[p] = call[p]
  BY <1>2, <1>4, <1>5
<1>7. call' = [d EXCEPT ![p].at = "swap"]
  BY DEF Page!NextFound, e
<1> HIDE DEF d
<1>8. call' = [d EXCEPT ![p] = c]
  BY <1>6, <1>7
<1>9. /\ c \in PageCall /\ c.at = "swap" /\ c.kind = call[p].kind /\ c.fresh = call[p].fresh
      /\ c.slot = k /\ c.index = call[p].index
  BY <1>2, <1>6 DEF PageCall
<1> HIDE DEF c
<1>10. FetchOK(c, state)
  BY <1>9 DEF FetchOK
<1>11. /\ call' \in [Calls -> PageCall] /\ \A q \in Calls : FetchOK(call'[q], state)
       /\ \A q \in Calls : call'[q] = IF q = p THEN c ELSE d[q]
  BY <1>6, <1>8, <1>9, <1>10, CallsKept
<1>12. /\ state' \in PageState /\ SameList(state, state') /\ state'.failed = state.failed
       /\ state'.moving = state.moving /\ state'.activeSlot = state.activeSlot
       /\ state'.activeIndex = state.activeIndex /\ state'.slots[1 - k] = state.slots[1 - k]
       /\ state.items.len > 0 => /\ state'.slots[k].index = call[p].index
                                 /\ state'.slots[k].src = call[p].index
                                 /\ ~state'.slots[k].pending /\ ~state'.slots[k].ready
       /\ state.items.len = 0 => state' = state
  <2>1. Prepared(state, state', k, call[p].index)
    BY <1>1, <1>2, <1>3, PrepareOK
  <2>2. QED
    BY <2>1 DEF Prepared
<1>13. \A m \in {0, 1} : ElementOK(state'.slots[m])
  <2>1. ElementOK(state.slots[k]) /\ ElementOK(state.slots[1 - k])
    BY <1>3 DEF PageInv, ListOK
  <2>2. ElementOK(state'.slots[k])
    BY <1>3, <1>12, <2>1 DEF ElementOK
  <2>3. QED
    BY <1>3, <1>12, <2>1, <2>2
<1>14. PageTyped' /\ ListOK'
  BY <1>11, <1>12, <1>13, ListKept
<1>15. ASSUME ~overlapped PROVE Calm'
  <2>1. CallOK(call[p], state) /\ PageHolds(state)
    BY <1>15, CalmFacts
  <2>2. Main(call[p]) /\ k = Target(state) /\ state.items.len > 0
    BY <1>1, <1>2, <2>1, MainOf DEF CallOK, Working
  <2>3. SameItem(state, state')
    BY <1>12 DEF SameItem, SameList
  <2>4. NonePending(state')
    <3>1. ~state.slots[1 - k].pending
      BY <1>3, <2>1, <2>2 DEF PageHolds
    <3>2. QED
      BY <1>3, <1>12, <2>2, <3>1 DEF NonePending
  <2>5. CallOK(c, state')
    <3>1. state'.slots[c.slot].src = c.index
      BY <1>9, <1>12, <2>2
    <3>2. QED
      BY <1>1, <1>9, <1>12, <1>15, <2>3, <2>4, <3>1, SwapOK
  <2>6. d = e
    BY <2>2 DEF d
  <2>7. ASSUME NEW q \in Calls \ {p}
        PROVE  /\ Resting(d[q]) \/ (d[q].at = "loop" /\ Hopeless(d[q], state))
                  \/ (d[q].at = "found" /\ d[q].kind = "preload")
               /\ CallOK(d[q], state) /\ ~Main(d[q]) /\ FetchOK(d[q], state)
    <3>1. /\ CallOK(call[q], state) /\ PairOK(call[p], call[q], state) /\ call[q] \in PageCall
          /\ FetchOK(call[q], state)
      BY <1>2, <1>15, CalmFacts DEF PageInv, ListOK
    <3>2. ~Main(call[q])
      BY <2>2, <3>1 DEF PairOK
    <3>3. call[q].at = "loop" => Hopeless(call[q], state)
      BY <1>1, <2>2, <3>1 DEF PairOK
    <3>4. call[q].at \in {"free", "fetch", "loop", "await", "stale", "found", "swap", "play"}
      BY <3>1 DEF PageCall
    <3>5. CASE call[q].at = "await"
      <4>1. call[q].kind = "preload" /\ call[q].offset + 1 >= call[q].attempts
        BY <1>1, <1>15, <3>5, NoneLeft
      <4>2. call[q].slot = k /\ call[q].fresh /\ state.items.len > 0
        BY <2>2, <3>1, <3>5 DEF CallOK, Searches
      <4>3. /\ d[q].at = "stale" /\ d[q].kind = "preload" /\ d[q].fresh
            /\ d[q].offset + 1 >= d[q].attempts
        BY <1>2, <1>3, <2>6, <3>5, <4>1, <4>2, OutdatedOK DEF e
      <4>4. CallOK(d[q], state) /\ ~Main(d[q]) /\ FetchOK(d[q], state) /\ Resting(d[q])
        BY <4>2, <4>3 DEF CallOK, Main, FetchOK, Resting
      <4>5. QED
        BY <4>4
    <3>6. CASE call[q].at # "await"
      <4>1. d[q] = call[q]
        BY <1>2, <1>3, <2>6, <3>6, OutdatedOK DEF e
      <4>2. Resting(call[q]) \/ call[q].at = "loop" \/ (call[q].at = "found" /\ call[q].kind = "preload")
        BY <3>1, <3>2, <3>4, <3>6, MainOf DEF Resting
      <4>3. QED
        BY <3>1, <3>2, <3>3, <4>1, <4>2
    <3>7. QED
      BY <3>5, <3>6
  <2>8. ASSUME NEW q \in Calls \ {p} PROVE CallOK(d[q], state')
    <3>1. state'.items = state.items
      BY <1>12 DEF SameList
    <3>2. CASE Resting(d[q])
      BY <2>7, <3>1, <3>2, RestingOK
    <3>3. CASE d[q].at = "loop" \/ (d[q].at = "found" /\ d[q].kind = "preload")
      BY <1>12, <2>7, <3>1, <3>3, BesideSlot
    <3>4. QED
      BY <2>7, <3>2, <3>3
  <2>9. \A q \in Calls : CallOK(call'[q], state')
    BY <1>11, <2>5, <2>8
  <2>10. PageHolds(state')
    <3>1. state'.activeIndex # Page!NoIndex =>
             /\ IsIndex(state', state'.activeIndex)
             /\ state'.slots[state'.activeSlot].src = state'.activeIndex
      <4>1. state.activeIndex # Page!NoIndex => state.activeSlot = 1 - k
        BY <1>2, <1>3, <2>2, TargetIsSlot DEF PageState
      <4>2. QED
        BY <1>12, <2>1, <4>1 DEF PageHolds, IsIndex, SameList
    <3>2. state'.items.len > 0 /\ ~state'.moving => state'.activeIndex # Page!NoIndex
      BY <1>12, <2>1 DEF PageHolds, SameList
    <3>3. state'.activeSlot \in {0, 1}
      BY <1>12 DEF PageState
    <3>4. QED
      BY <2>4, <3>1, <3>2, <3>3 DEF PageHolds, NonePending
  <2>11. ASSUME NEW q \in Calls, NEW r \in Calls, q # r
         PROVE  PairOK(call'[q], call'[r], state')
    <3>1. CASE q = p
      <4>1. call'[r] = d[r] /\ call'[q] = c
        BY <1>11, <2>11, <3>1
      <4>2. ~Main(d[r]) /\ c.kind # "show" /\ c.at # "loop"
        BY <1>1, <1>9, <2>7, <2>11, <3>1
      <4>3. d[r].at = "loop" => Hopeless(d[r], state')
        <5>1. d[r].at = "loop" => Hopeless(d[r], state)
          BY <2>7, <2>11, <3>1 DEF Resting
        <5>2. QED
          BY <1>12, <2>3, <5>1, SameSearch
      <4>4. QED
        BY <4>1, <4>2, <4>3 DEF PairOK
    <3>2. CASE q # p
      <4>1. ~Main(call'[q])
        BY <1>11, <2>7, <3>2
      <4>2. QED
        BY <4>1 DEF PairOK
    <3>3. QED
      BY <3>1, <3>2
  <2>12. QED
    BY <2>9, <2>10, <2>11 DEF Calm
<1>16. QED
  BY <1>1, <1>14, <1>15 DEF PageInv

\* nextVideo goes on after its search.
LEMMA NextFoundOK == ASSUME PageInv, NEW p \in Calls, Page!NextFound(p) PROVE PageInv'
BY NextPlaysOK, NextFailsOK

-----------------------------------------------------------------------------
(* The feed's end, and the next item. *)

\* A new search gets to every index of the list the page's state names.
LEMMA NewSearch ==
    ASSUME NEW s \in PageState, s.items.len > 0, s.moving,
           NEW kind \in {"show", "next"},
           kind = "show" => s.activeIndex = Page!NoIndex,
           kind = "next" => s.activeIndex # Page!NoIndex,
           NEW k \in {0, 1}, k = Target(s), NEW start \in Int, start = Base(s),
           NEW c, c = Page!Finding(s, kind, k, start)
    PROVE  /\ c \in PageCall /\ CallOK(c, s) /\ c.kind = kind /\ c.at = "loop"
           /\ \A t : FetchOK(c, t)
<1>1. kind \in {"show", "next", "preload"}
  OBVIOUS
<1>2. /\ c \in PageCall /\ c.kind = kind /\ c.at = "loop" /\ c.fresh /\ c.slot = k
      /\ c.start = start /\ c.offset = 0 /\ c.attempts = Page!Attempts(s)
  BY <1>1, FindingOK
<1>3. Page!Attempts(s) \in Nat /\ Page!Attempts(s) > 0
  BY AttemptsOK
<1>4. Searches(c, s)
  BY <1>2 DEF Searches
<1>5. c.offset \in 0 .. c.attempts /\ c.offset # c.attempts
  BY <1>2, <1>3
<1>6. Failed(s, c.offset)
  BY <1>2 DEF Failed
<1>7. LoopOK(c, s)
  BY <1>4, <1>5, <1>6 DEF LoopOK
<1>8. CallOK(c, s)
  BY <1>2, <1>7 DEF CallOK
<1>9. QED
  BY <1>2, <1>8 DEF FetchOK

\* Beside a request that counts, calls are idle or wait for an answer that does not.
LEMMA BesideFetch ==
    ASSUME PageInv, ~overlapped, NEW p \in Calls, call[p].at = "fetch", call[p].fresh
    PROVE  /\ Main(call[p]) /\ state.items.len = 0 /\ state.moving
           /\ state.activeIndex = Page!NoIndex /\ NonePending(state)
           /\ \A q \in Calls \ {p} : call[q].at \in {"free", "fetch"} /\ Passed(call[q])
<1>1. CallOK(call[p], state) /\ FetchOK(call[p], state) /\ PageHolds(state)
      /\ state \in PageState
  BY CalmFacts DEF PageInv, ListOK, PageTyped
<1>2. call[p].kind = "show" /\ Main(call[p])
  BY <1>1 DEF FetchOK, Main
<1>3. state.items.len = 0 /\ state.moving
  BY <1>1, <1>2 DEF CallOK
<1>4. state.activeIndex = Page!NoIndex
  BY <1>1, <1>3 DEF PageHolds, IsIndex
<1>5. NonePending(state)
  <2>1. Page!Attempts(state) \in Nat /\ Page!Attempts(state) <= 0
    BY <1>1, <1>3, AttemptsOK
  <2>2. 0 .. Page!Attempts(state) - 1 = {}
    BY <2>1
  <2>3. QED
    BY <1>1, <2>2 DEF PageHolds, NonePending
<1>6. ASSUME NEW q \in Calls \ {p}
      PROVE  call[q].at \in {"free", "fetch"} /\ Passed(call[q])
  <2>1. /\ PairOK(call[p], call[q], state) /\ CallOK(call[q], state) /\ FetchOK(call[q], state)
    BY CalmFacts DEF PageInv, ListOK
  <2>2. ~Working(call[q]) /\ ~Main(call[q])
    BY <1>2, <2>1 DEF PairOK
  <2>3. QED
    BY <2>1, <2>2 DEF Working, Main, FetchOK, Passed
<1>7. QED
  BY <1>2, <1>3, <1>4, <1>5, <1>6

\* The list is complete: the first item is searched.
LEMMA LastPageArrivesOK == ASSUME PageInv, NEW p \in Calls, Page!LastPageArrives(p) PROVE PageInv'
<1> DEFINE items == [of |-> call[p].of, len |-> Length[CHOOSE o \in call[p].of : TRUE]]
           zero == 0
           show == "show"
           s == [state EXCEPT !.items = items]
           c == Page!Finding(s, show, zero, zero)
<1>1. /\ call[p].at = "fetch" /\ overlapped' = overlapped
      /\ IF call[p].fresh
         THEN state' = s /\ call' = [call EXCEPT ![p] = c]
         ELSE state' = state /\ call' = [call EXCEPT ![p] = Page!Free]
  BY DEF Page!LastPageArrives, Page!StillCurrent
<1>2. call[p] \in PageCall /\ call \in [Calls -> PageCall] /\ state \in PageState
  BY DEF PageInv, PageTyped
<1>3. CASE ~call[p].fresh
  BY <1>1, <1>3, CallEnds
<1>4. CASE call[p].fresh
  <2>1. call[p].of = {state.orientation} /\ state.orientation \in Orientations
    BY <1>1, <1>2, <1>4 DEF PageInv, ListOK, FetchOK, PageState
  <2>2. /\ items \in [of : SUBSET Orientations, len : Nat]
        /\ items.of = {state.orientation} /\ items.len > 0
    <3> DEFINE of == call[p].of
               o == CHOOSE x \in of : TRUE
               n == Length[o]
    <3>1. of \in SUBSET Orientations /\ o \in Orientations
      BY <2>1
    <3> HIDE DEF o
    <3>2. n \in Nat /\ n > 0
      BY <3>1, PageNumbers
    <3> HIDE DEF n
    <3>3. items = [of |-> of, len |-> n]
      BY DEF n, o
    <3> HIDE DEF of, items
    <3>4. items \in [of : SUBSET Orientations, len : Nat] /\ items.of = of /\ items.len = n
      BY <3>1, <3>2, <3>3
    <3>5. QED
      BY <2>1, <3>2, <3>4 DEF of
  <2> HIDE DEF items
  <2>3. /\ s \in PageState /\ s.items = items /\ s.orientation = state.orientation
        /\ s.failed = state.failed /\ s.slots = state.slots /\ s.moving = state.moving
        /\ s.activeIndex = state.activeIndex /\ s.activeSlot = state.activeSlot
    BY <1>2, <2>2 DEF PageState
  <2>4. zero \in {0, 1} /\ zero \in Int /\ zero = 0 /\ show \in {"show", "next", "preload"} /\ show = "show"
    OBVIOUS
  <2>5. s.items.len > 0 /\ s.items.of = {s.orientation}
    BY <2>2, <2>3
  <2> HIDE DEF s, zero, show
  <2>6. c \in PageCall /\ c.at = "loop" /\ c.kind = show
    BY <2>3, <2>4, FindingOK
  <2> HIDE DEF c
  <2>7. state' = s /\ call' = [call EXCEPT ![p] = c]
    BY <1>1, <1>4
  <2>8. call' \in [Calls -> PageCall] /\ \A q \in Calls : call'[q] = IF q = p THEN c ELSE call[q]
    BY <1>2, <2>6, <2>7
  <2>9. PageTyped'
    BY <2>3, <2>7, <2>8 DEF PageTyped
  <2>10. ListOK'
    <3>1. \A m \in {0, 1} : ElementOK(s.slots[m])
      BY <2>3 DEF PageInv, ListOK
    <3>2. ASSUME NEW q \in Calls PROVE FetchOK(call'[q], s)
      <4>1. FetchOK(call[q], state)
        BY DEF PageInv, ListOK
      <4>2. FetchOK(c, s)
        BY <2>6 DEF FetchOK
      <4>3. QED
        BY <2>3, <2>8, <4>1, <4>2 DEF FetchOK
    <3>3. QED
      BY <2>5, <2>7, <3>1, <3>2 DEF ListOK
  <2>11. ASSUME ~overlapped PROVE Calm'
    <3>1. /\ Main(call[p]) /\ state.moving /\ state.activeIndex = Page!NoIndex /\ NonePending(state)
          /\ \A q \in Calls \ {p} : call[q].at \in {"free", "fetch"} /\ Passed(call[q])
      BY <1>1, <1>4, <2>11, BesideFetch
    <3>2. Target(s) = 0 /\ Base(s) = 0 /\ s.moving /\ s.activeIndex = Page!NoIndex
      BY <2>3, <3>1 DEF Target, Base
    <3>3. CallOK(c, s)
      <4>1. show \in {"show", "next"} /\ (show = "next" => s.activeIndex # Page!NoIndex)
        BY <2>4
      <4>2. c = Page!Finding(s, show, zero, zero)
        BY DEF c
      <4>3. zero = Target(s) /\ zero = Base(s)
        BY <2>4, <3>2
      <4>4. QED
        BY <2>3, <2>4, <2>5, <3>2, <4>1, <4>2, <4>3, NewSearch
    <3>4. ASSUME NEW q \in Calls \ {p}
          PROVE  CallOK(call[q], s) /\ ~Main(call[q]) /\ ~Working(call[q])
      BY <3>1, PassedOK
    <3>5. \A q \in Calls : CallOK(call'[q], s)
      BY <2>8, <3>3, <3>4
    <3>6. PageHolds(s)
      BY <2>3, <3>1 DEF PageHolds, NonePending
    <3>7. ASSUME NEW q \in Calls, NEW r \in Calls, q # r
          PROVE  PairOK(call'[q], call'[r], s)
      <4>1. CASE q = p
        <5>1. call'[r] = call[r] /\ ~Main(call[r]) /\ ~Working(call[r])
          BY <2>8, <3>4, <3>7, <4>1
        <5>2. QED
          BY <5>1 DEF PairOK, Working
      <4>2. CASE q # p
        <5>1. ~Main(call'[q])
          BY <2>8, <3>4, <4>2
        <5>2. QED
          BY <5>1 DEF PairOK
      <4>3. QED
        BY <4>1, <4>2
    <3>8. QED
      BY <2>7, <3>5, <3>6, <3>7 DEF Calm
  <2>12. QED
    BY <1>1, <2>9, <2>10, <2>11 DEF PageInv
<1>5. QED
  BY <1>3, <1>4

\* The feed fails.
LEMMA FeedFailsOK == ASSUME PageInv, NEW p \in Calls, Page!FeedFails(p) PROVE PageInv'
<1> DEFINE s == [state EXCEPT !.moving = FALSE]
<1>1. /\ call[p].at = "fetch" /\ overlapped' = overlapped
      /\ state' = IF call[p].fresh THEN s ELSE state
      /\ call' = [call EXCEPT ![p] = Page!Free]
  BY DEF Page!FeedFails, Page!StillCurrent
<1>2. call \in [Calls -> PageCall] /\ state \in PageState
  BY DEF PageInv, PageTyped
<1>3. CASE ~call[p].fresh
  BY <1>1, <1>3, CallEnds
<1>4. CASE call[p].fresh
  <2>1. /\ s \in PageState /\ s.items = state.items /\ s.orientation = state.orientation
        /\ s.failed = state.failed /\ s.slots = state.slots
        /\ s.activeIndex = state.activeIndex /\ s.activeSlot = state.activeSlot
    BY <1>2 DEF PageState
  <2> HIDE DEF s
  <2>2. state' = s /\ SameList(state, s) /\ SamePage(state, s)
    BY <1>1, <1>4, <2>1 DEF SameList, SamePage
  <2>3. /\ call' \in [Calls -> PageCall]
        /\ \A q \in Calls : call'[q] = IF q = p THEN Page!Free ELSE call[q]
    BY <1>1, <1>2, FreeTyped
  <2>4. \A q \in Calls : FetchOK(call'[q], state)
    BY <2>3, FreeCall DEF PageInv, ListOK
  <2>5. \A m \in {0, 1} : ElementOK(s.slots[m])
    BY <2>1 DEF PageInv, ListOK
  <2>6. PageTyped' /\ ListOK'
    BY <2>1, <2>2, <2>3, <2>4, <2>5, ListKept
  <2>7. ASSUME ~overlapped PROVE Calm'
    <3>1. /\ state.items.len = 0 /\ PageHolds(state)
          /\ \A q \in Calls \ {p} : call[q].at \in {"free", "fetch"} /\ Passed(call[q])
      BY <1>1, <1>4, <2>7, BesideFetch, CalmFacts
    <3>2. \A q \in Calls : CallOK(call'[q], s) /\ ~Main(call'[q])
      BY <2>3, <3>1, PassedOK, FreeCall DEF Main
    <3>3. PageHolds(s)
      <4>1. /\ Target(s) = Target(state) /\ Page!Attempts(s) = Page!Attempts(state)
            /\ \A j, i : Reaches(s, j, i) = Reaches(state, j, i)
        BY <2>1 DEF Target, Page!Attempts, Reaches, Idx, Base, Failed
      <4>2. QED
        BY <2>1, <3>1, <4>1 DEF PageHolds, IsIndex
    <3>4. \A q, r \in Calls : PairOK(call'[q], call'[r], s)
      BY <3>2 DEF PairOK
    <3>5. QED
      BY <2>2, <3>2, <3>3, <3>4 DEF Calm
  <2>8. QED
    BY <1>1, <2>6, <2>7 DEF PageInv
<1>5. QED
  BY <1>3, <1>4

\* A swipe, a key or the end of a video.
LEMMA NextVideoOK == ASSUME PageInv, NEW p \in Calls, Page!NextVideo(p) PROVE PageInv'
<1>1. call \in [Calls -> PageCall] /\ state \in PageState /\ call[p] \in PageCall
  BY DEF PageInv, PageTyped
<1>2. CASE ~token
  BY <1>1, <1>2, ResetForMissingAuthOK DEF Page!NextVideo
<1>3. CASE token
  <2> DEFINE next == "next"
             k == 1 - state.activeSlot
             start == Page!Following(state)
             c == Page!Finding(state, next, k, start)
             s == [state EXCEPT !.moving = TRUE]
  <2>1. /\ Page!Quiet /\ ~state.moving /\ state.items.len > 0 /\ call[p].at = "free"
        /\ state' = s /\ call' = [call EXCEPT ![p] = c] /\ overlapped' = overlapped
    BY <1>3 DEF Page!NextVideo, Page!Takes
  <2>2. next = "next" /\ next \in {"show", "next", "preload"} /\ k \in {0, 1} /\ start \in Int
    BY <1>1, <2>1, FollowingOK DEF PageState
  <2>3. /\ s \in PageState /\ s.items = state.items /\ s.orientation = state.orientation
        /\ s.failed = state.failed /\ s.slots = state.slots /\ s.moving
        /\ s.activeIndex = state.activeIndex /\ s.activeSlot = state.activeSlot
    BY <1>1 DEF PageState
  <2>4. k = 1 - state.activeSlot /\ start = Page!Following(state)
    OBVIOUS
  <2> HIDE DEF next, k, start, s
  <2>5. c \in PageCall /\ c.at = "loop" /\ c.kind = next
    BY <1>1, <2>2, FindingOK
  <2>6. c = Page!Finding(s, next, k, start)
    BY <2>3 DEF Page!Finding, Page!Attempts
  <2> HIDE DEF c
  <2>7. SameList(state, s) /\ SamePage(state, s)
    BY <2>3 DEF SameList, SamePage
  <2>8. /\ call' \in [Calls -> PageCall]
        /\ \A q \in Calls : call'[q] = IF q = p THEN c ELSE call[q]
    BY <1>1, <2>1, <2>5
  <2>9. \A q \in Calls : FetchOK(call'[q], state)
    <3>1. FetchOK(c, state)
      BY <2>5 DEF FetchOK
    <3>2. QED
      BY <2>8, <3>1 DEF PageInv, ListOK
  <2>10. \A m \in {0, 1} : ElementOK(s.slots[m])
    BY <2>3 DEF PageInv, ListOK
  <2>11. PageTyped' /\ ListOK'
    BY <2>1, <2>3, <2>7, <2>8, <2>9, <2>10, ListKept
  <2>12. ASSUME ~overlapped PROVE Calm'
    <3>1. PageHolds(state) /\ state.activeIndex # Page!NoIndex /\ IsIndex(state, state.activeIndex)
      BY <2>1, <2>12, CalmFacts DEF PageHolds
    <3>2. k = Target(s) /\ start = Base(s) /\ s.items.len > 0 /\ s.activeIndex # Page!NoIndex
      BY <1>1, <2>1, <2>3, <2>4, <3>1, FollowingOK DEF Target, Base
    <3>3. CallOK(c, s)
      <4>1. next \in {"show", "next"} /\ next # "show"
        BY <2>2
      <4>2. QED
        BY <2>2, <2>3, <2>6, <3>2, <4>1, NewSearch
    <3>4. ASSUME NEW q \in Calls \ {p}
          PROVE  CallOK(call[q], s) /\ ~Main(call[q]) /\ call[q].at # "loop"
      <4>1. CallOK(call[q], state)
        BY <2>12, CalmFacts
      <4>2. ~Main(call[q])
        BY <2>1, <4>1 DEF CallOK
      <4>3. call[q].at # "loop"
        BY <2>1 DEF Page!Quiet
      <4>4. QED
        BY <2>7, <4>1, <4>2, <4>3, SamePageOK
    <3>5. \A q \in Calls : CallOK(call'[q], s)
      BY <2>8, <3>3, <3>4
    <3>6. PageHolds(s)
      <4>1. /\ Target(s) = Target(state) /\ Page!Attempts(s) = Page!Attempts(state)
            /\ \A j, i : Reaches(s, j, i) = Reaches(state, j, i)
        BY <2>3 DEF Target, Page!Attempts, Reaches, Idx, Base, Failed
      <4>2. QED
        BY <2>3, <3>1, <4>1 DEF PageHolds, IsIndex
    <3>7. ASSUME NEW q \in Calls, NEW r \in Calls, q # r
          PROVE  PairOK(call'[q], call'[r], s)
      <4>1. CASE q = p
        <5>1. /\ call'[q] = c /\ call'[r] = call[r] /\ ~Main(call[r]) /\ call[r].at # "loop"
              /\ c.kind # "show"
          BY <2>2, <2>5, <2>8, <3>4, <3>7, <4>1
        <5>2. QED
          BY <5>1 DEF PairOK
      <4>2. CASE q # p
        <5>1. ~Main(call'[q])
          BY <2>8, <3>4, <4>2
        <5>2. QED
          BY <5>1 DEF PairOK
      <4>3. QED
        BY <4>1, <4>2
    <3>8. QED
      BY <2>1, <3>5, <3>6, <3>7 DEF Calm
  <2>13. QED
    BY <2>1, <2>11, <2>12 DEF PageInv
<1>4. QED
  BY <1>2, <1>3

\* The page begins without a list.
LEMMA PageInitOK == Page!Init => PageInv
<1> SUFFICES ASSUME Page!Init PROVE PageInv
  OBVIOUS
<1>1. /\ state.orientation \in Orientations /\ state.items = Page!NoItems /\ state.failed = {}
      /\ state.activeSlot = 0 /\ state.activeIndex = Page!NoIndex /\ ~state.moving
      /\ \A k \in {0, 1} : state.slots[k] = Page!EmptySlot
      /\ state \in PageState
  <2> DEFINE empty == Page!EmptySlot
             items == Page!NoItems
             none == Page!NoIndex
             zero == 0
             no == FALSE
             failed == {}
             both == [k \in {0, 1} |-> Page!EmptySlot]
  <2>1. empty \in Elements /\ none \in Int /\ items \in [of: SUBSET Orientations, len: Nat]
    BY DEF Page!EmptySlot, Page!NoIndex, Elements, Page!NoItems
  <2>2. PICK o \in Orientations :
           state = [orientation |-> o, items |-> items, failed |-> failed, activeSlot |-> zero,
                    activeIndex |-> none, slots |-> both, moving |-> no]
    BY DEF Page!Init
  <2>3. both \in [{0, 1} -> Elements] /\ \A k \in {0, 1} : both[k] = empty
    BY <2>1
  <2>4. failed \in SUBSET Int /\ zero \in {0, 1} /\ no \in BOOLEAN
    OBVIOUS
  <2> HIDE DEF empty, items, none, zero, no, failed, both
  <2>5. /\ state.orientation \in Orientations /\ state.items = items /\ state.failed = failed
        /\ state.activeSlot = zero /\ state.activeIndex = none /\ state.moving = no
        /\ state.slots = both /\ state \in PageState
    BY <2>1, <2>2, <2>3, <2>4 DEF PageState
  <2>6. QED
    BY <2>3, <2>5 DEF empty, items, none, zero, no, failed
<1>2. call \in [Calls -> PageCall] /\ \A p \in Calls : call[p] = Page!Free
  BY FreeTyped DEF Page!Init
<1>3. state.items.len = 0
  BY <1>1 DEF Page!NoItems
<1>4. ListOK
  <2>1. \A k \in {0, 1} : ElementOK(state.slots[k])
    BY <1>1, EmptyElement
  <2>2. \A p \in Calls : FetchOK(call[p], state)
    BY <1>2, FreeCall
  <2>3. QED
    BY <1>3, <2>1, <2>2 DEF ListOK
<1>5. Calm
  <2>1. \A p \in Calls : CallOK(call[p], state)
    BY <1>2, FreeCall
  <2>2. \A p, q \in Calls : PairOK(call[p], call[q], state)
    BY <1>2, FreeCall, PairWithFree
  <2>3. PageHolds(state)
    <3>1. \A k \in {0, 1} : ~state.slots[k].pending
      BY <1>1, EmptyElement
    <3>2. QED
      BY <1>1, <1>3, <3>1 DEF PageHolds
  <2>4. QED
    BY <2>1, <2>2, <2>3 DEF Calm
<1>6. QED
  BY <1>1, <1>2, <1>4, <1>5 DEF PageInv, PageTyped

\* Every step of the page keeps what is known of it.
LEMMA PageStepOK == PageInv /\ [Page!Next]_pageVars => PageInv'
<1> SUFFICES ASSUME PageInv, [Page!Next]_pageVars PROVE PageInv'
  OBVIOUS
<1>1. CASE UNCHANGED pageVars
  BY <1>1, UnchangedOK DEF pageVars
<1>2. ASSUME NEW p \in Calls, Page!CallStep(p) PROVE PageInv'
  BY <1>2, LoadSlotOK, AlreadyLoadedOK, GiveUpOK, LoopThrowsOK, StaleWaitEndsOK, PreloadFoundOK,
     ShowFoundOK, NextFoundOK, SwapEndsOK, PlayEndsOK, PageArrivesOK, LastPageArrivesOK,
     FeedFailsOK, PageRejectedOK
     DEF Page!CallStep, Page!CallGoesOn
<1>3. ASSUME NEW k \in {0, 1}, Page!ElementStep(k) \/ Page!MediaError(k) PROVE PageInv'
  BY <1>3, LoadSettlesOK, MediaErrorOK DEF Page!ElementStep
<1>4. ASSUME Page!ViewerStep PROVE PageInv'
  BY <1>4, NextVideoOK, TokenStoredOK, SelectOrientationOK, TokenRemovedOK DEF Page!ViewerStep
<1>5. QED
  BY <1>1, <1>2, <1>3, <1>4 DEF Page!Next

\* What is known of the page is more than the properties say.
LEMMA PageInvShows == PageInv => PageIsConsistent
<1> SUFFICES ASSUME PageInv PROVE Page!ListMatchesSelection /\ Page!ActiveSlotHoldsActiveItem
  BY DEF PageIsConsistent
<1>1. Page!ListMatchesSelection
  BY DEF PageInv, ListOK, Page!ListMatchesSelection
<1>2. Page!ActiveSlotHoldsActiveItem
  BY DEF PageInv, Calm, PageHolds, Page!ActiveSlotHoldsActiveItem
<1>3. QED
  BY <1>1, <1>2

-----------------------------------------------------------------------------
(* The numbers of the page: every index it keeps, also a failed one and one computed
   modulo an empty list, is one of a list an orientation can give. *)

Top == Page!Max({Length[o] : o \in Orientations})

Indexes == Page!NotANumber .. Top - 1

PageIn(s) ==
    /\ s.items.len <= Top /\ s.failed \subseteq Indexes /\ s.activeIndex \in Indexes
    /\ \A k \in {0, 1} : s.slots[k].index \in Indexes

CallIn(c) == c.index \in Indexes /\ c.start \in Indexes

PageBounds ==
    /\ PageIn(state) /\ \A p \in Calls : CallIn(call[p])
    /\ token \in BOOLEAN /\ overlapped \in BOOLEAN /\ resets \in 0 .. MaxResets

\* The longest list.
LEMMA TopOK ==
    ASSUME NEW s \in PageState
    PROVE  /\ Top \in Nat /\ Top > 0 /\ \A o \in Orientations : Length[o] <= Top
           /\ Page!NotANumber \in Indexes /\ Page!NoIndex \in Indexes /\ 0 \in Indexes
<1> DEFINE L == {Length[o] : o \in Orientations}
<1>1. s.orientation \in Orientations
  BY DEF PageState
<1>2. L # {} /\ L \in SUBSET Int /\ \A n \in L : n \in Nat /\ n > 0
  BY <1>1, PageNumbers
<1>3. IsFiniteSet(L)
  <2>1. IsFiniteSet(Orientations)
    BY PlayerAssumption DEF Page!PlayerAssumption, Page!IsFiniteSet, IsFiniteSet
  <2>2. QED
    BY <2>1, FiniteImage
<1>4. \A o \in Orientations : Length[o] \in L
  OBVIOUS
<1> HIDE DEF L
<1>5. \E n \in L : \A m \in L : n >= m
  BY <1>2, <1>3, LargestOf
<1>6. Page!Max(L) \in L /\ \A m \in L : Page!Max(L) >= m
  BY <1>5 DEF Page!Max
<1>7. Top = Page!Max(L)
  BY DEF Top, L
<1>8. Top \in Nat /\ Top > 0 /\ \A o \in Orientations : Length[o] <= Top
  <2>1. ASSUME NEW o \in Orientations PROVE Length[o] <= Top
    BY <1>2, <1>4, <1>6, <1>7
  <2>2. QED
    BY <1>2, <1>6, <1>7, <2>1
<1>9. QED
  BY <1>8 DEF Indexes, Page!NotANumber, Page!NoIndex

\* An index goes round a list.
LEMMA RoundTheList ==
    ASSUME NEW s \in PageState, PageIn(s), s.items.len > 0, NEW i \in Int
    PROVE  i % s.items.len \in Indexes
<1> DEFINE n == s.items.len
           r == i % n
<1>1. n \in Nat /\ n > 0 /\ n <= Top /\ Top \in Nat
  BY TopOK DEF PageState, PageIn
<1> HIDE DEF n
<1>2. r \in 0 .. n - 1
  BY <1>1
<1> HIDE DEF r
<1>3. r \in Indexes
  BY <1>1, <1>2 DEF Indexes, Page!NotANumber
<1>4. QED
  BY <1>3 DEF r, n

\* The index after the active one.
LEMMA FollowingIn ==
    ASSUME NEW s \in PageState, PageIn(s), s.items.len > 0
    PROVE  Page!Following(s) \in Indexes
<1>1. s.activeIndex + 1 \in Int /\ Page!NotANumber \in Indexes
  BY TopOK DEF PageState
<1>2. (s.activeIndex + 1) % s.items.len \in Indexes
  BY <1>1, RoundTheList
<1>3. QED
  BY <1>1, <1>2 DEF Page!Following

\* The index an attempt is at.
LEMMA IndexAtIn ==
    ASSUME PageInv, PageIn(state), NEW p \in Calls, NEW o \in Int
    PROVE  Page!IndexAt(p, o) \in Indexes
<1>1. call[p] \in PageCall /\ state \in PageState
  BY DEF PageInv, PageTyped
<1>2. call[p].start + o \in Int /\ state.items.len \in Nat /\ Page!NotANumber \in Indexes
  BY <1>1, TopOK DEF PageCall, PageState
<1>3. state.items.len > 0 => (call[p].start + o) % state.items.len \in Indexes
  BY <1>1, <1>2, RoundTheList
<1>4. QED
  BY <1>2, <1>3 DEF Page!IndexAt

\* The pieces of the functions keep to these indexes.
LEMMA FreeIn == ASSUME NEW s \in PageState PROVE CallIn(Page!Free)
BY TopOK DEF CallIn, Page!Free

LEMMA FindingIn ==
    ASSUME NEW s \in PageState, NEW kind, NEW k, NEW start \in Indexes
    PROVE  CallIn(Page!Finding(s, kind, k, start))
<1>1. /\ Page!Finding(s, kind, k, start).start = start
      /\ Page!Finding(s, kind, k, start).index = Page!NoIndex
  BY DEF Page!Finding, Page!Free
<1>2. QED
  BY <1>1, TopOK DEF CallIn

LEMMA PreloadIn ==
    ASSUME NEW s \in PageState, PageIn(s)
    PROVE  CallIn(Page!PreloadNext(s))
<1>1. s.items.len \in Nat
  BY DEF PageState
<1>2. CASE s.items.len = 0 \/ s.activeIndex = Page!NoIndex
  BY <1>2, FreeIn DEF Page!PreloadNext
<1>3. CASE ~(s.items.len = 0 \/ s.activeIndex = Page!NoIndex)
  <2> DEFINE kind == "preload"
             k == 1 - s.activeSlot
             start == Page!Following(s)
  <2>1. start \in Indexes
    BY <1>1, <1>3, FollowingIn
  <2>2. Page!PreloadNext(s) = Page!Finding(s, kind, k, start)
    BY <1>3 DEF Page!PreloadNext
  <2> HIDE DEF kind, k, start
  <2>3. QED
    BY <2>1, <2>2, FindingIn
<1>4. QED
  BY <1>2, <1>3

LEMMA AtIn ==
    ASSUME NEW s \in PageState, NEW p, NEW at, NEW i \in Indexes, NEW playable
    PROVE  CallIn(Page!At(p, at, i, playable))
<1>1. Page!At(p, at, i, playable).index = i /\ Page!At(p, at, i, playable).start = 0
  BY DEF Page!At, Page!Free
<1>2. QED
  BY <1>1, TopOK DEF CallIn

LEMMA OutdatedIn ==
    ASSUME NEW c \in [Calls -> PageCall], \A p \in Calls : CallIn(c[p]), NEW k
    PROVE  \A p \in Calls : CallIn(Page!Outdated(c, k)[p])
<1> SUFFICES ASSUME NEW p \in Calls PROVE CallIn(Page!Outdated(c, k)[p])
  OBVIOUS
<1>1. Page!Outdated(c, k)[p] = c[p] \/ Page!Outdated(c, k)[p] = [c[p] EXCEPT !.at = "stale"]
  BY DEF Page!Outdated
<1>2. c[p] \in PageCall /\ CallIn(c[p])
  OBVIOUS
<1>3. [c[p] EXCEPT !.at = "stale"].index = c[p].index /\ [c[p] EXCEPT !.at = "stale"].start = c[p].start
  BY <1>2 DEF PageCall
<1>4. QED
  BY <1>1, <1>2, <1>3 DEF CallIn

LEMMA SupersededIn ==
    ASSUME NEW c \in [Calls -> PageCall], \A p \in Calls : CallIn(c[p])
    PROVE  \A p \in Calls : CallIn(Page!Superseded(c)[p])
<1> DEFINE zero == 0
           one == 1
           a == Page!Outdated(c, zero)
           d == Page!Outdated(a, one)
<1>1. zero \in {0, 1} /\ one \in {0, 1}
  OBVIOUS
<1>2. Page!Superseded(c) = [p \in Calls |-> [d[p] EXCEPT !.fresh = @ /\ d[p].kind # "show"]]
  BY DEF Page!Superseded
<1> HIDE DEF zero, one
<1>3. a \in [Calls -> PageCall] /\ \A p \in Calls : CallIn(a[p])
  BY <1>1, OutdatedOK, OutdatedIn
<1> HIDE DEF a
<1>4. d \in [Calls -> PageCall] /\ \A p \in Calls : CallIn(d[p])
  BY <1>1, <1>3, OutdatedOK, OutdatedIn
<1> HIDE DEF d
<1>5. ASSUME NEW p \in Calls PROVE CallIn(Page!Superseded(c)[p])
  <2>1. d[p] \in PageCall /\ CallIn(d[p])
    BY <1>4
  <2>2. /\ Page!Superseded(c)[p].index = d[p].index
        /\ Page!Superseded(c)[p].start = d[p].start
    BY <1>2, <2>1 DEF PageCall
  <2>3. QED
    BY <2>1, <2>2 DEF CallIn
<1>6. QED
  BY <1>5

LEMMA ClearedIn ==
    ASSUME NEW s \in PageState, NEW m \in BOOLEAN
    PROVE  PageIn([Page!Cleared(s) EXCEPT !.moving = m])
<1> DEFINE t == [Page!Cleared(s) EXCEPT !.moving = m]
<1>1. t = [Page!Cleared(s) EXCEPT !.moving = m]
  OBVIOUS
<1> HIDE DEF t
<1>2. /\ t.items = Page!NoItems /\ t.failed = {} /\ t.activeIndex = Page!NoIndex
      /\ \A k \in {0, 1} : t.slots[k] = Page!EmptySlot
  BY <1>1, ClearedOK
<1>3. t.items.len = 0 /\ Top \in Nat /\ Page!NoIndex \in Indexes
  BY <1>2, TopOK DEF Page!NoItems
<1>4. PageIn(t)
  BY <1>2, <1>3, EmptyElement DEF PageIn
<1>5. QED
  BY <1>4 DEF t

LEMMA ResetSlotIn ==
    ASSUME NEW s \in PageState, PageIn(s), NEW k \in {0, 1}
    PROVE  PageIn(Page!ResetSlot(s, k)) /\ Page!ResetSlot(s, k) \in PageState
<1> DEFINE t == Page!ResetSlot(s, k)
<1>1. t = Page!ResetSlot(s, k)
  OBVIOUS
<1> HIDE DEF t
<1>2. /\ t \in PageState /\ t.items = s.items /\ t.failed = s.failed /\ t.activeIndex = s.activeIndex
      /\ t.slots[k] = Page!EmptySlot /\ t.slots[1 - k] = s.slots[1 - k]
  BY <1>1, ResetSlotOK DEF SameList
<1>3. t.slots[k].index \in Indexes /\ t.slots[1 - k].index \in Indexes
  BY <1>2, TopOK, EmptyElement DEF PageIn
<1>4. PageIn(t)
  BY <1>2, <1>3 DEF PageIn
<1>5. QED
  BY <1>2, <1>4 DEF t

\* What a step leaves of the page keeps to them.
BoundedNext == PageIn(state') /\ \A p \in Calls : CallIn(call'[p])

LEMMA OneCallIn ==
    ASSUME NEW d \in [Calls -> PageCall], \A q \in Calls : CallIn(d[q]), NEW p \in Calls,
           NEW c, CallIn(c), call' = [d EXCEPT ![p] = c]
    PROVE  \A q \in Calls : CallIn(call'[q])
BY DEF CallIn

\* The types and the indexes of the page and of each call.
LEMMA PageFacts ==
    ASSUME PageInv, PageBounds
    PROVE  /\ state \in PageState /\ PageIn(state) /\ call \in [Calls -> PageCall]
           /\ \A p \in Calls : call[p] \in PageCall /\ CallIn(call[p])
BY DEF PageInv, PageTyped, PageBounds

\* Each action of a call, of an element and of the viewer keeps to these indexes.
LEMMA LoadSlotIn ==
    ASSUME PageInv, PageBounds, NEW p \in Calls, Page!LoadSlot(p)
    PROVE  BoundedNext
<1> DEFINE k == call[p].slot
           o == Page!Try(p)
           i == Page!IndexAt(p, o)
           e == [index |-> i, pending |-> TRUE, ready |-> FALSE, src |-> i]
           waits == [call[p] EXCEPT !.at = "await", !.offset = o, !.index = i]
           d == Page!Outdated(call, k)
<1>1. /\ Page!Tries(p) # {}
      /\ \/ state' = state /\ call' = [call EXCEPT ![p] = waits]
         \/ state' = [state EXCEPT !.slots[k] = e] /\ call' = [d EXCEPT ![p] = waits]
  BY DEF Page!LoadSlot
<1>2. call[p] \in PageCall /\ call[p].offset \in Nat /\ call[p].attempts \in Nat /\ k \in {0, 1}
  BY PageFacts DEF PageCall
<1>3. o \in Int
  <2>1. o \in call[p].offset .. call[p].attempts - 1
    BY <1>1, TryIsFirst DEF PageInv
  <2>2. QED
    BY <1>2, <2>1
<1> HIDE DEF o
<1>4. i \in Indexes
  BY <1>3, PageFacts, IndexAtIn
<1>5. e.index = i
  OBVIOUS
<1> HIDE DEF i, e, k
<1>6. CallIn(waits)
  <2>1. waits.index = i /\ waits.start = call[p].start
    BY <1>2 DEF PageCall
  <2>2. QED
    BY <1>4, <2>1, PageFacts DEF CallIn
<1> HIDE DEF waits
<1>7. d \in [Calls -> PageCall] /\ \A q \in Calls : CallIn(d[q])
  BY <1>2, PageFacts, OutdatedOK, OutdatedIn
<1> HIDE DEF d
<1>8. \A q \in Calls : CallIn(call'[q])
  BY <1>1, <1>6, <1>7, PageFacts, OneCallIn
<1>9. PageIn(state')
  <2>1. state \in PageState /\ PageIn(state)
    BY PageFacts
  <2>2. CASE state' = [state EXCEPT !.slots[k] = e]
    <3>1. /\ state'.items = state.items /\ state'.failed = state.failed
          /\ state'.activeIndex = state.activeIndex
          /\ \A m \in {0, 1} : state'.slots[m] = IF m = k THEN e ELSE state.slots[m]
      BY <1>2, <2>1, <2>2 DEF PageState
    <3>2. QED
      BY <1>4, <1>5, <2>1, <3>1 DEF PageIn
  <2>3. QED
    BY <1>1, <2>1, <2>2
<1>10. QED
  BY <1>8, <1>9 DEF BoundedNext

LEMMA AlreadyLoadedIn ==
    ASSUME PageInv, PageBounds, NEW p \in Calls, Page!AlreadyLoaded(p)
    PROVE  BoundedNext
<1> DEFINE o == Page!Try(p)
           i == Page!IndexAt(p, o)
           at == "found"
           yes == TRUE
           c == Page!At(p, at, i, yes)
<1>1. Page!Tries(p) # {} /\ state' = state /\ call' = [call EXCEPT ![p] = c]
  BY DEF Page!AlreadyLoaded
<1>2. call[p] \in PageCall /\ call[p].offset \in Nat /\ call[p].attempts \in Nat
  BY PageFacts DEF PageCall
<1>3. o \in Int
  <2>1. o \in call[p].offset .. call[p].attempts - 1
    BY <1>1, TryIsFirst DEF PageInv
  <2>2. QED
    BY <1>2, <2>1
<1> HIDE DEF o
<1>4. i \in Indexes
  BY <1>3, PageFacts, IndexAtIn
<1> HIDE DEF i, at, yes
<1>5. CallIn(c)
  BY <1>4, PageFacts, AtIn
<1> HIDE DEF c
<1>6. QED
  BY <1>1, <1>5, PageFacts, OneCallIn DEF BoundedNext

LEMMA GiveUpIn ==
    ASSUME PageInv, PageBounds, NEW p \in Calls, Page!GiveUp(p)
    PROVE  BoundedNext
<1> DEFINE o == call[p].attempts - 1
           last == IF call[p].offset < call[p].attempts THEN Page!IndexAt(p, o) ELSE call[p].index
           at == "found"
           no == FALSE
           c == Page!At(p, at, last, no)
<1>1. state' = state /\ call' = [call EXCEPT ![p] = c]
  BY DEF Page!GiveUp
<1>2. o \in Int
  BY PageFacts DEF PageCall
<1> HIDE DEF o
<1>3. last \in Indexes
  <2>1. Page!IndexAt(p, o) \in Indexes /\ call[p].index \in Indexes
    BY <1>2, PageFacts, IndexAtIn DEF CallIn
  <2>2. QED
    BY <2>1
<1> HIDE DEF last, at, no
<1>4. CallIn(c)
  BY <1>3, PageFacts, AtIn
<1> HIDE DEF c
<1>5. QED
  BY <1>1, <1>4, PageFacts, OneCallIn DEF BoundedNext

\* Whether the page moves does not matter to the indexes.
LEMMA MovingIn ==
    ASSUME NEW s \in PageState, PageIn(s), NEW m \in BOOLEAN
    PROVE  PageIn([s EXCEPT !.moving = m])
<1> DEFINE t == [s EXCEPT !.moving = m]
<1>1. /\ t.items = s.items /\ t.failed = s.failed /\ t.activeIndex = s.activeIndex
      /\ t.slots = s.slots
  BY DEF PageState
<1> HIDE DEF t
<1>2. PageIn(t)
  BY <1>1 DEF PageIn
<1>3. QED
  BY <1>2 DEF t

LEMMA LoopThrowsIn ==
    ASSUME PageInv, PageBounds, NEW p \in Calls, Page!LoopThrows(p)
    PROVE  BoundedNext
<1> DEFINE k == call[p].slot
           s == Page!ResetSlot(state, k)
           d == Page!Outdated(call, k)
           no == FALSE
<1>1. /\ state' = s \/ state' = [s EXCEPT !.moving = no]
      /\ call' = [d EXCEPT ![p] = Page!Free]
  BY DEF Page!LoopThrows
<1>2. k \in {0, 1} /\ no \in BOOLEAN
  BY PageFacts DEF PageCall
<1> HIDE DEF k, no
<1>3. PageIn(s) /\ s \in PageState
  BY <1>2, PageFacts, ResetSlotIn
<1> HIDE DEF s
<1>4. d \in [Calls -> PageCall] /\ \A q \in Calls : CallIn(d[q])
  BY <1>2, PageFacts, OutdatedOK, OutdatedIn
<1> HIDE DEF d
<1>5. PageIn(state')
  BY <1>1, <1>2, <1>3, MovingIn
<1>6. \A q \in Calls : CallIn(call'[q])
  BY <1>1, <1>4, PageFacts, FreeIn, OneCallIn
<1>7. QED
  BY <1>5, <1>6 DEF BoundedNext

LEMMA LoadSettlesIn ==
    ASSUME PageInv, PageBounds, NEW k \in {0, 1}, NEW ok \in BOOLEAN, Page!LoadSettles(k, ok)
    PROVE  BoundedNext
<1> DEFINE i == state.slots[k].index
           r == Page!ResetSlot(state, k)
<1>1. state \in PageState /\ PageIn(state)
  BY PageFacts
<1>2. i \in Indexes
  BY <1>1 DEF PageIn
<1>3. PageIn(state')
  <2>1. CASE ok
    <3>1. state' = [state EXCEPT !.slots[k].pending = FALSE, !.slots[k].ready = TRUE,
                                 !.failed = @ \ {i}]
      BY <2>1 DEF Page!LoadSettles
    <3>2. /\ state'.items = state.items /\ state'.failed = state.failed \ {i}
          /\ state'.activeIndex = state.activeIndex
          /\ \A m \in {0, 1} : state'.slots[m].index = state.slots[m].index
      BY <1>1, <3>1 DEF PageState, Elements
    <3>3. QED
      BY <1>1, <3>2 DEF PageIn
  <2>2. CASE ~ok
    <3>1. state' = [r EXCEPT !.failed = @ \cup {i}]
      BY <2>2 DEF Page!LoadSettles
    <3>2. PageIn(r) /\ r \in PageState
      BY <1>1, ResetSlotIn
    <3> HIDE DEF r, i
    <3>3. /\ state'.items = r.items /\ state'.failed = r.failed \cup {i}
          /\ state'.activeIndex = r.activeIndex /\ state'.slots = r.slots
      BY <3>1, <3>2 DEF PageState
    <3>4. QED
      BY <1>2, <3>2, <3>3 DEF PageIn
  <2>3. QED
    BY <2>1, <2>2
<1>4. ASSUME NEW p \in Calls PROVE CallIn(call'[p])
  <2> DEFINE at == "found"
             yes == TRUE
             c == Page!At(p, at, call[p].index, yes)
             l == [call[p] EXCEPT !.at = "loop", !.offset = @ + 1]
  <2>1. call'[p] = call[p] \/ call'[p] = c \/ call'[p] = l
    BY DEF Page!LoadSettles
  <2>2. call[p] \in PageCall /\ CallIn(call[p])
    BY PageFacts
  <2>3. l.index = call[p].index /\ l.start = call[p].start
    BY <2>2 DEF PageCall
  <2> HIDE DEF at, yes
  <2>4. CallIn(c)
    BY <1>1, <2>2, AtIn DEF CallIn
  <2> HIDE DEF c, l
  <2>5. CallIn(l)
    BY <2>2, <2>3 DEF CallIn
  <2>6. QED
    BY <2>1, <2>2, <2>4, <2>5
<1>5. QED
  BY <1>3, <1>4 DEF BoundedNext

LEMMA StaleWaitEndsIn ==
    ASSUME PageInv, PageBounds, NEW p \in Calls, Page!StaleWaitEnds(p)
    PROVE  BoundedNext
<1> DEFINE c == [call[p] EXCEPT !.at = "loop", !.offset = @ + 1]
<1>1. call[p] \in PageCall /\ CallIn(call[p]) /\ call \in [Calls -> PageCall]
  BY PageFacts
<1>2. state' = state /\ call' = [call EXCEPT ![p] = c]
  BY <1>1 DEF Page!StaleWaitEnds
<1>3. CallIn(c)
  <2>1. c.index = call[p].index /\ c.start = call[p].start
    BY <1>1 DEF PageCall
  <2>2. QED
    BY <1>1, <2>1 DEF CallIn
<1> HIDE DEF c
<1>4. QED
  BY <1>2, <1>3, PageFacts, OneCallIn DEF BoundedNext

LEMMA PreloadFoundIn ==
    ASSUME PageInv, PageBounds, NEW p \in Calls, Page!PreloadFound(p)
    PROVE  BoundedNext
<1>1. state' = state /\ call' = [call EXCEPT ![p] = Page!Free]
  BY DEF Page!PreloadFound
<1>2. QED
  BY <1>1, PageFacts, FreeIn, OneCallIn DEF BoundedNext

\* What is left of a transition, and of showFirst.
LEMMA EndTransitionIn ==
    ASSUME PageInv, PageBounds, NEW p \in Calls, NEW s \in PageState, PageIn(s),
           Page!EndTransition(s, call, p)
    PROVE  BoundedNext
<1> DEFINE k == 1 - call[p].slot
           r == Page!ResetSlot(s, k)
           t == Page!TransitionOver(s, k)
           d == Page!Outdated(call, k)
           c == Page!PreloadNext(t)
           no == FALSE
<1>1. state' = t /\ call' = [d EXCEPT ![p] = c]
  BY DEF Page!EndTransition
<1>2. k \in {0, 1} /\ no \in BOOLEAN
  <2>1. call[p].slot \in {0, 1}
    BY PageFacts DEF PageCall
  <2>2. QED
    BY <2>1
<1>3. t = [r EXCEPT !.moving = no]
  BY DEF Page!TransitionOver
<1> HIDE DEF k, no
<1>4. PageIn(r) /\ r \in PageState
  BY <1>2, ResetSlotIn
<1> HIDE DEF r
<1>5. PageIn([r EXCEPT !.moving = no])
  BY <1>2, <1>4, MovingIn
<1> HIDE DEF t
<1>6. PageIn(t) /\ t \in PageState
  BY <1>2, <1>3, <1>4, <1>5 DEF PageState
<1>7. CallIn(c)
  BY <1>6, PreloadIn
<1> HIDE DEF c
<1>8. d \in [Calls -> PageCall] /\ \A q \in Calls : CallIn(d[q])
  BY <1>2, PageFacts, OutdatedOK, OutdatedIn
<1> HIDE DEF d
<1>9. QED
  BY <1>1, <1>6, <1>7, <1>8, OneCallIn DEF BoundedNext

LEMMA EndShowIn ==
    ASSUME PageInv, PageBounds, NEW p \in Calls, NEW s \in PageState, PageIn(s),
           NEW d \in [Calls -> PageCall], \A q \in Calls : CallIn(d[q]), Page!EndShow(s, d, p)
    PROVE  BoundedNext
<1> DEFINE c == Page!PreloadNext(s)
           no == FALSE
<1>1. /\ state' = s \/ state' = [s EXCEPT !.moving = no]
      /\ call' = [d EXCEPT ![p] = c]
  BY DEF Page!EndShow
<1>2. no \in BOOLEAN
  OBVIOUS
<1> HIDE DEF no
<1>3. PageIn([s EXCEPT !.moving = no])
  BY <1>2, MovingIn
<1>4. CallIn(c)
  BY PreloadIn
<1> HIDE DEF c
<1>5. QED
  BY <1>1, <1>3, <1>4, OneCallIn DEF BoundedNext

\* The last index tried is shown.
LEMMA PrepareIn ==
    ASSUME NEW s \in PageState, PageIn(s), NEW k \in {0, 1}, NEW i \in Indexes, i \in Int
    PROVE  PageIn(Page!PrepareFailedSlot(s, k, i)) /\ Page!PrepareFailedSlot(s, k, i) \in PageState
<1> DEFINE t == Page!PrepareFailedSlot(s, k, i)
<1>1. t = Page!PrepareFailedSlot(s, k, i)
  OBVIOUS
<1> HIDE DEF t
<1>2. Prepared(s, t, k, i)
  BY <1>1, PrepareOK
<1>3. s.items.len \in Nat
  BY DEF PageState
<1>4. CASE s.items.len = 0
  BY <1>1, <1>2, <1>4 DEF Prepared
<1>5. CASE s.items.len # 0
  <2>1. /\ t \in PageState /\ t.items = s.items /\ t.failed = s.failed /\ t.activeIndex = s.activeIndex
        /\ t.slots[k].index = i /\ t.slots[1 - k] = s.slots[1 - k]
    BY <1>2, <1>3, <1>5 DEF Prepared, SameList
  <2>2. PageIn(t)
    BY <2>1 DEF PageIn
  <2>3. QED
    BY <1>1, <2>1, <2>2
<1>6. QED
  BY <1>4, <1>5

\* Another item becomes the active one.
LEMMA ActiveIn ==
    ASSUME NEW s \in PageState, PageIn(s), NEW k \in {0, 1}, NEW i \in Indexes, i \in Int
    PROVE  /\ PageIn([s EXCEPT !.activeSlot = k, !.activeIndex = i])
           /\ [s EXCEPT !.activeSlot = k, !.activeIndex = i] \in PageState
<1> DEFINE t == [s EXCEPT !.activeSlot = k, !.activeIndex = i]
<1>1. /\ t \in PageState /\ t.items = s.items /\ t.failed = s.failed /\ t.activeIndex = i
      /\ t.slots = s.slots
  BY DEF PageState
<1> HIDE DEF t
<1>2. PageIn(t)
  BY <1>1 DEF PageIn
<1>3. QED
  BY <1>1, <1>2 DEF t

LEMMA ShowFoundIn ==
    ASSUME PageInv, PageBounds, NEW p \in Calls, Page!ShowFound(p)
    PROVE  BoundedNext
<1> DEFINE zero == 0
           i == call[p].index
           none == Page!NoIndex
           at == "play"
           no == FALSE
           f == Page!PrepareFailedSlot(state, zero, i)
           t == Page!Shown(p)
           d == Page!Outdated(call, zero)
           c == Page!At(p, at, none, no)
<1>1. \/ state' = state /\ call' = [call EXCEPT ![p] = Page!Free]
      \/ state' = t /\ call' = [call EXCEPT ![p] = c]
      \/ Page!EndShow(t, d, p)
  BY DEF Page!ShowFound
<1>2. zero \in {0, 1} /\ i \in Indexes /\ i \in Int /\ none \in Indexes
  BY PageFacts, TopOK DEF CallIn, PageCall
<1>3. \/ t = [state EXCEPT !.activeSlot = zero, !.activeIndex = i]
      \/ t = [f EXCEPT !.activeSlot = zero, !.activeIndex = i]
  BY DEF Page!Shown
<1> HIDE DEF t, i, none, at, no, zero
<1>4. PageIn(f) /\ f \in PageState
  BY <1>2, PageFacts, PrepareIn
<1> HIDE DEF f
<1>5. PageIn(t) /\ t \in PageState
  <2>1. /\ PageIn([state EXCEPT !.activeSlot = zero, !.activeIndex = i])
        /\ [state EXCEPT !.activeSlot = zero, !.activeIndex = i] \in PageState
    BY <1>2, PageFacts, ActiveIn
  <2>2. /\ PageIn([f EXCEPT !.activeSlot = zero, !.activeIndex = i])
        /\ [f EXCEPT !.activeSlot = zero, !.activeIndex = i] \in PageState
    BY <1>2, <1>4, ActiveIn
  <2>3. QED
    BY <1>3, <2>1, <2>2
<1>6. CallIn(c) /\ CallIn(Page!Free)
  BY <1>2, PageFacts, AtIn, FreeIn
<1> HIDE DEF c
<1>7. d \in [Calls -> PageCall] /\ \A q \in Calls : CallIn(d[q])
  BY <1>2, PageFacts, OutdatedOK, OutdatedIn
<1> HIDE DEF d
<1>8. CASE state' = state /\ call' = [call EXCEPT ![p] = Page!Free]
  BY <1>6, <1>8, PageFacts, OneCallIn DEF BoundedNext
<1>9. CASE state' = t /\ call' = [call EXCEPT ![p] = c]
  BY <1>5, <1>6, <1>9, PageFacts, OneCallIn DEF BoundedNext
<1>10. CASE Page!EndShow(t, d, p)
  BY <1>5, <1>7, <1>10, EndShowIn
<1>11. QED
  BY <1>1, <1>8, <1>9, <1>10

LEMMA NextFoundIn ==
    ASSUME PageInv, PageBounds, NEW p \in Calls, Page!NextFound(p)
    PROVE  BoundedNext
<1> DEFINE k == call[p].slot
           i == call[p].index
           f == Page!PrepareFailedSlot(state, k, i)
           d == IF call[p].playable \/ state.items.len = 0 THEN call ELSE Page!Outdated(call, k)
           c == [d[p] EXCEPT !.at = "swap"]
<1>1. (state' = state \/ state' = f) /\ call' = [d EXCEPT ![p].at = "swap"]
  BY DEF Page!NextFound
<1>2. k \in {0, 1} /\ i \in Indexes /\ i \in Int
  BY PageFacts DEF CallIn, PageCall
<1>3. d \in [Calls -> PageCall] /\ \A q \in Calls : CallIn(d[q])
  <2> HIDE DEF k
  <2>1. Page!Outdated(call, k) \in [Calls -> PageCall] /\ \A q \in Calls : CallIn(Page!Outdated(call, k)[q])
    BY <1>2, PageFacts, OutdatedOK, OutdatedIn
  <2>2. QED
    BY <2>1, PageFacts
<1> HIDE DEF d
<1>4. call' = [d EXCEPT ![p] = c]
  BY <1>1, <1>3
<1>5. CallIn(c)
  <2>1. d[p] \in PageCall /\ CallIn(d[p])
    BY <1>3
  <2>2. c.index = d[p].index /\ c.start = d[p].start
    BY <2>1 DEF PageCall
  <2>3. QED
    BY <2>1, <2>2 DEF CallIn
<1> HIDE DEF c, k, i
<1>6. PageIn(f)
  BY <1>2, PageFacts, PrepareIn
<1>7. QED
  BY <1>1, <1>3, <1>4, <1>5, <1>6, PageFacts, OneCallIn DEF BoundedNext

LEMMA SwapEndsIn ==
    ASSUME PageInv, PageBounds, NEW p \in Calls, Page!SwapEnds(p)
    PROVE  BoundedNext
<1> DEFINE k == call[p].slot
           i == call[p].index
           none == Page!NoIndex
           at == "play"
           no == FALSE
           s == [state EXCEPT !.activeSlot = k, !.activeIndex = i]
           c == Page!At(p, at, none, no)
<1>1. (state' = s /\ call' = [call EXCEPT ![p] = c]) \/ Page!EndTransition(s, call, p)
  BY DEF Page!SwapEnds
<1>2. k \in {0, 1} /\ i \in Indexes /\ i \in Int /\ none \in Indexes
  BY PageFacts, TopOK DEF CallIn, PageCall
<1> HIDE DEF k, i, none, at, no
<1>3. PageIn(s) /\ s \in PageState
  BY <1>2, PageFacts, ActiveIn
<1> HIDE DEF s
<1>4. CallIn(c)
  BY <1>2, PageFacts, AtIn
<1> HIDE DEF c
<1>5. CASE state' = s /\ call' = [call EXCEPT ![p] = c]
  BY <1>3, <1>4, <1>5, PageFacts, OneCallIn DEF BoundedNext
<1>6. CASE Page!EndTransition(s, call, p)
  BY <1>3, <1>6, EndTransitionIn
<1>7. QED
  BY <1>1, <1>5, <1>6

LEMMA PlayEndsIn ==
    ASSUME PageInv, PageBounds, NEW p \in Calls, Page!PlayEnds(p)
    PROVE  BoundedNext
<1>1. Page!EndShow(state, call, p) \/ Page!EndTransition(state, call, p)
  BY DEF Page!PlayEnds
<1>2. QED
  BY <1>1, PageFacts, EndShowIn, EndTransitionIn

LEMMA PageArrivesIn ==
    ASSUME PageInv, PageBounds, NEW p \in Calls, Page!PageArrives(p)
    PROVE  BoundedNext
<1> DEFINE c == [call[p] EXCEPT !.page = @ + 1, !.of = @ \cup {state.orientation}]
<1>1. state' = state /\ (call' = [call EXCEPT ![p] = c] \/ call' = [call EXCEPT ![p] = Page!Free])
  BY DEF Page!PageArrives
<1>2. CallIn(c) /\ CallIn(Page!Free)
  <2>1. call[p] \in PageCall /\ CallIn(call[p])
    BY PageFacts
  <2>2. c.index = call[p].index /\ c.start = call[p].start
    BY <2>1 DEF PageCall
  <2>3. QED
    BY <2>1, <2>2, PageFacts, FreeIn DEF CallIn
<1> HIDE DEF c
<1>3. QED
  BY <1>1, <1>2, PageFacts, OneCallIn DEF BoundedNext

LEMMA LastPageArrivesIn ==
    ASSUME PageInv, PageBounds, NEW p \in Calls, Page!LastPageArrives(p)
    PROVE  BoundedNext
<1> DEFINE o == CHOOSE x \in call[p].of : TRUE
           s == [state EXCEPT !.items = [of |-> call[p].of, len |-> Length[o]]]
           zero == 0
           kind == "show"
           c == Page!Finding(s, kind, zero, zero)
<1>1. /\ call[p].at = "fetch"
      /\ \/ state' = s /\ call' = [call EXCEPT ![p] = c]
         \/ state' = state /\ call' = [call EXCEPT ![p] = Page!Free]
  BY DEF Page!LastPageArrives
<1>2. call[p] \in PageCall /\ state \in PageState /\ PageIn(state)
  BY PageFacts
<1>3. call[p].of # {} /\ call[p].of \subseteq Orientations
  BY <1>1, <1>2 DEF PageInv, ListOK, FetchOK, PageCall
<1>4. o \in Orientations
  BY <1>3
<1> HIDE DEF o
<1>5. Length[o] \in Nat /\ Length[o] <= Top
  BY <1>2, <1>4, PageNumbers, TopOK
<1>6. /\ s \in PageState /\ s.items.len = Length[o] /\ s.failed = state.failed
      /\ s.activeIndex = state.activeIndex /\ s.slots = state.slots
  BY <1>2, <1>3, <1>5 DEF PageState
<1> HIDE DEF s
<1>7. PageIn(s)
  BY <1>2, <1>5, <1>6 DEF PageIn
<1>8. zero \in Indexes
  BY <1>2, TopOK
<1> HIDE DEF zero, kind
<1>9. CallIn(c) /\ CallIn(Page!Free)
  BY <1>2, <1>6, <1>8, FindingIn, FreeIn
<1> HIDE DEF c
<1>10. QED
  BY <1>1, <1>7, <1>9, PageFacts, OneCallIn DEF BoundedNext

LEMMA FeedFailsIn ==
    ASSUME PageInv, PageBounds, NEW p \in Calls, Page!FeedFails(p)
    PROVE  BoundedNext
<1> DEFINE no == FALSE
<1>1. /\ state' = state \/ state' = [state EXCEPT !.moving = no]
      /\ call' = [call EXCEPT ![p] = Page!Free]
  BY DEF Page!FeedFails
<1>2. no \in BOOLEAN
  OBVIOUS
<1> HIDE DEF no
<1>3. QED
  BY <1>1, <1>2, PageFacts, MovingIn, FreeIn, OneCallIn DEF BoundedNext

\* The page without a token, and showFirst until its request.
LEMMA MissingAuthIn ==
    ASSUME NEW s \in PageState, NEW c \in [Calls -> PageCall], \A q \in Calls : CallIn(c[q]),
           state' = [Page!Cleared(s) EXCEPT !.moving = FALSE], call' = Page!Superseded(c)
    PROVE  BoundedNext
<1> DEFINE no == FALSE
<1>1. no \in BOOLEAN /\ state' = [Page!Cleared(s) EXCEPT !.moving = no]
  OBVIOUS
<1> HIDE DEF no
<1>2. PageIn(state')
  BY <1>1, ClearedIn
<1>3. QED
  BY <1>2, SupersededIn DEF BoundedNext

LEMMA ShowFirstIn ==
    ASSUME PageInv, PageBounds, NEW p \in Calls, NEW s \in PageState, NEW hasToken,
           Page!ShowFirst(p, s, hasToken)
    PROVE  BoundedNext
<1>1. CASE ~hasToken
  BY <1>1, PageFacts, MissingAuthIn DEF Page!ShowFirst
<1>2. CASE hasToken
  <2> DEFINE yes == TRUE
             d == Page!Superseded(call)
             c == [Page!Free EXCEPT !.kind = "show", !.at = "fetch", !.page = 1, !.of = {s.orientation}]
  <2>1. state' = [Page!Cleared(s) EXCEPT !.moving = yes] /\ call' = [d EXCEPT ![p] = c]
    BY <1>2 DEF Page!ShowFirst
  <2>2. CallIn(c)
    <3>1. c.index = Page!Free.index /\ c.start = Page!Free.start
      BY DEF Page!Free
    <3>2. QED
      BY <3>1, FreeIn DEF CallIn
  <2>3. yes \in BOOLEAN
    OBVIOUS
  <2> HIDE DEF yes, c
  <2>4. d \in [Calls -> PageCall] /\ \A q \in Calls : CallIn(d[q])
    BY PageFacts, SupersededOK, SupersededIn
  <2> HIDE DEF d
  <2>5. PageIn(state')
    BY <2>1, <2>3, ClearedIn
  <2>6. QED
    BY <2>1, <2>2, <2>4, <2>5, OneCallIn DEF BoundedNext
<1>3. QED
  BY <1>1, <1>2

LEMMA PageRejectedIn ==
    ASSUME PageInv, PageBounds, NEW p \in Calls, Page!PageRejected(p)
    PROVE  BoundedNext
<1> DEFINE c == [call EXCEPT ![p] = Page!Free]
<1>1. Page!ResetPlaybackForMissingAuth(c)
  BY DEF Page!PageRejected
<1>2. c \in [Calls -> PageCall] /\ \A q \in Calls : CallIn(c[q])
  BY PageFacts, FreeTyped, FreeIn
<1> HIDE DEF c
<1>3. QED
  BY <1>1, <1>2, PageFacts, MissingAuthIn DEF Page!ResetPlaybackForMissingAuth

LEMMA NextVideoIn ==
    ASSUME PageInv, PageBounds, NEW p \in Calls, Page!NextVideo(p)
    PROVE  BoundedNext
<1>1. CASE ~token
  BY <1>1, PageFacts, MissingAuthIn DEF Page!NextVideo, Page!ResetPlaybackForMissingAuth
<1>2. CASE token
  <2> DEFINE yes == TRUE
             kind == "next"
             k == 1 - state.activeSlot
             start == Page!Following(state)
             c == Page!Finding(state, kind, k, start)
  <2>1. /\ state.items.len > 0 /\ state' = [state EXCEPT !.moving = yes]
        /\ call' = [call EXCEPT ![p] = c]
    BY <1>2 DEF Page!NextVideo
  <2>2. start \in Indexes
    BY <2>1, PageFacts, FollowingIn
  <2>3. yes \in BOOLEAN
    OBVIOUS
  <2> HIDE DEF yes, kind, k, start
  <2>4. CallIn(c)
    BY <2>2, PageFacts, FindingIn
  <2> HIDE DEF c
  <2>5. QED
    BY <2>1, <2>3, <2>4, PageFacts, MovingIn, OneCallIn DEF BoundedNext
<1>3. QED
  BY <1>1, <1>2

LEMMA SelectOrientationIn ==
    ASSUME PageInv, PageBounds, NEW p \in Calls, NEW o \in Orientations, Page!SelectOrientation(o, p)
    PROVE  BoundedNext
<1> DEFINE s == [state EXCEPT !.orientation = o]
<1>1. s \in PageState
  BY PageFacts DEF PageState
<1>2. Page!ShowFirst(p, s, token)
  BY DEF Page!SelectOrientation
<1> HIDE DEF s
<1>3. QED
  BY <1>1, <1>2, ShowFirstIn

LEMMA TokenRemovedIn ==
    ASSUME PageInv, PageBounds, NEW here \in BOOLEAN, Page!TokenRemoved(here)
    PROVE  BoundedNext
<1>1. Page!ResetPlaybackForMissingAuth(call) \/ (state' = state /\ call' = call)
  BY DEF Page!TokenRemoved
<1>2. QED
  BY <1>1, PageFacts, MissingAuthIn DEF Page!ResetPlaybackForMissingAuth, BoundedNext

LEMMA TokenStoredIn ==
    ASSUME PageInv, PageBounds, NEW p \in Calls, Page!TokenStored(p)
    PROVE  BoundedNext
<1> DEFINE yes == TRUE
<1>1. Page!ShowFirst(p, state, yes) \/ (state' = state /\ call' = call)
  BY DEF Page!TokenStored
<1> HIDE DEF yes
<1>2. QED
  BY <1>1, PageFacts, ShowFirstIn DEF BoundedNext

LEMMA MediaErrorIn ==
    ASSUME PageInv, PageBounds, NEW k \in {0, 1}, Page!MediaError(k)
    PROVE  BoundedNext
<1> DEFINE f == IF k = state.activeSlot /\ state.activeIndex >= 0 /\ ~state.moving
                THEN state.failed \cup {state.activeIndex} ELSE state.failed
<1>1. state' = [state EXCEPT !.slots[k].ready = FALSE, !.failed = f] /\ call' = call
  BY DEF Page!MediaError
<1>2. state \in PageState /\ PageIn(state)
  BY PageFacts
<1>3. f \subseteq Indexes
  BY <1>2 DEF PageIn
<1> HIDE DEF f
<1>4. /\ state'.items = state.items /\ state'.failed = f /\ state'.activeIndex = state.activeIndex
      /\ \A m \in {0, 1} : state'.slots[m].index = state.slots[m].index
  BY <1>1, <1>2 DEF PageState, Elements
<1>5. PageIn(state')
  BY <1>2, <1>3, <1>4 DEF PageIn
<1>6. QED
  BY <1>1, <1>5, PageFacts DEF BoundedNext

\* The page begins without a list.
LEMMA PageBoundsInit == Page!Init => PageBounds
<1> SUFFICES ASSUME Page!Init PROVE PageBounds
  OBVIOUS
<1>1. state \in PageState
  BY PageInitOK DEF PageInv, PageTyped
<1>2. /\ state.items = Page!NoItems /\ state.failed = {} /\ state.activeIndex = Page!NoIndex
      /\ state.slots = [k \in {0, 1} |-> Page!EmptySlot]
      /\ token = FALSE /\ overlapped = FALSE /\ resets = 0
      /\ call = [p \in Calls |-> Page!Free]
  BY DEF Page!Init
<1>3. \A k \in {0, 1} : state.slots[k].index = Page!NoIndex
  BY <1>2, EmptyElement
<1>4. state.items.len = 0 /\ Top \in Nat /\ Page!NoIndex \in Indexes
  BY <1>1, <1>2, TopOK DEF Page!NoItems
<1>5. PageIn(state)
  BY <1>2, <1>3, <1>4 DEF PageIn
<1>6. \A p \in Calls : CallIn(call[p])
  BY <1>1, <1>2, FreeIn
<1>7. resets \in 0 .. MaxResets
  BY <1>2, PlayerAssumption DEF Page!PlayerAssumption
<1>8. token \in BOOLEAN /\ overlapped \in BOOLEAN
  BY <1>2
<1>9. QED
  BY <1>5, <1>6, <1>7, <1>8 DEF PageBounds

\* The token, the history and the bound.
LEMMA FlagsNext ==
    ASSUME PageBounds, Page!Next
    PROVE  token' \in BOOLEAN /\ overlapped' \in BOOLEAN /\ resets' \in 0 .. MaxResets
<1>1. token \in BOOLEAN /\ overlapped \in BOOLEAN /\ resets \in 0 .. MaxResets /\ MaxResets \in Nat
  BY PlayerAssumption DEF PageBounds, Page!PlayerAssumption
<1>2. Page!Overlaps \in BOOLEAN
  BY DEF Page!Overlaps
<1> DEFINE Flags == /\ token' = token \/ token' = TRUE \/ token' = FALSE
                    /\ overlapped' = overlapped \/ overlapped' = Page!Overlaps
                    /\ resets' = resets \/ (resets < MaxResets /\ resets' = resets + 1)
<1>3. ASSUME NEW p \in Calls, Page!CallStep(p) PROVE Flags
  BY <1>3 DEF Page!CallStep, Page!CallGoesOn, Page!LoadSlot, Page!AlreadyLoaded, Page!GiveUp, Page!LoopThrows,
     Page!StaleWaitEnds, Page!PreloadFound, Page!ShowFound, Page!NextFound, Page!SwapEnds,
     Page!PlayEnds, Page!PageArrives, Page!LastPageArrives, Page!FeedFails, Page!PageRejected,
     Page!ResetPlaybackForMissingAuth
<1>4. ASSUME NEW k \in {0, 1}, Page!ElementStep(k) \/ Page!MediaError(k) PROVE Flags
  BY <1>4 DEF Page!ElementStep, Page!LoadSettles, Page!MediaError
<1>5. ASSUME NEW p \in Calls, Page!NextVideo(p) \/ Page!TokenStored(p) PROVE Flags
  BY <1>5 DEF Page!NextVideo, Page!TokenStored, Page!ShowFirst, Page!ResetPlaybackForMissingAuth
<1>6. ASSUME NEW p \in Calls, NEW o \in Orientations, Page!SelectOrientation(o, p) PROVE Flags
  BY <1>6 DEF Page!SelectOrientation, Page!ShowFirst
<1>7. ASSUME NEW here \in BOOLEAN, Page!TokenRemoved(here) PROVE Flags
  BY <1>7 DEF Page!TokenRemoved, Page!ResetPlaybackForMissingAuth
<1>8. Flags
  BY <1>3, <1>4, <1>5, <1>6, <1>7 DEF Page!Next, Page!ViewerStep
<1>9. token' \in BOOLEAN
  BY <1>1, <1>8, Zenon
<1>10. overlapped' \in BOOLEAN
  BY <1>1, <1>2, <1>8, Zenon
<1>11. resets' \in 0 .. MaxResets
  <2>1. resets' = resets \/ (resets < MaxResets /\ resets' = resets + 1)
    BY <1>8
  <2>2. QED
    BY <1>1, <2>1
<1>12. QED
  BY <1>9, <1>10, <1>11

\* No step of the page leaves the bounds.
LEMMA PageBoundsNext == PageInv /\ PageBounds /\ [Page!Next]_pageVars => PageBounds'
<1> SUFFICES ASSUME PageInv, PageBounds, [Page!Next]_pageVars PROVE PageBounds'
  OBVIOUS
<1>1. CASE UNCHANGED pageVars
  BY <1>1 DEF pageVars, PageBounds, PageIn, CallIn, Indexes, Top
<1>2. ASSUME NEW p \in Calls, Page!CallStep(p) PROVE BoundedNext
  BY <1>2, LoadSlotIn, AlreadyLoadedIn, GiveUpIn, LoopThrowsIn, StaleWaitEndsIn, PreloadFoundIn,
     ShowFoundIn, NextFoundIn, SwapEndsIn, PlayEndsIn, PageArrivesIn, LastPageArrivesIn,
     FeedFailsIn, PageRejectedIn
     DEF Page!CallStep, Page!CallGoesOn
<1>3. ASSUME NEW k \in {0, 1}, Page!ElementStep(k) \/ Page!MediaError(k) PROVE BoundedNext
  BY <1>3, LoadSettlesIn, MediaErrorIn DEF Page!ElementStep
<1>4. ASSUME Page!ViewerStep PROVE BoundedNext
  BY <1>4, NextVideoIn, TokenStoredIn, SelectOrientationIn, TokenRemovedIn DEF Page!ViewerStep
<1>5. CASE Page!Next
  <2>1. BoundedNext
    BY <1>2, <1>3, <1>4, <1>5 DEF Page!Next
  <2>2. QED
    BY <1>5, <2>1, FlagsNext DEF BoundedNext, PageBounds, PageIn, CallIn, Indexes, Top
<1>6. QED
  BY <1>1, <1>5

\* What is known of the page says its variables have their types.
LEMMA PageTypesOK == PageInv /\ PageBounds => Page!TypeOK
<1> SUFFICES ASSUME PageInv, PageBounds PROVE Page!TypeOK
  OBVIOUS
<1> DEFINE I == Page!NotANumber .. Page!Max({Length[o] : o \in Orientations}) - 1
<1>1. I = Indexes
  BY DEF Indexes, Top
<1> HIDE DEF I
<1>2. state \in PageState /\ PageIn(state)
  BY PageFacts
<1>3. /\ state.orientation \in Orientations /\ state.items.of \subseteq Orientations
      /\ state.items.len \in Nat /\ state.failed \subseteq I
      /\ state.activeSlot \in {0, 1} /\ state.activeIndex \in I /\ state.moving \in BOOLEAN
  BY <1>1, <1>2 DEF PageState, PageIn
<1>4. state.slots \in [{0, 1} -> [index : I, pending : BOOLEAN, ready : BOOLEAN, src : I]]
  <2>1. state.slots \in [{0, 1} -> Elements]
    BY <1>2 DEF PageState
  <2>2. ASSUME NEW k \in {0, 1}
        PROVE  state.slots[k] \in [index : I, pending : BOOLEAN, ready : BOOLEAN, src : I]
    <3>1. state.slots[k] \in Elements /\ state.slots[k].index \in I
      BY <1>1, <1>2, <2>1 DEF PageIn
    <3>2. state.slots[k].src = state.slots[k].index
      BY DEF PageInv, ListOK, ElementOK
    <3>3. QED
      BY <3>1, <3>2 DEF Elements
  <2>3. QED
    BY <2>1, <2>2
<1>5. token \in BOOLEAN /\ overlapped \in BOOLEAN /\ resets \in 0 .. MaxResets
  BY DEF PageBounds
<1>6. ASSUME NEW p \in Calls
      PROVE  /\ call[p].kind \in {"none", "show", "next", "preload"}
             /\ call[p].at \in {"free", "fetch", "loop", "await", "stale", "found", "swap", "play"}
             /\ call[p].index \in I /\ call[p].start \in I /\ call[p].slot \in {0, 1}
  BY <1>1, PageFacts DEF PageCall, CallIn
<1>7. QED
  BY <1>3, <1>4, <1>5, <1>6 DEF Page!TypeOK, I

\* The states in the hands of operations are states.
LEMMA PresenceTypesOK == PresenceInv => Presence!TypeOK
<1> SUFFICES ASSUME PresenceInv PROVE Presence!TypeOK
  OBVIOUS
<1>1. ASSUME NEW o \in Presence!Ops
      PROVE  /\ op[o].at \in {"idle", "ask", "control", "store"}
             /\ op[o].at \in {"control", "store"} => op[o].next \in Presence!States
  <2>1. op[o] \in PresenceOps
    BY DEF PresenceInv, PresenceOpOK
  <2>2. QED
    BY <2>1, PresenceStatesAre DEF PresenceOps
<1>2. QED
  BY <1>1, PresenceStatesAre DEF PresenceInv, Presence!TypeOK

-----------------------------------------------------------------------------
(* The composition: whatever part a behaviour is one of, each component takes its own
   steps or rests. *)

\* A step of the composition is one of each component, or leaves it alone.
LEMMA PartsStep ==
    [LoopsNext]_<<part, vars, presenceVars, collectionVars, pageVars>> =>
        /\ part' = part
        /\ [Next]_vars
        /\ [Presence!Next]_presenceVars
        /\ [Collecting!Next]_collectionVars
        /\ [Page!Next]_pageVars
  BY DEF LoopsNext

\* Presence at home: whichever poll, webhook or failure comes between, and whichever older
\* state is stored over a newer one, the row says away only once the plug was off or
\* turned off.
THEOREM AwayControlled == LoopsSpec => []AwayIsControlled
<1>1. LoopsInit => PresenceInv
  BY PresenceInitOK DEF LoopsInit
<1>2. PresenceInv /\ [LoopsNext]_<<part, vars, presenceVars, collectionVars, pageVars>>
        => PresenceInv'
  BY PresenceNextOK, PartsStep
<1>3. PresenceInv => AwayIsControlled
  BY DEF PresenceInv, AwayTold, AwayIsControlled, Presence!AwayIsControlled
<1>4. QED
  BY <1>1, <1>2, <1>3, PTL DEF LoopsSpec

\* A group of collected sources, whatever times out, fails or is abandoned: once a source
\* and its task are through, its row says what the group was told, and what a row without
\* an error is credited with is stored.
THEOREM CollectionRecorded == LoopsSpec => []CollectionIsRecorded
<1>1. LoopsInit => CollectionInv
  BY CollectionInitOK DEF LoopsInit
<1>2. CollectionInv /\ [LoopsNext]_<<part, vars, presenceVars, collectionVars, pageVars>>
        => CollectionInv'
  BY CollectionNextOK, PartsStep
<1>3. CollectionInv => CollectionIsRecorded
  <2> SUFFICES ASSUME CollectionInv PROVE CollectionIsRecorded
    OBVIOUS
  <2>1. Collecting!CreditedIsStored
    BY DEF CollectionInv, CreditOK, Collecting!CreditedIsStored
  <2>2. ASSUME NEW s \in Sources, Collecting!Settled(s), Collecting!Ended(s), ~lost[s]
        PROVE  /\ rec[s].state = "closed"
               /\ rec[s].error <=> (runner[s] = "failed" \/ s \in finalError)
    <3>1. OutcomeOK(runner[s], task[s], aborted[s], marked[s], rec[s], lost[s], s \in finalError)
      BY DEF CollectionInv
    <3>2. QED
      BY <2>2, <3>1 DEF OutcomeOK, Rewriting, Collecting!Settled, Collecting!Ended
  <2>3. QED
    BY <2>1, <2>2 DEF CollectionIsRecorded, Collecting!OutcomeIsRecorded
<1>4. QED
  BY <1>1, <1>2, <1>3, PTL DEF LoopsSpec

\* The player page, in whatever order pages of feeds, elements, timers, swipes, selections
\* and the token come and go: its list is the one of the selected orientation, and until a
\* list begins with older calls under way its active element holds its active item.
THEOREM PageConsistent == LoopsSpec => []PageIsConsistent
<1>1. LoopsInit => PageInv
  BY PageInitOK DEF LoopsInit
<1>2. PageInv /\ [LoopsNext]_<<part, vars, presenceVars, collectionVars, pageVars>> => PageInv'
  BY PageStepOK, PartsStep
<1>3. PageInv => PageIsConsistent
  BY PageInvShows
<1>4. QED
  BY <1>1, <1>2, <1>3, PTL DEF LoopsSpec

\* The variables of all four components keep their types: no index of the player is beyond
\* the longest list an orientation gives, whatever is reset or fails; what polls and
\* webhooks hold are states; rows and tasks of a collection are of its sources; files,
\* requests and the document of the delivery hold samples.
THEOREM LoopsTyped == LoopsSpec => []TypesOK
<1> DEFINE Inv == /\ part \in {"telemetry", "presence", "collection", "page"}
                  /\ TypeInv /\ PresenceInv /\ CollectionInv /\ PageInv /\ PageBounds
<1>1. LoopsInit => Inv
  BY InitType, PresenceInitOK, CollectionInitOK, PageInitOK, PageBoundsInit DEF LoopsInit
<1>2. Inv /\ [LoopsNext]_<<part, vars, presenceVars, collectionVars, pageVars>> => Inv'
  BY PartsStep, TypeNext, PresenceNextOK, CollectionNextOK, PageStepOK, PageBoundsNext
<1>3. Inv => TypesOK
  <2>1. TypeInv => TypeOK
    BY DEF TypeInv
  <2>2. CollectionInv => Collecting!TypeOK
    BY CollectionTypes DEF CollectionInv
  <2>3. QED
    BY <2>1, <2>2, PresenceTypesOK, PageTypesOK DEF TypesOK
<1>4. QED
  BY <1>1, <1>2, <1>3, PTL DEF LoopsSpec
=============================================================================
