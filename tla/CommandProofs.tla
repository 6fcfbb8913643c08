--------------------------- MODULE CommandProofs ---------------------------
(***************************************************************************)
(* Proofs about the delivery of commands, for any number of devices,       *)
(* payloads and restarts.  The table lemmas come first, then what each     *)
(* action does to the table, then the theorems.                            *)
(***************************************************************************)
EXTENDS CommandDelivery, FiniteFacts

-----------------------------------------------------------------------------
(* The table.                                                              *)

\* The id SQLite gives to a new row is not in use.
LEMMA NewIdFresh ==
    ASSUME NEW table, IsTable(table)
    PROVE  NewId(table) \in Ids /\ NewId(table) \notin DOMAIN table
<1>1. CASE DOMAIN table = {}
  BY <1>1 DEF NewId, Ids
<1>2. CASE DOMAIN table # {}
  <2> DEFINE S == DOMAIN table
             Largest(i) == \A other \in S : i >= other
             top == CHOOSE i \in S : Largest(i)
  <2>1. S \in SUBSET Int /\ S \in SUBSET Ids /\ IsFiniteSet(S)
    BY DEF IsTable, Ids
  <2>2. \E i \in S : Largest(i)
    BY <1>2, <2>1, LargestOf
  <2>3. top \in S /\ Largest(top)
    BY <2>2
  <2>4. NewId(table) = 1 + top
    BY <1>2 DEF NewId
  <2> HIDE DEF top
  <2>5. top \in Nat \ {0} /\ 1 + top \in Nat \ {0} /\ ~(top >= 1 + top)
    BY <2>1, <2>3 DEF Ids
  <2>6. QED
    BY <2>3, <2>4, <2>5 DEF Ids
<1>3. QED
  BY <1>1, <1>2

\* A function on the ids of a table whose values are rows is a table.
LEMMA SameIdsTable ==
    ASSUME NEW table, IsTable(table), NEW new, DOMAIN new = DOMAIN table,
           \A id \in DOMAIN table : new[id] \in Row
    PROVE  IsTable(new)
BY DEF IsTable

LEMMA NewRowType ==
    ASSUME NEW d \in Devices, NEW p \in Payloads, NEW b \in Nat
    PROVE  /\ NewRow(d, p, b) \in Row
           /\ NewRow(d, p, b).device = d /\ NewRow(d, p, b).payload = p
           /\ NewRow(d, p, b).birth = b /\ NewRow(d, p, b).retained
           /\ ~NewRow(d, p, b).completed
BY DEF NewRow, Row

\* enqueueCommandOnce adds one row, or none when an open row of the same command exists.
LEMMA InsertedFacts ==
    ASSUME NEW table, IsTable(table),
           NEW d \in Devices, NEW p \in Payloads, NEW b \in Nat,
           NEW new, new = Inserted(table, d, p, b), new # table
    PROVE  /\ IsTable(new)
           /\ PendingFor(table, d, p) = {}
           /\ NewId(table) \in Ids \ DOMAIN table
           /\ DOMAIN new = DOMAIN table \cup {NewId(table)}
           /\ new[NewId(table)] = NewRow(d, p, b)
           /\ \A id \in DOMAIN table : new[id] = table[id]
<1> DEFINE fresh == NewId(table)
           row == NewRow(d, p, b)
<1>1. fresh \in Ids /\ fresh \notin DOMAIN table
  BY NewIdFresh
<1>2. PendingFor(table, d, p) = {}
  BY DEF Inserted
<1>3. new = [id \in DOMAIN table \cup {fresh} |-> IF id \in DOMAIN table THEN table[id] ELSE row]
  BY <1>2 DEF Inserted
<1>4. row \in Row
  BY NewRowType
<1> HIDE DEF fresh, row
<1>5. /\ DOMAIN new = DOMAIN table \cup {fresh} /\ new[fresh] = row
      /\ \A id \in DOMAIN table : new[id] = table[id]
  BY <1>1, <1>3
<1>6. IsFiniteSet(DOMAIN table \cup {fresh})
  BY FS_AddElement DEF IsTable
<1>7. IsTable(new)
  BY <1>1, <1>4, <1>5, <1>6 DEF IsTable
<1>8. QED
  BY <1>1, <1>2, <1>5, <1>7 DEF fresh, row

\* What no statement changes in a row.
SameCommand(old, new) ==
    /\ new.device = old.device /\ new.payload = old.payload /\ new.birth = old.birth

\* A claim changes delivered_at only.
LEMMA ClaimedFacts ==
    ASSUME NEW table, IsTable(table), NEW ids, NEW new, new = Claimed(table, ids)
    PROVE  /\ IsTable(new) /\ DOMAIN new = DOMAIN table
           /\ \A id \in DOMAIN table :
                /\ SameCommand(table[id], new[id])
                /\ new[id].expired = table[id].expired
                /\ new[id].completed = table[id].completed
                /\ new[id].retained = table[id].retained
<1>1. /\ DOMAIN new = DOMAIN table
      /\ \A id \in DOMAIN table :
            new[id] = table[id] \/ new[id] = [table[id] EXCEPT !.delivered = "recently"]
  BY DEF Claimed
<1>2. ASSUME NEW id \in DOMAIN table
      PROVE  /\ new[id] \in Row
             /\ SameCommand(table[id], new[id])
             /\ new[id].expired = table[id].expired
             /\ new[id].completed = table[id].completed
             /\ new[id].retained = table[id].retained
  <2>1. table[id] \in Row
    BY DEF IsTable
  <2>2. QED
    BY <1>1, <2>1 DEF Row, SameCommand
<1>3. IsTable(new)
  BY <1>1, <1>2, SameIdsTable
<1>4. QED
  BY <1>1, <1>2, <1>3

\* An acknowledgement changes an open row of the sender, or nothing.
LEMMA AcknowledgedFacts ==
    ASSUME NEW table, IsTable(table), NEW d \in Devices, NEW i \in Ids,
           NEW new, new = Acknowledged(table, d, i)
    PROVE  /\ IsTable(new) /\ DOMAIN new = DOMAIN table
           /\ \A id \in DOMAIN table :
                /\ SameCommand(table[id], new[id])
                /\ new[id].expired = table[id].expired
                /\ table[id].retained => new[id].retained
                /\ new[id].completed <=> table[id].completed \/ (id = i /\ table[id].device = d)
           /\ new # table => i \in DOMAIN table /\ table[i].device = d
<1>1. CASE ~(i \in DOMAIN table /\ table[i].device = d /\ ~table[i].completed)
  <2>1. new = table
    BY <1>1 DEF Acknowledged
  <2>2. \A id \in DOMAIN table : table[id] \in Row
    BY DEF IsTable
  <2>3. QED
    BY <1>1, <2>1, <2>2 DEF SameCommand, Row
<1>2. CASE i \in DOMAIN table /\ table[i].device = d /\ ~table[i].completed
  <2>1. new = [table EXCEPT ![i] = [@ EXCEPT !.completed = TRUE, !.retained = TRUE]]
    BY <1>2 DEF Acknowledged
  <2>2. /\ DOMAIN new = DOMAIN table
        /\ \A id \in DOMAIN table : id # i => new[id] = table[id]
        /\ new[i] = [table[i] EXCEPT !.completed = TRUE, !.retained = TRUE]
    BY <1>2, <2>1
  <2>3. \A id \in DOMAIN table : table[id] \in Row
    BY DEF IsTable
  <2>4. /\ new[i] \in Row /\ SameCommand(table[i], new[i])
        /\ new[i].expired = table[i].expired /\ new[i].retained /\ new[i].completed
    BY <1>2, <2>2, <2>3 DEF Row, SameCommand
  <2>5. IsTable(new)
    BY <2>2, <2>3, <2>4, SameIdsTable
  <2>6. \A id \in DOMAIN table : id # i =>
            /\ SameCommand(table[id], new[id])
            /\ new[id].expired = table[id].expired
            /\ new[id].retained = table[id].retained
            /\ new[id].completed = table[id].completed
    BY <2>2 DEF SameCommand
  <2>7. QED
    BY <1>2, <2>2, <2>4, <2>5, <2>6
<1>3. QED
  BY <1>1, <1>2

\* Time ends periods; it neither opens a row nor changes whose it is.
LEMMA AgedFacts ==
    ASSUME NEW table, IsTable(table), NEW i \in DOMAIN table, NEW event \in AgeEvents,
           NEW new, new = AgedRow(table, i, event)
    PROVE  /\ IsTable(new) /\ DOMAIN new = DOMAIN table
           /\ \A id \in DOMAIN table :
                /\ SameCommand(table[id], new[id])
                /\ table[id].expired => new[id].expired
                /\ new[id].completed = table[id].completed
                /\ event # "retention" => new[id].retained = table[id].retained
<1>1. /\ DOMAIN new = DOMAIN table
      /\ \A id \in DOMAIN table : id # i => new[id] = table[id]
      /\ new[i] = Aged(table[i], event)
  BY DEF AgedRow
<1>2. \A id \in DOMAIN table : table[id] \in Row
  BY DEF IsTable
<1> DEFINE row == table[i]
<1>3. row \in Row
  BY <1>2
<1> HIDE DEF row
<1>4. /\ Aged(row, event) \in Row
      /\ SameCommand(row, Aged(row, event))
      /\ row.expired => Aged(row, event).expired
      /\ Aged(row, event).completed = row.completed
      /\ event # "retention" => Aged(row, event).retained = row.retained
  <2>1. CASE event = "redelivery"
    BY <1>3, <2>1 DEF Aged, Row, SameCommand
  <2>2. CASE event = "expiry"
    BY <1>3, <2>2 DEF Aged, Row, SameCommand
  <2>3. CASE event = "retention"
    <3>1. Aged(row, event) = [row EXCEPT !.retained = row.retained /\ Pending(row)]
      BY <2>3 DEF Aged
    <3>2. (row.retained /\ Pending(row)) \in BOOLEAN
      OBVIOUS
    <3>3. QED
      BY <1>3, <2>3, <3>1, <3>2 DEF Row, SameCommand
  <2>4. QED
    BY <2>1, <2>2, <2>3 DEF AgeEvents
<1>5. IsTable(new)
  BY <1>1, <1>2, <1>4, SameIdsTable DEF row
<1>6. QED
  BY <1>1, <1>4, <1>5 DEF row, SameCommand

\* The retention job only deletes, and only rows whose period has passed.
LEMMA CleanedFacts ==
    ASSUME NEW table, IsTable(table), NEW new, new = Cleaned(table)
    PROVE  /\ IsTable(new) /\ DOMAIN new \subseteq DOMAIN table
           /\ \A id \in DOMAIN new : new[id] = table[id]
           /\ \A id \in DOMAIN table : table[id].retained => id \in DOMAIN new
<1>1. /\ DOMAIN new = {i \in DOMAIN table : table[i].retained}
      /\ \A id \in DOMAIN new : new[id] = table[id]
  BY DEF Cleaned
<1>2. IsFiniteSet(DOMAIN new)
  BY <1>1, FS_Subset DEF IsTable
<1>3. QED
  BY <1>1, <1>2 DEF IsTable

-----------------------------------------------------------------------------
(* Types.                                                                  *)

\* Commands on their way stem from rows that were inserted.
Underway(d) == reply[d] \cup inbox[d] \cup ui[d].todo

Stemming ==
    /\ \A id \in DOMAIN rows : rows[id].birth \in 1 .. born
    /\ executed \subseteq 1 .. born
    /\ \A d \in Devices : \A c \in Underway(d) : c.birth \in 1 .. born
    /\ \A d \in Devices : ui[d].step \in {"record", "confirm"} => ui[d].current \in ui[d].todo

TypeInv == TypeOK /\ Stemming

\* The members of UiState, and their components.
LEMMA UiStateFacts ==
    /\ \A u \in UiState : /\ u.step \in {"idle", "each", "record", "confirm"}
                          /\ u.todo \in SUBSET Command /\ u.acks \in SUBSET Ids
                          /\ u.current \in Command \cup {NoCommand}
    /\ \A s \in {"idle", "each", "record", "confirm"}, t \in SUBSET Command, a \in SUBSET Ids,
          c \in Command \cup {NoCommand} :
            [step |-> s, todo |-> t, acks |-> a, current |-> c] \in UiState
BY DEF UiState

LEMMA UiUpdates ==
    ASSUME NEW u \in UiState, NEW c \in Command, NEW v,
           \/ v = [u EXCEPT !.step = "confirm", !.current = c]
           \/ v = [u EXCEPT !.todo = u.todo \ {c}]
           \/ v = [u EXCEPT !.step = "record", !.current = c, !.acks = u.acks \cup {c.id}]
           \/ v = [u EXCEPT !.step = "confirm"]
    PROVE  v \in UiState
<1>1. c.id \in Ids
  BY DEF Command
<1>2. CASE v = [u EXCEPT !.step = "confirm", !.current = c]
  BY <1>2 DEF UiState
<1>3. CASE v = [u EXCEPT !.todo = u.todo \ {c}]
  BY <1>3 DEF UiState
<1>4. CASE v = [u EXCEPT !.step = "record", !.current = c, !.acks = u.acks \cup {c.id}]
  BY <1>1, <1>4 DEF UiState
<1>5. CASE v = [u EXCEPT !.step = "confirm"]
  BY <1>5 DEF UiState
<1>6. QED
  BY <1>2, <1>3, <1>4, <1>5

\* A claimed command names the row it was read from.
LEMMA CommandType ==
    ASSUME NEW i \in Ids, NEW b \in Nat
    PROVE  /\ [id |-> i, birth |-> b] \in Command
           /\ [id |-> i, birth |-> b].id = i /\ [id |-> i, birth |-> b].birth = b
BY DEF Command

LEMMA CommandFacts ==
    /\ \A c \in Command : c.id \in Ids /\ c.birth \in Nat /\ c # NoCommand
    /\ NoCommand \notin Command
BY DEF Command, NoCommand, Ids

LEMMA TypeInvKept == Spec => []TypeInv
<1> USE DeliveryAssumption
<1>1. Init => TypeInv
  <2> SUFFICES ASSUME Init PROVE TypeInv
    OBVIOUS
  <2>1. IsTable(rows) /\ DOMAIN rows = {}
    BY FS_EmptySet DEF Init, IsTable, NoRows
  <2>2. IdleUi \in UiState /\ IdleUi.step = "idle" /\ IdleUi.todo = {}
    BY UiStateFacts DEF IdleUi
  <2>3. ui \in [Devices -> UiState] /\ \A d \in Devices : ui[d].step = "idle" /\ ui[d].todo = {}
    BY <2>2 DEF Init
  <2>4. TypeOK
    BY <2>1, <2>3 DEF Init, TypeOK
  <2>5. \A d \in Devices : Underway(d) = {}
    BY <2>3 DEF Init, Underway
  <2>6. QED
    BY <2>1, <2>3, <2>4, <2>5 DEF Init, TypeInv, Stemming
<1>2. TypeInv /\ [Next]_vars => TypeInv'
  <2> SUFFICES ASSUME TypeInv, [Next]_vars PROVE TypeInv'
    OBVIOUS
  <2> USE DEF TypeInv
  <2>0. IsTable(rows) /\ \A id \in DOMAIN rows : id \in Ids /\ rows[id] \in Row /\ rows[id].birth \in Nat
    BY DEF TypeOK, IsTable, Row
  <2>1. ASSUME NEW d \in Devices, NEW p \in Payloads, Enqueue(d, p) PROVE TypeInv'
    <3>1. born + 1 \in Nat /\ born \in Nat /\ born + 1 <= MaxBorn
      BY <2>1 DEF TypeOK, Enqueue
    <3>2. CASE rows' = rows
      <4>1. UNCHANGED <<rows, born>>
        BY <2>1, <3>2 DEF Enqueue
      <4>2. QED
        BY <2>1, <4>1 DEF Enqueue, TypeOK, Stemming, Underway, wireVars, panelVars, ghostVars
    <3>3. CASE rows' # rows
      <4>1. born' = born + 1
        BY <2>1, <3>3 DEF Enqueue
      <4>2. /\ IsTable(rows') /\ DOMAIN rows' = DOMAIN rows \cup {NewId(rows)}
            /\ rows'[NewId(rows)] = NewRow(d, p, born + 1)
            /\ \A id \in DOMAIN rows : rows'[id] = rows[id]
        <5> DEFINE new == rows'
                   n == born + 1
        <5>1. new = Inserted(rows, d, p, n) /\ new # rows /\ n \in Nat
          BY <2>1, <3>1, <3>3 DEF Enqueue
        <5> HIDE DEF new, n
        <5>2. /\ IsTable(new) /\ DOMAIN new = DOMAIN rows \cup {NewId(rows)}
              /\ new[NewId(rows)] = NewRow(d, p, n)
              /\ \A id \in DOMAIN rows : new[id] = rows[id]
          BY <2>0, <5>1, InsertedFacts
        <5>3. QED
          BY <5>2 DEF new, n
      <4>3. NewRow(d, p, born + 1).birth = born + 1
        BY <3>1, NewRowType
      <4>4. \A id \in DOMAIN rows' : rows'[id].birth \in 1 .. born'
        BY <3>1, <4>1, <4>2, <4>3 DEF Stemming
      <4>5. \A e \in Devices : Underway(e)' = Underway(e)
        BY <2>1 DEF Enqueue, Underway, wireVars, panelVars
      <4>6. \A n \in 1 .. born : n \in 1 .. born'
        BY <3>1, <4>1
      <4>7. Stemming'
        BY <2>1, <4>4, <4>5, <4>6 DEF Stemming, Enqueue, wireVars, panelVars, ghostVars
      <4>8. TypeOK'
        BY <2>1, <3>1, <4>1, <4>2 DEF Enqueue, TypeOK, wireVars, panelVars, ghostVars
      <4>9. QED
        BY <4>7, <4>8
    <3>4. QED
      BY <3>2, <3>3
  <2>2. ASSUME NEW d \in Devices, Claim(d) PROVE TypeInv'
    <3> DEFINE claimed == {[id |-> id, birth |-> rows[id].birth] : id \in Claimable(rows, d)}
    <3>1. Claimable(rows, d) \subseteq DOMAIN rows
      BY DEF Claimable, Deliverable
    <3>2. claimed \in SUBSET Command /\ \A c \in claimed : c.birth \in 1 .. born
      BY <2>0, <3>1, CommandType DEF Stemming
    <3>3. reply' = [reply EXCEPT ![d] = claimed]
      BY <2>2 DEF Claim
    <3> HIDE DEF claimed
    <3>4. /\ IsTable(rows') /\ DOMAIN rows' = DOMAIN rows
          /\ \A id \in DOMAIN rows : SameCommand(rows[id], rows'[id])
      BY <2>0, <2>2, ClaimedFacts DEF Claim
    <3>5. reply' \in [Devices -> SUBSET Command]
      BY <3>2, <3>3 DEF TypeOK
    <3>6. \A e \in Devices : Underway(e)' \subseteq Underway(e) \cup claimed
      BY <2>2, <3>3 DEF Claim, Underway, panelVars, TypeOK
    <3>7. Stemming'
      BY <2>2, <3>2, <3>4, <3>6 DEF Stemming, Claim, SameCommand, panelVars, ghostVars
    <3>8. TypeOK'
      BY <2>2, <3>4, <3>5 DEF Claim, TypeOK, panelVars, ghostVars
    <3>9. QED
      BY <3>7, <3>8
  <2>3. ASSUME NEW m \in acks, ApplyAck(m) PROVE TypeInv'
    <3>1. m.device \in Devices /\ m.id \in Ids
      BY DEF TypeOK
    <3>2. /\ IsTable(rows') /\ DOMAIN rows' = DOMAIN rows
          /\ \A id \in DOMAIN rows : SameCommand(rows[id], rows'[id])
          /\ rows' # rows => m.id \in DOMAIN rows
      BY <2>0, <2>3, <3>1, AcknowledgedFacts DEF ApplyAck
    <3>3. completed' \subseteq 1 .. MaxBorn
      <4>1. \A id \in DOMAIN rows : rows[id].birth \in 1 .. MaxBorn
        BY DEF Stemming, TypeOK
      <4>2. QED
        BY <2>3, <3>2, <4>1 DEF ApplyAck, TypeOK
    <3>4. answered' \in [Devices -> BOOLEAN]
      <4>1. answered[m.device] \in BOOLEAN
        BY <3>1 DEF TypeOK
      <4>2. QED
        BY <2>3, <4>1 DEF ApplyAck, TypeOK
    <3>5. Stemming'
      BY <2>3, <3>2 DEF Stemming, ApplyAck, SameCommand, Underway, panelVars, ghostVars
    <3>6. TypeOK'
      BY <2>3, <3>2, <3>3, <3>4 DEF ApplyAck, TypeOK, panelVars, ghostVars
    <3>7. QED
      BY <3>5, <3>6
  <2>4. ASSUME NEW m \in acks, LoseAck(m) PROVE TypeInv'
    BY <2>4 DEF LoseAck, TypeOK, Stemming, Underway, cloudVars, panelVars, ghostVars
  <2>5. ASSUME NEW id \in DOMAIN rows, NEW event \in AgeEvents, Age(id, event) PROVE TypeInv'
    <3>1. /\ IsTable(rows') /\ DOMAIN rows' = DOMAIN rows
          /\ \A i \in DOMAIN rows : SameCommand(rows[i], rows'[i])
      BY <2>0, <2>5, AgedFacts DEF Age
    <3>2. Stemming'
      BY <2>5, <3>1 DEF Stemming, Age, SameCommand, Underway, wireVars, panelVars, ghostVars
    <3>3. TypeOK'
      BY <2>5, <3>1 DEF Age, TypeOK, wireVars, panelVars, ghostVars
    <3>4. QED
      BY <3>2, <3>3
  <2>6. CASE Cleanup
    <3>1. /\ IsTable(rows') /\ DOMAIN rows' \subseteq DOMAIN rows
          /\ \A i \in DOMAIN rows' : rows'[i] = rows[i]
      BY <2>0, <2>6, CleanedFacts DEF Cleanup
    <3>2. Stemming'
      BY <2>6, <3>1 DEF Stemming, Cleanup, Underway, wireVars, panelVars, ghostVars
    <3>3. TypeOK'
      BY <2>6, <3>1 DEF Cleanup, TypeOK, wireVars, panelVars, ghostVars
    <3>4. QED
      BY <3>2, <3>3
  <2>7. ASSUME NEW d \in Devices, LoseReply(d) PROVE TypeInv'
    <3>1. \A e \in Devices : Underway(e)' \subseteq Underway(e)
      BY <2>7 DEF LoseReply, Underway, panelVars, TypeOK
    <3>2. Stemming'
      BY <2>7, <3>1 DEF LoseReply, Stemming, cloudVars, panelVars, ghostVars
    <3>3. TypeOK'
      BY <2>7 DEF LoseReply, TypeOK, cloudVars, panelVars, ghostVars
    <3>4. QED
      BY <3>2, <3>3
  <2>8. ASSUME NEW d \in Devices, WriteInbox(d) PROVE TypeInv'
    <3>1. \A e \in Devices : Underway(e)' \subseteq Underway(e)
      BY <2>8 DEF WriteInbox, Underway, TypeOK
    <3>2. Stemming'
      BY <2>8, <3>1 DEF WriteInbox, Stemming, cloudVars, ghostVars
    <3>3. TypeOK'
      BY <2>8 DEF WriteInbox, TypeOK, cloudVars, ghostVars
    <3>4. QED
      BY <3>2, <3>3
  <2>9. ASSUME NEW d \in Devices, UiStep(d) PROVE TypeInv'
    <3>0. ui[d] \in UiState /\ UNCHANGED <<rows, born>>
      BY <2>9 DEF UiStep, BeginProcessing, RetryAck, Defer, Execute, Record, Confirm,
                  FinishProcessing, TypeOK, cloudVars
    <3>1. ASSUME NEW u \in UiState, ui' = [ui EXCEPT ![d] = u],
                 u.todo \subseteq ui[d].todo \cup inbox[d],
                 u.step \in {"record", "confirm"} => u.current \in u.todo,
                 executed' \subseteq executed \cup {c.birth : c \in ui[d].todo},
                 reply' = reply,
                 inbox' = inbox \/ inbox' = [inbox EXCEPT ![d] = {}]
          PROVE  Stemming' /\ ui' \in [Devices -> UiState]
                 /\ \A e \in Devices :
                        ui'[e].step \in {"record", "confirm"} => ui'[e].current # NoCommand
      <4>1. ui' \in [Devices -> UiState]
        BY <3>1 DEF TypeOK
      <4>2. \A e \in Devices : Underway(e)' \subseteq Underway(e)
        BY <3>1, <4>1 DEF Underway, TypeOK
      <4>3. \A e \in Devices :
                ui'[e].step \in {"record", "confirm"} => ui'[e].current \in ui'[e].todo
        BY <3>1, <4>1 DEF TypeOK, Stemming
      <4>4. executed' \subseteq 1 .. born
        BY <3>1 DEF Stemming, Underway
      <4>5. Stemming'
        BY <3>0, <4>2, <4>3, <4>4 DEF Stemming
      <4>6. \A e \in Devices : ui'[e].todo \in SUBSET Command
        BY <4>1, UiStateFacts
      <4>7. QED
        BY <4>1, <4>3, <4>5, <4>6, CommandFacts
    <3>2. CASE BeginProcessing(d)
      <4>1. CASE inbox[d] = {}
        BY <3>0, <3>2, <4>1 DEF BeginProcessing, TypeOK, Stemming, Underway, cloudVars, wireVars, ghostVars
      <4>2. CASE inbox[d] # {}
        <5> DEFINE u == [step |-> "each", todo |-> inbox[d], acks |-> ackFile[d], current |-> NoCommand]
        <5>1. u \in UiState /\ u.step = "each" /\ u.todo = inbox[d]
          BY UiStateFacts DEF TypeOK
        <5>2. ui' = [ui EXCEPT ![d] = u]
          BY <3>2, <4>2 DEF BeginProcessing
        <5> HIDE DEF u
        <5>3. Stemming' /\ ui' \in [Devices -> UiState]
              /\ \A e \in Devices : ui'[e].step \in {"record", "confirm"} => ui'[e].current # NoCommand
          BY <3>1, <3>2, <5>1, <5>2 DEF BeginProcessing, wireVars, ghostVars
        <5>4. TypeOK'
          BY <3>0, <3>2, <5>3 DEF BeginProcessing, TypeOK, cloudVars, wireVars, ghostVars
        <5>5. QED
          BY <5>3, <5>4
      <4>3. QED
        BY <4>1, <4>2
    <3>3. ASSUME NEW c \in ui[d].todo, RetryAck(d, c) PROVE TypeInv'
      <4>0. c \in Command
        BY <3>0, UiStateFacts
      <4> DEFINE u == [ui[d] EXCEPT !.step = "confirm", !.current = c]
      <4>1. u \in UiState
        BY <3>0, <4>0, UiUpdates
      <4>1a. u.todo = ui[d].todo /\ u.current = c
        BY <3>0, <4>0 DEF UiState
      <4>2. ui' = [ui EXCEPT ![d] = u]
        BY <3>3 DEF RetryAck
      <4> HIDE DEF u
      <4>3. Stemming' /\ ui' \in [Devices -> UiState]
            /\ \A e \in Devices : ui'[e].step \in {"record", "confirm"} => ui'[e].current # NoCommand
        BY <3>1, <3>3, <4>1, <4>1a, <4>2 DEF RetryAck, ghostVars
      <4>4. c.id \in Ids
        BY <4>0, CommandFacts
      <4>5. TypeOK'
        BY <3>0, <3>3, <4>3, <4>4 DEF RetryAck, TypeOK, cloudVars, ghostVars
      <4>6. QED
        BY <4>3, <4>5
    <3>4. ASSUME NEW c \in ui[d].todo, Defer(d, c) PROVE TypeInv'
      <4>0. c \in Command /\ ui[d].step = "each"
        BY <3>0, <3>4, UiStateFacts DEF Defer, AtCommand
      <4> DEFINE u == [ui[d] EXCEPT !.todo = ui[d].todo \ {c}]
      <4>1. u \in UiState
        BY <3>0, <4>0, UiUpdates
      <4>1a. u.todo = ui[d].todo \ {c} /\ u.step = "each"
        BY <3>0, <4>0 DEF UiState
      <4>2. ui' = [ui EXCEPT ![d] = u]
        BY <3>4 DEF Defer
      <4> HIDE DEF u
      <4>3. Stemming' /\ ui' \in [Devices -> UiState]
            /\ \A e \in Devices : ui'[e].step \in {"record", "confirm"} => ui'[e].current # NoCommand
        BY <3>1, <3>4, <4>1, <4>1a, <4>2 DEF Defer, wireVars, ghostVars
      <4>4. TypeOK'
        BY <3>0, <3>4, <4>3 DEF Defer, TypeOK, cloudVars, wireVars, ghostVars
      <4>5. QED
        BY <4>3, <4>4
    <3>5. ASSUME NEW c \in ui[d].todo, Execute(d, c) PROVE TypeInv'
      <4>0. c \in Command /\ c.id \in Ids
        BY <3>0, UiStateFacts, CommandFacts
      <4> DEFINE u == [ui[d] EXCEPT !.step = "record", !.current = c, !.acks = ui[d].acks \cup {c.id}]
      <4>1. u \in UiState
        BY <3>0, <4>0, UiUpdates
      <4>1a. u.todo = ui[d].todo /\ u.current = c
        BY <3>0, <4>0 DEF UiState
      <4>2. ui' = [ui EXCEPT ![d] = u]
        BY <3>5 DEF Execute
      <4> HIDE DEF u
      <4>3. executed' \subseteq executed \cup {b.birth : b \in ui[d].todo} /\ executed \subseteq executed'
        BY <3>5 DEF Execute
      <4>4. Stemming' /\ ui' \in [Devices -> UiState]
            /\ \A e \in Devices : ui'[e].step \in {"record", "confirm"} => ui'[e].current # NoCommand
        BY <3>1, <3>5, <4>1, <4>1a, <4>2, <4>3 DEF Execute, wireVars
      <4>5. executed' \subseteq 1 .. MaxBorn
        BY <3>0, <4>4 DEF Stemming, TypeOK
      <4>6. TypeOK'
        BY <3>0, <3>5, <4>3, <4>4, <4>5 DEF Execute, TypeOK, cloudVars, wireVars
      <4>7. QED
        BY <4>4, <4>6
    <3>6. ASSUME NEW saved \in SaveResults, Record(d, saved) PROVE TypeInv'
      <4>0. /\ ui[d].step = "record" /\ ui[d].current \in ui[d].todo
            /\ ui[d].current \in Command /\ ui[d].current.id \in Ids /\ ui[d].acks \in SUBSET Ids
        BY <3>0, <3>6, UiStateFacts, CommandFacts DEF Record, Stemming
      <4> DEFINE u == [ui[d] EXCEPT !.step = "confirm"]
      <4>1. u \in UiState
        BY <3>0, <4>0, UiUpdates
      <4>1a. u.todo = ui[d].todo /\ u.current = ui[d].current
        BY <3>0, <4>0 DEF UiState
      <4>2. ui' = [ui EXCEPT ![d] = u]
        BY <3>6 DEF Record
      <4> HIDE DEF u
      <4>3. Stemming' /\ ui' \in [Devices -> UiState]
            /\ \A e \in Devices : ui'[e].step \in {"record", "confirm"} => ui'[e].current # NoCommand
        BY <3>1, <3>6, <4>0, <4>1, <4>1a, <4>2 DEF Record
      <4>4. ackFile' \in [Devices -> SUBSET Ids] /\ recorded' \subseteq executed
        BY <3>6, <4>0 DEF Record, TypeOK
      <4>5. TypeOK'
        BY <3>0, <3>6, <4>0, <4>3, <4>4 DEF Record, TypeOK, cloudVars
      <4>6. QED
        BY <4>3, <4>5
    <3>7. ASSUME NEW confirmed \in BOOLEAN, NEW saved \in SaveResults, Confirm(d, confirmed, saved)
          PROVE TypeInv'
      <4> DEFINE left == AcksAfter(ui[d].acks, ui[d].current.id, confirmed)
                 u == [step |-> "each", todo |-> ui[d].todo \ {ui[d].current},
                       acks |-> left, current |-> NoCommand]
      <4>0. /\ ui[d].current \in ui[d].todo /\ ui[d].todo \in SUBSET Command
            /\ ui[d].current.birth \in 1 .. born /\ left \in SUBSET Ids
        BY <3>0, <3>7, UiStateFacts DEF Confirm, Stemming, Underway, AcksAfter
      <4>1. ui' = [ui EXCEPT ![d] = u]
        BY <3>7 DEF Confirm
      <4>2. ackFile' = ackFile \/ ackFile' = [ackFile EXCEPT ![d] = left]
        BY <3>7 DEF Confirm
      <4> HIDE DEF left
      <4>3. u \in UiState /\ u.todo \subseteq ui[d].todo /\ u.step = "each"
        BY <4>0, UiStateFacts
      <4> HIDE DEF u
      <4>4. Stemming' /\ ui' \in [Devices -> UiState]
            /\ \A e \in Devices : ui'[e].step \in {"record", "confirm"} => ui'[e].current # NoCommand
        BY <3>1, <3>7, <4>1, <4>3 DEF Confirm
      <4>5. ackFile' \in [Devices -> SUBSET Ids]
        BY <4>0, <4>2 DEF TypeOK
      <4>6. TypeOK'
        BY <3>0, <3>7, <4>4, <4>5 DEF Confirm, TypeOK, cloudVars
      <4>7. QED
        BY <4>4, <4>6
    <3>8. CASE FinishProcessing(d)
      <4>1. IdleUi \in UiState /\ IdleUi.step = "idle" /\ IdleUi.todo = {}
        BY UiStateFacts DEF IdleUi
      <4>2. Stemming' /\ ui' \in [Devices -> UiState]
            /\ \A e \in Devices : ui'[e].step \in {"record", "confirm"} => ui'[e].current # NoCommand
        BY <3>1, <3>8, <4>1 DEF FinishProcessing, wireVars, ghostVars
      <4>3. TypeOK'
        BY <3>0, <3>8, <4>2 DEF FinishProcessing, TypeOK, cloudVars, wireVars, ghostVars
      <4>4. QED
        BY <4>2, <4>3
    <3>9. QED
      BY <2>9, <3>2, <3>3, <3>4, <3>5, <3>6, <3>7, <3>8 DEF UiStep
  <2>10. ASSUME NEW d \in Devices, EndUpdate(d) PROVE TypeInv'
    BY <2>10 DEF EndUpdate, TypeOK, Stemming, Underway, cloudVars, wireVars, ghostVars
  <2>11. ASSUME NEW d \in Devices, Restart(d) PROVE TypeInv'
    <3>1. IdleUi \in UiState /\ IdleUi.step = "idle" /\ IdleUi.todo = {}
      BY UiStateFacts DEF IdleUi
    <3>2. /\ ui' \in [Devices -> UiState]
          /\ \A e \in Devices : ui'[e] = ui[e] \/ ui'[e] = IdleUi
          /\ \A e \in Devices : reply'[e] = reply[e] \/ reply'[e] = {}
      BY <2>11, <3>1 DEF Restart, TypeOK
    <3>3. \A e \in Devices : Underway(e)' \subseteq Underway(e)
      BY <2>11, <3>1, <3>2 DEF Restart, Underway
    <3>4. Stemming'
      BY <2>11, <3>1, <3>2, <3>3 DEF Restart, Stemming, cloudVars, ghostVars
    <3>5. TypeOK'
      BY <2>11, <3>1, <3>2 DEF Restart, TypeOK, cloudVars, ghostVars
    <3>6. QED
      BY <3>4, <3>5
  <2>12. CASE UNCHANGED vars
    BY <2>12 DEF TypeOK, Stemming, Underway, vars, cloudVars, wireVars, panelVars, ghostVars
  <2>13. QED
    BY <2>1, <2>2, <2>3, <2>4, <2>5, <2>6, <2>7, <2>8, <2>9, <2>10, <2>11, <2>12 DEF Next, CloudStep
<1>3. QED
  BY <1>1, <1>2, PTL DEF Spec

\* The table, the messages, the files and the handlers keep their types.
THEOREM TypeCorrect == Spec => []TypeOK
BY TypeInvKept, PTL DEF TypeInv

-----------------------------------------------------------------------------
(* What a step does to the rows.                                           *)

\* A row is added that nothing open equals, or rows are changed and deleted
\* without any being opened.
Added(d, p) ==
    /\ PendingFor(rows, d, p) = {}
    /\ NewId(rows) \in Ids \ DOMAIN rows
    /\ DOMAIN rows' = DOMAIN rows \cup {NewId(rows)}
    /\ rows'[NewId(rows)] = NewRow(d, p, born + 1)
    /\ \A id \in DOMAIN rows : rows'[id] = rows[id]
    /\ completed' = completed

Changed ==
    /\ DOMAIN rows' \subseteq DOMAIN rows
    /\ \A id \in DOMAIN rows' : /\ SameCommand(rows[id], rows'[id])
                                /\ Pending(rows'[id]) => Pending(rows[id])
                                /\ rows[id].completed => rows'[id].completed
                                /\ rows'[id].completed =>
                                      rows[id].completed \/ rows[id].birth \in completed'
    /\ completed \subseteq completed'

\* Without retention periods that end, rows stay.
Stays ==
    (~RetentionEnds /\ \A id \in DOMAIN rows : rows[id].retained) =>
        DOMAIN rows \subseteq DOMAIN rows' /\ \A id \in DOMAIN rows : rows'[id].retained

LEMMA RowsStep ==
    ASSUME TypeInv, [Next]_vars
    PROVE  (\E d \in Devices, p \in Payloads : Added(d, p)) \/ (Changed /\ Stays)
<1> USE DEF TypeInv
<1>0. IsTable(rows) /\ \A id \in DOMAIN rows : id \in Ids /\ rows[id] \in Row
  BY DEF TypeOK, IsTable
<1>1. ASSUME NEW d \in Devices, NEW p \in Payloads, Enqueue(d, p), rows' # rows PROVE Added(d, p)
  <2> DEFINE new == rows'
             n == born + 1
  <2>1. new = Inserted(rows, d, p, n) /\ new # rows /\ n \in Nat
    BY <1>1 DEF Enqueue, TypeOK
  <2> HIDE DEF new, n
  <2>2. /\ PendingFor(rows, d, p) = {} /\ NewId(rows) \in Ids \ DOMAIN rows
        /\ DOMAIN new = DOMAIN rows \cup {NewId(rows)} /\ new[NewId(rows)] = NewRow(d, p, n)
        /\ \A id \in DOMAIN rows : new[id] = rows[id]
    BY <1>0, <2>1, InsertedFacts
  <2>3. QED
    BY <1>1, <2>2 DEF new, n, Added, Enqueue
<1>2. CASE rows' = rows /\ completed' = completed
  BY <1>0, <1>2 DEF Changed, Stays, SameCommand
<1>3. ASSUME NEW d \in Devices, Claim(d) PROVE Changed /\ Stays
  <2>1. /\ DOMAIN rows' = DOMAIN rows
        /\ \A id \in DOMAIN rows :
              /\ SameCommand(rows[id], rows'[id]) /\ rows'[id].expired = rows[id].expired
              /\ rows'[id].completed = rows[id].completed
              /\ rows'[id].retained = rows[id].retained
    BY <1>0, <1>3, ClaimedFacts DEF Claim
  <2>2. QED
    BY <1>3, <2>1 DEF Changed, Stays, Pending, Claim
<1>4. ASSUME NEW m \in acks, ApplyAck(m) PROVE Changed /\ Stays
  <2>1. m.device \in Devices /\ m.id \in Ids
    BY DEF TypeOK
  <2>2. /\ DOMAIN rows' = DOMAIN rows
        /\ \A id \in DOMAIN rows :
              /\ SameCommand(rows[id], rows'[id]) /\ rows'[id].expired = rows[id].expired
              /\ rows[id].retained => rows'[id].retained
              /\ rows'[id].completed <=>
                    rows[id].completed \/ (id = m.id /\ rows[id].device = m.device)
    BY <1>0, <1>4, <2>1, AcknowledgedFacts DEF ApplyAck
  <2>3. \A id \in DOMAIN rows : rows'[id].completed =>
            rows[id].completed \/ rows[id].birth \in completed'
    BY <1>4, <2>2 DEF ApplyAck
  <2>4. completed \subseteq completed'
    BY <1>4 DEF ApplyAck
  <2>5. QED
    BY <2>2, <2>3, <2>4 DEF Changed, Stays, Pending
<1>5. ASSUME NEW id \in DOMAIN rows, NEW event \in AgeEvents, Age(id, event) PROVE Changed /\ Stays
  <2>1. /\ DOMAIN rows' = DOMAIN rows
        /\ \A i \in DOMAIN rows :
              /\ SameCommand(rows[i], rows'[i])
              /\ rows[i].expired => rows'[i].expired
              /\ rows'[i].completed = rows[i].completed
              /\ event # "retention" => rows'[i].retained = rows[i].retained
    BY <1>0, <1>5, AgedFacts DEF Age
  <2>2. event = "retention" => RetentionEnds
    BY <1>5 DEF Age
  <2>3. \A i \in DOMAIN rows : SameCommand(rows[i], rows'[i])
    BY <2>1
  <2>4. \A i \in DOMAIN rows : Pending(rows'[i]) => Pending(rows[i])
    BY <2>1 DEF Pending
  <2>5. QED
    BY <1>5, <2>1, <2>2, <2>3, <2>4 DEF Changed, Stays, Age
<1>6. CASE Cleanup
  <2>1. /\ DOMAIN rows' \subseteq DOMAIN rows
        /\ \A id \in DOMAIN rows' : rows'[id] = rows[id]
        /\ \A id \in DOMAIN rows : rows[id].retained => id \in DOMAIN rows'
    BY <1>0, <1>6, CleanedFacts DEF Cleanup
  <2>2. completed' = completed
    BY <1>6 DEF Cleanup
  <2>3. QED
    BY <2>1, <2>2 DEF Changed, Stays, SameCommand
<1>7. ASSUME NEW d \in Devices, UiStep(d) PROVE rows' = rows /\ completed' = completed
  BY <1>7 DEF UiStep, BeginProcessing, RetryAck, Defer, Execute, Record, Confirm,
              FinishProcessing, cloudVars
<1>8. QED
  <2>1. ASSUME NEW d \in Devices, NEW p \in Payloads, Enqueue(d, p), rows' = rows
        PROVE  completed' = completed
    BY <2>1 DEF Enqueue
  <2>2. CASE CloudStep
    <3>1. ASSUME NEW m \in acks, LoseAck(m) PROVE rows' = rows /\ completed' = completed
      BY <3>1 DEF LoseAck, cloudVars
    <3>2. QED
      BY <1>1, <1>2, <1>4, <1>5, <1>6, <2>1, <2>2, <3>1 DEF CloudStep
  <2>3. ASSUME NEW d \in Devices,
               LoseReply(d) \/ WriteInbox(d) \/ EndUpdate(d) \/ Restart(d)
        PROVE  rows' = rows /\ completed' = completed
    BY <2>3 DEF LoseReply, WriteInbox, EndUpdate, Restart, cloudVars
  <2>4. CASE UNCHANGED vars
    BY <1>2, <2>4 DEF vars, cloudVars
  <2>5. QED
    BY <1>2, <1>3, <1>7, <2>2, <2>3, <2>4 DEF Next

\* No device ever has two open rows of the same command, whatever is enqueued by
\* whom, acknowledged, expired or deleted.
THEOREM OnePendingRowKept == Spec => []OnePendingRow
<1>1. Init => OnePendingRow
  BY DEF Init, NoRows, OnePendingRow
<1>2. TypeInv /\ OnePendingRow /\ [Next]_vars => OnePendingRow'
  <2> SUFFICES ASSUME TypeInv, OnePendingRow, [Next]_vars PROVE OnePendingRow'
    OBVIOUS
  <2>1. ASSUME NEW d \in Devices, NEW p \in Payloads, Added(d, p) PROVE OnePendingRow'
    <3> DEFINE fresh == NewId(rows)
    <3>1. born + 1 \in Nat
      BY DEF TypeInv, TypeOK
    <3>2. rows'[fresh].device = d /\ rows'[fresh].payload = p
      BY <2>1, <3>1, NewRowType DEF Added
    <3>3. \A id \in DOMAIN rows :
            rows[id].device = d /\ rows[id].payload = p => ~Pending(rows[id])
      BY <2>1 DEF Added, PendingFor
    <3>4. DOMAIN rows' = DOMAIN rows \cup {fresh} /\ \A id \in DOMAIN rows : rows'[id] = rows[id]
      BY <2>1 DEF Added
    <3> HIDE DEF fresh
    <3>5. QED
      BY <3>2, <3>3, <3>4 DEF OnePendingRow
  <2>2. CASE Changed
    BY <2>2 DEF Changed, OnePendingRow, SameCommand
  <2>3. QED
    BY <2>1, <2>2, RowsStep
<1>3. QED
  BY <1>1, <1>2, TypeInvKept, PTL DEF Spec

-----------------------------------------------------------------------------
(* What is acknowledged was carried out.  As long as no row is deleted, an *)
(* id names the same command for ever.                                     *)

Linked(c, d) ==
    c.id \in DOMAIN rows /\ rows[c.id].birth = c.birth /\ rows[c.id].device = d

CarriedOut(id, d) ==
    id \in DOMAIN rows /\ rows[id].device = d /\ rows[id].birth \in executed

RowsInv ==
    /\ \A id \in DOMAIN rows : rows[id].retained
    /\ \A id, other \in DOMAIN rows : rows[id].birth = rows[other].birth => id = other
    /\ \A id \in DOMAIN rows : rows[id].completed => rows[id].birth \in completed

LinkInv == \A d \in Devices : \A c \in Underway(d) : Linked(c, d)

AckInv ==
    /\ \A d \in Devices : \A id \in ackFile[d] \cup ui[d].acks : CarriedOut(id, d)
    /\ \A d \in Devices :
          ui[d].step \in {"record", "confirm"} => CarriedOut(ui[d].current.id, d)
    /\ \A m \in acks : CarriedOut(m.id, m.device)
    /\ completed \subseteq executed

NamesInv == TypeInv /\ RowsInv /\ LinkInv

LEMMA RowsInvStep ==
    ASSUME ~RetentionEnds, TypeInv, RowsInv, [Next]_vars
    PROVE  /\ RowsInv'
           /\ \A d \in Devices : \A c : Linked(c, d) => Linked(c, d)'
           /\ DOMAIN rows \subseteq DOMAIN rows'
           /\ \A id \in DOMAIN rows : SameCommand(rows[id], rows'[id])
           /\ completed \subseteq completed'
           /\ \A id \in DOMAIN rows' \ DOMAIN rows : rows'[id].birth \notin 1 .. born
<1>1. ASSUME NEW d \in Devices, NEW p \in Payloads, Added(d, p)
      PROVE  /\ RowsInv' /\ DOMAIN rows \subseteq DOMAIN rows'
             /\ \A id \in DOMAIN rows : SameCommand(rows[id], rows'[id])
             /\ completed \subseteq completed'
             /\ \A id \in DOMAIN rows' \ DOMAIN rows : rows'[id].birth \notin 1 .. born
  <2> DEFINE fresh == NewId(rows)
  <2>1. born \in Nat
    BY DEF TypeInv, TypeOK
  <2>2. rows'[fresh].birth = born + 1 /\ rows'[fresh].retained /\ ~rows'[fresh].completed
    BY <1>1, <2>1, NewRowType DEF Added
  <2>3. DOMAIN rows' = DOMAIN rows \cup {fresh} /\ \A id \in DOMAIN rows : rows'[id] = rows[id]
    BY <1>1 DEF Added
  <2>4. completed' = completed
    BY <1>1 DEF Added
  <2> HIDE DEF fresh
  <2>5. \A id \in DOMAIN rows : rows[id].birth \in 1 .. born
    BY DEF TypeInv, Stemming
  <2>6. born + 1 \notin 1 .. born
    BY <2>1
  <2>7. QED
    BY <2>2, <2>3, <2>4, <2>5, <2>6 DEF RowsInv, SameCommand
<1>2. ASSUME Changed, Stays
      PROVE  /\ RowsInv' /\ DOMAIN rows' = DOMAIN rows
             /\ \A id \in DOMAIN rows : SameCommand(rows[id], rows'[id])
             /\ completed \subseteq completed'
  <2>1. DOMAIN rows' = DOMAIN rows /\ \A id \in DOMAIN rows : rows'[id].retained
    BY <1>2 DEF Changed, Stays, RowsInv
  <2>2. QED
    BY <1>2, <2>1 DEF Changed, RowsInv, SameCommand
<1>3. /\ RowsInv' /\ DOMAIN rows \subseteq DOMAIN rows'
      /\ \A id \in DOMAIN rows : SameCommand(rows[id], rows'[id])
      /\ completed \subseteq completed'
      /\ \A id \in DOMAIN rows' \ DOMAIN rows : rows'[id].birth \notin 1 .. born
  BY <1>1, <1>2, RowsStep
<1>4. QED
  BY <1>3 DEF Linked, SameCommand

\* Only a claim puts commands under way.
LEMMA UnderwayStep ==
    ASSUME TypeInv, [Next]_vars, NEW d \in Devices
    PROVE  \/ Underway(d)' \subseteq Underway(d)
           \/ Underway(d)' \subseteq Underway(d)
                \cup {[id |-> id, birth |-> rows[id].birth] : id \in Claimable(rows, d)}
<1> USE DEF TypeInv
<1>1. ASSUME NEW e \in Devices, Claim(e)
      PROVE  \/ Underway(d)' \subseteq Underway(d)
             \/ Underway(d)' \subseteq Underway(d)
                  \cup {[id |-> id, birth |-> rows[id].birth] : id \in Claimable(rows, d)}
  <2> DEFINE claimed == {[id |-> id, birth |-> rows[id].birth] : id \in Claimable(rows, e)}
  <2>1. reply' = [reply EXCEPT ![e] = claimed] /\ inbox' = inbox /\ ui' = ui
    BY <1>1 DEF Claim, panelVars
  <2> HIDE DEF claimed
  <2>2. CASE d = e
    <3>1. Underway(d)' \subseteq Underway(d) \cup claimed
      BY <2>1, <2>2 DEF Underway, TypeOK
    <3>2. QED
      BY <2>2, <3>1 DEF claimed
  <2>3. CASE d # e
    BY <2>1, <2>3 DEF Underway, TypeOK
  <2>4. QED
    BY <2>2, <2>3
<1>2. CASE UNCHANGED <<reply, inbox, ui>>
  BY <1>2 DEF Underway
<1>3. ASSUME NEW e \in Devices, LoseReply(e) \/ WriteInbox(e) \/ EndUpdate(e) \/ Restart(e)
      PROVE  Underway(d)' \subseteq Underway(d)
  <2>1. IdleUi.todo = {}
    BY DEF IdleUi
  <2>2. \/ reply' = reply /\ inbox' = inbox
        \/ reply' = [reply EXCEPT ![e] = {}] /\ inbox' = inbox
        \/ reply' = [reply EXCEPT ![e] = {}] /\ inbox' = [inbox EXCEPT ![e] = reply[e]]
    BY <1>3 DEF LoseReply, WriteInbox, EndUpdate, Restart, wireVars, panelVars
  <2>3. ui' = ui \/ ui' = [ui EXCEPT ![e] = IdleUi]
    BY <1>3 DEF LoseReply, WriteInbox, EndUpdate, Restart, panelVars
  <2> HIDE DEF IdleUi
  <2>4. reply'[d] \cup inbox'[d] \subseteq reply[d] \cup inbox[d]
    BY <2>2 DEF TypeOK
  <2>5. ui'[d].todo \subseteq ui[d].todo
    BY <2>1, <2>3 DEF TypeOK
  <2>6. QED
    BY <2>4, <2>5 DEF Underway
<1>4. ASSUME NEW e \in Devices, UiStep(e)
      PROVE  Underway(d)' \subseteq Underway(d)
  <2>0. ui[e] \in UiState
    BY DEF TypeOK
  <2>1. reply' = reply /\ (inbox' = inbox \/ inbox' = [inbox EXCEPT ![e] = {}])
    BY <1>4 DEF UiStep, BeginProcessing, RetryAck, Defer, Execute, Record, Confirm,
                FinishProcessing, wireVars
  <2>2. \A o \in Devices : ui'[o].todo \subseteq ui[o].todo \cup inbox[o]
    <3>1. CASE BeginProcessing(e)
      BY <3>1 DEF BeginProcessing, TypeOK
    <3>2. ASSUME NEW c \in ui[e].todo, RetryAck(e, c) \/ Defer(e, c) \/ Execute(e, c)
          PROVE  \A o \in Devices : ui'[o].todo \subseteq ui[o].todo \cup inbox[o]
      <4>1. \E v : /\ ui' = [ui EXCEPT ![e] = v]
                   /\ \/ v = [ui[e] EXCEPT !.step = "confirm", !.current = c]
                      \/ v = [ui[e] EXCEPT !.todo = ui[e].todo \ {c}]
                      \/ v = [ui[e] EXCEPT !.step = "record", !.current = c,
                                           !.acks = ui[e].acks \cup {c.id}]
        BY <3>2 DEF RetryAck, Defer, Execute
      <4>2. PICK v : /\ ui' = [ui EXCEPT ![e] = v]
                     /\ \/ v = [ui[e] EXCEPT !.step = "confirm", !.current = c]
                        \/ v = [ui[e] EXCEPT !.todo = ui[e].todo \ {c}]
                        \/ v = [ui[e] EXCEPT !.step = "record", !.current = c,
                                             !.acks = ui[e].acks \cup {c.id}]
        BY <4>1
      <4>3. v.todo \subseteq ui[e].todo
        BY <2>0, <4>2 DEF UiState
      <4>4. QED
        BY <4>2, <4>3 DEF TypeOK
    <3>3. ASSUME NEW saved \in SaveResults, Record(e, saved)
          PROVE  \A o \in Devices : ui'[o].todo \subseteq ui[o].todo \cup inbox[o]
      BY <2>0, <3>3 DEF Record, TypeOK, UiState
    <3>4. ASSUME NEW confirmed \in BOOLEAN, NEW saved \in SaveResults, Confirm(e, confirmed, saved)
          PROVE  \A o \in Devices : ui'[o].todo \subseteq ui[o].todo \cup inbox[o]
      BY <2>0, <3>4 DEF Confirm, TypeOK
    <3>5. CASE FinishProcessing(e)
      BY <3>5 DEF FinishProcessing, TypeOK, IdleUi
    <3>6. QED
      BY <1>4, <3>1, <3>2, <3>3, <3>4, <3>5 DEF UiStep
  <2>3. QED
    BY <2>1, <2>2 DEF Underway, TypeOK
<1>5. CASE CloudStep
  BY <1>2, <1>5 DEF CloudStep, Enqueue, ApplyAck, LoseAck, Age, Cleanup, wireVars, panelVars
<1>6. CASE UNCHANGED vars
  BY <1>2, <1>6 DEF vars, wireVars, panelVars
<1>7. QED
  BY <1>1, <1>3, <1>4, <1>5, <1>6 DEF Next

LEMMA NamesStep ==
    ASSUME ~RetentionEnds, NamesInv, TypeInv', [Next]_vars
    PROVE  NamesInv'
<1>1. RowsInv' /\ \A d \in Devices : \A c : Linked(c, d) => Linked(c, d)'
  BY RowsInvStep DEF NamesInv
<1>2. ASSUME NEW d \in Devices, NEW c \in Underway(d)' PROVE Linked(c, d)'
  <2>1. CASE c \in Underway(d)
    BY <1>1, <2>1 DEF NamesInv, LinkInv
  <2>2. CASE c \notin Underway(d)
    <3>1. PICK i \in Claimable(rows, d) : c = [id |-> i, birth |-> rows[i].birth]
      BY <1>2, <2>2, UnderwayStep DEF NamesInv
    <3>2. i \in DOMAIN rows /\ rows[i].device = d
      BY DEF Claimable, Deliverable
    <3>3. Linked(c, d)
      BY <3>1, <3>2 DEF Linked
    <3>4. QED
      BY <1>1, <3>3
  <2>3. QED
    BY <2>1, <2>2
<1>3. QED
  BY <1>1, <1>2 DEF NamesInv, LinkInv

LEMMA NamesInvKept ==
    ASSUME ~RetentionEnds
    PROVE  Spec => []NamesInv
<1>1. Init => RowsInv /\ LinkInv
  <2> SUFFICES ASSUME Init PROVE RowsInv /\ LinkInv
    OBVIOUS
  <2>1. DOMAIN rows = {}
    BY DEF Init, NoRows
  <2>2. \A d \in Devices : Underway(d) = {}
    BY DEF Init, Underway, IdleUi
  <2>3. QED
    BY <2>1, <2>2 DEF RowsInv, LinkInv
<1>2. TypeInv /\ TypeInv' /\ RowsInv /\ LinkInv /\ [Next]_vars => (RowsInv /\ LinkInv)'
  BY NamesStep DEF NamesInv
<1>3. QED
  BY <1>1, <1>2, TypeInvKept, PTL DEF Spec, NamesInv

\* CarriedOut after the step, of an id and a device before it.
CarriedOutThen(id, d) ==
    id \in DOMAIN rows' /\ rows'[id].device = d /\ rows'[id].birth \in executed'

\* An update check is started before the command's acknowledgement leaves the panel.
LEMMA AckStep ==
    ASSUME ~RetentionEnds, NamesInv, NamesInv', AckInv, [Next]_vars
    PROVE  AckInv'
<1> USE DEF NamesInv, TypeInv
<1>1. executed \subseteq executed'
  BY DEF Next, CloudStep, UiStep, Enqueue, Claim, ApplyAck, LoseAck, Age, Cleanup, LoseReply,
         WriteInbox, BeginProcessing, RetryAck, Defer, Execute, Record, Confirm,
         FinishProcessing, EndUpdate, Restart, ghostVars, vars
<1>2. \A d, i : CarriedOut(i, d) => CarriedOutThen(i, d)
  BY <1>1, RowsInvStep DEF CarriedOut, CarriedOutThen, SameCommand
<1>3. CASE UNCHANGED <<ackFile, ui, acks, completed>>
  BY <1>1, <1>2, <1>3 DEF AckInv, CarriedOut, CarriedOutThen
<1>4. ASSUME NEW m \in acks, ApplyAck(m) PROVE AckInv'
  <2>1. UNCHANGED <<ackFile, ui>> /\ acks' = acks \ {m}
    BY <1>4 DEF ApplyAck, panelVars
  <2>2. completed' \subseteq executed
    <3>1. m.id \in DOMAIN rows /\ rows[m.id].birth \in executed
      BY DEF AckInv, CarriedOut
    <3>2. QED
      BY <1>4, <3>1 DEF ApplyAck, AckInv
  <2>3. QED
    BY <1>1, <1>2, <2>1, <2>2 DEF AckInv, CarriedOut, CarriedOutThen
<1>5. ASSUME NEW m \in acks, LoseAck(m) PROVE AckInv'
  BY <1>1, <1>2, <1>5 DEF LoseAck, AckInv, CarriedOut, CarriedOutThen, panelVars, cloudVars
<1>6. ASSUME NEW d \in Devices, UiStep(d) PROVE AckInv'
  <2>0. ui \in [Devices -> UiState] /\ ackFile \in [Devices -> SUBSET Ids] /\ completed' = completed
    BY <1>6 DEF TypeOK, UiStep, BeginProcessing, RetryAck, Defer, Execute, Record, Confirm,
                FinishProcessing, cloudVars
  <2>1. ASSUME NEW u, ui' = [ui EXCEPT ![d] = u],
               \A i \in u.acks : CarriedOutThen(i, d),
               u.step \in {"record", "confirm"} => CarriedOutThen(u.current.id, d),
               ackFile' = ackFile \/ ackFile' = [ackFile EXCEPT ![d] = u.acks],
               \/ acks' = acks
               \/ acks' = acks \cup {[device |-> d, id |-> u.current.id]}
                  /\ u.step = "confirm"
        PROVE  AckInv'
    <3>1. ui'[d] = u /\ \A e \in Devices : e # d => ui'[e] = ui[e]
      BY <2>0, <2>1
    <3>2. \A e \in Devices : ackFile'[e] = ackFile[e] \/ (e = d /\ ackFile'[e] = u.acks)
      BY <2>0, <2>1
    <3>3. \A e \in Devices : \A i \in ackFile'[e] \cup ui'[e].acks : CarriedOutThen(i, e)
      BY <1>2, <2>1, <3>1, <3>2 DEF AckInv
    <3>4. \A e \in Devices : ui'[e].step \in {"record", "confirm"} => CarriedOutThen(ui'[e].current.id, e)
      BY <1>2, <2>1, <3>1 DEF AckInv
    <3>5. \A m \in acks' : CarriedOutThen(m.id, m.device)
      BY <1>2, <2>1 DEF AckInv
    <3>6. QED
      BY <1>1, <2>0, <3>3, <3>4, <3>5 DEF AckInv, CarriedOut, CarriedOutThen
  <2>2. CASE BeginProcessing(d)
    <3>1. CASE ui' = ui
      BY <1>3, <2>0, <2>2, <3>1 DEF BeginProcessing, wireVars
    <3>2. CASE ui' # ui
      <4> DEFINE u == [step |-> "each", todo |-> inbox[d], acks |-> ackFile[d], current |-> NoCommand]
      <4>1. ui' = [ui EXCEPT ![d] = u]
        BY <2>2, <3>2 DEF BeginProcessing
      <4>2. u.acks = ackFile[d] /\ u.step = "each"
        OBVIOUS
      <4> HIDE DEF u
      <4>3. \A i \in u.acks : CarriedOutThen(i, d)
        BY <1>2, <4>2 DEF AckInv
      <4>4. QED
        BY <2>1, <2>2, <4>1, <4>2, <4>3 DEF BeginProcessing, wireVars
    <3>3. QED
      BY <3>1, <3>2
  <2>3. ASSUME NEW c \in ui[d].todo, RetryAck(d, c) PROVE AckInv'
    <3> DEFINE u == [ui[d] EXCEPT !.step = "confirm", !.current = c]
    <3>1. ui' = [ui EXCEPT ![d] = u]
      BY <2>3 DEF RetryAck
    <3>2. u.acks = ui[d].acks /\ u.current = c /\ u.step = "confirm"
      BY <2>0 DEF UiState
    <3> HIDE DEF u
    <3>3. CarriedOutThen(c.id, d) /\ \A i \in u.acks : CarriedOutThen(i, d)
      BY <1>2, <2>3, <3>2 DEF AckInv, RetryAck
    <3>4. QED
      BY <2>1, <2>3, <3>1, <3>2, <3>3 DEF RetryAck
  <2>4. ASSUME NEW c \in ui[d].todo, Defer(d, c) PROVE AckInv'
    <3> DEFINE u == [ui[d] EXCEPT !.todo = ui[d].todo \ {c}]
    <3>1. ui' = [ui EXCEPT ![d] = u] /\ ui[d].step = "each"
      BY <2>4 DEF Defer, AtCommand
    <3>2. u.acks = ui[d].acks /\ u.step = "each"
      BY <2>0, <3>1 DEF UiState
    <3> HIDE DEF u
    <3>3. \A i \in u.acks : CarriedOutThen(i, d)
      BY <1>2, <3>2 DEF AckInv
    <3>4. QED
      BY <2>1, <2>4, <3>1, <3>2, <3>3 DEF Defer, wireVars
  <2>5. ASSUME NEW c \in ui[d].todo, Execute(d, c) PROVE AckInv'
    <3> DEFINE u == [ui[d] EXCEPT !.step = "record", !.current = c,
                                  !.acks = ui[d].acks \cup {c.id}]
    <3>1. ui' = [ui EXCEPT ![d] = u]
      BY <2>5 DEF Execute
    <3>2. u.acks = ui[d].acks \cup {c.id} /\ u.current = c /\ u.step = "record"
      BY <2>0 DEF UiState
    <3> HIDE DEF u
    <3>3. CarriedOutThen(c.id, d)
      <4>1. c \in Underway(d)
        BY DEF Underway
      <4>2. Linked(c, d) /\ Linked(c, d)'
        BY <4>1, RowsInvStep DEF LinkInv
      <4>3. c.birth \in executed'
        BY <2>5 DEF Execute, MayStart
      <4>4. QED
        BY <4>2, <4>3 DEF Linked, CarriedOutThen
    <3>4. \A i \in u.acks : CarriedOutThen(i, d)
      BY <1>2, <3>2, <3>3 DEF AckInv
    <3>5. QED
      BY <2>1, <2>5, <3>1, <3>2, <3>3, <3>4 DEF Execute, wireVars
  <2>6. ASSUME NEW saved \in SaveResults, Record(d, saved) PROVE AckInv'
    <3> DEFINE u == [ui[d] EXCEPT !.step = "confirm"]
    <3>1. ui' = [ui EXCEPT ![d] = u] /\ ui[d].step = "record"
      BY <2>6 DEF Record
    <3>2. u.acks = ui[d].acks /\ u.current = ui[d].current /\ u.step = "confirm"
      BY <2>0 DEF UiState
    <3> HIDE DEF u
    <3>3. CarriedOutThen(u.current.id, d) /\ \A i \in u.acks : CarriedOutThen(i, d)
      BY <1>2, <3>1, <3>2 DEF AckInv
    <3>4. QED
      BY <2>1, <2>6, <3>1, <3>2, <3>3 DEF Record
  <2>7. ASSUME NEW confirmed \in BOOLEAN, NEW saved \in SaveResults, Confirm(d, confirmed, saved)
        PROVE AckInv'
    <3> DEFINE left == AcksAfter(ui[d].acks, ui[d].current.id, confirmed)
               u == [step |-> "each", todo |-> ui[d].todo \ {ui[d].current},
                     acks |-> left, current |-> NoCommand]
    <3>1. /\ ui' = [ui EXCEPT ![d] = u] /\ acks' = acks
          /\ ackFile' = ackFile \/ ackFile' = [ackFile EXCEPT ![d] = left]
      BY <2>7 DEF Confirm
    <3>2. u.acks = left /\ u.step = "each" /\ left \subseteq ui[d].acks
      BY DEF AcksAfter
    <3> HIDE DEF u, left
    <3>3. \A i \in u.acks : CarriedOutThen(i, d)
      BY <1>2, <3>2 DEF AckInv
    <3>4. QED
      BY <2>1, <3>1, <3>2, <3>3
  <2>8. CASE FinishProcessing(d)
    <3>1. IdleUi.acks = {} /\ IdleUi.step = "idle"
      BY DEF IdleUi
    <3>2. QED
      BY <2>1, <2>8, <3>1 DEF FinishProcessing, wireVars
  <2>9. QED
    BY <1>6, <2>2, <2>3, <2>4, <2>5, <2>6, <2>7, <2>8 DEF UiStep
<1>7. ASSUME NEW d \in Devices, Restart(d) PROVE AckInv'
  <2>1. IdleUi.acks = {} /\ IdleUi.step = "idle"
    BY DEF IdleUi
  <2>2. \A e \in Devices : ui'[e] = ui[e] \/ ui'[e] = IdleUi
    BY <1>7 DEF Restart, TypeOK
  <2>3. UNCHANGED <<ackFile, acks, completed>>
    BY <1>7 DEF Restart, cloudVars
  <2>4. QED
    BY <1>1, <1>2, <2>1, <2>2, <2>3 DEF AckInv, CarriedOut, CarriedOutThen
<1>8. ASSUME NEW d \in Devices, Claim(d) \/ LoseReply(d) \/ WriteInbox(d) \/ EndUpdate(d)
      PROVE  UNCHANGED <<ackFile, ui, acks, completed>>
  BY <1>8 DEF Claim, LoseReply, WriteInbox, EndUpdate, cloudVars, wireVars, panelVars
<1>9. CASE CloudStep
  <2>1. ASSUME NEW d \in Devices, NEW p \in Payloads, Enqueue(d, p)
        PROVE  UNCHANGED <<ackFile, ui, acks, completed>>
    BY <2>1 DEF Enqueue, wireVars, panelVars
  <2>2. ASSUME NEW id, NEW event, Age(id, event) PROVE UNCHANGED <<ackFile, ui, acks, completed>>
    BY <2>2 DEF Age, wireVars, panelVars
  <2>3. Cleanup => UNCHANGED <<ackFile, ui, acks, completed>>
    BY DEF Cleanup, wireVars, panelVars
  <2>4. QED
    BY <1>3, <1>4, <1>5, <1>9, <2>1, <2>2, <2>3 DEF CloudStep
<1>10. CASE UNCHANGED vars
  BY <1>3, <1>10 DEF vars, cloudVars, wireVars, panelVars
<1>11. QED
  BY <1>3, <1>6, <1>7, <1>8, <1>9, <1>10 DEF Next

\* As long as no row is deleted, a row that is completed was carried out: a panel
\* acknowledges nothing it has not started an update check for.
THEOREM CompletedWereExecuted ==
    ASSUME ~RetentionEnds
    PROVE  Spec => []CompletedWasExecuted
<1>1. Init => AckInv
  <2>1. Init => \A d \in Devices : ui[d].acks = {} /\ ui[d].step = "idle" /\ ackFile[d] = {}
    BY DEF Init, IdleUi
  <2>2. QED
    BY <2>1 DEF Init, AckInv
<1>2. NamesInv /\ NamesInv' /\ AckInv /\ [Next]_vars => AckInv'
  BY AckStep
<1>3. AckInv => CompletedWasExecuted
  BY DEF AckInv, CompletedWasExecuted
<1>4. QED
  BY <1>1, <1>2, <1>3, NamesInvKept, PTL DEF Spec

-----------------------------------------------------------------------------
(* What is recorded is not repeated.  The entry of command-acks.pending    *)
(* is dropped only after the Worker has answered, that is, completed.      *)

AnswerInv ==
    \A d \in Devices :
        /\ answered[d] => ui[d].step = "confirm" /\ ui[d].current.birth \in completed
        /\ ui[d].step = "record" => ui[d].current.id \in ui[d].acks

\* An open command that was recorded still is, in the file and in the handler's copy.
MemoryInv ==
    \A d \in Devices : \A id \in DOMAIN rows :
        rows[id].device = d /\ rows[id].birth \in recorded \ completed =>
            id \in ackFile[d] /\ (ui[d].step # "idle" => id \in ui[d].acks)

LEMMA AnswerStep ==
    ASSUME ~RetentionEnds, NamesInv, AnswerInv, [Next]_vars
    PROVE  AnswerInv'
<1> USE DEF NamesInv, TypeInv
<1>0. /\ ui \in [Devices -> UiState] /\ answered \in [Devices -> BOOLEAN]
      /\ completed \subseteq completed'
  BY RowsInvStep DEF TypeOK
<1>1. CASE UNCHANGED <<ui, answered>>
  BY <1>0, <1>1 DEF AnswerInv
<1>2. ASSUME NEW m \in acks, ApplyAck(m) PROVE AnswerInv'
  <2>1. ui' = ui /\ m.device \in Devices /\ m.id \in Ids /\ IsTable(rows)
    BY <1>2 DEF ApplyAck, TypeOK, panelVars
  <2>2. ASSUME NEW d \in Devices, answered'[d], ~answered[d]
        PROVE  ui[d].step = "confirm" /\ ui[d].current.birth \in completed'
    <3>1. d = m.device /\ ui[d].step = "confirm" /\ ui[d].current.id = m.id
      BY <1>0, <1>2, <2>2 DEF ApplyAck
    <3>2. Linked(ui[d].current, d)
      BY <3>1 DEF Stemming, LinkInv, Underway
    <3>3. rows'[m.id].completed
      BY <1>2, <2>1, <3>1, <3>2, AcknowledgedFacts DEF ApplyAck, Linked
    <3>4. m.id \in DOMAIN rows' /\ rows'[m.id].birth = ui[d].current.birth
      BY <3>1, <3>2, RowsInvStep DEF Linked, SameCommand
    <3>5. QED
      BY <3>1, <3>3, <3>4, RowsInvStep DEF RowsInv
  <2>3. QED
    BY <1>0, <2>1, <2>2 DEF AnswerInv
<1>3. ASSUME NEW d \in Devices, UiStep(d) PROVE AnswerInv'
  <2>0. completed' = completed
    BY <1>3 DEF UiStep, BeginProcessing, RetryAck, Defer, Execute, Record, Confirm,
                FinishProcessing, cloudVars
  <2>1. ASSUME NEW u, ui' = [ui EXCEPT ![d] = u],
               u.step = "record" => u.current.id \in u.acks,
               \/ answered' = [answered EXCEPT ![d] = FALSE]
               \/ answered' = answered /\ ui[d].step # "confirm"
        PROVE  AnswerInv'
    BY <1>0, <2>0, <2>1 DEF AnswerInv
  <2>2. CASE BeginProcessing(d)
    <3>1. CASE inbox[d] = {}
      BY <1>1, <2>2, <3>1 DEF BeginProcessing, wireVars
    <3>2. CASE inbox[d] # {}
      BY <2>1, <2>2, <3>2 DEF BeginProcessing, wireVars
    <3>3. QED
      BY <3>1, <3>2
  <2>3. ASSUME NEW c \in ui[d].todo, RetryAck(d, c) PROVE AnswerInv'
    <3> DEFINE u == [ui[d] EXCEPT !.step = "confirm", !.current = c]
    <3>1. u.step = "confirm"
      BY <1>0 DEF UiState
    <3>2. ui' = [ui EXCEPT ![d] = u] /\ answered' = [answered EXCEPT ![d] = FALSE]
      BY <2>3 DEF RetryAck
    <3> HIDE DEF u
    <3>3. QED
      BY <2>1, <3>1, <3>2
  <2>4. ASSUME NEW c \in ui[d].todo, Defer(d, c) PROVE AnswerInv'
    <3> DEFINE u == [ui[d] EXCEPT !.todo = ui[d].todo \ {c}]
    <3>1. ui[d].step = "each" /\ ui' = [ui EXCEPT ![d] = u] /\ answered' = answered
      BY <2>4 DEF Defer, AtCommand, wireVars
    <3>2. u.step = "each"
      BY <1>0, <3>1 DEF UiState
    <3> HIDE DEF u
    <3>3. QED
      BY <2>1, <3>1, <3>2
  <2>5. ASSUME NEW c \in ui[d].todo, Execute(d, c) PROVE AnswerInv'
    <3> DEFINE u == [ui[d] EXCEPT !.step = "record", !.current = c,
                                  !.acks = ui[d].acks \cup {c.id}]
    <3>1. u.current.id \in u.acks
      BY <1>0 DEF UiState
    <3>2. ui[d].step = "each" /\ ui' = [ui EXCEPT ![d] = u] /\ answered' = answered
      BY <2>5 DEF Execute, AtCommand, wireVars
    <3> HIDE DEF u
    <3>3. QED
      BY <2>1, <3>1, <3>2
  <2>6. ASSUME NEW saved \in SaveResults, Record(d, saved) PROVE AnswerInv'
    <3> DEFINE u == [ui[d] EXCEPT !.step = "confirm"]
    <3>1. u.step = "confirm"
      BY <1>0 DEF UiState
    <3>2. ui' = [ui EXCEPT ![d] = u] /\ answered' = [answered EXCEPT ![d] = FALSE]
      BY <2>6 DEF Record
    <3> HIDE DEF u
    <3>3. QED
      BY <2>1, <3>1, <3>2
  <2>7. ASSUME NEW confirmed \in BOOLEAN, NEW saved \in SaveResults, Confirm(d, confirmed, saved)
        PROVE AnswerInv'
    BY <2>1, <2>7 DEF Confirm
  <2>8. CASE FinishProcessing(d)
    BY <2>1, <2>8 DEF FinishProcessing, IdleUi, wireVars
  <2>9. QED
    BY <1>3, <2>2, <2>3, <2>4, <2>5, <2>6, <2>7, <2>8 DEF UiStep
<1>4. ASSUME NEW d \in Devices, Restart(d) PROVE AnswerInv'
  BY <1>0, <1>4 DEF Restart, AnswerInv, IdleUi
<1>5. ASSUME NEW d \in Devices, Claim(d) \/ LoseReply(d) \/ WriteInbox(d) \/ EndUpdate(d)
      PROVE  UNCHANGED <<ui, answered>>
  BY <1>5 DEF Claim, LoseReply, WriteInbox, EndUpdate, wireVars, panelVars
<1>6. CASE CloudStep
  BY <1>1, <1>2, <1>6 DEF CloudStep, Enqueue, LoseAck, Age, Cleanup, wireVars, panelVars
<1>7. CASE UNCHANGED vars
  BY <1>1, <1>7 DEF vars, wireVars, panelVars
<1>8. QED
  BY <1>1, <1>3, <1>4, <1>5, <1>6, <1>7 DEF Next

LEMMA MemoryStep ==
    ASSUME ~RetentionEnds, NamesInv, AnswerInv, MemoryInv, [Next]_vars
    PROVE  MemoryInv'
<1> USE DEF NamesInv, TypeInv
<1>0. ui \in [Devices -> UiState] /\ ackFile \in [Devices -> SUBSET Ids]
  BY DEF TypeOK
<1>1. /\ completed \subseteq completed'
      /\ \A id \in DOMAIN rows' : rows'[id].birth \in recorded =>
            /\ id \in DOMAIN rows
            /\ rows'[id].device = rows[id].device /\ rows'[id].birth = rows[id].birth
  BY RowsInvStep DEF TypeOK, Stemming, SameCommand
<1>2. \A d \in Devices : \A id \in DOMAIN rows' :
         rows'[id].device = d /\ rows'[id].birth \in recorded \ completed' =>
             id \in ackFile[d] /\ (ui[d].step # "idle" => id \in ui[d].acks)
  BY <1>1 DEF MemoryInv
<1>3. CASE UNCHANGED <<ui, ackFile, recorded>>
  BY <1>2, <1>3 DEF MemoryInv
<1>4. ASSUME NEW d \in Devices, UiStep(d) PROVE MemoryInv'
  <2>0. rows' = rows /\ completed' = completed
    BY <1>4 DEF UiStep, BeginProcessing, RetryAck, Defer, Execute, Record, Confirm,
                FinishProcessing, cloudVars
  <2>1. ASSUME NEW u, ui' = [ui EXCEPT ![d] = u], ackFile' = ackFile, recorded' = recorded,
               u.step # "idle" => \A id \in ackFile[d] : id \in ui[d].acks => id \in u.acks,
               u.step # "idle" => ui[d].step # "idle"
        PROVE  MemoryInv'
    BY <1>0, <1>2, <2>1 DEF MemoryInv
  <2>2. CASE BeginProcessing(d)
    <3>1. CASE inbox[d] = {}
      BY <1>3, <2>2, <3>1 DEF BeginProcessing, ghostVars
    <3>2. CASE inbox[d] # {}
      BY <1>0, <1>2, <2>2, <3>2 DEF BeginProcessing, MemoryInv, ghostVars
    <3>3. QED
      BY <3>1, <3>2
  <2>3. ASSUME NEW c \in ui[d].todo, RetryAck(d, c) PROVE MemoryInv'
    <3> DEFINE u == [ui[d] EXCEPT !.step = "confirm", !.current = c]
    <3>1. u.acks = ui[d].acks
      BY <1>0 DEF UiState
    <3>2. /\ ui' = [ui EXCEPT ![d] = u] /\ ackFile' = ackFile /\ recorded' = recorded
          /\ ui[d].step = "each"
      BY <2>3 DEF RetryAck, AtCommand, ghostVars
    <3> HIDE DEF u
    <3>3. QED
      BY <2>1, <3>1, <3>2
  <2>4. ASSUME NEW c \in ui[d].todo, Defer(d, c) PROVE MemoryInv'
    <3> DEFINE u == [ui[d] EXCEPT !.todo = ui[d].todo \ {c}]
    <3>1. u.acks = ui[d].acks
      BY <1>0 DEF UiState
    <3>2. /\ ui' = [ui EXCEPT ![d] = u] /\ ackFile' = ackFile /\ recorded' = recorded
          /\ ui[d].step = "each"
      BY <2>4 DEF Defer, AtCommand, ghostVars
    <3> HIDE DEF u
    <3>3. QED
      BY <2>1, <3>1, <3>2
  <2>5. ASSUME NEW c \in ui[d].todo, Execute(d, c) PROVE MemoryInv'
    <3> DEFINE u == [ui[d] EXCEPT !.step = "record", !.current = c,
                                  !.acks = ui[d].acks \cup {c.id}]
    <3>1. ui[d].acks \subseteq u.acks
      BY <1>0 DEF UiState
    <3>2. /\ ui' = [ui EXCEPT ![d] = u] /\ ackFile' = ackFile /\ recorded' = recorded
          /\ ui[d].step = "each"
      BY <2>5 DEF Execute, AtCommand
    <3> HIDE DEF u
    <3>3. QED
      BY <2>1, <3>1, <3>2
  <2>6. ASSUME NEW saved \in SaveResults, Record(d, saved) PROVE MemoryInv'
    <3> DEFINE u == [ui[d] EXCEPT !.step = "confirm"]
    <3>1. u.acks = ui[d].acks /\ ui[d].step = "record"
      BY <1>0, <2>6 DEF UiState, Record
    <3>2. ui' = [ui EXCEPT ![d] = u]
      BY <2>6 DEF Record
    <3> HIDE DEF u
    <3>3. CASE saved
      <4>1. ackFile' = [ackFile EXCEPT ![d] = ui[d].acks]
            /\ recorded' \subseteq recorded \cup {ui[d].current.birth}
        BY <2>6, <3>3 DEF Record
      <4>2. ui[d].current.id \in ui[d].acks
        BY <3>1 DEF AnswerInv
      <4>3. Linked(ui[d].current, d)
        BY <3>1 DEF Stemming, LinkInv, Underway
      <4>4. \A id \in DOMAIN rows : rows[id].birth = ui[d].current.birth =>
                id = ui[d].current.id /\ rows[id].device = d
        BY <4>3 DEF Linked, RowsInv
      <4>5. ASSUME NEW e \in Devices, NEW id \in DOMAIN rows, rows[id].device = e,
                   rows[id].birth \in recorded' \ completed
            PROVE  id \in ackFile'[e] /\ (ui'[e].step # "idle" => id \in ui'[e].acks)
        <5>1. CASE rows[id].birth = ui[d].current.birth
          BY <1>0, <3>1, <3>2, <4>1, <4>2, <4>4, <4>5, <5>1
        <5>2. CASE rows[id].birth \in recorded
          <6>1. id \in ackFile[e] /\ (ui[e].step # "idle" => id \in ui[e].acks)
            BY <4>5, <5>2 DEF MemoryInv
          <6>2. QED
            BY <1>0, <3>1, <3>2, <4>1, <6>1
        <5>3. QED
          BY <4>1, <4>5, <5>1, <5>2
      <4>6. QED
        BY <2>0, <4>5 DEF MemoryInv
    <3>4. CASE ~saved
      <4>1. ackFile' = ackFile /\ recorded' = recorded
        BY <2>6, <3>4 DEF Record
      <4>2. QED
        BY <2>1, <3>1, <3>2, <4>1
    <3>5. QED
      BY <3>3, <3>4
  <2>7. ASSUME NEW confirmed \in BOOLEAN, NEW saved \in SaveResults, Confirm(d, confirmed, saved)
        PROVE MemoryInv'
    <3> DEFINE left == AcksAfter(ui[d].acks, ui[d].current.id, confirmed)
               u == [step |-> "each", todo |-> ui[d].todo \ {ui[d].current},
                     acks |-> left, current |-> NoCommand]
    <3>1. /\ ui' = [ui EXCEPT ![d] = u] /\ recorded' = recorded /\ ui[d].step = "confirm"
          /\ ackFile' = ackFile \/ ackFile' = [ackFile EXCEPT ![d] = left]
      BY <2>7 DEF Confirm
    <3>2. u.acks = left
      OBVIOUS
    <3>3. \A id \in ui[d].acks : id \notin left => confirmed /\ id = ui[d].current.id
      BY DEF AcksAfter
    <3> HIDE DEF u, left
    <3>4. confirmed => ui[d].current.birth \in completed
      BY <2>7 DEF Confirm, AnswerInv
    <3>5. Linked(ui[d].current, d)
      BY <3>1 DEF Stemming, LinkInv, Underway
    <3>6. ASSUME NEW e \in Devices, NEW id \in DOMAIN rows, rows[id].device = e,
                 rows[id].birth \in recorded \ completed
          PROVE  id \in ackFile'[e] /\ (ui'[e].step # "idle" => id \in ui'[e].acks)
      <4>1. id \in ackFile[e] /\ (ui[e].step # "idle" => id \in ui[e].acks)
        BY <3>6 DEF MemoryInv
      <4>2. CASE e # d
        BY <1>0, <3>1, <4>1, <4>2
      <4>3. CASE e = d
        <5>1. id \in left
          BY <3>1, <3>3, <3>4, <3>5, <3>6, <4>1, <4>3 DEF Linked
        <5>2. QED
          BY <1>0, <3>1, <3>2, <4>1, <4>3, <5>1
      <4>4. QED
        BY <4>2, <4>3
    <3>7. QED
      BY <2>0, <3>1, <3>6 DEF MemoryInv
  <2>8. CASE FinishProcessing(d)
    BY <2>1, <2>8 DEF FinishProcessing, IdleUi, ghostVars
  <2>9. QED
    BY <1>4, <2>2, <2>3, <2>4, <2>5, <2>6, <2>7, <2>8 DEF UiStep
<1>5. ASSUME NEW d \in Devices, Restart(d) PROVE MemoryInv'
  <2>1. /\ ackFile' = ackFile /\ recorded' = recorded
        /\ \A e \in Devices : ui'[e] = ui[e] \/ ui'[e].step = "idle"
    BY <1>0, <1>5 DEF Restart, IdleUi, ghostVars
  <2>2. QED
    BY <1>2, <2>1 DEF MemoryInv
<1>6. ASSUME NEW d \in Devices, Claim(d) \/ LoseReply(d) \/ WriteInbox(d) \/ EndUpdate(d)
      PROVE  UNCHANGED <<ui, ackFile, recorded>>
  BY <1>6 DEF Claim, LoseReply, WriteInbox, EndUpdate, panelVars, ghostVars
<1>7. CASE CloudStep
  BY <1>3, <1>7 DEF CloudStep, Enqueue, ApplyAck, LoseAck, Age, Cleanup, panelVars, ghostVars
<1>8. CASE UNCHANGED vars
  BY <1>3, <1>8 DEF vars, panelVars, ghostVars
<1>9. QED
  BY <1>3, <1>4, <1>5, <1>6, <1>7, <1>8 DEF Next

\* Once command-acks.pending holds a command, no redelivery, crash or failed save makes the
\* panel carry it out again before the Worker has its acknowledgement.
THEOREM RecordedNotRepeated ==
    ASSUME ~RetentionEnds
    PROVE  Spec => NotRepeatedUnacknowledged
<1>1. Init => AnswerInv /\ MemoryInv
  BY DEF Init, AnswerInv, MemoryInv, IdleUi
<1>2. NamesInv /\ AnswerInv /\ MemoryInv /\ [Next]_vars => (AnswerInv /\ MemoryInv)'
  BY AnswerStep, MemoryStep
<1>3. NamesInv /\ MemoryInv /\ [Next]_vars => [Started \cap recorded \subseteq completed]_vars
  <2> SUFFICES ASSUME NamesInv, MemoryInv, [Next]_vars
               PROVE  Started \cap recorded \subseteq completed
    OBVIOUS
  <2> USE DEF NamesInv, TypeInv
  <2>0. ui \in [Devices -> UiState]
    BY DEF TypeOK
  <2>1. ASSUME NEW d \in Devices, ui[d].step = "each", ui'[d].step = "record"
        PROVE  ui'[d].current.birth \in recorded => ui'[d].current.birth \in completed
    <3>1. PICK c \in ui[d].todo : Execute(d, c)
      <4>1. ASSUME NEW e \in Devices, UiStep(e) PROVE \E c \in ui[d].todo : Execute(d, c)
        <5>1. e = d
          <6>1. ui' = ui \/ \E v : ui' = [ui EXCEPT ![e] = v]
            BY <4>1 DEF UiStep, BeginProcessing, RetryAck, Defer, Execute, Record, Confirm,
                        FinishProcessing
          <6>2. QED
            BY <2>0, <2>1, <6>1
        <5>2. \A c \in ui[d].todo : ~RetryAck(d, c) /\ ~Defer(d, c)
          BY <2>0, <2>1 DEF RetryAck, Defer, UiState
        <5>3. ~BeginProcessing(d) /\ ~FinishProcessing(d)
          BY <2>0, <2>1 DEF BeginProcessing, FinishProcessing, IdleUi
        <5>4. (\A saved : ~Record(d, saved)) /\ \A confirmed, saved : ~Confirm(d, confirmed, saved)
          BY <2>1 DEF Record, Confirm
        <5>5. QED
          BY <4>1, <5>1, <5>2, <5>3, <5>4 DEF UiStep
      <4>2. ~CloudStep /\ ~UNCHANGED vars
        BY <2>1 DEF CloudStep, Enqueue, ApplyAck, LoseAck, Age, Cleanup, vars, panelVars
      <4>3. \A e \in Devices : ~Claim(e) /\ ~LoseReply(e) /\ ~WriteInbox(e) /\ ~EndUpdate(e)
        BY <2>1 DEF Claim, LoseReply, WriteInbox, EndUpdate, panelVars
      <4>4. \A e \in Devices : ~Restart(e)
        BY <2>0, <2>1 DEF Restart, IdleUi
      <4>5. QED
        BY <4>1, <4>2, <4>3, <4>4 DEF Next
    <3>2. ui'[d].current = c
      BY <2>0, <3>1 DEF Execute, UiState
    <3>3. Linked(c, d)
      BY DEF LinkInv, Underway
    <3>4. c.id \notin ui[d].acks
      BY <3>1 DEF Execute
    <3>5. QED
      BY <2>1, <3>2, <3>3, <3>4 DEF MemoryInv, Linked
  <2>2. QED
    BY <2>1 DEF Started
<1>4. QED
  BY <1>1, <1>2, <1>3, NamesInvKept, PTL DEF Spec, NotRepeatedUnacknowledged
=============================================================================
