-------------------------- MODULE CommandDelivery --------------------------
(***************************************************************************)
(* How a remote command reaches a panel, is carried out and acknowledged:  *)
(* the table of commands in D1, the claim made by an exchange              *)
(* (device_command_delivery.ts, device_sync.ts), the panel's client thread *)
(* that writes commands.json (native/src/cloud_client_sync.cpp), and its   *)
(* user-interface thread (App::ProcessRemoteCommands, app_commands.cpp),   *)
(* which starts the update check, remembers in command-acks.pending that   *)
(* it did, and acknowledges.                                               *)
(*                                                                         *)
(* The two threads share only the two files and the window message; the    *)
(* process may end between any two steps.  Requests and replies may be     *)
(* lost, and an acknowledgement may arrive after its sender has given up.  *)
(***************************************************************************)
EXTENDS CommandTable

CONSTANTS
    MaxBorn,         \* bound: commands ever inserted
    MaxRestarts,     \* bound: ends of the panel's process
    SaveResults,     \* what saving command-acks.pending may return
    RetentionEnds    \* whether retention periods end within the behaviour

ASSUME DeliveryAssumption ==
    /\ MaxBorn \in Nat \ {0} /\ MaxRestarts \in Nat
    /\ SaveResults \subseteq BOOLEAN /\ TRUE \in SaveResults
    /\ RetentionEnds \in BOOLEAN

VARIABLES
    rows,       \* device_commands
    born,       \* insertions so far
    reply,      \* the commands of the exchange reply on its way to a panel, {} for none
    inbox,      \* commands.json, {} for no file
    posted,     \* WM_HP_COMMANDS_UPDATED is in the window's queue
    ui,         \* ProcessRemoteCommands in progress
    ackFile,    \* the ids in command-acks.pending
    busy,       \* updateBusy_
    acks,       \* acknowledgement requests on their way
    answered,   \* the reply to the acknowledgement the panel waits for is there
    restarts,   \* ends of the process so far
    executed,   \* commands a panel has started an update check for (ghost)
    recorded,   \* of those, the ones that were saved in ackFile (ghost)
    completed   \* commands whose row was completed (ghost)

cloudVars == <<rows, born, completed>>
wireVars == <<reply, acks, answered>>
panelVars == <<inbox, posted, ui, ackFile, busy>>
ghostVars == <<executed, recorded>>
vars == <<cloudVars, wireVars, panelVars, restarts, ghostVars>>

Command == [id: Ids, birth: Nat]
NoCommand == [id |-> 0, birth |-> 0]

IdleUi == [step |-> "idle", todo |-> {}, acks |-> {}, current |-> NoCommand]

UiState ==
    [step: {"idle", "each", "record", "confirm"},
     todo: SUBSET Command,            \* commands of commands.json not yet handled
     acks: SUBSET Ids,                \* pendingAcks
     current: Command \cup {NoCommand}]    \* the command being handled

TypeOK ==
    /\ IsTable(rows)
    /\ born \in 0 .. MaxBorn
    /\ reply \in [Devices -> SUBSET Command]
    /\ inbox \in [Devices -> SUBSET Command]
    /\ posted \in [Devices -> BOOLEAN]
    /\ ui \in [Devices -> UiState]
    /\ \A d \in Devices : ui[d].step \in {"record", "confirm"} => ui[d].current # NoCommand
    /\ ackFile \in [Devices -> SUBSET Ids]
    /\ busy \in [Devices -> BOOLEAN]
    /\ acks \subseteq [device: Devices, id: Ids]
    /\ answered \in [Devices -> BOOLEAN]
    /\ restarts \in 0 .. MaxRestarts
    /\ executed \subseteq 1 .. MaxBorn
    /\ recorded \subseteq executed
    /\ completed \subseteq 1 .. MaxBorn

Init ==
    /\ rows = NoRows /\ born = 0 /\ completed = {}
    /\ reply = [d \in Devices |-> {}] /\ inbox = [d \in Devices |-> {}]
    /\ posted = [d \in Devices |-> FALSE] /\ ui = [d \in Devices |-> IdleUi]
    /\ ackFile = [d \in Devices |-> {}] /\ busy = [d \in Devices |-> FALSE]
    /\ acks = {} /\ answered = [d \in Devices |-> FALSE]
    /\ restarts = 0 /\ executed = {} /\ recorded = {}

-----------------------------------------------------------------------------
(* The Worker: commands are queued by administrators and update checks.    *)

Enqueue(d, p) ==
    /\ born < MaxBorn
    /\ rows' = Inserted(rows, d, p, born + 1)
    /\ born' = IF rows' = rows THEN born ELSE born + 1
    /\ UNCHANGED <<completed, wireVars, panelVars, restarts, ghostVars>>

\* An exchange: the claim, and the reply on its way.
Claim(d) ==
    /\ reply[d] = {}
    /\ Claimable(rows, d) # {}
    /\ rows' = Claimed(rows, Claimable(rows, d))
    /\ reply' = [reply EXCEPT ![d] =
                    {[id |-> id, birth |-> rows[id].birth] : id \in Claimable(rows, d)}]
    /\ UNCHANGED <<born, completed, acks, answered, panelVars, restarts, ghostVars>>

ApplyAck(m) ==
    /\ m \in acks
    /\ acks' = acks \ {m}
    /\ rows' = Acknowledged(rows, m.device, m.id)
    /\ completed' = IF rows' = rows THEN completed ELSE completed \cup {rows[m.id].birth}
    /\ answered' = [answered EXCEPT ![m.device] =
                        @ \/ (ui[m.device].step = "confirm" /\ ui[m.device].current.id = m.id)]
    /\ UNCHANGED <<born, reply, panelVars, restarts, ghostVars>>

LoseAck(m) ==
    /\ m \in acks
    /\ acks' = acks \ {m}
    /\ UNCHANGED <<cloudVars, reply, answered, panelVars, restarts, ghostVars>>

\* Nothing is on its way and no command is being handled.
Quiet == acks = {} /\ \A d \in Devices : reply[d] = {} /\ ui[d].step = "idle" /\ ~posted[d]

\* Retention periods are days long: requests and handlers have ended by then.
Age(id, event) ==
    /\ id \in DOMAIN rows
    /\ event = "retention" => RetentionEnds /\ Quiet
    /\ rows' = AgedRow(rows, id, event)
    /\ rows' # rows
    /\ UNCHANGED <<born, completed, wireVars, panelVars, restarts, ghostVars>>

Cleanup ==
    /\ rows' = Cleaned(rows)
    /\ rows' # rows
    /\ UNCHANGED <<born, completed, wireVars, panelVars, restarts, ghostVars>>

-----------------------------------------------------------------------------
(* The client thread of the panel.                                         *)

\* The exchange fails after the claim: timeout, an error later in the Worker's
\* handler, or commands.json cannot be written.
LoseReply(d) ==
    /\ reply[d] # {}
    /\ reply' = [reply EXCEPT ![d] = {}]
    /\ UNCHANGED <<cloudVars, acks, answered, panelVars, restarts, ghostVars>>

WriteInbox(d) ==
    /\ reply[d] # {}
    /\ inbox' = [inbox EXCEPT ![d] = reply[d]]
    /\ posted' = [posted EXCEPT ![d] = TRUE]
    /\ reply' = [reply EXCEPT ![d] = {}]
    /\ UNCHANGED <<cloudVars, acks, answered, ui, ackFile, busy, restarts, ghostVars>>

-----------------------------------------------------------------------------
(* The user-interface thread of the panel.                                 *)

BeginProcessing(d) ==
    /\ ui[d].step = "idle" /\ posted[d]
    /\ posted' = [posted EXCEPT ![d] = FALSE]
    /\ ui' = IF inbox[d] = {} THEN ui
             ELSE [ui EXCEPT ![d] = [step |-> "each", todo |-> inbox[d],
                                     acks |-> ackFile[d], current |-> NoCommand]]
    /\ UNCHANGED <<cloudVars, wireVars, inbox, ackFile, busy, restarts, ghostVars>>

\* The commands of commands.json are in the order of their ids.
AtCommand(d, c) ==
    /\ ui[d].step = "each" /\ c \in ui[d].todo
    /\ \A other \in ui[d].todo : c.id <= other.id

\* A mistake: the check in progress is taken for this command's.
MayStartAnyway(d) == TRUE

MayStart(d) == ~busy[d]

\* An entry of command-acks.pending says that the command was carried out.
RetryAck(d, c) ==
    /\ AtCommand(d, c)
    /\ c.id \in ui[d].acks
    /\ ui' = [ui EXCEPT ![d] = [@ EXCEPT !.step = "confirm", !.current = c]]
    /\ acks' = acks \cup {[device |-> d, id |-> c.id]}
    /\ answered' = [answered EXCEPT ![d] = FALSE]
    /\ UNCHANGED <<cloudVars, reply, inbox, posted, ackFile, busy, restarts, ghostVars>>

Defer(d, c) ==
    /\ AtCommand(d, c)
    /\ c.id \notin ui[d].acks
    /\ ~MayStart(d)
    /\ ui' = [ui EXCEPT ![d] = [@ EXCEPT !.todo = ui[d].todo \ {c}]]
    /\ UNCHANGED <<cloudVars, wireVars, inbox, posted, ackFile, busy, restarts, ghostVars>>

\* CheckForUpdateAsync(true) does nothing while updateBusy_ is set.
Execute(d, c) ==
    /\ AtCommand(d, c)
    /\ c.id \notin ui[d].acks
    /\ MayStart(d)
    /\ busy' = [busy EXCEPT ![d] = TRUE]
    /\ executed' = IF busy[d] THEN executed ELSE executed \cup {c.birth}
    /\ ui' = [ui EXCEPT ![d] = [@ EXCEPT !.step = "record", !.current = c,
                                         !.acks = ui[d].acks \cup {c.id}]]
    /\ UNCHANGED <<cloudVars, wireVars, inbox, posted, ackFile, restarts, recorded>>

Record(d, saved) ==
    /\ ui[d].step = "record"
    /\ ackFile' = IF saved THEN [ackFile EXCEPT ![d] = ui[d].acks] ELSE ackFile
    /\ recorded' = IF saved THEN recorded \cup ({ui[d].current.birth} \cap executed) ELSE recorded
    /\ ui' = [ui EXCEPT ![d] = [@ EXCEPT !.step = "confirm"]]
    /\ acks' = acks \cup {[device |-> d, id |-> ui[d].current.id]}
    /\ answered' = [answered EXCEPT ![d] = FALSE]
    /\ UNCHANGED <<cloudVars, reply, inbox, posted, busy, restarts, executed>>

\* A mistake: the entry goes whether or not the acknowledgement was answered.
AcksAfterSending(pending, id, confirmed) == pending \ {id}

\* What is left of pendingAcks when an acknowledgement was answered, or was not.
AcksAfter(pending, id, confirmed) == IF confirmed THEN pending \ {id} ELSE pending

\* The acknowledgement is answered, or AcknowledgeCommand gives up.
Confirm(d, confirmed, saved) ==
    /\ ui[d].step = "confirm"
    /\ confirmed => answered[d]
    /\ LET left == AcksAfter(ui[d].acks, ui[d].current.id, confirmed) IN
         /\ ui' = [ui EXCEPT ![d] = [step |-> "each", todo |-> @.todo \ {@.current},
                                     acks |-> left, current |-> NoCommand]]
         /\ ackFile' = IF saved /\ left # ui[d].acks THEN [ackFile EXCEPT ![d] = left] ELSE ackFile
    /\ answered' = [answered EXCEPT ![d] = FALSE]
    /\ UNCHANGED <<cloudVars, reply, acks, inbox, posted, busy, restarts, executed, recorded>>

\* fs::remove(commands.json), also when the client thread has replaced it meanwhile.
FinishProcessing(d) ==
    /\ ui[d].step = "each" /\ ui[d].todo = {}
    /\ ui' = [ui EXCEPT ![d] = IdleUi]
    /\ inbox' = [inbox EXCEPT ![d] = {}]
    /\ UNCHANGED <<cloudVars, wireVars, posted, ackFile, busy, restarts, ghostVars>>

\* The update thread is done, having found nothing to install or failed.
EndUpdate(d) ==
    /\ busy[d]
    /\ busy' = [busy EXCEPT ![d] = FALSE]
    /\ UNCHANGED <<cloudVars, wireVars, inbox, posted, ui, ackFile, restarts, ghostVars>>

\* The process ends, killed or closed for the updater, and starts again: the files
\* remain, and an update check that installs nothing runs at start.
Restart(d) ==
    /\ restarts < MaxRestarts
    /\ restarts' = restarts + 1
    /\ ui' = [ui EXCEPT ![d] = IdleUi]
    /\ posted' = [posted EXCEPT ![d] = FALSE]
    /\ reply' = [reply EXCEPT ![d] = {}]
    /\ answered' = [answered EXCEPT ![d] = FALSE]
    /\ busy' = [busy EXCEPT ![d] = TRUE]
    /\ UNCHANGED <<cloudVars, acks, inbox, ackFile, ghostVars>>

-----------------------------------------------------------------------------
UiStep(d) ==
    \/ BeginProcessing(d)
    \/ \E c \in ui[d].todo : RetryAck(d, c) \/ Defer(d, c) \/ Execute(d, c)
    \/ \E saved \in SaveResults : Record(d, saved)
    \/ \E confirmed \in BOOLEAN, saved \in SaveResults : Confirm(d, confirmed, saved)
    \/ FinishProcessing(d)

CloudStep ==
    \/ \E d \in Devices, p \in Payloads : Enqueue(d, p)
    \/ \E m \in acks : ApplyAck(m) \/ LoseAck(m)
    \/ \E id \in DOMAIN rows, event \in AgeEvents : Age(id, event)
    \/ Cleanup

Next ==
    \/ CloudStep
    \/ \E d \in Devices : \/ Claim(d) \/ LoseReply(d) \/ WriteInbox(d)
                          \/ UiStep(d) \/ EndUpdate(d) \/ Restart(d)

Spec == Init /\ [][Next]_vars

(***************************************************************************)
(* Fairness.  The threads run.  A panel polls every few seconds, so a      *)
(* command that stays claimable is claimed; a poll is answered and an      *)
(* acknowledgement served again and again, some of them while the other    *)
(* side is there to take them: the network is not down for ever, and the   *)
(* redelivery period is far longer than the handling of a command.         *)
(***************************************************************************)
DeliverWhenIdle(d) == ui[d].step = "idle" /\ ~posted[d] /\ WriteInbox(d)
AnswerWaiting(d) == \E m \in acks : ApplyAck(m) /\ answered'[d] /\ ~answered[d]

FairSpec ==
    /\ Spec
    /\ \A d \in Devices :
        /\ WF_vars(UiStep(d)) /\ WF_vars(EndUpdate(d))
        /\ SF_vars(Claim(d)) /\ SF_vars(DeliverWhenIdle(d))
        /\ SF_vars(\E c \in ui[d].todo : Execute(d, c))
        /\ SF_vars(AnswerWaiting(d))
        /\ SF_vars(\E saved \in SaveResults : Confirm(d, TRUE, saved))
    /\ WF_vars(\E id \in DOMAIN rows : Age(id, "redelivery"))

-----------------------------------------------------------------------------
(* Properties.                                                             *)

\* Concurrent requests and redelivery never leave a device with two open rows for
\* the same command (enqueueCommandOnce inserts unless one is pending).
OnePendingRow ==
    \A id, other \in DOMAIN rows :
        /\ rows[id].device = rows[other].device /\ rows[id].payload = rows[other].payload
        /\ Pending(rows[id]) /\ Pending(rows[other])
        => id = other

\* A row is completed only when the panel has started an update check for it: not
\* because another check was running, not because of a crash around the recording.
CompletedWasExecuted == completed \subseteq executed

\* The commands a step starts an update check for.
Started == {ui'[d].current.birth : d \in {e \in Devices : /\ ui[e].step = "each"
                                                           /\ ui'[e].step = "record"}}

\* Once command-acks.pending holds a command, it is not carried out again before the
\* Worker has its acknowledgement, however often it is redelivered and the panel restarted.
NotRepeatedUnacknowledged == [][Started \cap recorded \subseteq completed]_vars

\* A command that does not expire is carried out and acknowledged in the end.
PendingBirths == {rows[id].birth : id \in {i \in DOMAIN rows : Pending(rows[i])}}
CommandSettles == \A birth \in 1 .. MaxBorn : birth \in PendingBirths ~> birth \notin PendingBirths
=============================================================================
