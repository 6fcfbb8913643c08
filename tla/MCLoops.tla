------------------------------ MODULE MCLoops ------------------------------
(* What goes on by itself and must get somewhere, for TLC: the delivery of samples
   (Telemetry) and, each in a small instance, presence at home, a collection of videos
   and the player's page. A behaviour is one of a single component, `part`, under its
   fairness; the others rest in their initial states. One run then explores the sum of
   their states, not the product. *)
EXTENDS MCTelemetry

CONSTANTS
    Webhooks, MaxEvents, MaxLosses,                                         \* SwitchBot
    Sources, Items, Excluded, MaxFaults,                                    \* CollectionRun
    Orientations, Length, MaxSkipAttempts, MaxPages, Calls, MaxResets       \* Player

VARIABLES
    part,
    home, event, row, op, events, losses,
    group, cur, parent, runner, task, aborted, marked, rec, seen, stored, lost, finalError, faults,
    state, token, call, resets, overlapped

presenceVars   == <<home, event, row, op, events, losses>>
collectionVars == <<group, cur, parent, runner, task, aborted, marked, rec, seen, stored,
                    lost, finalError, faults>>
pageVars       == <<state, token, call, resets, overlapped>>

Presence   == INSTANCE SwitchBot WITH MaxFaults <- MaxLosses, faults <- losses
Collecting == INSTANCE CollectionRun
Page       == INSTANCE Player

\* The lists of the page for TLC.
TwoLists == [both |-> 2, vertical |-> 1]

ASSUME PresenceAssumption   == Presence!SwitchBotAssumption
ASSUME CollectionAssumption == Collecting!CollectionAssumption
ASSUME PlayerAssumption     == Page!PlayerAssumption

-----------------------------------------------------------------------------
LoopsInit ==
    /\ part \in {"telemetry", "presence", "collection", "page"}
    /\ Init /\ Presence!Init /\ Collecting!Init
    /\ Page!Init /\ (part # "page" => state.orientation = CHOOSE o \in Orientations : TRUE)

LoopsNext ==
    /\ part' = part
    /\ \/ /\ part = "telemetry" /\ Next
          /\ UNCHANGED <<presenceVars, collectionVars, pageVars>>
       \/ /\ part = "presence" /\ Presence!Next
          /\ UNCHANGED <<vars, collectionVars, pageVars>>
       \/ /\ part = "collection" /\ Collecting!Next
          /\ UNCHANGED <<vars, presenceVars, pageVars>>
       \/ /\ part = "page" /\ Page!Next
          /\ UNCHANGED <<vars, presenceVars, collectionVars>>

\* Fairness of each module, while the behaviour is one of it.
PresenceFairness == LET On == part = "presence" IN
    /\ WF_presenceVars(On /\ Presence!Age)
    /\ \A o \in Presence!Ops : WF_presenceVars(On /\ Presence!Step(o))

CollectionFairness == LET On == part = "collection" IN
    /\ WF_collectionVars(On /\ Collecting!GroupStep)
    /\ \A s \in Sources :
          /\ WF_collectionVars(On /\ \E fails \in BOOLEAN : Collecting!RunnerStep(s, fails))
          /\ WF_collectionVars(On /\ (Collecting!Abort(s) \/ Collecting!RaceSettles(s)))

PageFairness == LET On == part = "page" IN
    /\ \A p \in Calls : WF_pageVars(On /\ Page!CallGoesOn(p))
    /\ \A k \in {0, 1} : WF_pageVars(On /\ Page!ElementStep(k))

LoopsSpec ==
    /\ LoopsInit /\ [][LoopsNext]_<<part, vars, presenceVars, collectionVars, pageVars>>
    /\ \/ part = "telemetry" /\ Fairness
       \/ part # "telemetry" /\ PresenceFairness /\ CollectionFairness /\ PageFairness

-----------------------------------------------------------------------------
\* The type invariants of the components.
TypesOK ==
    CASE part = "telemetry"  -> TypeOK
      [] part = "presence"   -> Presence!TypeOK
      [] part = "collection" -> Collecting!TypeOK
      [] part = "page"       -> Page!TypeOK

\* SwitchBot: the row says away only once the plug was off or turned off.
AwayIsControlled == Presence!AwayIsControlled

\* SwitchBot: an exit that was noticed ends one way or the other.
ExitSettles == Presence!ExitSettles

\* CollectionRun: the rows say what became of the sources, and what was stored.
CollectionIsRecorded == Collecting!OutcomeIsRecorded /\ Collecting!CreditedIsStored

\* Player: the list and the active element are those the page's state names.
PageIsConsistent == Page!ListMatchesSelection /\ Page!ActiveSlotHoldsActiveItem

\* CollectionRun and Player: a source that hangs holds nothing up, nor does a video whose
\* data does not come; a play() that stays pending does, and nothing else.
NothingHangs == Page!NeverStuckMoving /\ (part = "collection" => Collecting!GroupEnds)
=============================================================================
