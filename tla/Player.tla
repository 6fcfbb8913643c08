------------------------------- MODULE Player -------------------------------
(* The player page (public/app-resilient.js): two video elements that take turns,
   one active and one that loads what comes next. Its functions are async: each
   runs to its next await, and a promise that is settled resumes its waiters before
   any other event. What the page calls tokens and generations are numbers that are
   only compared with the newest one; here a wait or a function that belongs to an
   older number is marked stale. *)
EXTENDS Integers, FiniteSets, FiniteSetsExt

CONSTANTS
    Orientations,       \* the choices of the filter
    Length,             \* of the list each orientation gives
    MaxSkipAttempts,    \* MAX_SKIP_ATTEMPTS
    MaxPages,           \* pages of a feed
    Calls,              \* bound: async functions under way at once
    MaxResets           \* bound: selections of another orientation, and changes of the token

PlayerAssumption ==
    /\ IsFiniteSet(Orientations) /\ \A o \in Orientations : Length[o] \in Nat \ {0}
    /\ MaxSkipAttempts \in Nat \ {0} /\ MaxPages \in Nat \ {0} /\ MaxResets \in Nat

VARIABLES
    state,      \* the page's state object, with the two elements
    token,      \* ADMIN_TOKEN is stored
    call,       \* of each call of an async function: where it awaits
    resets,
    overlapped  \* history: the newest list was started with older calls under way

vars == <<state, token, call, resets, overlapped>>

NoIndex == -1
NotANumber == -2    \* an index computed modulo an empty list

NoItems == [of |-> {}, len |-> 0]
EmptySlot == [index |-> NoIndex, pending |-> FALSE, ready |-> FALSE, src |-> NoIndex]
Free == [kind |-> "none", at |-> "free", fresh |-> TRUE, slot |-> 0, start |-> 0, offset |-> 0,
         attempts |-> 0, index |-> NoIndex, playable |-> FALSE, page |-> 0, of |-> {}]

\* Nothing else happens while a settled promise has waiters to resume.
Quiet == \A p \in Calls : call[p].at \notin {"loop", "found"}

\* What a call keeps while it goes on at another await.
At(p, at, index, playable) ==
    [Free EXCEPT !.kind = call[p].kind, !.at = at, !.fresh = call[p].fresh, !.slot = call[p].slot,
                 !.index = index, !.playable = playable]

\* Which free call a new function takes makes no difference.
Takes(p) == call[p].at = "free" /\ \A q \in Calls : q < p => call[q].at # "free"

Attempts(s) == Min({MaxSkipAttempts, s.items.len})

-----------------------------------------------------------------------------
(* Pieces without an await, as functions of the state and of the calls. *)

\* resetSlot: whoever awaits the slot awaits a token of the past.
ResetSlot(s, k) == [s EXCEPT !.slots[k] = EmptySlot]
Outdated(c, k) == [p \in Calls |-> IF c[p].at = "await" /\ c[p].slot = k
                                   THEN [c[p] EXCEPT !.at = "stale"] ELSE c[p]]

\* A new feedGeneration, with no items and both slots reset.
Cleared(s) == [s EXCEPT !.items = NoItems, !.failed = {}, !.activeIndex = NoIndex,
                        !.slots = [k \in {0, 1} |-> EmptySlot]]
Superseded(c) == LET d == Outdated(Outdated(c, 0), 1)
                 IN  [p \in Calls |-> [d[p] EXCEPT !.fresh = @ /\ d[p].kind # "show"]]

Overlaps == \E p \in Calls : call[p].at \notin {"free", "fetch"}

ResetPlaybackForMissingAuth(c) ==
    /\ state' = [Cleared(state) EXCEPT !.moving = FALSE]
    /\ call' = Superseded(c)
    /\ overlapped' = Overlaps

\* showFirst until its first request.
ShowFirst(p, s, hasToken) ==
    IF ~hasToken
    THEN /\ state' = [Cleared(s) EXCEPT !.moving = FALSE]
         /\ call' = Superseded(call)
         /\ overlapped' = Overlaps
    ELSE /\ Takes(p)
         /\ state' = [Cleared(s) EXCEPT !.moving = TRUE]
         /\ call' = [Superseded(call) EXCEPT ![p] = [Free EXCEPT !.kind = "show", !.at = "fetch",
                                                         !.page = 1, !.of = {s.orientation}]]
         /\ overlapped' = Overlaps

\* findPlayable from its beginning.
Finding(s, kind, slot, start) ==
    [Free EXCEPT !.kind = kind, !.at = "loop", !.slot = slot, !.start = start, !.attempts = Attempts(s)]

Following(s) == IF s.activeIndex = NotANumber THEN NotANumber ELSE (s.activeIndex + 1) % s.items.len

\* preloadNext, in the place of the call that ends with it.
PreloadNext(s) == IF s.items.len = 0 \/ s.activeIndex = NoIndex THEN Free
                  ELSE Finding(s, "preload", 1 - s.activeSlot, Following(s))

\* prepareFailedSlot: the last index tried is shown although it did not load.
PrepareFailedSlot(s, k, index) ==
    IF s.items.len = 0 THEN s
    ELSE [s EXCEPT !.slots[k] = [EmptySlot EXCEPT !.index = index, !.src = index]]

\* A mistake: whoever began the transition is trusted to end it.
EmptiedOnly(s, k) == ResetSlot(s, k)

TransitionOver(s, k) == [ResetSlot(s, k) EXCEPT !.moving = FALSE]

\* What is left of a transition: the old slot is emptied, the one after next loads.
EndTransition(s, c, p) ==
    LET t == TransitionOver(s, 1 - c[p].slot)
    IN  /\ state' = t
        /\ call' = [Outdated(c, 1 - c[p].slot) EXCEPT ![p] = PreloadNext(t)]

\* A mistake: an answer counts whenever it arrives.
AnyGeneration(p) == TRUE

StillCurrent(p) == call[p].fresh

\* What is left of showFirst.
EndShow(s, c, p) ==
    /\ state' = IF StillCurrent(p) THEN [s EXCEPT !.moving = FALSE] ELSE s
    /\ call' = [c EXCEPT ![p] = PreloadNext(s)]

-----------------------------------------------------------------------------
(* findPlayable and loadSlot. *)

\* A mistake: the search does not go round the end of the list.
IndexPastEnd(p, offset) == call[p].start + offset

IndexAt(p, offset) == IF state.items.len = 0 \/ call[p].start = NotANumber THEN NotANumber
                      ELSE (call[p].start + offset) % state.items.len

\* loadSlot gives up on it at once: no items, or an index that failed before.
Skipped(p, offset) == state.items.len = 0 \/ IndexAt(p, offset) \in state.failed

Tries(p) == {o \in call[p].offset .. call[p].attempts - 1 : ~Skipped(p, o)}
Try(p)   == Min(Tries(p))

\* The next index is loaded, or its load under way is joined.
LoadSlot(p) ==
    LET k == call[p].slot
        i == IndexAt(p, Try(p))
        waits == [call[p] EXCEPT !.at = "await", !.offset = Try(p), !.index = i]
    IN  /\ call[p].at = "loop" /\ Tries(p) # {} /\ i # NotANumber
        /\ ~(state.slots[k].index = i /\ state.slots[k].ready)
        /\ IF state.slots[k].index = i /\ state.slots[k].pending
           THEN /\ state' = state
                /\ call' = [call EXCEPT ![p] = waits]
           ELSE /\ state' = [state EXCEPT !.slots[k] = [index |-> i, pending |-> TRUE, ready |-> FALSE, src |-> i]]
                /\ call' = [Outdated(call, k) EXCEPT ![p] = waits]
        /\ UNCHANGED <<token, resets, overlapped>>

\* The slot already holds the index, ready to play.
AlreadyLoaded(p) ==
    LET k == call[p].slot
        i == IndexAt(p, Try(p))
    IN  /\ call[p].at = "loop" /\ Tries(p) # {} /\ i # NotANumber
        /\ state.slots[k].index = i /\ state.slots[k].ready
        /\ call' = [call EXCEPT ![p] = At(p, "found", i, TRUE)]
        /\ UNCHANGED <<state, token, resets, overlapped>>

\* No attempt is left: the last index counts, or the one that an empty list gives.
GiveUp(p) ==
    /\ call[p].at = "loop" /\ Tries(p) = {}
    /\ LET last == IF call[p].offset < call[p].attempts THEN IndexAt(p, call[p].attempts - 1) ELSE call[p].index
       IN  call' = [call EXCEPT ![p] = At(p, "found", last, FALSE)]
    /\ UNCHANGED <<state, token, resets, overlapped>>

\* items[NaN].mediaUrl is a TypeError, after the slot was reset.
LoopThrows(p) ==
    LET s == ResetSlot(state, call[p].slot) IN
    /\ call[p].at = "loop" /\ Tries(p) # {} /\ IndexAt(p, Try(p)) = NotANumber
    /\ state' = IF call[p].kind = "next" THEN [s EXCEPT !.moving = FALSE] ELSE s
    /\ call' = [Outdated(call, call[p].slot) EXCEPT ![p] = Free]
    /\ UNCHANGED <<token, resets, overlapped>>

\* waitForVideo: the element has data, reports an error, or the timer decides. A
\* failure is remembered and empties the slot.
LoadSettles(k, ok) ==
    LET i == state.slots[k].index
        Resumed(p) == call[p].at = "await" /\ call[p].slot = k
    IN  /\ Quiet /\ state.slots[k].pending
        /\ state' = IF ok THEN [state EXCEPT !.slots[k].pending = FALSE, !.slots[k].ready = TRUE,
                                             !.failed = @ \ {i}]
                    ELSE [ResetSlot(state, k) EXCEPT !.failed = @ \cup {i}]
        /\ call' = [p \in Calls |->
                      IF ~Resumed(p) THEN call[p]
                      ELSE IF ok THEN At(p, "found", call[p].index, TRUE)
                      ELSE [call[p] EXCEPT !.at = "loop", !.offset = @ + 1]]
        /\ UNCHANGED <<token, resets, overlapped>>

\* The wait of a token of the past resolves to false, and its loop goes on.
StaleWaitEnds(p) ==
    /\ Quiet /\ call[p].at = "stale"
    /\ call' = [call EXCEPT ![p].at = "loop", ![p].offset = @ + 1]
    /\ UNCHANGED <<state, token, resets, overlapped>>

-----------------------------------------------------------------------------
(* showFirst, nextVideo and preloadNext after findPlayable. *)

PreloadFound(p) ==
    /\ call[p].at = "found" /\ call[p].kind = "preload"
    /\ call' = [call EXCEPT ![p] = Free]
    /\ UNCHANGED <<state, token, resets, overlapped>>

Shown(p) == LET s == IF call[p].playable THEN state ELSE PrepareFailedSlot(state, 0, call[p].index)
            IN  [s EXCEPT !.activeSlot = 0, !.activeIndex = call[p].index]

ShowFound(p) ==
    /\ call[p].at = "found" /\ call[p].kind = "show"
    /\ IF ~StillCurrent(p) THEN state' = state /\ call' = [call EXCEPT ![p] = Free]
       ELSE IF call[p].playable THEN state' = Shown(p) /\ call' = [call EXCEPT ![p] = At(p, "play", NoIndex, FALSE)]
       ELSE EndShow(Shown(p), Outdated(call, 0), p)
    /\ UNCHANGED <<token, resets, overlapped>>

\* The incoming element slides in; a timer of 190 ms ends the transition.
NextFound(p) ==
    /\ call[p].at = "found" /\ call[p].kind = "next"
    /\ state' = IF call[p].playable THEN state ELSE PrepareFailedSlot(state, call[p].slot, call[p].index)
    /\ call' = [IF call[p].playable \/ state.items.len = 0 THEN call ELSE Outdated(call, call[p].slot)
                  EXCEPT ![p].at = "swap"]
    /\ UNCHANGED <<token, resets, overlapped>>

\* Neither the generation nor what the slot holds now is looked at.
SwapEnds(p) ==
    LET s == [state EXCEPT !.activeSlot = call[p].slot, !.activeIndex = call[p].index] IN
    /\ Quiet /\ call[p].at = "swap"
    /\ IF call[p].playable THEN state' = s /\ call' = [call EXCEPT ![p] = At(p, "play", NoIndex, FALSE)]
       ELSE EndTransition(s, call, p)
    /\ UNCHANGED <<token, resets, overlapped>>

\* play() is fulfilled or rejected; while the stream stalls it is neither, and nothing
\* limits the wait for it.
PlayEnds(p) ==
    /\ Quiet /\ call[p].at = "play"
    /\ IF call[p].kind = "show" THEN EndShow(state, call, p) ELSE EndTransition(state, call, p)
    /\ UNCHANGED <<token, resets, overlapped>>

-----------------------------------------------------------------------------
(* The feed. *)

\* A page with a cursor: the next one is requested, unless the generation is past.
PageArrives(p) ==
    /\ Quiet /\ call[p].at = "fetch" /\ call[p].page < MaxPages
    /\ call' = [call EXCEPT ![p] = IF StillCurrent(p)
                                   THEN [call[p] EXCEPT !.page = @ + 1, !.of = @ \cup {state.orientation}]
                                   ELSE Free]
    /\ UNCHANGED <<state, token, resets, overlapped>>

\* The last page: the list is complete, and taken if it is still wanted.
LastPageArrives(p) ==
    LET s == [state EXCEPT !.items = [of |-> call[p].of, len |-> Length[CHOOSE o \in call[p].of : TRUE]]]
    IN  /\ Quiet /\ call[p].at = "fetch"
        /\ IF StillCurrent(p)
           THEN state' = s /\ call' = [call EXCEPT ![p] = Finding(s, "show", 0, 0)]
           ELSE state' = state /\ call' = [call EXCEPT ![p] = Free]
        /\ UNCHANGED <<token, resets, overlapped>>

\* A page fails, or the feed is empty.
FeedFails(p) ==
    /\ Quiet /\ call[p].at = "fetch"
    /\ state' = IF StillCurrent(p) THEN [state EXCEPT !.moving = FALSE] ELSE state
    /\ call' = [call EXCEPT ![p] = Free]
    /\ UNCHANGED <<token, resets, overlapped>>

\* 401: adminFetch clears the token, which resets the page, and gives up.
PageRejected(p) ==
    /\ Quiet /\ call[p].at = "fetch" /\ token
    /\ token' = FALSE
    /\ ResetPlaybackForMissingAuth([call EXCEPT ![p] = Free])
    /\ UNCHANGED resets

-----------------------------------------------------------------------------
(* The viewer. *)

\* A swipe, a key, the end of the active video, or its block.
NextVideo(p) ==
    /\ Quiet
    /\ IF ~token THEN ResetPlaybackForMissingAuth(call)
       ELSE /\ ~state.moving /\ state.items.len > 0
            /\ Takes(p)
            /\ state' = [state EXCEPT !.moving = TRUE]
            /\ call' = [call EXCEPT ![p] = Finding(state, "next", 1 - state.activeSlot, Following(state))]
            /\ overlapped' = overlapped
    /\ UNCHANGED <<token, resets>>

SelectOrientation(o, p) ==
    /\ Quiet
    /\ o # state.orientation
    /\ resets < MaxResets /\ resets' = resets + 1
    /\ ShowFirst(p, [state EXCEPT !.orientation = o], token)
    /\ UNCHANGED token

\* The token is cleared on this page, or in another tab, which this one does not hear of.
TokenRemoved(here) ==
    /\ Quiet /\ token
    /\ resets < MaxResets /\ resets' = resets + 1
    /\ token' = FALSE
    /\ IF here THEN ResetPlaybackForMissingAuth(call) ELSE UNCHANGED <<state, call, overlapped>>

TokenStored(p) ==
    /\ Quiet /\ ~token
    /\ resets < MaxResets /\ resets' = resets + 1
    /\ token' = TRUE
    /\ IF state.items.len = 0 /\ ~state.moving THEN ShowFirst(p, state, TRUE)
       ELSE UNCHANGED <<state, call, overlapped>>

\* An element fails after it had data; the active one's index is remembered.
MediaError(k) ==
    /\ Quiet /\ state.slots[k].ready
    /\ state' = [state EXCEPT !.slots[k].ready = FALSE,
                              !.failed = IF k = state.activeSlot /\ state.activeIndex >= 0 /\ ~state.moving
                                         THEN @ \cup {state.activeIndex} ELSE @]
    /\ UNCHANGED <<token, call, resets, overlapped>>

-----------------------------------------------------------------------------
Init ==
    /\ \E o \in Orientations :
        state = [orientation |-> o, items |-> NoItems, failed |-> {}, activeSlot |-> 0,
                 activeIndex |-> NoIndex, slots |-> [k \in {0, 1} |-> EmptySlot], moving |-> FALSE]
    /\ token = FALSE
    /\ call = [p \in Calls |-> Free]
    /\ resets = 0 /\ overlapped = FALSE

\* All that a call awaits but play().
CallGoesOn(p) ==
    \/ LoadSlot(p) \/ AlreadyLoaded(p) \/ GiveUp(p) \/ LoopThrows(p) \/ StaleWaitEnds(p)
    \/ PreloadFound(p) \/ ShowFound(p) \/ NextFound(p) \/ SwapEnds(p)
    \/ PageArrives(p) \/ LastPageArrives(p) \/ FeedFails(p) \/ PageRejected(p)

CallStep(p) == CallGoesOn(p) \/ PlayEnds(p)

ElementStep(k) == \E ok \in BOOLEAN : LoadSettles(k, ok)

ViewerStep ==
    \/ \E p \in Calls : NextVideo(p) \/ TokenStored(p) \/ \E o \in Orientations : SelectOrientation(o, p)
    \/ \E here \in BOOLEAN : TokenRemoved(here)

Next ==
    \/ \E p \in Calls : CallStep(p)
    \/ \E k \in {0, 1} : ElementStep(k) \/ MediaError(k)
    \/ ViewerStep

Spec == Init /\ [][Next]_vars

\* Timers fire, requests settle, microtasks run. A wait for data ends by its timer; that
\* for play() has none, and may never end.
Fairness ==
    /\ \A p \in Calls : WF_vars(CallGoesOn(p))
    /\ \A k \in {0, 1} : WF_vars(ElementStep(k))

FairSpec == Spec /\ Fairness

-----------------------------------------------------------------------------
TypeOK ==
    LET Indexes == NotANumber .. Max({Length[o] : o \in Orientations}) - 1 IN
    /\ state.orientation \in Orientations /\ state.items.of \subseteq Orientations
    /\ state.items.len \in Nat /\ state.failed \subseteq Indexes
    /\ state.activeSlot \in {0, 1} /\ state.activeIndex \in Indexes /\ state.moving \in BOOLEAN
    /\ state.slots \in [{0, 1} -> [index : Indexes, pending : BOOLEAN, ready : BOOLEAN, src : Indexes]]
    /\ token \in BOOLEAN /\ overlapped \in BOOLEAN /\ resets \in 0 .. MaxResets
    /\ \A p \in Calls :
        /\ call[p].kind \in {"none", "show", "next", "preload"}
        /\ call[p].at \in {"free", "fetch", "loop", "await", "stale", "found", "swap", "play"}
        /\ call[p].index \in Indexes /\ call[p].start \in Indexes /\ call[p].slot \in {0, 1}

\* Whatever requests of older selections still arrive, and in whatever order, the list
\* on the page is the one of the orientation that is selected.
ListMatchesSelection == state.items.len > 0 => state.items.of = {state.orientation}

\* The item the page calls active, which a block request names, is the one in the active
\* element; shown unless the newest list began with older calls still under way.
ActiveSlotHoldsActiveItem ==
    ~overlapped /\ state.activeIndex # NoIndex =>
        state.slots[state.activeSlot].src = state.activeIndex

\* play() is what the page waits for: a function that ends what moves awaits it, and all
\* the others have ended, but for what loads ahead.
OnlyPlayIsLeft ==
    /\ \E p \in Calls : call[p].at = "play" /\ (call[p].kind = "next" \/ StillCurrent(p))
    /\ \A p \in Calls : call[p].at \in {"free", "play"} \/ call[p].kind = "preload"

\* A transition ends, whatever loads, fails or is reset meanwhile: the page can be swiped
\* again, unless a video that has begun stalls in play().
NeverStuckMoving == state.moving ~> ~state.moving \/ OnlyPlayIsLeft
=============================================================================
