--------------------------- MODULE PlaybackPages ---------------------------
(* A player walks the shuffled feed page by page (playback-feed.js,
   playback-cursor.js, oriented-playback-feed.js). The feed is a ring of videos
   in the order of a shuffle key; a seed says where to enter it: phase 0 is from
   there to the end, phase 1 from the beginning to there. Every page is one or
   more queries, between which the feed may change, and ends in a cursor that
   names the last row it looked at. *)
EXTENDS Integers, FiniteSets, Sequences, FiniteSetsExt

CONSTANTS
    Videos,         \* ids
    Landscape,      \* those of landscape orientation
    Seeds,          \* the seeds players draw
    Modulus, Multiplier, Increment, \* of the shuffle
    Limit,          \* rows a page may have
    ScanLimit,      \* rows an oriented page may look at
    QueryFloor,     \* ORIENTATION_QUERY_FLOOR
    MaxChanges      \* bound: changes of the feed

PagesAssumption ==
    /\ IsFiniteSet(Videos) /\ Videos \subseteq Nat \ {0} /\ Landscape \subseteq Videos
    /\ Seeds \subseteq Nat \ {0}
    /\ Modulus \in Nat \ {0} /\ Multiplier \in Nat /\ Increment \in Nat
    /\ Limit \in Nat \ {0} /\ ScanLimit \in Nat \ {0} /\ Limit <= ScanLimit
    /\ QueryFloor \in Nat \ {0} /\ MaxChanges \in Nat

VARIABLES
    playable,   \* in ranking_entries of '24h', status active
    seed,       \* of the walk
    filter,     \* its orientation: "both" or "landscape"
    cursor,     \* what the player asks for next: [phase, row], row 0 at the start
    page,       \* the page being read
    walk,       \* "walking", "ended", or "fallback" when the feed was empty
    served,     \* history: what the player was given, in order
    steady,     \* history: playable since the walk began
    changes

vars == <<playable, seed, filter, cursor, page, walk, served, steady, changes>>

-----------------------------------------------------------------------------
(* The ring. *)

ShuffleKey(v) == ((v % Modulus) * Multiplier) % Modulus

SeedShufflePivot == LET shift == (seed * Increment) % Modulus
                    IN  IF shift = 0 THEN 0 ELSE Modulus - shift

Before(v, w) == \/ ShuffleKey(v) < ShuffleKey(w)
                \/ ShuffleKey(v) = ShuffleKey(w) /\ v < w

InPhase(v, phase) == IF phase = 0 THEN ShuffleKey(v) >= SeedShufflePivot
                                  ELSE ShuffleKey(v) < SeedShufflePivot

\* ORDER BY: the i-th row is the one that i - 1 others come before.
InOrder(rows) == [i \in 1 .. Cardinality(rows) |->
                    CHOOSE v \in rows : Cardinality({w \in rows : Before(w, v)}) = i - 1]

\* cursorRangeStatement: the first rows of a phase, after the row of the cursor.
Rows(phase, row, count) ==
    LET rows == InOrder({v \in playable : InPhase(v, phase) /\ (row = 0 \/ Before(row, v))})
    IN  SubSeq(rows, 1, IF Len(rows) < count THEN Len(rows) ELSE count)

-----------------------------------------------------------------------------
(* One page. *)

Start == [phase |-> 0, row |-> 0]
NoPage == [at |-> "none", phase |-> 0, row |-> 0, found |-> <<>>, scanned |-> 0, last |-> Start]

Request ==
    /\ walk = "walking" /\ page.at = "none"
    /\ page' = [NoPage EXCEPT !.at = "reading", !.phase = cursor.phase, !.row = cursor.row]
    /\ UNCHANGED <<playable, seed, filter, cursor, walk, served, steady, changes>>

\* The page is answered: with a cursor when there may be more.
Answer(items, more, last) ==
    /\ page' = NoPage
    /\ served' = served \o items
    /\ cursor' = last
    /\ walk' = IF more THEN "walking" ELSE "ended"

\* An empty feed: the newest active videos, without a cursor. At most one query is
\* left, for rows outside of the feed, so its answer is not followed up.
Fallback ==
    /\ page' = NoPage /\ served' = served /\ cursor' = cursor
    /\ walk' = "fallback"

Ids(found) == [i \in 1 .. Len(found) |-> found[i].row]

\* A mistake: the cursor names the row that was only read to see whether there are more.
LastRead(found, taken) == found[Len(found)]

LastTaken(found, taken) == taken[Len(taken)]

\* One query of collectPlaybackCursorPage, which asks for a row more than it needs.
QueryAll ==
    LET requested == Limit + 1 - Len(page.found)
        batch == Rows(page.phase, page.row, requested)
        found == page.found \o [i \in 1 .. Len(batch) |-> [phase |-> page.phase, row |-> batch[i]]]
        more  == Len(found) > Limit \/ Len(batch) >= requested
        taken == SubSeq(found, 1, IF Len(found) < Limit THEN Len(found) ELSE Limit)
    IN  /\ page.at = "reading" /\ filter = "both"
        /\ IF ~more /\ page.phase = 0
           THEN /\ page' = [page EXCEPT !.phase = 1, !.row = 0, !.found = found]
                /\ UNCHANGED <<cursor, walk, served>>
           ELSE IF taken = <<>> /\ cursor = Start THEN Fallback
           ELSE Answer(Ids(taken), more /\ taken # <<>>,
                       IF taken = <<>> THEN Start ELSE LastTaken(found, taken))
        /\ UNCHANGED <<playable, seed, filter, steady, changes>>

Matches(v) == v \in Landscape

\* One query of readOrientationPlaybackCursorPage: rows are looked at one by one until
\* the page is full or the query's budget is spent.
QueryOriented ==
    LET wanted == Limit - Len(page.found)
        budget == Min({ScanLimit - page.scanned, Max({QueryFloor, wanted})})
        batch  == Rows(page.phase, page.row, budget + 1)
        usable == Min({Len(batch), budget})
        \* Of the first n rows those of the orientation.
        Found(n) == InOrder({v \in playable : Matches(v) /\ \E i \in 1 .. n : batch[i] = v})
        full   == {n \in 1 .. usable : Len(Found(n)) >= wanted}
        looked == IF full # {} THEN Min(full) ELSE usable
        scanned == page.scanned + looked
        found  == page.found \o Found(looked)
        last   == IF looked = 0 THEN page.last ELSE [phase |-> page.phase, row |-> batch[looked]]
        spent  == scanned >= ScanLimit
    IN  /\ page.at = "reading" /\ filter = "landscape"
        /\ CASE full # {} ->
                    Answer(found, looked < Len(batch) \/ page.phase = 0 \/ spent, last)
             [] full = {} /\ spent /\ (Len(batch) > budget \/ page.phase = 0) ->
                    Answer(found, TRUE, last)
             [] full = {} /\ ~spent /\ (Len(batch) > budget \/ page.phase = 0) ->
                    /\ page' = [page EXCEPT !.phase = IF Len(batch) > budget THEN @ ELSE 1,
                                            !.row = IF Len(batch) > budget THEN last.row ELSE 0,
                                            !.found = found, !.scanned = scanned, !.last = last]
                    /\ UNCHANGED <<cursor, walk, served>>
             [] OTHER -> IF scanned = 0 /\ cursor = Start THEN Fallback
                         ELSE Answer(found, FALSE, last)
        /\ UNCHANGED <<playable, seed, filter, steady, changes>>

\* A collection, a block, the liveness monitor: a video leaves the feed or comes in.
FeedChanges(v) ==
    /\ walk = "walking" /\ changes < MaxChanges
    /\ playable' = IF v \in playable THEN playable \ {v} ELSE playable \cup {v}
    /\ steady' = steady \ {v}
    /\ changes' = changes + 1
    /\ UNCHANGED <<seed, filter, cursor, page, walk, served>>

-----------------------------------------------------------------------------
Init ==
    /\ playable \in SUBSET Videos
    /\ seed \in Seeds
    /\ filter \in {"both", "landscape"}
    /\ cursor = Start /\ page = NoPage /\ walk = "walking"
    /\ served = <<>> /\ steady = playable /\ changes = 0

Next ==
    \/ Request \/ QueryAll \/ QueryOriented
    \/ \E v \in Videos : FeedChanges(v)

Spec == Init /\ [][Next]_vars

-----------------------------------------------------------------------------
TypeOK ==
    LET Places == [phase : {0, 1}, row : Videos \cup {0}] IN
    /\ playable \subseteq Videos /\ steady \subseteq Videos
    /\ seed \in Seeds /\ filter \in {"both", "landscape"}
    /\ cursor \in Places
    /\ page.at \in {"none", "reading"} /\ page.phase \in {0, 1} /\ page.row \in Videos \cup {0}
    /\ page.scanned \in 0 .. ScanLimit /\ page.last \in Places
    /\ walk \in {"walking", "ended", "fallback"}
    /\ served \in Seq(Videos) /\ changes \in 0 .. MaxChanges

Wanted(v) == filter = "both" \/ Matches(v)

\* Whatever leaves and enters the feed between the pages and inside of them, a walk
\* never gives a video twice, and one that has ended gave every wanted video that was
\* in the feed throughout.
WalkIsExact ==
    /\ \A i, j \in DOMAIN served : served[i] = served[j] => i = j
    /\ walk = "ended" => \A v \in steady : Wanted(v) => \E i \in DOMAIN served : served[i] = v
=============================================================================
