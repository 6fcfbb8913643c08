---------------------------- MODULE SourcesProofs ----------------------------
(* Proofs about the components MCSources puts side by side, for any values of their
   constants: UpdateCheck, SpotifyAuth, Radar and Octopus. The first
   section ends in the theorem about the announcement of releases. Those about Spotify,
   the radar, the sums of Octopus and its answer end in lemmas that the invariant of the
   component is kept by its steps; the last is about the specification of all of them. *)
EXTENDS MCSources, FiniteFacts

-----------------------------------------------------------------------------
(* UpdateCheck: a check tells the devices it has read one by one. What it has behind it
   are the devices with a row, and rows stay. *)

RowsOf(table, d, r) == {id \in DOMAIN table : table[id].device = d /\ table[id].payload = r}

\* What check c has behind it, with the release top, the devices known and the table of now.
CheckOK(c, top, devices, table) ==
    /\ c.step # "idle" => c.seen \in 1 .. top
    /\ c.step \in {"queue", "find"} =>
          /\ c.todo # {}
          /\ \A d \in devices[c.seen] : d \in c.todo \/ RowsOf(table, d, c.seen) # {}
    /\ c.step = "store" => c.first \/ \A d \in devices[c.seen] : RowsOf(table, d, c.seen) # {}

Typed ==
    /\ release \in 0 .. MaxRelease /\ announced \in 0 .. release
    /\ known \subseteq Devices
    /\ check \in [Isolates -> Check]
    /\ rows = [id \in DOMAIN rows |-> rows[id]]
    /\ audience \in [Payloads -> SUBSET Devices]

UInv ==
    /\ Typed
    /\ \A r \in 1 .. release : audience[r] \subseteq known
    /\ \A w \in Isolates : CheckOK(check[w], release, audience, rows)
    /\ AnnouncedWasCommanded

-----------------------------------------------------------------------------
(* The table keeps what it has. *)

LEMMA Numbers == MaxRelease \in Nat /\ MaxRelease > 0 /\ Payloads = 1 .. MaxRelease
BY UpdateAssumption

\* An insertion adds a row for the device, or leaves the table alone.
LEMMA InsertionKeeps ==
    ASSUME NEW table, table = [id \in DOMAIN table |-> table[id]],
           NEW d, NEW r, NEW birth, NEW new, new = Inserted(table, d, r, birth)
    PROVE  /\ new = [id \in DOMAIN new |-> new[id]]
           /\ \A id \in DOMAIN table : id \in DOMAIN new /\ new[id] = table[id]
           /\ new # table => \E id \in DOMAIN new : new[id].device = d /\ new[id].payload = r
<1> DEFINE fresh == NewId(table)
           row == NewRow(d, r, birth)
<1>1. CASE PendingFor(table, d, r) # {}
  BY <1>1 DEF Inserted
<1>2. CASE PendingFor(table, d, r) = {}
  <2>1. new = [id \in DOMAIN table \cup {fresh} |-> IF id \in DOMAIN table THEN table[id] ELSE row]
    BY <1>2 DEF Inserted
  <2>2. row.device = d /\ row.payload = r
    BY DEF NewRow
  <2> HIDE DEF fresh, row
  <2>3. CASE fresh \in DOMAIN table
    <3>1. DOMAIN table \cup {fresh} = DOMAIN table
      BY <2>3
    <3>2. new = [id \in DOMAIN table |-> table[id]]
      BY <2>1, <3>1
    <3>3. QED
      BY <3>2
  <2>4. CASE fresh \notin DOMAIN table
    <3>1. fresh \in DOMAIN new /\ new[fresh] = row
      BY <2>1, <2>4
    <3>2. QED
      BY <2>1, <2>2, <3>1
  <2>5. QED
    BY <2>3, <2>4
<1>3. QED
  BY <1>1, <1>2

\* Rows stay, and stay those of their device and release.
RowsKept ==
    /\ rows' = [id \in DOMAIN rows' |-> rows'[id]]
    /\ \A id \in DOMAIN rows :
          /\ id \in DOMAIN rows'
          /\ rows'[id].device = rows[id].device /\ rows'[id].payload = rows[id].payload

LEMMA KeptRowsCount ==
    ASSUME RowsKept, NEW d, NEW r, RowsOf(rows, d, r) # {}
    PROVE  RowsOf(rows', d, r) # {}
BY DEF RowsKept, RowsOf

LEMMA AcknowledgementKeeps ==
    ASSUME Typed, NEW id \in DOMAIN rows, Acknowledge(id)
    PROVE  RowsKept
<1>1. rows' = Acknowledged(rows, rows[id].device, id) /\ rows' # rows
  BY DEF Acknowledge
<1>2. rows' = [rows EXCEPT ![id] = [rows[id] EXCEPT !.completed = TRUE, !.retained = TRUE]]
  BY <1>1 DEF Acknowledged
<1>3. rows = [i \in DOMAIN rows |-> rows[i]]
  BY DEF Typed
<1> DEFINE row == [rows[id] EXCEPT !.completed = TRUE, !.retained = TRUE]
<1>4. row.device = rows[id].device /\ row.payload = rows[id].payload
  OBVIOUS
<1> HIDE DEF row
<1>5. rows' = [rows EXCEPT ![id] = row]
  BY <1>2 DEF row
<1>6. QED
  BY <1>3, <1>4, <1>5 DEF RowsKept

-----------------------------------------------------------------------------
(* What a step has to show. *)

LEMMA Preserved ==
    ASSUME UInv, Typed', RowsKept, release =< release',
           \A r \in 1 .. release : audience'[r] = audience[r],
           \A r \in 1 .. release' : audience'[r] \subseteq known',
           \A w \in Isolates : check'[w] = check[w] \/ CheckOK(check'[w], release', audience', rows'),
           \/ announced' = announced /\ baselines' = baselines
           \/ AnnouncedWasCommanded'
    PROVE  UInv'
<1>1. release \in Nat /\ release' \in Nat
  BY Numbers DEF UInv, Typed
<1>2. ASSUME NEW w \in Isolates PROVE CheckOK(check'[w], release', audience', rows')
  <2>1. CASE check'[w] = check[w]
    <3>1. CheckOK(check[w], release, audience, rows)
      BY DEF UInv
    <3>2. check[w].step # "idle" =>
              check[w].seen \in 1 .. release /\ check[w].seen \in 1 .. release'
      BY <1>1, <3>1 DEF CheckOK
    <3>3. QED
      BY <2>1, <3>1, <3>2, KeptRowsCount DEF CheckOK
  <2>2. QED
    BY <2>1
<1>3. AnnouncedWasCommanded'
  <2>1. CASE announced' = announced /\ baselines' = baselines
    <3>1. announced # 0 => announced \in 1 .. release
      BY <1>1 DEF UInv, Typed
    <3>2. QED
      BY <2>1, <3>1, KeptRowsCount DEF UInv, AnnouncedWasCommanded, RowsFor, RowsOf
  <2>2. QED
    BY <2>1
<1>4. QED
  BY <1>2, <1>3 DEF UInv

\* A step of one check that leaves releases, devices and the announcement alone.
LEMMA OwnStep ==
    ASSUME UInv, NEW w \in Isolates, NEW next \in Check, Step(w, next), RowsKept,
           UNCHANGED <<release, announced, known, audience, baselines>>,
           CheckOK(next, release', audience', rows')
    PROVE  UInv'
<1>1. check \in [Isolates -> Check] /\ check' = [check EXCEPT ![w] = next]
  BY DEF UInv, Typed, Step
<1>2. check' \in [Isolates -> Check] /\ check'[w] = next
      /\ \A v \in Isolates : v # w => check'[v] = check[v]
  BY <1>1
<1>3. Typed'
  BY <1>2 DEF UInv, Typed, RowsKept
<1>4. CheckOK(check'[w], release', audience', rows')
  BY <1>2
<1>5. release \in Nat
  BY Numbers DEF UInv, Typed
<1>6. QED
  BY <1>2, <1>3, <1>4, <1>5, Preserved DEF UInv

-----------------------------------------------------------------------------
(* The steps. *)

LEMMA RowsUntouched == ASSUME UInv, UNCHANGED rows PROVE RowsKept
BY DEF UInv, Typed, RowsKept

\* A check that has begun, and its fields.
LEMMA CheckFacts ==
    ASSUME UInv, NEW w \in Isolates
    PROVE  /\ check[w] \in Check /\ CheckOK(check[w], release, audience, rows) /\ IdleCheck \in Check
           /\ IdleCheck.step = "idle"
           /\ check[w].step # "idle" =>
                 /\ check[w].seen \in 1 .. release /\ check[w].seen \in Payloads
                 /\ audience[check[w].seen] \subseteq known
           /\ release \in Nat /\ release =< MaxRelease
<1>1. check[w] \in Check /\ CheckOK(check[w], release, audience, rows) /\ release \in Nat /\ release =< MaxRelease
  BY Numbers DEF UInv, Typed
<1>2. IdleCheck \in Check /\ IdleCheck.step = "idle"
  BY Numbers DEF IdleCheck, Check
<1>3. check[w].step # "idle" =>
          /\ check[w].seen \in 1 .. release /\ check[w].seen \in Payloads
          /\ audience[check[w].seen] \subseteq known
  BY <1>1, Numbers DEF CheckOK, UInv
<1>4. QED
  BY <1>1, <1>2, <1>3

LEMMA PublishStep == ASSUME UInv, Publish PROVE UInv'
<1>1. /\ release < MaxRelease /\ release' = release + 1
      /\ audience' = [audience EXCEPT ![release + 1] = known]
      /\ UNCHANGED <<announced, known, check, rows, baselines>>
  BY DEF Publish
<1>2. release \in Nat /\ MaxRelease \in Nat /\ release + 1 \in Payloads /\ known \subseteq Devices
      /\ audience \in [Payloads -> SUBSET Devices] /\ announced \in 0 .. release
  BY <1>1, Numbers DEF UInv, Typed
<1>3. /\ audience' \in [Payloads -> SUBSET Devices] /\ audience'[release + 1] = known
      /\ \A r \in 1 .. release : audience'[r] = audience[r]
  <2>1. \A r \in 1 .. release : r \in Payloads /\ r # release + 1
    BY <1>1, <1>2, Numbers
  <2>2. QED
    BY <1>1, <1>2, <2>1
<1>4. Typed'
  <2>1. release' \in 0 .. MaxRelease /\ announced' \in 0 .. release'
    BY <1>1, <1>2
  <2>2. QED
    BY <1>1, <1>3, <2>1 DEF UInv, Typed
<1>5. \A r \in 1 .. release' : audience'[r] \subseteq known'
  <2>1. \A r \in 1 .. release' : r = release + 1 \/ r \in 1 .. release
    BY <1>1, <1>2
  <2>2. QED
    BY <1>1, <1>3, <2>1 DEF UInv
<1>6. RowsKept
  BY <1>1, RowsUntouched
<1>7. QED
  BY <1>1, <1>2, <1>3, <1>4, <1>5, <1>6, Preserved

LEMMA OutsideStep ==
    ASSUME UInv, (\E d \in Devices : Join(d)) \/ (\E id \in DOMAIN rows : Acknowledge(id))
                 \/ UNCHANGED vars
    PROVE  UInv'
<1>1. /\ UNCHANGED <<release, announced, check, audience, baselines>>
      /\ known \subseteq known' /\ known' \subseteq Devices
  BY DEF Join, Acknowledge, vars, UInv, Typed
<1>2. RowsKept
  BY RowsUntouched, AcknowledgementKeeps DEF Join, vars, UInv
<1>3. Typed'
  BY <1>1, <1>2 DEF UInv, Typed, RowsKept
<1>4. release \in Nat
  BY Numbers DEF UInv, Typed
<1>5. QED
  BY <1>1, <1>2, <1>3, <1>4, Preserved DEF UInv

LEMMA ReadStep ==
    ASSUME UInv, NEW w \in Isolates, ReadManifest(w) \/ ReadPrevious(w) \/ ReadDevices(w)
    PROVE  UInv'
<1>1. /\ UNCHANGED <<release, announced, known, rows, audience, baselines>> /\ RowsKept
  BY RowsUntouched DEF ReadManifest, ReadPrevious, ReadDevices
<1>2. CheckOK(IdleCheck, release', audience', rows')
  BY CheckFacts DEF CheckOK
<1>3. CASE ReadManifest(w)
  <2> DEFINE next == [IdleCheck EXCEPT !.step = "previous", !.seen = release]
  <2>1. release \in 1 .. release /\ release \in 0 .. MaxRelease
    BY <1>3, CheckFacts DEF ReadManifest
  <2>2. next \in Check /\ next.step = "previous" /\ next.seen = release
    BY <2>1, CheckFacts DEF IdleCheck, Check
  <2>3. Step(w, next)
    BY <1>3 DEF ReadManifest
  <2> HIDE DEF next
  <2>4. CheckOK(next, release', audience', rows')
    BY <1>1, <2>1, <2>2 DEF CheckOK
  <2>5. QED
    BY <1>1, <2>2, <2>3, <2>4, OwnStep
<1>4. CASE ReadPrevious(w)
  <2> DEFINE s == AfterPrevious(check[w].seen, announced)
             next == [check[w] EXCEPT !.step = s, !.first = (announced = 0)]
  <2>1. check[w].step = "previous" /\ Step(w, IF s = "idle" THEN IdleCheck ELSE next)
    BY <1>4 DEF ReadPrevious
  <2>2. CASE s = "idle"
    BY <1>1, <1>2, <2>1, <2>2, CheckFacts, OwnStep
  <2>3. CASE s # "idle"
    <3>1. s \in {"store", "devices"} /\ (s = "store" => announced = 0)
      BY <2>3 DEF AfterPrevious
    <3>2. next \in Check /\ next.step = s /\ next.first = (announced = 0)
          /\ next.seen = check[w].seen
      BY <3>1, CheckFacts DEF Check
    <3>3. CheckOK(next, release', audience', rows')
      BY <1>1, <2>1, <3>1, <3>2, CheckFacts DEF CheckOK
    <3>4. QED
      BY <1>1, <2>1, <2>3, <3>2, <3>3, OwnStep
  <2>4. QED
    BY <2>2, <2>3
<1>5. CASE ReadDevices(w)
  <2> DEFINE s == IF known = {} THEN "store" ELSE "queue"
             next == [check[w] EXCEPT !.step = s, !.todo = known]
  <2>1. check[w].step = "devices" /\ Step(w, next)
    BY <1>5 DEF ReadDevices
  <2>2. known \subseteq Devices /\ s \in {"store", "queue"} /\ (s = "queue" <=> known # {})
    BY DEF UInv, Typed
  <2> HIDE DEF s
  <2>3. next \in Check /\ next.step = s /\ next.todo = known /\ next.seen = check[w].seen
    BY <2>2, CheckFacts DEF Check
  <2> HIDE DEF next
  <2>4. CheckOK(next, release', audience', rows')
    BY <1>1, <2>1, <2>2, <2>3, CheckFacts DEF CheckOK
  <2>5. QED
    BY <1>1, <2>1, <2>3, <2>4, OwnStep
<1>6. QED
  BY <1>3, <1>4, <1>5

LEMMA FailStep == ASSUME UInv, NEW w \in Isolates, Fail(w) PROVE UInv'
<1>1. /\ UNCHANGED <<release, announced, known, rows, audience, baselines>> /\ RowsKept
      /\ Step(w, IdleCheck)
  BY RowsUntouched DEF Fail, AbandonedCheck
<1>2. CheckOK(IdleCheck, release', audience', rows')
  BY CheckFacts DEF CheckOK
<1>3. QED
  BY <1>1, <1>2, CheckFacts, OwnStep

\* A device that has a row is behind the check.
LEMMA ToldStep ==
    ASSUME UInv, NEW w \in Isolates, NEW d \in check[w].todo,
           check[w].step \in {"queue", "find"}, RowsKept, RowsOf(rows', d, check[w].seen) # {},
           Told(w, d), UNCHANGED <<release, announced, known, audience, baselines>>
    PROVE  UInv'
<1> DEFINE left == check[w].todo \ {d}
           s == IF check[w].todo = {d} THEN "store" ELSE "queue"
           next == [check[w] EXCEPT !.todo = left, !.attempt = 0, !.step = s]
<1>1. Step(w, next)
  BY CheckFacts DEF Told, Check
<1>2. s \in {"store", "queue"} /\ (s = "queue" => left # {}) /\ (s = "store" => left = {})
      /\ left \subseteq Devices
  BY CheckFacts DEF Check
<1>3. \A e \in audience[check[w].seen] : e \in left \/ RowsOf(rows', e, check[w].seen) # {}
  BY CheckFacts, KeptRowsCount DEF CheckOK
<1> HIDE DEF left, s
<1>4. next \in Check /\ next.step = s /\ next.todo = left /\ next.seen = check[w].seen
  <2>1. check[w] \in Check /\ 0 \in 0 .. 1
    BY CheckFacts
  <2>2. QED
    BY <1>2, <2>1 DEF Check
<1> HIDE DEF next
<1>5. CheckOK(next, release', audience', rows')
  BY <1>2, <1>3, <1>4, CheckFacts DEF CheckOK
<1>6. QED
  BY <1>1, <1>4, <1>5, OwnStep

\* The check goes on with the same devices to tell.
LEMMA StillToTell ==
    ASSUME UInv, NEW w \in Isolates, NEW next \in Check, Step(w, next), RowsKept,
           check[w].step \in {"queue", "find"}, next.step \in {"queue", "find"},
           next.todo = check[w].todo, next.seen = check[w].seen,
           UNCHANGED <<release, announced, known, audience, baselines>>
    PROVE  UInv'
<1>1. CheckOK(next, release', audience', rows')
  BY CheckFacts, KeptRowsCount DEF CheckOK
<1>2. QED
  BY <1>1, OwnStep

LEMMA InsertStep == ASSUME UInv, NEW w \in Isolates, TryInsert(w) PROVE UInv'
<1> DEFINE d == NextDevice(w)
           r == check[w].seen
<1>1. /\ check[w].step = "queue"
      /\ rows' = Inserted(rows, d, r, Cardinality(DOMAIN rows) + 1)
      /\ IF rows' # rows THEN Told(w, d) ELSE Step(w, [check[w] EXCEPT !.step = "find"])
      /\ UNCHANGED <<release, announced, known, audience, baselines>>
  BY DEF TryInsert
<1>2. d \in check[w].todo
  BY <1>1, CheckFacts DEF NextDevice, CheckOK
<1>3. rows = [id \in DOMAIN rows |-> rows[id]]
  BY DEF UInv, Typed
<1> HIDE DEF d, r
<1>4. /\ rows' = [id \in DOMAIN rows' |-> rows'[id]]
      /\ \A id \in DOMAIN rows : id \in DOMAIN rows' /\ rows'[id] = rows[id]
      /\ rows' # rows => \E id \in DOMAIN rows' : rows'[id].device = d /\ rows'[id].payload = r
  BY <1>1, <1>3, InsertionKeeps
<1>5. RowsKept
  BY <1>4 DEF RowsKept
<1>6. CASE rows' # rows
  <2>1. RowsOf(rows', d, r) # {}
    BY <1>4, <1>6 DEF RowsOf
  <2>2. QED
    BY <1>1, <1>2, <1>5, <1>6, <2>1, ToldStep DEF r
<1>7. CASE rows' = rows
  <2> DEFINE next == [check[w] EXCEPT !.step = "find"]
  <2>1. next \in Check /\ next.step = "find" /\ next.todo = check[w].todo
        /\ next.seen = check[w].seen
    BY CheckFacts DEF Check
  <2>2. Step(w, next)
    BY <1>1, <1>7
  <2> HIDE DEF next
  <2>3. QED
    BY <1>1, <1>5, <2>1, <2>2, StillToTell
<1>8. QED
  BY <1>6, <1>7

LEMMA FindStep == ASSUME UInv, NEW w \in Isolates, FindExisting(w) PROVE UInv'
<1> DEFINE d == NextDevice(w)
           r == check[w].seen
           next == [check[w] EXCEPT !.step = "queue", !.attempt = 1]
<1>1. /\ check[w].step = "find"
      /\ UNCHANGED <<release, announced, known, rows, audience, baselines>> /\ RowsKept
  BY RowsUntouched DEF FindExisting
<1>2. d \in check[w].todo
  BY <1>1, CheckFacts DEF NextDevice, CheckOK
<1>3. \/ PendingFor(rows, d, r) # {} /\ Told(w, d)
      \/ Step(w, next)
      \/ Step(w, IdleCheck)
  BY DEF FindExisting, AbandonedCheck
<1>4. CASE PendingFor(rows, d, r) # {} /\ Told(w, d)
  <2>1. RowsOf(rows', d, r) # {}
    BY <1>1, <1>4 DEF RowsOf, PendingFor
  <2>2. QED
    BY <1>1, <1>2, <1>4, <2>1, ToldStep
<1>5. CASE Step(w, next)
  <2>1. next \in Check /\ next.step = "queue" /\ next.todo = check[w].todo
        /\ next.seen = check[w].seen
    <3>1. check[w] \in Check /\ 1 \in 0 .. 1
      BY CheckFacts
    <3>2. QED
      BY <3>1 DEF Check
  <2> HIDE DEF next
  <2>2. QED
    BY <1>1, <1>5, <2>1, StillToTell
<1>6. CASE Step(w, IdleCheck)
  <2>1. CheckOK(IdleCheck, release', audience', rows')
    BY CheckFacts DEF CheckOK
  <2>2. QED
    BY <1>1, <1>6, <2>1, CheckFacts, OwnStep
<1>7. QED
  BY <1>3, <1>4, <1>5, <1>6

LEMMA StoreStep == ASSUME UInv, NEW w \in Isolates, Store(w) PROVE UInv'
<1>1. /\ check[w].step = "store" /\ announced' = check[w].seen
      /\ baselines' = IF check[w].first THEN baselines \cup {check[w].seen} ELSE baselines
      /\ Step(w, IdleCheck) /\ UNCHANGED <<release, known, rows, audience>> /\ RowsKept
  BY RowsUntouched DEF Store
<1>2. check[w].seen \in 1 .. release /\ check[w].seen \in Payloads
      /\ (check[w].first \/ \A d \in audience[check[w].seen] : RowsOf(rows, d, check[w].seen) # {})
  BY <1>1, CheckFacts DEF CheckOK
<1>3. /\ check' \in [Isolates -> Check] /\ CheckOK(check'[w], release', audience', rows')
      /\ \A v \in Isolates : v # w => check'[v] = check[v]
  <2>1. check \in [Isolates -> Check] /\ check' = [check EXCEPT ![w] = IdleCheck]
    BY <1>1 DEF UInv, Typed, Step
  <2>2. QED
    BY <2>1, CheckFacts DEF CheckOK
<1>4. announced' \in 0 .. release'
  BY <1>1, <1>2, CheckFacts
<1>5. Typed'
  BY <1>1, <1>3, <1>4 DEF UInv, Typed, RowsKept
<1>6. AnnouncedWasCommanded'
  <2>1. CASE check[w].first
    BY <1>1, <2>1 DEF AnnouncedWasCommanded, RowsFor, RowsOf
  <2>2. CASE ~check[w].first
    BY <1>1, <1>2, <2>2, KeptRowsCount DEF AnnouncedWasCommanded, RowsFor, RowsOf
  <2>3. QED
    BY <2>1, <2>2
<1>7. release =< release' /\ \A r \in 1 .. release' : audience'[r] \subseteq known'
  BY <1>1, CheckFacts DEF UInv
<1>8. QED
  BY <1>1, <1>3, <1>5, <1>6, <1>7, Preserved

-----------------------------------------------------------------------------
(* The theorem about releases. *)

LEMMA InitialState == Init => UInv
<1> SUFFICES ASSUME Init PROVE UInv
  OBVIOUS
<1>1. Typed
  <2>1. 0 \in 0 .. MaxRelease /\ 0 \in 0 .. 1
    BY Numbers
  <2>2. IdleCheck \in Check
    BY <2>1 DEF IdleCheck, Check
  <2>3. rows = [id \in DOMAIN rows |-> rows[id]]
    BY DEF Init, NoRows
  <2>4. QED
    BY <2>1, <2>2, <2>3 DEF Init, Typed
<1>2. \A w \in Isolates : CheckOK(check[w], release, audience, rows)
  BY DEF Init, IdleCheck, CheckOK
<1>3. \A r \in 1 .. release : audience[r] \subseteq known
  BY DEF Init
<1>4. QED
  BY <1>1, <1>2, <1>3 DEF Init, UInv, AnnouncedWasCommanded

LEMMA InvariantStep == UInv /\ [Next]_vars => UInv'
<1> SUFFICES ASSUME UInv, [Next]_vars PROVE UInv'
  OBVIOUS
<1>1. CASE Publish
  BY <1>1, PublishStep
<1>2. CASE (\E d \in Devices : Join(d)) \/ (\E id \in DOMAIN rows : Acknowledge(id))
           \/ UNCHANGED vars
  BY <1>2, OutsideStep
<1>3. ASSUME NEW w \in Isolates, ReadManifest(w) \/ CheckStep(w) \/ Fail(w) PROVE UInv'
  BY <1>3, ReadStep, InsertStep, FindStep, StoreStep, FailStep DEF CheckStep
<1>4. QED
  BY <1>1, <1>2, <1>3 DEF Next

\* A release is recorded as announced only after every device known when it was
\* published has had a command for it, whatever fails or overlaps.
THEOREM AnnouncementsAreCommanded == Spec => []AnnouncedWasCommanded
<1>1. UInv => AnnouncedWasCommanded
  BY DEF UInv
<1>2. QED
  BY <1>1, InitialState, InvariantStep, PTL DEF Spec

-----------------------------------------------------------------------------
(* SpotifyAuth: whatever a callback or a request carries from step to step is of one
   grant, that of a session whose device it writes for. *)

\* The grant g is of a session device d began; B is `begun`.
GrantOf(g, d, B) == g \in States /\ d \in Accounts /\ B[g] = d

\* An access token, promised until `expires`.
HonouredUntil(access, expires) ==
    access.until \in Int /\ expires \in Int /\ expires <= access.until

RowOK(row, d, B) ==
    /\ row.device = d /\ GrantOf(row.refresh, d, B) /\ row.access.grant = row.refresh
    /\ HonouredUntil(row.access, row.expires)

SessionOf(session, s, B) == GrantOf(s, session.device, B)

CallbackOK(c, t, B) ==
    /\ c.at \in {"new", "delete", "trade", "store", "done", "failed"}
    /\ c.at \in {"delete", "trade"} =>
          c = [at |-> c.at, state |-> c.state, code |-> c.code, now |-> c.now, session |-> c.session]
    /\ c.at = "delete" => /\ c.session # Spotify!NoSession => SessionOf(c.session, c.state, B)
                          /\ c.now \in Int /\ c.now <= t
    /\ c.at = "trade" => SessionOf(c.session, c.state, B) /\ c.now \in Int /\ c.now <= t
    /\ c.at = "store" => /\ GrantOf(c.refresh, c.session.device, B)
                         /\ c.access.grant = c.refresh /\ HonouredUntil(c.access, c.expires)

TokenRequestOK(q, t, B) ==
    /\ q.at \in {"new", "trade", "store", "answered", "failed"}
    /\ q.at = "trade" => RowOK(q.row, q.device, B) /\ q.now \in Int /\ q.now <= t
    /\ q.at = "store" => /\ GrantOf(q.refresh, q.device, B) /\ q.access.grant = q.refresh
                         /\ HonouredUntil(q.access, q.expires)
    /\ q.at = "answered" => /\ GrantOf(q.access.grant, q.device, B)
                            /\ HonouredUntil(q.access, q.expires)

SpotifyInv ==
    /\ clock \in Int
    /\ begun = [s \in States |-> begun[s]] /\ sessions = [s \in States |-> sessions[s]]
    /\ credentials = [d \in Accounts |-> credentials[d]]
    /\ callback = [h \in Callbacks |-> callback[h]]
    /\ request = [r \in TokenRequests |-> request[r]]
    /\ \A s \in States : sessions[s] # Spotify!NoSession => SessionOf(sessions[s], s, begun)
    /\ \A d \in Accounts : credentials[d] # Spotify!NoRow => RowOK(credentials[d], d, begun)
    /\ \A h \in Callbacks : CallbackOK(callback[h], clock, begun)
    /\ \A r \in TokenRequests : TokenRequestOK(request[r], clock, begun)

-----------------------------------------------------------------------------
LEMMA NoAccount == Spotify!NoOne \notin Accounts /\ Lifetime \in Int /\ Lifetime >= 0
BY SpotifyAssumption DEF Spotify!SpotifyAssumption

\* What is right stays right while sessions begin and time goes on.
LEMMA GrantsStay ==
    ASSUME NEW B, NEW C, \A s \in States : B[s] # Spotify!NoOne => C[s] = B[s],
           NEW t \in Int, NEW u \in Int, t <= u
    PROVE  /\ \A g, d : GrantOf(g, d, B) => GrantOf(g, d, C)
           /\ \A row, d : RowOK(row, d, B) => RowOK(row, d, C)
           /\ \A c : CallbackOK(c, t, B) => CallbackOK(c, u, C)
           /\ \A q : TokenRequestOK(q, t, B) => TokenRequestOK(q, u, C)
<1>1. \A g, d : GrantOf(g, d, B) => GrantOf(g, d, C)
  BY NoAccount DEF GrantOf
<1>2. \A row, d : RowOK(row, d, B) => RowOK(row, d, C)
  BY <1>1 DEF RowOK
<1>3. \A c : CallbackOK(c, t, B) => CallbackOK(c, u, C)
  BY <1>1 DEF CallbackOK, SessionOf
<1>4. \A q : TokenRequestOK(q, t, B) => TokenRequestOK(q, u, C)
  BY <1>1, <1>2 DEF TokenRequestOK
<1>5. QED
  BY <1>1, <1>2, <1>3, <1>4

LEMMA SpotifyInitOK == Spotify!Init => SpotifyInv
<1> SUFFICES ASSUME Spotify!Init PROVE SpotifyInv
  OBVIOUS
<1>1. \A h \in Callbacks : CallbackOK(callback[h], clock, begun)
  BY DEF Spotify!Init, Spotify!NoCallback, CallbackOK
<1>2. \A r \in TokenRequests : TokenRequestOK(request[r], clock, begun)
  BY DEF Spotify!Init, Spotify!NoRequest, TokenRequestOK
<1>3. QED
  BY <1>1, <1>2 DEF Spotify!Init, SpotifyInv

\* A tick, and a session that begins.
LEMMA SpotifyBeginsOK ==
    ASSUME SpotifyInv,
           Spotify!Tick \/ \E d \in Accounts, s \in States : Spotify!startSpotifyAuthorization(d, s)
    PROVE  SpotifyInv'
<1> DEFINE B == begun'
           t == clock'
<1>1. CASE Spotify!Tick
  <2>1. clock' = clock + 1 /\ UNCHANGED <<sessions, credentials, callback, request, begun>>
    BY <1>1 DEF Spotify!Tick
  <2>2. clock \in Int /\ clock' \in Int /\ clock <= clock'
    BY <2>1 DEF SpotifyInv
  <2>3. /\ \A h \in Callbacks : CallbackOK(callback[h], clock', begun)
        /\ \A r \in TokenRequests : TokenRequestOK(request[r], clock', begun)
    BY <2>2, GrantsStay DEF SpotifyInv
  <2>4. QED
    BY <2>1, <2>2, <2>3 DEF SpotifyInv
<1>2. ASSUME NEW d \in Accounts, NEW s \in States, Spotify!startSpotifyAuthorization(d, s)
      PROVE  SpotifyInv'
  <2>1. /\ begun[s] = Spotify!NoOne /\ begun' = [begun EXCEPT ![s] = d]
        /\ UNCHANGED <<clock, credentials, callback, request>>
    BY <1>2 DEF Spotify!startSpotifyAuthorization
  <2>2. /\ begun' = [x \in States |-> begun'[x]] /\ begun'[s] = d
        /\ \A x \in States : begun[x] # Spotify!NoOne => begun'[x] = begun[x]
    BY <2>1 DEF SpotifyInv
  <2>3. clock \in Int /\ clock <= clock
    BY DEF SpotifyInv
  <2>4. /\ \A e \in Accounts : credentials[e] # Spotify!NoRow => RowOK(credentials[e], e, begun')
        /\ \A h \in Callbacks : CallbackOK(callback[h], clock, begun')
        /\ \A r \in TokenRequests : TokenRequestOK(request[r], clock, begun')
        /\ \A x \in States : sessions[x] # Spotify!NoSession => GrantOf(x, sessions[x].device, begun')
    <3> DEFINE C == begun'
    <3>1. \A x \in States : begun[x] # Spotify!NoOne => C[x] = begun[x]
      BY <2>2
    <3> HIDE DEF C
    <3>2. /\ \A g, e : GrantOf(g, e, begun) => GrantOf(g, e, C)
          /\ \A row, e : RowOK(row, e, begun) => RowOK(row, e, C)
          /\ \A c : CallbackOK(c, clock, begun) => CallbackOK(c, clock, C)
          /\ \A q : TokenRequestOK(q, clock, begun) => TokenRequestOK(q, clock, C)
      BY <2>3, <3>1, GrantsStay
    <3>3. QED
      BY <3>2 DEF SpotifyInv, SessionOf, C
  <2>5. PICK swept : sessions' = [x \in States |->
              IF x = s THEN [device |-> d, expires |-> clock + SESSION_TTL]
              ELSE IF x \in swept THEN Spotify!NoSession ELSE sessions[x]]
    BY <1>2 DEF Spotify!startSpotifyAuthorization
  <2>6. GrantOf(s, d, begun')
    BY <2>2 DEF GrantOf
  <2>7. \A x \in States : sessions'[x] # Spotify!NoSession => SessionOf(sessions'[x], x, begun')
    BY <2>4, <2>5, <2>6 DEF SessionOf
  <2>8. sessions' = [x \in States |-> sessions'[x]]
    BY <2>5
  <2>9. QED
    BY <2>1, <2>2, <2>4, <2>7, <2>8 DEF SpotifyInv
<1>3. QED
  BY <1>1, <1>2

\* The callback h moves to c.
LEMMA CallbackMoves ==
    ASSUME SpotifyInv, NEW h \in Callbacks, NEW c, CallbackOK(c, clock, begun),
           callback' = [callback EXCEPT ![h] = c],
           UNCHANGED <<clock, begun, request>>,
           sessions' = [s \in States |-> sessions'[s]],
           \A s \in States : sessions'[s] # Spotify!NoSession => SessionOf(sessions'[s], s, begun),
           credentials' = [d \in Accounts |-> credentials'[d]],
           \A d \in Accounts : credentials'[d] # Spotify!NoRow => RowOK(credentials'[d], d, begun)
    PROVE  SpotifyInv'
<1>1. callback' = [x \in Callbacks |-> callback'[x]]
  BY DEF SpotifyInv
<1>2. \A x \in Callbacks : callback'[x] = IF x = h THEN c ELSE callback[x]
  BY DEF SpotifyInv
<1>3. \A x \in Callbacks : CallbackOK(callback'[x], clock, begun)
  BY <1>2 DEF SpotifyInv
<1>4. QED
  BY <1>1, <1>3 DEF SpotifyInv

LEMMA SpotifyCallbackOK ==
    ASSUME SpotifyInv, NEW h \in Callbacks,
           \/ \E s \in States, code \in BOOLEAN : Spotify!SelectSession(h, s, code)
           \/ Spotify!DeleteSession(h) \/ Spotify!TradeCode(h)
           \/ Spotify!StoreCredentials(h) \/ Spotify!CallbackFails(h)
    PROVE  SpotifyInv'
<1> DEFINE c == callback[h]
<1>1. /\ CallbackOK(c, clock, begun) /\ clock \in Int
      /\ callback = [x \in Callbacks |-> callback[x]]
      /\ sessions = [s \in States |-> sessions[s]]
      /\ \A s \in States : sessions[s] # Spotify!NoSession => SessionOf(sessions[s], s, begun)
      /\ credentials = [d \in Accounts |-> credentials[d]]
      /\ \A d \in Accounts : credentials[d] # Spotify!NoRow => RowOK(credentials[d], d, begun)
  BY DEF SpotifyInv
<1>2. ASSUME NEW s \in States, NEW code \in BOOLEAN, Spotify!SelectSession(h, s, code)
      PROVE  SpotifyInv'
  <2> DEFINE new == [at |-> "delete", state |-> s, code |-> code, now |-> clock,
                     session |-> sessions[s]]
  <2>1. /\ callback' = [callback EXCEPT ![h] = new]
        /\ UNCHANGED <<clock, sessions, credentials, request, begun>>
    BY <1>2 DEF Spotify!SelectSession
  <2>2. CallbackOK(new, clock, begun)
    BY <1>1 DEF CallbackOK
  <2> HIDE DEF new
  <2>3. QED
    BY <1>1, <2>1, <2>2, CallbackMoves
<1>3. CASE Spotify!DeleteSession(h)
  <2> DEFINE new == [c EXCEPT !.at = IF Spotify!Serves(c) THEN "trade" ELSE "failed"]
  <2>1. /\ c.at = "delete" /\ sessions' = [sessions EXCEPT ![c.state] = Spotify!NoSession]
        /\ callback' = [callback EXCEPT ![h] = new]
        /\ UNCHANGED <<clock, credentials, request, begun>>
    <3>1. callback' = [callback EXCEPT ![h].at = IF Spotify!Serves(c) THEN "trade" ELSE "failed"]
      BY <1>3 DEF Spotify!DeleteSession
    <3>2. QED
      BY <1>1, <1>3, <3>1 DEF Spotify!DeleteSession
  <2>2. CallbackOK(new, clock, begun)
    <3>1. CASE Spotify!Serves(c)
      <4>1. c.session # Spotify!NoSession
        BY <3>1 DEF Spotify!Serves
      <4>2. SessionOf(c.session, c.state, begun) /\ c.now \in Int /\ c.now <= clock
        BY <1>1, <2>1, <4>1 DEF CallbackOK
      <4>3. new.at = "trade" /\ new.session = c.session /\ new.state = c.state /\ new.now = c.now
        BY <2>1, <3>1
      <4>4. c = [at |-> c.at, state |-> c.state, code |-> c.code, now |-> c.now,
                 session |-> c.session]
        BY <1>1, <2>1 DEF CallbackOK
      <4>5. new = [at |-> "trade", state |-> c.state, code |-> c.code, now |-> c.now,
                   session |-> c.session]
        BY <3>1, <4>4
      <4> HIDE DEF new
      <4>6. QED
        BY <4>2, <4>3, <4>5 DEF CallbackOK
    <3>2. CASE ~Spotify!Serves(c)
      <4>1. new.at = "failed"
        BY <2>1, <3>2
      <4>2. QED
        BY <4>1 DEF CallbackOK
    <3>3. QED
      BY <3>1, <3>2
  <2>3. /\ sessions' = [s \in States |-> sessions'[s]]
        /\ \A s \in States : sessions'[s] = sessions[s] \/ sessions'[s] = Spotify!NoSession
    BY <1>1, <2>1
  <2>4. \A s \in States : sessions'[s] # Spotify!NoSession => SessionOf(sessions'[s], s, begun)
    BY <1>1, <2>3
  <2> HIDE DEF new
  <2>5. QED
    BY <1>1, <2>1, <2>2, <2>3, <2>4, CallbackMoves
<1>4. CASE Spotify!TradeCode(h)
  <2>1. c.at = "trade" /\ UNCHANGED <<clock, sessions, credentials, request, begun>>
    BY <1>4 DEF Spotify!TradeCode
  <2>2. SessionOf(c.session, c.state, begun) /\ c.now \in Int /\ c.now <= clock
    BY <1>1, <2>1 DEF CallbackOK
  <2>3. CASE callback' = [callback EXCEPT ![h].at = "failed"]
    <3> DEFINE new == [c EXCEPT !.at = "failed"]
    <3>1. callback' = [callback EXCEPT ![h] = new] /\ new.at = "failed"
      BY <1>1, <2>1, <2>3
    <3>2. CallbackOK(new, clock, begun)
      BY <3>1 DEF CallbackOK
    <3> HIDE DEF new
    <3>3. QED
      BY <1>1, <2>1, <3>1, <3>2, CallbackMoves
  <2>4. CASE callback' = [callback EXCEPT ![h] =
                [at |-> "store", state |-> c.state, session |-> @.session, refresh |-> c.state,
                 access |-> Spotify!Access(c.state), expires |-> @.now + Lifetime]]
    <3> DEFINE new == [at |-> "store", state |-> c.state, session |-> c.session,
                       refresh |-> c.state, access |-> Spotify!Access(c.state),
                       expires |-> c.now + Lifetime]
    <3>1. callback' = [callback EXCEPT ![h] = new]
      BY <1>1, <2>4
    <3>2. CallbackOK(new, clock, begun)
      BY <1>1, <2>2, NoAccount
         DEF CallbackOK, SessionOf, HonouredUntil, Spotify!Access
    <3> HIDE DEF new
    <3>3. QED
      BY <1>1, <2>1, <3>1, <3>2, CallbackMoves
  <2>5. QED
    BY <1>4, <2>3, <2>4 DEF Spotify!TradeCode
<1>5. CASE Spotify!StoreCredentials(h)
  <2> DEFINE d == c.session.device
             row == Spotify!Row(d, c.refresh, c.access, c.expires)
  <2>1. /\ c.at = "store" /\ credentials' = [credentials EXCEPT ![d] = row]
        /\ callback' = [callback EXCEPT ![h] = [at |-> "done"]]
        /\ UNCHANGED <<clock, sessions, request, begun>>
    BY <1>5 DEF Spotify!StoreCredentials
  <2>2. RowOK(row, d, begun)
    BY <1>1, <2>1 DEF CallbackOK, RowOK, Spotify!Row
  <2>3. CallbackOK([at |-> "done"], clock, begun)
    BY DEF CallbackOK
  <2> HIDE DEF d, row
  <2>4. /\ credentials' = [e \in Accounts |-> credentials'[e]]
        /\ \A e \in Accounts : credentials'[e] = IF e = d THEN row ELSE credentials[e]
    BY <1>1, <2>1
  <2>5. \A e \in Accounts : credentials'[e] # Spotify!NoRow => RowOK(credentials'[e], e, begun)
    BY <1>1, <2>2, <2>4
  <2>6. QED
    BY <1>1, <2>1, <2>3, <2>4, <2>5, CallbackMoves
<1>6. CASE Spotify!CallbackFails(h)
  <2>1. CallbackOK([at |-> "failed"], clock, begun)
    BY DEF CallbackOK
  <2>2. QED
    BY <1>1, <1>6, <2>1, CallbackMoves DEF Spotify!CallbackFails
<1>7. QED
  BY <1>2, <1>3, <1>4, <1>5, <1>6

-----------------------------------------------------------------------------
\* The request r moves to q.
LEMMA TokenRequestMoves ==
    ASSUME SpotifyInv, NEW r \in TokenRequests, NEW q, TokenRequestOK(q, clock, begun),
           request' = [request EXCEPT ![r] = q],
           UNCHANGED <<clock, begun, callback, sessions>>,
           credentials' = [d \in Accounts |-> credentials'[d]],
           \A d \in Accounts : credentials'[d] # Spotify!NoRow => RowOK(credentials'[d], d, begun)
    PROVE  SpotifyInv'
<1>1. request' = [x \in TokenRequests |-> request'[x]]
  BY DEF SpotifyInv
<1>2. \A x \in TokenRequests : request'[x] = IF x = r THEN q ELSE request[x]
  BY DEF SpotifyInv
<1>3. \A x \in TokenRequests : TokenRequestOK(request'[x], clock, begun)
  BY <1>2 DEF SpotifyInv
<1>4. QED
  BY <1>1, <1>3 DEF SpotifyInv

LEMMA SpotifyRequestOK ==
    ASSUME SpotifyInv, NEW r \in TokenRequests,
           \/ \E d \in Accounts : Spotify!Select(r, d)
           \/ Spotify!TradeRefreshToken(r) \/ Spotify!UpdateCredentials(r) \/ Spotify!Fails(r)
    PROVE  SpotifyInv'
<1> DEFINE q == request[r]
<1>1. /\ TokenRequestOK(q, clock, begun) /\ clock \in Int
      /\ request = [x \in TokenRequests |-> request[x]]
      /\ credentials = [d \in Accounts |-> credentials[d]]
      /\ \A d \in Accounts : credentials[d] # Spotify!NoRow => RowOK(credentials[d], d, begun)
  BY DEF SpotifyInv
<1>2. TokenRequestOK([at |-> "failed"], clock, begun)
  BY DEF TokenRequestOK
<1>3. ASSUME NEW d \in Accounts, Spotify!Select(r, d) PROVE SpotifyInv'
  <2> DEFINE row == credentials[d]
  <2>1. UNCHANGED <<clock, sessions, credentials, callback, begun>>
    BY <1>3 DEF Spotify!Select
  <2>2. CASE request' = [request EXCEPT ![r] = [at |-> "failed"]]
    BY <1>1, <1>2, <2>1, <2>2, TokenRequestMoves
  <2>3. CASE /\ row # Spotify!NoRow
             /\ request' = [request EXCEPT ![r] = Spotify!Answer(d, row.access, row.expires)]
    <3>1. TokenRequestOK(Spotify!Answer(d, row.access, row.expires), clock, begun)
      BY <1>1, <2>3 DEF RowOK, TokenRequestOK, Spotify!Answer
    <3>2. QED
      BY <1>1, <2>1, <2>3, <3>1, TokenRequestMoves
  <2>4. CASE /\ row # Spotify!NoRow
             /\ request' = [request EXCEPT ![r] =
                               [at |-> "trade", device |-> d, row |-> row, now |-> clock]]
    <3>1. TokenRequestOK([at |-> "trade", device |-> d, row |-> row, now |-> clock], clock, begun)
      BY <1>1, <2>4 DEF TokenRequestOK
    <3>2. QED
      BY <1>1, <2>1, <2>4, <3>1, TokenRequestMoves
  <2>5. QED
    BY <1>3, <2>2, <2>3, <2>4 DEF Spotify!Select
<1>4. CASE Spotify!TradeRefreshToken(r)
  <2> DEFINE new == [at |-> "store", device |-> q.device, refresh |-> q.row.refresh,
                     access |-> Spotify!Access(q.row.refresh), expires |-> q.now + Lifetime]
  <2>1. /\ q.at = "trade" /\ UNCHANGED <<clock, sessions, credentials, callback, begun>>
        /\ request' = [request EXCEPT ![r] = new]
    BY <1>1, <1>4 DEF Spotify!TradeRefreshToken
  <2>2. RowOK(q.row, q.device, begun) /\ q.now \in Int /\ q.now <= clock
    BY <1>1, <2>1 DEF TokenRequestOK
  <2>3. TokenRequestOK(new, clock, begun)
    BY <1>1, <2>2, NoAccount DEF TokenRequestOK, RowOK, HonouredUntil, Spotify!Access
  <2> HIDE DEF new
  <2>4. QED
    BY <1>1, <2>1, <2>3, TokenRequestMoves
<1>5. CASE Spotify!UpdateCredentials(r)
  <2> DEFINE d == q.device
             row == Spotify!Row(d, q.refresh, q.access, q.expires)
             new == Spotify!Answer(d, q.access, q.expires)
  <2>1. /\ q.at = "store" /\ credentials' = [credentials EXCEPT ![d] = row]
        /\ request' = [request EXCEPT ![r] = new]
        /\ UNCHANGED <<clock, sessions, callback, begun>>
    BY <1>5 DEF Spotify!UpdateCredentials, Spotify!RefreshTokenOf
  <2>2. RowOK(row, d, begun) /\ TokenRequestOK(new, clock, begun)
    BY <1>1, <2>1 DEF TokenRequestOK, RowOK, Spotify!Row, Spotify!Answer
  <2> HIDE DEF d, row, new
  <2>3. /\ credentials' = [e \in Accounts |-> credentials'[e]]
        /\ \A e \in Accounts : credentials'[e] = IF e = d THEN row ELSE credentials[e]
    BY <1>1, <2>1
  <2>4. \A e \in Accounts : credentials'[e] # Spotify!NoRow => RowOK(credentials'[e], e, begun)
    BY <1>1, <2>2, <2>3
  <2>5. QED
    BY <1>1, <2>1, <2>2, <2>3, <2>4, TokenRequestMoves
<1>6. CASE Spotify!Fails(r)
  BY <1>1, <1>2, <1>6, TokenRequestMoves DEF Spotify!Fails
<1>7. QED
  BY <1>3, <1>4, <1>5, <1>6

LEMMA SpotifyStepOK == SpotifyInv /\ Spotify!Next => SpotifyInv'
BY SpotifyBeginsOK, SpotifyCallbackOK, SpotifyRequestOK DEF Spotify!Next

LEMMA SpotifyOneGrant == SpotifyInv => Spotify!CredentialsAreOneGrant
<1> SUFFICES ASSUME SpotifyInv PROVE Spotify!CredentialsAreOneGrant
  OBVIOUS
<1>1. \A d \in Accounts : credentials[d] # Spotify!NoRow =>
         /\ credentials[d].access.grant = credentials[d].refresh
         /\ begun[credentials[d].refresh] = d
         /\ credentials[d].expires <= credentials[d].access.until
  BY DEF SpotifyInv, RowOK, GrantOf, HonouredUntil
<1>2. \A r \in TokenRequests : request[r].at = "answered" =>
         /\ begun[request[r].access.grant] = request[r].device
         /\ request[r].expires <= request[r].access.until
  BY DEF SpotifyInv, TokenRequestOK, GrantOf, HonouredUntil
<1>3. QED
  BY <1>1, <1>2 DEF Spotify!CredentialsAreOneGrant

-----------------------------------------------------------------------------
(* Radar: wherever a bundle is kept it is that of a payload the job made, and a payload
   has one base time. *)

PayloadOK(p) ==
    /\ p # {} /\ IsFiniteSet(p) /\ Rain!BaseOf(p) \in Rain!Times
    /\ \A e \in p : e.base = Rain!BaseOf(p) /\ e.valid \in Int

\* The bundle of a whole payload of the base time b; M is `made`.
WholeBundle(bundle, b, M) ==
    /\ bundle.paths \in M /\ Rain!BaseOf(bundle.paths) = b /\ bundle.base = b
    /\ bundle.records = Rain!Cardinality(bundle.paths)

AskOK(q, M) ==
    /\ DOMAIN q = DOMAIN Rain!NoRequest
    /\ q.at \in {"new", "fast", "state", "match", "shards", "answered", "refused"}
    /\ q.at # "new" => q.base \in Rain!Times
    /\ q.at \in {"match", "shards"} => q.paths \in M /\ Rain!BaseOf(q.paths) = q.base
    /\ q.at = "answered" => WholeBundle(q.bundle, q.base, M)
    /\ q.writes # {} => q.at = "answered"

Kept(M) ==
    /\ latest = Rain!NoBundle \/ WholeBundle(latest, latest.base, M)
    /\ edge = [b \in Rain!Times |-> edge[b]]
    /\ \A b \in Rain!Times : edge[b] # Rain!NoBundle => WholeBundle(edge[b], b, M)

RadarInv ==
    /\ IsFiniteSet(forecast) /\ \A e \in forecast : e.base \in 1 .. MaxTime /\ e.valid \in Int
    /\ \A p \in made : PayloadOK(p)
    /\ state = {} \/ state \in made
    /\ job.at \in {"idle", "prewarm", "store"} /\ job = [at |-> job.at, payload |-> job.payload]
    /\ job.at # "idle" => job.payload \in made
    /\ Kept(made)
    /\ ask = [r \in Requests |-> ask[r]]
    /\ \A r \in Requests : AskOK(ask[r], made)

-----------------------------------------------------------------------------
LEMMA RadarNumbers ==
    /\ MaxTime \in Nat /\ Beyond \in Nat /\ PerShard \in Nat /\ PerShard > 0
    /\ Rain!Times = 0 .. MaxTime
BY RainAssumption DEF Rain!RadarAssumption, Rain!Times

\* Of one base time, a payload is all of its paths.
LEMMA PathsOfPayload ==
    ASSUME NEW p, PayloadOK(p), NEW b, Rain!radarBundlePaths(p, b) # {}
    PROVE  Rain!radarBundlePaths(p, b) = p /\ Rain!BaseOf(p) = b
BY DEF PayloadOK, Rain!radarBundlePaths

LEMMA PathsOfBase ==
    ASSUME NEW p, PayloadOK(p)
    PROVE  Rain!radarBundlePaths(p, Rain!BaseOf(p)) = p
BY DEF PayloadOK, Rain!radarBundlePaths

LEMMA ShardInRange ==
    ASSUME NEW k \in Nat, NEW n \in Nat, k < n, NEW P \in Nat, P > 0
    PROVE  (k \div P) + 1 \in 1 .. (n + P - 1) \div P
OBVIOUS

\* Cut into shards and put together again, the paths are the same.
LEMMA ShardsMakePaths ==
    ASSUME NEW p, PayloadOK(p)
    PROVE  UNION {Rain!PathsOf(p, i) : i \in Rain!Shards(p)} = p
<1> SUFFICES ASSUME NEW e \in p PROVE Rain!ShardOf(p, e) \in Rain!Shards(p)
  BY DEF Rain!PathsOf
<1> DEFINE before == {x \in p : x.valid < e.valid}
<1>1. IsFiniteSet(p) /\ e.valid \in Int
  BY DEF PayloadOK
<1>2. before \subseteq p /\ e \notin before
  BY <1>1
<1> HIDE DEF before
<1>3. /\ IsFiniteSet(before) /\ Cardinality(before) <= Cardinality(p)
      /\ Cardinality(before) # Cardinality(p)
  BY <1>1, <1>2, FS_Subset
<1>4. Cardinality(before) \in Nat /\ Cardinality(p) \in Nat
  BY <1>1, <1>3, FS_CardinalityType
<1>5. \A k \in Nat, n \in Nat : k < n =>
         (k \div PerShard) + 1 \in 1 .. (n + PerShard - 1) \div PerShard
  BY RadarNumbers, ShardInRange
<1>6. Cardinality(before) < Cardinality(p)
  BY <1>3, <1>4
<1>7. (Cardinality(before) \div PerShard) + 1 \in 1 .. (Cardinality(p) + PerShard - 1) \div PerShard
  BY <1>4, <1>5, <1>6, Zenon
<1>8. /\ Rain!Cardinality(before) = Cardinality(before)
      /\ Rain!Cardinality(p) = Cardinality(p)
  BY DEF Rain!Cardinality, Cardinality
<1>9. (Rain!Cardinality(before) \div PerShard) + 1
         \in 1 .. (Rain!Cardinality(p) + PerShard - 1) \div PerShard
  BY <1>7, <1>8
<1>10. QED
  BY <1>9 DEF Rain!ShardOf, Rain!Shards, before

-----------------------------------------------------------------------------
(* The supplier and the job. *)

LEMMA RadarInitOK == Rain!Init => RadarInv
<1> SUFFICES ASSUME Rain!Init PROVE RadarInv
  OBVIOUS
<1>1. \A r \in Requests : AskOK(ask[r], made)
  <2>1. AskOK(Rain!NoRequest, made)
    BY DEF Rain!NoRequest, AskOK
  <2>2. QED
    BY <2>1 DEF Rain!Init
<1>2. IsFiniteSet({})
  BY FS_EmptySet
<1>3. job = [at |-> job.at, payload |-> job.payload] /\ job.at = "idle"
  BY DEF Rain!Init, Rain!NoJob
<1>4. Kept(made)
  BY DEF Rain!Init, Kept
<1>5. QED
  BY <1>1, <1>2, <1>3, <1>4 DEF Rain!Init, RadarInv

LEMMA SupplierOK ==
    ASSUME RadarInv, Rain!Observe \/ \E b \in 1 .. MaxTime, n \in 1 .. Beyond : Rain!Forecast(b, n)
    PROVE  RadarInv'
<1>1. UNCHANGED <<job, state, latest, edge, ask, made>>
  BY DEF Rain!Observe, Rain!Forecast
<1>2. IsFiniteSet(forecast') /\ \A e \in forecast' : e.base \in 1 .. MaxTime /\ e.valid \in Int
  <2>1. CASE Rain!Observe
    BY <2>1 DEF Rain!Observe, RadarInv
  <2>2. ASSUME NEW b \in 1 .. MaxTime, NEW n \in 1 .. Beyond, Rain!Forecast(b, n)
        PROVE  IsFiniteSet(forecast') /\ \A e \in forecast' : e.base \in 1 .. MaxTime /\ e.valid \in Int
    <3>1. forecast' = forecast \cup {Rain!Entry(b, b + n)}
      BY <2>2 DEF Rain!Forecast
    <3>2. Rain!Entry(b, b + n).base \in 1 .. MaxTime /\ Rain!Entry(b, b + n).valid \in Int
      BY RadarNumbers DEF Rain!Entry
    <3>3. QED
      BY <3>1, <3>2, FS_AddElement DEF RadarInv
  <2>3. QED
    BY <2>1, <2>2
<1>3. QED
  BY <1>1, <1>2 DEF RadarInv, Kept

\* The frames that are selected are a payload.
LEMMA SelectionIsPayload ==
    ASSUME RadarInv, NEW times,
           Rain!selectRadarForecastEntries(times, forecast) # {}
    PROVE  PayloadOK(Rain!selectRadarForecastEntries(times, forecast))
<1> DEFINE current == times \cap {e.base : e \in forecast}
           Newest  == Rain!Max(current)
           future  == {e \in forecast : e.base = Newest /\ e.valid > Newest /\ e.valid <= Newest + Window}
           p       == future \cup {Rain!Entry(Newest, Newest)}
<1>1. current # {} /\ Rain!selectRadarForecastEntries(times, forecast) = p
  BY DEF Rain!selectRadarForecastEntries
<1>2. IsFiniteSet(forecast) /\ \A e \in forecast : e.base \in 1 .. MaxTime /\ e.valid \in Int
  BY DEF RadarInv
<1>3. Newest \in 1 .. MaxTime
  <2>1. current \subseteq 1 .. MaxTime
    BY <1>2
  <2> HIDE DEF current
  <2>2. IsFiniteSet(current)
    <3>1. IsFiniteSet(1 .. MaxTime)
      BY RadarNumbers, FS_Interval
    <3>2. QED
      BY <2>1, <3>1, FS_Subset
  <2>3. current \in SUBSET Int
    BY <2>1
  <2>4. \E n \in current : \A m \in current : n >= m
    BY <1>1, <2>2, <2>3, LargestOf
  <2>5. Newest \in current
    BY <2>4 DEF Rain!Max
  <2>6. QED
    BY <2>1, <2>5
<1>4. Rain!Entry(Newest, Newest).base = Newest /\ Rain!Entry(Newest, Newest).valid = Newest
  BY DEF Rain!Entry
<1>5. IsFiniteSet(p)
  <2>1. IsFiniteSet(future)
    BY <1>2, FS_Subset
  <2>2. QED
    BY <2>1, FS_AddElement
<1>6. p # {} /\ \A e \in p : e.base = Newest /\ e.valid \in Int
  <2> HIDE DEF Newest
  <2>1. \A e \in future : e.base = Newest /\ e.valid \in Int
    BY <1>2
  <2> HIDE DEF future
  <2>2. QED
    BY <1>3, <1>4, <2>1
<1> HIDE DEF p, Newest
<1>7. Rain!BaseOf(p) = Newest
  BY <1>6 DEF Rain!BaseOf
<1>8. QED
  BY <1>1, <1>3, <1>5, <1>6, <1>7, RadarNumbers DEF PayloadOK

LEMMA WholesStay ==
    ASSUME NEW M, NEW N, M \subseteq N
    PROVE  /\ \A bundle, b : WholeBundle(bundle, b, M) => WholeBundle(bundle, b, N)
           /\ \A q : AskOK(q, M) => AskOK(q, N)
           /\ Kept(M) => Kept(N)
BY DEF WholeBundle, AskOK, Kept

LEMMA RadarJobOK ==
    ASSUME RadarInv, Rain!JobStep
    PROVE  RadarInv'
<1>1. /\ UNCHANGED <<forecast, edge, ask>>
      /\ IsFiniteSet(forecast) /\ \A e \in forecast : e.base \in 1 .. MaxTime /\ e.valid \in Int
  BY DEF RadarInv, Rain!JobStep, Rain!fetchRadar, Rain!prewarmRadarBundle,
         Rain!PrewarmFails, Rain!updateState
<1>2. job = [at |-> job.at, payload |-> job.payload] /\ Kept(made)
  BY DEF RadarInv
<1>3. CASE Rain!fetchRadar
  <2> DEFINE p == Rain!selectRadarForecastEntries(observed, forecast)
             M == made \cup {p}
  <2>1. /\ p # {} /\ made' = M /\ job' = [at |-> "prewarm", payload |-> p]
        /\ UNCHANGED <<state, latest>>
    BY <1>3 DEF Rain!fetchRadar
  <2>2. PayloadOK(p)
    BY <2>1, SelectionIsPayload
  <2> HIDE DEF p
  <2>3. made \subseteq M /\ p \in M
    OBVIOUS
  <2>4. \A x \in M : PayloadOK(x)
    BY <2>2 DEF RadarInv
  <2> HIDE DEF M
  <2>5. Kept(M) /\ \A r \in Requests : AskOK(ask[r], M)
    BY <1>2, <2>3, WholesStay DEF RadarInv
  <2>6. job'.at = "prewarm" /\ job'.payload = p
    BY <2>1
  <2>7. Kept(made)' /\ job' = [at |-> job'.at, payload |-> job'.payload]
    BY <1>1, <2>1, <2>5, <2>6 DEF Kept
  <2>8. QED
    BY <1>1, <2>1, <2>3, <2>4, <2>5, <2>6, <2>7 DEF RadarInv
<1>4. CASE Rain!prewarmRadarBundle
  <2> DEFINE p == job.payload
             b == Rain!BaseOf(p)
             bundle == Rain!Bundle(b, p, p)
  <2>1. /\ job.at = "prewarm" /\ job' = [job EXCEPT !.at = "store"]
        /\ latest' = Rain!Bundle(b, Rain!radarBundlePaths(p, b), Rain!radarBundlePaths(p, b))
        /\ UNCHANGED <<state, made>>
    BY <1>4 DEF Rain!prewarmRadarBundle
  <2>2. p \in made /\ PayloadOK(p)
    BY <2>1 DEF RadarInv
  <2>3. latest' = bundle
    BY <2>1, <2>2, PathsOfBase
  <2>4. WholeBundle(bundle, b, made) /\ bundle.base = b
    BY <2>2 DEF Rain!Bundle, WholeBundle
  <2>5. job'.at = "store" /\ job'.payload = p /\ job' = [at |-> job'.at, payload |-> job'.payload]
    BY <1>2, <2>1
  <2> HIDE DEF p, b, bundle
  <2>6. Kept(made)'
    BY <1>1, <1>2, <2>1, <2>3, <2>4 DEF Kept
  <2>7. QED
    BY <1>1, <2>1, <2>2, <2>5, <2>6 DEF RadarInv
<1>5. CASE Rain!PrewarmFails
  <2>1. job' = [at |-> "idle", payload |-> {}] /\ UNCHANGED <<state, latest, made>>
    BY <1>5 DEF Rain!PrewarmFails, Rain!NoJob
  <2>2. job'.at = "idle" /\ job' = [at |-> job'.at, payload |-> job'.payload]
    BY <2>1
  <2>3. QED
    BY <1>1, <2>1, <2>2 DEF RadarInv, Kept
<1>6. CASE Rain!updateState
  <2>1. /\ job.at = "store" /\ job' = [at |-> "idle", payload |-> {}] /\ state' = job.payload
        /\ UNCHANGED <<latest, made>>
    BY <1>6 DEF Rain!updateState, Rain!NoJob
  <2>2. job'.at = "idle" /\ job' = [at |-> job'.at, payload |-> job'.payload]
    BY <2>1
  <2>3. state' \in made
    BY <2>1 DEF RadarInv
  <2>4. QED
    BY <1>1, <2>1, <2>2, <2>3 DEF RadarInv, Kept
<1>7. QED
  BY <1>3, <1>4, <1>5, <1>6 DEF Rain!JobStep

-----------------------------------------------------------------------------
(* A request. *)

\* The request r moves to q, and what is kept stays right.
LEMMA AskMoves ==
    ASSUME RadarInv, NEW r \in Requests, NEW q, AskOK(q, made),
           ask' = [ask EXCEPT ![r] = q],
           UNCHANGED <<forecast, job, state, made>>, Kept(made)'
    PROVE  RadarInv'
<1>1. ask' = [x \in Requests |-> ask'[x]]
  BY DEF RadarInv
<1>2. \A x \in Requests : ask'[x] = IF x = r THEN q ELSE ask[x]
  BY DEF RadarInv
<1>3. \A x \in Requests : AskOK(ask'[x], made)
  BY <1>2 DEF RadarInv
<1>4. QED
  BY <1>1, <1>3 DEF RadarInv

LEMMA KeptStays == ASSUME Kept(made), UNCHANGED <<latest, edge, made>> PROVE Kept(made)'
BY DEF Kept

\* What is kept for the base time of a request is what may be answered.
LEMMA KeptIsWhole ==
    ASSUME RadarInv, NEW b \in Rain!Times
    PROVE  /\ edge[b] # Rain!NoBundle => WholeBundle(edge[b], b, made)
           /\ Rain!MatchesBase(b) => WholeBundle(latest, b, made)
<1>1. Kept(made)
  BY DEF RadarInv
<1>2. Rain!MatchesBase(b) => latest # Rain!NoBundle /\ latest.base = b
  BY DEF Rain!MatchesBase, Rain!NoBundle
<1>3. QED
  BY <1>1, <1>2 DEF Kept

LEMMA AskAnswers ==
    ASSUME RadarInv, NEW r \in Requests, ask[r].at # "new", NEW bundle, NEW writes,
           WholeBundle(bundle, ask[r].base, made), Rain!Answered(r, bundle, writes),
           UNCHANGED <<forecast, job, state, made, latest, edge>>
    PROVE  RadarInv'
<1> DEFINE q == [ask[r] EXCEPT !.at = "answered", !.bundle = bundle, !.writes = writes]
<1>1. ask' = [ask EXCEPT ![r] = q]
  BY DEF RadarInv, Rain!Answered
<1>2. AskOK(ask[r], made) /\ Kept(made)
  BY DEF RadarInv
<1>3. AskOK(q, made)
  <2>1. DOMAIN ask[r] = DOMAIN Rain!NoRequest
    BY <1>2 DEF AskOK
  <2>2. /\ DOMAIN q = DOMAIN Rain!NoRequest /\ q.at = "answered" /\ q.bundle = bundle
        /\ q.base = ask[r].base
    BY <2>1 DEF Rain!NoRequest
  <2>3. ask[r].base \in Rain!Times
    BY <1>2 DEF AskOK
  <2> HIDE DEF q
  <2>4. QED
    BY <2>2, <2>3 DEF AskOK
<1> HIDE DEF q
<1>4. QED
  BY <1>1, <1>2, <1>3, AskMoves, KeptStays

\* Steps of a request that leave what is kept alone.
LEMMA AskProceeds ==
    ASSUME RadarInv, NEW r \in Requests, NEW q, AskOK(q, made),
           ask' = [ask EXCEPT ![r] = q],
           UNCHANGED <<forecast, job, state, made, latest, edge>>
    PROVE  RadarInv'
<1>1. Kept(made)
  BY DEF RadarInv
<1>2. QED
  BY <1>1, AskMoves, KeptStays

LEMMA AskBeginsOK ==
    ASSUME RadarInv, NEW r \in Requests, NEW p \in made, Rain!Ask(r, Rain!BaseOf(p))
    PROVE  RadarInv'
<1> DEFINE b == Rain!BaseOf(p)
           q == [Rain!NoRequest EXCEPT !.at = "fast", !.base = b]
<1>1. ask' = [ask EXCEPT ![r] = q] /\ UNCHANGED <<forecast, job, state, made, latest, edge>>
  BY DEF Rain!Ask, Rain!Worker
<1>2. b \in Rain!Times
  BY DEF RadarInv, PayloadOK
<1> HIDE DEF b
<1>3. AskOK(q, made)
  BY <1>2 DEF AskOK, Rain!NoRequest
<1> HIDE DEF q
<1>4. QED
  BY <1>1, <1>3, AskProceeds

\* The request fails, or goes on without another bundle.
LEMMA AskAtOK ==
    ASSUME RadarInv, NEW r \in Requests, NEW at, NEW paths, NEW q,
           ask[r].at \notin {"new", "answered"},
           q = [ask[r] EXCEPT !.at = at, !.paths = paths],
           \/ at \in {"fast", "state", "refused"}
           \/ at \in {"match", "shards"} /\ paths \in made /\ Rain!BaseOf(paths) = ask[r].base
    PROVE  AskOK(q, made)
<1>1. AskOK(ask[r], made)
  BY DEF RadarInv
<1>2. DOMAIN ask[r] = DOMAIN Rain!NoRequest
  BY <1>1 DEF AskOK
<1>3. /\ DOMAIN q = DOMAIN Rain!NoRequest /\ q.at = at /\ q.paths = paths
      /\ q.base = ask[r].base /\ q.writes = ask[r].writes
  BY <1>2 DEF Rain!NoRequest
<1>4. ask[r].base \in Rain!Times /\ ask[r].writes = {}
  BY <1>1 DEF AskOK
<1>5. at \in {"fast", "state", "match", "shards", "refused"}
  OBVIOUS
<1>6. QED
  BY <1>3, <1>4, <1>5 DEF AskOK

\* One field changes at a time: the same with only `at`.
LEMMA AskOnlyAt ==
    ASSUME NEW q, DOMAIN q = DOMAIN Rain!NoRequest, NEW at
    PROVE  [q EXCEPT !.at = at] = [q EXCEPT !.at = at, !.paths = q.paths]
BY DEF Rain!NoRequest

LEMMA AskReadsOK ==
    ASSUME RadarInv, NEW r \in Requests,
           \/ Rain!cachedRadarBundleResponse(r) \/ Rain!readState(r)
           \/ Rain!radarBundleResponseForPayload(r)
    PROVE  RadarInv'
<1> DEFINE b == ask[r].base
<1>1. /\ UNCHANGED <<forecast, job, state, made, latest, edge>>
      /\ ask[r].at \in {"fast", "state", "match"}
  BY DEF Rain!cachedRadarBundleResponse, Rain!readState, Rain!radarBundleResponseForPayload,
         Rain!Worker
<1>2. /\ AskOK(ask[r], made) /\ DOMAIN ask[r] = DOMAIN Rain!NoRequest
      /\ b \in Rain!Times /\ ask = [x \in Requests |-> ask[x]]
      /\ state = {} \/ (state \in made /\ PayloadOK(state))
  BY <1>1 DEF RadarInv, AskOK
<1>3. ASSUME Rain!cachedRadarBundleResponse(r) \/ Rain!radarBundleResponseForPayload(r),
             NEW bundle, NEW writes, WholeBundle(bundle, b, made), Rain!Answered(r, bundle, writes)
      PROVE  RadarInv'
  BY <1>1, <1>3, AskAnswers
<1>4. ASSUME NEW at, ask' = [ask EXCEPT ![r].at = at],
             \/ at = "state"
             \/ at = "shards" /\ ask[r].at = "match"
      PROVE  RadarInv'
  <2> DEFINE q == [ask[r] EXCEPT !.at = at, !.paths = ask[r].paths]
  <2>1. ask' = [ask EXCEPT ![r] = q]
    BY <1>2, <1>4, AskOnlyAt
  <2>2. AskOK(q, made)
    BY <1>1, <1>2, <1>4, AskAtOK DEF AskOK
  <2> HIDE DEF q
  <2>3. QED
    BY <1>1, <2>1, <2>2, AskProceeds
<1>5. CASE Rain!cachedRadarBundleResponse(r)
  BY <1>2, <1>3, <1>4, <1>5, KeptIsWhole DEF Rain!cachedRadarBundleResponse
<1>6. CASE Rain!radarBundleResponseForPayload(r)
  <2>1. ask[r].at = "match"
    BY <1>6 DEF Rain!radarBundleResponseForPayload
  <2>2. QED
    BY <1>2, <1>3, <1>4, <1>6, <2>1, KeptIsWhole
       DEF Rain!radarBundleResponseForPayload, Rain!Stored
<1>7. CASE Rain!readState(r)
  <2> DEFINE paths == Rain!radarBundlePaths(state, b)
             at == IF paths = {} THEN "refused" ELSE "match"
             q == [ask[r] EXCEPT !.at = at, !.paths = paths]
  <2>1. ask' = [ask EXCEPT ![r] = q]
    <3>1. ask' = [ask EXCEPT ![r].at = at, ![r].paths = paths]
      BY <1>7 DEF Rain!readState
    <3> HIDE DEF at, paths
    <3>2. QED
      BY <1>2, <3>1
  <2>2. paths # {} => paths \in made /\ Rain!BaseOf(paths) = b
    <3>1. state = {} => paths = {}
      BY DEF Rain!radarBundlePaths
    <3>2. QED
      BY <1>2, <3>1, PathsOfPayload
  <2>3. at = "refused" \/ (at = "match" /\ paths \in made /\ Rain!BaseOf(paths) = b)
    BY <2>2
  <2> HIDE DEF at, paths
  <2>4. AskOK(q, made)
    BY <1>1, <2>3, AskAtOK
  <2> HIDE DEF q
  <2>5. QED
    BY <1>1, <2>1, <2>4, AskProceeds
<1>8. QED
  BY <1>5, <1>6, <1>7

LEMMA AskShardsOK ==
    ASSUME RadarInv, NEW r \in Requests,
           \/ \E i \in Rain!Shards(ask[r].paths) : Rain!radarBundleShardResponse(r, i)
           \/ Rain!ShardFails(r) \/ Rain!shardStream(r) \/ Rain!StreamBreaks(r)
    PROVE  RadarInv'
<1> DEFINE p == ask[r].paths
<1>1. /\ UNCHANGED <<forecast, job, state, made, latest, edge>> /\ ask[r].at = "shards"
  BY DEF Rain!radarBundleShardResponse, Rain!ShardFails, Rain!shardStream,
         Rain!StreamBreaks, Rain!Worker
<1>2. /\ AskOK(ask[r], made) /\ DOMAIN ask[r] = DOMAIN Rain!NoRequest
      /\ ask = [x \in Requests |-> ask[x]]
      /\ p \in made /\ PayloadOK(p) /\ Rain!BaseOf(p) = ask[r].base
  BY <1>1 DEF RadarInv, AskOK
<1>3. ASSUME NEW i \in Rain!Shards(p), Rain!radarBundleShardResponse(r, i) PROVE RadarInv'
  <2> DEFINE q == [ask[r] EXCEPT !.got = @ \cup {i}]
  <2>1. ask' = [ask EXCEPT ![r] = q]
    BY <1>2, <1>3 DEF Rain!radarBundleShardResponse
  <2>2. /\ DOMAIN q = DOMAIN Rain!NoRequest /\ q.at = ask[r].at /\ q.base = ask[r].base
        /\ q.paths = p /\ q.writes = ask[r].writes /\ q.bundle = ask[r].bundle
    BY <1>2 DEF Rain!NoRequest
  <2> HIDE DEF q
  <2>3. AskOK(q, made)
    BY <1>2, <2>2 DEF AskOK
  <2>4. QED
    BY <1>1, <2>1, <2>3, AskProceeds
<1>4. CASE Rain!ShardFails(r) \/ Rain!StreamBreaks(r)
  <2> DEFINE q == [ask[r] EXCEPT !.at = "refused", !.paths = p]
  <2>1. ask' = [ask EXCEPT ![r] = q]
    <3>1. ask' = [ask EXCEPT ![r].at = "refused"]
      BY <1>4 DEF Rain!ShardFails, Rain!StreamBreaks
    <3>2. QED
      BY <1>2, <3>1, AskOnlyAt
  <2>2. AskOK(q, made)
    BY <1>1, AskAtOK
  <2> HIDE DEF q
  <2>3. QED
    BY <1>1, <2>1, <2>2, AskProceeds
<1>5. CASE Rain!shardStream(r)
  <2> DEFINE tiles == UNION {Rain!PathsOf(p, i) : i \in ask[r].got}
             bundle == Rain!Bundle(ask[r].base, p, tiles)
  <2>1. ask[r].got = Rain!Shards(p) /\ Rain!Answered(r, bundle, {"edge", "r2"})
    BY <1>5 DEF Rain!shardStream, Rain!AllShards
  <2>2. tiles = p
    BY <1>2, <2>1, ShardsMakePaths
  <2> HIDE DEF tiles
  <2>3. WholeBundle(bundle, ask[r].base, made)
    BY <1>2, <2>2 DEF WholeBundle, Rain!Bundle
  <2> HIDE DEF bundle
  <2>4. QED
    BY <1>1, <2>1, <2>3, AskAnswers
<1>6. QED
  BY <1>3, <1>4, <1>5

\* A put follows the answer, and the edge forgets.
LEMMA PutsOK ==
    ASSUME RadarInv, NEW r \in Requests,
           Rain!PutOnEdge(r) \/ Rain!PutInR2(r) \/ Rain!PutFails(r)
    PROVE  RadarInv'
<1> DEFINE Q(w) == [ask[r] EXCEPT !.writes = @ \ {w}]
           bundle == ask[r].bundle
           b == ask[r].base
<1>1. PICK w \in ask[r].writes : ask' = [ask EXCEPT ![r].writes = @ \ {w}]
  BY DEF Rain!PutOnEdge, Rain!PutInR2, Rain!PutFails
<1>2. /\ AskOK(ask[r], made) /\ DOMAIN ask[r] = DOMAIN Rain!NoRequest
      /\ ask = [x \in Requests |-> ask[x]] /\ Kept(made)
  BY DEF RadarInv, AskOK
<1>3. ask[r].at = "answered" /\ b \in Rain!Times /\ WholeBundle(bundle, b, made)
  BY <1>1, <1>2 DEF AskOK
<1>4. ask' = [ask EXCEPT ![r] = Q(w)]
  BY <1>1, <1>2
<1>5. AskOK(Q(w), made)
  <2> DEFINE q == Q(w)
  <2>1. /\ DOMAIN q = DOMAIN Rain!NoRequest /\ q.at = ask[r].at /\ q.base = b
        /\ q.bundle = bundle
    BY <1>2 DEF Rain!NoRequest
  <2> HIDE DEF q
  <2>2. AskOK(q, made)
    BY <1>3, <2>1 DEF AskOK
  <2>3. QED
    BY <2>2 DEF q
<1>6. UNCHANGED <<forecast, job, state, made>>
  BY DEF Rain!PutOnEdge, Rain!PutInR2, Rain!PutFails, Rain!Worker
<1>7. Kept(made)'
  <2>1. CASE Rain!PutOnEdge(r)
    <3>1. edge' = [edge EXCEPT ![b] = bundle] /\ latest' = latest
      BY <2>1 DEF Rain!PutOnEdge
    <3> HIDE DEF b, bundle
    <3>2. /\ edge' = [x \in Rain!Times |-> edge'[x]]
          /\ \A x \in Rain!Times : edge'[x] = IF x = b THEN bundle ELSE edge[x]
      BY <1>2, <3>1 DEF Kept
    <3>3. \A x \in Rain!Times : edge'[x] # Rain!NoBundle => WholeBundle(edge'[x], x, made)
      BY <1>2, <1>3, <3>2 DEF Kept
    <3>4. QED
      BY <1>2, <1>6, <3>1, <3>2, <3>3 DEF Kept
  <2>2. CASE Rain!PutInR2(r)
    <3>1. latest' = bundle /\ edge' = edge
      BY <2>2 DEF Rain!PutInR2
    <3>2. WholeBundle(bundle, bundle.base, made)
      BY <1>3 DEF WholeBundle
    <3>3. QED
      BY <1>2, <1>6, <3>1, <3>2 DEF Kept
  <2>3. CASE Rain!PutFails(r)
    BY <1>2, <1>6, <2>3 DEF Rain!PutFails, Kept
  <2>4. QED
    BY <2>1, <2>2, <2>3
<1> HIDE DEF Q
<1>8. QED
  BY <1>4, <1>5, <1>6, <1>7, AskMoves

LEMMA EvictOK ==
    ASSUME RadarInv, NEW b \in Rain!Times, Rain!Evict(b)
    PROVE  RadarInv'
<1>1. /\ edge' = [edge EXCEPT ![b] = Rain!NoBundle]
      /\ UNCHANGED <<forecast, job, state, made, latest, ask>>
  BY DEF Rain!Evict, Rain!Worker
<1>2. Kept(made)
  BY DEF RadarInv
<1>3. /\ edge' = [x \in Rain!Times |-> edge'[x]]
      /\ \A x \in Rain!Times : edge'[x] = edge[x] \/ edge'[x] = Rain!NoBundle
  BY <1>1, <1>2 DEF Kept
<1>4. Kept(made)'
  BY <1>1, <1>2, <1>3 DEF Kept
<1>5. QED
  BY <1>1, <1>4 DEF RadarInv

LEMMA RadarStepOK == RadarInv /\ Rain!Next => RadarInv'
BY SupplierOK, RadarJobOK, AskBeginsOK, AskReadsOK, AskShardsOK, PutsOK, EvictOK
   DEF Rain!Next, Rain!RequestStep

LEMMA RadarWhole == RadarInv => Rain!BundleIsWhole
BY DEF RadarInv, AskOK, WholeBundle, Rain!BundleIsWhole

-----------------------------------------------------------------------------
(* Octopus: the sum of a day follows its readings, however the sums themselves are taken. *)

TotalFollows(f, T, d) ==
    IF d \in DOMAIN T THEN T[d] = Energy!DailyTotal(f, d)
    ELSE DOMAIN f \cap Energy!SlotsOf(d) = {}

EnergyInv ==
    /\ stored = [s \in DOMAIN stored |-> stored[s]]
    /\ totals = [d \in DOMAIN totals |-> totals[d]]
    /\ Energy!TotalsFollowReadings

LEMMA EnergyNumbers ==
    SlotsPerDay \in Nat /\ SlotsPerDay > 0 /\ FloorSlot \in Nat
BY EnergyAssumption DEF Energy!OctopusAssumption

LEMMA DayOfSlot ==
    ASSUME NEW d \in Nat, NEW s \in Energy!SlotsOf(d)
    PROVE  s \in Int /\ s >= d * SlotsPerDay /\ Energy!DayOf(s) = d
<1>1. PICK i \in 0 .. SlotsPerDay - 1 : s = d * SlotsPerDay + i
  BY DEF Energy!SlotsOf
<1>2. d * SlotsPerDay \in Int
  BY EnergyNumbers
<1>3. (d * SlotsPerDay + i) \div SlotsPerDay = d
  BY EnergyNumbers
<1>4. QED
  BY <1>1, <1>2, <1>3, EnergyNumbers DEF Energy!DayOf

\* The sum of a day depends on its readings alone.
LEMMA SameReadings ==
    ASSUME NEW f, NEW g, NEW T, NEW d,
           DOMAIN g \cap Energy!SlotsOf(d) = DOMAIN f \cap Energy!SlotsOf(d),
           \A s \in DOMAIN f \cap Energy!SlotsOf(d) : g[s] = f[s],
           TotalFollows(f, T, d)
    PROVE  TotalFollows(g, T, d)
<1>1. Energy!Only(g, Energy!SlotsOf(d)) = Energy!Only(f, Energy!SlotsOf(d))
  BY DEF Energy!Only, Energy!Restrict
<1>2. QED
  BY <1>1 DEF TotalFollows, Energy!DailyTotal

LEMMA FollowingTotals ==
    Energy!TotalsFollowReadings <=>
        \A d \in Energy!Days \ torn : d * SlotsPerDay >= FloorSlot => TotalFollows(stored, totals, d)
BY DEF Energy!TotalsFollowReadings, TotalFollows

LEMMA EnergyInitOK == Energy!Init => EnergyInv
<1> SUFFICES ASSUME Energy!Init PROVE EnergyInv
  OBVIOUS
<1>1. /\ stored = [s \in 0 .. FloorSlot - 1 |-> Charge]
      /\ totals = [x \in {} |-> 0]
  BY DEF Energy!Init, Energy!Nothing
<1>2. ASSUME NEW d \in Energy!Days, d * SlotsPerDay >= FloorSlot
      PROVE  TotalFollows(stored, totals, d)
  <2>1. d \in Nat
    BY DEF Energy!Days
  <2>2. \A s \in Energy!SlotsOf(d) : s \notin 0 .. FloorSlot - 1
    BY <1>2, <2>1, DayOfSlot, EnergyNumbers
  <2>3. QED
    BY <1>1, <2>2 DEF TotalFollows
<1>3. QED
  BY <1>1, <1>2, FollowingTotals DEF EnergyInv

\* Steps that change no reading and no sum.
LEMMA EnergyRests ==
    ASSUME EnergyInv, UNCHANGED <<stored, totals, torn>>
    PROVE  EnergyInv'
BY DEF EnergyInv, Energy!TotalsFollowReadings, Energy!DailyTotal

\* Readings before the floor are of no day that is spoken of.
LEMMA FloorOK ==
    ASSUME EnergyInv, Energy!enforceHistoryFloor
    PROVE  EnergyInv'
<1>1. /\ stored' = [s \in DOMAIN stored \ (0 .. FloorSlot - 1) |-> stored[s]]
      /\ UNCHANGED <<totals, torn>>
  BY DEF Energy!enforceHistoryFloor, Energy!Without, Energy!Restrict
<1>2. ASSUME NEW d \in Energy!Days \ torn, d * SlotsPerDay >= FloorSlot
      PROVE  TotalFollows(stored', totals, d)
  <2>1. \A s \in Energy!SlotsOf(d) : s \notin 0 .. FloorSlot - 1
    BY <1>2, DayOfSlot, EnergyNumbers DEF Energy!Days
  <2>2. /\ DOMAIN stored' \cap Energy!SlotsOf(d) = DOMAIN stored \cap Energy!SlotsOf(d)
        /\ \A s \in DOMAIN stored \cap Energy!SlotsOf(d) : stored'[s] = stored[s]
    BY <1>1, <2>1
  <2>3. TotalFollows(stored, totals, d)
    BY <1>2, FollowingTotals DEF EnergyInv
  <2>4. QED
    BY <2>2, <2>3, SameReadings
<1>3. Energy!TotalsFollowReadings'
  BY <1>1, <1>2 DEF TotalFollows, Energy!TotalsFollowReadings
<1>4. QED
  BY <1>1, <1>3 DEF EnergyInv

\* A day whose readings change is torn.
LEMMA PersistOK ==
    ASSUME EnergyInv, Energy!persistStableReadings
    PROVE  EnergyInv'
<1> DEFINE N == Energy!NextBatch
           g == Energy!Restrict(sync.fetched, N)
<1>1. /\ stored' = Energy!Over(stored, g) /\ totals' = totals
      /\ torn' = torn \cup {Energy!DayOf(s) : s \in N}
  BY DEF Energy!persistStableReadings
<1>2. DOMAIN g = N
  BY DEF Energy!Restrict
<1> HIDE DEF N, g
<1>3. stored' = [s \in DOMAIN stored \cup N |-> IF s \in N THEN g[s] ELSE stored[s]]
  BY <1>1, <1>2 DEF Energy!Over
<1>4. ASSUME NEW d \in Energy!Days \ torn', d * SlotsPerDay >= FloorSlot
      PROVE  TotalFollows(stored', totals, d)
  <2>1. d \in Nat
    BY DEF Energy!Days
  <2>2. N \cap Energy!SlotsOf(d) = {}
    BY <1>1, <1>4, <2>1, DayOfSlot
  <2>3. /\ DOMAIN stored' \cap Energy!SlotsOf(d) = DOMAIN stored \cap Energy!SlotsOf(d)
        /\ \A s \in DOMAIN stored \cap Energy!SlotsOf(d) : stored'[s] = stored[s]
    BY <1>3, <2>2
  <2>4. TotalFollows(stored, totals, d)
    BY <1>1, <1>4, FollowingTotals DEF EnergyInv
  <2>5. QED
    BY <2>3, <2>4, SameReadings
<1>5. Energy!TotalsFollowReadings'
  BY <1>1, <1>4 DEF TotalFollows, Energy!TotalsFollowReadings
<1>6. stored' = [s \in DOMAIN stored' |-> stored'[s]]
  BY <1>3
<1>7. QED
  BY <1>1, <1>5, <1>6 DEF EnergyInv

LEMMA RefreshOK ==
    ASSUME EnergyInv, NEW e \in Energy!Days, Energy!refreshDailyTotals(e)
    PROVE  EnergyInv'
<1> DEFINE total == Energy!DailyTotal(stored, e)
<1>1. /\ totals' = Energy!Over(totals, [x \in {e} |-> total]) /\ stored' = stored
      /\ torn' = torn \ {e}
  BY DEF Energy!refreshDailyTotals, Energy!SelectedTotal
<1> HIDE DEF total
<1>2. totals' = [x \in DOMAIN totals \cup {e} |-> IF x = e THEN total ELSE totals[x]]
  BY <1>1 DEF Energy!Over
<1>3. ASSUME NEW d \in Energy!Days \ torn', d * SlotsPerDay >= FloorSlot
      PROVE  TotalFollows(stored, totals', d)
  <2>1. CASE d = e
    BY <1>2, <2>1 DEF TotalFollows, total
  <2>2. CASE d # e
    <3>1. TotalFollows(stored, totals, d)
      BY <1>1, <1>3, <2>2, FollowingTotals DEF EnergyInv
    <3>2. (d \in DOMAIN totals' <=> d \in DOMAIN totals) /\ (d \in DOMAIN totals => totals'[d] = totals[d])
      BY <1>2, <2>2
    <3>3. QED
      BY <3>1, <3>2 DEF TotalFollows
  <2>3. QED
    BY <2>1, <2>2
<1>4. Energy!TotalsFollowReadings'
  BY <1>1, <1>3 DEF TotalFollows, Energy!TotalsFollowReadings, Energy!DailyTotal
<1>5. totals' = [d \in DOMAIN totals' |-> totals'[d]]
  BY <1>2
<1>6. QED
  BY <1>1, <1>4, <1>5 DEF EnergyInv

LEMMA EnergyStepOK == EnergyInv /\ Energy!Next => EnergyInv'
<1> SUFFICES ASSUME EnergyInv, Energy!Next PROVE EnergyInv'
  OBVIOUS
<1>1. CASE Energy!Supplier
  BY <1>1, EnergyRests DEF Energy!Supplier, Energy!Tick, Energy!Refuse, Energy!TokenExpires,
         Energy!PublishLate, Energy!Amend
<1>2. CASE Energy!enforceHistoryFloor
  BY <1>2, FloorOK
<1>3. CASE Energy!persistStableReadings
  BY <1>3, PersistOK
<1>4. CASE \E d \in Energy!Days : Energy!refreshDailyTotals(d)
  BY <1>4, RefreshOK
<1>5. CASE \/ Energy!fetchOctopus \/ Energy!authenticateOctopus
           \/ Energy!fetchOctopusRangeReadings \/ Energy!StartOver \/ Energy!addLiveReadings
           \/ Energy!JobEnds \/ Energy!Answer \/ Energy!JobDone
  BY <1>5, EnergyRests DEF Energy!fetchOctopus, Energy!authenticateOctopus,
         Energy!fetchOctopusRangeReadings, Energy!StartOver, Energy!addLiveReadings,
         Energy!JobEnds, Energy!Answer, Energy!JobDone
<1>6. QED
  BY <1>1, <1>2, <1>3, <1>4, <1>5 DEF Energy!Next, Energy!Job

-----------------------------------------------------------------------------
(* Octopus: the answer. A run has what it fetched in three places, the sums of whole days,
   the kept readings and the live ones; the invariant says how far each reaches, and the
   answer is then compared day by day with that of all readings. *)

\* What a reading may say.
Charges == {Charge, 2 * Charge}

\* Readings of finitely many half hours.
Readings(f) ==
    /\ f = [s \in DOMAIN f |-> f[s]] /\ Energy!IsFiniteSet(DOMAIN f)
    /\ \A s \in DOMAIN f : s \in Nat /\ f[s] \in Charges

\* The first slot that is not yet old enough to be kept.
Cutoff(t) == (t - 2 * Energy!DAY) \div HalfHour

\* A day that is kept.
KeptDay(d) == d \in Energy!Days /\ d * SlotsPerDay >= FloorSlot

\* The readings that are kept, at time t.
StoredOK(f, t) ==
    /\ Readings(f)
    /\ \A s \in DOMAIN f : s < FloorSlot \/ s < Cutoff(t)

\* What the run has behind it, up to the cursor.
SeenOK(j, f) ==
    /\ Readings(j.seen) /\ Readings(j.live)
    /\ \A s \in DOMAIN j.seen : FloorSlot <= s /\ s * HalfHour < j.now /\ s * HalfHour < j.cursor
    /\ DOMAIN j.live = {s \in DOMAIN j.seen : s >= Cutoff(j.now)}
    /\ \A s \in DOMAIN j.live : j.live[s] = j.seen[s]
    /\ \A s \in DOMAIN j.seen : s < Cutoff(j.now) => s \in DOMAIN f /\ f[s] = j.seen[s]

\* What it has fetched, and what of that is not yet kept.
FetchedOK(j, f) ==
    /\ Readings(j.fetched) /\ j.cursor < j.now
    /\ \A s \in DOMAIN j.fetched :
          FloorSlot <= s /\ j.cursor <= s * HalfHour /\ s * HalfHour < Energy!Min({j.now, j.cursor + 2 * Energy!DAY})
    /\ j.changed \subseteq DOMAIN j.fetched
    /\ \A s \in DOMAIN j.fetched :
          IF s < Cutoff(j.now) THEN s \in j.changed \/ (s \in DOMAIN f /\ f[s] = j.fetched[s])
                               ELSE s \notin j.changed
    /\ \A d \in j.days : KeptDay(d)

JobOK(j, f, t) ==
    /\ j.at \in {"idle", "authenticate", "floor", "fetch", "persist", "answered"}
    /\ j.at # "idle" => j.now \in Nat /\ StartNow <= j.now /\ j.now <= t /\ StoredOK(f, j.now)
    /\ j.at \in {"fetch", "persist"} =>
          /\ j.cursor \in Nat /\ j.cursor >= FloorSlot * HalfHour
          /\ \A s \in DOMAIN f : s >= FloorSlot
          /\ SeenOK(j, f)
    /\ j.at = "persist" => FetchedOK(j, f)

DailyOK(n, f, T, j) ==
    /\ n \in Nat /\ StartNow <= n /\ n <= MaxNow
    /\ StoredOK(f, n)
    /\ \A d \in DOMAIN T : KeptDay(d)
    /\ DOMAIN j = DOMAIN Energy!Idle /\ JobOK(j, f, n)

DailyInv == DailyOK(now, stored, totals, sync) /\ Energy!ProfileIsTrue

-----------------------------------------------------------------------------
(* Arithmetic of half hours and days. *)

LEMMA Quotient ==
    ASSUME NEW a \in Int, NEW n \in Nat \ {0}
    PROVE  a \div n \in Int /\ (a \div n) * n <= a /\ a < (a \div n) * n + n
OBVIOUS

LEMMA Multiples ==
    ASSUME NEW a \in Int, NEW b \in Int, NEW n \in Nat \ {0}
    PROVE  /\ a * n \in Int /\ b * n \in Int /\ (a + 1) * n = a * n + n
           /\ a < b => a * n + n <= b * n
           /\ a <= b => a * n <= b * n
           /\ a * n < b * n => a < b
           /\ a * n <= b * n => a <= b
OBVIOUS

LEMMA EnergyConstants ==
    /\ HalfHour \in Nat \ {0} /\ SlotsPerDay \in Nat \ {0} /\ PROFILE_DAYS \in Nat \ {0}
    /\ D1_BATCH_SIZE \in Nat \ {0} /\ Charge \in Nat \ {0}
    /\ OCTOPUS_COLLECTION_DAYS \in Nat /\ OCTOPUS_COLLECTION_DAYS > 2
    /\ FloorSlot \in Nat /\ MonthStart \in Nat /\ StartNow \in Nat /\ MaxNow \in Nat
    /\ FloorSlot % SlotsPerDay = 0 /\ Late \cup Corrected \subseteq 0 .. Energy!LastSlot
    /\ \A n \in 1 .. SlotsPerDay : Charge % n = 0
    /\ StartNow >= (2 + 2 * PROFILE_DAYS) * Energy!DAY /\ StartNow <= MaxNow
BY EnergyAssumption DEF Energy!OctopusAssumption

LEMMA DayIsLong ==
    /\ Energy!DAY \in Nat \ {0}
    /\ \A d \in Int : d * Energy!DAY = (d * SlotsPerDay) * HalfHour /\ d * Energy!DAY \in Int
BY EnergyConstants DEF Energy!DAY

LEMMA CutoffGrows ==
    ASSUME NEW t \in Nat, NEW u \in Nat, t <= u
    PROVE  /\ Cutoff(t) \in Int /\ Cutoff(u) \in Int /\ Cutoff(t) <= Cutoff(u)
           /\ Cutoff(t) * HalfHour <= t - 2 * Energy!DAY
           /\ Energy!octopusStableCutoffJst(t) = Cutoff(t) * HalfHour
<1> DEFINE a == t - 2 * Energy!DAY
           b == u - 2 * Energy!DAY
<1>1. a \in Int /\ b \in Int /\ a <= b /\ HalfHour \in Nat \ {0}
  BY DayIsLong, EnergyConstants
<1>2. Cutoff(t) = a \div HalfHour /\ Cutoff(u) = b \div HalfHour
  BY DEF Cutoff
<1>3. Energy!octopusStableCutoffJst(t) = Cutoff(t) * HalfHour
  BY DEF Cutoff, Energy!octopusStableCutoffJst
<1> DEFINE m == a \div HalfHour
           n == b \div HalfHour
<1> HIDE DEF a, b
<1>4. m \in Int /\ n \in Int /\ m * HalfHour <= a /\ b < n * HalfHour + HalfHour
  BY <1>1, Quotient
<1> HIDE DEF m, n
<1>5. (n + 1) * HalfHour = n * HalfHour + HalfHour
  BY <1>1, <1>4, Multiples
<1>6. m * HalfHour < (n + 1) * HalfHour
  <2>1. m * HalfHour \in Int /\ n * HalfHour \in Int
    BY <1>1, <1>4, Multiples
  <2>2. QED
    BY <1>1, <1>4, <1>5, <2>1
<1>7. m < n + 1
  <2> DEFINE k == n + 1
  <2>1. k \in Int /\ m * HalfHour < k * HalfHour
    BY <1>4, <1>6
  <2> HIDE DEF k
  <2>2. m < k
    BY <1>1, <1>4, <2>1, Multiples
  <2>3. QED
    BY <2>2 DEF k
<1>8. QED
  BY <1>2, <1>3, <1>4, <1>7 DEF m, n, a

-----------------------------------------------------------------------------
(* Sums of readings. *)

LEMMA EnergySum == \A f : Energy!SumOf(f) = SumOver(f, DOMAIN f)
BY DEF Energy!SumOf, Energy!FoldFunction, Energy!FoldFunctionOnSet, Energy!MapThenFoldSet, SumOver, Sums,
       Summand, Others

LEMMA FiniteHere == \A S : Energy!IsFiniteSet(S) <=> IsFiniteSet(S)
BY DEF Energy!IsFiniteSet, IsFiniteSet

LEMMA CardinalityHere == \A S : Energy!Cardinality(S) = Cardinality(S)
BY DEF Energy!Cardinality, Cardinality

LEMMA SumOfOnly ==
    ASSUME NEW f, NEW S, NEW g, IsFiniteSet(DOMAIN f \cap S), g = Energy!Only(f, S)
    PROVE  DOMAIN g = DOMAIN f \cap S /\ Energy!SumOf(g) = SumOver(f, DOMAIN f \cap S)
<1> DEFINE D == DOMAIN f \cap S
<1>1. DOMAIN g = D /\ \A x \in D : f[x] = g[x]
  BY DEF Energy!Only, Energy!Restrict
<1> HIDE DEF D
<1>2. IsFiniteSet(D)
  BY DEF D
<1>3. SumOver(f, D) = SumOver(g, D)
  BY <1>1, <1>2, SumSame
<1>4. QED
  BY <1>1, <1>3, EnergySum DEF D

LEMMA SlotsOfDay ==
    ASSUME NEW d \in Int
    PROVE  /\ Energy!SlotsOf(d) = d * SlotsPerDay .. (d * SlotsPerDay + SlotsPerDay - 1)
           /\ IsFiniteSet(Energy!SlotsOf(d)) /\ Cardinality(Energy!SlotsOf(d)) = SlotsPerDay
<1> DEFINE a == d * SlotsPerDay
           b == a + SlotsPerDay - 1
<1>1. a \in Int /\ SlotsPerDay \in Nat /\ SlotsPerDay > 0
  BY EnergyConstants
<1> HIDE DEF a
<1>2. {a + i : i \in 0 .. SlotsPerDay - 1} = a .. b
  <2>1. \A s \in a .. b : s - a \in 0 .. SlotsPerDay - 1 /\ s = a + (s - a)
    BY <1>1
  <2>2. \A i \in 0 .. SlotsPerDay - 1 : a + i \in a .. b
    BY <1>1
  <2>3. QED
    BY <2>1, <2>2
<1>3. b \in Int /\ a <= b /\ b - a + 1 = SlotsPerDay
  BY <1>1
<1> HIDE DEF b
<1>4. IsFiniteSet(a .. b) /\ Cardinality(a .. b) = b - a + 1
  BY <1>1, <1>3, FS_Interval
<1>5. QED
  BY <1>2, <1>3, <1>4 DEF Energy!SlotsOf, a, b

\* Readings of a day: as many, with the same sum.
Of(f, d) == DOMAIN f \cap Energy!SlotsOf(d)
SameDay(f, g, d) ==
    /\ Cardinality(Of(f, d)) = Cardinality(Of(g, d))
    /\ SumOver(f, Of(f, d)) = SumOver(g, Of(g, d))

Amounts(f) == \A s \in DOMAIN f : f[s] \in Int

\* What is added to other slots of a day.
LEMMA DayWith ==
    ASSUME NEW d \in Int, NEW f, NEW l, Amounts(f), Amounts(l), Of(f, d) \cap Of(l, d) = {},
           NEW g, g = Energy!Over(f, l)
    PROVE  /\ Cardinality(Of(g, d)) = Cardinality(Of(f, d)) + Cardinality(Of(l, d))
           /\ SumOver(g, Of(g, d)) = SumOver(f, Of(f, d)) + SumOver(l, Of(l, d))
           /\ Amounts(g) /\ Cardinality(Of(g, d)) \in Nat
           /\ Energy!dayTotal(g, d) = IF Cardinality(Of(g, d)) = SlotsPerDay THEN SumOver(g, Of(g, d)) ELSE -1
<1> DEFINE F == Of(f, d)
           L == Of(l, d)
           D == Energy!SlotsOf(d)
<1>1. /\ DOMAIN g = DOMAIN f \cup DOMAIN l
      /\ \A x \in DOMAIN l : g[x] = l[x] /\ \A y \in DOMAIN f \ DOMAIN l : g[y] = f[y]
      /\ \A x \in DOMAIN g : g[x] = IF x \in DOMAIN l THEN l[x] ELSE f[x]
  BY DEF Energy!Over
<1>2. Amounts(g)
  BY <1>1 DEF Amounts
<1>3. F \subseteq D /\ L \subseteq D /\ F \cap L = {} /\ Of(g, d) = F \cup L
  BY <1>1 DEF Of
<1>4. IsFiniteSet(F) /\ IsFiniteSet(L) /\ IsFiniteSet(D) /\ Cardinality(D) = SlotsPerDay
  BY <1>3, SlotsOfDay, FS_Subset
<1>5. (\A x \in F : g[x] = f[x]) /\ (\A x \in L : g[x] = l[x]) /\ \A x \in F \cup L : g[x] \in Int
  <2>1. \A x \in F : x \in DOMAIN f \ DOMAIN l
    BY <1>3 DEF Of
  <2>2. \A x \in L : x \in DOMAIN l
    BY DEF Of
  <2>3. \A x \in F \cup L : x \in DOMAIN g
    BY <1>1 DEF Of
  <2>4. QED
    BY <1>1, <1>2, <2>1, <2>2, <2>3 DEF Amounts
<1>6. IsFiniteSet(Of(g, d)) /\ Of(g, d) \subseteq D
  BY <1>3, <1>4, FS_Subset
<1> HIDE DEF F, L, D
<1>7. SumOver(g, F \cup L) = SumOver(g, F) + SumOver(g, L)
  BY <1>3, <1>4, <1>5, SumOfParts
<1>8. SumOver(g, F) = SumOver(f, F) /\ SumOver(g, L) = SumOver(l, L)
  BY <1>4, <1>5, SumSame
<1>9. Cardinality(F \cup L) = Cardinality(F) + Cardinality(L)
  <2>1. Cardinality(F \cap L) = 0 /\ Cardinality(F) \in Nat /\ Cardinality(L) \in Nat
    BY <1>3, <1>4, FS_EmptySet, FS_CardinalityType
  <2>2. Cardinality(F \cup L) = Cardinality(F) + Cardinality(L) - Cardinality(F \cap L)
    BY <1>4, FS_Union
  <2>3. QED
    BY <2>1, <2>2
<1>10. Cardinality(Of(g, d)) \in Nat
  BY <1>6, FS_CardinalityType
<1>11. D \subseteq DOMAIN g <=> Cardinality(Of(g, d)) = SlotsPerDay
  <2>1. D \subseteq DOMAIN g <=> Of(g, d) = D
    BY DEF Of, D
  <2>2. Of(g, d) = D <=> Cardinality(Of(g, d)) = Cardinality(D)
    BY <1>4, <1>6, FS_Subset
  <2>3. QED
    BY <1>4, <2>1, <2>2
<1>12. Of(g, d) = D => Energy!SumOf(Energy!Restrict(g, D)) = SumOver(g, D)
  <2> SUFFICES ASSUME Of(g, d) = D PROVE Energy!SumOf(Energy!Restrict(g, D)) = SumOver(g, D)
    OBVIOUS
  <2> DEFINE h == Energy!Restrict(g, D)
  <2>1. DOMAIN h = D /\ \A x \in D : h[x] = g[x]
    BY DEF Energy!Restrict
  <2> HIDE DEF h
  <2>2. SumOver(h, D) = SumOver(g, D)
    BY <1>4, <2>1, SumSame
  <2>3. QED
    BY <2>1, <2>2, EnergySum DEF h
<1>13. Energy!dayTotal(g, d) = IF Cardinality(Of(g, d)) = SlotsPerDay THEN SumOver(g, Of(g, d)) ELSE -1
  BY <1>6, <1>11, <1>12 DEF Energy!dayTotal, D, Of
<1>14. QED
  BY <1>2, <1>3, <1>7, <1>8, <1>9, <1>10, <1>13 DEF F, L

LEMMA SameWith ==
    ASSUME NEW d \in Int, NEW f, NEW g, NEW l, Amounts(f), Amounts(g), Amounts(l), SameDay(f, g, d),
           Of(f, d) \cap Of(l, d) = {}, Of(g, d) \cap Of(l, d) = {},
           NEW u, u = Energy!Over(f, l), NEW v, v = Energy!Over(g, l)
    PROVE  SameDay(u, v, d) /\ Energy!dayTotal(u, d) = Energy!dayTotal(v, d)
<1>1. /\ Cardinality(Of(u, d)) = Cardinality(Of(f, d)) + Cardinality(Of(l, d))
      /\ SumOver(u, Of(u, d)) = SumOver(f, Of(f, d)) + SumOver(l, Of(l, d))
      /\ Energy!dayTotal(u, d) = IF Cardinality(Of(u, d)) = SlotsPerDay THEN SumOver(u, Of(u, d)) ELSE -1
  BY DayWith
<1>2. /\ Cardinality(Of(v, d)) = Cardinality(Of(g, d)) + Cardinality(Of(l, d))
      /\ SumOver(v, Of(v, d)) = SumOver(g, Of(g, d)) + SumOver(l, Of(l, d))
      /\ Energy!dayTotal(v, d) = IF Cardinality(Of(v, d)) = SlotsPerDay THEN SumOver(v, Of(v, d)) ELSE -1
  BY DayWith
<1>3. QED
  BY <1>1, <1>2 DEF SameDay

\* The readings of the billing month before day k.
Month(f, k) == {s \in DOMAIN f : MonthStart * SlotsPerDay <= s /\ s < k * SlotsPerDay}

UsageAt(f, t) == Energy!SumOf(Energy!Only(f, Energy!SlotsFrom(MonthStart * Energy!DAY, t)))

\* Day after day.
LEMMA MonthGrows ==
    ASSUME NEW f, Amounts(f), IsFiniteSet(DOMAIN f), DOMAIN f \subseteq Nat, NEW k \in Nat
    PROVE  /\ k <= MonthStart => Month(f, k) = {}
           /\ k >= MonthStart => SumOver(f, Month(f, k + 1)) = SumOver(f, Month(f, k)) + SumOver(f, Of(f, k))
<1> DEFINE a == MonthStart * SlotsPerDay
           b == k * SlotsPerDay
           c == (k + 1) * SlotsPerDay
<1>1. SlotsPerDay \in Nat \ {0} /\ MonthStart \in Int /\ k \in Int
  BY EnergyConstants
<1>2. /\ a \in Int /\ b \in Int /\ c = b + SlotsPerDay
      /\ k <= MonthStart => b <= a
      /\ MonthStart <= k => a <= b
  BY <1>1, Multiples
<1>3. /\ Month(f, k) = {s \in DOMAIN f : a <= s /\ s < b}
      /\ Month(f, k + 1) = {s \in DOMAIN f : a <= s /\ s < c}
      /\ Of(f, k) = DOMAIN f \cap (b .. (b + SlotsPerDay - 1))
  BY <1>1, SlotsOfDay DEF Month, Of
<1> HIDE DEF a, b, c
<1>4. k <= MonthStart => Month(f, k) = {}
  <2> SUFFICES ASSUME k <= MonthStart, NEW s \in DOMAIN f, a <= s, s < b PROVE FALSE
    BY <1>3
  <2>1. s \in Int
    OBVIOUS
  <2>2. QED
    BY <1>2, <2>1
<1>5. ASSUME k >= MonthStart PROVE SumOver(f, Month(f, k + 1)) = SumOver(f, Month(f, k)) + SumOver(f, Of(f, k))
  <2>1. a <= b
    BY <1>1, <1>2, <1>5, EnergyConstants
  <2>2. \A s \in DOMAIN f : a <= s /\ s < c <=> (a <= s /\ s < b) \/ s \in b .. (b + SlotsPerDay - 1)
    <3> TAKE s \in DOMAIN f
    <3>1. s \in Int
      OBVIOUS
    <3>2. QED
      BY <1>1, <1>2, <2>1, <3>1
  <2>3. Month(f, k + 1) = Month(f, k) \cup Of(f, k)
    BY <1>3, <2>2
  <2>4. Month(f, k) \cap Of(f, k) = {}
    <3> SUFFICES ASSUME NEW s \in DOMAIN f, s < b, s \in b .. (b + SlotsPerDay - 1) PROVE FALSE
      BY <1>3
    <3>1. QED
      BY <1>2
  <2>5. IsFiniteSet(Month(f, k)) /\ IsFiniteSet(Of(f, k)) /\ \A s \in Month(f, k) \cup Of(f, k) : f[s] \in Int
    BY FS_Subset DEF Month, Of, Amounts
  <2> DEFINE S == Month(f, k)
             T == Of(f, k)
  <2> HIDE DEF S, T
  <2>6. SumOver(f, S \cup T) = SumOver(f, S) + SumOver(f, T)
    BY <2>4, <2>5, SumOfParts DEF S, T
  <2>7. QED
    BY <2>3, <2>6 DEF S, T
<1>6. QED
  BY <1>4, <1>5

LEMMA UsageSame ==
    ASSUME NEW t \in Nat, t <= MaxNow, NEW f, NEW g, Amounts(f), Amounts(g),
           IsFiniteSet(DOMAIN f), IsFiniteSet(DOMAIN g),
           \A s \in DOMAIN f \cup DOMAIN g : s \in Nat /\ s * HalfHour < t,
           \A d \in Nat : d >= MonthStart => SameDay(f, g, d)
    PROVE  UsageAt(f, t) = UsageAt(g, t)
<1> DEFINE P(k) == SumOver(f, Month(f, k)) = SumOver(g, Month(g, k))
<1>1. ASSUME NEW k \in Nat PROVE P(k)
  <2> DEFINE B == {j \in Nat : ~P(j)}
  <2>1. SUFFICES ASSUME B # {} PROVE FALSE
    BY DEF B
  <2>2. PICK j \in B : \A i \in B : j <= i
    BY <2>1, LeastNumber
  <2>3. j \in Nat /\ ~P(j) /\ \A i \in Nat : i < j => P(i)
    BY <2>2
  <2>4. DOMAIN f \subseteq Nat /\ DOMAIN g \subseteq Nat /\ MonthStart \in Nat
    BY EnergyConstants
  <2> HIDE DEF B
  <2>5. j > MonthStart
    <3> SUFFICES ASSUME j <= MonthStart PROVE FALSE
      BY <2>3, <2>4
    <3>1. Month(f, j) = {} /\ Month(g, j) = {}
      BY <2>3, <2>4, MonthGrows
    <3>2. QED
      BY <2>3, <3>1, SumOfNone
  <2> DEFINE i == j - 1
  <2>6. i \in Nat /\ i < j /\ i >= MonthStart /\ j = i + 1
    BY <2>3, <2>4, <2>5
  <2> HIDE DEF i
  <2>7. P(i) /\ SameDay(f, g, i)
    BY <2>3, <2>6
  <2>8. /\ SumOver(f, Month(f, i + 1)) = SumOver(f, Month(f, i)) + SumOver(f, Of(f, i))
        /\ SumOver(g, Month(g, i + 1)) = SumOver(g, Month(g, i)) + SumOver(g, Of(g, i))
    BY <2>4, <2>6, MonthGrows
  <2>9. QED
    BY <2>3, <2>6, <2>7, <2>8 DEF SameDay
<1> HIDE DEF P
<1>2. ASSUME NEW h, IsFiniteSet(DOMAIN h), \A s \in DOMAIN h : s \in Nat /\ s * HalfHour < t
      PROVE  UsageAt(h, t) = SumOver(h, Month(h, t))
  <2> DEFINE S == Energy!SlotsFrom(MonthStart * Energy!DAY, t)
             M == MonthStart * SlotsPerDay
  <2>1. M \in Int /\ MonthStart * Energy!DAY = M * HalfHour /\ HalfHour \in Nat \ {0} /\ SlotsPerDay \in Nat \ {0}
        /\ MaxNow \in Nat
    BY DayIsLong, EnergyConstants
  <2> HIDE DEF M
  <2>2. ASSUME NEW s \in DOMAIN h PROVE s \in S <=> M <= s /\ s < t * SlotsPerDay
    <3>1. s \in Nat /\ s * HalfHour \in Int /\ s * HalfHour < t
      BY <1>2, <2>1
    <3>2. s <= Energy!LastSlot /\ s \in 0 .. Energy!LastSlot
      <4> DEFINE q == MaxNow \div HalfHour
      <4>1. q \in Int /\ MaxNow < q * HalfHour + HalfHour
        BY <2>1, Quotient
      <4> HIDE DEF q
      <4>2. (q + 1) * HalfHour = q * HalfHour + HalfHour
        BY <2>1, <4>1, Multiples
      <4> DEFINE e == q + 1
      <4>3. e \in Int /\ s * HalfHour < e * HalfHour
        BY <2>1, <3>1, <4>1, <4>2
      <4> HIDE DEF e
      <4>4. s < e
        BY <2>1, <3>1, <4>3, Multiples
      <4>5. QED
        BY <3>1, <4>1, <4>4 DEF e, q, Energy!LastSlot, Energy!SlotAt
    <3>3. M * HalfHour <= s * HalfHour <=> M <= s
      BY <2>1, <3>1, Multiples
    <3>4. s < t * SlotsPerDay
      <4>1. s * 1 <= s * HalfHour /\ t * 1 <= t * SlotsPerDay /\ t * SlotsPerDay \in Int
        BY <2>1, <3>1
      <4>2. QED
        BY <3>1, <4>1
    <3>5. QED
      BY <2>1, <3>1, <3>2, <3>3, <3>4 DEF Energy!SlotsFrom
  <2>3. DOMAIN h \cap S = Month(h, t)
    BY <2>2 DEF Month, M
  <2>4. IsFiniteSet(DOMAIN h \cap S)
    BY <1>2, FS_Subset
  <2> HIDE DEF S
  <2>5. Energy!SumOf(Energy!Only(h, S)) = SumOver(h, DOMAIN h \cap S)
    BY <2>4, SumOfOnly
  <2>6. QED
    BY <2>3, <2>5 DEF UsageAt, S
<1>3. UsageAt(f, t) = SumOver(f, Month(f, t)) /\ UsageAt(g, t) = SumOver(g, Month(g, t))
  BY <1>2
<1>4. QED
  BY <1>1, <1>3 DEF P

-----------------------------------------------------------------------------
(* The answer: days of the sums, of the readings and of what was just fetched. *)

LEMMA ExtremesOfTwo ==
    ASSUME NEW a \in Int, NEW b \in Int
    PROVE  /\ Energy!Min({a, b}) = IF a <= b THEN a ELSE b
           /\ Energy!Max({a, b}) = IF a <= b THEN b ELSE a
<1> DEFINE S == {a, b}
           m == IF a <= b THEN a ELSE b
           n == IF a <= b THEN b ELSE a
<1>1. /\ m \in S /\ (\A y \in S : m <= y) /\ \A x \in S : (\A y \in S : x <= y) => x = m
      /\ n \in S /\ (\A y \in S : n >= y) /\ \A x \in S : (\A y \in S : x >= y) => x = n
  OBVIOUS
<1> HIDE DEF S, m, n
<1>2. (CHOOSE x \in S : \A y \in S : x <= y) = m /\ (CHOOSE x \in S : \A y \in S : x >= y) = n
  BY <1>1
<1>3. QED
  BY <1>2 DEF Energy!Min, Energy!Max, S, m, n

\* A slot that is old enough is over, and of a day that is spoken of.
LEMMA EarlySlot ==
    ASSUME NEW t \in Nat, NEW s \in Nat, s < Cutoff(t)
    PROVE  s * HalfHour \in Int /\ s * HalfHour < t /\ (t <= MaxNow => s <= Energy!LastSlot)
<1> DEFINE c == Cutoff(t)
           q == MaxNow \div HalfHour
<1>1. /\ c \in Int /\ c * HalfHour <= t - 2 * Energy!DAY /\ s < c /\ s \in Int
      /\ HalfHour \in Nat \ {0} /\ MaxNow \in Nat /\ Energy!DAY \in Nat \ {0}
  BY CutoffGrows, EnergyConstants, DayIsLong
<1> HIDE DEF c
<1>2. s * HalfHour + HalfHour <= c * HalfHour /\ s * HalfHour \in Int /\ c * HalfHour \in Int
  BY <1>1, Multiples
<1>3. s * HalfHour < t
  BY <1>1, <1>2
<1>4. q \in Int /\ MaxNow < q * HalfHour + HalfHour
  BY <1>1, Quotient
<1> HIDE DEF q
<1> DEFINE e == q + 1
<1>5. e * HalfHour = q * HalfHour + HalfHour /\ e \in Int
  BY <1>1, <1>4, Multiples
<1> HIDE DEF e
<1>6. t <= MaxNow => s * HalfHour < e * HalfHour
  BY <1>1, <1>2, <1>3, <1>4, <1>5
<1>7. s * HalfHour < e * HalfHour => s < e
  BY <1>1, <1>5, Multiples
<1>8. t <= MaxNow => s <= q
  BY <1>1, <1>4, <1>6, <1>7 DEF e
<1>9. QED
  BY <1>2, <1>3, <1>8 DEF q, Energy!LastSlot, Energy!SlotAt

\* A day below the floor, or after the last, has no readings.
LEMMA DayBounds ==
    ASSUME NEW d \in Nat, NEW s \in Energy!SlotsOf(d)
    PROVE  /\ d * SlotsPerDay < FloorSlot => s < FloorSlot
           /\ d \notin Energy!Days => s > Energy!LastSlot
           /\ \A e \in Int : s * HalfHour < e * Energy!DAY <=> d < e
           /\ \A e \in Int : e * Energy!DAY <= s * HalfHour <=> e <= d
<1> DEFINE a == d * SlotsPerDay
           q == FloorSlot \div SlotsPerDay
           l == Energy!LastSlot
           n == l \div SlotsPerDay
<1>1. /\ SlotsPerDay \in Nat \ {0} /\ HalfHour \in Nat \ {0} /\ FloorSlot \in Nat /\ MaxNow \in Nat
      /\ FloorSlot % SlotsPerDay = 0 /\ d \in Int
  BY EnergyConstants
<1>2. a \in Int /\ s \in Int /\ a <= s /\ s < a + SlotsPerDay
  <2>1. a \in Int
    BY <1>1
  <2>2. Energy!SlotsOf(d) = a .. (a + SlotsPerDay - 1)
    BY SlotsOfDay
  <2> HIDE DEF a
  <2>3. QED
    BY <1>1, <2>1, <2>2
<1>3. q \in Int /\ FloorSlot = q * SlotsPerDay
  BY <1>1
<1>4. l \in Int /\ n \in Int /\ l < n * SlotsPerDay + SlotsPerDay /\ 0 <= n
  <2>1. l \in Nat
    BY <1>1 DEF Energy!LastSlot, Energy!SlotAt
  <2> HIDE DEF l
  <2>2. QED
    BY <1>1, <2>1, Quotient
<1>5. Energy!Days = 0 .. n
  BY DEF Energy!Days, Energy!DayOf
<1> HIDE DEF q, l, n
<1>6. a < FloorSlot => s < FloorSlot
  <2> SUFFICES ASSUME a < FloorSlot PROVE s < FloorSlot
    OBVIOUS
  <2>1. a < q * SlotsPerDay
    BY <1>3
  <2>2. d < q
    BY <1>1, <1>3, <2>1, Multiples
  <2>3. a + SlotsPerDay <= q * SlotsPerDay
    BY <1>1, <1>3, <2>2, Multiples
  <2> HIDE DEF a
  <2>4. QED
    BY <1>1, <1>2, <1>3, <2>3
<1>7. d \notin Energy!Days => s > l
  <2> SUFFICES ASSUME d \notin 0 .. n PROVE s > l
    BY <1>5
  <2>1. n < d
    BY <1>1, <1>4
  <2>2. n * SlotsPerDay + SlotsPerDay <= a /\ n * SlotsPerDay \in Int
    BY <1>1, <1>4, <2>1, Multiples
  <2> HIDE DEF a
  <2>3. QED
    BY <1>1, <1>2, <1>4, <2>2
<1>8. ASSUME NEW e \in Int PROVE s * HalfHour < e * Energy!DAY <=> d < e
  <2> DEFINE b == e * SlotsPerDay
  <2>1. e * Energy!DAY = b * HalfHour /\ b \in Int
    BY <1>1, DayIsLong
  <2>2. /\ d < e => a + SlotsPerDay <= b
        /\ e <= d => b <= a
    BY <1>1, Multiples
  <2> HIDE DEF a, b
  <2>3. s < b <=> d < e
    BY <1>1, <1>2, <2>1, <2>2
  <2>4. s * HalfHour < b * HalfHour <=> s < b
    <3>1. s < b => s * HalfHour + HalfHour <= b * HalfHour
      BY <1>1, <1>2, <2>1, Multiples
    <3>2. s * HalfHour < b * HalfHour => s < b
      BY <1>1, <1>2, <2>1, Multiples
    <3>3. s * HalfHour \in Int /\ b * HalfHour \in Int
      BY <1>1, <1>2, <2>1, Multiples
    <3>4. QED
      BY <1>1, <3>1, <3>2, <3>3
  <2>5. QED
    BY <2>1, <2>3, <2>4
<1>9. ASSUME NEW e \in Int PROVE e * Energy!DAY <= s * HalfHour <=> e <= d
  <2>1. e * Energy!DAY \in Int /\ s * HalfHour \in Int
    BY <1>1, <1>2, DayIsLong
  <2>2. s * HalfHour < e * Energy!DAY <=> d < e
    BY <1>8
  <2>3. QED
    BY <1>1, <2>1, <2>2
<1>10. QED
  BY <1>6, <1>7, <1>8, <1>9 DEF a, l

\* Every sum that is kept is that of its day, and a day without one has no readings.
SumsOK ==
    \A d \in Nat : IF d \in DOMAIN totals
                   THEN /\ totals[d].kwh = SumOver(stored, Of(stored, d))
                        /\ totals[d].slots = Cardinality(Of(stored, d))
                   ELSE Of(stored, d) = {}

KeptReadings(t) ==
    /\ t \in Nat /\ t <= MaxNow /\ StoredOK(stored, t)
    /\ \A s \in DOMAIN stored : s >= FloorSlot

LEMMA KeptAreEarly ==
    ASSUME NEW t, KeptReadings(t)
    PROVE  /\ Amounts(stored) /\ IsFiniteSet(DOMAIN stored)
           /\ \A s \in DOMAIN stored : s \in Nat /\ s < Cutoff(t) /\ stored[s] \in Charges
<1>1. Charges \subseteq Int
  BY EnergyConstants DEF Charges
<1>2. \A s \in DOMAIN stored : s \in Nat /\ stored[s] \in Charges
  BY DEF KeptReadings, StoredOK, Readings
<1>3. \A s \in DOMAIN stored : s < Cutoff(t)
  <2> TAKE s \in DOMAIN stored
  <2>1. s \in Nat /\ FloorSlot \in Nat /\ s >= FloorSlot /\ (s < FloorSlot \/ s < Cutoff(t))
    BY <1>2, EnergyConstants DEF KeptReadings, StoredOK
  <2>2. QED
    BY <2>1
<1>4. IsFiniteSet(DOMAIN stored)
  BY FiniteHere DEF KeptReadings, StoredOK, Readings
<1>5. QED
  BY <1>1, <1>2, <1>3, <1>4 DEF Amounts

LEMMA SumsAreGood ==
    ASSUME NEW t, KeptReadings(t), torn = {}, Energy!TotalsFollowReadings, \A d \in DOMAIN totals : KeptDay(d)
    PROVE  SumsOK
<1> SUFFICES ASSUME NEW d \in Nat
             PROVE  IF d \in DOMAIN totals
                    THEN /\ totals[d].kwh = SumOver(stored, Of(stored, d))
                         /\ totals[d].slots = Cardinality(Of(stored, d))
                    ELSE Of(stored, d) = {}
  BY DEF SumsOK
<1>1. CASE d \in Energy!Days /\ d * SlotsPerDay >= FloorSlot
  <2>1. TotalFollows(stored, totals, d)
    BY <1>1, FollowingTotals
  <2>2. ASSUME d \in DOMAIN totals
        PROVE  /\ totals[d].kwh = SumOver(stored, Of(stored, d))
               /\ totals[d].slots = Cardinality(Of(stored, d))
    <3> DEFINE r == Energy!Only(stored, Energy!SlotsOf(d))
    <3>1. IsFiniteSet(DOMAIN stored \cap Energy!SlotsOf(d))
      BY KeptAreEarly, FS_Subset
    <3>2. DOMAIN r = Of(stored, d) /\ Energy!SumOf(r) = SumOver(stored, Of(stored, d))
      BY <3>1, SumOfOnly DEF Of
    <3>3. totals[d] = Energy!DailyTotal(stored, d)
      BY <2>1, <2>2 DEF TotalFollows
    <3>4. totals[d].kwh = Energy!SumOf(r) /\ totals[d].slots = Energy!Cardinality(DOMAIN r)
      BY <3>3 DEF Energy!DailyTotal
    <3>5. QED
      BY <3>2, <3>4, CardinalityHere
  <2>3. d \notin DOMAIN totals => Of(stored, d) = {}
    BY <2>1 DEF TotalFollows, Of
  <2>4. QED
    BY <2>2, <2>3
<1>2. CASE ~(d \in Energy!Days /\ d * SlotsPerDay >= FloorSlot)
  <2>1. d \notin DOMAIN totals
    BY <1>2 DEF KeptDay
  <2>2. d * SlotsPerDay \in Int /\ FloorSlot \in Int
    BY EnergyConstants
  <2>3. ASSUME NEW s \in Of(stored, d) PROVE FALSE
    <3>1. s \in Nat /\ s >= FloorSlot /\ s < Cutoff(t) /\ s \in Energy!SlotsOf(d)
      BY <2>3, KeptAreEarly DEF KeptReadings, Of
    <3>2. s <= Energy!LastSlot /\ Energy!LastSlot \in Int
      <4>1. Energy!LastSlot \in Nat
        BY EnergyConstants DEF Energy!LastSlot, Energy!SlotAt
      <4>2. QED
        BY <3>1, <4>1, EarlySlot DEF KeptReadings
    <3>3. (d * SlotsPerDay < FloorSlot => s < FloorSlot) /\ (d \notin Energy!Days => s > Energy!LastSlot)
      BY <3>1, DayBounds
    <3>4. QED
      BY <1>2, <2>2, <3>1, <3>2, <3>3
  <2>4. QED
    BY <2>1, <2>3
<1>3. QED
  BY <1>1, <1>2

\* The first n slots of a day.
Spread(d, n) == {s \in Energy!SlotsOf(d) : s - d * SlotsPerDay < n}

LEMMA SpreadSize ==
    ASSUME NEW d \in Nat, NEW n \in Nat, n <= SlotsPerDay
    PROVE  /\ Spread(d, n) = d * SlotsPerDay .. (d * SlotsPerDay + n - 1)
           /\ IsFiniteSet(Spread(d, n)) /\ Cardinality(Spread(d, n)) = n
<1> DEFINE a == d * SlotsPerDay
           b == a + n - 1
<1>1. a \in Int /\ SlotsPerDay \in Nat /\ n \in Nat
  BY EnergyConstants
<1>2. Energy!SlotsOf(d) = a .. (a + SlotsPerDay - 1)
  BY SlotsOfDay
<1>3. Spread(d, n) = {s \in Energy!SlotsOf(d) : s - a < n}
  BY DEF Spread
<1> HIDE DEF a
<1>4. b \in Int /\ Spread(d, n) = a .. b /\ b - a + 1 = n
  BY <1>1, <1>2, <1>3
<1> HIDE DEF b
<1>5. IsFiniteSet(a .. b) /\ Cardinality(a .. b) = IF a > b THEN 0 ELSE b - a + 1
  BY <1>1, <1>4, FS_Interval
<1>6. Cardinality(a .. b) = n
  BY <1>1, <1>4, <1>5
<1>7. QED
  BY <1>4, <1>5, <1>6 DEF a, b

\* A multiple of the unit is spread over the slots without remainder.
LEMMA NoRemainder ==
    ASSUME NEW n \in 1 .. SlotsPerDay, NEW S, IsFiniteSet(S), NEW f, \A s \in S : f[s] \in Charges
    PROVE  n * (SumOver(f, S) \div n) = SumOver(f, S) /\ SumOver(f, S) \div n \in Int
<1> DEFINE T == {k * Charge : k \in Nat}
           q == Charge \div n
           total == SumOver(f, S)
<1>1. n \in Nat \ {0} /\ Charge \in Nat /\ Charge % n = 0
  <2>1. SlotsPerDay \in Nat /\ Charge \in Nat
    BY EnergyConstants
  <2>2. Charge % n = 0
    BY EnergyConstants, Zenon
  <2>3. QED
    BY <2>1, <2>2
<1>2. 0 \in T /\ (\A a, b \in T : a + b \in T) /\ \A s \in S : f[s] \in T
  <2>1. 0 = 0 * Charge /\ Charge = 1 * Charge /\ 0 \in Nat /\ 1 \in Nat /\ 2 \in Nat
    BY <1>1
  <2>2. ASSUME NEW a \in T, NEW b \in T PROVE a + b \in T
    <3>1. PICK k \in Nat, m \in Nat : a = k * Charge /\ b = m * Charge
      OBVIOUS
    <3>2. a + b = (k + m) * Charge /\ k + m \in Nat
      BY <1>1, <3>1
    <3>3. QED
      BY <3>2
  <2>3. QED
    BY <2>1, <2>2 DEF Charges
<1> HIDE DEF T
<1>3. total \in T
  BY <1>2, SumClosed
<1> HIDE DEF total
<1>4. PICK k \in Nat : total = k * Charge
  BY <1>3 DEF T
<1>5. q \in Int /\ Charge = q * n
  BY <1>1
<1> HIDE DEF q
<1> DEFINE p == k * q
<1>6. p \in Int /\ total = p * n
  BY <1>1, <1>4, <1>5
<1> HIDE DEF p
<1>7. total \div n = p
  BY <1>1, <1>6
<1>8. QED
  BY <1>1, <1>6, <1>7 DEF total

\* The days whose sum is read, and what is put together from them.
Summed(from, to) ==
    {d \in DOMAIN totals : from <= d * Energy!DAY /\ d * Energy!DAY < to /\ totals[d].slots > 0}

LEMMA DailyRange ==
    ASSUME NEW from, NEW to, NEW t, KeptReadings(t), SumsOK, \A d \in DOMAIN totals : KeptDay(d),
           Summed(from, to) # {},
           NEW g, g = Energy!readDailyRange(from, to), NEW d \in Nat
    PROVE  /\ \A s \in DOMAIN g : s \in Nat /\ g[s] \in Int /\ s < Cutoff(t)
           /\ d \notin Summed(from, to) => Of(g, d) = {}
           /\ d \in Summed(from, to) => SameDay(g, stored, d)
<1> DEFINE D == Summed(from, to)
           N(e) == totals[e].slots
           C(e) == totals[e].kwh \div totals[e].slots
<1>1. g = [s \in UNION {Spread(e, N(e)) : e \in D} |-> totals[Energy!DayOf(s)].kwh \div totals[Energy!DayOf(s)].slots]
  BY DEF Energy!readDailyRange, Summed, Spread
<1>2. \A e \in D : e \in Nat /\ KeptDay(e) /\ e \in DOMAIN totals
  BY DEF Summed, KeptDay, Energy!Days
<1>3. ASSUME NEW e \in D
      PROVE  /\ N(e) \in 1 .. SlotsPerDay /\ N(e) = Cardinality(Of(stored, e))
             /\ C(e) \in Int /\ N(e) * C(e) = SumOver(stored, Of(stored, e))
             /\ \A s \in Spread(e, N(e)) : s \in Nat /\ s < Cutoff(t) /\ Energy!DayOf(s) = e
  <2> DEFINE R == Of(stored, e)
             n == N(e)
             a == e * SlotsPerDay
             c == Cutoff(t)
  <2>1. e \in Nat /\ n = Cardinality(R) /\ totals[e].kwh = SumOver(stored, R) /\ n > 0
    BY <1>2 DEF SumsOK, Summed
  <2>2. /\ R \subseteq Energy!SlotsOf(e) /\ IsFiniteSet(R) /\ R \subseteq DOMAIN stored
    BY KeptAreEarly, FS_Subset DEF Of
  <2>3. /\ a \in Nat /\ SlotsPerDay \in Nat /\ Energy!SlotsOf(e) = a .. (a + SlotsPerDay - 1)
        /\ Cardinality(Energy!SlotsOf(e)) = SlotsPerDay /\ IsFiniteSet(Energy!SlotsOf(e))
        /\ c \in Int
    <3>1. a \in Nat /\ SlotsPerDay \in Nat /\ t \in Nat /\ t <= t
      BY <2>1, EnergyConstants DEF KeptReadings
    <3>2. c \in Int
      BY <3>1, CutoffGrows
    <3>3. e \in Int
      BY <2>1
    <3>4. QED
      BY <3>1, <3>2, <3>3, SlotsOfDay
  <2>4. n \in 1 .. SlotsPerDay
    <3>1. Cardinality(R) \in Nat /\ Cardinality(R) <= SlotsPerDay
      BY <2>2, <2>3, FS_Subset, FS_CardinalityType
    <3>2. QED
      BY <2>1, <2>3, <3>1
  <2>5. \A s \in R : stored[s] \in Charges /\ s < c /\ s \in Int /\ a <= s
    BY <2>2, <2>3, KeptAreEarly
  <2> HIDE DEF R, a
  <2>6. n * (SumOver(stored, R) \div n) = SumOver(stored, R) /\ SumOver(stored, R) \div n \in Int
    <3> HIDE DEF n
    <3>1. QED
      BY <2>2, <2>4, <2>5, NoRemainder
  <2>7. n <= c - a
    <3> DEFINE b == c - 1
    <3>1. R \subseteq a .. b /\ b \in Int
      BY <2>3, <2>5
    <3> HIDE DEF b
    <3>2. IsFiniteSet(a .. b) /\ Cardinality(a .. b) = IF a > b THEN 0 ELSE b - a + 1
      BY <2>3, <3>1, FS_Interval
    <3>3. Cardinality(R) <= Cardinality(a .. b)
      BY <3>1, <3>2, FS_Subset
    <3>4. QED
      BY <2>1, <2>3, <2>4, <3>1, <3>2, <3>3 DEF b
  <2>8. Spread(e, n) = a .. (a + n - 1)
    <3> HIDE DEF n
    <3>1. QED
      BY <2>1, <2>3, <2>4, SpreadSize DEF a
  <2>9. \A s \in Spread(e, n) : s \in Nat /\ s < c /\ Energy!DayOf(s) = e
    <3> TAKE s \in Spread(e, n)
    <3> HIDE DEF n, c
    <3>1. s \in Energy!SlotsOf(e)
      BY DEF Spread
    <3>2. Energy!DayOf(s) = e
      BY <2>1, <3>1, DayOfSlot
    <3>3. s \in Nat /\ s < c
      BY <2>3, <2>4, <2>7, <2>8
    <3>4. QED
      BY <3>2, <3>3
  <2>10. QED
    BY <2>1, <2>4, <2>6, <2>9 DEF R
<1> HIDE DEF D
<1>4. DOMAIN g = UNION {Spread(e, N(e)) : e \in D}
  BY <1>1
<1>5. ASSUME NEW e \in D, NEW s \in Spread(e, N(e)) PROVE g[s] = C(e)
  <2>1. s \in UNION {Spread(x, N(x)) : x \in D} /\ Energy!DayOf(s) = e
    BY <1>3, <1>5
  <2>2. QED
    BY <1>1, <2>1
<1> HIDE DEF N, C
<1>6. \A s \in DOMAIN g : s \in Nat /\ g[s] \in Int /\ s < Cutoff(t)
  BY <1>3, <1>4, <1>5
<1>7. ASSUME NEW s \in Of(g, d) PROVE d \in D /\ s \in Spread(d, N(d))
  <2>1. PICK e \in D : s \in Spread(e, N(e))
    BY <1>4, <1>7 DEF Of
  <2>2. s \in Energy!SlotsOf(d)
    BY <1>7 DEF Of
  <2>3. Energy!DayOf(s) = e /\ Energy!DayOf(s) = d
    BY <1>3, <2>1, <2>2, DayOfSlot
  <2>4. QED
    BY <2>1, <2>3
<1>8. ASSUME d \in D PROVE SameDay(g, stored, d)
  <2> DEFINE S == Spread(d, N(d))
             n == N(d)
             c == C(d)
  <2>1. Of(g, d) = S
    <3>1. S \subseteq DOMAIN g /\ S \subseteq Energy!SlotsOf(d)
      BY <1>4, <1>8 DEF Spread
    <3>2. QED
      BY <1>7, <3>1 DEF Of
  <2>2. /\ n \in 1 .. SlotsPerDay /\ n = Cardinality(Of(stored, d)) /\ c \in Int
        /\ n * c = SumOver(stored, Of(stored, d))
    BY <1>3, <1>8
  <2>3. \A s \in S : g[s] = c
    BY <1>5, <1>8
  <2> HIDE DEF c, n
  <2>4. n \in Nat /\ n <= SlotsPerDay
    BY <2>2, EnergyConstants
  <2>5. IsFiniteSet(S) /\ Cardinality(S) = n
    BY <2>4, SpreadSize DEF n
  <2> HIDE DEF S
  <2>6. SumOver(g, S) = Cardinality(S) * c
    BY <2>2, <2>3, <2>5, SumOfEqual
  <2>7. QED
    BY <2>1, <2>2, <2>5, <2>6 DEF SameDay
<1>9. QED
  BY <1>6, <1>7, <1>8 DEF D

LEMMA SameSlots ==
    ASSUME NEW d, d \in Int, NEW f, NEW g, Of(f, d) = Of(g, d), \A s \in Of(f, d) : f[s] = g[s]
    PROVE  SameDay(f, g, d)
<1>1. IsFiniteSet(Of(f, d))
  BY SlotsOfDay, FS_Subset DEF Of
<1>2. SumOver(f, Of(f, d)) = SumOver(g, Of(f, d))
  BY <1>1, SumSame
<1>3. QED
  BY <1>2 DEF SameDay

\* What is read of the readings themselves.
LEMMA RawRange ==
    ASSUME NEW t, KeptReadings(t), NEW a \in Int, NEW b \in Int, b <= t, NEW r, r = Energy!readRawRange(a, b)
    PROVE  /\ DOMAIN r = {s \in DOMAIN stored : a <= s * HalfHour /\ s * HalfHour < b}
           /\ \A s \in DOMAIN r : r[s] = stored[s]
           /\ \A s \in DOMAIN stored : s \in Nat /\ s * HalfHour \in Int /\ s * HalfHour < t
<1>1. ASSUME NEW s \in DOMAIN stored
      PROVE  s \in Nat /\ s * HalfHour \in Int /\ s * HalfHour < t /\ s \in 0 .. Energy!LastSlot
  <2>1. s \in Nat /\ s < Cutoff(t) /\ t \in Nat /\ t <= MaxNow
    BY KeptAreEarly DEF KeptReadings
  <2>2. s * HalfHour \in Int /\ s * HalfHour < t /\ s <= Energy!LastSlot
    BY <2>1, EarlySlot
  <2>3. Energy!LastSlot \in Int
    BY EnergyConstants DEF Energy!LastSlot, Energy!SlotAt
  <2>4. QED
    BY <2>1, <2>2, <2>3
<1>2. DOMAIN r = DOMAIN stored \cap Energy!SlotsFrom(a, b) /\ \A s \in DOMAIN r : r[s] = stored[s]
  BY DEF Energy!readRawRange, Energy!Only, Energy!Restrict
<1>3. QED
  BY <1>1, <1>2 DEF Energy!SlotsFrom

\* The segment that is read from the sums: it ends with the range or with a whole day.
Segment(F, e, t) ==
    /\ F \in Nat /\ e \in Int /\ F * Energy!DAY <= e /\ e <= t
    /\ e = t \/ \E n \in Int : e = n * Energy!DAY

\* A stored reading of a day that begins in the segment is in the segment.
LEMMA DaysOfSegment ==
    ASSUME NEW t, KeptReadings(t), NEW F, NEW e, Segment(F, e, t), NEW d \in Nat
    PROVE  /\ d * Energy!DAY \in Int
           /\ d * Energy!DAY < e => \A s \in Of(stored, d) : s * HalfHour < e
           /\ d * Energy!DAY >= e => \A s \in Energy!SlotsOf(d) : s * HalfHour >= e
           /\ d >= F => \A s \in Energy!SlotsOf(d) : F * Energy!DAY <= s * HalfHour
<1>1. /\ d \in Int /\ d * Energy!DAY \in Int /\ Energy!DAY \in Nat \ {0} /\ F \in Int
      /\ t \in Nat /\ e \in Int /\ HalfHour \in Nat \ {0}
  BY DayIsLong, EnergyConstants DEF KeptReadings, Segment
<1>2. ASSUME NEW s \in Energy!SlotsOf(d) PROVE s \in Int /\ s * HalfHour \in Int /\ d * Energy!DAY <= s * HalfHour
  <2>1. s \in Int
    <3>1. Energy!SlotsOf(d) = d * SlotsPerDay .. (d * SlotsPerDay + SlotsPerDay - 1)
      BY <1>1, SlotsOfDay
    <3>2. QED
      BY <3>1
  <2>2. d <= d
    BY <1>1
  <2>3. QED
    BY <1>1, <2>1, <2>2, DayBounds
<1>3. ASSUME d * Energy!DAY < e, NEW s \in Of(stored, d) PROVE s * HalfHour < e
  <2>1. s \in Energy!SlotsOf(d) /\ s * HalfHour < t
    <3>1. s \in DOMAIN stored /\ s \in Energy!SlotsOf(d)
      BY DEF Of
    <3>2. s \in Nat /\ s < Cutoff(t)
      BY <3>1, KeptAreEarly
    <3>3. QED
      BY <1>1, <3>1, <3>2, EarlySlot
  <2>2. CASE e = t
    BY <2>1, <2>2
  <2>3. ASSUME NEW n \in Int, e = n * Energy!DAY PROVE s * HalfHour < e
    <3>1. d < n
      BY <1>1, <1>3, <2>3, Multiples
    <3>2. QED
      BY <2>1, <2>3, <3>1, DayBounds
  <2>4. QED
    BY <2>2, <2>3 DEF Segment
<1>4. ASSUME d * Energy!DAY >= e, NEW s \in Energy!SlotsOf(d) PROVE s * HalfHour >= e
  BY <1>1, <1>2, <1>4
<1>5. ASSUME d >= F, NEW s \in Energy!SlotsOf(d) PROVE F * Energy!DAY <= s * HalfHour
  <2>1. F <= d
    BY <1>1, <1>5
  <2>2. QED
    BY <1>1, <2>1, DayBounds
<1>6. QED
  BY <1>1, <1>3, <1>4, <1>5

\* What is read from the sums has, day by day, the number and the sum of the readings.
LEMMA DailySegment ==
    ASSUME NEW t, KeptReadings(t), SumsOK, \A d \in DOMAIN totals : KeptDay(d),
           NEW F, NEW e, Segment(F, e, t), NEW g, g = Energy!readDailyRange(F * Energy!DAY, e)
    PROVE  /\ \A s \in DOMAIN g : s \in Nat /\ g[s] \in Int /\ s < Cutoff(t)
           /\ \A d \in Nat : d >= F => /\ d * Energy!DAY < e => SameDay(g, stored, d)
                                       /\ d * Energy!DAY >= e => Of(g, d) = {}
<1> DEFINE from == F * Energy!DAY
           D == Summed(from, e)
<1>1. from \in Int /\ e \in Int /\ from <= e /\ e <= t /\ F \in Int /\ F \in Nat
  BY DayIsLong DEF Segment
<1>2. ASSUME NEW d \in Nat, d >= F, d * Energy!DAY < e, d \notin D PROVE Of(stored, d) = {}
  <2>1. from <= d * Energy!DAY /\ d \in Int
    BY <1>1, <1>2, Multiples, DayIsLong
  <2>2. d \notin DOMAIN totals \/ ~(totals[d].slots > 0)
    BY <1>2, <2>1 DEF Summed
  <2>3. CASE d \notin DOMAIN totals
    BY <2>3 DEF SumsOK
  <2>4. CASE d \in DOMAIN totals /\ ~(totals[d].slots > 0)
    <3>1. totals[d].slots = Cardinality(Of(stored, d))
      BY <2>4 DEF SumsOK
    <3>2. IsFiniteSet(Of(stored, d))
      BY KeptAreEarly, FS_Subset DEF Of
    <3>3. Cardinality(Of(stored, d)) \in Nat
      BY <3>2, FS_CardinalityType
    <3>4. Cardinality(Of(stored, d)) = 0
      BY <2>4, <3>1, <3>3
    <3>5. QED
      BY <3>2, <3>4, FS_EmptySet
  <2>5. QED
    BY <2>2, <2>3, <2>4
<1>3. CASE D # {}
  <2>1. ASSUME NEW d \in Nat
        PROVE  /\ \A s \in DOMAIN g : s \in Nat /\ g[s] \in Int /\ s < Cutoff(t)
               /\ d \notin D => Of(g, d) = {}
               /\ d \in D => SameDay(g, stored, d)
    BY <1>3, DailyRange
  <2>2. 0 \in Nat
    OBVIOUS
  <2>3. ASSUME NEW d \in Nat, d >= F
        PROVE  /\ d * Energy!DAY < e => SameDay(g, stored, d)
               /\ d * Energy!DAY >= e => Of(g, d) = {}
    <3>1. ASSUME d * Energy!DAY < e PROVE SameDay(g, stored, d)
      <4>1. CASE d \in D
        BY <2>1, <4>1
      <4>2. CASE d \notin D
        <5>1. Of(g, d) = {} /\ Of(stored, d) = {}
          BY <1>2, <2>1, <2>3, <3>1, <4>2
        <5>2. QED
          BY <5>1, SumOfNone DEF SameDay
      <4>3. QED
        BY <4>1, <4>2
    <3>2. ASSUME d * Energy!DAY >= e PROVE Of(g, d) = {}
      <4>1. d \in D => d * Energy!DAY < e
        BY DEF Summed
      <4>2. d * Energy!DAY \in Int
        BY DayIsLong
      <4>3. QED
        BY <1>1, <2>1, <3>2, <4>1, <4>2
    <3>3. QED
      BY <3>1, <3>2
  <2>4. QED
    BY <2>1, <2>2, <2>3
<1>4. CASE D = {}
  <2>1. g = Energy!readRawRange(from, e)
    BY <1>4 DEF Energy!readDailyRange, Summed
  <2>2. /\ DOMAIN g = {s \in DOMAIN stored : from <= s * HalfHour /\ s * HalfHour < e}
        /\ \A s \in DOMAIN g : g[s] = stored[s]
        /\ \A s \in DOMAIN stored : s * HalfHour \in Int
    <3> HIDE DEF from
    <3>1. QED
      BY <1>1, <2>1, RawRange
  <2>3. \A s \in DOMAIN g : s \in Nat /\ g[s] \in Int /\ s < Cutoff(t)
    <3>1. Charges \subseteq Int
      BY EnergyConstants DEF Charges
    <3>2. QED
      BY <2>2, <3>1, KeptAreEarly
  <2>4. ASSUME NEW d \in Nat, d >= F
        PROVE  /\ d * Energy!DAY < e => SameDay(g, stored, d)
               /\ d * Energy!DAY >= e => Of(g, d) = {}
    <3>1. ASSUME d * Energy!DAY < e PROVE SameDay(g, stored, d)
      <4>1. Of(stored, d) = {}
        BY <1>2, <1>4, <2>4, <3>1
      <4>2. Of(g, d) = {}
        BY <2>2, <4>1 DEF Of
      <4>3. QED
        BY <4>1, <4>2, SumOfNone DEF SameDay
    <3>2. ASSUME d * Energy!DAY >= e, NEW s \in Of(g, d) PROVE FALSE
      <4>1. s \in DOMAIN stored /\ s \in Energy!SlotsOf(d) /\ s * HalfHour < e
        BY <2>2 DEF Of
      <4>2. s * HalfHour >= e
        BY <3>2, <4>1, DaysOfSegment
      <4>3. s * HalfHour \in Int
        BY <2>2, <4>1
      <4>4. QED
        BY <1>1, <4>1, <4>2, <4>3
    <3>3. QED
      BY <3>1, <3>2
  <2>5. QED
    BY <2>3, <2>4
<1>5. QED
  BY <1>3, <1>4

\* The sums are read from the first day on, to the end of a day or of the range.
LEMMA SegmentOfSums ==
    ASSUME NEW t \in Nat, now \in Nat, NEW F \in Nat, F * Energy!DAY <= t
    PROVE  /\ Energy!DailyStart(F * Energy!DAY, t) = F * Energy!DAY
           /\ Segment(F, Energy!DailyEnd(F * Energy!DAY, t), t)
<1> DEFINE D == Energy!DAY
           from == F * D
           u == from + D - 1
           q == u \div D
<1>1. D \in Nat \ {0} /\ from \in Int /\ F \in Int /\ from <= t /\ t \in Int
  BY DayIsLong
<1>2. q = F
  <2> DEFINE v == u
  <2>1. v \in Int /\ v < from + D /\ from <= v /\ q = v \div D
    BY <1>1
  <2> HIDE DEF v, D, q
  <2>2. v \div D \in Int /\ (v \div D) * D <= v /\ v < (v \div D) * D + D
    BY <1>1, <2>1, Quotient
  <2>3. q \in Int /\ q * D \in Int /\ q * D <= v /\ v < q * D + D
    <3>1. q \in Int /\ q * D <= v /\ v < q * D + D
      BY <2>1, <2>2
    <3>2. QED
      BY <1>1, <3>1, Multiples
  <2>4. /\ F < q => F * D + D <= q * D
        /\ q < F => q * D + D <= F * D
    BY <1>1, <2>3, Multiples
  <2>5. ~(F < q) /\ ~(q < F)
    <3> DEFINE a == F * D
               b == q * D
    <3>1. a \in Int /\ b \in Int /\ b <= v /\ v < b + D /\ v < a + D /\ a <= v
      BY <1>1, <2>1, <2>3
    <3>2. (F < q => a + D <= b) /\ (q < F => b + D <= a)
      BY <2>4
    <3> HIDE DEF a, b
    <3>3. QED
      BY <1>1, <2>1, <3>1, <3>2
  <2>6. QED
    BY <1>1, <2>3, <2>5
<1>3. Energy!jstDayStart(u) = q * D
  BY DEF Energy!jstDayStart
<1>4. Energy!jstDayStart(u) = from
  BY <1>2, <1>3
<1> HIDE DEF from
<1>5. Energy!DailyStart(from, t) = from
  <2>1. Energy!DailyStart(from, t) = Energy!Min({t, from})
    BY <1>4 DEF Energy!DailyStart
  <2>2. QED
    BY <1>1, <2>1, ExtremesOfTwo
<1> DEFINE w == now - 2 * D
           e == w \div D
           m == Energy!Min({t, Energy!StableDailyEnd})
           n == Energy!DailyEnd(from, t)
<1>6. Energy!StableDailyEnd = e * D
  BY DEF Energy!StableDailyEnd, Energy!jstDayStart
<1>7. e \in Int /\ e * D \in Int
  <2>1. w \in Int
    BY <1>1
  <2> HIDE DEF w, D
  <2>2. e \in Int
    BY <1>1, <2>1, Quotient
  <2> HIDE DEF e
  <2>3. QED
    BY <1>1, <2>2, Multiples
<1>8. m = IF t <= e * D THEN t ELSE e * D
  <2> DEFINE x == e * D
  <2>1. x \in Int /\ m = Energy!Min({t, x})
    BY <1>6, <1>7
  <2> HIDE DEF x, m
  <2>2. m = IF t <= x THEN t ELSE x
    BY <1>1, <2>1, ExtremesOfTwo
  <2>3. QED
    BY <2>2 DEF x
<1>9. n = IF from <= m THEN m ELSE from
  <2>1. n = Energy!Max({from, m})
    BY <1>5 DEF Energy!DailyEnd
  <2>2. m \in Int
    BY <1>1, <1>7, <1>8
  <2> HIDE DEF m, n
  <2>3. QED
    BY <1>1, <2>1, <2>2, ExtremesOfTwo
<1>10. Segment(F, n, t)
  <2> HIDE DEF n, m, e
  <2>1. CASE n = t
    BY <1>1, <2>1 DEF Segment, from
  <2>2. CASE n = e * D /\ from <= n /\ n <= t
    BY <1>1, <1>7, <2>2 DEF Segment, from
  <2>3. CASE n = from
    BY <1>1, <2>3 DEF Segment, from
  <2>4. QED
    BY <1>1, <1>7, <1>8, <1>9, <2>1, <2>2, <2>3
<1>11. QED
  BY <1>5, <1>10 DEF from

\* The three parts together.
LEMMA OldReadings ==
    ASSUME NEW t, KeptReadings(t), now \in Nat, SumsOK, \A d \in DOMAIN totals : KeptDay(d),
           NEW F \in Nat, F * Energy!DAY <= t,
           NEW old, old = Energy!readStoredOctopusRanges(F * Energy!DAY, t)
    PROVE  /\ Amounts(old) /\ IsFiniteSet(DOMAIN old)
           /\ \A s \in DOMAIN old : s \in Nat /\ s < Cutoff(t)
           /\ \A d \in Nat : d >= F => SameDay(old, stored, d)
<1> DEFINE from == F * Energy!DAY
           e == Energy!DailyEnd(from, t)
           a == Energy!readRawRange(from, from)
           g == Energy!readDailyRange(from, e)
           b == Energy!readRawRange(e, t)
<1>1. t \in Nat /\ Segment(F, e, t) /\ Energy!DailyStart(from, t) = from
  BY SegmentOfSums DEF KeptReadings
<1>2. old = Energy!Over(Energy!Over(a, g), b)
  BY <1>1 DEF Energy!readStoredOctopusRanges
<1>3. from \in Int /\ e \in Int /\ from <= e /\ e <= t /\ from <= t /\ t <= t /\ t \in Int
  BY <1>1, DayIsLong DEF Segment
<1> HIDE DEF e
<1>4. /\ \A s \in DOMAIN g : s \in Nat /\ g[s] \in Int /\ s < Cutoff(t)
      /\ \A d \in Nat : d >= F => /\ d * Energy!DAY < e => SameDay(g, stored, d)
                                  /\ d * Energy!DAY >= e => Of(g, d) = {}
  BY <1>1, DailySegment
<1> HIDE DEF from
<1>5. /\ DOMAIN b = {s \in DOMAIN stored : e <= s * HalfHour /\ s * HalfHour < t}
      /\ \A s \in DOMAIN b : b[s] = stored[s]
      /\ \A s \in DOMAIN stored : s \in Nat /\ s * HalfHour \in Int /\ s * HalfHour < t
  BY <1>3, RawRange
<1>6. DOMAIN a = {}
  <2> DEFINE u == from
  <2>1. DOMAIN a = {s \in DOMAIN stored : from <= s * HalfHour /\ s * HalfHour < u}
    <3>1. u \in Int /\ u <= t /\ a = Energy!readRawRange(from, u)
      BY <1>3
    <3> HIDE DEF a, u
    <3>2. QED
      BY <1>3, <3>1, RawRange
  <2>2. ASSUME NEW s \in DOMAIN a PROVE FALSE
    <3>1. s * HalfHour \in Int /\ from <= s * HalfHour /\ s * HalfHour < from
      BY <1>5, <2>1
    <3>2. QED
      BY <1>3, <3>1
  <2>3. QED
    BY <2>2
<1> HIDE DEF a, g, b
<1>7. DOMAIN old = DOMAIN g \cup DOMAIN b /\ \A s \in DOMAIN old : old[s] = IF s \in DOMAIN b THEN b[s] ELSE g[s]
  BY <1>2, <1>6 DEF Energy!Over
<1>8. \A s \in DOMAIN b : b[s] \in Int /\ s \in Nat /\ s < Cutoff(t)
  <2>1. Charges \subseteq Int
    BY EnergyConstants DEF Charges
  <2>2. QED
    BY <1>5, <2>1, KeptAreEarly
<1>9. Amounts(old) /\ \A s \in DOMAIN old : s \in Nat /\ s < Cutoff(t)
  BY <1>4, <1>7, <1>8 DEF Amounts
<1>10. IsFiniteSet(DOMAIN old)
  <2> DEFINE c == Cutoff(t) - 1
             zero == 0
  <2>1. c \in Int /\ zero \in Int /\ \A s \in DOMAIN old : s \in zero .. c
    <3>1. Cutoff(t) \in Int
      BY <1>1, <1>3, CutoffGrows
    <3>2. QED
      BY <1>9, <3>1
  <2> HIDE DEF c, zero
  <2>2. IsFiniteSet(zero .. c) /\ DOMAIN old \subseteq zero .. c
    BY <2>1, FS_Interval
  <2>3. QED
    BY <2>2, FS_Subset
<1>11. ASSUME NEW d \in Nat, d >= F PROVE SameDay(old, stored, d)
  <2>1. /\ d * Energy!DAY \in Int
        /\ d * Energy!DAY < e => \A s \in Of(stored, d) : s * HalfHour < e
        /\ d * Energy!DAY >= e => \A s \in Energy!SlotsOf(d) : s * HalfHour >= e
    BY <1>1, DaysOfSegment
  <2>2. CASE d * Energy!DAY < e
    <3>1. Of(b, d) = {}
      <4> SUFFICES ASSUME NEW s \in Of(b, d) PROVE FALSE
        OBVIOUS
      <4>1. s \in Of(stored, d) /\ e <= s * HalfHour /\ s * HalfHour \in Int
        BY <1>5 DEF Of
      <4>2. QED
        BY <1>3, <2>1, <2>2, <4>1
    <3>2. Of(old, d) = Of(g, d) /\ \A s \in Of(old, d) : old[s] = g[s]
      BY <1>7, <3>1 DEF Of
    <3>3. SameDay(old, g, d)
      BY <3>2, SameSlots
    <3>4. SameDay(g, stored, d)
      BY <1>4, <1>11, <2>2
    <3>5. QED
      BY <3>3, <3>4 DEF SameDay
  <2>3. CASE d * Energy!DAY >= e
    <3>1. Of(g, d) = {}
      BY <1>4, <1>11, <2>3
    <3>2. Of(b, d) = Of(stored, d)
      <4>1. \A s \in Of(stored, d) : s \in DOMAIN b
        <5> TAKE s \in Of(stored, d)
        <5>1. s \in DOMAIN stored /\ s \in Energy!SlotsOf(d)
          BY DEF Of
        <5>2. s * HalfHour >= e /\ s * HalfHour \in Int /\ s * HalfHour < t
          BY <1>5, <2>1, <2>3, <5>1
        <5>3. QED
          BY <1>3, <1>5, <5>1, <5>2
      <4>2. QED
        BY <1>5, <4>1 DEF Of
    <3>3. Of(old, d) = Of(stored, d) /\ \A s \in Of(old, d) : old[s] = stored[s]
      BY <1>5, <1>7, <3>1, <3>2 DEF Of
    <3>4. d \in Int
      OBVIOUS
    <3>5. QED
      BY <3>3, <3>4, SameSlots
  <2>4. QED
    BY <1>3, <2>1, <2>2, <2>3
<1>12. QED
  BY <1>9, <1>10, <1>11

\* The profile of a set of readings at time t, day by day from the first to the last.
FirstDay(t) == (t \div Energy!DAY) - 1 - 2 * PROFILE_DAYS
ProfileAt(f, t) ==
    LET end == Energy!jstDayStart(t) - Energy!DAY
        first == end - PROFILE_DAYS * Energy!DAY - PROFILE_DAYS * Energy!DAY
    IN  [d \in first \div Energy!DAY .. end \div Energy!DAY - 1 |-> Energy!dayTotal(f, d)]

\* The times an answer is about.
LEMMA AnswerTimes ==
    ASSUME NEW t \in Nat, StartNow <= t
    PROVE  /\ FirstDay(t) \in Nat /\ FirstDay(t) * Energy!DAY <= t
           /\ LET end == Energy!jstDayStart(t) - Energy!DAY
                  first == end - PROFILE_DAYS * Energy!DAY - PROFILE_DAYS * Energy!DAY
              IN  /\ end \in Int /\ end <= t
                  /\ first = FirstDay(t) * Energy!DAY /\ first \div Energy!DAY = FirstDay(t)
<1> DEFINE D == Energy!DAY
           q == t \div D
           P == PROFILE_DAYS
           F == q - 1 - 2 * P
<1>1. D \in Nat \ {0} /\ P \in Nat \ {0} /\ StartNow \in Nat /\ StartNow >= (2 + 2 * P) * D /\ t \in Int
  BY DayIsLong, EnergyConstants
<1>2. Energy!jstDayStart(t) = q * D /\ FirstDay(t) = F
  BY DEF Energy!jstDayStart, FirstDay
<1> HIDE DEF D, P
<1>3. q \in Int /\ q * D <= t /\ t < q * D + D
  BY <1>1, Quotient
<1> HIDE DEF q
<1>4. q >= 2 + 2 * P
  <2> DEFINE k == 2 + 2 * P
  <2>1. k \in Int /\ k * D <= t /\ k * D \in Int
    <3>1. k \in Int
      BY <1>1
    <3>2. k * D \in Int
      BY <1>1, <3>1, Multiples
    <3>3. StartNow >= k * D
      BY <1>1
    <3> HIDE DEF k
    <3>4. QED
      BY <1>1, <3>1, <3>2, <3>3
  <2> HIDE DEF k
  <2>2. q < k => q * D + D <= k * D
    BY <1>1, <1>3, <2>1, Multiples
  <2>3. q * D \in Int
    BY <1>1, <1>3
  <2>4. ~(q < k)
    BY <1>1, <1>3, <2>1, <2>2, <2>3
  <2>5. QED
    BY <1>3, <2>1, <2>4 DEF k
<1>5. F \in Nat /\ F \in Int /\ F <= q
  BY <1>1, <1>3, <1>4
<1>6. q * D \in Int /\ P * D \in Int /\ q * D - D - P * D - P * D = F * D
  BY <1>1, <1>3
<1>7. F * D <= q * D /\ F * D \in Int
  <2> HIDE DEF F
  <2>1. QED
    BY <1>1, <1>3, <1>5, Multiples
<1>8. (F * D) \div D = F
  <2> HIDE DEF F
  <2>1. QED
    BY <1>1, <1>5
<1>9. q * D - D \in Int /\ q * D - D <= t /\ F * D <= t
  <2> DEFINE a == q * D
             b == F * D
  <2>1. a \in Int /\ b \in Int /\ a <= t /\ b <= a
    BY <1>3, <1>6, <1>7
  <2> HIDE DEF a, b
  <2>2. a - D \in Int /\ a - D <= t /\ b <= t
    BY <1>1, <2>1
  <2>3. QED
    BY <2>2 DEF a, b
<1>10. QED
  BY <1>2, <1>5, <1>6, <1>8, <1>9 DEF D, P

\* All that was fetched, and all that is kept and live.
LEMMA SeenIsKeptOrLive ==
    ASSUME NEW t, KeptReadings(t), NEW seen, NEW live,
           Readings(seen), Readings(live),
           DOMAIN live = {s \in DOMAIN seen : s >= Cutoff(t)},
           \A s \in DOMAIN live : live[s] = seen[s],
           \A s \in DOMAIN seen : s < Cutoff(t) => s \in DOMAIN stored /\ stored[s] = seen[s]
    PROVE  /\ Energy!Over(stored, seen) = Energy!Over(stored, live)
           /\ Amounts(live) /\ IsFiniteSet(DOMAIN live)
           /\ \A f, d : (\A s \in DOMAIN f : s \in Nat /\ s < Cutoff(t)) => Of(f, d) \cap Of(live, d) = {}
<1>1. Cutoff(t) \in Int
  <2>1. t \in Nat /\ t <= t
    BY DEF KeptReadings
  <2>2. QED
    BY <2>1, CutoffGrows
<1>2. /\ \A s \in DOMAIN seen : s \in Nat
      /\ \A s \in DOMAIN live : s \in Nat /\ live[s] \in Charges
      /\ IsFiniteSet(DOMAIN live)
  BY FiniteHere DEF Readings
<1>3. \A s \in DOMAIN stored : s \in Nat /\ s < Cutoff(t)
  BY KeptAreEarly
<1>4. \A s \in DOMAIN seen : s < Cutoff(t) \/ s >= Cutoff(t)
  BY <1>1, <1>2
<1>5. \A s \in DOMAIN live : ~(s < Cutoff(t))
  BY <1>1, <1>2
<1>6. Energy!Over(stored, seen) = Energy!Over(stored, live)
  <2>1. DOMAIN stored \cup DOMAIN seen = DOMAIN stored \cup DOMAIN live
    BY <1>4
  <2>2. \A s \in DOMAIN stored \cup DOMAIN live :
           (IF s \in DOMAIN seen THEN seen[s] ELSE stored[s]) = (IF s \in DOMAIN live THEN live[s] ELSE stored[s])
    BY <1>4
  <2>3. QED
    BY <2>1, <2>2 DEF Energy!Over
<1>7. Amounts(live)
  <2>1. Charges \subseteq Int
    BY EnergyConstants DEF Charges
  <2>2. QED
    BY <1>2, <2>1 DEF Amounts
<1>8. QED
  BY <1>2, <1>5, <1>6, <1>7 DEF Of

\* Readings f and g agree from day F on, and those of l are others.
Agree(f, g, l, F, t) ==
    /\ t \in Nat /\ t <= MaxNow /\ StartNow <= t
    /\ F \in Nat /\ F <= MonthStart /\ F <= FirstDay(t)
    /\ Amounts(f) /\ Amounts(g) /\ Amounts(l)
    /\ IsFiniteSet(DOMAIN f) /\ IsFiniteSet(DOMAIN g) /\ IsFiniteSet(DOMAIN l)
    /\ \A s \in DOMAIN f \cup DOMAIN g \cup DOMAIN l : s \in Nat /\ s * HalfHour < t
    /\ \A d \in Nat : Of(f, d) \cap Of(l, d) = {} /\ Of(g, d) \cap Of(l, d) = {}
    /\ \A d \in Nat : d >= F => SameDay(f, g, d)

\* Readings that agree day by day make the same answer, with the same live ones.
LEMMA SameAnswers ==
    ASSUME NEW f, NEW g, NEW l, NEW F, NEW t, Agree(f, g, l, F, t)
    PROVE  /\ ProfileAt(Energy!Over(f, l), t) = ProfileAt(Energy!Over(g, l), t)
           /\ UsageAt(Energy!Over(f, l), t) = UsageAt(Energy!Over(g, l), t)
<1> DEFINE u == Energy!Over(f, l)
           v == Energy!Over(g, l)
<1>0. /\ t \in Nat /\ t <= MaxNow /\ StartNow <= t
      /\ F \in Nat /\ F <= MonthStart /\ F <= FirstDay(t)
      /\ Amounts(f) /\ Amounts(g) /\ Amounts(l)
      /\ IsFiniteSet(DOMAIN f) /\ IsFiniteSet(DOMAIN g) /\ IsFiniteSet(DOMAIN l)
      /\ \A s \in DOMAIN f \cup DOMAIN g \cup DOMAIN l : s \in Nat /\ s * HalfHour < t
      /\ \A d \in Nat : Of(f, d) \cap Of(l, d) = {} /\ Of(g, d) \cap Of(l, d) = {}
      /\ \A d \in Nat : d >= F => SameDay(f, g, d)
  BY DEF Agree
<1>1. ASSUME NEW d \in Nat, d >= F
      PROVE  SameDay(u, v, d) /\ Energy!dayTotal(u, d) = Energy!dayTotal(v, d)
  <2>1. d \in Int /\ SameDay(f, g, d) /\ Of(f, d) \cap Of(l, d) = {} /\ Of(g, d) \cap Of(l, d) = {}
    BY <1>0, <1>1
  <2> HIDE DEF u, v
  <2>2. u = Energy!Over(f, l) /\ v = Energy!Over(g, l)
    BY DEF u, v
  <2>3. QED
    BY <1>0, <2>1, <2>2, SameWith
<1>2. ProfileAt(u, t) = ProfileAt(v, t)
  <2> DEFINE D == Energy!DAY
             end == Energy!jstDayStart(t) - D
             first == end - PROFILE_DAYS * D - PROFILE_DAYS * D
             T == first \div D .. end \div D - 1
             z == end \div D
  <2>1. ProfileAt(u, t) = [d \in T |-> Energy!dayTotal(u, d)] /\ ProfileAt(v, t) = [d \in T |-> Energy!dayTotal(v, d)]
    BY DEF ProfileAt
  <2>2. FirstDay(t) \in Nat /\ first \div D = FirstDay(t) /\ end \in Int /\ D \in Nat \ {0}
    BY <1>0, AnswerTimes, DayIsLong
  <2> HIDE DEF D, end, first
  <2>3. z \in Int
    BY <2>2, Quotient
  <2>4. \A d \in T : d \in Nat /\ d >= F
    <3> HIDE DEF z
    <3>1. T = FirstDay(t) .. z - 1
      BY <2>2 DEF z
    <3>2. \A d \in FirstDay(t) .. z - 1 : d \in Nat /\ d >= F
      BY <1>0, <2>2, <2>3
    <3>3. QED
      BY <3>1, <3>2
  <2> HIDE DEF T
  <2>5. QED
    BY <1>1, <2>1, <2>4
<1>3. /\ DOMAIN u = DOMAIN f \cup DOMAIN l /\ DOMAIN v = DOMAIN g \cup DOMAIN l
      /\ \A s \in DOMAIN u : u[s] = IF s \in DOMAIN l THEN l[s] ELSE f[s]
      /\ \A s \in DOMAIN v : v[s] = IF s \in DOMAIN l THEN l[s] ELSE g[s]
  BY DEF Energy!Over
<1> HIDE DEF u, v
<1>4. Amounts(u) /\ Amounts(v)
  BY <1>0, <1>3 DEF Amounts
<1>5. IsFiniteSet(DOMAIN u) /\ IsFiniteSet(DOMAIN v)
  <2>1. IsFiniteSet(DOMAIN f \cup DOMAIN l) /\ IsFiniteSet(DOMAIN g \cup DOMAIN l)
    BY <1>0, FS_Union
  <2>2. QED
    BY <1>3, <2>1
<1>6. \A s \in DOMAIN u \cup DOMAIN v : s \in Nat /\ s * HalfHour < t
  BY <1>0, <1>3
<1>7. \A d \in Nat : d >= MonthStart => SameDay(u, v, d)
  <2> TAKE d \in Nat
  <2>1. d >= MonthStart => d >= F
    BY <1>0, EnergyConstants
  <2>2. QED
    BY <1>1, <2>1
<1>8. UsageAt(u, t) = UsageAt(v, t)
  BY <1>0, <1>4, <1>5, <1>6, <1>7, UsageSame
<1>9. QED
  BY <1>2, <1>8 DEF u, v

\* The answer is that of all readings.
LEMMA AnswerIsTrue ==
    ASSUME NEW t, KeptReadings(t), StartNow <= t, now \in Nat, SumsOK, \A d \in DOMAIN totals : KeptDay(d),
           NEW seen, NEW live, Readings(seen), Readings(live),
           DOMAIN live = {s \in DOMAIN seen : s >= Cutoff(t)},
           \A s \in DOMAIN live : live[s] = seen[s],
           \A s \in DOMAIN seen : s * HalfHour < t,
           \A s \in DOMAIN seen : s < Cutoff(t) => s \in DOMAIN stored /\ stored[s] = seen[s],
           NEW old,
           old = LET end == Energy!jstDayStart(t) - Energy!DAY
                     first == end - PROFILE_DAYS * Energy!DAY - PROFILE_DAYS * Energy!DAY
                 IN  Energy!readStoredOctopusRanges(Energy!Min({MonthStart * Energy!DAY, first}),
                                                    Energy!Max({t, end})),
           NEW u, u = Energy!Over(old, live), NEW v, v = Energy!Over(stored, seen)
    PROVE  ProfileAt(u, t) = ProfileAt(v, t) /\ UsageAt(u, t) = UsageAt(v, t)
<1> DEFINE D == Energy!DAY
           end == Energy!jstDayStart(t) - D
           first == end - PROFILE_DAYS * D - PROFILE_DAYS * D
           G == FirstDay(t)
           F == IF MonthStart <= G THEN MonthStart ELSE G
<1>1. t \in Nat /\ t \in Int /\ t <= MaxNow /\ MonthStart \in Nat /\ D \in Nat \ {0} /\ HalfHour \in Nat \ {0}
  BY EnergyConstants, DayIsLong DEF KeptReadings
<1>2. /\ G \in Nat /\ G * D <= t /\ end \in Int /\ end <= t
      /\ first = G * D /\ first \div D = G
  BY <1>1, AnswerTimes
<1> HIDE DEF end, first, G, D
<1>3. old = Energy!readStoredOctopusRanges(Energy!Min({MonthStart * D, first}), Energy!Max({t, end}))
  BY DEF end, first, D
<1>4. Energy!Max({t, end}) = t
  <2>1. t \in Int /\ end \in Int /\ end <= t
    BY <1>1, <1>2
  <2>2. Energy!Max({t, end}) = IF t <= end THEN end ELSE t
    BY <2>1, ExtremesOfTwo
  <2>3. QED
    BY <2>1, <2>2
<1>5. F \in Nat /\ F <= MonthStart /\ F <= G /\ F * D <= t /\ Energy!Min({MonthStart * D, first}) = F * D
  <2>1. MonthStart * D \in Int /\ G * D \in Int /\ (MonthStart <= G => MonthStart * D <= G * D)
        /\ (G <= MonthStart => G * D <= MonthStart * D)
    BY <1>1, <1>2, Multiples
  <2> DEFINE a == MonthStart * D
             b == G * D
  <2>2. Energy!Min({a, b}) = IF a <= b THEN a ELSE b
    <3>1. a \in Int /\ b \in Int
      BY <2>1
    <3> HIDE DEF a, b
    <3>2. QED
      BY <3>1, ExtremesOfTwo
  <2>3. a <= b <=> (MonthStart <= G \/ a = b)
    BY <1>1, <1>2, <2>1
  <2>4. Energy!Min({MonthStart * D, first}) = F * D
    BY <1>1, <1>2, <2>1, <2>2
  <2>5. F * D <= t
    BY <1>1, <1>2, <2>1
  <2>6. QED
    BY <1>1, <1>2, <2>4, <2>5
<1> HIDE DEF F
<1>6. /\ Amounts(old) /\ IsFiniteSet(DOMAIN old)
      /\ \A s \in DOMAIN old : s \in Nat /\ s < Cutoff(t)
      /\ \A d \in Nat : d >= F => SameDay(old, stored, d)
  <2>1. old = Energy!readStoredOctopusRanges(F * Energy!DAY, t) /\ F * Energy!DAY <= t
    BY <1>3, <1>4, <1>5 DEF D
  <2>2. QED
    BY <1>5, <2>1, OldReadings
<1>7. /\ v = Energy!Over(stored, live)
      /\ Amounts(live) /\ IsFiniteSet(DOMAIN live)
      /\ \A f, d : (\A s \in DOMAIN f : s \in Nat /\ s < Cutoff(t)) => Of(f, d) \cap Of(live, d) = {}
  BY SeenIsKeptOrLive
<1>8. Amounts(stored) /\ IsFiniteSet(DOMAIN stored) /\ \A s \in DOMAIN stored : s \in Nat /\ s < Cutoff(t)
  BY KeptAreEarly
<1>9. \A s \in DOMAIN old \cup DOMAIN stored \cup DOMAIN live : s \in Nat /\ s * HalfHour < t
  <2>1. \A s \in DOMAIN live : s \in Nat /\ s * HalfHour < t
    BY DEF Readings
  <2>2. \A s \in DOMAIN old \cup DOMAIN stored : s \in Nat /\ s * HalfHour < t
    <3> TAKE s \in DOMAIN old \cup DOMAIN stored
    <3>1. s \in Nat /\ s < Cutoff(t)
      BY <1>6, <1>8
    <3>2. QED
      BY <1>1, <3>1, EarlySlot
  <2>3. QED
    BY <2>1, <2>2
<1>10. \A d \in Nat : Of(old, d) \cap Of(live, d) = {} /\ Of(stored, d) \cap Of(live, d) = {}
  BY <1>6, <1>7, <1>8
<1>11. u = Energy!Over(old, live) /\ F <= FirstDay(t)
  BY <1>5 DEF G
<1>12. Agree(old, stored, live, F, t)
  BY <1>1, <1>5, <1>6, <1>7, <1>8, <1>9, <1>10, <1>11 DEF Agree
<1>13. u = Energy!Over(old, live) /\ v = Energy!Over(stored, live)
  BY <1>7, <1>11
<1>14. QED
  BY <1>12, <1>13, SameAnswers

-----------------------------------------------------------------------------
(* The steps. *)

LEMMA DailyPrimed ==
    ASSUME DailyOK(now', stored', totals', sync') PROVE DailyOK(now, stored, totals, sync)'
BY DEF DailyOK, StoredOK, Readings, KeptDay, JobOK, SeenOK, FetchedOK, Cutoff, Charges

LEMMA StoredGrows ==
    ASSUME NEW f, NEW t \in Nat, NEW u \in Nat, t <= u, StoredOK(f, t)
    PROVE  StoredOK(f, u)
<1>1. Cutoff(t) \in Int /\ Cutoff(u) \in Int /\ Cutoff(t) <= Cutoff(u)
  BY CutoffGrows
<1>2. \A s \in DOMAIN f : s \in Nat
  BY DEF StoredOK, Readings
<1>3. QED
  BY <1>1, <1>2 DEF StoredOK

LEMMA TimePasses ==
    ASSUME NEW n, NEW f, NEW T, NEW j, DailyOK(n, f, T, j), n < MaxNow
    PROVE  DailyOK(n + 1, f, T, j)
<1>1. n \in Nat /\ n + 1 \in Nat /\ n <= n + 1 /\ StartNow \in Nat /\ MaxNow \in Nat /\ n + 1 <= MaxNow
      /\ StartNow <= n + 1
  BY EnergyConstants DEF DailyOK
<1>2. StoredOK(f, n + 1)
  <2> DEFINE m == n + 1
  <2>1. m \in Nat /\ n <= m
    BY <1>1
  <2> HIDE DEF m
  <2>2. StoredOK(f, m)
    BY <1>1, <2>1, StoredGrows DEF DailyOK
  <2>3. QED
    BY <2>2 DEF m
<1>3. JobOK(j, f, n + 1)
  <2>1. JobOK(j, f, n)
    BY DEF DailyOK
  <2>2. j.now \in Nat /\ j.now <= n => j.now <= n + 1
    BY <1>1
  <2>3. QED
    BY <2>1, <2>2 DEF JobOK
<1>4. QED
  BY <1>1, <1>2, <1>3 DEF DailyOK

\* A step of the job that changes neither the readings nor the sums.
LEMMA JobMoves ==
    ASSUME NEW n, NEW f, NEW T, NEW j, DailyOK(n, f, T, j),
           NEW k, DOMAIN k = DOMAIN Energy!Idle, JobOK(k, f, n)
    PROVE  DailyOK(n, f, T, k)
BY DEF DailyOK

LEMMA JobOfDaily ==
    ASSUME NEW n, NEW f, NEW T, NEW j, DailyOK(n, f, T, j)
    PROVE  /\ n \in Nat /\ n <= MaxNow /\ StartNow <= n
           /\ StoredOK(f, n) /\ JobOK(j, f, n) /\ DOMAIN j = DOMAIN Energy!Idle
BY DEF DailyOK

\* The job rests.
LEMMA JobRests == \A f, n : JobOK(Energy!Idle, f, n)
BY DEF JobOK, Energy!Idle

\* A token changes nothing that is fetched.
LEMMA TokenMoves ==
    ASSUME NEW f, NEW n, NEW j, JobOK(j, f, n), NEW token, NEW k, k = [j EXCEPT !.token = token]
    PROVE  JobOK(k, f, n) /\ DOMAIN k = DOMAIN j
<1>1. /\ k.at = j.at /\ k.now = j.now /\ k.cursor = j.cursor /\ k.seen = j.seen /\ k.live = j.live
      /\ k.fetched = j.fetched /\ k.changed = j.changed /\ k.days = j.days /\ DOMAIN k = DOMAIN j
  OBVIOUS
<1>2. QED
  BY <1>1 DEF JobOK, SeenOK, FetchedOK

\* Before the readings are asked for, and after the answer, only the time of the run is of concern.
LEMMA JobWaits ==
    ASSUME NEW f, NEW n, NEW j, JobOK(j, f, n), j.at # "idle",
           NEW k, k.now = j.now, k.at \in {"authenticate", "floor", "answered"}
    PROVE  JobOK(k, f, n)
BY DEF JobOK

LEMMA JobBegins ==
    ASSUME NEW f, NEW n \in Nat, StartNow <= n, StoredOK(f, n),
           NEW k, k = [Energy!Idle EXCEPT !.at = "authenticate", !.now = n]
    PROVE  JobOK(k, f, n) /\ DOMAIN k = DOMAIN Energy!Idle
<1>1. k.at = "authenticate" /\ k.now = n /\ DOMAIN k = DOMAIN Energy!Idle
  BY DEF Energy!Idle
<1>2. n <= n
  OBVIOUS
<1>3. QED
  BY <1>1, <1>2 DEF JobOK

LEMMA CollectionStart ==
    ASSUME NEW t \in Nat
    PROVE  LET c == Energy!octopusCollectionStart(t) IN c \in Nat /\ c >= FloorSlot * HalfHour
<1> DEFINE w == t - OCTOPUS_COLLECTION_DAYS * Energy!DAY + HalfHour - 1
           q == w \div HalfHour
           a == q * HalfHour
           b == FloorSlot * HalfHour
<1>1. HalfHour \in Nat \ {0} /\ FloorSlot \in Nat /\ b \in Nat /\ w \in Int
  BY EnergyConstants, DayIsLong
<1> HIDE DEF w, b
<1>2. q \in Int
  BY <1>1, Quotient
<1> HIDE DEF q
<1>3. a \in Int
  BY <1>1, <1>2
<1>4. Energy!octopusCollectionStart(t) = Energy!Max({b, a})
  BY DEF Energy!octopusCollectionStart, a, b, q, w
<1> HIDE DEF a
<1>5. b \in Int
  BY <1>1
<1>6. Energy!Max({b, a}) = IF b <= a THEN a ELSE b
  BY <1>3, <1>5, ExtremesOfTwo
<1>7. QED
  BY <1>1, <1>3, <1>4, <1>6 DEF b

LEMMA NoReadings == Readings(Energy!Nothing) /\ DOMAIN Energy!Nothing = {}
<1>1. DOMAIN Energy!Nothing = {} /\ Energy!Nothing = [s \in DOMAIN Energy!Nothing |-> Energy!Nothing[s]]
  BY DEF Energy!Nothing
<1>2. Energy!IsFiniteSet(DOMAIN Energy!Nothing)
  BY <1>1, FiniteHere, FS_EmptySet
<1>3. QED
  BY <1>1, <1>2 DEF Readings

\* The rows before the floor go, and the run begins.
LEMMA FloorJob ==
    ASSUME NEW f, NEW n \in Nat, StoredOK(f, n), NEW j, JobOK(j, f, n), j.at = "floor",
           NEW g, g = Energy!Without(f, 0 .. FloorSlot - 1),
           NEW k, k = [j EXCEPT !.at = "fetch", !.cursor = Energy!octopusCollectionStart(j.now),
                                !.live = Energy!Nothing, !.seen = Energy!Nothing],
           DOMAIN j = DOMAIN Energy!Idle
    PROVE  StoredOK(g, n) /\ JobOK(k, g, n) /\ DOMAIN k = DOMAIN j
<1>1. /\ DOMAIN k = DOMAIN j /\ k.at = "fetch" /\ k.now = j.now
      /\ k.cursor = Energy!octopusCollectionStart(j.now)
      /\ k.live = Energy!Nothing /\ k.seen = Energy!Nothing
  BY DEF Energy!Idle
<1>2. j.now \in Nat /\ StartNow <= j.now /\ j.now <= n /\ StoredOK(f, j.now)
  BY DEF JobOK
<1>3. g = [s \in DOMAIN f \ (0 .. FloorSlot - 1) |-> f[s]]
  BY DEF Energy!Without, Energy!Restrict
<1>4. Readings(g) /\ DOMAIN g \subseteq DOMAIN f /\ \A s \in DOMAIN g : s \in Nat /\ s >= FloorSlot
  <2>1. DOMAIN g \subseteq DOMAIN f /\ \A s \in DOMAIN g : g[s] = f[s] /\ s \notin 0 .. FloorSlot - 1
    BY <1>3
  <2>2. Readings(f)
    BY DEF StoredOK
  <2>3. Energy!IsFiniteSet(DOMAIN g)
    BY <2>1, <2>2, FiniteHere, FS_Subset DEF Readings
  <2>4. \A s \in DOMAIN g : s \in Nat /\ g[s] \in Charges
    BY <2>1, <2>2 DEF Readings
  <2>5. \A s \in DOMAIN g : s >= FloorSlot
    BY <2>1, <2>4, EnergyConstants
  <2>6. g = [s \in DOMAIN g |-> g[s]]
    BY <1>3
  <2>7. QED
    BY <2>1, <2>3, <2>4, <2>5, <2>6 DEF Readings
<1>5. StoredOK(g, n) /\ StoredOK(g, j.now)
  BY <1>2, <1>4 DEF StoredOK
<1>6. k.cursor \in Nat /\ k.cursor >= FloorSlot * HalfHour
  BY <1>1, <1>2, CollectionStart
<1>7. SeenOK(k, g)
  BY <1>1, NoReadings DEF SeenOK
<1>8. QED
  BY <1>1, <1>2, <1>4, <1>5, <1>6, <1>7 DEF JobOK

\* A step at the readings: what is known of it.
LEMMA FetchFacts ==
    ASSUME NEW f, NEW n, NEW j, JobOK(j, f, n), j.at \in {"fetch", "persist"}
    PROVE  /\ j.now \in Nat /\ StartNow <= j.now /\ j.now <= n /\ StoredOK(f, j.now)
           /\ j.cursor \in Nat /\ j.cursor >= FloorSlot * HalfHour
           /\ \A s \in DOMAIN f : s >= FloorSlot
           /\ SeenOK(j, f)
           /\ j.at = "persist" => FetchedOK(j, f)
BY DEF JobOK

\* Slots old enough, and late enough, of those up to the last.
LEMMA SlotsAtCutoff ==
    ASSUME NEW t \in Nat, t <= MaxNow, NEW s \in Nat, s * HalfHour < t
    PROVE  /\ s \in 0 .. Energy!LastSlot /\ s * HalfHour \in Int
           /\ s \in Energy!SlotsFrom(FloorSlot * HalfHour, Energy!octopusStableCutoffJst(t))
                <=> FloorSlot <= s /\ s < Cutoff(t)
           /\ s \in Energy!SlotsFrom(Energy!octopusStableCutoffJst(t), t) <=> s >= Cutoff(t)
<1> DEFINE c == Cutoff(t)
           q == MaxNow \div HalfHour
           e == q + 1
<1>1. HalfHour \in Nat \ {0} /\ FloorSlot \in Int /\ MaxNow \in Nat /\ s \in Int /\ s * HalfHour \in Int
  BY EnergyConstants
<1>2. c \in Int /\ Energy!octopusStableCutoffJst(t) = c * HalfHour
  <2>1. t <= t
    OBVIOUS
  <2>2. QED
    BY <2>1, CutoffGrows
<1> HIDE DEF c
<1>3. q \in Int /\ MaxNow < q * HalfHour + HalfHour
  BY <1>1, Quotient
<1> HIDE DEF q
<1>4. e * HalfHour = q * HalfHour + HalfHour /\ e \in Int
  BY <1>1, <1>3, Multiples
<1> HIDE DEF e
<1>5. s * HalfHour < e * HalfHour
  BY <1>1, <1>3, <1>4
<1>6. s < e
  BY <1>1, <1>4, <1>5, Multiples
<1>7. s \in 0 .. Energy!LastSlot
  <2>1. Energy!LastSlot = q
    BY DEF Energy!LastSlot, Energy!SlotAt, q
  <2>2. QED
    BY <1>1, <1>3, <1>6, <2>1 DEF e
<1>8. (FloorSlot * HalfHour <= s * HalfHour <=> FloorSlot <= s) /\ (c * HalfHour <= s * HalfHour <=> c <= s)
      /\ (s * HalfHour < c * HalfHour <=> s < c)
  <2>1. c * HalfHour \in Int /\ (c * HalfHour <= s * HalfHour <=> c <= s)
    BY <1>1, <1>2, Multiples
  <2>2. FloorSlot * HalfHour <= s * HalfHour <=> FloorSlot <= s
    BY <1>1, Multiples
  <2>3. (s < c => s * HalfHour + HalfHour <= c * HalfHour) /\ (s * HalfHour < c * HalfHour => s < c)
    BY <1>1, <1>2, Multiples
  <2>4. QED
    BY <1>1, <1>2, <2>1, <2>2, <2>3
<1>9. QED
  <2>1. s >= c <=> c <= s
    BY <1>1, <1>2
  <2>2. QED
    BY <1>1, <1>2, <1>7, <1>8, <2>1 DEF Energy!SlotsFrom, c

EndOf(j) == Energy!Min({j.now, j.cursor + 2 * Energy!DAY})

LEMMA RangeEnds ==
    ASSUME NEW j, j.now \in Nat, j.cursor \in Nat, j.cursor < j.now
    PROVE  EndOf(j) \in Nat /\ j.cursor <= EndOf(j) /\ EndOf(j) <= j.now
<1> DEFINE a == j.now
           b == j.cursor + 2 * Energy!DAY
           c == j.cursor
<1>1. a \in Int /\ b \in Int /\ c \in Nat /\ c < a /\ c <= b
  BY DayIsLong
<1>2. EndOf(j) = Energy!Min({a, b})
  BY DEF EndOf
<1> HIDE DEF a, b, c
<1>3. EndOf(j) = IF a <= b THEN a ELSE b
  BY <1>1, <1>2, ExtremesOfTwo
<1>4. EndOf(j) \in Nat /\ c <= EndOf(j) /\ EndOf(j) <= a
  BY <1>1, <1>3
<1>5. QED
  BY <1>4 DEF a, c

LEMMA PublishedReadings ==
    ASSUME NEW from, NEW to, NEW r, r = Energy!Published(from, to)
    PROVE  Readings(r) /\ \A s \in DOMAIN r : from <= s * HalfHour /\ s * HalfHour < to
<1>1. DOMAIN r = {x \in Energy!SlotsFrom(from, to) : (x + 1) * HalfHour <= now /\ x \notin missing}
      /\ r = [s \in DOMAIN r |-> Energy!Reading(s)]
  BY DEF Energy!Published
<1>2. Energy!LastSlot \in Int /\ \A s : s \in Energy!SlotsFrom(from, to) =>
         s \in 0 .. Energy!LastSlot /\ from <= s * HalfHour /\ s * HalfHour < to
  BY EnergyConstants DEF Energy!SlotsFrom, Energy!LastSlot, Energy!SlotAt
<1>3. Energy!IsFiniteSet(DOMAIN r)
  <2> DEFINE l == Energy!LastSlot
             zero == 0
  <2>1. l \in Int /\ zero \in Int /\ DOMAIN r \subseteq zero .. l
    BY <1>1, <1>2
  <2> HIDE DEF l, zero
  <2>2. IsFiniteSet(zero .. l)
    BY <2>1, FS_Interval
  <2>3. QED
    BY <2>1, <2>2, FS_Subset, FiniteHere
<1>4. \A s \in DOMAIN r : r[s] \in Charges
  BY <1>1 DEF Energy!Reading, Charges
<1>5. QED
  BY <1>1, <1>2, <1>3, <1>4 DEF Readings

\* The stored readings from the first to the last that arrived hold each of those that arrived.
LEMMA ComparedReadings ==
    ASSUME NEW i, IsFiniteSet(DOMAIN i), DOMAIN i \subseteq Nat
    PROVE  Energy!changedOctopusReadings(i) = {s \in DOMAIN i : s \notin DOMAIN stored \/ stored[s] # i[s]}
<1> DEFINE S == DOMAIN i
           lo == Energy!Min(S)
           hi == Energy!Max(S)
           e == Energy!readComparableStoredReadings(i)
<1>1. CASE S = {}
  BY <1>1 DEF Energy!changedOctopusReadings
<1>2. CASE S # {}
  <2>1. S \in SUBSET Nat /\ S \in SUBSET Int /\ IsFiniteSet(S)
    OBVIOUS
  <2>2. (\E k \in S : \A m \in S : k <= m) /\ \E k \in S : \A m \in S : k >= m
    <3> HIDE DEF S
    <3>1. QED
      BY <1>2, <2>1, LeastNumber, LargestOf
  <2>3. lo \in S /\ (\A m \in S : lo <= m) /\ hi \in S /\ \A m \in S : hi >= m
    <3> HIDE DEF S
    <3>1. QED
      BY <2>2 DEF Energy!Min, Energy!Max
  <2>4. \A s \in S : s \in lo .. hi
    <3> HIDE DEF lo, hi, S
    <3>1. QED
      BY <2>1, <2>3
  <2>5. DOMAIN e = DOMAIN stored \cap (lo .. hi) /\ \A s \in DOMAIN e : e[s] = stored[s]
    BY DEF Energy!readComparableStoredReadings, Energy!Only, Energy!Restrict
  <2>6. Energy!changedOctopusReadings(i) = {s \in S : s \notin DOMAIN e \/ e[s] # i[s]}
    BY <1>2 DEF Energy!changedOctopusReadings
  <2> HIDE DEF lo, hi, e
  <2>7. \A s \in S : (s \notin DOMAIN e \/ e[s] # i[s]) <=> (s \notin DOMAIN stored \/ stored[s] # i[s])
    BY <2>4, <2>5
  <2>8. QED
    BY <2>6, <2>7
<1>3. QED
  BY <1>1, <1>2

\* The day of a slot after the floor is kept.
LEMMA DayOfKept ==
    ASSUME NEW s \in 0 .. Energy!LastSlot, FloorSlot <= s
    PROVE  KeptDay(Energy!DayOf(s))
<1> DEFINE d == s \div SlotsPerDay
           q == FloorSlot \div SlotsPerDay
           l == Energy!LastSlot
           n == l \div SlotsPerDay
<1>1. /\ SlotsPerDay \in Nat \ {0} /\ FloorSlot \in Nat /\ FloorSlot % SlotsPerDay = 0
      /\ l \in Nat /\ s \in Nat /\ s <= l /\ FloorSlot <= s
  <2>1. SlotsPerDay \in Nat \ {0} /\ FloorSlot \in Nat /\ FloorSlot % SlotsPerDay = 0
    BY EnergyConstants
  <2>2. l \in Nat
    BY EnergyConstants DEF Energy!LastSlot, Energy!SlotAt
  <2> HIDE DEF l
  <2>3. s \in 0 .. l
    BY DEF l
  <2>4. QED
    BY <2>1, <2>2, <2>3
<1>2. Energy!DayOf(s) = d /\ Energy!Days = 0 .. n
  BY DEF Energy!DayOf, Energy!Days
<1> HIDE DEF l
<1>3. d \in Int /\ d * SlotsPerDay <= s /\ s < d * SlotsPerDay + SlotsPerDay
  BY <1>1, Quotient
<1>4. n \in Int /\ l < n * SlotsPerDay + SlotsPerDay
  BY <1>1, Quotient
<1>5. q \in Int /\ FloorSlot = q * SlotsPerDay /\ q >= 0
  BY <1>1
<1> HIDE DEF d, q, n
<1>6. /\ d * SlotsPerDay \in Int /\ n * SlotsPerDay \in Int
      /\ d < q => d * SlotsPerDay + SlotsPerDay <= q * SlotsPerDay
      /\ q <= d => q * SlotsPerDay <= d * SlotsPerDay
      /\ n < d => n * SlotsPerDay + SlotsPerDay <= d * SlotsPerDay
  BY <1>1, <1>3, <1>4, <1>5, Multiples
<1> DEFINE x == d * SlotsPerDay
           y == n * SlotsPerDay
           z == q * SlotsPerDay
<1>7. /\ x \in Int /\ y \in Int /\ x <= s /\ s < x + SlotsPerDay /\ l < y + SlotsPerDay /\ FloorSlot = z
      /\ (d < q => x + SlotsPerDay <= z) /\ (q <= d => z <= x) /\ (n < d => y + SlotsPerDay <= x)
  BY <1>3, <1>4, <1>5, <1>6
<1>8. x >= FloorSlot /\ d \in 0 .. n
  <2> HIDE DEF x, y, z
  <2>1. QED
    BY <1>1, <1>3, <1>4, <1>5, <1>7
<1>9. QED
  BY <1>2, <1>8 DEF KeptDay

\* What is fetched is compared with what is kept.
LEMMA FetchJob ==
    ASSUME NEW n \in Nat, n <= MaxNow, NEW j, JobOK(j, stored, n), j.at = "fetch", j.cursor < j.now, j = sync,
           DOMAIN j = DOMAIN Energy!Idle,
           NEW r, r = Energy!Published(j.cursor, EndOf(j)),
           NEW c, c = Energy!changedOctopusReadings(Energy!Stable(r)),
           NEW k, k = [j EXCEPT !.at = "persist", !.fetched = r, !.changed = c,
                                !.days = {Energy!DayOf(s) : s \in c}]
    PROVE  JobOK(k, stored, n) /\ DOMAIN k = DOMAIN j
<1>1. /\ DOMAIN k = DOMAIN j /\ k.at = "persist" /\ k.fetched = r /\ k.changed = c
      /\ k.days = {Energy!DayOf(s) : s \in c}
      /\ k.now = j.now /\ k.cursor = j.cursor /\ k.live = j.live /\ k.seen = j.seen
  BY DEF Energy!Idle
<1>2. /\ j.now \in Nat /\ StartNow <= j.now /\ j.now <= n /\ StoredOK(stored, j.now)
      /\ j.cursor \in Nat /\ j.cursor >= FloorSlot * HalfHour
      /\ \A s \in DOMAIN stored : s >= FloorSlot
      /\ SeenOK(j, stored)
  BY FetchFacts
<1>3. EndOf(j) \in Nat /\ EndOf(j) <= j.now /\ j.now <= MaxNow
  <2>1. EndOf(j) \in Nat /\ EndOf(j) <= j.now
    BY <1>2, RangeEnds
  <2>2. QED
    BY <1>2, <2>1, EnergyConstants
<1>4. Readings(r) /\ \A s \in DOMAIN r : j.cursor <= s * HalfHour /\ s * HalfHour < EndOf(j)
  BY PublishedReadings
<1> DEFINE st == Energy!Stable(r)
           W == Energy!SlotsFrom(FloorSlot * HalfHour, Energy!octopusStableCutoffJst(j.now))
<1>5. ASSUME NEW s \in DOMAIN r
      PROVE  /\ s \in 0 .. Energy!LastSlot /\ FloorSlot <= s /\ s \in Nat
             /\ s \in W <=> s < Cutoff(j.now)
  <2>1. s \in Nat
    BY <1>4 DEF Readings
  <2>2. FloorSlot * HalfHour <= s * HalfHour /\ s * HalfHour < j.now
    <3>1. FloorSlot * HalfHour \in Int /\ s * HalfHour \in Int
      BY <2>1, EnergyConstants
    <3>2. QED
      BY <1>2, <1>3, <1>4, <3>1
  <2>3. FloorSlot <= s
    <3>1. FloorSlot \in Int /\ s \in Int /\ HalfHour \in Nat \ {0}
      BY <2>1, EnergyConstants
    <3>2. QED
      BY <2>2, <3>1, Multiples
  <2>4. s \in 0 .. Energy!LastSlot /\ (s \in W <=> FloorSlot <= s /\ s < Cutoff(j.now))
    BY <1>2, <1>3, <2>1, <2>2, SlotsAtCutoff
  <2>5. QED
    BY <2>1, <2>3, <2>4
<1>6. DOMAIN st = DOMAIN r \cap W /\ \A s \in DOMAIN st : st[s] = r[s]
  BY DEF Energy!Stable, Energy!Only, Energy!Restrict
<1>7. c = {s \in DOMAIN st : s \notin DOMAIN stored \/ stored[s] # st[s]}
  <2>1. IsFiniteSet(DOMAIN r)
    BY <1>4, FiniteHere DEF Readings
  <2>2. IsFiniteSet(DOMAIN st) /\ DOMAIN st \subseteq Nat
    BY <1>5, <1>6, <2>1, FS_Subset
  <2> HIDE DEF st
  <2>3. Energy!changedOctopusReadings(st) = {s \in DOMAIN st : s \notin DOMAIN stored \/ stored[s] # st[s]}
    BY <2>2, ComparedReadings
  <2>4. QED
    BY <2>3 DEF st
<1> HIDE DEF st, W
<1>8. /\ c \subseteq DOMAIN r
      /\ \A s \in DOMAIN r : IF s < Cutoff(j.now) THEN s \in c \/ (s \in DOMAIN stored /\ stored[s] = r[s])
                                                  ELSE s \notin c
  BY <1>5, <1>6, <1>7
<1>9. \A d \in k.days : KeptDay(d)
  BY <1>1, <1>5, <1>8, DayOfKept
<1>10. FetchedOK(k, stored)
  BY <1>1, <1>4, <1>5, <1>8, <1>9 DEF FetchedOK, EndOf
<1>11. SeenOK(k, stored)
  BY <1>1, <1>2 DEF SeenOK
<1>12. QED
  BY <1>1, <1>2, <1>10, <1>11 DEF JobOK

\* Slots one after the other, by their times.
LEMMA LaterSlot ==
    ASSUME NEW s \in Nat, NEW r \in Nat, NEW c \in Int, s * HalfHour < c, c <= r * HalfHour
    PROVE  s # r
BY EnergyConstants

\* A batch of what changed is kept.
LEMMA PersistJob ==
    ASSUME NEW f, NEW n \in Nat, StoredOK(f, n), NEW j, JobOK(j, f, n), j.at = "persist",
           DOMAIN j = DOMAIN Energy!Idle, NEW N, N \subseteq j.changed,
           NEW g, g = Energy!Over(f, Energy!Restrict(j.fetched, N)),
           NEW k, k = [j EXCEPT !.changed = j.changed \ N]
    PROVE  StoredOK(g, n) /\ JobOK(k, g, n) /\ DOMAIN k = DOMAIN j
<1>1. /\ DOMAIN k = DOMAIN j /\ k.at = "persist" /\ k.fetched = j.fetched /\ k.changed = j.changed \ N
      /\ k.days = j.days /\ k.now = j.now /\ k.cursor = j.cursor /\ k.live = j.live /\ k.seen = j.seen
  BY DEF Energy!Idle
<1>2. /\ j.now \in Nat /\ StartNow <= j.now /\ j.now <= n /\ StoredOK(f, j.now)
      /\ j.cursor \in Nat /\ j.cursor >= FloorSlot * HalfHour
      /\ \A s \in DOMAIN f : s >= FloorSlot
      /\ SeenOK(j, f) /\ FetchedOK(j, f)
  BY FetchFacts
<1>3. N \subseteq DOMAIN j.fetched
  BY <1>2 DEF FetchedOK
<1>4. g = [s \in DOMAIN f \cup N |-> IF s \in N THEN j.fetched[s] ELSE f[s]]
  BY DEF Energy!Over, Energy!Restrict
<1>5. ASSUME NEW s \in N
      PROVE  s \in Nat /\ j.fetched[s] \in Charges /\ FloorSlot <= s /\ s < Cutoff(j.now) /\ j.cursor <= s * HalfHour
  <2>1. s \in DOMAIN j.fetched /\ s \in j.changed
    BY <1>3
  <2>2. s < Cutoff(j.now) /\ FloorSlot <= s /\ j.cursor <= s * HalfHour
    BY <1>2, <2>1 DEF FetchedOK
  <2>3. QED
    BY <1>2, <2>1, <2>2 DEF FetchedOK, Readings
<1>6. Readings(f) /\ IsFiniteSet(DOMAIN f) /\ IsFiniteSet(DOMAIN j.fetched)
  BY <1>2, FiniteHere DEF StoredOK, Readings, FetchedOK
<1>7. IsFiniteSet(DOMAIN f \cup N)
  <2>1. IsFiniteSet(N)
    BY <1>3, <1>6, FS_Subset
  <2>2. QED
    BY <1>6, <2>1, FS_Union
<1>8. Readings(g)
  <2>1. DOMAIN g = DOMAIN f \cup N /\ g = [s \in DOMAIN g |-> g[s]]
        /\ \A s \in DOMAIN g : g[s] = IF s \in N THEN j.fetched[s] ELSE f[s]
    BY <1>4
  <2>2. \A s \in DOMAIN g : s \in Nat /\ g[s] \in Charges
    BY <1>5, <1>6, <2>1 DEF Readings
  <2>3. Energy!IsFiniteSet(DOMAIN g)
    BY <1>7, <2>1, FiniteHere
  <2>4. QED
    BY <2>1, <2>2, <2>3 DEF Readings
<1>9. \A s \in DOMAIN g : s >= FloorSlot /\ (s < FloorSlot \/ s < Cutoff(j.now))
  <2>1. \A s \in DOMAIN f : s >= FloorSlot /\ (s < FloorSlot \/ s < Cutoff(j.now))
    BY <1>2 DEF StoredOK
  <2>2. \A s \in N : s >= FloorSlot
    BY <1>5, EnergyConstants
  <2>3. QED
    BY <1>4, <1>5, <2>1, <2>2
<1>10. StoredOK(g, j.now)
  BY <1>8, <1>9 DEF StoredOK
<1>11. StoredOK(g, n)
  BY <1>2, <1>10, StoredGrows
<1>12. SeenOK(k, g)
  <2>1. ASSUME NEW s \in DOMAIN j.seen, s < Cutoff(j.now) PROVE s \in DOMAIN g /\ g[s] = j.seen[s]
    <3>1. s \in DOMAIN f /\ f[s] = j.seen[s] /\ s \in Nat /\ s * HalfHour < j.cursor
      BY <1>2, <2>1 DEF SeenOK, Readings
    <3>2. \A r \in N : s # r
      <4> TAKE r \in N
      <4>1. r \in Nat /\ j.cursor <= r * HalfHour /\ j.cursor \in Int
        BY <1>2, <1>5
      <4>2. QED
        BY <3>1, <4>1, LaterSlot
    <3>3. QED
      BY <1>4, <3>1, <3>2
  <2>2. QED
    BY <1>1, <1>2, <2>1 DEF SeenOK
<1>13. FetchedOK(k, g)
  <2>1. ASSUME NEW s \in DOMAIN j.fetched
        PROVE  IF s < Cutoff(j.now) THEN s \in j.changed \ N \/ (s \in DOMAIN g /\ g[s] = j.fetched[s])
                                    ELSE s \notin j.changed \ N
    <3>1. IF s < Cutoff(j.now) THEN s \in j.changed \/ (s \in DOMAIN f /\ f[s] = j.fetched[s])
                               ELSE s \notin j.changed
      BY <1>2 DEF FetchedOK
    <3>2. s \in N => s \in DOMAIN g /\ g[s] = j.fetched[s]
      BY <1>4
    <3>3. s \notin N /\ s \in DOMAIN f => s \in DOMAIN g /\ g[s] = f[s]
      BY <1>4
    <3>4. QED
      BY <3>1, <3>2, <3>3
  <2>2. QED
    BY <1>1, <1>2, <2>1 DEF FetchedOK
<1>14. QED
  BY <1>1, <1>2, <1>9, <1>10, <1>11, <1>12, <1>13 DEF JobOK

\* What is not yet old enough joins the readings that are live.
LEMMA LiveJob ==
    ASSUME NEW f, NEW n \in Nat, n <= MaxNow, NEW j, JobOK(j, f, n), j.at = "persist", j.changed = {}, j = sync,
           DOMAIN j = DOMAIN Energy!Idle,
           NEW live, live = Energy!Over(j.live, Energy!Live(j.fetched)),
           NEW seen, seen = Energy!Over(j.seen, j.fetched),
           NEW k, k = [j EXCEPT !.at = "fetch", !.cursor = EndOf(j), !.fetched = Energy!Nothing,
                                !.live = live, !.seen = seen]
    PROVE  JobOK(k, f, n) /\ DOMAIN k = DOMAIN j
<1>1. /\ DOMAIN k = DOMAIN j /\ k.at = "fetch" /\ k.cursor = EndOf(j) /\ k.now = j.now
      /\ k.live = live /\ k.seen = seen
  BY DEF Energy!Idle
<1>2. /\ j.now \in Nat /\ StartNow <= j.now /\ j.now <= n /\ StoredOK(f, j.now)
      /\ j.cursor \in Nat /\ j.cursor >= FloorSlot * HalfHour
      /\ \A s \in DOMAIN f : s >= FloorSlot
      /\ SeenOK(j, f) /\ FetchedOK(j, f)
  BY FetchFacts
<1>3. EndOf(j) \in Nat /\ j.cursor <= EndOf(j) /\ EndOf(j) <= j.now /\ j.now <= MaxNow
  <2>1. j.cursor < j.now
    BY <1>2 DEF FetchedOK
  <2>2. EndOf(j) \in Nat /\ j.cursor <= EndOf(j) /\ EndOf(j) <= j.now
    BY <1>2, <2>1, RangeEnds
  <2>3. QED
    BY <1>2, <2>2, EnergyConstants
<1>4. EndOf(j) >= FloorSlot * HalfHour
  <2>1. FloorSlot * HalfHour \in Int
    BY EnergyConstants
  <2>2. QED
    BY <1>2, <1>3, <2>1
<1> DEFINE c == Cutoff(j.now)
           W == Energy!SlotsFrom(Energy!octopusStableCutoffJst(j.now), j.now)
           new == Energy!Live(j.fetched)
<1>5. ASSUME NEW s \in DOMAIN j.fetched
      PROVE  /\ s \in Nat /\ FloorSlot <= s /\ s * HalfHour < EndOf(j) /\ s * HalfHour < j.now
             /\ j.fetched[s] \in Charges
             /\ s \in W <=> s >= c
             /\ s < c => s \in DOMAIN f /\ f[s] = j.fetched[s]
  <2>1. s \in Nat /\ FloorSlot <= s /\ s * HalfHour < EndOf(j) /\ j.fetched[s] \in Charges
    BY <1>2 DEF FetchedOK, Readings, EndOf
  <2>2. s * HalfHour < j.now
    <3>1. s * HalfHour \in Int
      BY <2>1, EnergyConstants
    <3>2. QED
      BY <1>2, <1>3, <2>1, <3>1
  <2>3. s \in W <=> s >= c
    BY <1>2, <1>3, <2>1, <2>2, SlotsAtCutoff
  <2>4. s < c => s \in DOMAIN f /\ f[s] = j.fetched[s]
    BY <1>2 DEF FetchedOK
  <2>5. QED
    BY <2>1, <2>2, <2>3, <2>4
<1>6. ASSUME NEW s \in DOMAIN j.seen
      PROVE  /\ s \in Nat /\ FloorSlot <= s /\ s * HalfHour < EndOf(j) /\ s * HalfHour < j.now
             /\ j.seen[s] \in Charges
             /\ s < c => s \in DOMAIN f /\ f[s] = j.seen[s]
  <2>1. /\ s \in Nat /\ FloorSlot <= s /\ s * HalfHour < j.cursor /\ s * HalfHour < j.now
        /\ j.seen[s] \in Charges /\ (s < c => s \in DOMAIN f /\ f[s] = j.seen[s])
    BY <1>2 DEF SeenOK, Readings
  <2>2. s * HalfHour < EndOf(j)
    <3>1. s * HalfHour \in Int
      BY <2>1, EnergyConstants
    <3>2. QED
      BY <1>2, <1>3, <2>1, <3>1
  <2>3. QED
    BY <2>1, <2>2
<1>7. /\ DOMAIN j.live = {s \in DOMAIN j.seen : s >= c} /\ \A s \in DOMAIN j.live : j.live[s] = j.seen[s]
  BY <1>2 DEF SeenOK
<1>8. DOMAIN new = DOMAIN j.fetched \cap W /\ \A s \in DOMAIN new : new[s] = j.fetched[s]
  BY DEF Energy!Live, Energy!Only, Energy!Restrict
<1> HIDE DEF c, W, new
<1>9. /\ live = [s \in DOMAIN j.live \cup DOMAIN new |-> IF s \in DOMAIN new THEN new[s] ELSE j.live[s]]
      /\ seen = [s \in DOMAIN j.seen \cup DOMAIN j.fetched |->
                    IF s \in DOMAIN j.fetched THEN j.fetched[s] ELSE j.seen[s]]
  BY DEF Energy!Over, new
<1>10. IsFiniteSet(DOMAIN seen)
  <2>1. IsFiniteSet(DOMAIN j.seen) /\ IsFiniteSet(DOMAIN j.fetched)
    BY <1>2, FiniteHere DEF SeenOK, FetchedOK, Readings
  <2>2. IsFiniteSet(DOMAIN j.seen \cup DOMAIN j.fetched)
    BY <2>1, FS_Union
  <2>3. QED
    BY <1>9, <2>2
<1>11. DOMAIN seen = DOMAIN j.seen \cup DOMAIN j.fetched
       /\ \A s \in DOMAIN seen : seen[s] = IF s \in DOMAIN j.fetched THEN j.fetched[s] ELSE j.seen[s]
  BY <1>9
<1>12. DOMAIN live = {s \in DOMAIN seen : s >= c}
  <2>1. DOMAIN live = DOMAIN j.live \cup DOMAIN new
    BY <1>9
  <2>2. QED
    BY <1>5, <1>7, <1>8, <1>11, <2>1
<1>13. \A s \in DOMAIN live : live[s] = seen[s]
  <2> TAKE s \in DOMAIN live
  <2>1. s \in DOMAIN seen /\ s >= c
    BY <1>12
  <2>2. live[s] = IF s \in DOMAIN new THEN new[s] ELSE j.live[s]
    BY <1>9
  <2>3. CASE s \in DOMAIN j.fetched
    BY <1>5, <1>8, <1>11, <2>1, <2>2, <2>3
  <2>4. CASE s \notin DOMAIN j.fetched
    <3>1. s \in DOMAIN j.seen /\ s \notin DOMAIN new
      BY <1>8, <1>11, <2>1, <2>4
    <3>2. s \in DOMAIN j.live
      BY <1>7, <2>1, <3>1
    <3>3. QED
      BY <1>7, <1>11, <2>1, <2>2, <2>4, <3>1, <3>2
  <2>5. QED
    BY <2>3, <2>4
<1>14. Readings(seen)
  <2>1. seen = [s \in DOMAIN seen |-> seen[s]]
    BY <1>9
  <2>2. \A s \in DOMAIN seen : s \in Nat /\ seen[s] \in Charges
    BY <1>5, <1>6, <1>11
  <2>3. QED
    BY <1>10, <2>1, <2>2, FiniteHere DEF Readings
<1>15. Readings(live)
  <2>1. live = [s \in DOMAIN live |-> live[s]] /\ DOMAIN live \subseteq DOMAIN seen
    BY <1>9, <1>12
  <2>2. \A s \in DOMAIN live : s \in Nat /\ live[s] \in Charges
    BY <1>13, <1>14, <2>1 DEF Readings
  <2>3. IsFiniteSet(DOMAIN live)
    BY <1>10, <2>1, FS_Subset
  <2>4. QED
    BY <2>1, <2>2, <2>3, FiniteHere DEF Readings
<1>16. /\ \A s \in DOMAIN seen : FloorSlot <= s /\ s * HalfHour < j.now /\ s * HalfHour < EndOf(j)
       /\ \A s \in DOMAIN seen : s < c => s \in DOMAIN f /\ f[s] = seen[s]
  BY <1>5, <1>6, <1>11
<1>17. SeenOK(k, f)
  BY <1>1, <1>12, <1>13, <1>14, <1>15, <1>16 DEF SeenOK, c
<1>18. QED
  BY <1>1, <1>2, <1>3, <1>4, <1>17 DEF JobOK

\* The days summed are among those that are kept.
LEMMA RefreshJob ==
    ASSUME NEW n, NEW f, NEW T, NEW j, DailyOK(n, f, T, j), j.at = "persist", NEW d \in j.days,
           NEW total, NEW U, U = Energy!Over(T, [x \in {d} |-> total]),
           NEW k, k = [j EXCEPT !.days = j.days \ {d}]
    PROVE  DailyOK(n, f, U, k)
<1>1. /\ DOMAIN k = DOMAIN j /\ k.at = "persist" /\ k.fetched = j.fetched /\ k.changed = j.changed
      /\ k.days = j.days \ {d} /\ k.now = j.now /\ k.cursor = j.cursor /\ k.live = j.live /\ k.seen = j.seen
  BY DEF DailyOK, Energy!Idle
<1>2. JobOK(j, f, n) /\ \A e \in DOMAIN T : KeptDay(e)
  BY DEF DailyOK
<1>3. FetchedOK(j, f)
  BY <1>2 DEF JobOK
<1>4. DOMAIN U = DOMAIN T \cup {d}
  BY DEF Energy!Over
<1>5. KeptDay(d)
  BY <1>3 DEF FetchedOK
<1>6. \A e \in DOMAIN U : KeptDay(e)
  BY <1>2, <1>4, <1>5
<1>7. FetchedOK(k, f)
  BY <1>1, <1>3 DEF FetchedOK
<1>8. JobOK(k, f, n)
  BY <1>1, <1>2, <1>7 DEF JobOK, SeenOK
<1>9. QED
  BY <1>1, <1>6, <1>8 DEF DailyOK

\* What is promised of an answer, of the values alone.
TrueAnswer(f, j) ==
    LET readings == Energy!Over(f, j.seen)
    IN  j.profile = ProfileAt(readings, j.now) /\ j.usage = UsageAt(readings, j.now)

LEMMA Promised == Energy!ProfileIsTrue <=> (sync.at = "answered" /\ torn = {} => TrueAnswer(stored, sync))
BY DEF Energy!ProfileIsTrue, TrueAnswer, ProfileAt, UsageAt, Energy!buildOctopusDailyProfile,
       Energy!currentUsage, Energy!previousStart, Energy!currentStart, Energy!currentEnd

LEMMA PromisedThen ==
    Energy!ProfileIsTrue' <=> (sync'.at = "answered" /\ torn' = {} => TrueAnswer(stored', sync'))
BY DEF Energy!ProfileIsTrue, TrueAnswer, ProfileAt, UsageAt, Energy!buildOctopusDailyProfile,
       Energy!currentUsage, Energy!previousStart, Energy!currentStart, Energy!currentEnd,
       Energy!dayTotal, Energy!SumOf, Energy!Only, Energy!Restrict, Energy!Over, Energy!SlotsFrom, Energy!SlotsOf,
       Energy!jstDayStart, Energy!FoldFunction, Energy!FoldFunctionOnSet, Energy!MapThenFoldSet

LEMMA AnswerJob ==
    ASSUME DailyInv, EnergyInv, Energy!Answer
    PROVE  DailyInv'
<1>1. /\ now' = now /\ stored' = stored /\ totals' = totals /\ torn' = torn
      /\ sync.at = "fetch" /\ sync.cursor >= sync.now
  BY DEF Energy!Answer, Energy!Kept
<1> DEFINE t == sync.now
           old == LET end == Energy!jstDayStart(t) - Energy!DAY
                      first == end - PROFILE_DAYS * Energy!DAY - PROFILE_DAYS * Energy!DAY
                  IN  Energy!readStoredOctopusRanges(Energy!Min({MonthStart * Energy!DAY, first}),
                                                     Energy!Max({t, end}))
           u == Energy!Over(old, sync.live)
           v == Energy!Over(stored, sync.seen)
<1>2. /\ sync' = [sync EXCEPT !.at = "answered", !.profile = ProfileAt(u, t), !.usage = UsageAt(u, t)]
  BY DEF Energy!Answer, ProfileAt, UsageAt, Energy!mergeReadings, Energy!buildOctopusDailyProfile,
         Energy!currentUsage, Energy!previousStart, Energy!currentStart, Energy!currentEnd
<1>3. DailyOK(now, stored, totals, sync)
  BY DEF DailyInv
<1>4. /\ now \in Nat /\ now <= MaxNow /\ StoredOK(stored, now) /\ JobOK(sync, stored, now)
      /\ DOMAIN sync = DOMAIN Energy!Idle
  BY <1>3, JobOfDaily
<1>5. /\ sync.now \in Nat /\ StartNow <= sync.now /\ sync.now <= now /\ StoredOK(stored, sync.now)
      /\ \A s \in DOMAIN stored : s >= FloorSlot
      /\ SeenOK(sync, stored)
  BY <1>1, <1>4, FetchFacts
<1> HIDE DEF u, old, v
<1>6. /\ DOMAIN sync' = DOMAIN sync /\ sync'.at = "answered" /\ sync'.now = sync.now /\ sync'.seen = sync.seen
      /\ sync'.profile = ProfileAt(u, t) /\ sync'.usage = UsageAt(u, t)
  BY <1>2, <1>4 DEF Energy!Idle
<1>7. JobOK(sync', stored, now)
  BY <1>1, <1>4, <1>6, JobWaits
<1>8. DailyOK(now', stored', totals', sync')
  <2>1. DOMAIN sync' = DOMAIN Energy!Idle
    BY <1>4, <1>6
  <2>2. DailyOK(now, stored, totals, sync')
    BY <1>3, <1>7, <2>1, JobMoves
  <2>3. QED
    BY <1>1, <2>2
<1>9. ASSUME torn = {} PROVE ProfileAt(u, t) = ProfileAt(v, t) /\ UsageAt(u, t) = UsageAt(v, t)
  <2>1. KeptReadings(t)
    <3>1. sync.now <= MaxNow
      BY <1>4, <1>5, EnergyConstants
    <3>2. QED
      BY <1>5, <3>1 DEF KeptReadings
  <2>2. \A d \in DOMAIN totals : KeptDay(d)
    BY <1>3 DEF DailyOK
  <2>3. SumsOK
    BY <1>9, <2>1, <2>2, SumsAreGood DEF EnergyInv
  <2> DEFINE seen == sync.seen
             live == sync.live
  <2>4. /\ Readings(seen) /\ Readings(live) /\ DOMAIN live = {s \in DOMAIN seen : s >= Cutoff(t)}
        /\ \A s \in DOMAIN live : live[s] = seen[s]
        /\ \A s \in DOMAIN seen : s * HalfHour < t
        /\ \A s \in DOMAIN seen : s < Cutoff(t) => s \in DOMAIN stored /\ stored[s] = seen[s]
    BY <1>5 DEF SeenOK
  <2>5. u = Energy!Over(old, live) /\ v = Energy!Over(stored, seen) /\ StartNow <= t /\ now \in Nat
    BY <1>4, <1>5 DEF u, v
  <2>6. old = LET end == Energy!jstDayStart(t) - Energy!DAY
                  first == end - PROFILE_DAYS * Energy!DAY - PROFILE_DAYS * Energy!DAY
              IN  Energy!readStoredOctopusRanges(Energy!Min({MonthStart * Energy!DAY, first}), Energy!Max({t, end}))
    BY DEF old
  <2> HIDE DEF t, live, seen
  <2>7. QED
    BY <2>1, <2>2, <2>3, <2>4, <2>5, <2>6, AnswerIsTrue
<1>10. Energy!ProfileIsTrue'
  <2>1. torn = {} => TrueAnswer(stored', sync')
    BY <1>1, <1>6, <1>9 DEF TrueAnswer, v
  <2>2. QED
    BY <1>1, <2>1, PromisedThen
<1>11. QED
  BY <1>8, <1>10, DailyPrimed DEF DailyInv

\* A step that leaves the job without an answer promises nothing yet.
LEMMA DailyThen ==
    ASSUME DailyOK(now', stored', totals', sync'), sync'.at # "answered"
    PROVE  DailyInv'
<1>1. Energy!ProfileIsTrue'
  BY PromisedThen
<1>2. QED
  BY <1>1, DailyPrimed DEF DailyInv

\* An answer stays true while what it is about rests.
LEMMA DailyRests ==
    ASSUME DailyInv, DailyOK(now', stored', totals', sync'), UNCHANGED <<stored, torn>>,
           sync'.at = sync.at, sync'.now = sync.now, sync'.seen = sync.seen,
           sync'.profile = sync.profile, sync'.usage = sync.usage
    PROVE  DailyInv'
<1>1. sync.at = "answered" /\ torn = {} => TrueAnswer(stored, sync)
  BY Promised DEF DailyInv
<1>2. TrueAnswer(stored, sync) => TrueAnswer(stored', sync')
  BY DEF TrueAnswer
<1>3. Energy!ProfileIsTrue'
  BY <1>1, <1>2, PromisedThen
<1>4. QED
  BY <1>3, DailyPrimed DEF DailyInv

LEMMA DailySupplier == ASSUME DailyInv, Energy!Supplier PROVE DailyInv'
<1>1. DailyOK(now, stored, totals, sync)
  BY DEF DailyInv
<1>2. CASE Energy!Tick
  <2>1. now' = now + 1 /\ now < MaxNow /\ UNCHANGED <<stored, totals, sync, torn>>
    BY <1>2 DEF Energy!Tick
  <2>2. DailyOK(now + 1, stored, totals, sync)
    BY <1>1, <2>1, TimePasses
  <2>3. DailyOK(now', stored', totals', sync')
    BY <2>1, <2>2
  <2>4. QED
    BY <2>1, <2>3, DailyRests
<1>3. CASE Energy!Refuse
  <2> DEFINE token == IF sync.token = "valid" THEN "refused" ELSE sync.token
  <2>1. /\ sync' = [sync EXCEPT !.token = token] /\ UNCHANGED <<now, stored, totals, torn>>
    BY <1>3 DEF Energy!Refuse
  <2>2. JobOK(sync, stored, now) /\ DOMAIN sync = DOMAIN Energy!Idle
    BY <1>1, JobOfDaily
  <2> HIDE DEF token
  <2> DEFINE k == [sync EXCEPT !.token = token]
  <2>3. k = [sync EXCEPT !.token = token] /\ sync' = k
    BY <2>1
  <2>4. k.at = sync.at /\ k.now = sync.now /\ k.seen = sync.seen /\ k.profile = sync.profile /\ k.usage = sync.usage
    OBVIOUS
  <2> HIDE DEF k
  <2>5. JobOK(k, stored, now) /\ DOMAIN k = DOMAIN Energy!Idle
    BY <2>2, <2>3, TokenMoves
  <2>6. DailyOK(now, stored, totals, k)
    BY <1>1, <2>5, JobMoves
  <2>7. DailyOK(now', stored', totals', sync')
    BY <2>1, <2>3, <2>6
  <2>8. QED
    BY <2>1, <2>3, <2>4, <2>7, DailyRests
<1>4. CASE Energy!TokenExpires \/ \E s \in 0 .. Energy!LastSlot : Energy!PublishLate(s) \/ Energy!Amend(s)
  <2>1. UNCHANGED <<now, stored, totals, sync, torn>>
    BY <1>4 DEF Energy!TokenExpires, Energy!PublishLate, Energy!Amend
  <2>2. DailyOK(now', stored', totals', sync')
    BY <1>1, <2>1
  <2>3. QED
    BY <2>1, <2>2, DailyRests
<1>5. QED
  BY <1>2, <1>3, <1>4 DEF Energy!Supplier

\* A step of the run that changes neither readings nor sums, and does not answer.
LEMMA RunMoves ==
    ASSUME DailyInv, UNCHANGED <<now, stored, totals>>, DOMAIN sync' = DOMAIN Energy!Idle,
           JobOK(sync', stored, now), sync'.at # "answered"
    PROVE  DailyInv'
<1>1. DailyOK(now, stored, totals, sync')
  BY JobMoves DEF DailyInv
<1>2. DailyOK(now', stored', totals', sync')
  BY <1>1
<1>3. QED
  BY <1>2, DailyThen

LEMMA RunEnds == ASSUME DailyInv, UNCHANGED <<now, stored, totals>>, sync' = Energy!Idle PROVE DailyInv'
<1>1. JobOK(sync', stored, now) /\ DOMAIN sync' = DOMAIN Energy!Idle
  BY JobRests
<1>2. sync'.at # "answered"
  BY DEF Energy!Idle
<1>3. QED
  BY <1>1, <1>2, RunMoves

LEMMA DailyJob == ASSUME DailyInv, EnergyInv, Energy!Job PROVE DailyInv'
<1>1. DailyOK(now, stored, totals, sync)
  BY DEF DailyInv
<1>2. /\ now \in Nat /\ now <= MaxNow /\ StartNow <= now /\ StoredOK(stored, now)
      /\ JobOK(sync, stored, now) /\ DOMAIN sync = DOMAIN Energy!Idle
  BY <1>1, JobOfDaily
<1>3. CASE Energy!fetchOctopus
  <2>1. sync' = [Energy!Idle EXCEPT !.at = "authenticate", !.now = now] /\ UNCHANGED <<now, stored, totals>>
    BY <1>3 DEF Energy!fetchOctopus, Energy!Kept
  <2> DEFINE k == [Energy!Idle EXCEPT !.at = "authenticate", !.now = now]
  <2>2. k = [Energy!Idle EXCEPT !.at = "authenticate", !.now = now] /\ sync' = k
    BY <2>1
  <2>3. k.at # "answered"
    BY DEF Energy!Idle
  <2> HIDE DEF k
  <2>4. JobOK(k, stored, now) /\ DOMAIN k = DOMAIN Energy!Idle
    BY <1>2, <2>2, JobBegins
  <2>5. QED
    BY <2>1, <2>2, <2>3, <2>4, RunMoves
<1>4. ASSUME sync.at # "idle", sync'.now = sync.now, sync'.at \in {"authenticate", "floor"},
             DOMAIN sync' = DOMAIN sync, UNCHANGED <<now, stored, totals>>
      PROVE  DailyInv'
  <2>1. JobOK(sync', stored, now)
    BY <1>2, <1>4, JobWaits
  <2>2. sync'.at # "answered" /\ DOMAIN sync' = DOMAIN Energy!Idle
    BY <1>2, <1>4
  <2>3. QED
    BY <1>4, <2>1, <2>2, RunMoves
<1>5. CASE Energy!authenticateOctopus
  <2>1. sync.at = "authenticate" /\ UNCHANGED <<now, stored, totals>> /\ \E token : sync' = [sync EXCEPT !.at = "floor", !.token = token]
    BY <1>5 DEF Energy!authenticateOctopus, Energy!Kept
  <2>2. sync'.now = sync.now /\ sync'.at = "floor" /\ DOMAIN sync' = DOMAIN sync
    BY <1>2, <2>1 DEF Energy!Idle
  <2>3. QED
    BY <1>4, <2>1, <2>2
<1>6. CASE Energy!enforceHistoryFloor
  <2> DEFINE g == Energy!Without(stored, 0 .. FloorSlot - 1)
             k == [sync EXCEPT !.at = "fetch", !.cursor = Energy!octopusCollectionStart(sync.now),
                               !.live = Energy!Nothing, !.seen = Energy!Nothing]
  <2>1. stored' = g /\ sync' = k /\ UNCHANGED <<now, totals>> /\ sync.at = "floor"
    BY <1>6 DEF Energy!enforceHistoryFloor, Energy!Kept
  <2>2. /\ g = Energy!Without(stored, 0 .. FloorSlot - 1)
        /\ k = [sync EXCEPT !.at = "fetch", !.cursor = Energy!octopusCollectionStart(sync.now),
                            !.live = Energy!Nothing, !.seen = Energy!Nothing]
    OBVIOUS
  <2>3. k.at # "answered"
    BY <1>2 DEF Energy!Idle
  <2> HIDE DEF g, k
  <2>4. StoredOK(g, now) /\ JobOK(k, g, now) /\ DOMAIN k = DOMAIN sync
    BY <1>2, <2>1, <2>2, FloorJob
  <2>5. DailyOK(now, g, totals, k)
    BY <1>1, <1>2, <2>4 DEF DailyOK
  <2>6. DailyOK(now', stored', totals', sync')
    BY <2>1, <2>5
  <2>7. QED
    BY <2>1, <2>3, <2>6, DailyThen
<1>7. CASE Energy!fetchOctopusRangeReadings
  <2> DEFINE r == Energy!Published(sync.cursor, EndOf(sync))
             c == Energy!changedOctopusReadings(Energy!Stable(r))
             k == [sync EXCEPT !.at = "persist", !.fetched = r, !.changed = c,
                               !.days = {Energy!DayOf(s) : s \in c}]
  <2>1. sync' = k /\ UNCHANGED <<now, stored, totals>> /\ sync.at = "fetch" /\ sync.cursor < sync.now
    BY <1>7 DEF Energy!fetchOctopusRangeReadings, Energy!Kept, Energy!RangeEnd, EndOf
  <2>2. k.at # "answered"
    BY <1>2 DEF Energy!Idle
  <2>3. JobOK(k, stored, now) /\ DOMAIN k = DOMAIN sync
    <3>1. /\ r = Energy!Published(sync.cursor, EndOf(sync))
          /\ c = Energy!changedOctopusReadings(Energy!Stable(r))
      OBVIOUS
    <3> HIDE DEF r, c
    <3>2. k = [sync EXCEPT !.at = "persist", !.fetched = r, !.changed = c,
                           !.days = {Energy!DayOf(s) : s \in c}]
      OBVIOUS
    <3> HIDE DEF k
    <3>3. QED
      BY <1>2, <2>1, <3>1, <3>2, FetchJob
  <2> HIDE DEF k
  <2>4. QED
    BY <1>2, <2>1, <2>2, <2>3, RunMoves
<1>8. CASE Energy!StartOver
  <2>1. CASE sync' = Energy!Idle
    BY <1>8, <2>1, RunEnds DEF Energy!StartOver, Energy!Kept
  <2>2. CASE sync' = [sync EXCEPT !.at = "authenticate", !.again = TRUE]
    <3>1. /\ sync.at = "fetch" /\ UNCHANGED <<now, stored, totals>>
          /\ sync'.now = sync.now /\ sync'.at = "authenticate" /\ DOMAIN sync' = DOMAIN sync
      BY <1>2, <1>8, <2>2 DEF Energy!StartOver, Energy!Kept, Energy!Idle
    <3>2. QED
      BY <1>4, <3>1
  <2>3. QED
    BY <1>8, <2>1, <2>2 DEF Energy!StartOver
<1>9. CASE Energy!persistStableReadings
  <2> DEFINE N == Energy!NextBatch
             g == Energy!Over(stored, Energy!Restrict(sync.fetched, N))
             k == [sync EXCEPT !.changed = sync.changed \ N]
  <2>1. stored' = g /\ sync' = k /\ UNCHANGED <<now, totals>> /\ sync.at = "persist"
    BY <1>9 DEF Energy!persistStableReadings, Energy!Kept
  <2>2. N \subseteq sync.changed
    BY DEF Energy!NextBatch
  <2> HIDE DEF N
  <2>3. /\ g = Energy!Over(stored, Energy!Restrict(sync.fetched, N))
        /\ k = [sync EXCEPT !.changed = sync.changed \ N] /\ k.at = sync.at
    BY <1>2 DEF Energy!Idle
  <2> HIDE DEF g, k
  <2>4. StoredOK(g, now) /\ JobOK(k, g, now) /\ DOMAIN k = DOMAIN sync
    BY <1>2, <2>1, <2>2, <2>3, PersistJob
  <2>5. DailyOK(now, g, totals, k)
    BY <1>1, <1>2, <2>4 DEF DailyOK
  <2>6. DailyOK(now', stored', totals', sync')
    BY <2>1, <2>5
  <2>7. QED
    BY <2>1, <2>3, <2>6, DailyThen
<1>10. ASSUME NEW d \in Energy!Days, Energy!refreshDailyTotals(d) PROVE DailyInv'
  <2> DEFINE total == Energy!DailyTotal(stored, d)
             U == Energy!Over(totals, [x \in {d} |-> total])
             k == [sync EXCEPT !.days = sync.days \ {d}]
  <2>1. totals' = U /\ sync' = k /\ UNCHANGED <<now, stored>> /\ sync.at = "persist" /\ d \in sync.days
    BY <1>10 DEF Energy!refreshDailyTotals, Energy!Kept, Energy!SelectedTotal
  <2> HIDE DEF total
  <2>2. U = Energy!Over(totals, [x \in {d} |-> total]) /\ k = [sync EXCEPT !.days = sync.days \ {d}] /\ k.at = sync.at
    BY <1>2 DEF Energy!Idle
  <2> HIDE DEF U, k
  <2>3. DailyOK(now, stored, U, k)
    BY <1>1, <2>1, <2>2, RefreshJob
  <2>4. DailyOK(now', stored', totals', sync')
    BY <2>1, <2>3
  <2>5. QED
    BY <2>1, <2>2, <2>4, DailyThen
<1>11. CASE Energy!addLiveReadings
  <2> DEFINE live == Energy!Over(sync.live, Energy!Live(sync.fetched))
             seen == Energy!Over(sync.seen, sync.fetched)
             k == [sync EXCEPT !.at = "fetch", !.cursor = EndOf(sync), !.fetched = Energy!Nothing,
                               !.live = live, !.seen = seen]
  <2>1. sync' = k /\ UNCHANGED <<now, stored, totals>> /\ sync.at = "persist" /\ sync.changed = {}
    BY <1>11 DEF Energy!addLiveReadings, Energy!Kept, Energy!RangeEnd, EndOf
  <2>2. k.at # "answered"
    BY <1>2 DEF Energy!Idle
  <2>3. JobOK(k, stored, now) /\ DOMAIN k = DOMAIN sync
    <3>1. live = Energy!Over(sync.live, Energy!Live(sync.fetched)) /\ seen = Energy!Over(sync.seen, sync.fetched)
      OBVIOUS
    <3> HIDE DEF live, seen
    <3>2. k = [sync EXCEPT !.at = "fetch", !.cursor = EndOf(sync), !.fetched = Energy!Nothing,
                           !.live = live, !.seen = seen]
      OBVIOUS
    <3> HIDE DEF k
    <3>3. QED
      BY <1>2, <2>1, <3>1, <3>2, LiveJob
  <2> HIDE DEF k
  <2>4. QED
    BY <1>2, <2>1, <2>2, <2>3, RunMoves
<1>12. CASE Energy!JobEnds \/ Energy!JobDone
  BY <1>12, RunEnds DEF Energy!JobEnds, Energy!JobDone, Energy!Kept
<1>13. CASE Energy!Answer
  BY <1>13, AnswerJob
<1>14. QED
  BY <1>3, <1>5, <1>6, <1>7, <1>8, <1>9, <1>10, <1>11, <1>12, <1>13 DEF Energy!Job

LEMMA DailyInitOK == Energy!Init => DailyInv
<1> SUFFICES ASSUME Energy!Init PROVE DailyInv
  OBVIOUS
<1>1. /\ now = StartNow /\ sync = Energy!Idle /\ totals = Energy!Nothing
      /\ stored = [s \in 0 .. FloorSlot - 1 |-> Charge]
  BY DEF Energy!Init
<1>2. StartNow \in Nat /\ FloorSlot \in Nat /\ FloorSlot \in Int
  BY EnergyConstants
<1>3. DailyOK(now, stored, totals, sync)
  <2>1. Readings(stored) /\ \A s \in DOMAIN stored : s < FloorSlot
    <3>1. DOMAIN stored = 0 .. FloorSlot - 1
      BY <1>1
    <3>2. IsFiniteSet(DOMAIN stored)
      <4> DEFINE m == FloorSlot - 1
                 zero == 0
      <4>1. m \in Int /\ zero \in Int /\ DOMAIN stored = zero .. m
        BY <1>2, <3>1
      <4> HIDE DEF m, zero
      <4>2. QED
        BY <4>1, FS_Interval
    <3>3. \A s \in DOMAIN stored : s \in Nat /\ s < FloorSlot /\ stored[s] \in Charges
      BY <1>1, <1>2, <3>1 DEF Charges
    <3>4. QED
      BY <1>1, <3>2, <3>3, FiniteHere DEF Readings
  <2>2. StoredOK(stored, now)
    BY <2>1 DEF StoredOK
  <2>3. \A d \in DOMAIN totals : KeptDay(d)
    BY <1>1, NoReadings
  <2>4. StartNow <= MaxNow
    BY EnergyConstants
  <2>5. QED
    BY <1>1, <1>2, <2>2, <2>3, <2>4, JobRests DEF DailyOK
<1>4. Energy!ProfileIsTrue
  BY <1>1 DEF Energy!ProfileIsTrue, Energy!Idle
<1>5. QED
  BY <1>3, <1>4 DEF DailyInv

LEMMA DailyStepOK == DailyInv /\ EnergyInv /\ Energy!Next => DailyInv'
BY DailySupplier, DailyJob DEF Energy!Next

-----------------------------------------------------------------------------
(* The components side by side. *)

SourcesInv == SpotifyInv /\ RadarInv /\ EnergyInv /\ DailyInv

LEMMA SourcesInitOK == SourcesInit => SourcesInv
BY SpotifyInitOK, RadarInitOK, EnergyInitOK, DailyInitOK DEF SourcesInit, SourcesInv

LEMMA SpotifyRests ==
    ASSUME SpotifyInv, UNCHANGED spotifyVars
    PROVE  SpotifyInv'
BY DEF SpotifyInv, spotifyVars

LEMMA RadarRests ==
    ASSUME RadarInv, UNCHANGED radarVars
    PROVE  RadarInv'
BY DEF RadarInv, Kept, radarVars

LEMMA SourcesStepOK ==
    SourcesInv /\ [SourcesNext]_<<part, vars, octopusVars, radarVars, spotifyVars>> => SourcesInv'
<1> SUFFICES ASSUME SourcesInv,
                    [SourcesNext]_<<part, vars, octopusVars, radarVars, spotifyVars>>
             PROVE  SourcesInv'
  OBVIOUS
<1>1. Spotify!Next \/ UNCHANGED spotifyVars
  BY DEF SourcesNext
<1>2. Rain!Next \/ UNCHANGED radarVars
  BY DEF SourcesNext
<1>3. Energy!Next \/ UNCHANGED octopusVars
  BY DEF SourcesNext
<1>4. SpotifyInv'
  BY <1>1, SpotifyStepOK, SpotifyRests DEF SourcesInv
<1>5. RadarInv'
  BY <1>2, RadarStepOK, RadarRests DEF SourcesInv
<1>6. EnergyInv'
  BY <1>3, EnergyStepOK, EnergyRests DEF SourcesInv, octopusVars
<1>7. DailyInv'
  <2>1. CASE Energy!Next
    BY <2>1, DailyStepOK DEF SourcesInv
  <2>2. CASE UNCHANGED octopusVars
    <3>1. UNCHANGED <<now, stored, totals, sync, torn>>
      BY <2>2 DEF octopusVars
    <3>2. DailyOK(now, stored, totals, sync) /\ DailyInv
      BY DEF SourcesInv, DailyInv
    <3>3. DailyOK(now', stored', totals', sync')
      BY <3>1, <3>2
    <3>4. QED
      BY <3>1, <3>2, <3>3, DailyRests
  <2>3. QED
    BY <1>3, <2>1, <2>2
<1>8. QED
  BY <1>4, <1>5, <1>6, <1>7 DEF SourcesInv

\* However callbacks and refreshes of Spotify overtake each other, and whatever way a rain
\* bundle was kept: a device's row and its tokens are of one grant, of a session it began,
\* and a bundle is that of one whole payload of the time asked for.
THEOREM AnswersOfOneOrigin == SourcesSpec => []AnswersAreOfOneOrigin
<1>1. SourcesInv => AnswersAreOfOneOrigin
  BY SpotifyOneGrant, RadarWhole DEF SourcesInv, AnswersAreOfOneOrigin
<1>2. QED
  BY <1>1, SourcesInitOK, SourcesStepOK, PTL DEF SourcesSpec

\* Whatever fails between the calls of a run, and however late a reading is published or
\* corrected: the row of a day is the sum of its readings once they have been summed again,
\* and the profile and the usage of an answer, put together from sums, kept readings and
\* what was just fetched, are those of all readings.
THEOREM FetchedTrue == SourcesSpec => []FetchedIsTrue
<1>1. SourcesInv => FetchedIsTrue
  BY DEF SourcesInv, EnergyInv, DailyInv, FetchedIsTrue
<1>2. QED
  BY <1>1, SourcesInitOK, SourcesStepOK, PTL DEF SourcesSpec
=============================================================================
