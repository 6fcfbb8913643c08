-------------------------- MODULE TelemetryProofs --------------------------
(***************************************************************************)
(* Proofs about the delivery of telemetry, for every number of devices,    *)
(* samples and Worker invocations and every combination of faults.         *)
(***************************************************************************)
EXTENDS Telemetry, FiniteFacts

-----------------------------------------------------------------------------
(* What the operators on batches return.                                   *)

LEMMA ImageFinite ==
    ASSUME NEW f \in Batch, NEW I \in SUBSET Samples
    PROVE  /\ IsFiniteSet({f[i] : i \in I})
           /\ {f[i] : i \in I} \subseteq Nat
<1> DEFINE T == {f[i] : i \in I}
           g == [i \in I |-> f[i]]
<1>1. IsFiniteSet(Samples)
  BY FS_Interval, TelemetryAssumption DEF Samples
<1>2. IsFiniteSet(I)
  BY <1>1, FS_Subset
<1>3. g \in Surjection(I, T)
  BY DEF Surjection
<1>4. IsFiniteSet(T)
  BY <1>2, <1>3, FS_Surjection
<1>5. T \subseteq Nat
  BY DEF Batch
<1>6. QED
  BY <1>4, <1>5

\* The largest of one or two numbers and a finite set is one of them.
LEMMA LargestWith ==
    ASSUME NEW a \in Int, NEW b \in Int, NEW S \in SUBSET Int, IsFiniteSet(S)
    PROVE  \E n \in {a, b} \cup S : \A m \in {a, b} \cup S : n >= m
<1> DEFINE T == {a, b} \cup S
<1>1. IsFiniteSet({a} \cup ({b} \cup S))
  BY FS_Singleton, FS_Union
<1>2. {a} \cup ({b} \cup S) = T
  OBVIOUS
<1>3. IsFiniteSet(T) /\ T # {} /\ T \in SUBSET Int
  BY <1>1, <1>2
<1> HIDE DEF T
<1>4. \E n \in T : \A m \in T : n >= m
  BY <1>3, LargestOf
<1>5. QED
  BY <1>4 DEF T

\* Highest is at least lastSequences and every sequence of the batch, and one
\* of them.
LEMMA HighestFacts ==
    ASSUME NEW seqs \in Batch, NEW last \in Nat
    PROVE  /\ Highest(seqs, last) \in Nat
           /\ Highest(seqs, last) >= last
           /\ \A i \in Held(seqs) : Highest(seqs, last) >= seqs[i]
           /\ Highest(seqs, last) = last \/ \E i \in Held(seqs) : Highest(seqs, last) = seqs[i]
<1> DEFINE S == {seqs[i] : i \in Held(seqs)}
<1>1. IsFiniteSet(S) /\ S \subseteq Nat
  <2>1. Held(seqs) \in SUBSET Samples
    BY DEF Held
  <2>2. QED
    BY <2>1, ImageFinite
<1>2. \A i \in Held(seqs) : seqs[i] \in S
  OBVIOUS
<1> HIDE DEF S
<1>3. PICK n \in {last, last} \cup S : \A m \in {last, last} \cup S : n >= m
  BY <1>1, LargestWith
<1>4. n \in {last} \cup S /\ n >= last /\ \A i \in Held(seqs) : n >= seqs[i]
  BY <1>2, <1>3
<1>5. /\ Highest(seqs, last) \in {last} \cup S
      /\ Highest(seqs, last) >= last
      /\ \A i \in Held(seqs) : Highest(seqs, last) >= seqs[i]
  BY <1>4 DEF Highest, S
<1>6. Highest(seqs, last) = last \/ \E i \in Held(seqs) : Highest(seqs, last) = seqs[i]
  BY <1>5 DEF S
<1>7. QED
  BY <1>1, <1>5, <1>6

LEMMA HighestPlusOneType ==
    ASSUME NEW f \in Batch
    PROVE  /\ HighestPlusOne(f) \in Nat
           /\ \A i \in Held(f) : HighestPlusOne(f) > f[i]
<1> DEFINE S == {f[i] : i \in Held(f)}
<1>1. CASE Held(f) = {}
  BY <1>1 DEF HighestPlusOne
<1>2. CASE Held(f) # {}
  <2>1. Held(f) \in SUBSET Samples
    BY DEF Held
  <2>2. IsFiniteSet(S) /\ S \subseteq Nat
    BY <2>1, ImageFinite
  <2>3. S # {} /\ \A i \in Held(f) : f[i] \in S
    BY <1>2
  <2> HIDE DEF S
  <2>4. S \in SUBSET Int
    BY <2>2
  <2>5. PICK n \in S : \A m \in S : n >= m
    BY <2>2, <2>3, <2>4, LargestOf
  <2>6. PICK k \in Held(f) : n = f[k]
    BY <2>5 DEF S
  <2>7. \A i \in Held(f) : f[i] \in Nat /\ f[k] + 1 > f[i]
    <3>1. \A i \in Held(f) : f[i] \in Nat
      BY <2>2, <2>3
    <3>2. \A i \in Held(f) : f[k] >= f[i]
      BY <2>3, <2>5, <2>6
    <3>3. QED
      BY <2>6, <3>1, <3>2
  <2>8. /\ HighestPlusOne(f) \in {f[i] + 1 : i \in Held(f)}
        /\ \A i \in Held(f) : HighestPlusOne(f) > f[i]
    BY <1>2, <2>7 DEF HighestPlusOne
  <2>9. QED
    BY <2>7, <2>8
<1>3. QED
  BY <1>1, <1>2

\* The candidate before each sample of a renumbered outbox is a number.
LEMMA FloorType ==
    ASSUME NEW f \in Batch, NEW ack \in Nat
    PROVE  /\ Floor(f, ack) \in [0 .. MaxSamples -> Nat]
           /\ Floor(f, ack)[0] = ack + 1
           /\ \A i \in 1 .. MaxSamples :
                 Floor(f, ack)[i] =
                     IF f[i] = 0 THEN Floor(f, ack)[i - 1]
                     ELSE Larger(f[i], Floor(f, ack)[i - 1]) + 1
<1> USE TelemetryAssumption
<1> DEFINE Step(i, c) == IF f[i] = 0 THEN c ELSE Larger(f[i], c) + 1
           Good(g, k) == /\ g[0] = ack + 1
                         /\ \A i \in 1 .. k : g[i] = Step(i, g[i - 1])
           Bad == {k \in 0 .. MaxSamples : ~\E g \in [0 .. k -> Nat] : Good(g, k)}
           F == [i \in 0 .. MaxSamples |->
                   IF i = 0 THEN ack + 1
                   ELSE IF f[i] = 0 THEN Floor(f, ack)[i - 1]
                   ELSE Larger(f[i], Floor(f, ack)[i - 1]) + 1]
<1>1. \A i \in 1 .. MaxSamples, c \in Nat : Step(i, c) \in Nat
  BY DEF Batch, Samples, Larger
<1>2. Bad = {}
  <2> SUFFICES ASSUME Bad # {} PROVE FALSE
    OBVIOUS
  <2>1. Bad \in SUBSET (0 .. MaxSamples)
    OBVIOUS
  <2>2. PICK k \in Bad : \A m \in Bad : k <= m
    BY <2>1, SmallestUpTo
  <2>3. CASE k = 0
    <3>1. Good([i \in 0 .. 0 |-> ack + 1], 0)
      OBVIOUS
    <3>2. [i \in 0 .. 0 |-> ack + 1] \in [0 .. k -> Nat]
      BY <2>3
    <3>3. QED
      BY <2>2, <2>3, <3>1, <3>2
  <2>4. CASE k # 0
    <3>1. k \in 1 .. MaxSamples /\ k - 1 \in 0 .. MaxSamples /\ k - 1 \notin Bad
      BY <2>2, <2>4
    <3>2. PICK g \in [0 .. k - 1 -> Nat] : Good(g, k - 1)
      BY <3>1
    <3> DEFINE h == [i \in 0 .. k |-> IF i = k THEN Step(k, g[k - 1]) ELSE g[i]]
    <3>3. h \in [0 .. k -> Nat]
      <4>1. \A i \in 0 .. k : i # k => g[i] \in Nat
        BY <3>1, <3>2
      <4>2. Step(k, g[k - 1]) \in Nat
        BY <1>1, <3>1, <3>2
      <4> HIDE DEF Step
      <4>3. QED
        BY <4>1, <4>2
    <3>4. Good(h, k)
      <4> HIDE DEF Step
      <4>1. h[0] = ack + 1
        BY <2>4, <3>1, <3>2
      <4>2. \A i \in 1 .. k : h[i] = Step(i, h[i - 1])
        BY <3>1, <3>2, SMTT(20)
      <4>3. QED
        BY <4>1, <4>2
    <3>5. QED
      BY <2>2, <3>3, <3>4
  <2>5. QED
    BY <2>3, <2>4
<1>3. PICK g \in [0 .. MaxSamples -> Nat] : Good(g, MaxSamples)
  <2>1. MaxSamples \in 0 .. MaxSamples
    OBVIOUS
  <2>2. MaxSamples \notin Bad
    BY <1>2
  <2> HIDE DEF Good
  <2>3. QED
    BY <2>1, <2>2
<1>4. g = [i \in 0 .. MaxSamples |->
             IF i = 0 THEN ack + 1
             ELSE IF f[i] = 0 THEN g[i - 1] ELSE Larger(f[i], g[i - 1]) + 1]
  BY <1>3
<1>5. Floor(f, ack) = F
  BY <1>4 DEF Floor
<1> DEFINE Untyped == {i \in 0 .. MaxSamples : Floor(f, ack)[i] \notin Nat}
<1>6. Untyped = {}
  <2> SUFFICES ASSUME Untyped # {} PROVE FALSE
    OBVIOUS
  <2>1. Untyped \in SUBSET (0 .. MaxSamples)
    OBVIOUS
  <2>2. PICK k \in Untyped : \A m \in Untyped : k <= m
    BY <2>1, SmallestUpTo
  <2>3. \A i \in 0 .. MaxSamples : Floor(f, ack)[i] = F[i]
    BY <1>5
  <2>4. CASE k = 0
    BY <2>2, <2>3, <2>4
  <2>5. CASE k # 0
    <3>1. k \in 1 .. MaxSamples /\ Floor(f, ack)[k - 1] \in Nat
      BY <2>2, <2>5
    <3>2. Floor(f, ack)[k] = Step(k, Floor(f, ack)[k - 1])
      BY <2>3, <3>1
    <3>3. QED
      BY <1>1, <2>2, <3>1, <3>2
  <2>6. QED
    BY <2>4, <2>5
<1>7. /\ Floor(f, ack)[0] = ack + 1
      /\ \A i \in 1 .. MaxSamples :
            Floor(f, ack)[i] = IF f[i] = 0 THEN Floor(f, ack)[i - 1]
                               ELSE Larger(f[i], Floor(f, ack)[i - 1]) + 1
  BY <1>5
<1>8. QED
  BY <1>5, <1>6, <1>7

LEMMA RebasedType ==
    ASSUME NEW f \in Batch, NEW ack \in Nat
    PROVE  Rebased(f, ack) \in Batch
<1>1. Floor(f, ack) \in [0 .. MaxSamples -> Nat]
  BY FloorType
<1>2. \A i \in Samples : i - 1 \in 0 .. MaxSamples
  BY TelemetryAssumption DEF Samples
<1>3. QED
  BY <1>1, <1>2 DEF Rebased, Batch, Larger

LEMMA NoneType ==
    /\ None \in Batch
    /\ IdleHold \in [st : {"idle", "drawn", "ready"}, seq : Nat]
    /\ EmptySlot \in [full : BOOLEAN, seqs : Batch]
    /\ IdleExchange \in Exchange
    /\ IdleReceipt \in Receipt
    /\ EmptyDoc \in Document
    /\ IdleHandler \in Invocation
BY TelemetryAssumption DEF None, IdleHold, EmptySlot, IdleExchange, IdleReceipt, EmptyDoc,
   IdleHandler, Batch, Exchange, Receipt, Document, Invocation

LEMMA FrontType ==
    ASSUME NEW f \in Batch, NEW n
    PROVE  Front(f, n) \in Batch
BY DEF Front, Batch

LEMMA AboveType ==
    ASSUME NEW f \in Batch, NEW low
    PROVE  Above(f, low) \in Batch
BY DEF Above, Batch

LEMMA UnackedType ==
    ASSUME NEW f \in Batch, NEW acked
    PROVE  Unacked(f, acked) \in Batch
BY DEF Unacked, Batch

\* Merging a batch into a document keeps every count and the other devices'
\* high-water marks, and raises this device's to cover the batch.
LEMMA MergedFacts ==
    ASSUME NEW r \in Invocation, r.dev \in Devices
    PROVE  /\ MergedDocument(r) \in Document
           /\ \A d \in Devices, i \in Samples :
                 MergedDocument(r).counted[d][i] >= r.doc.counted[d][i]
           /\ \A d \in Devices : MergedDocument(r).last[d] >= r.doc.last[d]
           /\ MergedDocument(r).last[r.dev] = Highest(r.seqs, r.doc.last[r.dev])
<1> DEFINE top == Highest(r.seqs, r.doc.last[r.dev])
           count(i) == IF i \in Fresh(r.seqs, r.doc.last[r.dev])
                       THEN r.doc.counted[r.dev][i] + 1 ELSE r.doc.counted[r.dev][i]
<1>1. /\ r.seqs \in Batch
      /\ r.doc.last \in [Devices -> Nat]
      /\ r.doc.counted \in [Devices -> Batch]
  BY DEF Invocation, Document
<1>2. top \in Nat /\ top >= r.doc.last[r.dev]
  BY <1>1, HighestFacts
<1>3. \A i \in Samples : count(i) \in Nat /\ count(i) >= r.doc.counted[r.dev][i]
  BY <1>1 DEF Batch
<1>4. /\ MergedDocument(r).last = [r.doc.last EXCEPT ![r.dev] = top]
      /\ MergedDocument(r).counted =
            [r.doc.counted EXCEPT ![r.dev] = [i \in Samples |-> count(i)]]
      /\ MergedDocument(r) = [last |-> MergedDocument(r).last,
                              counted |-> MergedDocument(r).counted]
  BY DEF MergedDocument
<1> HIDE DEF top, count
<1>5. MergedDocument(r).last \in [Devices -> Nat]
  BY <1>1, <1>2, <1>4
<1>6. [i \in Samples |-> count(i)] \in Batch
  BY <1>3 DEF Batch
<1>7. MergedDocument(r).counted \in [Devices -> Batch]
  BY <1>1, <1>4, <1>6
<1>8. \A d \in Devices, i \in Samples :
         MergedDocument(r).counted[d][i] >= r.doc.counted[d][i]
  BY <1>1, <1>3, <1>4 DEF Batch
<1>9. \A d \in Devices : MergedDocument(r).last[d] >= r.doc.last[d]
  BY <1>1, <1>2, <1>4
<1>10. MergedDocument(r).last[r.dev] = top
  BY <1>1, <1>4
<1>11. QED
  BY <1>4, <1>5, <1>7, <1>8, <1>9, <1>10 DEF Document, top

-----------------------------------------------------------------------------
\* What the types alone do not say: a sample the serial thread works on has a
\* place, an acknowledgement is a finite set, a running invocation has a device.
Support ==
    /\ \A d \in Devices : hold[d].st # "idle" => persisted[d] < MaxSamples
    /\ \A d \in Devices : IsFiniteSet(receipt[d].acked)
    /\ \A h \in Handlers : IsFiniteSet(handler[h].acked)
    /\ \A h \in Handlers : handler[h].st # "idle" => handler[h].dev \in Devices

TypeInv == TypeOK /\ Support

LEMMA InitType == Init => TypeInv
<1> SUFFICES ASSUME Init PROVE TypeInv
  OBVIOUS
<1>1. 1 \in 1 .. MaxClock /\ 0 \in 0 .. MaxSamples
  BY TelemetryAssumption
<1>2. LegacyLast \in Nat
  BY TelemetryAssumption
<1>3. TypeOK
  BY <1>1, <1>2, NoneType DEF Init, TypeOK
<1>4. IsFiniteSet({})
  BY FS_EmptySet
<1>5. Support
  BY <1>4 DEF Init, Support, IdleHold, IdleReceipt, IdleHandler
<1>6. QED
  BY <1>3, <1>5 DEF TypeInv

LEMMA DeviceType ==
    ASSUME TypeInv, NEW d \in Devices, DeviceStep(d)
    PROVE  TypeInv'
<1> USE TelemetryAssumption DEF TypeInv, TypeOK, Support
<1>1. CASE TickClock(d)
  BY <1>1 DEF TickClock, fileVars, hubVars, clientVars, serverVars
<1>2. CASE SetClockBack(d)
  <2>1. PICK t \in 1 .. clock[d] - 1 : clock' = [clock EXCEPT ![d] = t]
    BY <1>2 DEF SetClockBack
  <2>2. t \in 1 .. MaxClock
    BY <2>1
  <2>3. UNCHANGED <<fileVars, hubVars, hold, persisted, clientVars, serverVars>>
    BY <1>2 DEF SetClockBack
  <2>4. QED
    BY <2>1, <2>2, <2>3 DEF fileVars, hubVars, clientVars, serverVars
<1>3. CASE DrawSequence(d)
  BY <1>3 DEF DrawSequence, Larger, fileVars, hubVars, clientVars, serverVars
<1>4. CASE AdvanceSequence(d)
  BY <1>4 DEF AdvanceSequence, fileVars, clientVars, serverVars
<1>5. CASE SkipSample(d)
  BY <1>5, NoneType DEF SkipSample, fileVars, hubVars, clientVars, serverVars
<1>6. CASE AppendOutbox(d)
  <2>1. persisted[d] + 1 \in Samples /\ persisted[d] + 1 \in 0 .. MaxSamples
    <3>1. hold[d].st # "idle"
      BY <1>6 DEF AppendOutbox
    <3>2. persisted[d] \in 0 .. MaxSamples /\ persisted[d] < MaxSamples
      BY <3>1
    <3>3. QED
      BY <3>2 DEF Samples
  <2> DEFINE Put(f) == [f EXCEPT ![d][persisted[d] + 1] = hold[d].seq]
  <2>2. /\ file' \in [Devices -> Batch] /\ outbox' \in [Devices -> Batch]
        /\ tail' \in [Devices -> {"clean", "partial", "broken"}]
    <3>1. \A f \in [Devices -> Batch] : Put(f) \in [Devices -> Batch]
      BY <2>1 DEF Batch
    <3>2. outbox' = Put(outbox) /\ file' \in {file, Put(file)}
      BY <1>6 DEF AppendOutbox
    <3>3. tail' = tail \/ tail' = [tail EXCEPT ![d] = "broken"]
      BY <1>6 DEF AppendOutbox
    <3>4. tail' \in [Devices -> {"clean", "partial", "broken"}]
      BY <3>3
    <3> HIDE DEF Put
    <3>5. QED
      BY <3>1, <3>2, <3>4
  <2>3. /\ persisted' = [persisted EXCEPT ![d] = persisted[d] + 1]
        /\ hold' = [hold EXCEPT ![d] = IdleHold]
        /\ UNCHANGED <<clock, ackFile, whole, nextSeq, ackSeq, clientVars, serverVars>>
    BY <1>6 DEF AppendOutbox
  <2>4. QED
    BY <2>1, <2>2, <2>3, NoneType DEF IdleHold, clientVars, serverVars
<1>7. CASE TearAppend(d)
  <2>1. whole' \in [Devices -> BOOLEAN]
    <3>1. whole' = [whole EXCEPT ![d] = FALSE]
      BY <1>7 DEF TearAppend
    <3>2. QED
      BY <3>1
  <2>2. tail' = [tail EXCEPT ![d] = "partial"] /\ hold' = [hold EXCEPT ![d] = IdleHold]
    BY <1>7 DEF TearAppend
  <2>3. UNCHANGED <<clock, file, ackFile, hubVars, persisted, clientVars, serverVars>>
    BY <1>7 DEF TearAppend
  <2>4. hold' \in [Devices -> [st : {"idle", "drawn", "ready"}, seq : Nat]]
    BY <2>2, NoneType
  <2>5. tail' \in [Devices -> {"clean", "partial", "broken"}]
    BY <2>2
  <2>6. QED
    BY <2>1, <2>2, <2>3, <2>4, <2>5 DEF hubVars, clientVars, serverVars, IdleHold
<1>8. CASE Restart(d)
  <2>1. Above(file[d], ackFile[d]) \in Batch /\ HighestPlusOne(file[d]) \in Nat
    BY AboveType, HighestPlusOneType
  <2>2. /\ outbox' \in [Devices -> Batch] /\ file' \in [Devices -> Batch]
        /\ tail' \in [Devices -> {"clean", "partial", "broken"}]
    <3>1. outbox' = [outbox EXCEPT ![d] = Above(file[d], ackFile[d])]
      BY <1>8 DEF Restart
    <3>2. file' = file \/ file' = [file EXCEPT ![d] = Above(file[d], ackFile[d])]
      BY <1>8 DEF Restart
    <3>3. tail' = tail \/ tail' = [tail EXCEPT ![d] = "clean"]
      BY <1>8 DEF Restart
    <3>4. outbox' \in [Devices -> Batch]
      BY <2>1, <3>1
    <3>5. file' \in [Devices -> Batch]
      BY <2>1, <3>2
    <3>6. tail' \in [Devices -> {"clean", "partial", "broken"}]
      BY <3>3
    <3>7. QED
      BY <3>4, <3>5, <3>6
  <2>3. nextSeq' \in [Devices -> Nat] /\ ackSeq' \in [Devices -> Nat]
    BY <1>8, <2>1 DEF Restart, Larger
  <2>4. /\ hold' \in [Devices -> [st : {"idle", "drawn", "ready"}, seq : Nat]]
        /\ slot' \in [Devices -> [full : BOOLEAN, seqs : Batch]]
        /\ exchange' \in [Devices -> Exchange]
        /\ receipt' \in [Devices -> Receipt]
    BY <1>8, NoneType DEF Restart
  <2>5. IsFiniteSet(IdleReceipt.acked)
    BY FS_EmptySet DEF IdleReceipt
  <2>6. /\ hold' = [hold EXCEPT ![d] = IdleHold]
        /\ receipt' = [receipt EXCEPT ![d] = IdleReceipt]
        /\ UNCHANGED <<clock, ackFile, whole, persisted, serverVars>>
    BY <1>8 DEF Restart
  <2>7. Support'
    BY <2>5, <2>6 DEF serverVars, IdleHold
  <2>8. QED
    BY <2>2, <2>3, <2>4, <2>6, <2>7 DEF serverVars
<1>9. QED
  BY <1>1, <1>2, <1>3, <1>4, <1>5, <1>6, <1>7, <1>8 DEF DeviceStep

LEMMA InvokeType ==
    ASSUME TypeInv, NEW h \in Handlers, NEW d \in Devices, NEW seqs \in Batch,
           Invoke(h, d, seqs)
    PROVE  /\ handler' \in [Handlers -> Invocation]
           /\ \A k \in Handlers : IsFiniteSet(handler'[k].acked)
           /\ \A k \in Handlers : handler'[k].st # "idle" => handler'[k].dev \in Devices
<1> DEFINE r == [IdleHandler EXCEPT !.st = "read", !.dev = d, !.seqs = seqs]
<1>1. r \in Invocation
  BY NoneType DEF Invocation
<1>2. r.dev = d /\ r.acked = {}
  BY DEF IdleHandler
<1>3. handler' = [handler EXCEPT ![h] = r]
  BY DEF Invoke
<1>4. IsFiniteSet({})
  BY FS_EmptySet
<1> HIDE DEF r
<1>5. QED
  BY <1>1, <1>2, <1>3, <1>4 DEF TypeInv, TypeOK, Support

\* What RebaseOutbox computes from a receipt that was taken.
LEMMA AckType ==
    ASSUME TypeInv, NEW d \in Devices
    PROVE  LET S == {ackSeq[d], receipt[d].next - 1} \cup receipt[d].acked
               top == CHOOSE n \in S : \A m \in S : n >= m
           IN  top \in Nat /\ top \in S /\ \A m \in S : top >= m
<1> DEFINE S == {ackSeq[d], receipt[d].next - 1} \cup receipt[d].acked
<1>1. /\ ackSeq[d] \in Nat /\ receipt[d].next - 1 \in Int
      /\ receipt[d].acked \in SUBSET Int /\ IsFiniteSet(receipt[d].acked)
  BY DEF TypeInv, TypeOK, Support, Receipt
<1>2. S \in SUBSET Int /\ ackSeq[d] \in S
  BY <1>1
<1>3. \E n \in S : \A m \in S : n >= m
  <2> DEFINE a == ackSeq[d]
             b == receipt[d].next - 1
             A == receipt[d].acked
  <2>1. a \in Int /\ b \in Int /\ A \in SUBSET Int /\ IsFiniteSet(A)
    BY <1>1
  <2> HIDE DEF a, b, A
  <2>2. \E n \in {a, b} \cup A : \A m \in {a, b} \cup A : n >= m
    BY <2>1, LargestWith
  <2>3. QED
    BY <2>2 DEF a, b, A
<1> HIDE DEF S
<1> DEFINE top == CHOOSE n \in S : \A m \in S : n >= m
<1>4. top \in S /\ \A m \in S : top >= m
  BY <1>3
<1> HIDE DEF top
<1>5. top \in Int /\ top >= ackSeq[d]
  BY <1>2, <1>4
<1>6. top \in Nat
  BY <1>1, <1>5
<1>7. QED
  BY <1>4, <1>6 DEF top, S

LEMMA RebaseOutboxType ==
    ASSUME TypeInv, NEW d \in Devices, RebaseOutbox(d)
    PROVE  TypeInv'
<1> USE DEF TypeInv, TypeOK, Support
<1> DEFINE r == receipt[d]
           ack == CHOOSE n \in {ackSeq[d], r.next - 1} \cup r.acked :
                      \A m \in {ackSeq[d], r.next - 1} \cup r.acked : n >= m
           kept == Unacked(outbox[d], r.acked)
           new == Rebased(kept, ack)
           floor == Floor(kept, ack)[MaxSamples]
           adopt == [r EXCEPT !.st = "ack", !.ack = ack, !.seqs = new,
                              !.rebased = (new # kept), !.floor = floor]
<1>1. r \in Receipt /\ IsFiniteSet(r.acked)
  OBVIOUS
<1>2. ack \in Nat
  BY AckType
<1>3. kept \in Batch
  BY UnackedType
<1> HIDE DEF ack, kept
<1>4. new \in Batch
  BY <1>2, <1>3, RebasedType
<1>5. floor \in Nat
  <2>1. Floor(kept, ack) \in [0 .. MaxSamples -> Nat]
    BY <1>2, <1>3, FloorType
  <2>2. MaxSamples \in 0 .. MaxSamples
    BY TelemetryAssumption
  <2>3. QED
    BY <2>1, <2>2
<1>6. /\ file' = file \/ file' = [file EXCEPT ![d] = new]
      /\ tail' = tail \/ tail' = [tail EXCEPT ![d] = "clean"]
      /\ \/ receipt' = [receipt EXCEPT ![d] = adopt]
         \/ receipt' = [receipt EXCEPT ![d] = IdleReceipt]
  BY DEF RebaseOutbox, ack, kept
<1>7. UNCHANGED <<clock, ackFile, whole, hubVars, hold, persisted, slot, exchange, serverVars>>
  BY DEF RebaseOutbox
<1> HIDE DEF new, floor
<1>8. adopt \in Receipt /\ adopt.acked = r.acked
  BY <1>1, <1>2, <1>4, <1>5 DEF Receipt
<1> HIDE DEF adopt
<1>9. IsFiniteSet(IdleReceipt.acked)
  BY FS_EmptySet DEF IdleReceipt
<1>10. file' \in [Devices -> Batch]
  BY <1>4, <1>6
<1>11. tail' \in [Devices -> {"clean", "partial", "broken"}]
  BY <1>6
<1>12. receipt' \in [Devices -> Receipt]
  <2>1. CASE receipt' = [receipt EXCEPT ![d] = adopt]
    BY <1>8, <2>1
  <2>2. CASE receipt' = [receipt EXCEPT ![d] = IdleReceipt]
    BY <2>2, NoneType
  <2>3. QED
    BY <1>6, <2>1, <2>2
<1>13. \A c \in Devices : IsFiniteSet(receipt'[c].acked)
  BY <1>1, <1>6, <1>8, <1>9
<1>14. QED
  BY <1>7, <1>10, <1>11, <1>12, <1>13 DEF hubVars, serverVars

\* The record updates of the client's steps stay within their types.
LEMMA ResendUpdate ==
    ASSUME NEW e \in Exchange, NEW h \in Handlers
    PROVE  /\ [e EXCEPT !.st = "waiting", !.by = h, !.attempt = 2] \in Exchange
           /\ e.seqs \in Batch
BY DEF Exchange

LEMMA QuietUpdate ==
    ASSUME NEW e \in Exchange
    PROVE  /\ [e EXCEPT !.current = FALSE] \in Exchange
           /\ [e EXCEPT !.st = "resend"] \in Exchange
BY DEF Exchange

LEMMA ReceiptUpdates ==
    ASSUME NEW r \in Receipt
    PROVE  /\ [r EXCEPT !.st = "adopt"] \in Receipt
           /\ [r EXCEPT !.st = "adopt"].acked = r.acked
           /\ [r EXCEPT !.st = "adopt", !.saved = FALSE] \in Receipt
           /\ [r EXCEPT !.st = "adopt", !.saved = FALSE].acked = r.acked
           /\ r.ack \in Nat
BY DEF Receipt

LEMMA TakenType ==
    ASSUME NEW r \in Invocation
    PROVE  /\ [IdleReceipt EXCEPT !.st = "taken", !.acked = r.acked, !.next = r.next]
                 \in Receipt
           /\ [IdleReceipt EXCEPT !.st = "taken", !.acked = r.acked, !.next = r.next].acked
                 = r.acked
<1>1. r.acked \in SUBSET Nat /\ r.next \in Nat
  BY DEF Invocation
<1>2. QED
  BY <1>1, NoneType DEF Receipt, IdleReceipt

LEMMA ClientType ==
    ASSUME TypeInv, NEW d \in Devices, ClientStep(d)
    PROVE  TypeInv'
<1> USE DEF TypeInv, TypeOK, Support
<1>1. CASE QueueTelemetry(d)
  <2>1. Front(outbox[d], BatchLimit) \in Batch
    BY FrontType
  <2>2. slot' \in [Devices -> [full : BOOLEAN, seqs : Batch]]
    BY <1>1, <2>1 DEF QueueTelemetry
  <2>3. exchange' \in [Devices -> Exchange]
    <3>1. [exchange[d] EXCEPT !.current = FALSE] \in Exchange
      BY QuietUpdate
    <3>2. exchange' = [exchange EXCEPT ![d] = [exchange[d] EXCEPT !.current = FALSE]]
      BY <1>1 DEF QueueTelemetry
    <3>3. QED
      BY <3>1, <3>2
  <2>4. QED
    BY <1>1, <2>2, <2>3 DEF QueueTelemetry, fileVars, hubVars, serverVars
<1>2. CASE StartExchange(d)
  <2>1. PICK h \in Handlers :
          /\ Invoke(h, d, slot[d].seqs)
          /\ exchange' = [exchange EXCEPT ![d] =
                 [st |-> "waiting", by |-> h, seqs |-> slot[d].seqs,
                  current |-> TRUE, attempt |-> 1]]
    BY <1>2 DEF StartExchange
  <2>2. slot[d].seqs \in Batch
    OBVIOUS
  <2>3. exchange' \in [Devices -> Exchange]
    BY <2>1, <2>2 DEF Exchange
  <2>4. /\ handler' \in [Handlers -> Invocation]
        /\ \A k \in Handlers : IsFiniteSet(handler'[k].acked)
        /\ \A k \in Handlers : handler'[k].st # "idle" => handler'[k].dev \in Devices
    BY <2>1, <2>2, InvokeType
  <2>5. QED
    BY <1>2, <2>3, <2>4 DEF StartExchange, fileVars, hubVars
<1>3. CASE TimeOut(d)
  <2>1. exchange' \in [Devices -> Exchange]
    <3>1. [exchange[d] EXCEPT !.st = "resend"] \in Exchange
      BY QuietUpdate
    <3>2. \/ exchange' = [exchange EXCEPT ![d] = [exchange[d] EXCEPT !.st = "resend"]]
          \/ exchange' = [exchange EXCEPT ![d] = IdleExchange]
      BY <1>3 DEF TimeOut
    <3>3. CASE exchange' = [exchange EXCEPT ![d] = [exchange[d] EXCEPT !.st = "resend"]]
      BY <3>1, <3>3
    <3>4. CASE exchange' = [exchange EXCEPT ![d] = IdleExchange]
      BY <3>4, NoneType
    <3>5. QED
      BY <3>2, <3>3, <3>4
  <2>2. QED
    BY <1>3, <2>1 DEF TimeOut, fileVars, hubVars, serverVars
<1>4. CASE Resend(d)
  <2>1. PICK h \in Handlers :
          /\ Invoke(h, d, exchange[d].seqs)
          /\ exchange' = [exchange EXCEPT ![d].st = "waiting", ![d].by = h,
                                          ![d].attempt = 2]
    BY <1>4 DEF Resend
  <2>2. exchange[d].seqs \in Batch
    BY <2>1, ResendUpdate
  <2>3. exchange' \in [Devices -> Exchange]
    <3> DEFINE again == [exchange[d] EXCEPT !.st = "waiting", !.by = h, !.attempt = 2]
    <3>1. again \in Exchange
      BY ResendUpdate
    <3>2. exchange' = [exchange EXCEPT ![d] = again]
      BY <2>1
    <3> HIDE DEF again
    <3>3. QED
      BY <3>1, <3>2
  <2>4. /\ handler' \in [Handlers -> Invocation]
        /\ \A k \in Handlers : IsFiniteSet(handler'[k].acked)
        /\ \A k \in Handlers : handler'[k].st # "idle" => handler'[k].dev \in Devices
    BY <2>1, <2>2, InvokeType
  <2>5. QED
    BY <1>4, <2>3, <2>4 DEF Resend, fileVars, hubVars
<1>5. ASSUME NEW h \in Handlers, TakeReceipt(d, h) PROVE TypeInv'
  <2> DEFINE taken == [IdleReceipt EXCEPT !.st = "taken", !.acked = handler[h].acked,
                                          !.next = handler[h].next]
  <2>1. taken \in Receipt /\ IsFiniteSet(taken.acked)
    <3>1. handler[h] \in Invocation /\ IsFiniteSet(handler[h].acked)
      OBVIOUS
    <3>2. QED
      BY <3>1, TakenType
  <2>2. /\ exchange' = [exchange EXCEPT ![d] = IdleExchange]
        /\ handler' = [handler EXCEPT ![h] = IdleHandler]
        /\ slot' = slot \/ slot' = [slot EXCEPT ![d] = EmptySlot]
        /\ receipt' = receipt \/ receipt' = [receipt EXCEPT ![d] = taken]
        /\ UNCHANGED <<clock, fileVars, hubVars, hold, persisted, doc, heartbeat>>
    BY <1>5 DEF TakeReceipt
  <2> HIDE DEF taken
  <2>3. IsFiniteSet(IdleHandler.acked) /\ IdleHandler.st = "idle"
    BY FS_EmptySet DEF IdleHandler
  <2>4. /\ handler' \in [Handlers -> Invocation]
        /\ \A k \in Handlers : IsFiniteSet(handler'[k].acked)
        /\ \A k \in Handlers : handler'[k].st # "idle" => handler'[k].dev \in Devices
    BY <2>2, <2>3, NoneType
  <2>5. receipt' \in [Devices -> Receipt] /\ \A c \in Devices : IsFiniteSet(receipt'[c].acked)
    <3>1. CASE receipt' = receipt
      BY <3>1
    <3>2. CASE receipt' = [receipt EXCEPT ![d] = taken]
      BY <2>1, <3>2
    <3>3. QED
      BY <2>2, <3>1, <3>2
  <2>6. exchange' \in [Devices -> Exchange] /\ slot' \in [Devices -> [full : BOOLEAN, seqs : Batch]]
    <3>1. exchange' \in [Devices -> Exchange]
      BY <2>2, NoneType
    <3>2. slot' \in [Devices -> [full : BOOLEAN, seqs : Batch]]
      BY <2>2, NoneType
    <3>3. QED
      BY <3>1, <3>2
  <2>7. QED
    BY <2>2, <2>4, <2>5, <2>6 DEF fileVars, hubVars
<1>6. CASE RebaseOutbox(d)
  BY <1>6, RebaseOutboxType
<1>7. CASE PersistAck(d)
  <2>1. /\ receipt' \in [Devices -> Receipt]
        /\ \A c \in Devices : IsFiniteSet(receipt'[c].acked)
    <3> DEFINE ok == [receipt[d] EXCEPT !.st = "adopt"]
               failed == [receipt[d] EXCEPT !.st = "adopt", !.saved = FALSE]
    <3>1. /\ ok \in Receipt /\ ok.acked = receipt[d].acked
          /\ failed \in Receipt /\ failed.acked = receipt[d].acked
      BY ReceiptUpdates
    <3>2. \/ receipt' = [receipt EXCEPT ![d] = ok]
          \/ receipt' = [receipt EXCEPT ![d] = failed]
      BY <1>7 DEF PersistAck
    <3> HIDE DEF ok, failed
    <3>3. CASE receipt' = [receipt EXCEPT ![d] = ok]
      BY <3>1, <3>3
    <3>4. CASE receipt' = [receipt EXCEPT ![d] = failed]
      BY <3>1, <3>4
    <3>5. QED
      BY <3>2, <3>3, <3>4
  <2>2. ackFile' \in [Devices -> Nat]
    <3>1. receipt[d].ack \in Nat
      BY ReceiptUpdates
    <3>2. QED
      BY <1>7, <3>1 DEF PersistAck
  <2>3. whole' \in [Devices -> BOOLEAN]
    <3>1. whole' = whole \/ whole' = [whole EXCEPT ![d] = FALSE]
      BY <1>7 DEF PersistAck
    <3>2. QED
      BY <3>1
  <2>4. UNCHANGED <<clock, file, tail, hubVars, hold, persisted, slot, exchange, serverVars>>
    BY <1>7 DEF PersistAck
  <2>5. QED
    BY <2>1, <2>2, <2>3, <2>4 DEF hubVars, serverVars
<1>8. CASE AdoptReceipt(d)
  <2>1. receipt[d] \in Receipt
    OBVIOUS
  <2>2. /\ outbox' = [outbox EXCEPT ![d] = receipt[d].seqs]
        /\ file' = file \/ file' = [file EXCEPT ![d] = receipt[d].seqs]
        /\ tail' = tail \/ tail' = [tail EXCEPT ![d] = "clean"]
        /\ ackSeq' = [ackSeq EXCEPT ![d] = Larger(ackSeq[d], receipt[d].ack)]
        /\ nextSeq' = [nextSeq EXCEPT ![d] = Larger(nextSeq[d], receipt[d].floor)]
        /\ receipt' = [receipt EXCEPT ![d] = IdleReceipt]
        /\ UNCHANGED <<clock, ackFile, whole, hold, persisted, slot, exchange, serverVars>>
    BY <1>8 DEF AdoptReceipt
  <2>3. receipt[d].seqs \in Batch /\ receipt[d].ack \in Nat /\ receipt[d].floor \in Nat
    BY <2>1 DEF Receipt
  <2>4. outbox' \in [Devices -> Batch] /\ file' \in [Devices -> Batch]
    BY <2>2, <2>3
  <2>5. tail' \in [Devices -> {"clean", "partial", "broken"}]
    BY <2>2
  <2>6. ackSeq' \in [Devices -> Nat] /\ nextSeq' \in [Devices -> Nat]
    BY <2>2, <2>3 DEF Larger
  <2>7. receipt' \in [Devices -> Receipt] /\ \A c \in Devices : IsFiniteSet(receipt'[c].acked)
    BY <2>2, NoneType, FS_EmptySet DEF IdleReceipt
  <2>8. QED
    BY <2>2, <2>4, <2>5, <2>6, <2>7 DEF serverVars
<1>9. QED
  BY <1>1, <1>2, <1>3, <1>4, <1>5, <1>6, <1>7, <1>8 DEF ClientStep

\* The record updates of the Worker's steps stay within their types.
LEMMA InvocationUpdates ==
    ASSUME NEW r \in Invocation, NEW d \in Document, NEW n \in Nat
    PROVE  /\ [r EXCEPT !.st = "beat", !.last = n] \in Invocation
           /\ [r EXCEPT !.st = "put", !.doc = d] \in Invocation
           /\ [r EXCEPT !.st = "beat", !.doc = d, !.last = n] \in Invocation
           /\ \A s \in {"beat", "put", "read"} :
                 /\ [r EXCEPT !.st = s, !.last = n].acked = r.acked
                 /\ [r EXCEPT !.st = s, !.last = n].dev = r.dev
BY DEF Invocation

LEMMA RetryUpdate ==
    ASSUME NEW r \in Invocation, MayRetry(r.tries)
    PROVE  [r EXCEPT !.st = "read", !.doc = EmptyDoc, !.tries = r.tries + 1] \in Invocation
<1>1. r.tries + 1 \in 0 .. MaxCasAttempts - 1
  BY TelemetryAssumption DEF Invocation, MayRetry
<1>2. QED
  BY <1>1, NoneType DEF Invocation

LEMMA AckedType ==
    ASSUME NEW seqs \in Batch, NEW low \in Nat
    PROVE  LET acked == {seqs[i] : i \in {j \in Held(seqs) : seqs[j] <= low}}
           IN  IsFiniteSet(acked) /\ acked \in SUBSET Nat /\ \A n \in acked : n <= low
<1> DEFINE I == {j \in Held(seqs) : seqs[j] <= low}
           acked == {seqs[i] : i \in I}
<1>1. I \in SUBSET Samples
  BY DEF Held
<1>2. IsFiniteSet(acked) /\ acked \subseteq Nat
  <2> HIDE DEF I
  <2>1. QED
    BY <1>1, ImageFinite
<1>3. \A n \in acked : n <= low
  OBVIOUS
<1>4. QED
  BY <1>2, <1>3

\* A Worker step replaces the invocation h, the document and the heartbeat by
\* values of their types.
LEMMA OneInvocation ==
    ASSUME TypeInv, NEW h \in Handlers, NEW r \in Invocation, IsFiniteSet(r.acked),
           r.st # "idle" => r.dev \in Devices,
           handler' = [handler EXCEPT ![h] = r],
           doc' \in Document, heartbeat' \in [Devices -> Nat],
           UNCHANGED <<clock, fileVars, hubVars, hold, persisted, clientVars>>
    PROVE  TypeInv'
<1> USE DEF TypeInv, TypeOK, Support
<1>1. /\ handler' \in [Handlers -> Invocation]
      /\ \A k \in Handlers : IsFiniteSet(handler'[k].acked)
      /\ \A k \in Handlers : handler'[k].st # "idle" => handler'[k].dev \in Devices
  OBVIOUS
<1>2. QED
  BY <1>1 DEF fileVars, hubVars, clientVars

LEMMA WorkerType ==
    ASSUME TypeInv, NEW h \in Handlers, WorkerStep(h)
    PROVE  TypeInv'
<1> DEFINE r == handler[h]
<1>1. /\ r \in Invocation /\ IsFiniteSet(r.acked)
      /\ r.st # "idle" => r.dev \in Devices
      /\ doc \in Document /\ heartbeat \in [Devices -> Nat]
  BY DEF TypeInv, TypeOK, Support
<1>2. /\ IdleHandler \in Invocation /\ IsFiniteSet(IdleHandler.acked)
      /\ IdleHandler.st = "idle" /\ EmptyDoc \in Document
  BY NoneType, FS_EmptySet DEF IdleHandler
<1>3. CASE ReadDocument(h)
  <2> DEFINE last == doc.last[r.dev]
             beat == [r EXCEPT !.st = "beat", !.last = last]
             put == [r EXCEPT !.st = "put", !.doc = doc]
  <2>1. r.dev \in Devices
    BY <1>1, <1>3 DEF ReadDocument
  <2>2. last \in Nat
    BY <1>1, <2>1 DEF Document
  <2>3. /\ beat \in Invocation /\ beat.acked = r.acked /\ beat.dev = r.dev
        /\ put \in Invocation /\ put.acked = r.acked /\ put.dev = r.dev
    <3>1. beat \in Invocation /\ put \in Invocation
      BY <1>1, <2>2, InvocationUpdates
    <3>2. r \in Invocation
      BY <1>1
    <3>3. QED
      BY <3>1, <3>2 DEF Invocation
  <2>4. handler' = [handler EXCEPT ![h] = beat] \/ handler' = [handler EXCEPT ![h] = put]
    BY <1>3 DEF ReadDocument
  <2>5. UNCHANGED <<clock, fileVars, hubVars, hold, persisted, clientVars, doc, heartbeat>>
    BY <1>3 DEF ReadDocument
  <2> HIDE DEF beat, put, r
  <2>6. CASE handler' = [handler EXCEPT ![h] = beat]
    BY <1>1, <2>1, <2>3, <2>5, <2>6, OneInvocation
  <2>7. CASE handler' = [handler EXCEPT ![h] = put]
    BY <1>1, <2>1, <2>3, <2>5, <2>7, OneInvocation
  <2>8. QED
    BY <2>4, <2>6, <2>7
<1>4. CASE PutDocument(h)
  <2> DEFINE top == Highest(r.seqs, r.doc.last[r.dev])
             beat == [r EXCEPT !.st = "beat", !.doc = EmptyDoc, !.last = top]
             again == [r EXCEPT !.st = "read", !.doc = EmptyDoc, !.tries = r.tries + 1]
  <2>1. r.dev \in Devices
    BY <1>1, <1>4 DEF PutDocument
  <2>2. UNCHANGED <<clock, fileVars, hubVars, hold, persisted, clientVars, heartbeat>>
    BY <1>4 DEF PutDocument
  <2>3. CASE EtagMatches(r)
    <3>1. doc' = MergedDocument(r) /\ handler' = [handler EXCEPT ![h] = beat]
      BY <1>4, <2>3 DEF PutDocument
    <3>2. doc' \in Document
      BY <1>1, <2>1, <3>1, MergedFacts
    <3>3. top \in Nat
      <4>1. r.seqs \in Batch /\ r.doc.last[r.dev] \in Nat
        BY <1>1, <2>1 DEF Invocation, Document
      <4>2. QED
        BY <4>1, HighestFacts
    <3>4. beat \in Invocation
      BY <1>1, <1>2, <3>3, InvocationUpdates
    <3>5. beat.acked = r.acked /\ beat.dev = r.dev
      <4>1. r \in Invocation
        BY <1>1
      <4>2. QED
        BY <4>1 DEF Invocation
    <3> HIDE DEF beat, r
    <3>6. QED
      BY <1>1, <2>1, <2>2, <3>1, <3>2, <3>4, <3>5, OneInvocation
  <2>4. CASE ~EtagMatches(r) /\ MayRetry(r.tries)
    <3>1. doc' = doc /\ handler' = [handler EXCEPT ![h] = again]
      BY <1>4, <2>4 DEF PutDocument
    <3>2. again \in Invocation
      BY <1>1, <2>4, RetryUpdate
    <3>3. again.acked = r.acked /\ again.dev = r.dev
      <4>1. r \in Invocation
        BY <1>1
      <4>2. QED
        BY <4>1 DEF Invocation
    <3> HIDE DEF again, r
    <3>4. QED
      BY <1>1, <2>1, <2>2, <3>1, <3>2, <3>3, OneInvocation
  <2>5. CASE ~EtagMatches(r) /\ ~MayRetry(r.tries)
    <3>1. doc' = doc /\ handler' = [handler EXCEPT ![h] = IdleHandler]
      BY <1>4, <2>5 DEF PutDocument
    <3>2. QED
      BY <1>1, <1>2, <2>2, <3>1, OneInvocation
  <2>6. QED
    BY <2>3, <2>4, <2>5
<1>5. CASE UpsertHeartbeat(h)
  <2> DEFINE last == Larger(heartbeat[r.dev], r.last)
             acked == {r.seqs[i] : i \in {j \in Held(r.seqs) : r.seqs[j] <= r.last}}
             reply == [IdleHandler EXCEPT !.st = "reply", !.dev = r.dev, !.seqs = r.seqs,
                                          !.next = last + 1, !.acked = acked]
  <2>1. r.dev \in Devices
    BY <1>1, <1>5 DEF UpsertHeartbeat
  <2>2. last \in Nat /\ last + 1 \in Nat /\ r.last \in Nat /\ r.seqs \in Batch
    BY <1>1, <2>1 DEF Larger, Invocation
  <2>3. /\ handler' = [handler EXCEPT ![h] = reply]
        /\ heartbeat' = [heartbeat EXCEPT ![r.dev] = last]
        /\ UNCHANGED <<clock, fileVars, hubVars, hold, persisted, clientVars, doc>>
    BY <1>5 DEF UpsertHeartbeat
  <2>4. IsFiniteSet(acked) /\ acked \in SUBSET Nat
    BY <2>2, AckedType
  <2> HIDE DEF acked, last
  <2>5. reply \in Invocation /\ reply.dev = r.dev /\ reply.acked = acked
    BY <1>2, <2>1, <2>2, <2>4 DEF Invocation
  <2>6. heartbeat' \in [Devices -> Nat] /\ doc' \in Document
    BY <1>1, <2>2, <2>3
  <2> HIDE DEF reply, r
  <2>7. QED
    BY <2>1, <2>3, <2>4, <2>5, <2>6, OneInvocation
<1>6. CASE EndInvocation(h)
  <2>1. /\ handler' = [handler EXCEPT ![h] = IdleHandler]
        /\ UNCHANGED <<clock, fileVars, hubVars, hold, persisted, clientVars, doc, heartbeat>>
    BY <1>6 DEF EndInvocation
  <2>2. QED
    BY <1>1, <1>2, <2>1, OneInvocation
<1>7. QED
  BY <1>3, <1>4, <1>5, <1>6 DEF WorkerStep

\* Every variable keeps its type: files and deque hold sequence numbers, an
\* invocation makes at most MAX_CAS_ATTEMPTS attempts at the document, and the
\* serial thread never numbers a sample beyond those it may persist.
\* No step of a device, of its client or of the Worker leaves the types.
LEMMA TypeNext == TypeInv /\ [Next]_vars => TypeInv'
<1> SUFFICES ASSUME TypeInv, [Next]_vars PROVE TypeInv'
  OBVIOUS
<1>1. CASE UNCHANGED vars
  BY <1>1 DEF TypeInv, TypeOK, Support, vars, fileVars, hubVars, clientVars, serverVars
<1>2. CASE \E d \in Devices : DeviceStep(d) \/ ClientStep(d)
  BY <1>2, DeviceType, ClientType
<1>3. CASE \E h \in Handlers : WorkerStep(h)
  BY <1>3, WorkerType
<1>4. QED
  BY <1>1, <1>2, <1>3 DEF Next

LEMMA TypeInvariant == Spec => []TypeInv
  BY InitType, TypeNext, PTL DEF Spec

\* The variables of the delivery keep their types, for any devices, samples and bounds.
THEOREM TypeCorrect == Spec => []TypeOK
<1>1. TypeInv => TypeOK
  BY DEF TypeInv
<1>2. QED
  BY <1>1, TypeInvariant, PTL

-----------------------------------------------------------------------------
(* Compare-and-set: the document only grows, and what an invocation has     *)
(* acknowledged stays covered by its high-water mark.                       *)

\* The document only grows, whichever invocation writes it.
DocumentGrows ==
    /\ \A d \in Devices : doc'.last[d] >= doc.last[d]
    /\ \A d \in Devices, i \in Samples : doc'.counted[d][i] >= doc.counted[d][i]

LEMMA GrowthByStep ==
    ASSUME TypeInv, [Next]_vars
    PROVE  DocumentGrows
<1>1. /\ doc.last \in [Devices -> Nat]
      /\ \A d \in Devices, i \in Samples : doc.counted[d][i] \in Nat
  BY DEF TypeInv, TypeOK, Document, Batch
<1>2. CASE doc' = doc
  BY <1>1, <1>2 DEF DocumentGrows
<1>3. ASSUME NEW h \in Handlers, PutDocument(h), doc' # doc PROVE DocumentGrows
  <2>1. /\ handler[h] \in Invocation /\ handler[h].dev \in Devices
        /\ handler[h].doc = doc /\ doc' = MergedDocument(handler[h])
    BY <1>3 DEF PutDocument, EtagMatches, TypeInv, TypeOK, Support
  <2>2. QED
    BY <2>1, MergedFacts DEF DocumentGrows
<1>4. doc' = doc \/ \E h \in Handlers : PutDocument(h)
  <2>1. CASE UNCHANGED vars
    BY <2>1 DEF vars, serverVars
  <2>2. ASSUME NEW d \in Devices, DeviceStep(d) PROVE doc' = doc
    BY <2>2 DEF DeviceStep, TickClock, SetClockBack, DrawSequence, AdvanceSequence,
         SkipSample, AppendOutbox, TearAppend, Restart, serverVars
  <2>3. ASSUME NEW d \in Devices, ClientStep(d) PROVE doc' = doc
    BY <2>3 DEF ClientStep, QueueTelemetry, StartExchange, TimeOut, Resend, TakeReceipt,
         RebaseOutbox, PersistAck, AdoptReceipt, serverVars
  <2>4. ASSUME NEW h \in Handlers, WorkerStep(h) PROVE doc' = doc \/ PutDocument(h)
    BY <2>4 DEF WorkerStep, ReadDocument, UpsertHeartbeat, EndInvocation
  <2>5. QED
    BY <2>1, <2>2, <2>3, <2>4 DEF Next
<1>5. QED
  BY <1>2, <1>3, <1>4

\* The compare-and-set of mergeR2EnvironmentTelemetry loses no sample another
\* invocation has put into the document.
THEOREM CountsAreKept == Spec => MergesKeepCounts
<1>1. TypeInv /\ [Next]_vars =>
        [\A d \in Devices, i \in Samples : doc'.counted[d][i] >= doc.counted[d][i]]_doc
  BY GrowthByStep DEF DocumentGrows
<1>2. QED
  BY <1>1, TypeInvariant, PTL DEF Spec, MergesKeepCounts

\* The inductive form: an invocation that has its merge behind it knows a
\* high-water mark the document covers, and acknowledges nothing before.
CoveredBy(r, last) ==
    /\ r.st = "beat" => r.last <= last[r.dev]
    /\ r.st # "reply" => r.acked = {}
    /\ \A n \in r.acked : n <= last[r.dev]

CoveredInv == \A h \in Handlers : CoveredBy(handler[h], doc.last)

\* A document that has grown covers what it covered.
LEMMA StaysCovered ==
    ASSUME NEW r \in Invocation, r.st # "idle" => r.dev \in Devices,
           NEW last \in [Devices -> Nat], NEW new \in [Devices -> Nat],
           \A d \in Devices : new[d] >= last[d],
           CoveredBy(r, last)
    PROVE  CoveredBy(r, new)
<1>1. r.last \in Nat /\ r.acked \in SUBSET Nat
  BY DEF Invocation
<1>2. CASE r.st = "idle"
  BY <1>2 DEF CoveredBy
<1>3. CASE r.st # "idle"
  <2>1. r.dev \in Devices /\ last[r.dev] \in Nat /\ new[r.dev] \in Nat
        /\ new[r.dev] >= last[r.dev]
    BY <1>3
  <2>2. \A n \in Nat : n <= last[r.dev] => n <= new[r.dev]
    BY <2>1
  <2>3. QED
    BY <1>1, <2>2 DEF CoveredBy
<1>4. QED
  BY <1>2, <1>3

\* A step that replaces at most one invocation by a covered one keeps CoveredInv.
LEMMA OneCovered ==
    ASSUME TypeInv, TypeInv', CoveredInv, DocumentGrows,
           NEW h \in Handlers, NEW r, CoveredBy(r, doc'.last),
           handler' = [handler EXCEPT ![h] = r]
    PROVE  CoveredInv'
<1>1. doc.last \in [Devices -> Nat] /\ doc'.last \in [Devices -> Nat]
  BY DEF TypeInv, TypeOK, Document
<1>2. \A d \in Devices : doc'.last[d] >= doc.last[d]
  BY DEF DocumentGrows
<1>3. ASSUME NEW k \in Handlers PROVE CoveredBy(handler[k], doc'.last)
  <2>1. /\ handler[k] \in Invocation /\ CoveredBy(handler[k], doc.last)
        /\ handler[k].st # "idle" => handler[k].dev \in Devices
    BY DEF TypeInv, TypeOK, Support, CoveredInv
  <2>2. QED
    BY <1>1, <1>2, <2>1, StaysCovered
<1>4. handler'[h] = r /\ \A k \in Handlers \ {h} : handler'[k] = handler[k]
  BY DEF TypeInv, TypeOK
<1>5. QED
  BY <1>3, <1>4 DEF CoveredInv

LEMMA IdleCovered ==
    ASSUME NEW last
    PROVE  CoveredBy(IdleHandler, last)
BY DEF CoveredBy, IdleHandler

LEMMA InvokeCovered ==
    ASSUME TypeInv, TypeInv', CoveredInv, DocumentGrows,
           NEW h \in Handlers, NEW d, NEW seqs, Invoke(h, d, seqs)
    PROVE  CoveredInv'
<1> DEFINE r == [IdleHandler EXCEPT !.st = "read", !.dev = d, !.seqs = seqs]
<1>1. CoveredBy(r, doc'.last)
  BY DEF CoveredBy, IdleHandler
<1>2. handler' = [handler EXCEPT ![h] = r]
  BY DEF Invoke
<1> HIDE DEF r
<1>3. QED
  BY <1>1, <1>2, OneCovered

LEMMA ClientCovered ==
    ASSUME TypeInv, TypeInv', CoveredInv, DocumentGrows,
           NEW d \in Devices, ClientStep(d)
    PROVE  CoveredInv' \/ handler' = handler
<1>1. CASE StartExchange(d)
  BY <1>1, InvokeCovered DEF StartExchange
<1>2. CASE Resend(d)
  BY <1>2, InvokeCovered DEF Resend
<1>3. ASSUME NEW h \in Handlers, TakeReceipt(d, h) PROVE CoveredInv'
  <2>1. handler' = [handler EXCEPT ![h] = IdleHandler]
    BY <1>3 DEF TakeReceipt
  <2>2. QED
    BY <2>1, IdleCovered, OneCovered
<1>4. CASE \/ QueueTelemetry(d) \/ TimeOut(d) \/ RebaseOutbox(d)
           \/ PersistAck(d) \/ AdoptReceipt(d)
  BY <1>4 DEF QueueTelemetry, TimeOut, RebaseOutbox, PersistAck, AdoptReceipt, serverVars
<1>5. QED
  BY <1>1, <1>2, <1>3, <1>4 DEF ClientStep

LEMMA WorkerCovered ==
    ASSUME TypeInv, TypeInv', CoveredInv, DocumentGrows,
           NEW h \in Handlers, WorkerStep(h)
    PROVE  CoveredInv'
<1> DEFINE r == handler[h]
<1>1. /\ r \in Invocation
      /\ r.st # "idle" => r.dev \in Devices
      /\ r.st # "reply" => r.acked = {}
      /\ r.st = "beat" => r.last <= doc.last[r.dev]
      /\ doc.last \in [Devices -> Nat] /\ doc'.last \in [Devices -> Nat]
  BY DEF TypeInv, TypeOK, Support, Document, CoveredInv, CoveredBy
<1>2. CASE ReadDocument(h)
  <2> DEFINE beat == [r EXCEPT !.st = "beat", !.last = doc.last[r.dev]]
             put == [r EXCEPT !.st = "put", !.doc = doc]
  <2>1. r.st = "read" /\ doc' = doc
    BY <1>2 DEF ReadDocument
  <2>2. r.dev \in Devices /\ r.acked = {} /\ doc.last[r.dev] \in Nat
    <3>1. r.st # "idle" /\ r.st # "reply"
      BY <2>1
    <3> HIDE DEF r
    <3>2. QED
      BY <1>1, <3>1
  <2>3. CoveredBy(beat, doc'.last) /\ CoveredBy(put, doc'.last)
    BY <1>1, <2>1, <2>2 DEF CoveredBy, Invocation
  <2>4. handler' = [handler EXCEPT ![h] = beat] \/ handler' = [handler EXCEPT ![h] = put]
    BY <1>2 DEF ReadDocument
  <2> HIDE DEF beat, put
  <2>5. QED
    BY <2>3, <2>4, OneCovered
<1>3. CASE PutDocument(h)
  <2> DEFINE top == Highest(r.seqs, r.doc.last[r.dev])
             beat == [r EXCEPT !.st = "beat", !.doc = EmptyDoc, !.last = top]
             again == [r EXCEPT !.st = "read", !.doc = EmptyDoc, !.tries = r.tries + 1]
  <2>1. r.st = "put"
    BY <1>3 DEF PutDocument
  <2>2. r.dev \in Devices /\ r.acked = {}
    <3>1. r.st # "idle" /\ r.st # "reply"
      BY <2>1
    <3> HIDE DEF r
    <3>2. QED
      BY <1>1, <3>1
  <2>3. CASE EtagMatches(r)
    <3>1. doc' = MergedDocument(r) /\ handler' = [handler EXCEPT ![h] = beat]
      BY <1>3, <2>3 DEF PutDocument
    <3>2. doc'.last[r.dev] = top
      <4>1. MergedDocument(r).last[r.dev] = top
        BY <1>1, <2>2, MergedFacts
      <4>2. QED
        BY <3>1, <4>1
    <3>3. top <= doc'.last[r.dev]
      BY <1>1, <2>2, <3>2
    <3>4. CoveredBy(beat, doc'.last)
      <4> HIDE DEF top
      <4>1. QED
        BY <1>1, <2>2, <3>3 DEF CoveredBy, Invocation
    <3> HIDE DEF beat
    <3>5. QED
      BY <3>1, <3>4, OneCovered
  <2>4. CASE ~EtagMatches(r)
    <3>1. \/ handler' = [handler EXCEPT ![h] = again]
          \/ handler' = [handler EXCEPT ![h] = IdleHandler]
      BY <1>3, <2>4 DEF PutDocument
    <3>2. CoveredBy(again, doc'.last)
      BY <1>1, <2>2 DEF CoveredBy, Invocation
    <3> HIDE DEF again
    <3>3. QED
      BY <3>1, <3>2, IdleCovered, OneCovered
  <2>5. QED
    BY <2>3, <2>4
<1>4. CASE UpsertHeartbeat(h)
  <2> DEFINE last == Larger(heartbeat[r.dev], r.last)
             acked == {r.seqs[i] : i \in {j \in Held(r.seqs) : r.seqs[j] <= r.last}}
             reply == [IdleHandler EXCEPT !.st = "reply", !.dev = r.dev, !.seqs = r.seqs,
                                          !.next = last + 1, !.acked = acked]
  <2>1. /\ handler' = [handler EXCEPT ![h] = reply]
        /\ doc' = doc /\ r.st = "beat"
    BY <1>4 DEF UpsertHeartbeat
  <2>2. r.seqs \in Batch /\ r.last \in Nat /\ r.dev \in Devices
    <3>1. r.st # "idle"
      BY <2>1
    <3> HIDE DEF r
    <3>2. QED
      BY <1>1, <3>1 DEF Invocation
  <2>3. acked \in SUBSET Nat /\ \A n \in acked : n <= r.last
    BY <2>2, AckedType
  <2> HIDE DEF acked, last
  <2>4. \A n \in acked : n <= doc'.last[r.dev]
    BY <1>1, <2>1, <2>2, <2>3
  <2>5. reply.st = "reply" /\ reply.dev = r.dev /\ reply.acked = acked
    BY DEF IdleHandler
  <2> HIDE DEF reply
  <2>6. CoveredBy(reply, doc'.last)
    BY <2>4, <2>5 DEF CoveredBy
  <2>7. QED
    BY <2>1, <2>6, OneCovered
<1>5. CASE EndInvocation(h)
  BY <1>5, IdleCovered, OneCovered DEF EndInvocation
<1>6. QED
  BY <1>2, <1>3, <1>4, <1>5 DEF WorkerStep

\* Whatever invocation h acknowledges, the document's lastSequences covers from
\* then on: a second attempt of the same batch, or another device's, cannot take
\* the mark back, so an acknowledged sample is never asked for again.
THEOREM AcknowledgedStaysCovered == Spec => []AcknowledgedIsCovered
<1>1. Init => CoveredInv
  BY IdleCovered DEF Init, CoveredInv
<1>2. TypeInv /\ TypeInv' /\ CoveredInv /\ [Next]_vars => CoveredInv'
  <2> SUFFICES ASSUME TypeInv, TypeInv', CoveredInv, [Next]_vars
               PROVE  CoveredInv'
    OBVIOUS
  <2>1. DocumentGrows
    BY GrowthByStep
  <2>2. CASE handler' = handler
    <3>1. doc.last \in [Devices -> Nat] /\ doc'.last \in [Devices -> Nat]
      BY DEF TypeInv, TypeOK, Document
    <3>2. \A d \in Devices : doc'.last[d] >= doc.last[d]
      BY <2>1 DEF DocumentGrows
    <3>3. ASSUME NEW k \in Handlers PROVE CoveredBy(handler[k], doc'.last)
      <4>1. /\ handler[k] \in Invocation /\ CoveredBy(handler[k], doc.last)
            /\ handler[k].st # "idle" => handler[k].dev \in Devices
        BY DEF TypeInv, TypeOK, Support, CoveredInv
      <4>2. QED
        BY <3>1, <3>2, <4>1, StaysCovered
    <3>4. QED
      BY <2>2, <3>3 DEF CoveredInv
  <2>3. CASE UNCHANGED vars
    BY <2>2, <2>3 DEF vars, serverVars
  <2>4. ASSUME NEW d \in Devices, DeviceStep(d) PROVE CoveredInv'
    <3>1. handler' = handler
      BY <2>4 DEF DeviceStep, TickClock, SetClockBack, DrawSequence, AdvanceSequence,
           SkipSample, AppendOutbox, TearAppend, Restart, serverVars
    <3>2. QED
      BY <2>2, <3>1
  <2>5. ASSUME NEW d \in Devices, ClientStep(d) PROVE CoveredInv'
    BY <2>1, <2>2, <2>5, ClientCovered
  <2>6. ASSUME NEW h \in Handlers, WorkerStep(h) PROVE CoveredInv'
    BY <2>1, <2>6, WorkerCovered
  <2>7. QED
    BY <2>3, <2>4, <2>5, <2>6 DEF Next
<1>3. CoveredInv => AcknowledgedIsCovered
  BY DEF CoveredInv, CoveredBy, AcknowledgedIsCovered
<1>4. QED
  BY <1>1, <1>2, <1>3, TypeInvariant, PTL DEF Spec

-----------------------------------------------------------------------------
(* A device whose disk lost no write gives every sample it accepts a number  *)
(* of its own, larger than those before it, and never changes it: the file,  *)
(* the outbox, every payload and every receipt carry copies of the numbers.  *)

Accepted(d) == 1 .. persisted[d]

Copies(f, d, num) == \A i \in Samples : f[i] # 0 => i \in Accepted(d) /\ f[i] = num[i]

\* What the Worker has merged, or still may from a request already sent.
Sent(d, num) ==
    {i \in Accepted(d) : \/ num[i] <= doc.last[d]
                         \/ exchange[d].seqs[i] # 0
                         \/ \E h \in Handlers : handler[h].dev = d /\ handler[h].seqs[i] # 0}

Rank(f, i) == Cardinality({j \in Held(f) : j <= i})

Numbered(d, num) ==
    /\ nextSeq[d] >= 1
    /\ hold[d].st # "idle" => hold[d].seq >= 1
    /\ hold[d].st = "drawn" => nextSeq[d] <= hold[d].seq
    /\ hold[d].st = "ready" => hold[d].seq < nextSeq[d]
    /\ \A i \in Accepted(d) : num[i] >= 1 /\ num[i] < nextSeq[d]
    /\ hold[d].st # "idle" => \A i \in Accepted(d) : num[i] < hold[d].seq
    /\ \A i, j \in Accepted(d) : i < j => num[i] < num[j]

OnDisk(d, num) ==
    /\ tail[d] = "clean"
    /\ Copies(file[d], d, num)
    /\ \A i \in Accepted(d) : file[d][i] # 0 \/ num[i] <= ackFile[d]

InOutbox(d, num) ==
    /\ Copies(outbox[d], d, num)
    /\ \A i \in Accepted(d) : outbox[d][i] # 0 <=> num[i] > ackSeq[d]
    /\ ackSeq[d] <= ackFile[d]
    /\ ackFile[d] <= doc.last[d]

InDocument(d, num) ==
    /\ doc.last[d] = 0 \/ \E i \in Accepted(d) : doc.last[d] = num[i]
    /\ \A i \in Samples : doc.counted[d][i] =
                             IF i \in Accepted(d) /\ num[i] <= doc.last[d] THEN 1 ELSE 0
    /\ heartbeat[d] <= doc.last[d]

\* A payload leaves out no sample before its last but those that are merged.
FromFront(f, d, num) ==
    \A i \in Held(f) : \A j \in 1 .. i : f[j] # 0 \/ num[j] <= doc.last[d]

Requested(r, d, num) ==
    /\ Copies(r.seqs, d, num)
    /\ FromFront(r.seqs, d, num)
    /\ r.st = "beat" => r.last <= doc.last[d]
    /\ r.st = "beat" => \A i \in Held(r.seqs) : r.seqs[i] <= r.last
    /\ r.st = "reply" => r.next <= doc.last[d] + 1
    /\ r.st = "reply" => \A i \in Held(r.seqs) : r.seqs[i] <= doc.last[d] /\ r.seqs[i] \in r.acked
    /\ \A n \in r.acked : n <= doc.last[d]

InRequests(d, num) ==
    \A h \in Handlers : handler[h].dev = d => Requested(handler[h], d, num)

AtClient(d, num) ==
    /\ Copies(slot[d].seqs, d, num) /\ FromFront(slot[d].seqs, d, num)
    /\ Copies(exchange[d].seqs, d, num) /\ FromFront(exchange[d].seqs, d, num)
    /\ exchange[d].current /\ exchange[d].st # "idle" =>
           slot[d].full /\ slot[d].seqs = exchange[d].seqs
    /\ \A h \in Handlers :
           exchange[d].st = "waiting" /\ exchange[d].by = h /\ handler[h].dev = d =>
               handler[h].seqs = exchange[d].seqs

\* What was sent is at the front of the outbox, and in every later payload.
SentFirst(d, num) ==
    /\ \A i \in Sent(d, num) : outbox[d][i] # 0 => Rank(outbox[d], i) <= BatchLimit
    /\ \A i \in Held(slot[d].seqs) : outbox[d][i] # 0 => Rank(outbox[d], i) <= BatchLimit
    /\ slot[d].full => \A i \in Sent(d, num) : outbox[d][i] # 0 => slot[d].seqs[i] # 0

AtReceipt(d, num) ==
    /\ receipt[d].st # "idle" => exchange[d].st = "idle" /\ exchange[d].seqs = None
    /\ receipt[d].st = "taken" =>
           /\ receipt[d].next <= doc.last[d] + 1
           /\ \A n \in receipt[d].acked : n <= doc.last[d]
           /\ \A i \in Sent(d, num) : outbox[d][i] # 0 => outbox[d][i] \in receipt[d].acked
    /\ HubLocked(d) =>
           /\ ~receipt[d].rebased
           /\ receipt[d].floor <= nextSeq[d]
           /\ ackSeq[d] <= receipt[d].ack /\ receipt[d].ack <= doc.last[d]
           /\ Copies(receipt[d].seqs, d, num)
           /\ \A i \in Accepted(d) : receipt[d].seqs[i] # 0 <=> num[i] > receipt[d].ack
    /\ receipt[d].st = "adopt" => receipt[d].ack = ackFile[d]
    /\ receipt[d].st # "adopt" => ackSeq[d] = ackFile[d]

Orderly(d, num) ==
    /\ Numbered(d, num) /\ OnDisk(d, num) /\ InOutbox(d, num) /\ InDocument(d, num)
    /\ InRequests(d, num) /\ AtClient(d, num) /\ SentFirst(d, num) /\ AtReceipt(d, num)

OrderlyInv == \A d \in Devices : whole[d] => \E num \in Batch : Orderly(d, num)

-----------------------------------------------------------------------------
(* The parts of the invariant that a step leaves alone.                      *)

LEMMA Values ==
    ASSUME TypeInv, NEW d \in Devices
    PROVE  /\ persisted[d] \in 0 .. MaxSamples /\ nextSeq[d] \in Nat
           /\ ackSeq[d] \in Nat /\ ackFile[d] \in Nat /\ clock[d] \in 1 .. MaxClock
           /\ doc.last[d] \in Nat /\ heartbeat[d] \in Nat
           /\ file[d] \in Batch /\ outbox[d] \in Batch /\ doc.counted[d] \in Batch
           /\ hold[d] \in [st : {"idle", "drawn", "ready"}, seq : Nat]
           /\ slot[d] \in [full : BOOLEAN, seqs : Batch]
           /\ exchange[d] \in Exchange /\ receipt[d] \in Receipt
           /\ Accepted(d) \subseteq Samples
<1>1. persisted[d] \in 0 .. MaxSamples
  BY DEF TypeInv, TypeOK
<1>2. Accepted(d) \subseteq Samples
  BY <1>1, TelemetryAssumption DEF Accepted, Samples
<1>3. doc.last[d] \in Nat /\ doc.counted[d] \in Batch
  BY DEF TypeInv, TypeOK, Document
<1>4. QED
  BY <1>1, <1>2, <1>3 DEF TypeInv, TypeOK

\* The state of the invocations as device d sees it.
SameRequests(d) ==
    \A h \in Handlers : handler'[h].dev = d =>
        handler[h].dev = d /\ handler'[h].seqs = handler[h].seqs

NoNewRequest(d) ==
    \A h \in Handlers : handler'[h].dev = d =>
        handler[h].dev = d /\ handler'[h] = handler[h]

LEMMA NumberedKept ==
    ASSUME NEW d \in Devices, NEW num \in Batch, Numbered(d, num),
           persisted'[d] = persisted[d], nextSeq'[d] = nextSeq[d], hold'[d] = hold[d]
    PROVE  Numbered(d, num)'
BY DEF Numbered, Accepted

LEMMA DiskKept ==
    ASSUME NEW d \in Devices, NEW num \in Batch, OnDisk(d, num),
           persisted'[d] = persisted[d], tail'[d] = tail[d], file'[d] = file[d],
           ackFile'[d] = ackFile[d]
    PROVE  OnDisk(d, num)'
BY DEF OnDisk, Copies, Accepted

LEMMA OutboxKept ==
    ASSUME TypeInv, TypeInv', NEW d \in Devices, NEW num \in Batch, InOutbox(d, num),
           persisted'[d] = persisted[d], outbox'[d] = outbox[d], ackSeq'[d] = ackSeq[d],
           ackFile'[d] = ackFile[d], doc'.last[d] >= doc.last[d]
    PROVE  InOutbox(d, num)'
<1>1. doc.last[d] \in Nat /\ doc'.last[d] \in Nat /\ ackFile[d] \in Nat
  BY DEF TypeInv, TypeOK, Document
<1>2. QED
  BY <1>1 DEF InOutbox, Copies, Accepted

LEMMA DocumentKept ==
    ASSUME NEW d \in Devices, NEW num \in Batch, InDocument(d, num),
           persisted'[d] = persisted[d], doc'.last[d] = doc.last[d],
           doc'.counted[d] = doc.counted[d], heartbeat'[d] = heartbeat[d]
    PROVE  InDocument(d, num)'
BY DEF InDocument, Accepted

LEMMA FrontKept ==
    ASSUME TypeInv, TypeInv', NEW d \in Devices, NEW num \in Batch, NEW f \in Batch,
           persisted'[d] = persisted[d], doc'.last[d] >= doc.last[d],
           FromFront(f, d, num)
    PROVE  \A i \in Held(f) : \A j \in 1 .. i : f[j] # 0 \/ num[j] <= doc'.last[d]
<1>1. doc.last[d] \in Nat /\ doc'.last[d] \in Nat
  BY DEF TypeInv, TypeOK, Document
<1>2. \A i \in Held(f) : \A j \in 1 .. i : j \in Samples
  BY TelemetryAssumption DEF Held, Samples
<1>3. \A j \in Samples : num[j] \in Nat
  BY DEF Batch
<1>4. QED
  BY <1>1, <1>2, <1>3 DEF FromFront

LEMMA RequestKept ==
    ASSUME TypeInv, TypeInv', NEW d \in Devices, NEW num \in Batch, NEW r \in Invocation,
           persisted'[d] = persisted[d], doc'.last[d] >= doc.last[d],
           Requested(r, d, num)
    PROVE  /\ \A i \in Samples : r.seqs[i] # 0 => i \in Accepted(d)' /\ r.seqs[i] = num[i]
           /\ \A i \in Held(r.seqs) : \A j \in 1 .. i : r.seqs[j] # 0 \/ num[j] <= doc'.last[d]
           /\ r.st = "beat" => r.last <= doc'.last[d]
           /\ r.st = "beat" => \A i \in Held(r.seqs) : r.seqs[i] <= r.last
           /\ r.st = "reply" => r.next <= doc'.last[d] + 1
           /\ r.st = "reply" => \A i \in Held(r.seqs) : r.seqs[i] <= doc'.last[d] /\ r.seqs[i] \in r.acked
           /\ \A n \in r.acked : n <= doc'.last[d]
<1>1. doc.last[d] \in Nat /\ doc'.last[d] \in Nat
  BY DEF TypeInv, TypeOK, Document
<1>2. r.seqs \in Batch /\ r.last \in Nat /\ r.next \in Nat /\ r.acked \in SUBSET Nat
  BY DEF Invocation
<1>3. \A i \in Held(r.seqs) : \A j \in 1 .. i : r.seqs[j] # 0 \/ num[j] <= doc'.last[d]
  BY <1>2, FrontKept DEF Requested
<1>4. \A i \in Samples : r.seqs[i] # 0 => i \in Accepted(d)' /\ r.seqs[i] = num[i]
  BY DEF Requested, Copies, Accepted
<1>5. \A n \in Nat : n <= doc.last[d] => n <= doc'.last[d]
  BY <1>1
<1>6. /\ r.st = "beat" => r.last <= doc'.last[d]
      /\ r.st = "reply" => r.next <= doc'.last[d] + 1
  BY <1>1, <1>2 DEF Requested
<1>7. r.st = "reply" => \A i \in Held(r.seqs) : r.seqs[i] <= doc'.last[d] /\ r.seqs[i] \in r.acked
  <2>1. \A i \in Held(r.seqs) : r.seqs[i] \in Nat
    BY <1>2 DEF Batch, Held
  <2>2. QED
    BY <1>5, <2>1 DEF Requested
<1>8. \A n \in r.acked : n <= doc'.last[d]
  BY <1>2, <1>5 DEF Requested
<1>9. QED
  BY <1>3, <1>4, <1>6, <1>7, <1>8 DEF Requested

\* The requests of d: those that go on are unchanged, but for the invocation h.
LEMMA RequestsKept ==
    ASSUME TypeInv, TypeInv', NEW d \in Devices, NEW num \in Batch, InRequests(d, num),
           persisted'[d] = persisted[d], doc'.last[d] >= doc.last[d],
           NEW H \in SUBSET Handlers,
           \A h \in Handlers \ H : handler'[h].dev = d =>
               handler[h].dev = d /\ handler'[h] = handler[h],
           \A h \in H : handler'[h].dev = d => Requested(handler[h], d, num)'
    PROVE  InRequests(d, num)'
<1> SUFFICES ASSUME NEW h \in Handlers, handler'[h].dev = d
             PROVE  Requested(handler[h], d, num)'
  BY DEF InRequests
<1>1. CASE h \in H
  BY <1>1
<1>2. CASE h \notin H
  <2>1. handler[h].dev = d /\ handler'[h] = handler[h]
    BY <1>2
  <2>2. Requested(handler[h], d, num) /\ handler[h] \in Invocation
    BY <2>1 DEF InRequests, TypeInv, TypeOK
  <2> DEFINE r == handler[h]
  <2>3. /\ \A i \in Samples : r.seqs[i] # 0 => i \in Accepted(d)' /\ r.seqs[i] = num[i]
        /\ \A i \in Held(r.seqs) : \A j \in 1 .. i : r.seqs[j] # 0 \/ num[j] <= doc'.last[d]
        /\ r.st = "beat" => r.last <= doc'.last[d]
        /\ r.st = "beat" => \A i \in Held(r.seqs) : r.seqs[i] <= r.last
        /\ r.st = "reply" => r.next <= doc'.last[d] + 1
        /\ r.st = "reply" => \A i \in Held(r.seqs) : r.seqs[i] <= doc'.last[d] /\ r.seqs[i] \in r.acked
        /\ \A n \in r.acked : n <= doc'.last[d]
    BY <2>2, RequestKept
  <2>4. QED
    BY <2>1, <2>3 DEF Requested, Copies, FromFront, Held
<1>3. QED
  BY <1>1, <1>2

LEMMA ClientKept ==
    ASSUME TypeInv, TypeInv', NEW d \in Devices, NEW num \in Batch, AtClient(d, num),
           persisted'[d] = persisted[d], doc'.last[d] >= doc.last[d],
           slot'[d] = slot[d], exchange'[d] = exchange[d], SameRequests(d)
    PROVE  AtClient(d, num)'
<1>1. slot[d].seqs \in Batch /\ exchange[d].seqs \in Batch
  BY Values DEF Exchange
<1>2. /\ \A i \in Held(slot[d].seqs) : \A j \in 1 .. i :
             slot[d].seqs[j] # 0 \/ num[j] <= doc'.last[d]
      /\ \A i \in Held(exchange[d].seqs) : \A j \in 1 .. i :
             exchange[d].seqs[j] # 0 \/ num[j] <= doc'.last[d]
  BY <1>1, FrontKept DEF AtClient
<1>3. FromFront(slot[d].seqs, d, num)' /\ FromFront(exchange[d].seqs, d, num)'
  BY <1>2 DEF FromFront, Held
<1>4. Copies(slot[d].seqs, d, num)' /\ Copies(exchange[d].seqs, d, num)'
  BY DEF AtClient, Copies, Accepted
<1>5. \A h \in Handlers :
         exchange'[d].st = "waiting" /\ exchange'[d].by = h /\ handler'[h].dev = d =>
             handler'[h].seqs = exchange'[d].seqs
  BY DEF AtClient, SameRequests
<1>6. exchange'[d].current /\ exchange'[d].st # "idle" =>
         slot'[d].full /\ slot'[d].seqs = exchange'[d].seqs
  BY DEF AtClient
<1>7. QED
  BY <1>3, <1>4, <1>5, <1>6 DEF AtClient

\* Nothing more is sent: the merged samples and the requests are as before.
LEMMA SentShrinks ==
    ASSUME TypeInv, NEW d \in Devices, NEW num \in Batch,
           persisted'[d] = persisted[d], doc'.last[d] = doc.last[d],
           \/ exchange'[d].seqs = exchange[d].seqs
           \/ exchange'[d].seqs = None,
           SameRequests(d)
    PROVE  Sent(d, num)' \subseteq Sent(d, num)
<1> SUFFICES ASSUME NEW i \in Sent(d, num)' PROVE i \in Sent(d, num)
  OBVIOUS
<1>1. /\ i \in 1 .. persisted'[d]
      /\ \/ num[i] <= doc'.last[d]
         \/ exchange'[d].seqs[i] # 0
         \/ \E h \in Handlers : handler'[h].dev = d /\ handler'[h].seqs[i] # 0
  BY DEF Sent, Accepted
<1>2. CASE num[i] <= doc'.last[d]
  BY <1>1, <1>2 DEF Sent, Accepted
<1>3. CASE exchange'[d].seqs[i] # 0
  <2>1. CASE exchange'[d].seqs = exchange[d].seqs
    BY <1>1, <1>3, <2>1 DEF Sent, Accepted
  <2>2. CASE exchange'[d].seqs = None /\ i \in Samples
    BY <1>3, <2>2 DEF None
  <2>3. CASE exchange'[d].seqs = None /\ i \notin Samples
    BY <1>1, <2>3, Values DEF Accepted
  <2>4. QED
    BY <2>1, <2>2, <2>3
<1>4. CASE \E h \in Handlers : handler'[h].dev = d /\ handler'[h].seqs[i] # 0
  BY <1>1, <1>4 DEF Sent, Accepted, SameRequests
<1>5. QED
  BY <1>1, <1>2, <1>3, <1>4

LEMMA SentKept ==
    ASSUME NEW d \in Devices, NEW num \in Batch, SentFirst(d, num),
           Sent(d, num)' \subseteq Sent(d, num),
           outbox'[d] = outbox[d], slot'[d] = slot[d]
    PROVE  SentFirst(d, num)'
<1>1. \A i \in Sent(d, num)' : outbox'[d][i] # 0 => Rank(outbox'[d], i) <= BatchLimit
  BY DEF SentFirst
<1>2. \A i \in Held(slot'[d].seqs) : outbox'[d][i] # 0 => Rank(outbox'[d], i) <= BatchLimit
  BY DEF SentFirst
<1>3. slot'[d].full => \A i \in Sent(d, num)' : outbox'[d][i] # 0 => slot'[d].seqs[i] # 0
  BY DEF SentFirst
<1>4. QED
  BY <1>1, <1>2, <1>3 DEF SentFirst, Held, Rank

LEMMA ReceiptKept ==
    ASSUME TypeInv, TypeInv', NEW d \in Devices, NEW num \in Batch, AtReceipt(d, num),
           persisted'[d] = persisted[d], doc'.last[d] >= doc.last[d],
           receipt'[d] = receipt[d], outbox'[d] = outbox[d], ackSeq'[d] = ackSeq[d],
           ackFile'[d] = ackFile[d], nextSeq'[d] >= nextSeq[d],
           receipt[d].st # "idle" =>
               exchange'[d].st = exchange[d].st /\ exchange'[d].seqs = exchange[d].seqs,
           Sent(d, num)' \subseteq Sent(d, num)
    PROVE  AtReceipt(d, num)'
<1>1. /\ doc.last[d] \in Nat /\ doc'.last[d] \in Nat /\ nextSeq[d] \in Nat /\ nextSeq'[d] \in Nat
      /\ receipt[d] \in Receipt
  BY DEF TypeInv, TypeOK, Document
<1>2. receipt[d].next \in Nat /\ receipt[d].ack \in Nat /\ receipt[d].floor \in Nat
      /\ receipt[d].acked \in SUBSET Nat
  BY <1>1 DEF Receipt
<1>3. receipt'[d].st # "idle" => exchange'[d].st = "idle" /\ exchange'[d].seqs = None
  BY DEF AtReceipt
<1>4. receipt'[d].st = "taken" =>
         /\ receipt'[d].next <= doc'.last[d] + 1
         /\ \A n \in receipt'[d].acked : n <= doc'.last[d]
         /\ \A i \in Sent(d, num)' : outbox'[d][i] # 0 => outbox'[d][i] \in receipt'[d].acked
  <2> SUFFICES ASSUME receipt[d].st = "taken"
               PROVE  /\ receipt[d].next <= doc'.last[d] + 1
                      /\ \A n \in receipt[d].acked : n <= doc'.last[d]
                      /\ \A i \in Sent(d, num)' : outbox[d][i] # 0 => outbox[d][i] \in receipt[d].acked
    OBVIOUS
  <2>1. /\ receipt[d].next <= doc.last[d] + 1
        /\ \A n \in receipt[d].acked : n <= doc.last[d]
        /\ \A i \in Sent(d, num) : outbox[d][i] # 0 => outbox[d][i] \in receipt[d].acked
    BY DEF AtReceipt
  <2>2. \A n \in Nat : n <= doc.last[d] => n <= doc'.last[d]
    BY <1>1
  <2>3. receipt[d].next <= doc'.last[d] + 1
    BY <1>1, <1>2, <2>1
  <2>4. QED
    BY <1>2, <2>1, <2>2, <2>3
<1>5. HubLocked(d) =>
         /\ ~receipt[d].rebased
         /\ receipt[d].floor <= nextSeq'[d]
         /\ ackSeq[d] <= receipt[d].ack /\ receipt[d].ack <= doc'.last[d]
         /\ Copies(receipt[d].seqs, d, num)
         /\ \A i \in Accepted(d) : receipt[d].seqs[i] # 0 <=> num[i] > receipt[d].ack
  BY <1>1, <1>2 DEF AtReceipt
<1>6. /\ receipt'[d].st = "adopt" => receipt'[d].ack = ackFile'[d]
      /\ receipt'[d].st # "adopt" => ackSeq'[d] = ackFile'[d]
  BY DEF AtReceipt
<1>7. HubLocked(d)' = HubLocked(d) /\ Accepted(d)' = Accepted(d)
  BY DEF HubLocked, Accepted
<1>8. HubLocked(d)' =>
         /\ ~receipt'[d].rebased
         /\ receipt'[d].floor <= nextSeq'[d]
         /\ ackSeq'[d] <= receipt'[d].ack /\ receipt'[d].ack <= doc'.last[d]
         /\ Copies(receipt[d].seqs, d, num)'
         /\ \A i \in Accepted(d)' : receipt'[d].seqs[i] # 0 <=> num[i] > receipt'[d].ack
  BY <1>5, <1>7 DEF Copies
<1>9. QED
  BY <1>3, <1>4, <1>6, <1>8 DEF AtReceipt

\* A step that changes nothing of device d but its numbers and, perhaps, ends a
\* request of it.
LEMMA OrderlyKept ==
    ASSUME TypeInv, TypeInv', NEW d \in Devices, NEW num \in Batch, Orderly(d, num),
           persisted'[d] = persisted[d], Numbered(d, num)', nextSeq'[d] >= nextSeq[d],
           tail'[d] = tail[d], file'[d] = file[d], ackFile'[d] = ackFile[d],
           outbox'[d] = outbox[d], ackSeq'[d] = ackSeq[d], slot'[d] = slot[d],
           exchange'[d] = exchange[d], receipt'[d] = receipt[d],
           doc'.last[d] = doc.last[d], doc'.counted[d] = doc.counted[d],
           heartbeat'[d] = heartbeat[d],
           NoNewRequest(d)
    PROVE  Orderly(d, num)'
<1> USE DEF Orderly
<1>1. doc.last[d] \in Nat /\ doc'.last[d] >= doc.last[d]
  BY Values
<1>2. SameRequests(d)
  BY DEF SameRequests, NoNewRequest
<1>3. Sent(d, num)' \subseteq Sent(d, num)
  BY <1>2, SentShrinks
<1>4. OnDisk(d, num)' /\ InDocument(d, num)'
  BY DiskKept, DocumentKept
<1>5. InOutbox(d, num)'
  BY <1>1, OutboxKept
<1>6. InRequests(d, num)'
  <2>1. \A h \in Handlers \ {} : handler'[h].dev = d =>
            handler[h].dev = d /\ handler'[h] = handler[h]
    BY DEF NoNewRequest
  <2>2. \A h \in {} : handler'[h].dev = d => Requested(handler[h], d, num)'
    OBVIOUS
  <2>3. {} \in SUBSET Handlers
    OBVIOUS
  <2>4. QED
    BY <1>1, <2>1, <2>2, <2>3, RequestsKept
<1>7. AtClient(d, num)'
  BY <1>1, <1>2, ClientKept
<1>8. SentFirst(d, num)'
  BY <1>3, SentKept
<1>9. AtReceipt(d, num)'
  BY <1>1, <1>3, ReceiptKept
<1>10. QED
  BY <1>4, <1>5, <1>6, <1>7, <1>8, <1>9

-----------------------------------------------------------------------------
(* The steps of the serial thread.                                           *)

LEMMA NumbersStep ==
    ASSUME TypeInv, TypeInv', NEW d \in Devices, NEW num \in Batch, Orderly(d, num),
           DrawSequence(d) \/ AdvanceSequence(d) \/ SkipSample(d)
    PROVE  Orderly(d, num)'
<1>1. UNCHANGED <<clock, fileVars, outbox, ackSeq, persisted, clientVars, serverVars>>
  BY DEF DrawSequence, AdvanceSequence, SkipSample, hubVars
<1>2. /\ persisted[d] \in 0 .. MaxSamples /\ nextSeq[d] \in Nat /\ clock[d] \in 1 .. MaxClock
      /\ hold[d] \in [st : {"idle", "drawn", "ready"}, seq : Nat]
      /\ \A i \in Accepted(d) : num[i] \in Nat
  BY Values DEF Batch
<1>3. Numbered(d, num)
  BY DEF Orderly
<1>4. nextSeq'[d] >= nextSeq[d] /\ Numbered(d, num)'
  <2>1. CASE DrawSequence(d)
    <3>1. nextSeq' = nextSeq /\ persisted' = persisted
      BY <2>1 DEF DrawSequence, hubVars
    <3>2. hold'[d] = [st |-> "drawn", seq |-> Larger(nextSeq[d], clock[d])]
      BY <2>1 DEF DrawSequence, TypeInv, TypeOK
    <3>3. /\ hold'[d].st = "drawn" /\ hold'[d].seq >= nextSeq[d] /\ hold'[d].seq >= 1
          /\ hold'[d].seq \in Nat
      BY <1>2, <3>2, TelemetryAssumption DEF Larger
    <3>4. \A i \in Accepted(d) : num[i] < hold'[d].seq
      BY <1>2, <1>3, <3>3 DEF Numbered
    <3>5. QED
      BY <1>2, <1>3, <3>1, <3>3, <3>4 DEF Numbered, Accepted
  <2>2. CASE AdvanceSequence(d)
    <3>1. persisted' = persisted /\ hold[d].st = "drawn"
      BY <2>2 DEF AdvanceSequence
    <3>2. nextSeq'[d] = hold[d].seq + 1 /\ hold'[d].st = "ready" /\ hold'[d].seq = hold[d].seq
      BY <2>2 DEF AdvanceSequence, TypeInv, TypeOK
    <3>3. hold[d].seq \in Nat /\ hold[d].seq >= nextSeq[d]
      BY <1>2, <1>3, <3>1 DEF Numbered
    <3>4. \A i \in Accepted(d) : num[i] < nextSeq'[d]
      BY <1>2, <1>3, <3>1, <3>2, <3>3 DEF Numbered
    <3>5. QED
      BY <1>2, <1>3, <3>1, <3>2, <3>3, <3>4 DEF Numbered, Accepted
  <2>3. CASE SkipSample(d)
    <3>1. nextSeq' = nextSeq /\ persisted' = persisted /\ hold'[d].st = "idle"
      BY <2>3 DEF SkipSample, hubVars, TypeInv, TypeOK, IdleHold
    <3>2. QED
      BY <1>2, <1>3, <3>1 DEF Numbered, Accepted
  <2>4. QED
    BY <2>1, <2>2, <2>3
<1>5. NoNewRequest(d)
  BY <1>1 DEF NoNewRequest, serverVars
<1>6. QED
  BY <1>1, <1>4, <1>5, OrderlyKept DEF fileVars, clientVars, serverVars

\* A sample is accepted: it gets the number the serial thread drew.
LEMMA AppendStep ==
    ASSUME TypeInv, TypeInv', NEW d \in Devices, NEW num \in Batch, Orderly(d, num),
           AppendOutbox(d),
           NEW new \in Batch, new = [num EXCEPT ![persisted'[d]] = hold[d].seq]
    PROVE  Orderly(d, new)'
<1> DEFINE k == persisted'[d]
           n == hold[d].seq
<1>1. /\ persisted[d] \in 0 .. MaxSamples /\ nextSeq[d] \in Nat /\ n \in Nat
      /\ doc.last[d] \in Nat /\ ackSeq[d] \in Nat /\ ackFile[d] \in Nat
      /\ outbox[d] \in Batch /\ file[d] \in Batch /\ doc.counted[d] \in Batch
      /\ slot[d].seqs \in Batch /\ exchange[d].seqs \in Batch
      /\ \A h \in Handlers : handler[h].seqs \in Batch /\ handler[h] \in Invocation
  BY Values DEF Exchange, TypeInv, TypeOK, Invocation
<1>2. /\ k = persisted[d] + 1 /\ k \in Samples /\ k \in Nat /\ hold[d].st = "ready"
      /\ hold' = [hold EXCEPT ![d] = IdleHold]
      /\ outbox' = [outbox EXCEPT ![d][k] = n]
      /\ ~HubLocked(d)
      /\ UNCHANGED <<clock, ackFile, whole, nextSeq, ackSeq, clientVars, serverVars>>
  <2>1. persisted' = [persisted EXCEPT ![d] = persisted[d] + 1] /\ hold[d].st = "ready"
    BY DEF AppendOutbox
  <2>2. k = persisted[d] + 1
    BY <2>1 DEF TypeInv, TypeOK
  <2>3. persisted[d] < MaxSamples
    BY <2>1 DEF TypeInv, Support
  <2>4. k \in Samples /\ k \in Nat
    BY <1>1, <2>2, <2>3, TelemetryAssumption DEF Samples
  <2>5. QED
    BY <2>1, <2>2, <2>4 DEF AppendOutbox
<1>3. file' = [file EXCEPT ![d][k] = n] /\ tail' = tail /\ tail[d] = "clean"
  BY <1>2 DEF AppendOutbox, Orderly, OnDisk
<1>4. /\ outbox'[d] = [outbox[d] EXCEPT ![k] = n] /\ file'[d] = [file[d] EXCEPT ![k] = n]
      /\ hold'[d].st = "idle"
  BY <1>2, <1>3 DEF TypeInv, TypeOK, IdleHold
<1>5. new[k] = n /\ \A i \in Samples : i # k => new[i] = num[i]
  BY <1>1, <1>2 DEF Batch
<1>6. /\ Accepted(d)' = Accepted(d) \cup {k} /\ k \notin Accepted(d) /\ Accepted(d) \subseteq Samples
      /\ \A i \in Accepted(d) : i # k /\ new[i] = num[i] /\ num[i] \in Nat /\ num[i] < n /\ i < k
      /\ n >= 1 /\ n < nextSeq[d]
  <2>1. Accepted(d)' = Accepted(d) \cup {k} /\ k \notin Accepted(d) /\ Accepted(d) \subseteq Samples
        /\ \A i \in Accepted(d) : i < k
    BY <1>1, <1>2, Values DEF Accepted
  <2>2. n >= 1 /\ n < nextSeq[d] /\ \A i \in Accepted(d) : num[i] < n
    BY <1>2 DEF Orderly, Numbered
  <2>3. \A i \in Accepted(d) : num[i] \in Nat
    BY <2>1 DEF Batch
  <2>4. QED
    BY <1>5, <2>1, <2>2, <2>3
<1>7. ASSUME NEW f \in Batch, Copies(f, d, num)
      PROVE  /\ \A i \in Samples : f[i] # 0 => i \in Accepted(d)' /\ f[i] = new[i]
             /\ \A i \in Held(f) : \A j \in 1 .. i : j \in Accepted(d) /\ new[j] = num[j]
             /\ f[k] = 0
  <2>1. \A i \in Held(f) : i \in Accepted(d) /\ f[i] = num[i]
    BY <1>7 DEF Copies, Held
  <2>2. \A i \in Held(f) : \A j \in 1 .. i : j \in Accepted(d)
    BY <1>1, <2>1, TelemetryAssumption DEF Accepted, Held, Samples
  <2>3. f[k] = 0
    BY <1>2, <1>6, <1>7 DEF Copies
  <2>4. \A i \in Samples : f[i] # 0 => i \in Accepted(d)' /\ f[i] = new[i]
    BY <1>6, <1>7 DEF Copies
  <2>5. \A i \in Held(f) : \A j \in 1 .. i : j \in Accepted(d) /\ new[j] = num[j]
    BY <1>6, <2>2
  <2> HIDE DEF k
  <2>6. QED
    BY <2>3, <2>4, <2>5
<1> HIDE DEF n, k
<1>8. doc.last[d] < n /\ ackSeq[d] < n /\ ackFile[d] < n
  <2>1. doc.last[d] < n
    BY <1>1, <1>6 DEF Orderly, InDocument
  <2>2. ackSeq[d] <= ackFile[d] /\ ackFile[d] <= doc.last[d]
    BY DEF Orderly, InOutbox
  <2>3. QED
    BY <1>1, <2>1, <2>2
<1>9. Numbered(d, new)'
  <2>1. nextSeq'[d] = nextSeq[d]
    BY <1>2
  <2>2. nextSeq[d] >= 1
    BY DEF Orderly, Numbered
  <2>3. \A i \in Accepted(d)' : new[i] >= 1 /\ new[i] < nextSeq[d]
    BY <1>5, <1>6 DEF Orderly, Numbered
  <2>4. \A i, j \in Accepted(d)' : i < j => new[i] < new[j]
    <3> SUFFICES ASSUME NEW i \in Accepted(d)', NEW j \in Accepted(d)', i < j
                 PROVE  new[i] < new[j]
      OBVIOUS
    <3>1. i \in Accepted(d)
      <4>1. j \in Nat /\ (j \in Accepted(d) => j < k)
        BY <1>2, <1>6 DEF Samples
      <4>2. j <= k
        BY <1>2, <1>6, <4>1
      <4>3. i # k
        BY <1>2, <4>1, <4>2
      <4>4. QED
        BY <1>6, <4>3
    <3>2. CASE j = k
      BY <1>5, <1>6, <3>1, <3>2
    <3>3. CASE j # k
      BY <1>6, <3>1, <3>3 DEF Orderly, Numbered
    <3>4. QED
      BY <3>2, <3>3
  <2>5. QED
    BY <1>4, <2>1, <2>2, <2>3, <2>4 DEF Numbered
<1>10. OnDisk(d, new)'
  <2>1. Copies(file[d], d, num) /\ \A i \in Accepted(d) : file[d][i] # 0 \/ num[i] <= ackFile[d]
    BY DEF Orderly, OnDisk
  <2>2. \A i \in Samples : file[d][i] # 0 => i \in Accepted(d)' /\ file[d][i] = new[i]
    BY <1>1, <1>7, <2>1
  <2>3. \A i \in Samples : file'[d][i] # 0 => i \in Accepted(d)' /\ file'[d][i] = new[i]
    BY <1>1, <1>2, <1>4, <1>5, <1>6, <2>2 DEF Batch
  <2>4. \A i \in Accepted(d)' : file'[d][i] # 0 \/ new[i] <= ackFile'[d]
    BY <1>1, <1>2, <1>4, <1>5, <1>6, <2>1 DEF Batch
  <2>5. QED
    BY <1>3, <2>3, <2>4 DEF OnDisk, Copies
<1>11. InOutbox(d, new)'
  <2>1. /\ Copies(outbox[d], d, num)
        /\ \A i \in Accepted(d) : outbox[d][i] # 0 <=> num[i] > ackSeq[d]
        /\ ackSeq[d] <= ackFile[d] /\ ackFile[d] <= doc.last[d]
    BY DEF Orderly, InOutbox
  <2>2. \A i \in Samples : outbox[d][i] # 0 => i \in Accepted(d)' /\ outbox[d][i] = new[i]
    BY <1>1, <1>7, <2>1
  <2>3. \A i \in Samples : outbox'[d][i] # 0 => i \in Accepted(d)' /\ outbox'[d][i] = new[i]
    BY <1>1, <1>2, <1>4, <1>5, <1>6, <2>2 DEF Batch
  <2>4. \A i \in Accepted(d)' : outbox'[d][i] # 0 <=> new[i] > ackSeq'[d]
    BY <1>1, <1>2, <1>4, <1>5, <1>6, <1>8, <2>1 DEF Batch
  <2>5. QED
    BY <1>2, <2>1, <2>3, <2>4 DEF InOutbox, Copies, serverVars
<1>12. InDocument(d, new)'
  <2>1. doc' = doc /\ heartbeat' = heartbeat
    BY <1>2 DEF serverVars
  <2>2. doc.last[d] = 0 \/ \E i \in Accepted(d)' : doc.last[d] = new[i]
    BY <1>6 DEF Orderly, InDocument
  <2>3. \A i \in Samples : doc.counted[d][i] =
            IF i \in Accepted(d)' /\ new[i] <= doc.last[d] THEN 1 ELSE 0
    BY <1>1, <1>2, <1>5, <1>6, <1>8 DEF Orderly, InDocument
  <2>4. QED
    BY <2>1, <2>2, <2>3 DEF Orderly, InDocument
<1>13. ASSUME NEW f \in Batch, Copies(f, d, num), FromFront(f, d, num)
       PROVE  \A i \in Held(f) : \A j \in 1 .. i : f[j] # 0 \/ new[j] <= doc'.last[d]
  BY <1>2, <1>7, <1>13 DEF FromFront, serverVars
<1>14. InRequests(d, new)'
  <2> SUFFICES ASSUME NEW h \in Handlers, handler'[h].dev = d
               PROVE  Requested(handler[h], d, new)'
    BY DEF InRequests
  <2>1. handler' = handler /\ doc' = doc
    BY <1>2 DEF serverVars
  <2>2. Requested(handler[h], d, num)
    BY <2>1 DEF Orderly, InRequests
  <2>3. handler[h].seqs \in Batch /\ Copies(handler[h].seqs, d, num) /\ FromFront(handler[h].seqs, d, num)
    BY <1>1, <2>2 DEF Requested
  <2>4. /\ \A i \in Samples : handler[h].seqs[i] # 0 => i \in Accepted(d)' /\ handler[h].seqs[i] = new[i]
        /\ \A i \in Held(handler[h].seqs) : \A j \in 1 .. i :
              handler[h].seqs[j] # 0 \/ new[j] <= doc'.last[d]
    BY <1>7, <1>13, <2>3
  <2>5. QED
    BY <2>1, <2>2, <2>4 DEF Requested, Copies, FromFront, Held
<1>15. AtClient(d, new)'
  <2>1. handler' = handler /\ doc' = doc /\ slot' = slot /\ exchange' = exchange
    BY <1>2 DEF serverVars, clientVars
  <2>2. AtClient(d, num)
    BY DEF Orderly
  <2>3. /\ \A i \in Samples : slot[d].seqs[i] # 0 => i \in Accepted(d)' /\ slot[d].seqs[i] = new[i]
        /\ \A i \in Held(slot[d].seqs) : \A j \in 1 .. i :
              slot[d].seqs[j] # 0 \/ new[j] <= doc'.last[d]
    BY <1>1, <1>7, <1>13, <2>2 DEF AtClient
  <2>4. /\ \A i \in Samples : exchange[d].seqs[i] # 0 => i \in Accepted(d)' /\ exchange[d].seqs[i] = new[i]
        /\ \A i \in Held(exchange[d].seqs) : \A j \in 1 .. i :
              exchange[d].seqs[j] # 0 \/ new[j] <= doc'.last[d]
    BY <1>1, <1>7, <1>13, <2>2 DEF AtClient
  <2>5. QED
    BY <2>1, <2>2, <2>3, <2>4 DEF AtClient, Copies, FromFront, Held
<1>16. Sent(d, new)' \subseteq Sent(d, num)
  <2> SUFFICES ASSUME NEW i \in Sent(d, new)' PROVE i \in Sent(d, num)
    OBVIOUS
  <2>1. handler' = handler /\ doc' = doc /\ exchange' = exchange
    BY <1>2 DEF serverVars, clientVars
  <2>2. i \in Accepted(d)' /\ (\/ new[i] <= doc.last[d] \/ exchange[d].seqs[i] # 0
                               \/ \E h \in Handlers : handler[h].dev = d /\ handler[h].seqs[i] # 0)
    BY <2>1 DEF Sent
  <2>3. i # k
    <3>1. ~(n <= doc.last[d])
      BY <1>1, <1>8
    <3>2. exchange[d].seqs[k] = 0
      BY <1>1, <1>7 DEF Orderly, AtClient
    <3>3. \A h \in Handlers : handler[h].dev = d => handler[h].seqs[k] = 0
      BY <1>1, <1>7 DEF Orderly, InRequests, Requested
    <3>4. QED
      BY <1>5, <2>2, <3>1, <3>2, <3>3
  <2>4. QED
    BY <1>6, <2>2, <2>3 DEF Sent
<1>17. SentFirst(d, new)'
  <2>1. slot' = slot
    BY <1>2 DEF clientVars
  <2>2. ASSUME NEW i \in Samples, i < k PROVE outbox'[d][i] = outbox[d][i] /\ Rank(outbox'[d], i) = Rank(outbox[d], i)
    <3>1. \A j \in Samples : j <= i => outbox'[d][j] = outbox[d][j]
      BY <1>1, <1>2, <1>4, <2>2 DEF Batch, Samples
    <3>2. {j \in Held(outbox'[d]) : j <= i} = {j \in Held(outbox[d]) : j <= i}
      BY <3>1 DEF Held
    <3>3. outbox'[d][i] = outbox[d][i]
      BY <3>1, TelemetryAssumption DEF Samples
    <3>4. QED
      BY <3>2, <3>3 DEF Rank
  <2>3. \A i \in Sent(d, new)' : i \in Sent(d, num) /\ i \in Samples /\ i < k
    BY <1>6, <1>16 DEF Sent
  <2>4. \A i \in Held(slot[d].seqs) : i \in Samples /\ i < k
    BY <1>6 DEF Orderly, AtClient, Copies, Held
  <2>5. \A i \in Sent(d, new)' : outbox'[d][i] # 0 => Rank(outbox'[d], i) <= BatchLimit
    BY <2>2, <2>3 DEF Orderly, SentFirst
  <2>6. \A i \in Held(slot[d].seqs) : outbox'[d][i] # 0 => Rank(outbox'[d], i) <= BatchLimit
    BY <2>2, <2>4 DEF Orderly, SentFirst
  <2>7. slot[d].full => \A i \in Sent(d, new)' : outbox'[d][i] # 0 => slot[d].seqs[i] # 0
    BY <2>2, <2>3 DEF Orderly, SentFirst
  <2>8. QED
    BY <2>1, <2>5, <2>6, <2>7 DEF SentFirst, Rank, Held
<1>18. AtReceipt(d, new)'
  <2>1. receipt' = receipt /\ doc' = doc /\ exchange' = exchange
    BY <1>2 DEF serverVars, clientVars
  <2>2. ~HubLocked(d)' /\ receipt[d].st # "adopt"
    BY <1>2, <2>1 DEF HubLocked
  <2>3. \A i \in Sent(d, new)' : i \in Sent(d, num) /\ outbox'[d][i] = outbox[d][i]
    BY <1>1, <1>4, <1>6, <1>16 DEF Sent, Batch
  <2>4. AtReceipt(d, num)
    BY DEF Orderly
  <2>5. receipt[d].st = "taken" =>
           \A i \in Sent(d, new)' : outbox'[d][i] # 0 => outbox'[d][i] \in receipt[d].acked
    BY <2>3, <2>4 DEF AtReceipt
  <2>6. ackSeq' = ackSeq /\ ackFile' = ackFile
    BY <1>2
  <2>7. QED
    BY <2>1, <2>2, <2>4, <2>5, <2>6 DEF AtReceipt
<1>19. QED
  BY <1>9, <1>10, <1>11, <1>12, <1>14, <1>15, <1>17, <1>18 DEF Orderly

\* A batch that holds no more samples gives none a later place.
LEMMA RankShrinks ==
    ASSUME NEW f \in Batch, NEW g \in Batch, NEW i \in Samples,
           \A j \in Samples : g[j] # 0 => f[j] # 0
    PROVE  Rank(f, i) \in Nat /\ Rank(g, i) \in Nat /\ Rank(g, i) <= Rank(f, i)
<1> DEFINE F == {j \in Held(f) : j <= i}
           G == {j \in Held(g) : j <= i}
<1>1. IsFiniteSet(Samples)
  BY FS_Interval, TelemetryAssumption DEF Samples
<1>2. G \subseteq F /\ F \subseteq Samples
  BY DEF Held
<1>3. IsFiniteSet(F) /\ IsFiniteSet(G)
  BY <1>1, <1>2, FS_Subset
<1>4. Cardinality(F) \in Nat /\ Cardinality(G) \in Nat /\ Cardinality(G) <= Cardinality(F)
  BY <1>2, <1>3, FS_Subset, FS_CardinalityType
<1>5. QED
  BY <1>4 DEF Rank

LEMMA RankGrows ==
    ASSUME NEW f \in Batch, NEW i \in Samples, NEW j \in Samples, j <= i
    PROVE  Rank(f, j) \in Nat /\ Rank(f, i) \in Nat /\ Rank(f, j) <= Rank(f, i)
<1> DEFINE F == {k \in Held(f) : k <= i}
           G == {k \in Held(f) : k <= j}
<1>1. IsFiniteSet(Samples)
  BY FS_Interval, TelemetryAssumption DEF Samples
<1>2. G \subseteq F /\ F \subseteq Samples
  BY DEF Held, Samples
<1>3. IsFiniteSet(F) /\ IsFiniteSet(G)
  BY <1>1, <1>2, FS_Subset
<1>4. Cardinality(F) \in Nat /\ Cardinality(G) \in Nat /\ Cardinality(G) <= Cardinality(F)
  BY <1>2, <1>3, FS_Subset, FS_CardinalityType
<1>5. QED
  BY <1>4 DEF Rank

\* The places in the outbox when it only loses samples.
LEMMA SentStaysFirst ==
    ASSUME TypeInv, TypeInv', NEW d \in Devices, NEW num \in Batch, SentFirst(d, num),
           Sent(d, num)' \subseteq Sent(d, num),
           \A i \in Samples : outbox'[d][i] # 0 => outbox[d][i] # 0,
           slot'[d] = slot[d] \/ slot'[d] = EmptySlot
    PROVE  SentFirst(d, num)'
<1>1. outbox[d] \in Batch /\ outbox'[d] \in Batch /\ Accepted(d) \subseteq Samples
      /\ BatchLimit \in Nat
  BY Values, TelemetryAssumption DEF TypeInv, TypeOK
<1>2. \A i \in Samples :
         Rank(outbox[d], i) \in Nat /\ Rank(outbox'[d], i) \in Nat
         /\ Rank(outbox'[d], i) <= Rank(outbox[d], i)
  BY <1>1, RankShrinks
<1>3. \A i \in Samples :
         outbox'[d][i] # 0 /\ Rank(outbox[d], i) <= BatchLimit => Rank(outbox'[d], i) <= BatchLimit
  BY <1>1, <1>2
<1>4. \A i \in Sent(d, num)' : i \in Sent(d, num) /\ i \in Samples
  BY <1>1 DEF Sent
<1>5. \A i \in Sent(d, num)' : outbox'[d][i] # 0 => Rank(outbox'[d], i) <= BatchLimit
  BY <1>3, <1>4 DEF SentFirst
<1>6. \A i \in Held(slot'[d].seqs) : outbox'[d][i] # 0 => Rank(outbox'[d], i) <= BatchLimit
  <2>1. CASE slot'[d] = slot[d]
    BY <1>3, <2>1 DEF SentFirst, Held
  <2>2. CASE slot'[d] = EmptySlot
    BY <2>2 DEF EmptySlot, None, Held
  <2>3. QED
    BY <2>1, <2>2
<1>7. slot'[d].full => \A i \in Sent(d, num)' : outbox'[d][i] # 0 => slot'[d].seqs[i] # 0
  <2>1. slot'[d].full => slot'[d] = slot[d]
    BY DEF EmptySlot
  <2>2. QED
    BY <1>4, <2>1 DEF SentFirst
<1>8. QED
  BY <1>5, <1>6, <1>7 DEF SentFirst, Rank, Held

\* The device starts again from its file and its acknowledgement.
LEMMA RestartStep ==
    ASSUME TypeInv, TypeInv', NEW d \in Devices, NEW num \in Batch, Orderly(d, num),
           Restart(d)
    PROVE  Orderly(d, num)'
<1>1. /\ persisted[d] \in 0 .. MaxSamples /\ nextSeq[d] \in Nat
      /\ ackFile[d] \in Nat /\ ackSeq[d] \in Nat /\ clock[d] \in 1 .. MaxClock /\ doc.last[d] \in Nat
      /\ file[d] \in Batch /\ outbox[d] \in Batch
      /\ \A i \in Samples : num[i] \in Nat /\ file[d][i] \in Nat
      /\ Accepted(d) \subseteq Samples
  BY Values DEF Batch
<1>2. /\ outbox'[d] = Above(file[d], ackFile[d])
      /\ nextSeq'[d] = Larger(clock[d], Larger(ackFile[d] + 1, HighestPlusOne(file[d])))
      /\ ackSeq'[d] = ackFile[d]
      /\ hold'[d] = IdleHold /\ slot'[d] = EmptySlot /\ exchange'[d] = IdleExchange
      /\ receipt'[d] = IdleReceipt
      /\ UNCHANGED <<clock, ackFile, whole, persisted, serverVars>>
  BY DEF Restart, TypeInv, TypeOK
<1>3. tail'[d] = "clean" /\ file'[d] = file[d]
  BY DEF Restart, Orderly, OnDisk
<1>4. /\ Copies(file[d], d, num)
      /\ \A i \in Accepted(d) : file[d][i] # 0 \/ num[i] <= ackFile[d]
      /\ ackSeq[d] <= ackFile[d] /\ ackFile[d] <= doc.last[d]
      /\ \A i \in Accepted(d) : outbox[d][i] # 0 <=> num[i] > ackSeq[d]
  BY DEF Orderly, OnDisk, InOutbox
<1>5. \A i \in Samples : outbox'[d][i] = IF file[d][i] > ackFile[d] THEN file[d][i] ELSE 0
  BY <1>2 DEF Above
<1>6. Accepted(d)' = Accepted(d)
  BY <1>2 DEF Accepted
<1>7. Numbered(d, num)'
  <2>1. /\ HighestPlusOne(file[d]) \in Nat
        /\ \A i \in Held(file[d]) : HighestPlusOne(file[d]) > file[d][i]
    BY <1>1, HighestPlusOneType
  <2>2. /\ nextSeq'[d] \in Nat /\ nextSeq'[d] >= clock[d] /\ nextSeq'[d] >= ackFile[d] + 1
        /\ nextSeq'[d] >= HighestPlusOne(file[d])
    BY <1>1, <1>2, <2>1, TelemetryAssumption DEF Larger
  <2>3. ASSUME NEW i \in Accepted(d) PROVE num[i] < nextSeq'[d]
    <3>1. CASE file[d][i] # 0
      <4>1. i \in Held(file[d]) /\ file[d][i] = num[i]
        BY <1>1, <1>4, <2>3, <3>1 DEF Copies, Held
      <4>2. HighestPlusOne(file[d]) > num[i]
        BY <2>1, <4>1
      <4>3. QED
        BY <1>1, <2>1, <2>2, <2>3, <4>2
    <3>2. CASE file[d][i] = 0
      BY <1>1, <1>4, <2>2, <2>3, <3>2
    <3>3. QED
      BY <3>1, <3>2
  <2>4. nextSeq'[d] >= 1
    BY <1>1, <2>2
  <2>5. hold'[d].st = "idle"
    BY <1>2 DEF IdleHold
  <2>6. QED
    BY <1>6, <2>3, <2>4, <2>5 DEF Orderly, Numbered
<1>8. OnDisk(d, num)'
  BY <1>2, <1>3, <1>4, <1>6 DEF OnDisk, Copies
<1>9. InOutbox(d, num)'
  <2>1. \A i \in Samples : outbox'[d][i] # 0 => i \in Accepted(d)' /\ outbox'[d][i] = num[i]
    BY <1>1, <1>4, <1>5, <1>6 DEF Copies
  <2>2. \A i \in Accepted(d) : outbox'[d][i] # 0 <=> num[i] > ackFile[d]
    <3> SUFFICES ASSUME NEW i \in Accepted(d)
                 PROVE  outbox'[d][i] # 0 <=> num[i] > ackFile[d]
      OBVIOUS
    <3>1. i \in Samples /\ num[i] \in Nat /\ (file[d][i] # 0 => file[d][i] = num[i])
      BY <1>1, <1>4 DEF Copies
    <3>2. QED
      BY <1>1, <1>4, <1>5, <3>1
  <2>3. QED
    BY <1>1, <1>2, <1>4, <1>6, <2>1, <2>2 DEF InOutbox, Copies, serverVars
<1>10. InDocument(d, num)'
  BY <1>2, DocumentKept DEF serverVars, Orderly
<1>11. NoNewRequest(d) /\ SameRequests(d)
  BY <1>2 DEF NoNewRequest, SameRequests, serverVars
<1>12. doc'.last[d] >= doc.last[d]
  BY <1>1, <1>2 DEF serverVars
<1>13. InRequests(d, num)'
  <2>1. \A h \in Handlers \ {} : handler'[h].dev = d =>
            handler[h].dev = d /\ handler'[h] = handler[h]
    BY <1>11 DEF NoNewRequest
  <2>2. \A h \in {} : handler'[h].dev = d => Requested(handler[h], d, num)'
    OBVIOUS
  <2>3. {} \in SUBSET Handlers /\ persisted'[d] = persisted[d] /\ InRequests(d, num)
    BY <1>2 DEF Orderly
  <2>4. QED
    BY <1>12, <2>1, <2>2, <2>3, RequestsKept
<1>14. AtClient(d, num)'
  <2>1. slot'[d].seqs = None /\ exchange'[d].seqs = None /\ exchange'[d].st = "idle"
    BY <1>2 DEF EmptySlot, IdleExchange
  <2>2. QED
    BY <2>1 DEF AtClient, Copies, FromFront, Held, None
<1>15. Sent(d, num)' \subseteq Sent(d, num)
  <2>1. exchange'[d].seqs = None /\ persisted'[d] = persisted[d] /\ doc'.last[d] = doc.last[d]
    BY <1>2 DEF IdleExchange, serverVars
  <2>2. QED
    BY <1>11, <2>1, SentShrinks
<1>16. SentFirst(d, num)'
  <2>1. \A i \in Samples : outbox'[d][i] # 0 => outbox[d][i] # 0
    <3> SUFFICES ASSUME NEW i \in Samples, outbox'[d][i] # 0 PROVE outbox[d][i] # 0
      OBVIOUS
    <3>1. file[d][i] > ackFile[d]
      BY <1>5
    <3>2. i \in Accepted(d) /\ num[i] = file[d][i]
      BY <1>1, <1>4, <3>1 DEF Copies
    <3>3. QED
      BY <1>1, <1>4, <3>1, <3>2
  <2>2. QED
    BY <1>2, <1>15, <2>1, SentStaysFirst DEF Orderly
<1>17. AtReceipt(d, num)'
  <2>1. receipt'[d].st = "idle" /\ ackSeq'[d] = ackFile'[d]
    BY <1>2 DEF IdleReceipt
  <2>2. QED
    BY <2>1 DEF AtReceipt, HubLocked
<1>18. QED
  BY <1>7, <1>8, <1>9, <1>10, <1>13, <1>14, <1>16, <1>17 DEF Orderly

-----------------------------------------------------------------------------
(* The steps of the client.                                                  *)

\* Steps that leave the hub and the document alone.
LEMMA ExchangeStep ==
    ASSUME TypeInv, TypeInv', NEW d \in Devices, NEW num \in Batch, Orderly(d, num),
           UNCHANGED <<clock, fileVars, hubVars, hold, persisted, doc, heartbeat>>,
           InRequests(d, num)', AtClient(d, num)', SentFirst(d, num)', AtReceipt(d, num)'
    PROVE  Orderly(d, num)'
<1>1. Numbered(d, num)' /\ OnDisk(d, num)' /\ InDocument(d, num)'
  BY NumberedKept, DiskKept, DocumentKept DEF Orderly, hubVars, fileVars
<1>2. doc'.last[d] >= doc.last[d]
  BY Values
<1>3. InOutbox(d, num)'
  BY <1>2, OutboxKept DEF Orderly, hubVars, fileVars
<1>4. QED
  BY <1>1, <1>3 DEF Orderly

\* All requests go on as they are, or end.
LEMMA RequestsLeft ==
    ASSUME TypeInv, TypeInv', NEW d \in Devices, NEW num \in Batch, InRequests(d, num),
           UNCHANGED <<persisted, doc>>, NoNewRequest(d)
    PROVE  InRequests(d, num)'
<1>1. \A h \in Handlers \ {} : handler'[h].dev = d =>
          handler[h].dev = d /\ handler'[h] = handler[h]
  BY DEF NoNewRequest
<1>2. \A h \in {} : handler'[h].dev = d => Requested(handler[h], d, num)'
  OBVIOUS
<1>3. {} \in SUBSET Handlers /\ persisted'[d] = persisted[d] /\ doc'.last[d] >= doc.last[d]
  BY Values
<1>4. QED
  BY <1>1, <1>2, <1>3, RequestsKept

\* A request that starts carries a payload in order.
LEMMA RequestsAfterInvoke ==
    ASSUME TypeInv, TypeInv', NEW d \in Devices, NEW num \in Batch, InRequests(d, num),
           UNCHANGED <<persisted, doc>>,
           NEW h \in Handlers, NEW seqs \in Batch, Invoke(h, d, seqs),
           Copies(seqs, d, num), FromFront(seqs, d, num)
    PROVE  /\ InRequests(d, num)'
           /\ handler'[h].dev = d /\ handler'[h].seqs = seqs
           /\ \A k \in Handlers \ {h} : handler'[k] = handler[k]
<1>1. /\ handler'[h] = [IdleHandler EXCEPT !.st = "read", !.dev = d, !.seqs = seqs]
      /\ \A k \in Handlers \ {h} : handler'[k] = handler[k]
  BY DEF Invoke, TypeInv, TypeOK
<1>2. /\ handler'[h].st = "read" /\ handler'[h].dev = d /\ handler'[h].seqs = seqs
      /\ handler'[h].acked = {}
  BY <1>1 DEF IdleHandler
<1>3. Requested(handler[h], d, num)'
  <2>1. /\ \A i \in Samples : seqs[i] # 0 => i \in Accepted(d)' /\ seqs[i] = num[i]
        /\ \A i \in Held(seqs) : \A j \in 1 .. i : seqs[j] # 0 \/ num[j] <= doc'.last[d]
    BY DEF Copies, FromFront, Accepted
  <2>2. QED
    BY <1>2, <2>1 DEF Requested, Copies, FromFront, Held
<1>4. \A k \in Handlers \ {h} : handler'[k].dev = d =>
          handler[k].dev = d /\ handler'[k] = handler[k]
  BY <1>1
<1>5. \A k \in {h} : handler'[k].dev = d => Requested(handler[k], d, num)'
  BY <1>3
<1>6. {h} \in SUBSET Handlers /\ persisted'[d] = persisted[d] /\ doc'.last[d] >= doc.last[d]
  BY Values
<1>7. InRequests(d, num)'
  BY <1>4, <1>5, <1>6, RequestsKept
<1>8. QED
  BY <1>1, <1>2, <1>7

LEMMA QueueStep ==
    ASSUME TypeInv, TypeInv', NEW d \in Devices, NEW num \in Batch, Orderly(d, num),
           QueueTelemetry(d)
    PROVE  Orderly(d, num)'
<1> DEFINE front == Front(outbox[d], BatchLimit)
<1>1. /\ outbox[d] \in Batch /\ front \in Batch /\ BatchLimit \in Nat /\ Accepted(d) \subseteq Samples
      /\ persisted[d] \in 0 .. MaxSamples
      /\ ackSeq[d] \in Nat /\ ackFile[d] \in Nat /\ doc.last[d] \in Nat
      /\ \A i \in Samples : num[i] \in Nat
  BY Values, FrontType, TelemetryAssumption DEF Batch
<1>2. /\ ~HubLocked(d)
      /\ slot'[d] = [full |-> TRUE, seqs |-> front]
      /\ exchange'[d] = [exchange[d] EXCEPT !.current = FALSE]
      /\ UNCHANGED <<clock, fileVars, hubVars, hold, persisted, receipt, serverVars>>
  BY DEF QueueTelemetry, TypeInv, TypeOK
<1>3. /\ exchange'[d].seqs = exchange[d].seqs /\ exchange'[d].st = exchange[d].st
      /\ exchange'[d].by = exchange[d].by /\ exchange'[d].current = FALSE
  BY <1>2, Values DEF Exchange
<1>4. \A i \in Samples : front[i] = IF Rank(outbox[d], i) <= BatchLimit THEN outbox[d][i] ELSE 0
  BY DEF Front, Rank
<1> HIDE DEF front
<1>5. NoNewRequest(d) /\ SameRequests(d)
  BY <1>2 DEF NoNewRequest, SameRequests, serverVars
<1>6. UNCHANGED <<outbox, doc, handler, receipt, persisted>>
  BY <1>2 DEF serverVars, hubVars
<1>7. Sent(d, num)' \subseteq Sent(d, num)
  BY <1>3, <1>5, <1>6, SentShrinks
<1>8. InRequests(d, num)'
  BY <1>5, <1>6, RequestsLeft DEF Orderly
<1>9. Copies(outbox[d], d, num) /\ (\A i \in Accepted(d) : outbox[d][i] # 0 <=> num[i] > ackSeq[d])
      /\ ackSeq[d] <= doc.last[d]
  BY <1>1 DEF Orderly, InOutbox
<1>10. AtClient(d, num)'
  <2>1. \A i \in Samples : front[i] # 0 => i \in Accepted(d) /\ front[i] = num[i]
    BY <1>1, <1>4, <1>9 DEF Copies
  <2>2. ASSUME NEW i \in Held(front), NEW j \in 1 .. i
        PROVE  front[j] # 0 \/ num[j] <= doc.last[d]
    <3>1. i \in Samples /\ front[i] # 0 /\ Rank(outbox[d], i) <= BatchLimit /\ i \in Accepted(d)
      BY <1>4, <2>1 DEF Held
    <3>2. j \in Accepted(d) /\ j \in Samples /\ j <= i
      BY <1>1, <3>1 DEF Accepted, Samples
    <3>3. CASE outbox[d][j] # 0
      <4>1. Rank(outbox[d], j) \in Nat /\ Rank(outbox[d], i) \in Nat
            /\ Rank(outbox[d], j) <= Rank(outbox[d], i)
        BY <1>1, <3>1, <3>2, RankGrows
      <4>2. Rank(outbox[d], j) <= BatchLimit
        BY <1>1, <3>1, <4>1
      <4>3. QED
        BY <1>4, <3>2, <3>3, <4>2
    <3>4. CASE outbox[d][j] = 0
      BY <1>1, <1>9, <3>2, <3>4
    <3>5. QED
      BY <3>3, <3>4
  <2>3. AtClient(d, num)
    BY DEF Orderly
  <2>4. Copies(slot[d].seqs, d, num)' /\ FromFront(slot[d].seqs, d, num)'
    BY <1>2, <1>6, <2>1, <2>2 DEF Copies, FromFront, Held, Accepted
  <2>5. Copies(exchange[d].seqs, d, num)' /\ FromFront(exchange[d].seqs, d, num)'
    BY <1>3, <1>6, <2>3 DEF AtClient, Copies, FromFront, Held, Accepted
  <2>6. QED
    BY <1>3, <1>6, <2>3, <2>4, <2>5 DEF AtClient
<1>11. SentFirst(d, num)'
  <2>1. \A i \in Sent(d, num) : i \in Samples /\ (outbox[d][i] # 0 => Rank(outbox[d], i) <= BatchLimit)
    BY <1>1 DEF Orderly, SentFirst, Sent
  <2>2. \A i \in Sent(d, num)' : outbox[d][i] # 0 => Rank(outbox[d], i) <= BatchLimit /\ front[i] # 0
    BY <1>4, <1>7, <2>1
  <2>3. \A i \in Held(front) : Rank(outbox[d], i) <= BatchLimit
    BY <1>4 DEF Held
  <2>4. outbox' = outbox /\ slot'[d].seqs = front
    BY <1>2, <1>6
  <2>5. QED
    BY <2>2, <2>3, <2>4 DEF SentFirst, Rank, Held
<1>12. AtReceipt(d, num)'
  <2>1. /\ persisted'[d] = persisted[d] /\ doc'.last[d] >= doc.last[d] /\ receipt'[d] = receipt[d]
        /\ outbox'[d] = outbox[d] /\ ackSeq'[d] = ackSeq[d] /\ ackFile'[d] = ackFile[d]
        /\ nextSeq'[d] >= nextSeq[d]
    BY <1>2, Values DEF serverVars, hubVars, fileVars
  <2>2. QED
    BY <1>3, <1>7, <2>1, ReceiptKept DEF Orderly
<1>13. QED
  BY <1>2, <1>8, <1>10, <1>11, <1>12, ExchangeStep DEF serverVars

LEMMA StartStep ==
    ASSUME TypeInv, TypeInv', NEW d \in Devices, NEW num \in Batch, Orderly(d, num),
           StartExchange(d)
    PROVE  Orderly(d, num)'
<1>1. PICK h \in Handlers :
        /\ Invoke(h, d, slot[d].seqs)
        /\ exchange' = [exchange EXCEPT ![d] =
               [st |-> "waiting", by |-> h, seqs |-> slot[d].seqs,
                current |-> TRUE, attempt |-> 1]]
  BY DEF StartExchange
<1>2. /\ exchange[d].st = "idle" /\ receipt[d].st = "idle" /\ slot[d].full
      /\ UNCHANGED <<clock, fileVars, hubVars, hold, persisted, slot, receipt, doc, heartbeat>>
  BY DEF StartExchange
<1>3. /\ exchange'[d].st = "waiting" /\ exchange'[d].by = h
      /\ exchange'[d].seqs = slot[d].seqs
  BY <1>1 DEF TypeInv, TypeOK
<1>4. slot[d].seqs \in Batch /\ Accepted(d) \subseteq Samples
  BY Values
<1>5. AtClient(d, num) /\ SentFirst(d, num) /\ InRequests(d, num)
  BY DEF Orderly
<1>6. Copies(slot[d].seqs, d, num) /\ FromFront(slot[d].seqs, d, num)
  BY <1>5 DEF AtClient
<1>7. /\ InRequests(d, num)'
      /\ handler'[h].dev = d /\ handler'[h].seqs = slot[d].seqs
      /\ \A k \in Handlers \ {h} : handler'[k] = handler[k]
  BY <1>1, <1>2, <1>4, <1>5, <1>6, RequestsAfterInvoke
<1>8. AtClient(d, num)'
  <2>1. Copies(slot[d].seqs, d, num)' /\ FromFront(slot[d].seqs, d, num)'
    BY <1>2, <1>6 DEF Copies, FromFront, Held, Accepted
  <2>2. Copies(exchange[d].seqs, d, num)' /\ FromFront(exchange[d].seqs, d, num)'
    BY <1>2, <1>3, <1>6 DEF Copies, FromFront, Held, Accepted
  <2>3. QED
    BY <1>2, <1>3, <1>7, <2>1, <2>2 DEF AtClient
<1>9. \A i \in Sent(d, num)' : i \in Sent(d, num) \/ i \in Held(slot[d].seqs)
  <2> SUFFICES ASSUME NEW i \in Sent(d, num)', i \notin Held(slot[d].seqs)
               PROVE  i \in Sent(d, num)
    OBVIOUS
  <2>1. i \in Accepted(d) /\ i \in Samples /\ slot[d].seqs[i] = 0
    BY <1>2, <1>4 DEF Sent, Accepted, Held
  <2>2. num[i] <= doc.last[d] \/ \E k \in Handlers : handler'[k].dev = d /\ handler'[k].seqs[i] # 0
    BY <1>2, <1>3, <2>1 DEF Sent
  <2>3. QED
    BY <1>7, <2>1, <2>2 DEF Sent
<1>10. SentFirst(d, num)'
  <2>1. \A i \in Sent(d, num)' : outbox[d][i] # 0 =>
           Rank(outbox[d], i) <= BatchLimit /\ slot[d].seqs[i] # 0
    BY <1>2, <1>5, <1>9 DEF SentFirst, Held
  <2>2. outbox' = outbox /\ slot' = slot
    BY <1>2 DEF hubVars
  <2>3. QED
    BY <1>5, <2>1, <2>2 DEF SentFirst, Rank, Held
<1>11. AtReceipt(d, num)'
  BY <1>2 DEF Orderly, AtReceipt, HubLocked, hubVars, fileVars
<1>12. QED
  BY <1>2, <1>7, <1>8, <1>10, <1>11, ExchangeStep

LEMMA TimeOutStep ==
    ASSUME TypeInv, TypeInv', NEW d \in Devices, NEW num \in Batch, Orderly(d, num),
           TimeOut(d)
    PROVE  Orderly(d, num)'
<1>1. /\ exchange[d].st = "waiting"
      /\ UNCHANGED <<clock, fileVars, hubVars, hold, persisted, slot, receipt, serverVars>>
      /\ \/ exchange'[d] = [exchange[d] EXCEPT !.st = "resend"]
         \/ exchange'[d] = IdleExchange
  BY DEF TimeOut, TypeInv, TypeOK
<1>2. AtClient(d, num) /\ SentFirst(d, num) /\ InRequests(d, num) /\ AtReceipt(d, num)
  BY DEF Orderly
<1>3. \/ /\ exchange'[d].seqs = exchange[d].seqs /\ exchange'[d].current = exchange[d].current
         /\ exchange'[d].st = "resend"
      \/ exchange'[d].seqs = None /\ exchange'[d].st = "idle"
  BY <1>1, Values DEF Exchange, IdleExchange
<1>4. NoNewRequest(d) /\ SameRequests(d)
  BY <1>1 DEF NoNewRequest, SameRequests, serverVars
<1>5. UNCHANGED <<doc, heartbeat, handler, outbox>>
  BY <1>1 DEF serverVars, hubVars
<1>6. Sent(d, num)' \subseteq Sent(d, num)
  <2>1. persisted'[d] = persisted[d] /\ doc'.last[d] = doc.last[d]
        /\ (exchange'[d].seqs = exchange[d].seqs \/ exchange'[d].seqs = None)
    BY <1>1, <1>3, <1>5
  <2>2. QED
    BY <1>4, <2>1, SentShrinks
<1>7. InRequests(d, num)'
  BY <1>1, <1>2, <1>4, <1>5, RequestsLeft
<1>8. AtClient(d, num)'
  <2>1. Copies(slot[d].seqs, d, num)' /\ FromFront(slot[d].seqs, d, num)'
    BY <1>1, <1>2, <1>5 DEF AtClient, Copies, FromFront, Held, Accepted
  <2>2. Copies(exchange[d].seqs, d, num)' /\ FromFront(exchange[d].seqs, d, num)'
    <3>1. CASE exchange'[d].seqs = exchange[d].seqs
      BY <1>1, <1>2, <1>5, <3>1 DEF AtClient, Copies, FromFront, Held, Accepted
    <3>2. CASE exchange'[d].seqs = None
      BY <3>2 DEF Copies, FromFront, Held, None
    <3>3. QED
      BY <1>3, <3>1, <3>2
  <2>3. QED
    BY <1>1, <1>2, <1>3, <2>1, <2>2 DEF AtClient
<1>9. SentFirst(d, num)'
  BY <1>1, <1>2, <1>5, <1>6, SentKept
<1>10. AtReceipt(d, num)'
  BY <1>1, <1>2 DEF AtReceipt, HubLocked, hubVars, fileVars
<1>11. QED
  BY <1>1, <1>5, <1>7, <1>8, <1>9, <1>10, ExchangeStep

LEMMA ResendStep ==
    ASSUME TypeInv, TypeInv', NEW d \in Devices, NEW num \in Batch, Orderly(d, num),
           Resend(d)
    PROVE  Orderly(d, num)'
<1>1. PICK h \in Handlers :
        /\ Invoke(h, d, exchange[d].seqs)
        /\ exchange' = [exchange EXCEPT ![d].st = "waiting", ![d].by = h, ![d].attempt = 2]
  BY DEF Resend
<1>2. /\ exchange[d].st = "resend"
      /\ UNCHANGED <<clock, fileVars, hubVars, hold, persisted, slot, receipt, doc, heartbeat>>
  BY DEF Resend
<1>3. /\ exchange'[d].st = "waiting" /\ exchange'[d].by = h
      /\ exchange'[d].seqs = exchange[d].seqs /\ exchange'[d].current = exchange[d].current
  <2>1. exchange'[d] = [exchange[d] EXCEPT !.st = "waiting", !.by = h, !.attempt = 2]
    BY <1>1 DEF TypeInv, TypeOK
  <2>2. QED
    BY <2>1, Values DEF Exchange
<1>4. exchange[d].seqs \in Batch /\ Accepted(d) \subseteq Samples
  BY Values DEF Exchange
<1>5. AtClient(d, num) /\ SentFirst(d, num) /\ InRequests(d, num) /\ AtReceipt(d, num)
  BY DEF Orderly
<1>6. Copies(exchange[d].seqs, d, num) /\ FromFront(exchange[d].seqs, d, num)
  BY <1>5 DEF AtClient
<1>7. /\ InRequests(d, num)'
      /\ handler'[h].dev = d /\ handler'[h].seqs = exchange[d].seqs
      /\ \A k \in Handlers \ {h} : handler'[k] = handler[k]
  BY <1>1, <1>2, <1>4, <1>5, <1>6, RequestsAfterInvoke
<1>8. AtClient(d, num)'
  <2>1. Copies(slot[d].seqs, d, num)' /\ FromFront(slot[d].seqs, d, num)'
    BY <1>2, <1>5 DEF AtClient, Copies, FromFront, Held, Accepted
  <2>2. Copies(exchange[d].seqs, d, num)' /\ FromFront(exchange[d].seqs, d, num)'
    BY <1>2, <1>3, <1>6 DEF Copies, FromFront, Held, Accepted
  <2>3. QED
    BY <1>2, <1>3, <1>5, <1>7, <2>1, <2>2 DEF AtClient
<1>9. Sent(d, num)' \subseteq Sent(d, num)
  <2> SUFFICES ASSUME NEW i \in Sent(d, num)' PROVE i \in Sent(d, num)
    OBVIOUS
  <2>1. i \in Accepted(d) /\ (\/ num[i] <= doc.last[d] \/ exchange[d].seqs[i] # 0
                             \/ \E k \in Handlers : handler'[k].dev = d /\ handler'[k].seqs[i] # 0)
    BY <1>2, <1>3 DEF Sent, Accepted
  <2>2. QED
    BY <1>7, <2>1 DEF Sent
<1>10. SentFirst(d, num)'
  BY <1>2, <1>5, <1>9, SentKept DEF hubVars
<1>11. AtReceipt(d, num)'
  BY <1>2, <1>5 DEF AtReceipt, HubLocked, hubVars, fileVars
<1>12. QED
  BY <1>2, <1>7, <1>8, <1>10, <1>11, ExchangeStep

LEMMA TakeStep ==
    ASSUME TypeInv, TypeInv', NEW d \in Devices, NEW num \in Batch, Orderly(d, num),
           NEW h \in Handlers, TakeReceipt(d, h)
    PROVE  Orderly(d, num)'
<1>1. /\ exchange[d].st = "waiting" /\ exchange[d].by = h /\ handler[h].dev = d
      /\ handler[h].st = "reply"
      /\ exchange'[d] = IdleExchange
      /\ handler' = [handler EXCEPT ![h] = IdleHandler]
      /\ UNCHANGED <<clock, fileVars, hubVars, hold, persisted, doc, heartbeat>>
  BY DEF TakeReceipt, Awaits, TypeInv, TypeOK
<1>2. exchange'[d].seqs = None /\ exchange'[d].st = "idle"
  BY <1>1 DEF IdleExchange
<1>3. NoNewRequest(d) /\ SameRequests(d)
  <2>1. handler'[h].dev # d
    BY <1>1, TelemetryAssumption DEF IdleHandler, TypeInv, TypeOK
  <2>2. QED
    BY <1>1, <2>1 DEF NoNewRequest, SameRequests, TypeInv, TypeOK
<1>4. AtClient(d, num) /\ SentFirst(d, num) /\ InRequests(d, num) /\ AtReceipt(d, num)
  BY DEF Orderly
<1>5. Sent(d, num)' \subseteq Sent(d, num)
  BY <1>1, <1>2, <1>3, SentShrinks
<1>6. InRequests(d, num)'
  BY <1>1, <1>3, <1>4, RequestsLeft
<1>7. receipt[d].st = "idle"
  BY <1>1, <1>4 DEF AtReceipt
<1>8. slot'[d] = slot[d] \/ slot'[d] = EmptySlot
  BY DEF TakeReceipt, TypeInv, TypeOK
<1>9. AtClient(d, num)'
  <2>1. Copies(slot[d].seqs, d, num)' /\ FromFront(slot[d].seqs, d, num)'
    <3>1. CASE slot'[d] = slot[d]
      BY <1>1, <1>4, <3>1 DEF AtClient, Copies, FromFront, Held, Accepted
    <3>2. CASE slot'[d] = EmptySlot
      BY <3>2 DEF EmptySlot, Copies, FromFront, Held, None
    <3>3. QED
      BY <1>8, <3>1, <3>2
  <2>2. Copies(exchange[d].seqs, d, num)' /\ FromFront(exchange[d].seqs, d, num)'
    BY <1>2 DEF Copies, FromFront, Held, None
  <2>3. QED
    BY <1>2, <2>1, <2>2 DEF AtClient
<1>10. SentFirst(d, num)'
  <2>1. \A i \in Samples : outbox'[d][i] # 0 => outbox[d][i] # 0
    BY <1>1 DEF hubVars
  <2>2. QED
    BY <1>4, <1>5, <1>8, <2>1, SentStaysFirst
<1>11. AtReceipt(d, num)'
  <2>1. CASE exchange[d].current
    <3> DEFINE taken == [IdleReceipt EXCEPT !.st = "taken", !.acked = handler[h].acked,
                                            !.next = handler[h].next]
    <3>1. receipt'[d] = taken
      BY <2>1 DEF TakeReceipt, TypeInv, TypeOK
    <3>2. taken.st = "taken" /\ taken.acked = handler[h].acked /\ taken.next = handler[h].next
      BY DEF IdleReceipt
    <3>3. slot[d].full /\ handler[h].seqs = slot[d].seqs
      BY <1>1, <1>4, <2>1 DEF AtClient
    <3>4. Requested(handler[h], d, num)
      BY <1>1, <1>4 DEF InRequests
    <3>5. \A i \in Sent(d, num) : i \in Samples /\ (outbox[d][i] # 0 => outbox[d][i] \in handler[h].acked)
      <4> SUFFICES ASSUME NEW i \in Sent(d, num), outbox[d][i] # 0
                   PROVE  outbox[d][i] \in handler[h].acked
        BY Values DEF Sent
      <4>1. i \in Accepted(d) /\ i \in Samples /\ outbox[d][i] = num[i]
        BY Values DEF Sent, Orderly, InOutbox, Copies
      <4>2. slot[d].seqs[i] # 0 /\ slot[d].seqs[i] = num[i]
        BY <1>4, <3>3, <4>1 DEF SentFirst, AtClient, Copies
      <4>3. QED
        BY <1>1, <3>3, <3>4, <4>1, <4>2 DEF Requested, Held
    <3>6. handler[h].next <= doc.last[d] + 1 /\ \A n \in handler[h].acked : n <= doc.last[d]
      BY <1>1, <3>4 DEF Requested
    <3> HIDE DEF taken
    <3>7. \A i \in Sent(d, num)' : outbox'[d][i] # 0 => outbox'[d][i] \in taken.acked
      BY <1>1, <1>5, <3>2, <3>5 DEF hubVars
    <3>8. ackSeq'[d] = ackFile'[d]
      BY <1>1, <1>4, <1>7 DEF AtReceipt, hubVars, fileVars
    <3>9. QED
      BY <1>1, <1>2, <3>1, <3>2, <3>6, <3>7, <3>8 DEF AtReceipt, HubLocked
  <2>2. CASE ~exchange[d].current
    <3>1. receipt'[d].st = "idle"
      BY <1>7, <2>2 DEF TakeReceipt
    <3>2. QED
      BY <1>1, <1>4, <1>7, <3>1 DEF AtReceipt, HubLocked, hubVars, fileVars
  <2>3. QED
    BY <2>1, <2>2
<1>12. QED
  BY <1>1, <1>6, <1>9, <1>10, <1>11, ExchangeStep

-----------------------------------------------------------------------------
(* The steps of a receipt: nothing is renumbered.                            *)

\* The candidate stays below every bound of the numbers and the mark.
LEMMA FloorBelow ==
    ASSUME NEW f \in Batch, NEW ack \in Nat, NEW B \in Nat, ack < B,
           \A i \in Held(f) : ack < f[i],
           \A i, j \in Held(f) : i < j => f[i] < f[j],
           NEW k \in 0 .. MaxSamples, \A i \in Held(f) : i <= k => f[i] < B
    PROVE  Floor(f, ack)[k] <= B
<1> USE TelemetryAssumption
<1> DEFINE F == Floor(f, ack)
           Over(n) == \E b \in Nat : /\ ack < b
                                     /\ \A i \in Held(f) : i <= n => f[i] < b
                                     /\ ~(F[n] <= b)
           Bad == {n \in 0 .. MaxSamples : Over(n)}
<1>1. /\ F \in [0 .. MaxSamples -> Nat]
      /\ F[0] = ack + 1
      /\ \A i \in 1 .. MaxSamples :
            F[i] = IF f[i] = 0 THEN F[i - 1] ELSE Larger(f[i], F[i - 1]) + 1
  BY FloorType
<1> HIDE DEF F
<1>2. Bad = {}
  <2> SUFFICES ASSUME Bad # {} PROVE FALSE
    OBVIOUS
  <2>1. Bad \in SUBSET (0 .. MaxSamples)
    OBVIOUS
  <2>2. PICK n \in Bad : \A m \in Bad : n <= m
    <3> HIDE DEF Bad
    <3>1. QED
      BY <2>1, SmallestUpTo
  <2>3. PICK b \in Nat : /\ ack < b
                         /\ \A i \in Held(f) : i <= n => f[i] < b
                         /\ ~(F[n] <= b)
    BY <2>2
  <2>4. n # 0
    BY <1>1, <2>3
  <2>5. n \in 1 .. MaxSamples /\ n - 1 \in 0 .. MaxSamples /\ n \in Samples
    BY <2>1, <2>2, <2>4 DEF Samples
  <2>6. n - 1 \notin Bad
    <3> HIDE DEF Bad
    <3>1. QED
      BY <2>2, <2>5
  <2>7. ~Over(n - 1)
    <3> HIDE DEF Over
    <3>1. QED
      BY <2>5, <2>6
  <2>8. F[n - 1] \in Nat /\ F[n] \in Nat /\ f[n] \in Nat
    BY <1>1, <2>5 DEF Batch
  <2>9. CASE f[n] = 0
    <3>1. F[n] = F[n - 1]
      BY <1>1, <2>5, <2>9
    <3>2. \A i \in Held(f) : i <= n - 1 => f[i] < b
      BY <2>3, <2>5 DEF Held, Samples
    <3>3. F[n - 1] <= b
      BY <2>3, <2>7, <3>2
    <3>4. QED
      BY <2>3, <3>1, <3>3
  <2>10. CASE f[n] # 0
    <3>1. n \in Held(f) /\ ack < f[n] /\ f[n] < b
      BY <2>3, <2>5, <2>10 DEF Held
    <3>2. \A i \in Held(f) : i <= n - 1 => f[i] < f[n]
      BY <2>5, <3>1 DEF Held, Samples
    <3>3. F[n - 1] <= f[n]
      BY <2>7, <2>8, <3>1, <3>2
    <3>4. F[n] = f[n] + 1
      BY <1>1, <2>5, <2>8, <2>10, <3>3 DEF Larger
    <3>5. QED
      BY <2>3, <2>8, <3>1, <3>4
  <2>11. QED
    BY <2>9, <2>10
<1>3. ~Over(k)
  BY <1>2
<1>4. QED
  BY <1>3 DEF F

\* Numbers in order above the mark stay what they are.
LEMMA NothingRebased ==
    ASSUME NEW f \in Batch, NEW ack \in Nat,
           \A i \in Held(f) : ack < f[i],
           \A i, j \in Held(f) : i < j => f[i] < f[j]
    PROVE  Rebased(f, ack) = f
<1>1. ASSUME NEW i \in Held(f) PROVE Larger(f[i], Floor(f, ack)[i - 1]) = f[i]
  <2>1. i \in Samples /\ f[i] \in Nat /\ ack < f[i] /\ i - 1 \in 0 .. MaxSamples
    BY TelemetryAssumption DEF Held, Samples, Batch
  <2>2. \A j \in Held(f) : j <= i - 1 => f[j] < f[i]
    BY <2>1 DEF Held, Samples
  <2>3. Floor(f, ack)[i - 1] <= f[i]
    BY <2>1, <2>2, FloorBelow
  <2>4. Floor(f, ack)[i - 1] \in Nat
    BY <2>1, FloorType
  <2>5. QED
    BY <2>1, <2>3, <2>4 DEF Larger
<1>2. \A i \in Samples : Rebased(f, ack)[i] = f[i]
  BY <1>1 DEF Rebased, Held
<1>3. Rebased(f, ack) = [i \in Samples |-> Rebased(f, ack)[i]]
  BY DEF Rebased
<1>4. f = [i \in Samples |-> f[i]]
  BY DEF Batch
<1>5. QED
  BY <1>2, <1>3, <1>4

LEMMA RebaseStep ==
    ASSUME TypeInv, TypeInv', NEW d \in Devices, NEW num \in Batch, Orderly(d, num),
           RebaseOutbox(d)
    PROVE  Orderly(d, num)'
<1> DEFINE r == receipt[d]
           S == {ackSeq[d], r.next - 1} \cup r.acked
           ack == CHOOSE n \in S : \A m \in S : n >= m
           kept == Unacked(outbox[d], r.acked)
           new == Rebased(kept, ack)
           floor == Floor(kept, ack)[MaxSamples]
           adopt == [r EXCEPT !.st = "ack", !.ack = ack, !.seqs = new,
                              !.rebased = (new # kept), !.floor = floor]
<1>1. /\ outbox[d] \in Batch /\ r \in Receipt /\ Accepted(d) \subseteq Samples
      /\ ackSeq[d] \in Nat /\ ackFile[d] \in Nat /\ doc.last[d] \in Nat /\ nextSeq[d] \in Nat
      /\ \A i \in Samples : num[i] \in Nat
  BY Values DEF Batch
<1>2. r.st = "taken"
  BY DEF RebaseOutbox
<1>3. /\ AtReceipt(d, num) /\ AtClient(d, num) /\ SentFirst(d, num) /\ InRequests(d, num)
      /\ InOutbox(d, num) /\ Numbered(d, num) /\ OnDisk(d, num) /\ InDocument(d, num)
  BY DEF Orderly
<1>4. /\ exchange[d].st = "idle" /\ exchange[d].seqs = None
      /\ r.next <= doc.last[d] + 1
      /\ \A n \in r.acked : n <= doc.last[d]
      /\ \A i \in Sent(d, num) : outbox[d][i] # 0 => outbox[d][i] \in r.acked
      /\ ackSeq[d] = ackFile[d]
  BY <1>2, <1>3 DEF AtReceipt
<1>5. ack \in Nat /\ ack \in S /\ \A m \in S : ack >= m
  BY AckType
<1>6. ack <= doc.last[d] /\ ackSeq[d] <= ack /\ \A n \in r.acked : n <= ack
  <2>1. ackSeq[d] <= doc.last[d] /\ r.next \in Nat /\ r.acked \in SUBSET Nat
    BY <1>1, <1>3 DEF InOutbox, Receipt
  <2>2. \A m \in S : m \in Int /\ m <= doc.last[d]
    BY <1>1, <1>4, <2>1
  <2>3. ackSeq[d] \in S /\ r.acked \subseteq S
    OBVIOUS
  <2> HIDE DEF S, ack
  <2>4. QED
    BY <1>5, <2>1, <2>2, <2>3
<1>7. /\ \A i \in Samples : kept[i] = IF outbox[d][i] \in r.acked THEN 0 ELSE outbox[d][i]
      /\ kept \in Batch
  BY <1>1, UnackedType DEF Unacked
<1> HIDE DEF ack, S, kept
<1>8. Copies(kept, d, num) /\ \A i \in Held(kept) : i \in Accepted(d) /\ kept[i] = num[i]
  BY <1>3, <1>7 DEF InOutbox, Copies, Held
<1>9. \A i \in Held(kept) : ack < kept[i]
  <2> SUFFICES ASSUME NEW i \in Held(kept) PROVE ack < num[i]
    BY <1>8
  <2>1. i \in Accepted(d) /\ i \in Samples /\ outbox[d][i] # 0 /\ outbox[d][i] \notin r.acked
    BY <1>1, <1>7, <1>8 DEF Held
  <2>2. i \notin Sent(d, num)
    BY <1>4, <2>1
  <2>3. ~(num[i] <= doc.last[d])
    BY <2>1, <2>2 DEF Sent
  <2>4. QED
    BY <1>1, <1>5, <1>6, <2>1, <2>3
<1>10. \A i, j \in Held(kept) : i < j => kept[i] < kept[j]
  BY <1>3, <1>8 DEF Numbered
<1>11. new = kept
  BY <1>5, <1>7, <1>9, <1>10, NothingRebased
<1>12. \A i \in Accepted(d) : kept[i] # 0 <=> num[i] > ack
  <2> SUFFICES ASSUME NEW i \in Accepted(d) PROVE kept[i] # 0 <=> num[i] > ack
    OBVIOUS
  <2>1. kept[i] # 0 => num[i] > ack
    BY <1>1, <1>5, <1>8, <1>9 DEF Held
  <2>2. ASSUME num[i] > ack PROVE kept[i] # 0
    <3>1. num[i] > ackSeq[d] /\ num[i] \notin r.acked
      BY <1>1, <1>5, <1>6, <2>2
    <3>2. outbox[d][i] # 0 /\ outbox[d][i] = num[i]
      BY <1>1, <1>3, <3>1 DEF InOutbox, Copies
    <3>3. QED
      BY <1>1, <1>7, <3>1, <3>2
  <2>3. QED
    BY <2>1, <2>2
<1>13. floor <= nextSeq[d]
  <2>1. ack < nextSeq[d]
    <3>1. doc.last[d] < nextSeq[d]
      BY <1>1, <1>3 DEF InDocument, Numbered
    <3>2. QED
      BY <1>1, <1>5, <1>6, <3>1
  <2>2. \A i \in Held(kept) : i <= MaxSamples => kept[i] < nextSeq[d]
    BY <1>3, <1>8 DEF Numbered
  <2>3. MaxSamples \in 0 .. MaxSamples
    BY TelemetryAssumption
  <2>4. QED
    BY <1>1, <1>5, <1>7, <1>9, <1>10, <2>1, <2>2, <2>3, FloorBelow
<1>14. /\ UNCHANGED <<file, tail>>
       /\ receipt'[d] = adopt \/ receipt'[d] = IdleReceipt
  BY <1>11 DEF RebaseOutbox, ack, S, kept, TypeInv, TypeOK
<1>15. UNCHANGED <<clock, ackFile, whole, hubVars, hold, persisted, slot, exchange, serverVars>>
  BY DEF RebaseOutbox
<1> HIDE DEF new, floor
<1>16. /\ adopt.st = "ack" /\ adopt.ack = ack /\ adopt.seqs = kept /\ adopt.rebased = FALSE
       /\ adopt.floor = floor
  BY <1>1, <1>11 DEF Receipt
<1> HIDE DEF adopt
<1>17. AtReceipt(d, num)'
  <2>1. /\ exchange'[d].st = "idle" /\ exchange'[d].seqs = None
        /\ ackSeq'[d] = ackFile'[d] /\ ackSeq'[d] = ackSeq[d]
        /\ nextSeq'[d] = nextSeq[d] /\ doc' = doc /\ Accepted(d)' = Accepted(d)
    BY <1>4, <1>15 DEF serverVars, hubVars, Accepted
  <2>2. CASE receipt'[d] = adopt
    <3>1. Copies(receipt[d].seqs, d, num)'
      BY <1>8, <1>16, <2>1, <2>2 DEF Copies
    <3>2. QED
      BY <1>6, <1>12, <1>13, <1>16, <2>1, <2>2, <3>1 DEF AtReceipt, HubLocked
  <2>3. CASE receipt'[d] = IdleReceipt
    <3>1. receipt'[d].st = "idle"
      BY <2>3 DEF IdleReceipt
    <3>2. QED
      BY <2>1, <3>1 DEF AtReceipt, HubLocked
  <2>4. QED
    BY <1>14, <2>2, <2>3
<1>18. NoNewRequest(d) /\ SameRequests(d)
  BY <1>15 DEF NoNewRequest, SameRequests, serverVars
<1>19. Sent(d, num)' \subseteq Sent(d, num)
  BY <1>15, <1>18, SentShrinks DEF serverVars
<1>20. InRequests(d, num)'
  BY <1>3, <1>15, <1>18, RequestsLeft DEF serverVars
<1>21. doc'.last[d] >= doc.last[d] /\ doc' = doc
  BY <1>1, <1>15 DEF serverVars
<1>22. AtClient(d, num)'
  BY <1>3, <1>15, <1>18, <1>21, ClientKept
<1>23. SentFirst(d, num)'
  BY <1>3, <1>15, <1>19, SentKept DEF hubVars
<1>24. QED
  <2>1. UNCHANGED <<clock, fileVars, hubVars, hold, persisted, doc, heartbeat>>
    BY <1>14, <1>15 DEF fileVars, serverVars
  <2>2. QED
    BY <1>17, <1>20, <1>22, <1>23, <2>1, ExchangeStep

LEMMA PersistStep ==
    ASSUME TypeInv, TypeInv', NEW d \in Devices, NEW num \in Batch, Orderly(d, num),
           PersistAck(d), whole'[d]
    PROVE  Orderly(d, num)'
<1> DEFINE r == receipt[d]
<1>1. /\ r \in Receipt /\ ackSeq[d] \in Nat /\ ackFile[d] \in Nat /\ doc.last[d] \in Nat
      /\ Accepted(d) \subseteq Samples /\ \A i \in Samples : num[i] \in Nat
  BY Values DEF Batch
<1>2. r.ack \in Nat
  BY <1>1 DEF Receipt
<1>3. /\ r.st = "ack"
      /\ UNCHANGED <<clock, file, tail, hubVars, hold, persisted, slot, exchange, serverVars>>
  BY DEF PersistAck
<1>4. /\ ackFile'[d] = IF r.ack > ackSeq[d] THEN r.ack ELSE ackFile[d]
      /\ receipt'[d] = [r EXCEPT !.st = "adopt"]
  BY DEF PersistAck, TypeInv, TypeOK
<1>5. /\ receipt'[d].st = "adopt" /\ receipt'[d].ack = r.ack /\ receipt'[d].seqs = r.seqs
      /\ receipt'[d].rebased = r.rebased /\ receipt'[d].floor = r.floor
  BY <1>1, <1>4 DEF Receipt
<1>6. /\ AtReceipt(d, num) /\ AtClient(d, num) /\ SentFirst(d, num) /\ InRequests(d, num)
      /\ InOutbox(d, num) /\ Numbered(d, num) /\ OnDisk(d, num) /\ InDocument(d, num)
  BY DEF Orderly
<1>7. HubLocked(d)
  BY <1>3 DEF HubLocked
<1>8. /\ exchange[d].st = "idle" /\ exchange[d].seqs = None /\ ~r.rebased /\ r.floor <= nextSeq[d]
      /\ ackSeq[d] <= r.ack /\ r.ack <= doc.last[d] /\ Copies(r.seqs, d, num)
      /\ \A i \in Accepted(d) : r.seqs[i] # 0 <=> num[i] > r.ack
      /\ ackSeq[d] = ackFile[d]
  BY <1>3, <1>6, <1>7 DEF AtReceipt
<1> HIDE DEF r
<1>9. ackFile'[d] = r.ack /\ ackFile[d] <= ackFile'[d]
  BY <1>1, <1>2, <1>4, <1>8
<1>10. UNCHANGED <<outbox, ackSeq, nextSeq, doc, heartbeat, handler>> /\ Accepted(d)' = Accepted(d)
  BY <1>3 DEF hubVars, serverVars, Accepted
<1>11. AtReceipt(d, num)'
  <2>1. Copies(receipt[d].seqs, d, num)'
    BY <1>5, <1>8, <1>10 DEF Copies
  <2>2. exchange'[d].st = "idle" /\ exchange'[d].seqs = None
    BY <1>3, <1>8
  <2>3. QED
    BY <1>5, <1>8, <1>9, <1>10, <2>1, <2>2 DEF AtReceipt, HubLocked
<1>12. OnDisk(d, num)'
  <2>1. \A i \in Accepted(d) : file[d][i] # 0 \/ num[i] <= ackFile'[d]
    BY <1>1, <1>2, <1>6, <1>9 DEF OnDisk
  <2>2. QED
    BY <1>3, <1>6, <1>10, <2>1 DEF OnDisk, Copies
<1>13. InOutbox(d, num)'
  BY <1>6, <1>8, <1>9, <1>10 DEF InOutbox, Copies
<1>14. Numbered(d, num)' /\ InDocument(d, num)'
  BY <1>3, <1>6, <1>10, NumberedKept, DocumentKept
<1>15. NoNewRequest(d) /\ SameRequests(d)
  BY <1>10 DEF NoNewRequest, SameRequests
<1>16. Sent(d, num)' \subseteq Sent(d, num)
  BY <1>3, <1>10, <1>15, SentShrinks
<1>17. InRequests(d, num)'
  BY <1>3, <1>6, <1>10, <1>15, RequestsLeft
<1>18. doc'.last[d] >= doc.last[d]
  BY <1>1, <1>10
<1>19. AtClient(d, num)'
  BY <1>3, <1>6, <1>15, <1>18, ClientKept
<1>20. SentFirst(d, num)'
  BY <1>3, <1>6, <1>10, <1>16, SentKept
<1>21. QED
  BY <1>11, <1>12, <1>13, <1>14, <1>17, <1>19, <1>20 DEF Orderly

LEMMA AdoptStep ==
    ASSUME TypeInv, TypeInv', NEW d \in Devices, NEW num \in Batch, Orderly(d, num),
           AdoptReceipt(d)
    PROVE  Orderly(d, num)'
<1> DEFINE r == receipt[d]
<1>1. /\ r \in Receipt /\ ackSeq[d] \in Nat /\ ackFile[d] \in Nat /\ doc.last[d] \in Nat
      /\ nextSeq[d] \in Nat
      /\ Accepted(d) \subseteq Samples /\ \A i \in Samples : num[i] \in Nat
  BY Values DEF Batch
<1>2. r.ack \in Nat /\ r.floor \in Nat /\ r.seqs \in Batch
  BY <1>1 DEF Receipt
<1>3. /\ r.st = "adopt"
      /\ outbox'[d] = r.seqs
      /\ ackSeq'[d] = Larger(ackSeq[d], r.ack)
      /\ nextSeq'[d] = Larger(nextSeq[d], r.floor)
      /\ receipt'[d] = IdleReceipt
      /\ \/ file'[d] = r.seqs /\ tail'[d] = "clean"
         \/ file'[d] = file[d] /\ tail'[d] = tail[d]
      /\ UNCHANGED <<clock, ackFile, whole, hold, persisted, slot, exchange, serverVars>>
  BY DEF AdoptReceipt, TypeInv, TypeOK
<1>4. /\ AtReceipt(d, num) /\ AtClient(d, num) /\ SentFirst(d, num) /\ InRequests(d, num)
      /\ InOutbox(d, num) /\ Numbered(d, num) /\ OnDisk(d, num) /\ InDocument(d, num)
  BY DEF Orderly
<1>5. HubLocked(d)
  BY <1>3 DEF HubLocked
<1>6. /\ ~r.rebased /\ r.floor <= nextSeq[d]
      /\ ackSeq[d] <= r.ack /\ r.ack <= doc.last[d] /\ Copies(r.seqs, d, num)
      /\ \A i \in Accepted(d) : r.seqs[i] # 0 <=> num[i] > r.ack
      /\ r.ack = ackFile[d]
  BY <1>3, <1>4, <1>5 DEF AtReceipt
<1> HIDE DEF r
<1>7. ackSeq'[d] = r.ack /\ nextSeq'[d] = nextSeq[d] /\ ackFile'[d] = r.ack
  BY <1>1, <1>2, <1>3, <1>6 DEF Larger
<1>8. UNCHANGED <<doc, heartbeat, handler>> /\ Accepted(d)' = Accepted(d)
  BY <1>3 DEF serverVars, Accepted
<1>9. AtReceipt(d, num)'
  BY <1>3, <1>7 DEF AtReceipt, HubLocked, IdleReceipt
<1>10. OnDisk(d, num)'
  <2>1. tail'[d] = "clean"
    BY <1>3, <1>4 DEF OnDisk
  <2>2. Copies(file[d], d, num)'
    <3>1. Copies(file[d], d, num)
      BY <1>4 DEF OnDisk
    <3>2. QED
      BY <1>3, <1>6, <1>8, <3>1 DEF Copies
  <2>3. \A i \in Accepted(d) : r.seqs[i] # 0 \/ num[i] <= r.ack
    BY <1>1, <1>2, <1>6
  <2>4. \A i \in Accepted(d) : file[d][i] # 0 \/ num[i] <= r.ack
    BY <1>4, <1>6 DEF OnDisk
  <2>5. \A i \in Accepted(d)' : file'[d][i] # 0 \/ num[i] <= ackFile'[d]
    BY <1>3, <1>7, <1>8, <2>3, <2>4
  <2>6. QED
    BY <2>1, <2>2, <2>5 DEF OnDisk
<1>11. InOutbox(d, num)'
  BY <1>1, <1>2, <1>3, <1>6, <1>7, <1>8 DEF InOutbox, Copies
<1>12. Numbered(d, num)' /\ InDocument(d, num)'
  BY <1>3, <1>4, <1>7, <1>8, NumberedKept, DocumentKept
<1>13. NoNewRequest(d) /\ SameRequests(d)
  BY <1>8 DEF NoNewRequest, SameRequests
<1>14. Sent(d, num)' \subseteq Sent(d, num)
  BY <1>3, <1>8, <1>13, SentShrinks
<1>15. InRequests(d, num)'
  BY <1>3, <1>4, <1>8, <1>13, RequestsLeft
<1>16. doc'.last[d] >= doc.last[d]
  BY <1>1, <1>8
<1>17. AtClient(d, num)'
  BY <1>3, <1>4, <1>13, <1>16, ClientKept
<1>18. SentFirst(d, num)'
  <2>1. \A i \in Samples : outbox'[d][i] # 0 => outbox[d][i] # 0
    <3> SUFFICES ASSUME NEW i \in Samples, outbox'[d][i] # 0 PROVE outbox[d][i] # 0
      OBVIOUS
    <3>1. i \in Accepted(d) /\ r.seqs[i] # 0
      BY <1>3, <1>6 DEF Copies
    <3>2. num[i] > ackSeq[d]
      BY <1>1, <1>2, <1>6, <3>1
    <3>3. QED
      BY <1>4, <3>1, <3>2 DEF InOutbox
  <2>2. slot'[d] = slot[d]
    BY <1>3
  <2>3. QED
    BY <1>4, <1>14, <2>1, <2>2, SentStaysFirst
<1>19. QED
  BY <1>9, <1>10, <1>11, <1>12, <1>15, <1>17, <1>18 DEF Orderly

-----------------------------------------------------------------------------
(* The steps of the Worker.                                                  *)

LEMMA WorkerFrame ==
    ASSUME TypeInv, TypeInv', NEW d \in Devices, NEW num \in Batch, Orderly(d, num),
           UNCHANGED <<clock, fileVars, hubVars, hold, persisted, clientVars>>,
           SameRequests(d), doc'.last[d] >= doc.last[d],
           Sent(d, num)' \subseteq Sent(d, num),
           InRequests(d, num)', InDocument(d, num)'
    PROVE  Orderly(d, num)'
<1>1. UNCHANGED <<file, tail, ackFile, outbox, nextSeq, ackSeq, slot, exchange, receipt>>
  BY DEF fileVars, hubVars, clientVars
<1>2. Numbered(d, num)' /\ OnDisk(d, num)'
  BY <1>1, NumberedKept, DiskKept DEF Orderly
<1>3. InOutbox(d, num)'
  BY <1>1, OutboxKept DEF Orderly
<1>4. AtClient(d, num)'
  BY <1>1, ClientKept DEF Orderly
<1>5. SentFirst(d, num)'
  BY <1>1, SentKept DEF Orderly
<1>6. nextSeq'[d] >= nextSeq[d]
  BY <1>1, Values
<1>7. AtReceipt(d, num)'
  BY <1>1, <1>6, ReceiptKept DEF Orderly
<1>8. QED
  BY <1>2, <1>3, <1>4, <1>5, <1>7 DEF Orderly

\* One invocation changes or ends; the requests of d are in order if it is.
LEMMA OneRequest ==
    ASSUME TypeInv, TypeInv', NEW d \in Devices, NEW num \in Batch, InRequests(d, num),
           persisted'[d] = persisted[d], doc'.last[d] >= doc.last[d],
           NEW h \in Handlers, \A k \in Handlers \ {h} : handler'[k] = handler[k],
           handler'[h].dev = d => Requested(handler[h], d, num)'
    PROVE  InRequests(d, num)'
<1>1. \A k \in Handlers \ {h} : handler'[k].dev = d =>
          handler[k].dev = d /\ handler'[k] = handler[k]
  OBVIOUS
<1>2. \A k \in {h} : handler'[k].dev = d => Requested(handler[k], d, num)'
  OBVIOUS
<1>3. {h} \in SUBSET Handlers
  OBVIOUS
<1>4. QED
  BY <1>1, <1>2, <1>3, RequestsKept

LEMMA ReadStep ==
    ASSUME TypeInv, TypeInv', NEW d \in Devices, NEW num \in Batch, Orderly(d, num),
           NEW h \in Handlers, handler[h].dev = d, ReadDocument(h)
    PROVE  Orderly(d, num)'
<1> DEFINE r == handler[h]
           none == \A i \in Held(r.seqs) : r.seqs[i] <= doc.last[d]
           new == handler'[h]
<1>1. r \in Invocation /\ r.st = "read" /\ doc.last[d] \in Nat
  BY Values DEF ReadDocument, TypeInv, TypeOK
<1>2. UNCHANGED <<clock, fileVars, hubVars, hold, persisted, clientVars, doc, heartbeat>>
  BY DEF ReadDocument
<1>3. /\ new = IF none THEN [r EXCEPT !.st = "beat", !.last = doc.last[d]]
                       ELSE [r EXCEPT !.st = "put", !.doc = doc]
      /\ \A k \in Handlers \ {h} : handler'[k] = handler[k]
  BY DEF ReadDocument, TypeInv, TypeOK
<1>4. /\ new.dev = d /\ new.seqs = r.seqs /\ new.acked = r.acked
      /\ none => new.st = "beat" /\ new.last = doc.last[d]
      /\ ~none => new.st = "put"
  BY <1>1, <1>3 DEF Invocation
<1> HIDE DEF new
<1>5. InRequests(d, num) /\ InDocument(d, num) /\ Requested(r, d, num)
  BY DEF Orderly, InRequests
<1>6. Requested(handler[h], d, num)'
  <2>1. new = handler'[h]
    BY DEF new
  <2>2. /\ \A i \in Samples : new.seqs[i] # 0 => i \in Accepted(d)' /\ new.seqs[i] = num[i]
        /\ \A i \in Held(new.seqs) : \A j \in 1 .. i : new.seqs[j] # 0 \/ num[j] <= doc'.last[d]
        /\ \A n \in new.acked : n <= doc'.last[d]
    BY <1>2, <1>4, <1>5 DEF Requested, Copies, FromFront, Accepted
  <2>3. /\ new.st = "beat" => new.last <= doc'.last[d]
        /\ new.st = "beat" => \A i \in Held(new.seqs) : new.seqs[i] <= new.last
        /\ new.st # "reply"
    BY <1>1, <1>2, <1>4
  <2> HIDE DEF r, none
  <2>4. QED
    BY <2>1, <2>2, <2>3 DEF Requested, Copies, FromFront, Held
<1>7. persisted'[d] = persisted[d] /\ doc'.last[d] >= doc.last[d]
  BY <1>1, <1>2
<1>8. InRequests(d, num)'
  BY <1>3, <1>5, <1>6, <1>7, OneRequest
<1>9. SameRequests(d)
  BY <1>3, <1>4 DEF SameRequests, new
<1>10. UNCHANGED <<exchange, doc, heartbeat>>
  BY <1>2 DEF clientVars
<1>11. Sent(d, num)' \subseteq Sent(d, num)
  BY <1>2, <1>9, <1>10, SentShrinks
<1>12. InDocument(d, num)'
  BY <1>2, <1>5, <1>10, DocumentKept
<1>13. QED
  BY <1>2, <1>7, <1>8, <1>9, <1>11, <1>12, WorkerFrame

LEMMA BeatStep ==
    ASSUME TypeInv, TypeInv', NEW d \in Devices, NEW num \in Batch, Orderly(d, num),
           NEW h \in Handlers, handler[h].dev = d, UpsertHeartbeat(h)
    PROVE  Orderly(d, num)'
<1> DEFINE r == handler[h]
           last == Larger(heartbeat[d], r.last)
           acked == {r.seqs[i] : i \in {j \in Held(r.seqs) : r.seqs[j] <= r.last}}
           new == handler'[h]
<1>1. /\ r \in Invocation /\ r.st = "beat" /\ doc.last[d] \in Nat /\ heartbeat[d] \in Nat
  BY Values DEF UpsertHeartbeat, TypeInv, TypeOK
<1>2. UNCHANGED <<clock, fileVars, hubVars, hold, persisted, clientVars, doc>>
  BY DEF UpsertHeartbeat
<1>3. /\ new = [IdleHandler EXCEPT !.st = "reply", !.dev = d, !.seqs = r.seqs,
                                   !.next = last + 1, !.acked = acked]
      /\ heartbeat'[d] = last
      /\ \A k \in Handlers \ {h} : handler'[k] = handler[k]
  BY DEF UpsertHeartbeat, TypeInv, TypeOK
<1>4. InRequests(d, num) /\ InDocument(d, num) /\ Requested(r, d, num)
  BY DEF Orderly, InRequests
<1>5. r.last \in Nat /\ r.seqs \in Batch /\ r.last <= doc.last[d]
      /\ \A i \in Held(r.seqs) : r.seqs[i] <= r.last
  BY <1>1, <1>4 DEF Requested, Invocation
<1>6. last \in Nat /\ last <= doc.last[d]
  BY <1>1, <1>4, <1>5 DEF Larger, InDocument
<1>7. /\ \A n \in acked : n <= doc.last[d]
      /\ \A i \in Held(r.seqs) : r.seqs[i] \in acked
  <2>1. acked \in SUBSET Nat /\ \A n \in acked : n <= r.last
    BY <1>5, AckedType
  <2>2. \A i \in Held(r.seqs) : r.seqs[i] \in acked
    BY <1>5
  <2> HIDE DEF acked
  <2>3. QED
    BY <1>1, <1>5, <2>1, <2>2
<1> HIDE DEF acked, last
<1>8. /\ new.dev = d /\ new.seqs = r.seqs /\ new.acked = acked /\ new.st = "reply"
      /\ new.next = last + 1
  BY <1>3 DEF IdleHandler
<1> HIDE DEF new
<1>9. Requested(handler[h], d, num)'
  <2>1. new = handler'[h]
    BY DEF new
  <2>2. /\ \A i \in Samples : new.seqs[i] # 0 => i \in Accepted(d)' /\ new.seqs[i] = num[i]
        /\ \A i \in Held(new.seqs) : \A j \in 1 .. i : new.seqs[j] # 0 \/ num[j] <= doc'.last[d]
        /\ \A n \in new.acked : n <= doc'.last[d]
    BY <1>2, <1>4, <1>7, <1>8 DEF Requested, Copies, FromFront, Accepted
  <2>3. /\ new.next <= doc'.last[d] + 1
        /\ \A i \in Held(new.seqs) : new.seqs[i] <= doc'.last[d] /\ new.seqs[i] \in new.acked
    <3>1. \A i \in Held(r.seqs) : r.seqs[i] \in Nat
      BY <1>5 DEF Batch, Held
    <3>2. QED
      BY <1>1, <1>2, <1>5, <1>6, <1>7, <1>8, <3>1
  <2> HIDE DEF r
  <2>4. QED
    BY <1>8, <2>1, <2>2, <2>3 DEF Requested, Copies, FromFront, Held
<1>10. persisted'[d] = persisted[d] /\ doc'.last[d] >= doc.last[d]
  BY <1>1, <1>2
<1>11. InRequests(d, num)'
  BY <1>3, <1>4, <1>9, <1>10, OneRequest
<1>12. SameRequests(d)
  BY <1>3, <1>8 DEF SameRequests, new
<1>13. UNCHANGED <<exchange, doc>>
  BY <1>2 DEF clientVars
<1>14. Sent(d, num)' \subseteq Sent(d, num)
  BY <1>2, <1>12, <1>13, SentShrinks
<1>15. InDocument(d, num)'
  BY <1>2, <1>3, <1>4, <1>6, <1>13 DEF InDocument, Accepted
<1>16. QED
  BY <1>2, <1>10, <1>11, <1>12, <1>14, <1>15, WorkerFrame

\* The merge of a payload in order: the document then counts every accepted
\* sample up to the payload's last number, and no other.
LEMMA MergeStep ==
    ASSUME TypeInv, TypeInv', NEW d \in Devices, NEW num \in Batch, Orderly(d, num),
           NEW h \in Handlers, handler[h].dev = d, PutDocument(h), EtagMatches(handler[h])
    PROVE  Orderly(d, num)'
<1> DEFINE r == handler[h]
           L == Highest(r.seqs, doc.last[d])
           new == handler'[h]
<1>1. /\ r \in Invocation /\ r.st = "put" /\ doc.last[d] \in Nat /\ doc.counted[d] \in Batch
      /\ heartbeat[d] \in Nat /\ ackFile[d] \in Nat
      /\ Accepted(d) \subseteq Samples /\ \A i \in Samples : num[i] \in Nat
  BY Values DEF PutDocument, TypeInv, TypeOK, Batch
<1>2. UNCHANGED <<clock, fileVars, hubVars, hold, persisted, clientVars, heartbeat>>
  BY DEF PutDocument
<1>3. /\ r.doc = doc /\ doc' = MergedDocument(r)
      /\ new = [r EXCEPT !.st = "beat", !.doc = EmptyDoc, !.last = L]
      /\ \A k \in Handlers \ {h} : handler'[k] = handler[k]
  BY DEF PutDocument, EtagMatches, TypeInv, TypeOK
<1>4. InRequests(d, num) /\ InDocument(d, num) /\ Requested(r, d, num)
  BY DEF Orderly, InRequests
<1>5. /\ r.seqs \in Batch /\ Copies(r.seqs, d, num) /\ FromFront(r.seqs, d, num)
      /\ \A i \in Held(r.seqs) : i \in Accepted(d) /\ i \in Samples /\ r.seqs[i] = num[i]
  BY <1>1, <1>4 DEF Requested, Invocation, Copies, Held
<1>6. /\ L \in Nat /\ L >= doc.last[d]
      /\ \A i \in Held(r.seqs) : L >= r.seqs[i]
      /\ L = doc.last[d] \/ \E i \in Held(r.seqs) : L = r.seqs[i]
  BY <1>1, <1>5, HighestFacts
<1>7. /\ doc'.last[d] = L
      /\ \A i \in Samples : doc'.counted[d][i] =
             IF i \in Fresh(r.seqs, doc.last[d]) THEN doc.counted[d][i] + 1 ELSE doc.counted[d][i]
  <2>1. doc.last \in [Devices -> Nat] /\ doc.counted \in [Devices -> Batch]
    BY DEF TypeInv, TypeOK, Document
  <2> HIDE DEF L
  <2>2. doc'.last = [doc.last EXCEPT ![d] = L]
    BY <1>3 DEF MergedDocument, L
  <2>3. doc'.counted = [doc.counted EXCEPT ![d] =
           [i \in Samples |-> IF i \in Fresh(r.seqs, doc.last[d])
                              THEN doc.counted[d][i] + 1 ELSE doc.counted[d][i]]]
    BY <1>3 DEF MergedDocument
  <2>4. QED
    BY <2>1, <2>2, <2>3
<1>8. /\ new.dev = d /\ new.seqs = r.seqs /\ new.acked = r.acked /\ new.st = "beat"
      /\ new.last = L
  <2> HIDE DEF L
  <2>1. QED
    BY <1>1, <1>3 DEF Invocation
<1> HIDE DEF new, L, r
<1>9. \A i \in Accepted(d) : num[i] <= L => num[i] <= doc.last[d] \/ i \in Held(r.seqs)
  <2> SUFFICES ASSUME NEW i \in Accepted(d), num[i] <= L, ~(num[i] <= doc.last[d])
               PROVE  i \in Held(r.seqs)
    OBVIOUS
  <2>1. PICK k \in Held(r.seqs) : L = r.seqs[k]
    BY <1>1, <1>6
  <2>2. num[i] <= num[k] /\ k \in Accepted(d) /\ k \in Samples
    BY <1>5, <2>1
  <2>3. i <= k
    <3>1. ~(k < i)
      BY <1>1, <2>2 DEF Orderly, Numbered
    <3>2. QED
      BY <1>1, <2>2, <3>1 DEF Samples
  <2>4. i \in 1 .. k /\ i \in Samples
    BY <1>1, <2>2, <2>3 DEF Samples
  <2>5. QED
    BY <1>5, <2>1, <2>4 DEF FromFront, Held
<1>10. \A i \in Samples : i \in Fresh(r.seqs, doc.last[d]) <=>
                             i \in Held(r.seqs) /\ num[i] > doc.last[d]
  <2> SUFFICES ASSUME NEW i \in Samples
               PROVE  i \in Fresh(r.seqs, doc.last[d]) <=>
                         i \in Held(r.seqs) /\ num[i] > doc.last[d]
    OBVIOUS
  <2>1. ASSUME i \in Held(r.seqs), NEW j \in Held(r.seqs), r.seqs[j] = r.seqs[i]
        PROVE  i <= j
    <3>1. i \in Accepted(d) /\ j \in Accepted(d) /\ i \in Samples /\ j \in Samples /\ num[i] = num[j]
      BY <1>5, <2>1
    <3>2. ~(j < i)
      BY <1>1, <3>1 DEF Orderly, Numbered
    <3>3. QED
      BY <3>1, <3>2 DEF Samples
  <2>2. QED
    BY <1>5, <2>1 DEF Fresh
<1>11. InDocument(d, num)'
  <2>1. doc'.last[d] = 0 \/ \E i \in Accepted(d) : doc'.last[d] = num[i]
    BY <1>4, <1>5, <1>6, <1>7 DEF InDocument
  <2>2. ASSUME NEW i \in Samples
        PROVE  doc'.counted[d][i] = IF i \in Accepted(d) /\ num[i] <= L THEN 1 ELSE 0
    <3>1. doc.counted[d][i] = IF i \in Accepted(d) /\ num[i] <= doc.last[d] THEN 1 ELSE 0
      BY <1>4 DEF InDocument
    <3>2. num[i] \in Nat
      BY <1>1
    <3>3. CASE i \in Held(r.seqs) /\ num[i] > doc.last[d]
      <4>1. i \in Accepted(d) /\ num[i] <= L
        BY <1>5, <1>6, <3>2, <3>3
      <4>2. doc.counted[d][i] = 0
        BY <1>1, <3>1, <3>2, <3>3
      <4>3. QED
        BY <1>7, <1>10, <3>3, <4>1, <4>2
    <3>4. CASE ~(i \in Held(r.seqs) /\ num[i] > doc.last[d])
      <4>1. doc'.counted[d][i] = doc.counted[d][i]
        BY <1>7, <1>10, <3>4
      <4>2. i \in Accepted(d) => (num[i] <= L <=> num[i] <= doc.last[d])
        BY <1>1, <1>6, <1>9, <3>2, <3>4
      <4>3. QED
        BY <3>1, <4>1, <4>2
    <3>5. QED
      BY <3>3, <3>4
  <2>3. heartbeat'[d] <= doc'.last[d]
    BY <1>1, <1>2, <1>4, <1>6, <1>7 DEF InDocument
  <2>4. Accepted(d)' = Accepted(d)
    BY <1>2 DEF Accepted
  <2>5. QED
    BY <1>7, <2>1, <2>2, <2>3, <2>4 DEF InDocument
<1>12. persisted'[d] = persisted[d] /\ doc'.last[d] >= doc.last[d]
  BY <1>2, <1>6, <1>7
<1>13. Requested(handler[h], d, num)'
  <2>1. new = handler'[h]
    BY DEF new
  <2>2. /\ \A i \in Samples : r.seqs[i] # 0 => i \in Accepted(d)' /\ r.seqs[i] = num[i]
        /\ \A i \in Held(r.seqs) : \A j \in 1 .. i : r.seqs[j] # 0 \/ num[j] <= doc'.last[d]
        /\ \A n \in r.acked : n <= doc'.last[d]
    BY <1>1, <1>4, <1>12, RequestKept
  <2>3. /\ new.last <= doc'.last[d]
        /\ \A i \in Held(new.seqs) : new.seqs[i] <= new.last
    <3>1. \A i \in Held(r.seqs) : r.seqs[i] \in Nat
      BY <1>5 DEF Batch, Held
    <3>2. QED
      BY <1>6, <1>7, <1>8, <3>1
  <2>4. QED
    BY <1>8, <2>1, <2>2, <2>3 DEF Requested, Copies, FromFront, Held
<1>14. InRequests(d, num)'
  BY <1>3, <1>4, <1>12, <1>13, OneRequest
<1>15. SameRequests(d)
  <2>1. \A k \in Handlers : k # h => handler'[k] = handler[k]
    BY <1>3
  <2>2. handler'[h].seqs = handler[h].seqs
    BY <1>8 DEF new, r
  <2>3. QED
    BY <2>1, <2>2 DEF SameRequests
<1>16. Sent(d, num)' \subseteq Sent(d, num)
  <2> SUFFICES ASSUME NEW i \in Sent(d, num)' PROVE i \in Sent(d, num)
    OBVIOUS
  <2>1. i \in Accepted(d) /\ (\/ num[i] <= L \/ exchange[d].seqs[i] # 0
                             \/ \E k \in Handlers : handler'[k].dev = d /\ handler'[k].seqs[i] # 0)
    BY <1>2, <1>7 DEF Sent, Accepted, clientVars
  <2>2. CASE num[i] <= L
    <3>1. num[i] <= doc.last[d] \/ r.seqs[i] # 0
      BY <1>9, <2>1, <2>2 DEF Held
    <3>2. QED
      BY <2>1, <3>1 DEF Sent, r
  <2>3. CASE exchange[d].seqs[i] # 0
    BY <2>1, <2>3 DEF Sent
  <2>4. CASE \E k \in Handlers : handler'[k].dev = d /\ handler'[k].seqs[i] # 0
    BY <1>15, <2>1, <2>4 DEF Sent, SameRequests
  <2>5. QED
    BY <2>1, <2>2, <2>3, <2>4
<1>17. QED
  BY <1>2, <1>11, <1>12, <1>14, <1>15, <1>16, WorkerFrame

\* A step that ends a request, or reads the document once more for it.
LEMMA LostRaceStep ==
    ASSUME TypeInv, TypeInv', NEW d \in Devices, NEW num \in Batch, Orderly(d, num),
           NEW h \in Handlers, handler[h].dev = d, PutDocument(h), ~EtagMatches(handler[h])
    PROVE  Orderly(d, num)'
<1> DEFINE r == handler[h]
           again == [r EXCEPT !.st = "read", !.doc = EmptyDoc, !.tries = r.tries + 1]
           new == handler'[h]
<1>1. /\ r \in Invocation /\ r.st = "put" /\ doc.last[d] \in Nat
  BY Values DEF PutDocument, TypeInv, TypeOK
<1>2. UNCHANGED <<clock, fileVars, hubVars, hold, persisted, clientVars, doc, heartbeat>>
  BY DEF PutDocument
<1>3. /\ new = again \/ new = IdleHandler
      /\ \A k \in Handlers \ {h} : handler'[k] = handler[k]
  BY DEF PutDocument, TypeInv, TypeOK
<1>4. again.dev = d /\ again.seqs = r.seqs /\ again.acked = r.acked /\ again.st = "read"
  BY <1>1 DEF Invocation
<1> HIDE DEF again
<1>5. InRequests(d, num) /\ InDocument(d, num) /\ Requested(r, d, num)
  BY DEF Orderly, InRequests
<1>6. IdleHandler.dev # d
  BY TelemetryAssumption DEF IdleHandler
<1> HIDE DEF new, r
<1>7. handler'[h].dev = d => Requested(handler[h], d, num)'
  <2> SUFFICES ASSUME handler'[h].dev = d PROVE Requested(handler[h], d, num)'
    OBVIOUS
  <2>1. new = handler'[h] /\ new = again
    BY <1>3, <1>6 DEF new
  <2>2. /\ \A i \in Samples : again.seqs[i] # 0 => i \in Accepted(d)' /\ again.seqs[i] = num[i]
        /\ \A i \in Held(again.seqs) : \A j \in 1 .. i : again.seqs[j] # 0 \/ num[j] <= doc'.last[d]
        /\ \A n \in again.acked : n <= doc'.last[d]
    BY <1>2, <1>4, <1>5 DEF Requested, Copies, FromFront, Accepted
  <2>3. QED
    BY <1>4, <2>1, <2>2 DEF Requested, Copies, FromFront, Held
<1>8. persisted'[d] = persisted[d] /\ doc'.last[d] >= doc.last[d]
  BY <1>1, <1>2
<1>9. InRequests(d, num)'
  BY <1>3, <1>5, <1>7, <1>8, OneRequest
<1>10. SameRequests(d)
  <2>1. \A k \in Handlers : k # h => handler'[k] = handler[k]
    BY <1>3
  <2>2. handler'[h].dev = d => handler'[h].seqs = handler[h].seqs
    BY <1>3, <1>4, <1>6 DEF new, r
  <2>3. QED
    BY <2>1, <2>2 DEF SameRequests
<1>11. UNCHANGED <<exchange, doc, heartbeat>>
  BY <1>2 DEF clientVars
<1>12. Sent(d, num)' \subseteq Sent(d, num)
  BY <1>2, <1>10, <1>11, SentShrinks
<1>13. InDocument(d, num)'
  BY <1>2, <1>5, <1>11, DocumentKept
<1>14. QED
  BY <1>2, <1>8, <1>9, <1>10, <1>12, <1>13, WorkerFrame

-----------------------------------------------------------------------------
(* The steps that do not concern device d.                                   *)

Untouched(d) ==
    /\ persisted'[d] = persisted[d] /\ nextSeq'[d] = nextSeq[d] /\ hold'[d] = hold[d]
    /\ tail'[d] = tail[d] /\ file'[d] = file[d] /\ ackFile'[d] = ackFile[d]
    /\ whole'[d] = whole[d]
    /\ outbox'[d] = outbox[d] /\ ackSeq'[d] = ackSeq[d] /\ slot'[d] = slot[d]
    /\ exchange'[d] = exchange[d] /\ receipt'[d] = receipt[d]
    /\ doc'.last[d] = doc.last[d] /\ doc'.counted[d] = doc.counted[d]
    /\ heartbeat'[d] = heartbeat[d]
    /\ NoNewRequest(d)

LEMMA UntouchedStep ==
    ASSUME TypeInv, TypeInv', NEW d \in Devices, NEW num \in Batch, Orderly(d, num),
           Untouched(d)
    PROVE  Orderly(d, num)'
<1>1. Numbered(d, num)'
  BY NumberedKept DEF Orderly, Untouched
<1>2. nextSeq'[d] >= nextSeq[d]
  BY Values DEF Untouched
<1>3. QED
  BY <1>1, <1>2, OrderlyKept DEF Untouched

\* One invocation changes, and is not one of d afterwards.
LEMMA ForeignInvocation ==
    ASSUME TypeInv, NEW d \in Devices, NEW h \in Handlers, NEW new,
           handler' = [handler EXCEPT ![h] = new], new.dev # d
    PROVE  NoNewRequest(d)
BY DEF NoNewRequest, TypeInv, TypeOK

\* A step of another device.
LEMMA ForeignDevice ==
    ASSUME TypeInv, TypeInv', NEW d \in Devices, NEW e \in Devices, e # d, DeviceStep(e)
    PROVE  Untouched(d)
<1> USE DEF TypeInv, TypeOK, fileVars, hubVars, clientVars, serverVars
<1>1. serverVars' = serverVars
  BY DEF DeviceStep, TickClock, SetClockBack, DrawSequence, AdvanceSequence, SkipSample,
         AppendOutbox, TearAppend, Restart
<1>2. doc' = doc /\ heartbeat' = heartbeat /\ NoNewRequest(d)
  BY <1>1 DEF NoNewRequest
<1>3. CASE \/ TickClock(e) \/ SetClockBack(e) \/ DrawSequence(e) \/ AdvanceSequence(e)
           \/ SkipSample(e) \/ TearAppend(e)
  BY <1>2, <1>3 DEF Untouched, TickClock, SetClockBack, DrawSequence, AdvanceSequence,
         SkipSample, TearAppend
<1>4. CASE AppendOutbox(e)
  <2>1. /\ UNCHANGED <<clock, ackFile, whole, nextSeq, ackSeq, clientVars, serverVars>>
        /\ persisted'[d] = persisted[d] /\ outbox'[d] = outbox[d] /\ hold'[d] = hold[d]
    BY <1>4 DEF AppendOutbox
  <2>2. file'[d] = file[d] /\ tail'[d] = tail[d]
    BY <1>4 DEF AppendOutbox
  <2>3. QED
    BY <1>2, <2>1, <2>2 DEF Untouched
<1>5. CASE Restart(e)
  BY <1>2, <1>5 DEF Untouched, Restart
<1>6. QED
  BY <1>3, <1>4, <1>5 DEF DeviceStep

LEMMA ForeignClient ==
    ASSUME TypeInv, TypeInv', NEW d \in Devices, NEW e \in Devices, e # d, ClientStep(e)
    PROVE  Untouched(d)
<1> USE DEF TypeInv, TypeOK
<1>1. CASE QueueTelemetry(e) \/ TimeOut(e) \/ PersistAck(e) \/ AdoptReceipt(e)
  <2>1. serverVars' = serverVars
    BY <1>1 DEF QueueTelemetry, TimeOut, PersistAck, AdoptReceipt
  <2>2. doc' = doc /\ heartbeat' = heartbeat /\ NoNewRequest(d)
    BY <2>1 DEF NoNewRequest, serverVars
  <2>3. CASE QueueTelemetry(e)
    BY <2>2, <2>3 DEF QueueTelemetry, Untouched, fileVars, hubVars
  <2>4. CASE TimeOut(e)
    BY <2>2, <2>4 DEF TimeOut, Untouched, fileVars, hubVars
  <2>5. CASE PersistAck(e)
    BY <2>2, <2>5, ZenonT(30) DEF PersistAck, Untouched, hubVars
  <2>6. CASE AdoptReceipt(e)
    BY <2>2, <2>6 DEF AdoptReceipt, Untouched
  <2>7. QED
    BY <1>1, <2>3, <2>4, <2>5, <2>6
<1>2. CASE RebaseOutbox(e)
  <2>1. UNCHANGED <<clock, ackFile, whole, hubVars, hold, persisted, slot, exchange, serverVars>>
    BY <1>2 DEF RebaseOutbox
  <2>2. file'[d] = file[d] /\ tail'[d] = tail[d] /\ receipt'[d] = receipt[d]
    BY <1>2 DEF RebaseOutbox
  <2>3. NoNewRequest(d)
    BY <2>1 DEF NoNewRequest, serverVars
  <2>4. QED
    BY <2>1, <2>2, <2>3 DEF Untouched, hubVars, serverVars
<1>3. CASE StartExchange(e)
  <2>1. PICK h \in Handlers :
           /\ Invoke(h, e, slot[e].seqs)
           /\ exchange' = [exchange EXCEPT ![e] =
                 [st |-> "waiting", by |-> h, seqs |-> slot[e].seqs,
                  current |-> TRUE, attempt |-> 1]]
    BY <1>3 DEF StartExchange
  <2>2. UNCHANGED <<clock, fileVars, hubVars, hold, persisted, slot, receipt, doc, heartbeat>>
    BY <1>3 DEF StartExchange
  <2>3. [IdleHandler EXCEPT !.st = "read", !.dev = e, !.seqs = slot[e].seqs].dev = e
    BY DEF IdleHandler
  <2>4. NoNewRequest(d)
    BY <2>1, <2>3, ForeignInvocation DEF Invoke
  <2>5. QED
    BY <2>1, <2>2, <2>4 DEF Untouched, fileVars, hubVars
<1>4. CASE Resend(e)
  <2>1. PICK h \in Handlers :
           /\ Invoke(h, e, exchange[e].seqs)
           /\ exchange' = [exchange EXCEPT ![e].st = "waiting", ![e].by = h,
                                           ![e].attempt = 2]
    BY <1>4 DEF Resend
  <2>2. UNCHANGED <<clock, fileVars, hubVars, hold, persisted, slot, receipt, doc, heartbeat>>
    BY <1>4 DEF Resend
  <2>3. [IdleHandler EXCEPT !.st = "read", !.dev = e, !.seqs = exchange[e].seqs].dev = e
    BY DEF IdleHandler
  <2>4. NoNewRequest(d)
    BY <2>1, <2>3, ForeignInvocation DEF Invoke
  <2>5. QED
    BY <2>1, <2>2, <2>4 DEF Untouched, fileVars, hubVars
<1>5. ASSUME NEW h \in Handlers, TakeReceipt(e, h) PROVE Untouched(d)
  <2>1. UNCHANGED <<clock, fileVars, hubVars, hold, persisted, doc, heartbeat>>
    BY <1>5 DEF TakeReceipt
  <2>2. exchange'[d] = exchange[d] /\ slot'[d] = slot[d] /\ receipt'[d] = receipt[d]
    BY <1>5 DEF TakeReceipt
  <2>3. handler' = [handler EXCEPT ![h] = IdleHandler] /\ IdleHandler.dev # d
    BY <1>5, TelemetryAssumption DEF TakeReceipt, IdleHandler
  <2>4. NoNewRequest(d)
    BY <2>3, ForeignInvocation
  <2>5. QED
    BY <2>1, <2>2, <2>4 DEF Untouched, fileVars, hubVars
<1>6. QED
  BY <1>1, <1>2, <1>3, <1>4, <1>5 DEF ClientStep

\* A step of an invocation that serves another device, or ends.
LEMMA ForeignWorker ==
    ASSUME TypeInv, TypeInv', NEW d \in Devices, NEW h \in Handlers, WorkerStep(h),
           handler[h].dev # d \/ EndInvocation(h)
    PROVE  Untouched(d)
<1> DEFINE r == handler[h]
<1>1. /\ r \in Invocation /\ handler \in [Handlers -> Invocation]
      /\ doc \in Document /\ heartbeat \in [Devices -> Nat]
      /\ r.st # "idle" => r.dev \in Devices
  BY DEF TypeInv, TypeOK, Support
<1>2. UNCHANGED <<clock, fileVars, hubVars, hold, persisted, clientVars>>
  BY DEF WorkerStep, ReadDocument, PutDocument, UpsertHeartbeat, EndInvocation
<1>3. IdleHandler.dev # d
  BY TelemetryAssumption DEF IdleHandler
<1>4. /\ doc'.last[d] = doc.last[d] /\ doc'.counted[d] = doc.counted[d]
      /\ heartbeat'[d] = heartbeat[d] /\ NoNewRequest(d)
  <2>1. CASE EndInvocation(h)
    <3>1. handler' = [handler EXCEPT ![h] = IdleHandler] /\ UNCHANGED <<doc, heartbeat>>
      BY <2>1 DEF EndInvocation
    <3>2. QED
      BY <1>3, <3>1, ForeignInvocation
  <2>2. CASE r.dev # d /\ ReadDocument(h)
    <3> DEFINE beat == [r EXCEPT !.st = "beat", !.last = doc.last[r.dev]]
               put == [r EXCEPT !.st = "put", !.doc = doc]
    <3>1. handler' = [handler EXCEPT ![h] = beat] \/ handler' = [handler EXCEPT ![h] = put]
      BY <2>2 DEF ReadDocument
    <3>2. beat.dev # d /\ put.dev # d
      BY <1>1, <2>2 DEF Invocation
    <3>3. UNCHANGED <<doc, heartbeat>>
      BY <2>2 DEF ReadDocument
    <3> HIDE DEF beat, put, r
    <3>4. QED
      BY <3>1, <3>2, <3>3, ForeignInvocation
  <2>3. CASE r.dev # d /\ PutDocument(h)
    <3> DEFINE beat == [r EXCEPT !.st = "beat", !.doc = EmptyDoc,
                                 !.last = Highest(r.seqs, r.doc.last[r.dev])]
               again == [r EXCEPT !.st = "read", !.doc = EmptyDoc, !.tries = r.tries + 1]
    <3>1. \/ handler' = [handler EXCEPT ![h] = beat]
          \/ handler' = [handler EXCEPT ![h] = again]
          \/ handler' = [handler EXCEPT ![h] = IdleHandler]
      BY <2>3 DEF PutDocument
    <3>2. beat.dev # d /\ again.dev # d
      BY <1>1, <2>3 DEF Invocation
    <3>3. heartbeat' = heartbeat
      BY <2>3 DEF PutDocument
    <3>4. doc'.last[d] = doc.last[d] /\ doc'.counted[d] = doc.counted[d]
      <4>1. doc' = doc \/ (r.doc = doc /\ doc' = MergedDocument(r))
        BY <2>3 DEF PutDocument, EtagMatches
      <4>2. ASSUME r.doc = doc, doc' = MergedDocument(r)
            PROVE  doc'.last[d] = doc.last[d] /\ doc'.counted[d] = doc.counted[d]
        BY <1>1, <2>3, <4>2 DEF MergedDocument, Document
      <4>3. QED
        BY <4>1, <4>2
    <3> HIDE DEF beat, again, r
    <3>5. NoNewRequest(d)
      BY <1>3, <3>1, <3>2, ForeignInvocation
    <3>6. QED
      BY <3>3, <3>4, <3>5
  <2>4. CASE r.dev # d /\ UpsertHeartbeat(h)
    <3> DEFINE last == Larger(heartbeat[r.dev], r.last)
               acked == {r.seqs[i] : i \in {j \in Held(r.seqs) : r.seqs[j] <= r.last}}
               reply == [IdleHandler EXCEPT !.st = "reply", !.dev = r.dev, !.seqs = r.seqs,
                                            !.next = last + 1, !.acked = acked]
    <3>1. handler' = [handler EXCEPT ![h] = reply] /\ doc' = doc
          /\ heartbeat' = [heartbeat EXCEPT ![r.dev] = last]
      BY <2>4 DEF UpsertHeartbeat
    <3> HIDE DEF last, acked
    <3>2. reply.dev # d
      BY <2>4 DEF IdleHandler
    <3>3. heartbeat'[d] = heartbeat[d]
      BY <1>1, <2>4, <3>1
    <3> HIDE DEF reply, r
    <3>4. QED
      BY <3>1, <3>2, <3>3, ForeignInvocation
  <2>5. QED
    BY <2>1, <2>2, <2>3, <2>4 DEF WorkerStep
<1>5. QED
  BY <1>2, <1>4 DEF Untouched, fileVars, hubVars, clientVars

-----------------------------------------------------------------------------
(* Every step keeps a whole device in order.                                 *)


LEMMA ClockStep ==
    ASSUME TypeInv, TypeInv', NEW d \in Devices, NEW num \in Batch, Orderly(d, num),
           TickClock(d) \/ SetClockBack(d)
    PROVE  Orderly(d, num)'
<1>1. UNCHANGED <<fileVars, hubVars, hold, persisted, clientVars, serverVars>>
  BY DEF TickClock, SetClockBack
<1>2. Untouched(d)
  BY <1>1 DEF Untouched, NoNewRequest, fileVars, hubVars, clientVars, serverVars
<1>3. QED
  BY <1>2, UntouchedStep

LEMMA OwnStep ==
    ASSUME TypeInv, TypeInv', NEW d \in Devices, NEW num \in Batch, Orderly(d, num),
           whole'[d], DeviceStep(d) \/ ClientStep(d), ~AppendOutbox(d)
    PROVE  persisted' = persisted /\ Orderly(d, num)'
<1>1. ~TearAppend(d)
  BY DEF TearAppend, TypeInv, TypeOK
<1>2. persisted' = persisted
  BY <1>1 DEF DeviceStep, ClientStep, TickClock, SetClockBack, DrawSequence, AdvanceSequence,
       SkipSample, Restart, QueueTelemetry, StartExchange, TimeOut, Resend, TakeReceipt,
       RebaseOutbox, PersistAck, AdoptReceipt
<1>3. CASE DeviceStep(d)
  <2>1. CASE TickClock(d) \/ SetClockBack(d)
    BY <1>2, <2>1, ClockStep
  <2>2. CASE DrawSequence(d) \/ AdvanceSequence(d) \/ SkipSample(d)
    BY <1>2, <2>2, NumbersStep
  <2>3. CASE Restart(d)
    BY <1>2, <2>3, RestartStep
  <2>4. QED
    BY <1>1, <1>3, <2>1, <2>2, <2>3 DEF DeviceStep
<1>4. CASE ClientStep(d)
  <2>1. CASE QueueTelemetry(d) \/ StartExchange(d)
    BY <1>2, <2>1, QueueStep, StartStep
  <2>2. CASE TimeOut(d) \/ Resend(d)
    BY <1>2, <2>2, TimeOutStep, ResendStep
  <2>3. CASE \E h \in Handlers : TakeReceipt(d, h)
    BY <1>2, <2>3, TakeStep
  <2>4. CASE RebaseOutbox(d)
    BY <1>2, <2>4, RebaseStep
  <2>5. CASE PersistAck(d)
    BY <1>2, <2>5, PersistStep
  <2>6. CASE AdoptReceipt(d)
    BY <1>2, <2>6, AdoptStep
  <2>7. QED
    BY <1>4, <2>1, <2>2, <2>3, <2>4, <2>5, <2>6 DEF ClientStep
<1>5. QED
  BY <1>2, <1>3, <1>4

LEMMA OwnWorker ==
    ASSUME TypeInv, TypeInv', NEW d \in Devices, NEW num \in Batch, Orderly(d, num),
           NEW h \in Handlers, WorkerStep(h)
    PROVE  Orderly(d, num)'
<1>1. CASE handler[h].dev # d \/ EndInvocation(h)
  BY <1>1, ForeignWorker, UntouchedStep
<1>2. CASE handler[h].dev = d /\ ~EndInvocation(h)
  BY <1>2, ReadStep, BeatStep, MergeStep, LostRaceStep DEF WorkerStep
<1>3. QED
  BY <1>1, <1>2

\* The new sample gets the number the serial thread holds.
LEMMA NumberGiven ==
    ASSUME TypeInv, TypeInv', NEW d \in Devices, NEW num \in Batch, AppendOutbox(d)
    PROVE  /\ [num EXCEPT ![persisted'[d]] = hold[d].seq] \in Batch
           /\ persisted'[d] = persisted[d] + 1
           /\ doc' = doc
<1>1. hold[d].seq \in Nat
  BY Values
<1>2. QED
  BY <1>1 DEF AppendOutbox, serverVars, TypeInv, TypeOK, Batch

LEMMA WholeLost ==
    ASSUME TypeInv, [Next]_vars
    PROVE  \/ whole' = whole
           \/ \E e \in Devices : /\ TearAppend(e) \/ PersistAck(e)
                                 /\ whole' = [whole EXCEPT ![e] = FALSE]
BY ZenonT(60) DEF Next, vars, fileVars, DeviceStep, ClientStep, WorkerStep,
   TickClock, SetClockBack, DrawSequence, AdvanceSequence, SkipSample, AppendOutbox,
   TearAppend, Restart, QueueTelemetry, StartExchange, TimeOut, Resend, TakeReceipt,
   RebaseOutbox, PersistAck, AdoptReceipt, ReadDocument, PutDocument, UpsertHeartbeat,
   EndInvocation

LEMMA QuietStep ==
    ASSUME TypeInv, TypeInv', NEW d \in Devices, NEW num \in Batch, Orderly(d, num),
           whole'[d], [Next]_vars, ~AppendOutbox(d)
    PROVE  persisted'[d] = persisted[d] /\ Orderly(d, num)'
<1>1. CASE UNCHANGED vars
  <2>1. Untouched(d)
    BY <1>1 DEF vars, Untouched, NoNewRequest, fileVars, hubVars, clientVars, serverVars
  <2>2. QED
    BY <2>1, UntouchedStep DEF Untouched
<1>2. ASSUME NEW e \in Devices, DeviceStep(e) \/ ClientStep(e)
      PROVE  persisted'[d] = persisted[d] /\ Orderly(d, num)'
  <2>1. CASE e = d
    BY <1>2, <2>1, OwnStep
  <2>2. CASE e # d
    <3>1. Untouched(d)
      BY <1>2, <2>2, ForeignDevice, ForeignClient
    <3>2. QED
      BY <3>1, UntouchedStep DEF Untouched
  <2>3. QED
    BY <2>1, <2>2
<1>3. ASSUME NEW h \in Handlers, WorkerStep(h)
      PROVE  persisted'[d] = persisted[d] /\ Orderly(d, num)'
  <2>1. persisted' = persisted
    BY <1>3 DEF WorkerStep, ReadDocument, PutDocument, UpsertHeartbeat, EndInvocation
  <2>2. Orderly(d, num)'
    BY <1>3, OwnWorker
  <2>3. QED
    BY <2>1, <2>2
<1>4. QED
  BY <1>1, <1>2, <1>3 DEF Next

LEMMA OrderlyStep ==
    ASSUME TypeInv, TypeInv', OrderlyInv, [Next]_vars
    PROVE  OrderlyInv'
<1> SUFFICES ASSUME NEW d \in Devices, whole'[d]
             PROVE  \E num \in Batch : Orderly(d, num)'
  BY DEF OrderlyInv
<1>1. whole[d]
  BY WholeLost DEF TypeInv, TypeOK
<1>2. PICK num \in Batch : Orderly(d, num)
  BY <1>1 DEF OrderlyInv
<1>3. CASE AppendOutbox(d)
  <2>1. \E w \in Batch : w = [num EXCEPT ![persisted'[d]] = hold[d].seq]
    BY <1>3, NumberGiven
  <2>2. PICK w \in Batch : w = [num EXCEPT ![persisted'[d]] = hold[d].seq]
    BY <2>1
  <2>3. Orderly(d, w)'
    BY <1>2, <1>3, <2>2, AppendStep
  <2>4. QED
    BY <2>3
<1>4. CASE ~AppendOutbox(d)
  BY <1>2, <1>4, QuietStep
<1>5. QED
  BY <1>3, <1>4

LEMMA OrderlyAtStart ==
    ASSUME LegacyLast = 0, Init
    PROVE  OrderlyInv
<1> SUFFICES ASSUME NEW d \in Devices PROVE Orderly(d, None)
  BY NoneType DEF OrderlyInv
<1>1. TypeInv /\ None \in Batch /\ \A i \in Samples : None[i] = 0
  BY InitType, NoneType DEF None
<1>2. Accepted(d) = {} /\ persisted[d] = 0
  BY DEF Init, Accepted
<1>3. Numbered(d, None) /\ OnDisk(d, None) /\ InOutbox(d, None)
  BY <1>1, <1>2 DEF Init, Numbered, OnDisk, InOutbox, Copies, IdleHold, EmptyDoc
<1>4. InDocument(d, None)
  BY <1>1, <1>2 DEF Init, InDocument, EmptyDoc
<1>5. InRequests(d, None)
  BY TelemetryAssumption DEF Init, InRequests, IdleHandler
<1>6. AtClient(d, None)
  BY <1>1, TelemetryAssumption DEF Init, AtClient, Copies, FromFront, Held, EmptySlot,
     IdleExchange, IdleHandler
<1>7. SentFirst(d, None)
  <2>1. Sent(d, None) = {} /\ Held(slot[d].seqs) = {}
    BY <1>1, <1>2 DEF Init, Sent, Held, EmptySlot
  <2>2. QED
    BY <2>1 DEF SentFirst
<1>8. AtReceipt(d, None)
  BY DEF Init, AtReceipt, IdleReceipt, HubLocked
<1>9. QED
  BY <1>3, <1>4, <1>5, <1>6, <1>7, <1>8 DEF Orderly

LEMMA OrderlyInvariant == LegacyLast = 0 /\ Spec => []OrderlyInv
<1> SUFFICES ASSUME LegacyLast = 0 PROVE Spec => []OrderlyInv
  OBVIOUS
<1>1. Init => OrderlyInv
  BY OrderlyAtStart
<1>2. TypeInv /\ TypeInv' /\ OrderlyInv /\ [Next]_vars => OrderlyInv'
  BY OrderlyStep
<1>3. QED
  BY <1>1, <1>2, TypeInvariant, PTL DEF Spec

-----------------------------------------------------------------------------
(* What the invariant says of acknowledgements and of the promise.           *)

\* The Worker acknowledges a sample of a whole device only when the document
\* counts it: a batch sent twice, an answer to a later attempt and a number used
\* again after a restart or with the clock set back are all told apart.
THEOREM AcknowledgedAreCounted == LegacyLast = 0 /\ Spec => []AcknowledgedIsCounted
<1> SUFFICES ASSUME LegacyLast = 0 PROVE Spec => []AcknowledgedIsCounted
  OBVIOUS
<1>1. TypeInv /\ OrderlyInv => AcknowledgedIsCounted
  <2> SUFFICES ASSUME TypeInv, OrderlyInv, NEW h \in Handlers,
                      handler[h].st = "reply", whole[handler[h].dev],
                      NEW i \in Held(handler[h].seqs)
               PROVE  doc.counted[handler[h].dev][i] >= 1
    BY DEF AcknowledgedIsCounted
  <2> DEFINE d == handler[h].dev
  <2>1. d \in Devices
    BY DEF TypeInv, Support
  <2>2. PICK num \in Batch : Orderly(d, num)
    BY <2>1 DEF OrderlyInv
  <2>3. Requested(handler[h], d, num) /\ InDocument(d, num)
    BY <2>1, <2>2 DEF Orderly, InRequests
  <2>4. i \in Samples /\ i \in Accepted(d) /\ num[i] <= doc.last[d]
    BY <2>3 DEF Requested, Copies, Held
  <2>5. QED
    BY <2>3, <2>4 DEF InDocument
<1>2. QED
  BY <1>1, TypeInvariant, OrderlyInvariant, PTL

\* The status of the samples of a whole device follows from their numbers.
StatusIs ==
    TypeInv => \A d \in Devices, num \in Batch, i \in Samples :
        whole[d] /\ Orderly(d, num) =>
            Status(d, i) = IF i \notin Accepted(d) THEN "new"
                           ELSE IF num[i] <= doc.last[d] THEN "counted" ELSE "kept"

LEMMA StatusByNumber == StatusIs
<1> SUFFICES ASSUME TypeInv, NEW d \in Devices, NEW num \in Batch, NEW i \in Samples,
                    whole[d], Orderly(d, num)
             PROVE  Status(d, i) = IF i \notin Accepted(d) THEN "new"
                           ELSE IF num[i] <= doc.last[d] THEN "counted" ELSE "kept"
  BY DEF StatusIs
<1>1. /\ persisted[d] \in 0 .. MaxSamples /\ doc.last[d] \in Nat /\ ackFile[d] \in Nat
      /\ num[i] \in Nat /\ file[d][i] \in Nat
  BY Values DEF Batch
<1>2. i \in Accepted(d) <=> ~(i > persisted[d])
  BY <1>1, TelemetryAssumption DEF Accepted, Samples
<1>3. doc.counted[d][i] = IF i \in Accepted(d) /\ num[i] <= doc.last[d] THEN 1 ELSE 0
  BY DEF Orderly, InDocument
<1>4. ASSUME i \in Accepted(d), ~(num[i] <= doc.last[d]) PROVE file[d][i] > ackFile[d]
  <2>1. file[d][i] # 0 \/ num[i] <= ackFile[d]
    BY <1>4 DEF Orderly, OnDisk
  <2>2. ackFile[d] <= doc.last[d]
    BY DEF Orderly, InOutbox
  <2>3. file[d][i] # 0
    BY <1>1, <1>4, <2>1, <2>2
  <2>4. file[d][i] = num[i]
    BY <2>3 DEF Orderly, OnDisk, Copies
  <2>5. QED
    BY <1>1, <1>4, <2>2, <2>4
<1>5. QED
  BY <1>1, <1>2, <1>3, <1>4 DEF Status

\* A step that accepts nothing: what was kept may be counted.
LEMMA StatusSteps ==
    ASSUME TypeInv, TypeInv', StatusIs, StatusIs', NEW d \in Devices, NEW num \in Batch,
           whole[d], whole'[d], Orderly(d, num), Orderly(d, num)',
           persisted'[d] = persisted[d], doc'.last[d] >= doc.last[d], NEW i \in Samples
    PROVE  \/ Status(d, i)' = Status(d, i)
           \/ Status(d, i) = "kept" /\ Status(d, i)' = "counted"
<1>1. Status(d, i) = IF i \notin Accepted(d) THEN "new"
                     ELSE IF num[i] <= doc.last[d] THEN "counted" ELSE "kept"
  BY DEF StatusIs
<1>2. Status(d, i)' = IF i \notin Accepted(d)' THEN "new"
                      ELSE IF num[i] <= doc'.last[d] THEN "counted" ELSE "kept"
  BY DEF StatusIs
<1>3. Accepted(d)' = Accepted(d)
  BY DEF Accepted
<1>4. doc.last[d] \in Nat /\ doc'.last[d] \in Nat /\ num[i] \in Nat
  BY Values DEF TypeInv, TypeOK, Document, Batch
<1>5. QED
  BY <1>1, <1>2, <1>3, <1>4

\* The sample that is appended is kept, and the others are as they were.
LEMMA StatusAppend ==
    ASSUME TypeInv, TypeInv', StatusIs, StatusIs', NEW d \in Devices, NEW num \in Batch,
           whole[d], whole'[d], Orderly(d, num), AppendOutbox(d)
    PROVE  \E k \in Samples :
              /\ Status(d, k) = "new" /\ Status(d, k)' = "kept"
              /\ \A i \in Samples \ {k} : Status(d, i)' = Status(d, i)
<1>1. PICK new \in Batch : new = [num EXCEPT ![persisted'[d]] = hold[d].seq]
  BY NumberGiven
<1>2. Orderly(d, new)'
  BY <1>1, AppendStep
<1>3. /\ persisted'[d] = persisted[d] + 1 /\ doc' = doc /\ persisted[d] \in 0 .. MaxSamples
      /\ persisted'[d] \in 0 .. MaxSamples
  BY NumberGiven, Values DEF TypeInv, TypeOK
<1> PICK k \in Samples : k = persisted[d] + 1
  BY <1>3, TelemetryAssumption DEF Samples
<1>4. persisted'[d] = k /\ Accepted(d)' = Accepted(d) \cup {k} /\ k \notin Accepted(d)
  BY <1>3, TelemetryAssumption DEF Accepted, Samples
<1>5. new[k] = hold[d].seq /\ \A i \in Samples \ {k} : new[i] = num[i]
  BY <1>1, <1>3, <1>4 DEF Batch
<1>6. ~(new[k] <= doc.last[d])
  <2>1. hold[d].st = "ready"
    BY DEF AppendOutbox
  <2>2. hold[d].seq >= 1 /\ \A i \in Accepted(d) : num[i] < hold[d].seq
    BY <2>1 DEF Orderly, Numbered
  <2>3. doc.last[d] = 0 \/ \E i \in Accepted(d) : doc.last[d] = num[i]
    BY DEF Orderly, InDocument
  <2>4. hold[d].seq \in Nat /\ doc.last[d] \in Nat
    BY Values
  <2>5. QED
    BY <1>5, <2>2, <2>3, <2>4
<1>7. \A i \in Samples :
         Status(d, i) = IF i \notin Accepted(d) THEN "new"
                        ELSE IF num[i] <= doc.last[d] THEN "counted" ELSE "kept"
  BY DEF StatusIs
<1>8. \A i \in Samples :
         Status(d, i)' = IF i \notin Accepted(d)' THEN "new"
                         ELSE IF new[i] <= doc'.last[d] THEN "counted" ELSE "kept"
  BY <1>2 DEF StatusIs
<1>9. Status(d, k) = "new" /\ Status(d, k)' = "kept"
  <2>1. Status(d, k) = "new"
    BY <1>4, <1>7
  <2>2. doc'.last[d] = doc.last[d] /\ k \in Accepted(d)'
    BY <1>3, <1>4
  <2>3. Status(d, k)' = "kept"
    BY <1>6, <1>8, <2>2
  <2>4. QED
    BY <2>1, <2>3
<1>10. \A i \in Samples \ {k} : Status(d, i)' = Status(d, i)
  BY <1>3, <1>4, <1>5, <1>7, <1>8
<1>11. QED
  BY <1>9, <1>10

-----------------------------------------------------------------------------
(* Every step is a step of TelemetryPromise.                                 *)

LEMMA UntouchedStatus ==
    ASSUME NEW d \in Devices, Untouched(d), NEW i \in Samples
    PROVE  Status(d, i)' = Status(d, i)
BY DEF Untouched, Status

\* What TelemetryPromise sees of the delivery.
StatusMap == [x \in Devices \X Samples |-> Status(x[1], x[2])]

\* A sample is appended by a whole device.
LEMMA KeepStep ==
    ASSUME TypeInv, TypeInv', StatusIs, StatusIs', OrderlyInv,
           NEW e \in Devices, whole[e], AppendOutbox(e)
    PROVE  Promise!Next
<1>1. PICK num \in Batch : Orderly(e, num)
  BY DEF OrderlyInv
<1>2. whole'[e] /\ DeviceStep(e)
  BY DEF AppendOutbox, DeviceStep
<1>3. PICK k \in Samples :
      /\ Status(e, k) = "new" /\ Status(e, k)' = "kept"
      /\ \A i \in Samples \ {k} : Status(e, i)' = Status(e, i)
  BY <1>1, <1>2, StatusAppend
<1>4. \A d \in Devices \ {e}, i \in Samples : Status(d, i)' = Status(d, i)
  BY <1>2, ForeignDevice, UntouchedStatus
<1>5. <<e, k>> \in Devices \X Samples /\ StatusMap[<<e, k>>] = "new"
  BY <1>3 DEF StatusMap
<1>6. ASSUME NEW x \in Devices \X Samples
      PROVE  Status(x[1], x[2])' = IF x = <<e, k>> THEN "kept" ELSE StatusMap[x]
  <2>1. CASE x = <<e, k>>
    <3>1. x[1] = e /\ x[2] = k
      BY <2>1
    <3>2. Status(x[1], x[2])' = "kept"
      BY <1>3, <3>1
    <3>3. QED
      BY <2>1, <3>2
  <2>2. CASE x # <<e, k>>
    <3>1. x[1] \in Devices \ {e} \/ x[2] \in Samples \ {k}
      BY <2>2
    <3>2. x[1] \in Devices /\ x[2] \in Samples
      OBVIOUS
    <3>3. Status(x[1], x[2])' = Status(x[1], x[2])
      BY <1>3, <1>4, <3>1, <3>2
    <3>4. QED
      BY <2>2, <3>3 DEF StatusMap
  <2>3. QED
    BY <2>1, <2>2
<1>7. StatusMap' = [StatusMap EXCEPT ![<<e, k>>] = "kept"]
  BY <1>6 DEF StatusMap
<1>8. Promise!Keep(<<e, k>>)
  BY <1>5, <1>7 DEF Promise!Keep, StatusMap
<1>9. QED
  BY <1>5, <1>8 DEF Promise!Next

\* The disk of a whole device loses a write.
LEMMA DamageStep ==
    ASSUME TypeInv, TypeInv', NEW e \in Devices, TearAppend(e) \/ PersistAck(e),
           whole' = [whole EXCEPT ![e] = FALSE]
    PROVE  Promise!Next
<1> DEFINE lost == {e} \X Samples
<1>1. ~whole'[e] /\ (DeviceStep(e) \/ ClientStep(e))
  BY DEF DeviceStep, ClientStep, TypeInv, TypeOK
<1>2. \A i \in Samples : Status(e, i)' = "damaged"
  BY <1>1 DEF Status
<1>3. \A d \in Devices \ {e}, i \in Samples : Status(d, i)' = Status(d, i)
  BY <1>1, ForeignDevice, ForeignClient, UntouchedStatus
<1>4. ASSUME NEW x \in Devices \X Samples
      PROVE  Status(x[1], x[2])' = IF x \in lost THEN "damaged" ELSE StatusMap[x]
  <2>1. x[1] \in Devices /\ x[2] \in Samples /\ (x \in lost <=> x[1] = e)
    OBVIOUS
  <2>2. CASE x[1] = e
    BY <1>2, <2>1, <2>2
  <2>3. CASE x[1] # e
    BY <1>3, <2>1, <2>3 DEF StatusMap
  <2>4. QED
    BY <2>2, <2>3
<1>5. StatusMap' = [x \in Devices \X Samples |->
                        IF x \in lost THEN "damaged" ELSE StatusMap[x]]
  BY <1>4 DEF StatusMap
<1>6. lost \in SUBSET (Devices \X Samples)
  OBVIOUS
<1> HIDE DEF lost
<1>7. Promise!Damage(lost)
  BY <1>5 DEF Promise!Damage, StatusMap
<1>8. QED
  BY <1>6, <1>7 DEF Promise!Next

\* No sample is appended by a whole device and no disk loses a write.
LEMMA CountStep ==
    ASSUME TypeInv, TypeInv', StatusIs, StatusIs', OrderlyInv, [Next]_vars,
           whole' = whole, \A d \in Devices : whole[d] => ~AppendOutbox(d)
    PROVE  Promise!Next
<1>1. ASSUME NEW d \in Devices, NEW i \in Samples
      PROVE  \/ Status(d, i)' = Status(d, i)
             \/ Status(d, i) = "kept" /\ Status(d, i)' = "counted"
  <2>1. CASE ~whole[d]
    BY <2>1 DEF Status
  <2>2. CASE whole[d]
    <3>1. PICK num \in Batch : Orderly(d, num)
      BY <2>2 DEF OrderlyInv
    <3>2. persisted'[d] = persisted[d] /\ Orderly(d, num)'
      BY <2>2, <3>1, QuietStep
    <3>3. doc'.last[d] >= doc.last[d]
      BY GrowthByStep DEF DocumentGrows
    <3>4. QED
      BY <2>2, <3>1, <3>2, <3>3, StatusSteps
  <2>3. QED
    BY <2>1, <2>2
<1> DEFINE batch == {x \in Devices \X Samples : /\ Status(x[1], x[2]) = "kept"
                                                /\ Status(x[1], x[2])' = "counted"}
<1>2. ASSUME NEW x \in Devices \X Samples
      PROVE  Status(x[1], x[2])' = IF x \in batch THEN "counted" ELSE StatusMap[x]
  <2>1. x[1] \in Devices /\ x[2] \in Samples /\ StatusMap[x] = Status(x[1], x[2])
    BY DEF StatusMap
  <2>2. \/ Status(x[1], x[2])' = Status(x[1], x[2])
        \/ Status(x[1], x[2]) = "kept" /\ Status(x[1], x[2])' = "counted"
    BY <1>1, <2>1
  <2>3. QED
    BY <2>1, <2>2
<1>3. StatusMap' = [x \in Devices \X Samples |->
                        IF x \in batch THEN "counted" ELSE StatusMap[x]]
  BY <1>2 DEF StatusMap
<1>4. batch \in SUBSET (Devices \X Samples) /\ \A x \in batch : StatusMap[x] = "kept"
  BY DEF StatusMap
<1> HIDE DEF batch
<1>5. Promise!Count(batch)
  BY <1>3, <1>4 DEF Promise!Count, StatusMap
<1>6. QED
  BY <1>4, <1>5 DEF Promise!Next

\* A sample that the outbox of a device accepted is on disk above the
\* acknowledged sequence until the document counts it, and it is counted once,
\* as long as the disk loses no write: Telemetry implements TelemetryPromise.
THEOREM SamplesAreKept == LegacyLast = 0 /\ Spec => KeptUntilCounted
<1> SUFFICES ASSUME LegacyLast = 0 PROVE Spec => KeptUntilCounted
  OBVIOUS
<1>1. Init => Promise!Init
  <2> SUFFICES ASSUME Init PROVE Promise!Init
    OBVIOUS
  <2>1. ASSUME NEW d \in Devices, NEW i \in Samples PROVE Status(d, i) = "new"
    <3>1. /\ whole[d] /\ doc.counted[d][i] = 0 /\ persisted[d] = 0
      BY DEF Init, EmptyDoc, None
    <3>2. i > 0
      BY TelemetryAssumption DEF Samples
    <3>3. QED
      BY <3>1, <3>2 DEF Status
  <2>2. StatusMap = [x \in Devices \X Samples |-> "new"]
    BY <2>1 DEF StatusMap
  <2>3. QED
    BY <2>2 DEF Promise!Init, StatusMap
<1>2. TypeInv /\ TypeInv' /\ StatusIs /\ StatusIs' /\ OrderlyInv /\ [Next]_vars
        => [Promise!Next]_StatusMap
  <2> SUFFICES ASSUME TypeInv, TypeInv', StatusIs, StatusIs', OrderlyInv, [Next]_vars
               PROVE  Promise!Next
    OBVIOUS
  <2>1. CASE \E e \in Devices : whole[e] /\ AppendOutbox(e)
    BY <2>1, KeepStep
  <2>2. CASE whole' # whole
    BY <2>2, WholeLost, DamageStep
  <2>3. CASE whole' = whole /\ \A d \in Devices : whole[d] => ~AppendOutbox(d)
    BY <2>3, CountStep
  <2>4. QED
    BY <2>1, <2>2, <2>3
<1>3. QED
  BY <1>1, <1>2, TypeInvariant, OrderlyInvariant, StatusByNumber, PTL
     DEF Spec, KeptUntilCounted, Promise!Spec, StatusMap
=============================================================================
