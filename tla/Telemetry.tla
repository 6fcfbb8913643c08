----------------------------- MODULE Telemetry -----------------------------
(***************************************************************************)
(* Delivery of CO2 samples from the native outbox to the environment       *)
(* document in R2: SensorHub's serial thread and outbox                    *)
(* (native/src/sensors*.cpp), CloudClient's single telemetry slot and      *)
(* POST /v1/device/exchange with its two HTTP attempts                     *)
(* (native/src/cloud_client_exchange), and the Worker that merges a batch   *)
(* into the R2 document by compare-and-set (telemetry_compact.ts,          *)
(* environment_r2.ts, telemetry_heartbeat.ts).                             *)
(*                                                                         *)
(* A sample is its position 1..MaxSamples in the device's order of         *)
(* appending; what it measured is left out.  A set of samples with their   *)
(* sequence numbers is a function that is 0 on the samples not in the set: *)
(* the outbox, its file and a payload are such functions, and the order of *)
(* the deque is the order of the positions.                                *)
(***************************************************************************)
EXTENDS Naturals, FiniteSets

CONSTANTS
    Devices,        \* device ids that share the environment document
    MaxSamples,     \* bound: samples a device persists
    MaxClock,       \* bound: UnixMillis()
    BatchLimit,     \* samples in one payload (60)
    MaxSequence,    \* kMaxTelemetrySequence, the last usable sequence number
    MaxCasAttempts, \* MAX_CAS_ATTEMPTS (4)
    Handlers,       \* bound: Worker invocations that may run at once
    NoOne,          \* the owner of an idle exchange or invocation
    LegacyLast,     \* last_sequence the D1 heartbeat row holds at the start
    Faults          \* the failures that may happen, a subset of AllFaults

AllFaults == {"crash", "network", "ack write", "rewrite", "torn append",
              "clock back"}

ASSUME TelemetryAssumption ==
    /\ MaxSamples \in Nat /\ BatchLimit \in Nat
    /\ MaxSequence \in Nat /\ MaxCasAttempts \in Nat \ {0} /\ LegacyLast \in Nat
    /\ MaxClock \in 1 .. MaxSequence
    /\ NoOne \notin Devices \cup Handlers
    /\ Faults \subseteq AllFaults

VARIABLES
    clock,      \* UnixMillis() of the device
    file,       \* outbox.ndjson: the sequence of every complete valid line
    tail,       \* damage in the file: "clean", "partial" last line, "broken" line
    ackFile,    \* outbox.ack
    whole,      \* history: no append was torn and no acknowledgement was left unwritten
    outbox,     \* SensorHub::outbox_
    nextSeq,    \* nextSequence_
    ackSeq,     \* acknowledgedSequence_
    hold,       \* the sample the serial thread is working on
    persisted,  \* number of samples AppendOutbox returned true for
    slot,       \* CloudClient::pendingTelemetry_
    exchange,   \* the exchange in progress on the client's loop thread
    receipt,    \* the receipt ApplyTelemetryReceipt is working on
    doc,        \* the R2 document: lastSequences and what the buckets count
    heartbeat,  \* device_heartbeats.last_sequence in D1
    handler     \* the Worker invocations

fileVars   == <<file, tail, ackFile, whole>>
hubVars    == <<outbox, nextSeq, ackSeq>>
clientVars == <<slot, exchange, receipt>>
serverVars == <<doc, heartbeat, handler>>
vars == <<clock, fileVars, hubVars, hold, persisted, clientVars, serverVars>>

-----------------------------------------------------------------------------
Samples == 1 .. MaxSamples
None    == [i \in Samples |-> 0]

Larger(a, b)  == IF a >= b THEN a ELSE b
Above(f, low) == [i \in Samples |-> IF f[i] > low THEN f[i] ELSE 0]
Held(f)       == {i \in Samples : f[i] # 0}

\* Mistake: one sample fewer than the limit.
FrontButOne(f, n) ==
    [i \in Samples |-> IF Cardinality({j \in Held(f) : j <= i}) < n
                       THEN f[i] ELSE 0]

\* The first n samples of a deque, those BuildTelemetryPayload copies.
Front(f, n) ==
    [i \in Samples |-> IF Cardinality({j \in Held(f) : j <= i}) <= n
                       THEN f[i] ELSE 0]

IdleHold     == [st |-> "idle", seq |-> 0]
EmptySlot    == [full |-> FALSE, seqs |-> None]
IdleExchange == [st |-> "idle", by |-> NoOne, seqs |-> None, current |-> FALSE,
                 attempt |-> 1]
IdleReceipt  == [st |-> "idle", acked |-> {}, next |-> 0, ack |-> 0,
                 seqs |-> None, rebased |-> FALSE, saved |-> TRUE, floor |-> 0]
EmptyDoc     == [last |-> [d \in Devices |-> 0], counted |-> [d \in Devices |-> None]]
IdleHandler  == [st |-> "idle", dev |-> NoOne, seqs |-> None, tries |-> 0,
                 last |-> 0, acked |-> {}, next |-> 0, doc |-> EmptyDoc]

Fail(f) == f \in Faults

\* The sensor hub's mutex_ is held from the first durable write of a receipt
\* to its last; AppendOutbox and BuildTelemetryPayload wait for it.
HubLocked(d) == receipt[d].st \in {"ack", "adopt"}

Init ==
    /\ clock = [d \in Devices |-> 1]
    /\ file = [d \in Devices |-> None]
    /\ tail = [d \in Devices |-> "clean"]
    /\ ackFile = [d \in Devices |-> 0]
    /\ whole = [d \in Devices |-> TRUE]
    /\ outbox = [d \in Devices |-> None]
    /\ nextSeq = [d \in Devices |-> 1]
    /\ ackSeq = [d \in Devices |-> 0]
    /\ hold = [d \in Devices |-> IdleHold]
    /\ persisted = [d \in Devices |-> 0]
    /\ slot = [d \in Devices |-> EmptySlot]
    /\ exchange = [d \in Devices |-> IdleExchange]
    /\ receipt = [d \in Devices |-> IdleReceipt]
    /\ doc = EmptyDoc
    /\ heartbeat = [d \in Devices |-> LegacyLast]
    /\ handler = [h \in Handlers |-> IdleHandler]

-----------------------------------------------------------------------------
(* The device: clock, serial thread, outbox.                               *)

TickClock(d) ==
    /\ clock[d] < MaxClock
    /\ clock' = [clock EXCEPT ![d] = @ + 1]
    /\ UNCHANGED <<fileVars, hubVars, hold, persisted, clientVars, serverVars>>

SetClockBack(d) ==
    /\ Fail("clock back")
    /\ \E t \in 1 .. clock[d] - 1 : clock' = [clock EXCEPT ![d] = t]
    /\ UNCHANGED <<fileVars, hubVars, hold, persisted, clientVars, serverVars>>

\* The serial thread reads nextSequence_ and writes it back without taking
\* mutex_, under which a receipt writes it: a receipt can fall in between.
\* MaxSequence also bounds the numbers that are drawn.
DrawSequence(d) ==
    /\ hold[d].st = "idle"
    /\ persisted[d] < MaxSamples
    /\ Larger(nextSeq[d], clock[d]) <= MaxSequence
    /\ hold' = [hold EXCEPT ![d] =
                    [st |-> "drawn", seq |-> Larger(nextSeq[d], clock[d])]]
    /\ UNCHANGED <<clock, fileVars, hubVars, persisted, clientVars, serverVars>>

AdvanceSequence(d) ==
    /\ hold[d].st = "drawn"
    /\ nextSeq' = [nextSeq EXCEPT ![d] = hold[d].seq + 1]
    /\ hold' = [hold EXCEPT ![d].st = "ready"]
    /\ UNCHANGED <<clock, fileVars, outbox, ackSeq, persisted, clientVars, serverVars>>

\* The sample is not the first of its history bucket, or the file cannot be
\* opened: only nextSequence_ has moved.
SkipSample(d) ==
    /\ hold[d].st = "ready"
    /\ hold' = [hold EXCEPT ![d] = IdleHold]
    /\ UNCHANGED <<clock, fileVars, hubVars, persisted, clientVars, serverVars>>

\* A line appended after a partial one joins it into a line no parser accepts.
AppendOutbox(d) ==
    /\ hold[d].st = "ready"
    /\ ~HubLocked(d)
    /\ LET i == persisted[d] + 1
       IN /\ persisted' = [persisted EXCEPT ![d] = i]
          /\ outbox' = [outbox EXCEPT ![d][i] = hold[d].seq]
          /\ IF tail[d] = "partial"
             THEN tail' = [tail EXCEPT ![d] = "broken"] /\ UNCHANGED file
             ELSE file' = [file EXCEPT ![d][i] = hold[d].seq] /\ UNCHANGED tail
    /\ hold' = [hold EXCEPT ![d] = IdleHold]
    /\ UNCHANGED <<clock, ackFile, whole, nextSeq, ackSeq, clientVars, serverVars>>

\* WriteFile wrote part of the line; AppendOutbox returns false.
TearAppend(d) ==
    /\ Fail("torn append")
    /\ hold[d].st = "ready"
    /\ ~HubLocked(d)
    /\ tail' = [tail EXCEPT ![d] = "partial"]
    /\ whole' = [whole EXCEPT ![d] = FALSE]
    /\ hold' = [hold EXCEPT ![d] = IdleHold]
    /\ UNCHANGED <<clock, file, ackFile, hubVars, persisted, clientVars, serverVars>>

\* Mistake: the first sample after a restart takes the last sequence of the file.
HighestInFile(f) == IF Held(f) = {} THEN 0
                    ELSE CHOOSE n \in {f[i] : i \in Held(f)} :
                             \A i \in Held(f) : n >= f[i]

HighestPlusOne(f) == IF Held(f) = {} THEN 0
                     ELSE CHOOSE n \in {f[i] + 1 : i \in Held(f)} :
                              \A i \in Held(f) : n > f[i]

\* The application dies and starts again: LoadOutbox and the constructor.
Restart(d) ==
    /\ Fail("crash")
    /\ outbox' = [outbox EXCEPT ![d] = Above(file[d], ackFile[d])]
    /\ nextSeq' = [nextSeq EXCEPT ![d] =
                      Larger(clock[d], Larger(ackFile[d] + 1, HighestPlusOne(file[d])))]
    /\ ackSeq' = [ackSeq EXCEPT ![d] = ackFile[d]]
    /\ \/ /\ tail[d] # "clean"
          /\ file' = [file EXCEPT ![d] = Above(file[d], ackFile[d])]
          /\ tail' = [tail EXCEPT ![d] = "clean"]
       \/ /\ tail[d] = "clean" \/ Fail("rewrite")
          /\ UNCHANGED <<file, tail>>
    /\ hold' = [hold EXCEPT ![d] = IdleHold]
    /\ slot' = [slot EXCEPT ![d] = EmptySlot]
    /\ exchange' = [exchange EXCEPT ![d] = IdleExchange]
    /\ receipt' = [receipt EXCEPT ![d] = IdleReceipt]
    /\ UNCHANGED <<clock, ackFile, whole, persisted, serverVars>>

-----------------------------------------------------------------------------
(* The client: the telemetry slot, the exchange and its receipt.           *)

\* SendTelemetryAsync: a new payload replaces the one in the slot, and with
\* its generation the receipt of an exchange still in flight goes unused.
QueueTelemetry(d) ==
    /\ ~HubLocked(d)
    /\ slot' = [slot EXCEPT ![d] =
                   [full |-> TRUE, seqs |-> Front(outbox[d], BatchLimit)]]
    /\ exchange' = [exchange EXCEPT ![d].current = FALSE]
    /\ UNCHANGED <<clock, fileVars, hubVars, hold, persisted, receipt, serverVars>>

Invoke(h, d, seqs) ==
    /\ handler[h].st = "idle"
    /\ handler' = [handler EXCEPT ![h] =
                      [IdleHandler EXCEPT !.st = "read", !.dev = d, !.seqs = seqs]]

StartExchange(d) ==
    /\ exchange[d].st = "idle"
    /\ receipt[d].st = "idle"
    /\ slot[d].full
    /\ \E h \in Handlers :
          /\ Invoke(h, d, slot[d].seqs)
          /\ exchange' = [exchange EXCEPT ![d] =
                 [st |-> "waiting", by |-> h, seqs |-> slot[d].seqs,
                  current |-> TRUE, attempt |-> 1]]
    /\ UNCHANGED <<clock, fileVars, hubVars, hold, persisted, slot, receipt,
                   doc, heartbeat>>

\* No answer within the timeouts: CloudClient::Request sends the same body
\* once more and then gives up; the slot keeps the payload.  The Worker may
\* still be running the request.
TimeOut(d) ==
    /\ Fail("network")
    /\ exchange[d].st = "waiting"
    /\ IF exchange[d].attempt = 1
       THEN exchange' = [exchange EXCEPT ![d].st = "resend"]
       ELSE exchange' = [exchange EXCEPT ![d] = IdleExchange]
    /\ UNCHANGED <<clock, fileVars, hubVars, hold, persisted, slot, receipt, serverVars>>

Resend(d) ==
    /\ exchange[d].st = "resend"
    /\ \E h \in Handlers :
          /\ Invoke(h, d, exchange[d].seqs)
          /\ exchange' = [exchange EXCEPT ![d].st = "waiting", ![d].by = h,
                                          ![d].attempt = 2]
    /\ UNCHANGED <<clock, fileVars, hubVars, hold, persisted, slot, receipt,
                   doc, heartbeat>>

Awaits(d, h) == /\ exchange[d].st = "waiting"
                /\ exchange[d].by = h
                /\ handler[h].dev = d

\* The response reaches the client; its receipt counts only when the slot
\* still holds the generation that was sent.
TakeReceipt(d, h) ==
    /\ Awaits(d, h)
    /\ handler[h].st = "reply"
    /\ exchange' = [exchange EXCEPT ![d] = IdleExchange]
    /\ handler' = [handler EXCEPT ![h] = IdleHandler]
    /\ IF exchange[d].current
       THEN /\ slot' = [slot EXCEPT ![d] = EmptySlot]
            /\ receipt' = [receipt EXCEPT ![d] =
                   [IdleReceipt EXCEPT !.st = "taken", !.acked = handler[h].acked,
                                       !.next = handler[h].next]]
       ELSE UNCHANGED <<slot, receipt>>
    /\ UNCHANGED <<clock, fileVars, hubVars, hold, persisted, doc, heartbeat>>

\* Mistake: acknowledged samples are not removed before the rest is renumbered.
UnackedStays(f, acked) == f

Unacked(f, acked) == [i \in Samples |-> IF f[i] \in acked THEN 0 ELSE f[i]]

\* candidate after the first i samples when ack is the new high-water mark
Floor(f, ack) ==
    LET floor[i \in 0 .. MaxSamples] ==
          IF i = 0 THEN ack + 1
          ELSE IF f[i] = 0 THEN floor[i - 1]
          ELSE Larger(f[i], floor[i - 1]) + 1
    IN floor

Rebased(f, ack) ==
    [i \in Samples |-> IF f[i] = 0 THEN 0 ELSE Larger(f[i], Floor(f, ack)[i - 1])]

\* ApplyTelemetryReceipt up to its first durable write: samples that stay are
\* moved above the server's high-water mark, and the file is rewritten first.
RebaseOutbox(d) ==
    /\ receipt[d].st = "taken"
    /\ LET r    == receipt[d]
           ack  == CHOOSE n \in {ackSeq[d], r.next - 1} \cup r.acked :
                       \A m \in {ackSeq[d], r.next - 1} \cup r.acked : n >= m
           kept == Unacked(outbox[d], r.acked)
           new  == Rebased(kept, ack)
           exhausted == \E i \in Held(kept) : new[i] > MaxSequence
           adopt == [r EXCEPT !.st = "ack", !.ack = ack, !.seqs = new,
                              !.rebased = (new # kept),
                              !.floor = Floor(kept, ack)[MaxSamples]]
       IN \/ /\ ~exhausted /\ new = kept
             /\ receipt' = [receipt EXCEPT ![d] = adopt]
             /\ UNCHANGED <<file, tail>>
          \/ /\ ~exhausted /\ new # kept
             /\ file' = [file EXCEPT ![d] = new]
             /\ tail' = [tail EXCEPT ![d] = "clean"]
             /\ receipt' = [receipt EXCEPT ![d] = adopt]
          \/ /\ exhausted \/ (new # kept /\ Fail("rewrite"))
             /\ receipt' = [receipt EXCEPT ![d] = IdleReceipt]
             /\ UNCHANGED <<file, tail>>
    /\ UNCHANGED <<clock, ackFile, whole, hubVars, hold, persisted, slot, exchange, serverVars>>

PersistAck(d) ==
    /\ receipt[d].st = "ack"
    /\ \/ /\ ackFile' = [ackFile EXCEPT ![d] =
                            IF receipt[d].ack > ackSeq[d] THEN receipt[d].ack ELSE @]
          /\ receipt' = [receipt EXCEPT ![d].st = "adopt"]
          /\ UNCHANGED whole
       \/ /\ Fail("ack write") /\ receipt[d].ack > ackSeq[d]
          /\ receipt' = [receipt EXCEPT ![d].st = "adopt", ![d].saved = FALSE]
          /\ whole' = [whole EXCEPT ![d] = FALSE]
          /\ UNCHANGED ackFile
    /\ UNCHANGED <<clock, file, tail, hubVars, hold, persisted, slot, exchange, serverVars>>

\* The rest of ApplyTelemetryReceipt.  Whether kCompactAfterAck or
\* kCompactBytes has been reached is left open; a failed acknowledgement
\* write forces the compaction.
AdoptReceipt(d) ==
    /\ receipt[d].st = "adopt"
    /\ LET r == receipt[d]
           changed == r.seqs # outbox[d]
       IN /\ outbox' = [outbox EXCEPT ![d] = r.seqs]
          /\ \/ /\ changed /\ ~r.rebased
                /\ file' = [file EXCEPT ![d] = r.seqs]
                /\ tail' = [tail EXCEPT ![d] = "clean"]
             \/ /\ changed /\ ~r.rebased => r.saved \/ Fail("rewrite")
                /\ UNCHANGED <<file, tail>>
          /\ ackSeq' = [ackSeq EXCEPT ![d] = Larger(@, r.ack)]
          /\ nextSeq' = [nextSeq EXCEPT ![d] = Larger(@, r.floor)]
    /\ receipt' = [receipt EXCEPT ![d] = IdleReceipt]
    /\ UNCHANGED <<clock, ackFile, whole, hold, persisted, slot, exchange, serverVars>>

-----------------------------------------------------------------------------
(* The Worker: one invocation per HTTP attempt.                            *)

\* mergeR2EnvironmentTelemetry reads the document; a batch with nothing above
\* lastSequences is acknowledged without a write.
ReadDocument(h) ==
    /\ handler[h].st = "read"
    /\ LET r    == handler[h]
           last == doc.last[r.dev]
           none == \A i \in Held(r.seqs) : r.seqs[i] <= last
       IN handler' = [handler EXCEPT ![h] =
             IF none THEN [r EXCEPT !.st = "beat", !.last = last]
                     ELSE [r EXCEPT !.st = "put", !.doc = doc]]
    /\ UNCHANGED <<clock, fileVars, hubVars, hold, persisted, clientVars, doc, heartbeat>>

\* Samples of the batch the document does not have, one per sequence number.
Fresh(seqs, last) ==
    {i \in Held(seqs) : /\ seqs[i] > last
                        /\ \A j \in Held(seqs) : seqs[j] = seqs[i] => i <= j}

Highest(seqs, last) ==
    CHOOSE n \in {last} \cup {seqs[i] : i \in Held(seqs)} :
        /\ n >= last
        /\ \A i \in Held(seqs) : n >= seqs[i]

\* Mistake: the document is rebuilt from this device's samples alone.
MergedAlone(r) ==
    [last |-> [EmptyDoc.last EXCEPT ![r.dev] = Highest(r.seqs, r.doc.last[r.dev])],
     counted |-> [EmptyDoc.counted EXCEPT ![r.dev] =
         [i \in Samples |-> IF i \in Held(r.seqs) THEN 1 ELSE 0]]]

MergedDocument(r) ==
    [last |-> [r.doc.last EXCEPT ![r.dev] = Highest(r.seqs, @)],
     counted |-> [r.doc.counted EXCEPT ![r.dev] =
         [i \in Samples |-> IF i \in Fresh(r.seqs, r.doc.last[r.dev])
                            THEN @[i] + 1 ELSE @[i]]]]

\* Mistake: bucket.put without onlyIf.
EtagIgnored(r) == TRUE

\* bucket.put with onlyIf etagMatches: every put changes the document's
\* content, so equal etags are equal documents.
EtagMatches(r) == r.doc = doc

\* Mistake: the loop makes one attempt too many.
MayRetryOnceMore(tries) == tries < MaxCasAttempts

MayRetry(tries) == tries + 1 < MaxCasAttempts

PutDocument(h) ==
    /\ handler[h].st = "put"
    /\ LET r == handler[h]
       IN IF EtagMatches(r)
          THEN /\ doc' = MergedDocument(r)
               /\ handler' = [handler EXCEPT ![h] =
                      [r EXCEPT !.st = "beat", !.doc = EmptyDoc,
                                !.last = Highest(r.seqs, r.doc.last[r.dev])]]
          ELSE /\ handler' = [handler EXCEPT ![h] =
                      IF MayRetry(r.tries)
                      THEN [r EXCEPT !.st = "read", !.doc = EmptyDoc, !.tries = @ + 1]
                      ELSE IdleHandler]
               /\ UNCHANGED doc
    /\ UNCHANGED <<clock, fileVars, hubVars, hold, persisted, clientVars, heartbeat>>

\* The heartbeat upsert keeps the larger last_sequence and returns it.
UpsertHeartbeat(h) ==
    /\ handler[h].st = "beat"
    /\ LET r    == handler[h]
           last == Larger(heartbeat[r.dev], r.last)
       IN /\ heartbeat' = [heartbeat EXCEPT ![r.dev] = last]
          /\ handler' = [handler EXCEPT ![h] =
                [IdleHandler EXCEPT !.st = "reply", !.dev = r.dev, !.seqs = r.seqs,
                     !.next = last + 1,
                     !.acked = {r.seqs[i] : i \in {j \in Held(r.seqs) : r.seqs[j] <= r.last}}]]
    /\ UNCHANGED <<clock, fileVars, hubVars, hold, persisted, clientVars, doc>>

\* The request never arrives, D1 or R2 fails, or the response is lost; an
\* answer nobody waits for any more is dropped.
EndInvocation(h) ==
    /\ handler[h].st # "idle"
    /\ \/ Fail("network")
       \/ handler[h].st = "reply" /\ \A d \in Devices : ~Awaits(d, h)
    /\ handler' = [handler EXCEPT ![h] = IdleHandler]
    /\ UNCHANGED <<clock, fileVars, hubVars, hold, persisted, clientVars, doc, heartbeat>>

-----------------------------------------------------------------------------
DeviceStep(d) ==
    \/ TickClock(d) \/ SetClockBack(d)
    \/ DrawSequence(d) \/ AdvanceSequence(d) \/ SkipSample(d)
    \/ AppendOutbox(d) \/ TearAppend(d) \/ Restart(d)

ClientStep(d) ==
    \/ QueueTelemetry(d) \/ StartExchange(d) \/ TimeOut(d) \/ Resend(d)
    \/ \E h \in Handlers : TakeReceipt(d, h)
    \/ RebaseOutbox(d) \/ PersistAck(d) \/ AdoptReceipt(d)

WorkerStep(h) ==
    \/ ReadDocument(h) \/ PutDocument(h) \/ UpsertHeartbeat(h) \/ EndInvocation(h)

Next ==
    \/ \E d \in Devices : DeviceStep(d) \/ ClientStep(d)
    \/ \E h \in Handlers : WorkerStep(h)

Spec == Init /\ [][Next]_vars

\* An answer to h is still of use: its client waits and its payload is current.
Useful(h) == \E d \in Devices : Awaits(d, h) /\ exchange[d].current

\* The threads and the Worker keep running.  Telemetry is queued every few
\* minutes, an exchange lasts at most two timeouts of 8 seconds and the network
\* is not down for ever: an exchange that is tried again and again is answered
\* in time and before its payload is replaced.
Fairness ==
    /\ \A d \in Devices :
          /\ WF_vars(QueueTelemetry(d) /\ ~slot[d].full)
          /\ WF_vars(StartExchange(d)) /\ WF_vars(Resend(d)) /\ WF_vars(TimeOut(d))
          /\ WF_vars(RebaseOutbox(d)) /\ WF_vars(PersistAck(d))
          /\ WF_vars(AdoptReceipt(d))
          /\ SF_vars(\E h \in Handlers : Useful(h) /\ TakeReceipt(d, h))
    /\ \A h \in Handlers :
          /\ SF_vars(Useful(h) /\ ReadDocument(h))
          /\ SF_vars(Useful(h) /\ PutDocument(h))
          /\ SF_vars(Useful(h) /\ UpsertHeartbeat(h))
          /\ WF_vars(ReadDocument(h) \/ PutDocument(h) \/ UpsertHeartbeat(h)
                     \/ EndInvocation(h))

FairSpec == Spec /\ Fairness

-----------------------------------------------------------------------------
(* What the delivery promises.                                             *)

Batch    == [Samples -> Nat]
Document == [last : [Devices -> Nat], counted : [Devices -> Batch]]

Exchange == [st : {"idle", "waiting", "resend"}, by : Handlers \cup {NoOne},
             seqs : Batch, current : BOOLEAN, attempt : {1, 2}]

Receipt == [st : {"idle", "taken", "ack", "adopt"}, acked : SUBSET Nat, next : Nat,
            ack : Nat, seqs : Batch, rebased : BOOLEAN, saved : BOOLEAN, floor : Nat]

Invocation == [st : {"idle", "read", "put", "beat", "reply"},
               dev : Devices \cup {NoOne}, seqs : Batch,
               tries : 0 .. MaxCasAttempts - 1, last : Nat,
               acked : SUBSET Nat, next : Nat, doc : Document]

\* Type invariant of the delivery: outbox, files, requests and the document.
TypeOK ==
    /\ clock \in [Devices -> 1 .. MaxClock]
    /\ file \in [Devices -> Batch]
    /\ tail \in [Devices -> {"clean", "partial", "broken"}]
    /\ ackFile \in [Devices -> Nat]
    /\ whole \in [Devices -> BOOLEAN]
    /\ outbox \in [Devices -> Batch]
    /\ nextSeq \in [Devices -> Nat]
    /\ ackSeq \in [Devices -> Nat]
    /\ hold \in [Devices -> [st : {"idle", "drawn", "ready"}, seq : Nat]]
    /\ persisted \in [Devices -> 0 .. MaxSamples]
    /\ slot \in [Devices -> [full : BOOLEAN, seqs : Batch]]
    /\ exchange \in [Devices -> Exchange]
    /\ receipt \in [Devices -> Receipt]
    /\ doc \in Document
    /\ heartbeat \in [Devices -> Nat]
    /\ handler \in [Handlers -> Invocation]

\* The Worker acknowledges a sample only when the document counts it.  After a
\* torn append or a lost acknowledgement a sequence number can be used again,
\* and the Worker takes the second sample for the first.
AcknowledgedIsCounted ==
    \A h \in Handlers : handler[h].st = "reply" /\ whole[handler[h].dev] =>
        \A i \in Held(handler[h].seqs) :
            handler[h].seqs[i] \in handler[h].acked =>
                doc.counted[handler[h].dev][i] >= 1

\* What the Worker acknowledges, the document's lastSequences covers from then
\* on: no other invocation takes the high-water mark back.
AcknowledgedIsCovered ==
    \A h \in Handlers : \A n \in handler[h].acked : n <= doc.last[handler[h].dev]

\* No write of the document drops what another invocation put there: the
\* compare-and-set of mergeR2EnvironmentTelemetry loses no device's samples.
MergesKeepCounts ==
    [][\A d \in Devices, i \in Samples : doc'.counted[d][i] >= doc.counted[d][i]]_doc

\* What became of a sample, seen from the durable state alone; nothing is
\* promised of a device whose disk lost a write.
Status(d, i) ==
    IF ~whole[d] THEN "damaged"
    ELSE IF doc.counted[d][i] = 1 THEN "counted"
    ELSE IF doc.counted[d][i] > 1 THEN "counted twice"
    ELSE IF i > persisted[d] THEN "new"
    ELSE IF file[d][i] > ackFile[d] THEN "kept" ELSE "lost"

Promise == INSTANCE TelemetryPromise
           WITH Items  <- Devices \X Samples,
                status <- [x \in Devices \X Samples |-> Status(x[1], x[2])]

\* As long as the disk takes every append and every acknowledgement whole, a
\* sample the outbox accepted is on disk above the acknowledged sequence until
\* it is counted, and is counted once, whatever is retried, delayed, duplicated
\* or replayed after a restart and wherever the clock is set (TelemetryPromise).
KeptUntilCounted == Promise!Spec

\* Every sample the outbox accepted is counted in the end and leaves the outbox.
EventuallyDelivered ==
    \A d \in Devices, i \in Samples :
        (persisted[d] >= i) ~> (doc.counted[d][i] >= 1 /\ outbox[d][i] = 0)
=============================================================================
