--------------------------- MODULE ArrivalsProofs ---------------------------
(***************************************************************************)
(* Proofs about the import of videos, for any numbers of deliveries,       *)
(* chunks, retries and faults, and about the versions a panel and the      *)
(* Worker agree on.  JobOK says what the rows of the job agree on, RunOK   *)
(* what a delivery under way may rely on: most of it only as long as it    *)
(* holds the job's lock, since its lock may time out and another may       *)
(* overtake it at every await.  That no job is orphaned is an account of   *)
(* how often its messages have come back.                                  *)
(***************************************************************************)
EXTENDS MCArrivals, FiniteFacts

Steps == {"idle", "acquire", "look", "save", "advance", "feed", "sync", "commit",
          "abandon", "complete", "defer", "release", "sweep", "judge", "publish"}

\* Steps that rely on nothing about the job.
Quiet == {"idle", "acquire", "look", "abandon", "defer", "release", "judge", "publish"}

JobOK(j, k, st, fd) ==
    /\ j.lock.holder # Nobody => j.status \in {"processing", "finalizing"}
    /\ j.lock.holder # Collector
    /\ j.status = "absent" => j.next = 0
    /\ j.status \in {"pending", "processing"} => j.next < TotalChunks
    /\ j.status = "finalizing" => j.next = TotalChunks /\ j.changed > 0
    /\ j.status \in Active \cup {"absent"} => j.failures < MaxFailures
    /\ j.changed =< j.next
    /\ j.status = "completed" /\ j.changed > 0 => j.next = TotalChunks /\ Chunks \subseteq fd
    /\ j.status \in Active => k
    /\ \A chunk \in 0 .. j.next - 1 : chunk \in st
    /\ fd \subseteq st

RunOK(c, r, j, st, fd) ==
    /\ r.step \in {"save", "advance"} => r.chunk \in Chunks
    /\ r.step \in {"save", "advance"} /\ j.lock.holder = c =>
          j.status = "processing" /\ r.chunk = j.next
    /\ r.step = "advance" => r.chunk \in st /\ r.changed \in {0, 1}
    /\ r.step \in {"feed", "sync", "commit", "complete"} /\ j.lock.holder = c =>
          j.status = "finalizing"
    /\ r.step \in {"commit", "complete"} /\ j.lock.holder = c => Chunks \subseteq fd
    /\ r.step = "sweep" => j.status \in Settled

IInv ==
    /\ TypeOK
    /\ JobOK(job, kept, stored, feed)
    /\ request = "store" => job.status = "absent"
    /\ \A c \in Consumers : RunOK(c, run[c], job, stored, feed)

-----------------------------------------------------------------------------
(* Messages and deliveries.                                                *)

LEMMA NumbersOK == 0 \in 0 .. TotalChunks /\ 0 \in 0 .. MaxRetries /\ 0 \in 0 .. MaxFailures
                   /\ TotalChunks \in Nat /\ MaxRetries \in Nat /\ TotalChunks > 1
BY ImportAssumption DEF MaxFailures

\* A message more or less: the queue stays a bag of messages.
LEMMA QueueSend ==
    ASSUME NEW q, IsABag(q), BagToSet(q) \subseteq Message, NEW m \in Message
    PROVE  /\ IsABag(q (+) SetToBag({m}))
           /\ BagToSet(q (+) SetToBag({m})) \subseteq Message
<1> DEFINE new == q (+) SetToBag({m})
<1>1. DOMAIN q \subseteq Message /\ q \in [DOMAIN q -> {n \in Nat : n > 0}]
  BY DEF IsABag, BagToSet
<1>2. new = [e \in DOMAIN q \cup {m} |-> (IF e \in DOMAIN q THEN q[e] ELSE 0)
                                         + (IF e \in {m} THEN 1 ELSE 0)]
  BY DEF (+), SetToBag
<1> HIDE DEF new
<1>3. DOMAIN new = DOMAIN q \cup {m}
  BY <1>2
<1>4. \A e \in DOMAIN new : new[e] \in Nat /\ new[e] > 0
  <2> TAKE e \in DOMAIN new
  <2>1. CASE e \in DOMAIN q
    <3>1. q[e] \in Nat /\ q[e] > 0
      BY <1>1, <2>1
    <3>2. new[e] = q[e] + (IF e \in {m} THEN 1 ELSE 0)
      BY <1>2, <2>1
    <3>3. QED
      BY <3>1, <3>2
  <2>2. CASE e \notin DOMAIN q
    <3>1. e = m /\ new[e] = 0 + 1
      BY <1>2, <1>3, <2>2
    <3>2. QED
      BY <3>1
  <2>3. QED
    BY <2>1, <2>2
<1>5. new \in [DOMAIN new -> {n \in Nat : n > 0}]
  BY <1>2, <1>3, <1>4
<1>6. QED
  BY <1>1, <1>3, <1>5 DEF IsABag, BagToSet, new

LEMMA QueueTake ==
    ASSUME NEW q, IsABag(q), BagToSet(q) \subseteq Message, NEW m \in BagToSet(q)
    PROVE  /\ IsABag(q (-) SetToBag({m}))
           /\ BagToSet(q (-) SetToBag({m})) \subseteq Message
<1> DEFINE less == [e \in DOMAIN q |-> IF e \in DOMAIN SetToBag({m})
                                         THEN q[e] - SetToBag({m})[e] ELSE q[e]]
           left == {d \in DOMAIN less : less[d] > 0}
           new  == [e \in left |-> less[e]]
<1>1. DOMAIN q \subseteq Message /\ q \in [DOMAIN q -> {n \in Nat : n > 0}]
  BY DEF IsABag, BagToSet
<1>2. q (-) SetToBag({m}) = new
  BY DEF (-)
<1>3. DOMAIN SetToBag({m}) = {m} /\ SetToBag({m})[m] = 1
  BY DEF SetToBag
<1>4. \A e \in DOMAIN q : less[e] \in Int
  <2> TAKE e \in DOMAIN q
  <2>1. q[e] \in Nat
    BY <1>1
  <2>2. less[e] = (IF e = m THEN q[e] - 1 ELSE q[e])
    BY <1>3
  <2>3. QED
    BY <2>1, <2>2
<1>5. DOMAIN less = DOMAIN q
  OBVIOUS
<1> HIDE DEF less
<1>6. left \subseteq Message /\ \A e \in left : new[e] \in Nat /\ new[e] > 0
  BY <1>1, <1>4, <1>5
<1>7. new \in [left -> {n \in Nat : n > 0}] /\ DOMAIN new = left
  BY <1>6
<1>8. QED
  BY <1>2, <1>6, <1>7 DEF IsABag, BagToSet

\* A delivery goes on to another step.
LEMMA Stepped ==
    ASSUME run \in [Consumers -> Run], NEW c \in Consumers, NEW s \in Steps, Go(c, s)
    PROVE  /\ run' \in [Consumers -> Run]
           /\ run'[c].step = s /\ run'[c].chunk = run[c].chunk
           /\ run'[c].changed = run[c].changed
           /\ \A d \in Consumers : d # c => run'[d] = run[d]
BY DEF Go, Run, Steps

LEMMA Finished ==
    ASSUME run \in [Consumers -> Run], NEW c \in Consumers, Finish(c)
    PROVE  /\ run' \in [Consumers -> Run] /\ run'[c].step = "idle"
           /\ \A d \in Consumers : d # c => run'[d] = run[d]
<1>1. NoRun \in Run /\ NoRun.step = "idle"
  BY NumbersOK DEF NoRun, Run
<1>2. QED
  BY <1>1 DEF Finish

LEMMA Begun ==
    ASSUME run \in [Consumers -> Run], NEW c \in Consumers, NEW s \in Steps,
           NEW n \in 0 .. TotalChunks, NEW m \in 0 .. TotalChunks,
           run' = [run EXCEPT ![c].step = s, ![c].chunk = n, ![c].changed = m]
    PROVE  /\ run' \in [Consumers -> Run] /\ run'[c].step = s /\ run'[c].chunk = n
           /\ \A d \in Consumers : d # c => run'[d] = run[d]
<1> DEFINE new == [run[c] EXCEPT !.step = s, !.chunk = n, !.changed = m]
<1>1. new \in Run /\ new.step = s /\ new.chunk = n
  BY DEF Run, Steps
<1>2. run' = [run EXCEPT ![c] = new]
  BY DEF Run
<1> HIDE DEF new
<1>3. run'[c] = new /\ \A d \in Consumers : d # c => run'[d] = run[d]
  BY <1>2
<1>4. run' \in [Consumers -> Run]
  BY <1>1, <1>2
<1>5. QED
  BY <1>1, <1>3, <1>4

LEMMA FreshMessage == Fresh \in Message
BY NumbersOK DEF Fresh, Message

LEMMA Retried ==
    ASSUME TypeOK, NEW c \in Consumers, NEW holder \in Consumers \cup {Nobody}, Retry(c, holder)
    PROVE  /\ run' \in [Consumers -> Run] /\ run'[c].step = "idle"
           /\ \A d \in Consumers : d # c => run'[d] = run[d]
           /\ IsABag(queue') /\ BagToSet(queue') \subseteq Message
<1>1. run \in [Consumers -> Run] /\ Finish(c)
  BY DEF TypeOK, Retry
<1>2. IsABag(queue') /\ BagToSet(queue') \subseteq Message
  <2>1. CASE run[c].attempts < MaxRetries
    <3> DEFINE m == [attempts |-> run[c].attempts + 1, behind |-> holder]
    <3>1. run[c].attempts \in 0 .. MaxRetries
      BY <1>1 DEF Run
    <3>2. m \in Message
      BY <2>1, <3>1, NumbersOK DEF Message
    <3>3. queue' = queue (+) SetToBag({m})
      BY <2>1 DEF Retry, Send
    <3> HIDE DEF m
    <3>4. QED
      BY <3>2, <3>3, QueueSend DEF TypeOK
  <2>2. CASE ~(run[c].attempts < MaxRetries)
    BY <2>2 DEF Retry, TypeOK
  <2>3. QED
    BY <2>1, <2>2
<1>3. QED
  BY <1>1, <1>2, Finished

-----------------------------------------------------------------------------
(* What a step has to show.                                                *)

LEMMA QuietRun ==
    ASSUME NEW c, NEW r, r.step \in Quiet, NEW j, NEW st, NEW fd
    PROVE  RunOK(c, r, j, st, fd)
BY DEF RunOK, Quiet

\* A delivery that does not move relies on what it did, unless its lock is taken.
LEMMA RestingRun ==
    ASSUME NEW c, NEW r, NEW j, NEW st, NEW fd, RunOK(c, r, j, st, fd),
           NEW j2, NEW st2, NEW fd2,
           j2.lock.holder = c =>
               j.lock.holder = c /\ j2.status = j.status /\ j2.next = j.next,
           j.status \in Settled => j2.status \in Settled,
           st \subseteq st2, Chunks \subseteq fd => Chunks \subseteq fd2
    PROVE  RunOK(c, r, j2, st2, fd2)
BY DEF RunOK

LEMMA Preserved ==
    ASSUME IInv, TypeOK', JobOK(job', kept', stored', feed'),
           request' = "store" => job'.status = "absent",
           job.status \in Settled => job'.status \in Settled,
           stored \subseteq stored', Chunks \subseteq feed => Chunks \subseteq feed',
           \A c \in Consumers :
               \/ RunOK(c, run'[c], job', stored', feed')
               \/ /\ run'[c] = run[c]
                  /\ job'.lock.holder = c =>
                         /\ job.lock.holder = c
                         /\ job'.status = job.status /\ job'.next = job.next
    PROVE  IInv'
<1>1. ASSUME NEW c \in Consumers PROVE RunOK(c, run'[c], job', stored', feed')
  <2>1. CASE RunOK(c, run'[c], job', stored', feed')
    BY <2>1
  <2>2. CASE ~RunOK(c, run'[c], job', stored', feed')
    <3>1. RunOK(c, run[c], job, stored, feed)
      BY DEF IInv
    <3>2. run'[c] = run[c]
      BY <2>2
    <3>3. RunOK(c, run[c], job', stored', feed')
      BY <2>2, <3>1, RestingRun
    <3>4. QED
      BY <3>2, <3>3
  <2>3. QED
    BY <2>1, <2>2
<1>2. QED
  BY <1>1 DEF IInv

\* A step of one delivery that leaves the job and what it relies on alone.
LEMMA QuietStep ==
    ASSUME IInv, NEW c \in Consumers,
           UNCHANGED <<job, kept, stored, feed, feedLock, request, collection>>,
           recoveries' \in 0 .. MaxRecoveries, faults' \in 0 .. MaxFaults,
           IsABag(queue'), BagToSet(queue') \subseteq Message,
           run' \in [Consumers -> Run], run'[c].step \in Quiet,
           \A d \in Consumers : d # c => run'[d] = run[d]
    PROVE  IInv'
<1>1. TypeOK'
  BY DEF IInv, TypeOK
<1>2. JobOK(job', kept', stored', feed') /\ (request' = "store" => job'.status = "absent")
  BY DEF IInv
<1>3. RunOK(c, run'[c], job', stored', feed')
  BY QuietRun
<1>4. QED
  BY <1>1, <1>2, <1>3, Preserved

\* Faults are counted up to their bound.
LEMMA FaultsCounted ==
    ASSUME TypeOK, Fault \/ NoFault
    PROVE  faults' \in 0 .. MaxFaults
BY ImportAssumption DEF TypeOK, Fault, NoFault

LEMMA LockFacts ==
    ASSUME IInv
    PROVE  /\ job \in Job /\ job.lock \in Lock /\ Free \in Lock /\ Free.holder = Nobody
           /\ job.lock.holder \in Consumers \cup {Nobody}
           /\ \A c \in Consumers : HeldBy(c) \in Lock /\ HeldBy(c).holder = c
           /\ Nobody \notin Consumers /\ Collector \notin Consumers
BY ImportAssumption DEF IInv, TypeOK, JobOK, Job, Lock, Free, HeldBy, Finalizers

-----------------------------------------------------------------------------
(* What the statements on the job's row do.                                *)

LEMMA AcquiredJob ==
    ASSUME IInv, NEW c \in Consumers, Acquirable, Acquired(c)
    PROVE  /\ job' \in Job /\ job'.lock.holder = c
           /\ job'.status = IF job.status = "finalizing" THEN "finalizing" ELSE "processing"
           /\ job'.next = job.next /\ job'.changed = job.changed /\ job'.failures = job.failures
           /\ job'.status \in Active /\ JobOK(job', kept, stored, feed)
<1>1. job \in Job /\ HeldBy(c) \in Lock /\ HeldBy(c).holder = c
  BY LockFacts
<1>2. /\ job' \in Job /\ job'.lock = HeldBy(c)
      /\ job'.status = IF job.status = "finalizing" THEN "finalizing" ELSE "processing"
      /\ job'.next = job.next /\ job'.changed = job.changed /\ job'.failures = job.failures
  BY <1>1 DEF Acquired, Job, Active
<1>3. c # Nobody /\ c # Collector
  BY LockFacts
<1>4. job.status \in Active /\ job'.status \in {"processing", "finalizing"}
  BY <1>2 DEF Acquirable
<1>5. JobOK(job', kept, stored, feed)
  BY <1>1, <1>2, <1>3, <1>4 DEF IInv, JobOK, Active
<1>6. QED
  BY <1>1, <1>2, <1>4, <1>5 DEF Active

\* The holder of the lock settles or frees the job: what every such statement keeps.
LEMMA ActiveJob ==
    ASSUME IInv, NEW c \in Consumers, Holds(c)
    PROVE  /\ job.status \in {"processing", "finalizing"} /\ kept /\ job.failures + 1 =< MaxFailures
           /\ job.failures \in Nat /\ job.next \in Nat /\ job.changed \in Nat
<1>1. job.status \in {"processing", "finalizing"} /\ job.failures < MaxFailures
  BY LockFacts DEF IInv, JobOK, Holds, Active
<1>2. job.failures \in Nat /\ job.next \in Nat /\ job.changed \in Nat
  BY LockFacts, NumbersOK DEF Job
<1>3. QED
  BY <1>1, <1>2 DEF IInv, JobOK, Active, MaxFailures

LEMMA AdvancedJob ==
    ASSUME IInv, NEW c \in Consumers, At(c, "advance"), Holds(c)
    PROVE  /\ Advanced(c) \in Job /\ Advanced(c).lock = Free
           /\ JobOK(Advanced(c), kept, stored, feed)
           /\ Advanced(c).status \in Active \cup {"completed"}
<1> DEFINE next == job.next + 1
           changed == job.changed + run[c].changed
           outcome == IF next < TotalChunks THEN "pending"
                     ELSE IF changed = 0 THEN "completed" ELSE "finalizing"
           new == Advanced(c)
<1>1. /\ job.status = "processing" /\ run[c].chunk = job.next
      /\ job.next \in stored /\ run[c].changed \in {0, 1}
  BY DEF IInv, RunOK, At, Holds
<1>2. job \in Job /\ Free \in Lock /\ Free.holder = Nobody
  BY LockFacts
<1>3. job.next \in Nat /\ job.changed \in Nat /\ kept
  BY ActiveJob
<1>4. job.next < TotalChunks /\ job.changed =< job.next
  BY <1>1 DEF IInv, JobOK
<1>5. next \in 0 .. TotalChunks /\ changed \in 0 .. TotalChunks /\ changed =< next
  BY <1>1, <1>3, <1>4, NumbersOK
<1>6. new = [job EXCEPT !.next = next, !.changed = changed, !.failures = 0, !.lock = Free,
                        !.status = outcome]
  BY DEF Advanced
<1>7. outcome \in {"pending", "completed", "finalizing"}
  OBVIOUS
<1>8. /\ outcome = "pending" => next < TotalChunks
      /\ outcome = "finalizing" => next = TotalChunks /\ changed > 0
      /\ outcome = "completed" => changed = 0
  BY <1>3, <1>5, NumbersOK
<1> HIDE DEF next, changed, outcome, new
<1>9. /\ new \in Job /\ new.next = next /\ new.changed = changed /\ new.failures = 0
      /\ new.lock = Free /\ new.status = outcome
  BY <1>2, <1>5, <1>6, <1>7, NumbersOK DEF Job, Active, Settled
<1>10. \A chunk \in 0 .. new.next - 1 : chunk \in stored
  <2>1. \A chunk \in 0 .. job.next - 1 : chunk \in stored
    BY DEF IInv, JobOK
  <2>2. QED
    BY <1>1, <1>3, <1>9, <2>1 DEF next
<1>11. Nobody # Collector
  BY ImportAssumption DEF Finalizers
<1>12. JobOK(new, kept, stored, feed)
  <2>1. feed \subseteq stored
    BY DEF IInv, JobOK
  <2>2. QED
    BY <2>1, <1>2, <1>3, <1>5, <1>7, <1>8, <1>9, <1>10, <1>11 DEF JobOK, Active, MaxFailures
<1>13. QED
  BY <1>7, <1>9, <1>12 DEF new, Active

LEMMA ReleasedJob ==
    ASSUME IInv, NEW c \in Consumers, Holds(c)
    PROVE  /\ Released \in Job /\ Released.lock = Free
           /\ JobOK(Released, kept, stored, feed)
           /\ Released.status \in {"failed", "finalizing", "pending"}
<1> DEFINE outcome == IF job.failures + 1 >= MaxFailures THEN "failed"
                     ELSE IF job.status = "finalizing" THEN "finalizing" ELSE "pending"
           new == Released
<1>1. job \in Job /\ Free \in Lock /\ Free.holder = Nobody
  BY LockFacts
<1>2. /\ job.status \in {"processing", "finalizing"} /\ kept
      /\ job.failures + 1 =< MaxFailures /\ job.failures \in Nat
      /\ job.next \in Nat /\ job.changed \in Nat
  BY ActiveJob
<1>3. new = [job EXCEPT !.failures = job.failures + 1, !.lock = Free, !.status = outcome]
  BY <1>1 DEF Released, Job
<1>4. outcome \in {"failed", "finalizing", "pending"}
  OBVIOUS
<1>5. /\ outcome = "pending" => job.status = "processing"
      /\ outcome = "finalizing" => job.status = "finalizing"
      /\ outcome \in {"pending", "finalizing"} => job.failures + 1 < MaxFailures
  BY <1>2 DEF MaxFailures
<1>6. job.failures + 1 \in 0 .. MaxFailures
  BY <1>2 DEF MaxFailures
<1> HIDE DEF outcome, new
<1>7. /\ new \in Job /\ new.next = job.next /\ new.changed = job.changed
      /\ new.failures = job.failures + 1 /\ new.lock = Free /\ new.status = outcome
  BY <1>1, <1>3, <1>4, <1>6 DEF Job, Active, Settled
<1>8. Nobody # Collector
  BY ImportAssumption DEF Finalizers
<1>9. JobOK(job, kept, stored, feed)
  BY DEF IInv
<1>10. JobOK(new, kept, stored, feed)
  BY <1>1, <1>2, <1>4, <1>5, <1>7, <1>8, <1>9 DEF JobOK, Active
<1>11. QED
  BY <1>4, <1>7, <1>10 DEF new

-----------------------------------------------------------------------------
(* The steps of a delivery that leave the job alone.                       *)

LEMMA DeliverStep == ASSUME IInv, NEW c \in Consumers, Deliver(c) PROVE IInv'
<1>1. PICK m \in BagToSet(queue) :
          /\ queue' = queue (-) SetToBag({m})
          /\ run' = [run EXCEPT ![c] = [NoRun EXCEPT !.step = "acquire", !.attempts = m.attempts]]
  BY DEF Deliver
<1>2. IsABag(queue) /\ BagToSet(queue) \subseteq Message /\ run \in [Consumers -> Run]
  BY DEF IInv, TypeOK
<1>3. IsABag(queue') /\ BagToSet(queue') \subseteq Message
  BY <1>1, <1>2, QueueTake
<1>4. m.attempts \in 0 .. MaxRetries
  BY <1>1, <1>2 DEF Message
<1> DEFINE next == [NoRun EXCEPT !.step = "acquire", !.attempts = m.attempts]
<1>5. next \in Run /\ next.step = "acquire"
  BY <1>4, NumbersOK DEF NoRun, Run
<1> HIDE DEF next
<1>6. run' = [run EXCEPT ![c] = next]
  BY <1>1 DEF next
<1>7. /\ run' \in [Consumers -> Run] /\ run'[c].step \in Quiet
      /\ \A d \in Consumers : d # c => run'[d] = run[d]
  BY <1>2, <1>5, <1>6 DEF Quiet
<1>8. /\ UNCHANGED <<job, kept, stored, feed, feedLock, request, collection>>
      /\ recoveries' \in 0 .. MaxRecoveries /\ faults' \in 0 .. MaxFaults
  BY DEF Deliver, IInv, TypeOK
<1>9. QED
  BY <1>3, <1>7, <1>8, QuietStep

\* What the steps below have in common.
LEMMA RetryStep ==
    ASSUME IInv, NEW c \in Consumers, NEW holder \in Consumers \cup {Nobody},
           \/ Retry(c, holder)
           \/ Finish(c) /\ UNCHANGED queue
           \/ Finish(c) /\ Send(Fresh)
           \/ (Send(Fresh) \/ UNCHANGED queue) /\ Go(c, "judge"),
           Fault \/ NoFault,
           UNCHANGED <<job, kept, stored, feed, feedLock, request, collection, recoveries>>
    PROVE  IInv'
<1>1. TypeOK /\ run \in [Consumers -> Run] /\ IsABag(queue) /\ BagToSet(queue) \subseteq Message
  BY DEF IInv, TypeOK
<1>2. faults' \in 0 .. MaxFaults /\ recoveries' \in 0 .. MaxRecoveries
  BY <1>1, FaultsCounted DEF TypeOK
<1>3. ASSUME Send(Fresh) \/ UNCHANGED queue
      PROVE  IsABag(queue') /\ BagToSet(queue') \subseteq Message
  <2>1. CASE Send(Fresh)
    <3>1. queue' = queue (+) SetToBag({Fresh})
      BY <2>1 DEF Send
    <3>2. QED
      BY <1>1, <3>1, FreshMessage, QueueSend
  <2>2. CASE UNCHANGED queue
    BY <1>1, <2>2
  <2>3. QED
    BY <1>3, <2>1, <2>2
<1>4. CASE Retry(c, holder)
  <2>1. /\ run' \in [Consumers -> Run] /\ run'[c].step \in Quiet
        /\ \A d \in Consumers : d # c => run'[d] = run[d]
        /\ IsABag(queue') /\ BagToSet(queue') \subseteq Message
    BY <1>1, <1>4, Retried DEF Quiet
  <2>2. QED
    BY <1>2, <2>1, QuietStep
<1>5. CASE Finish(c) /\ (Send(Fresh) \/ UNCHANGED queue)
  <2>1. /\ run' \in [Consumers -> Run] /\ run'[c].step \in Quiet
        /\ \A d \in Consumers : d # c => run'[d] = run[d]
    BY <1>1, <1>5, Finished DEF Quiet
  <2>2. QED
    BY <1>2, <1>3, <1>5, <2>1, QuietStep
<1>6. CASE (Send(Fresh) \/ UNCHANGED queue) /\ Go(c, "judge")
  <2>1. "judge" \in Steps
    BY DEF Steps
  <2>2. /\ run' \in [Consumers -> Run] /\ run'[c].step \in Quiet
        /\ \A d \in Consumers : d # c => run'[d] = run[d]
    BY <1>1, <1>6, <2>1, Stepped DEF Quiet
  <2>3. QED
    BY <1>2, <1>3, <1>6, <2>2, QuietStep
<1>7. QED
  BY <1>4, <1>5, <1>6

LEMMA QuietSteps ==
    ASSUME IInv, NEW c \in Consumers, Look(c) \/ Judge(c) \/ PublishNext(c) \/ Killed(c)
    PROVE  IInv'
<1>1. job.lock.holder \in Consumers \cup {Nobody} /\ Nobody \in Consumers \cup {Nobody}
  BY LockFacts
<1>2. CASE Look(c)
  <2>1. CASE Retry(c, job.lock.holder) /\ NoFault
    BY <1>1, <1>2, <2>1, RetryStep DEF Look
  <2>2. CASE Finish(c) /\ UNCHANGED queue /\ (Fault \/ NoFault)
    BY <1>1, <1>2, <2>2, RetryStep DEF Look
  <2>3. QED
    BY <1>2, <2>1, <2>2 DEF Look, NoFault
<1>3. CASE Judge(c)
  <2>1. CASE Retry(c, Nobody) /\ (Fault \/ NoFault)
    BY <1>1, <1>3, <2>1, RetryStep DEF Judge
  <2>2. CASE Finish(c) /\ UNCHANGED queue /\ NoFault
    BY <1>1, <1>3, <2>2, RetryStep DEF Judge
  <2>3. QED
    BY <1>3, <2>1, <2>2 DEF Judge, NoFault
<1>4. CASE PublishNext(c)
  <2>1. CASE Send(Fresh) /\ Finish(c) /\ NoFault
    BY <1>1, <1>4, <2>1, RetryStep DEF PublishNext
  <2>2. CASE (Send(Fresh) \/ UNCHANGED queue) /\ Go(c, "judge") /\ Fault
    BY <1>1, <1>4, <2>2, RetryStep DEF PublishNext
  <2>3. QED
    BY <1>4, <2>1, <2>2 DEF PublishNext, Call
<1>5. CASE Killed(c)
  BY <1>1, <1>5, RetryStep DEF Killed
<1>6. QED
  BY <1>2, <1>3, <1>4, <1>5

-----------------------------------------------------------------------------
(* The steps of a delivery that work on the job.                           *)

LEMMA DeliveryStep ==
    ASSUME IInv, NEW c \in Consumers,
           job' \in Job, kept' \in BOOLEAN, JobOK(job', kept', stored', feed),
           job' = job \/ job.status \in Active,
           stored \subseteq stored', stored' \subseteq Chunks,
           UNCHANGED <<feed, feedLock, queue, request, collection, recoveries>>,
           Fault \/ NoFault,
           run' \in [Consumers -> Run], RunOK(c, run'[c], job', stored', feed),
           \A d \in Consumers : d # c => run'[d] = run[d],
           \A d \in Consumers : d # c /\ job'.lock.holder = d => job' = job
    PROVE  IInv'
<1>1. faults' \in 0 .. MaxFaults
  BY FaultsCounted DEF IInv
<1>2. TypeOK'
  BY <1>1 DEF IInv, TypeOK
<1>3. job.status \in Settled => job' = job
  BY DEF Settled, Active
<1>4. request' = "store" => job'.status = "absent"
  <2>1. request = "store" => job.status = "absent"
    BY DEF IInv
  <2>2. "absent" \notin Active
    BY DEF Active
  <2>3. QED
    BY <2>1, <2>2
<1>5. QED
  BY <1>2, <1>3, <1>4, Preserved

\* The same, for a step that changes the job only, and leads where nothing is relied on.
LEMMA ErrorStep ==
    ASSUME IInv, NEW c \in Consumers, NEW s \in Quiet, Go(c, s),
           job' \in Job, JobOK(job', kept, stored, feed),
           job' = job \/ job.status \in Active,
           \A d \in Consumers : d # c /\ job'.lock.holder = d => job' = job,
           UNCHANGED <<kept, stored, feed, feedLock, queue, request, collection, recoveries>>,
           Fault \/ NoFault
    PROVE  IInv'
<1>1. s \in Steps /\ run \in [Consumers -> Run]
  BY DEF Quiet, Steps, IInv, TypeOK
<1>2. /\ run' \in [Consumers -> Run] /\ run'[c].step = s
      /\ \A d \in Consumers : d # c => run'[d] = run[d]
  BY <1>1, Stepped
<1>3. RunOK(c, run'[c], job', stored', feed)
  BY <1>2, QuietRun
<1>4. kept' \in BOOLEAN /\ stored \subseteq stored' /\ stored' \subseteq Chunks
  BY DEF IInv, TypeOK
<1>5. JobOK(job', kept', stored', feed)
  OBVIOUS
<1>6. QED
  BY <1>2, <1>3, <1>4, <1>5, DeliveryStep

LEMMA JobKept == ASSUME IInv PROVE job \in Job /\ JobOK(job, kept, stored, feed)
BY DEF IInv, TypeOK

LEMMA AcquireStep == ASSUME IInv, NEW c \in Consumers, acquireJob(c) PROVE IInv'
<1>1. UNCHANGED <<kept, stored, feed, feedLock, queue, request, collection, recoveries>>
  BY DEF acquireJob
<1>2. "judge" \in Quiet /\ "look" \in Quiet
  BY DEF Quiet
<1>3. CASE ~Acquirable /\ Go(c, "look") /\ UNCHANGED <<job, faults>>
  BY <1>1, <1>2, <1>3, JobKept, ErrorStep DEF NoFault
<1>4. CASE Acquirable /\ (Acquired(c) \/ UNCHANGED job) /\ Go(c, "judge") /\ Fault
  <2>1. CASE UNCHANGED job
    BY <1>1, <1>2, <1>4, <2>1, JobKept, ErrorStep
  <2>2. CASE Acquired(c)
    <3>1. job' \in Job /\ job'.lock.holder = c /\ JobOK(job', kept, stored, feed)
      BY <1>4, <2>2, AcquiredJob
    <3>2. job.status \in Active
      BY <1>4 DEF Acquirable
    <3>3. QED
      BY <1>1, <1>2, <1>4, <3>1, <3>2, ErrorStep
  <2>3. QED
    BY <1>4, <2>1, <2>2
<1>5. CASE /\ Acquirable /\ Acquired(c) /\ NoFault
           /\ run' = [run EXCEPT ![c].step = FirstStep, ![c].chunk = job.next,
                                 ![c].changed = job.changed]
  <2>1. /\ job' \in Job /\ job'.lock.holder = c /\ JobOK(job', kept, stored, feed)
        /\ job'.status = IF job.status = "finalizing" THEN "finalizing" ELSE "processing"
        /\ job'.next = job.next
    BY <1>5, AcquiredJob
  <2>2. job.status \in Active /\ job \in Job /\ run \in [Consumers -> Run]
    BY <1>5, JobKept DEF Acquirable, IInv, TypeOK
  <2>3. /\ job.next \in 0 .. TotalChunks /\ job.changed \in 0 .. TotalChunks
        /\ job.status # "finalizing" => job.next < TotalChunks
        /\ job.status = "finalizing" => job.changed > 0
    BY <2>2 DEF IInv, JobOK, Job, Active
  <2>4. FirstStep = IF job.status # "finalizing" THEN "save" ELSE "feed"
    BY <2>3 DEF FirstStep
  <2>5. /\ run' \in [Consumers -> Run] /\ run'[c].step = FirstStep /\ run'[c].chunk = job.next
        /\ \A d \in Consumers : d # c => run'[d] = run[d]
    <3>1. FirstStep \in Steps
      BY <2>4 DEF Steps
    <3>2. QED
      BY <1>5, <2>2, <2>3, <3>1, Begun
  <2>6. job.status # "finalizing" => job.next \in Chunks
    BY <2>3, NumbersOK DEF Chunks
  <2>7. RunOK(c, run'[c], job', stored', feed)
    BY <2>1, <2>4, <2>5, <2>6 DEF RunOK
  <2>8. kept' \in BOOLEAN /\ stored \subseteq stored' /\ stored' \subseteq Chunks
    BY <1>1 DEF IInv, TypeOK
  <2>9. QED
    BY <1>1, <1>5, <2>1, <2>2, <2>5, <2>7, <2>8, DeliveryStep
<1>6. QED
  BY <1>3, <1>4, <1>5 DEF acquireJob, Call

LEMMA SaveStep == ASSUME IInv, NEW c \in Consumers, processJobChunk(c) PROVE IInv'
<1> DEFINE fill == {run[c].chunk} \ stored
<1>1. UNCHANGED <<job, kept, feed, feedLock, queue, request, collection, recoveries>>
  BY DEF processJobChunk
<1>2. "release" \in Steps /\ "release" \in Quiet
  BY DEF Quiet, Steps
<1>3. /\ run \in [Consumers -> Run] /\ run[c].step = "save" /\ run[c].chunk \in Chunks
      /\ stored \subseteq Chunks /\ RunOK(c, run[c], job, stored, feed)
  BY DEF IInv, TypeOK, RunOK, processJobChunk, At
<1>4. Cardinality(fill) \in {0, 1}
  <2>1. fill = {} \/ fill = {run[c].chunk}
    OBVIOUS
  <2>2. QED
    BY <2>1, FS_EmptySet, FS_Singleton
<1>5. job \in Job /\ JobOK(job, kept, stored \cup fill, feed)
  BY <1>1, JobKept DEF JobOK
<1>6. CASE (stored' = stored \cup fill \/ UNCHANGED stored) /\ Go(c, "release") /\ (Fault \/ NoFault)
  <2>1. /\ run' \in [Consumers -> Run] /\ run'[c].step \in Quiet
        /\ \A d \in Consumers : d # c => run'[d] = run[d]
    BY <1>2, <1>3, <1>6, Stepped
  <2>2. RunOK(c, run'[c], job', stored', feed)
    BY <2>1, QuietRun
  <2>3. stored \subseteq stored' /\ stored' \subseteq Chunks
    BY <1>3, <1>6
  <2>4. job' \in Job /\ kept' \in BOOLEAN /\ JobOK(job', kept', stored', feed)
    BY <1>1, <1>5, <1>6, JobKept DEF IInv, TypeOK
  <2>5. QED
    BY <1>1, <1>6, <2>1, <2>2, <2>3, <2>4, DeliveryStep
<1>7. CASE /\ stored' = stored \cup fill /\ NoFault
           /\ run' = [run EXCEPT ![c].step = "advance", ![c].changed = Cardinality(fill)]
  <2>1. Cardinality(fill) \in 0 .. TotalChunks
    BY <1>4, NumbersOK
  <2>2. /\ run' \in [Consumers -> Run] /\ run'[c].step = "advance"
        /\ run'[c].chunk = run[c].chunk /\ run'[c].changed = Cardinality(fill)
        /\ \A d \in Consumers : d # c => run'[d] = run[d]
    BY <1>3, <1>7, <2>1 DEF Run
  <2>3. stored \subseteq stored' /\ stored' \subseteq Chunks /\ run[c].chunk \in stored'
    BY <1>3, <1>7
  <2>4. RunOK(c, run'[c], job', stored', feed)
    BY <1>1, <1>3, <1>4, <2>2, <2>3 DEF RunOK
  <2>5. job' \in Job /\ kept' \in BOOLEAN /\ JobOK(job', kept', stored', feed)
    BY <1>1, <1>5, <1>7 DEF IInv, TypeOK
  <2>6. QED
    BY <1>1, <1>7, <2>2, <2>3, <2>4, <2>5, DeliveryStep
<1>8. QED
  BY <1>6, <1>7 DEF processJobChunk, Call, NoFault

\* The holder of the lock gives it up with a new row, or the call fails, or the lock is
\* no longer its own.
LEMMA HolderStep ==
    ASSUME IInv, NEW c \in Consumers, NEW s \in Steps, NEW q \in Quiet,
           NEW new, Holds(c) => new \in Job /\ new.lock = Free /\ JobOK(new, kept, stored, feed),
           s = "sweep" => new.status \in Settled, s \in Quiet \cup {"sweep"},
           \/ /\ Holds(c) /\ job' = new /\ NoFault
              /\ run' \in [Consumers -> Run] /\ run'[c].step = s
              /\ \A d \in Consumers : d # c => run'[d] = run[d]
           \/ Holds(c) /\ (job' = new \/ UNCHANGED job) /\ Go(c, q) /\ Fault
           \/ Go(c, q) /\ UNCHANGED <<job, faults>>,
           UNCHANGED <<kept, stored, feed, feedLock, queue, request, collection, recoveries>>
    PROVE  IInv'
<1>1. CASE Go(c, q) /\ UNCHANGED <<job, faults>>
  BY <1>1, JobKept, ErrorStep DEF NoFault
<1>2. CASE Holds(c) /\ UNCHANGED job /\ Go(c, q) /\ Fault
  BY <1>2, JobKept, ErrorStep
<1>3. ASSUME Holds(c), job' = new
      PROVE  /\ job' \in Job /\ JobOK(job', kept, stored, feed) /\ job.status \in Active
             /\ \A d \in Consumers : job'.lock.holder # d
  <2>1. job.status \in Active
    BY <1>3, ActiveJob DEF Active
  <2>2. Free.holder = Nobody /\ Nobody \notin Consumers
    BY LockFacts
  <2>3. QED
    BY <1>3, <2>1, <2>2
<1>4. CASE Holds(c) /\ job' = new /\ Go(c, q) /\ Fault
  BY <1>3, <1>4, ErrorStep
<1>5. CASE /\ Holds(c) /\ job' = new /\ NoFault
           /\ run' \in [Consumers -> Run] /\ run'[c].step = s
           /\ \A d \in Consumers : d # c => run'[d] = run[d]
  <2>1. RunOK(c, run'[c], job', stored', feed)
    <3>1. CASE s \in Quiet
      BY <1>5, <3>1, QuietRun
    <3>2. CASE s = "sweep"
      BY <1>5, <3>2 DEF RunOK
    <3>3. QED
      BY <3>1, <3>2
  <2>2. kept' \in BOOLEAN /\ stored \subseteq stored' /\ stored' \subseteq Chunks
    BY DEF IInv, TypeOK
  <2>3. JobOK(job', kept', stored', feed)
    BY <1>3, <1>5
  <2>4. QED
    BY <1>3, <1>5, <2>1, <2>2, <2>3, DeliveryStep
<1>6. QED
  BY <1>1, <1>2, <1>4, <1>5

LEMMA AdvanceStep == ASSUME IInv, NEW c \in Consumers, advanceJob(c) PROVE IInv'
<1> DEFINE new == Advanced(c)
           s == IF new.status = "completed" THEN "sweep" ELSE "publish"
<1>1. Holds(c) => new \in Job /\ new.lock = Free /\ JobOK(new, kept, stored, feed)
  BY AdvancedJob DEF advanceJob
<1>2. s \in Steps /\ s \in Quiet \cup {"sweep"} /\ "release" \in Quiet /\ run \in [Consumers -> Run]
  BY DEF Steps, Quiet, IInv, TypeOK
<1>3. s = "sweep" => new.status \in Settled
  BY DEF Settled
<1>4. ASSUME Go(c, s)
      PROVE  /\ run' \in [Consumers -> Run] /\ run'[c].step = s
             /\ \A d \in Consumers : d # c => run'[d] = run[d]
  BY <1>2, <1>4, Stepped
<1>5. \/ Holds(c) /\ job' = new /\ Go(c, s) /\ NoFault
      \/ Holds(c) /\ (job' = new \/ UNCHANGED job) /\ Go(c, "release") /\ Fault
      \/ Go(c, "release") /\ UNCHANGED <<job, faults>>
  BY DEF advanceJob, Call
<1>6. UNCHANGED <<kept, stored, feed, feedLock, queue, request, collection, recoveries>>
  BY DEF advanceJob
<1> HIDE DEF new, s
<1>7. QED
  BY <1>1, <1>2, <1>3, <1>4, <1>5, <1>6, HolderStep

LEMMA CompleteStep == ASSUME IInv, NEW c \in Consumers, finalizeJob(c) PROVE IInv'
<1> DEFINE new == [job EXCEPT !.status = "completed", !.failures = 0, !.lock = Free]
<1>1. ASSUME Holds(c)
      PROVE  /\ new \in Job /\ new.lock = Free /\ new.status \in Settled
             /\ JobOK(new, kept, stored, feed)
  <2>1. job.status = "finalizing" /\ Chunks \subseteq feed
    BY <1>1 DEF IInv, RunOK, finalizeJob, At, Holds
  <2>2. job \in Job /\ Free \in Lock /\ Free.holder = Nobody /\ JobOK(job, kept, stored, feed)
    BY LockFacts, JobKept
  <2>3. /\ new \in Job /\ new.next = job.next /\ new.changed = job.changed
        /\ new.lock = Free /\ new.status = "completed"
    BY <2>2, NumbersOK DEF Job, Settled
  <2> HIDE DEF new
  <2>4. Nobody # Collector
    BY ImportAssumption DEF Finalizers
  <2>5. JobOK(new, kept, stored, feed)
    BY <2>1, <2>2, <2>3, <2>4 DEF JobOK, Active
  <2>6. QED
    BY <2>3, <2>5 DEF Settled
<1>2. "sweep" \in Steps /\ "release" \in Quiet /\ run \in [Consumers -> Run]
  BY DEF Steps, Quiet, IInv, TypeOK
<1>3. ASSUME Go(c, "sweep")
      PROVE  /\ run' \in [Consumers -> Run] /\ run'[c].step = "sweep"
             /\ \A d \in Consumers : d # c => run'[d] = run[d]
  BY <1>2, <1>3, Stepped
<1>4. \/ Holds(c) /\ job' = new /\ Go(c, "sweep") /\ NoFault
      \/ Holds(c) /\ (job' = new \/ UNCHANGED job) /\ Go(c, "release") /\ Fault
      \/ ~Holds(c) /\ Go(c, "release") /\ UNCHANGED <<job, faults>>
  BY DEF finalizeJob, Call
<1>5. UNCHANGED <<kept, stored, feed, feedLock, queue, request, collection, recoveries>>
  BY DEF finalizeJob
<1> HIDE DEF new
<1>6. CASE ~Holds(c)
  BY <1>2, <1>4, <1>5, <1>6, JobKept, ErrorStep DEF NoFault
<1>7. CASE Holds(c)
  BY <1>1, <1>2, <1>3, <1>4, <1>5, <1>7, HolderStep
<1>8. QED
  BY <1>6, <1>7

LEMMA BusyStep == ASSUME IInv, NEW c \in Consumers, releaseBusyFinalization(c) PROVE IInv'
<1> DEFINE new == [job EXCEPT !.lock = Free]
<1>1. new \in Job /\ new.lock = Free /\ JobOK(new, kept, stored, feed)
  <2>1. job \in Job /\ Free \in Lock /\ Free.holder = Nobody /\ JobOK(job, kept, stored, feed)
    BY LockFacts, JobKept
  <2>2. /\ new \in Job /\ new.next = job.next /\ new.changed = job.changed
        /\ new.lock = Free /\ new.status = job.status /\ new.failures = job.failures
    BY <2>1 DEF Job
  <2> HIDE DEF new
  <2>3. Nobody # Collector
    BY ImportAssumption DEF Finalizers
  <2>4. QED
    BY <2>1, <2>2, <2>3 DEF JobOK
<1>2. /\ "publish" \in Steps /\ "publish" \in Quiet \cup {"sweep"} /\ "judge" \in Quiet
      /\ run \in [Consumers -> Run] /\ "publish" # "sweep"
  BY DEF Steps, Quiet, IInv, TypeOK
<1>3. ASSUME Go(c, "publish")
      PROVE  /\ run' \in [Consumers -> Run] /\ run'[c].step = "publish"
             /\ \A d \in Consumers : d # c => run'[d] = run[d]
  BY <1>2, <1>3, Stepped
<1>4. \/ Holds(c) /\ job' = new /\ Go(c, "publish") /\ NoFault
      \/ Holds(c) /\ (job' = new \/ UNCHANGED job) /\ Go(c, "judge") /\ Fault
      \/ Go(c, "judge") /\ UNCHANGED <<job, faults>>
  BY DEF releaseBusyFinalization, Call
<1>5. UNCHANGED <<kept, stored, feed, feedLock, queue, request, collection, recoveries>>
  BY DEF releaseBusyFinalization
<1> HIDE DEF new
<1>6. QED
  BY <1>1, <1>2, <1>3, <1>4, <1>5, HolderStep

LEMMA ReleaseStep == ASSUME IInv, NEW c \in Consumers, releaseForRetry(c) PROVE IInv'
<1> DEFINE new == Released
           s == IF new.status = "failed" THEN "sweep" ELSE "judge"
<1>1. Holds(c) => new \in Job /\ new.lock = Free /\ JobOK(new, kept, stored, feed)
  BY ReleasedJob
<1>2. s \in Steps /\ s \in Quiet \cup {"sweep"} /\ "judge" \in Quiet /\ run \in [Consumers -> Run]
  BY DEF Steps, Quiet, IInv, TypeOK
<1>3. s = "sweep" => new.status \in Settled
  BY DEF Settled
<1>4. ASSUME run' = [run EXCEPT ![c].done = "failed", ![c].step = s]
      PROVE  /\ run' \in [Consumers -> Run] /\ run'[c].step = s
             /\ \A d \in Consumers : d # c => run'[d] = run[d]
  <2> DEFINE r == [run[c] EXCEPT !.done = "failed", !.step = s]
  <2> HIDE DEF s
  <2>1. r \in Run /\ r.step = s
    BY <1>2 DEF Run, Steps
  <2>2. run' = [run EXCEPT ![c] = r]
    BY <1>2, <1>4 DEF Run
  <2> HIDE DEF r
  <2>3. QED
    BY <1>2, <2>1, <2>2
<1>5. \/ /\ Holds(c) /\ job' = new /\ NoFault
         /\ run' = [run EXCEPT ![c].done = "failed", ![c].step = s]
      \/ Holds(c) /\ (job' = new \/ UNCHANGED job) /\ Go(c, "judge") /\ Fault
      \/ Go(c, "judge") /\ UNCHANGED <<job, faults>>
  BY DEF releaseForRetry, Call
<1>6. UNCHANGED <<kept, stored, feed, feedLock, queue, request, collection, recoveries>>
  BY DEF releaseForRetry
<1> HIDE DEF new, s
<1>7. QED
  BY <1>1, <1>2, <1>3, <1>4, <1>5, <1>6, HolderStep

LEMMA SweepStep == ASSUME IInv, NEW c \in Consumers, Sweep(c) PROVE IInv'
<1>1. /\ UNCHANGED <<job, stored, feed, feedLock, queue, request, collection, recoveries>>
      /\ kept' = FALSE \/ UNCHANGED kept
  BY DEF Sweep, Call
<1>2. run \in [Consumers -> Run] /\ job.status \in Settled
  BY DEF IInv, TypeOK, RunOK, Sweep, At
<1>3. Finish(c) \/ Go(c, "judge") \/ Go(c, "release")
  BY DEF Sweep, Call
<1>4. "judge" \in Steps /\ "release" \in Steps
  BY DEF Steps
<1>5. /\ run' \in [Consumers -> Run] /\ run'[c].step \in Quiet
      /\ \A d \in Consumers : d # c => run'[d] = run[d]
  <2>1. CASE Finish(c)
    BY <1>2, <2>1, Finished DEF Quiet
  <2>2. CASE Go(c, "judge")
    BY <1>2, <1>4, <2>2, Stepped DEF Quiet, Steps
  <2>3. CASE Go(c, "release")
    BY <1>2, <1>4, <2>3, Stepped DEF Quiet, Steps
  <2>4. QED
    BY <1>3, <2>1, <2>2, <2>3
<1>6. RunOK(c, run'[c], job', stored', feed)
  BY <1>5, QuietRun
<1>7. kept' \in BOOLEAN /\ stored \subseteq stored' /\ stored' \subseteq Chunks /\ job' \in Job
  BY <1>1 DEF IInv, TypeOK
<1>8. JobOK(job', kept', stored', feed)
  BY <1>1, <1>2, JobKept DEF JobOK, Settled, Active
<1>9. Fault \/ NoFault
  BY DEF Sweep, Call
<1>10. QED
  BY <1>1, <1>5, <1>6, <1>7, <1>8, <1>9, DeliveryStep

-----------------------------------------------------------------------------
(* The playback feed.                                                      *)

LEMMA FeedStep ==
    ASSUME IInv, NEW f \in Finalizers, NEW s \in Steps, Then(f, s, "over"),
           UNCHANGED OutsideFeed, feedLock' \in Lock, Fault \/ NoFault,
           feed' \subseteq stored, Chunks \subseteq feed => Chunks \subseteq feed',
           \/ s \in Quiet
           \/ /\ Phase(f) \in {"feed", "sync", "commit"} /\ s \in {"sync", "commit", "complete"}
              /\ s # "sync" /\ job.lock.holder = f => Chunks \subseteq feed'
    PROVE  IInv'
<1>1. UNCHANGED <<job, kept, stored, queue, request, recoveries>>
  BY DEF OutsideFeed
<1>2. faults' \in 0 .. MaxFaults /\ run \in [Consumers -> Run]
  BY FaultsCounted DEF IInv, TypeOK
<1>3. JobOK(job', kept', stored', feed') /\ (request' = "store" => job'.status = "absent")
  BY <1>1 DEF IInv, JobOK
<1>4. CASE f = Collector
  <2>1. UNCHANGED run /\ collection' \in {"sync", "commit", "abandon", "over"}
    BY <1>4 DEF Then
  <2>2. TypeOK'
    BY <1>1, <1>2, <2>1 DEF IInv, TypeOK
  <2>3. QED
    BY <1>1, <1>3, <2>1, <2>2, Preserved
<1>5. CASE f # Collector
  <2>1. f \in Consumers /\ Go(f, s) /\ UNCHANGED collection /\ Phase(f) = run[f].step
    BY <1>5 DEF Then, Finalizers, Phase
  <2>2. /\ run' \in [Consumers -> Run] /\ run'[f].step = s
        /\ \A d \in Consumers : d # f => run'[d] = run[d]
    BY <1>2, <2>1, Stepped
  <2>3. TypeOK'
    BY <1>1, <1>2, <2>1, <2>2 DEF IInv, TypeOK
  <2>4. RunOK(f, run'[f], job', stored', feed')
    <3>1. CASE s \in Quiet
      BY <2>2, <3>1, QuietRun
    <3>2. CASE s \notin Quiet
      <4>1. job.lock.holder = f => job.status = "finalizing"
        <5>1. RunOK(f, run[f], job, stored, feed)
          BY <2>1 DEF IInv
        <5>2. QED
          BY <2>1, <3>2, <5>1 DEF RunOK
      <4>2. QED
        BY <1>1, <2>2, <3>2, <4>1 DEF RunOK
    <3>3. QED
      BY <3>1, <3>2
  <2>5. QED
    BY <1>1, <1>3, <2>2, <2>3, <2>4, Preserved
<1>6. QED
  BY <1>4, <1>5

LEMMA FeedFacts ==
    ASSUME IInv, NEW f \in Finalizers
    PROVE  /\ feedLock \in Lock /\ Free \in Lock /\ HeldBy(f) \in Lock
           /\ feed \subseteq stored /\ stored \subseteq Chunks
           /\ {"release", "defer", "abandon"} \subseteq Quiet
           /\ {"sync", "commit", "complete"} \subseteq Steps /\ Quiet \subseteq Steps
BY DEF IInv, TypeOK, JobOK, Lock, Free, HeldBy, Quiet, Steps

\* The chunks of a job that waits for its feed are all stored.
LEMMA AllStored ==
    ASSUME IInv, job.status \in {"finalizing", "completed"}, job.next = TotalChunks
    PROVE  Chunks \subseteq stored
BY DEF IInv, JobOK, Chunks

LEMMA AcquireFeedStep ==
    ASSUME IInv, NEW f \in Finalizers, acquirePlaybackFeedFinalization(f)
    PROVE  IInv'
<1>1. UNCHANGED OutsideFeed /\ UNCHANGED feed /\ Phase(f) = "feed"
  BY DEF acquirePlaybackFeedFinalization
<1>2. \/ feedLock' = HeldBy(f) /\ Then(f, "sync", "over") /\ NoFault
      \/ (feedLock' = HeldBy(f) \/ UNCHANGED feedLock) /\ Then(f, "release", "over") /\ Fault
      \/ UNCHANGED feedLock /\ Then(f, "defer", "over") /\ NoFault
  BY DEF acquirePlaybackFeedFinalization, Call, NoFault
<1>3. feedLock' \in Lock
  BY <1>2, FeedFacts
<1>4. CASE Then(f, "sync", "over") /\ NoFault
  BY <1>1, <1>3, <1>4, FeedStep, FeedFacts
<1>5. CASE Then(f, "release", "over") /\ Fault
  BY <1>1, <1>3, <1>5, FeedStep, FeedFacts
<1>6. CASE Then(f, "defer", "over") /\ NoFault
  BY <1>1, <1>3, <1>6, FeedStep, FeedFacts
<1>7. QED
  BY <1>2, <1>4, <1>5, <1>6

LEMMA SyncFeedStep ==
    ASSUME IInv, NEW f \in Finalizers, syncCompactedFeedInDatabase(f)
    PROVE  IInv'
<1>1. UNCHANGED OutsideFeed /\ UNCHANGED feedLock /\ Phase(f) = "sync"
  BY DEF syncCompactedFeedInDatabase
<1>2. \/ feed' = stored /\ Then(f, "commit", "over") /\ NoFault
      \/ (feed' = stored \/ UNCHANGED feed) /\ Then(f, "abandon", "over") /\ Fault
  BY DEF syncCompactedFeedInDatabase, Call
<1>3. /\ feed' \subseteq stored /\ (Chunks \subseteq feed => Chunks \subseteq feed')
      /\ feedLock' \in Lock
  BY <1>1, <1>2, FeedFacts
<1>4. job.lock.holder = f => Chunks \subseteq stored
  <2>1. job.lock.holder # Collector
    BY DEF IInv, JobOK
  <2>2. CASE f # Collector /\ job.lock.holder = f
    <3>1. f \in Consumers /\ run[f].step = "sync"
      BY <1>1, <2>2 DEF Finalizers, Phase
    <3>2. job.status = "finalizing"
      BY <2>2, <3>1 DEF IInv, RunOK
    <3>3. QED
      BY <3>2, AllStored DEF IInv, JobOK
  <2>3. QED
    BY <2>1, <2>2
<1>5. CASE feed' = stored /\ Then(f, "commit", "over") /\ NoFault
  BY <1>1, <1>3, <1>4, <1>5, FeedStep, FeedFacts
<1>6. CASE Then(f, "abandon", "over") /\ Fault
  BY <1>1, <1>3, <1>6, FeedStep, FeedFacts
<1>7. QED
  BY <1>2, <1>5, <1>6

LEMMA CommitFeedStep ==
    ASSUME IInv, NEW f \in Finalizers, commitPlaybackFeedFinalization(f)
    PROVE  IInv'
<1>1. UNCHANGED OutsideFeed /\ UNCHANGED feed /\ Phase(f) = "commit"
  BY DEF commitPlaybackFeedFinalization
<1>2. \/ feedLock' = Free /\ Then(f, "complete", "over") /\ NoFault
      \/ (feedLock' = Free \/ UNCHANGED feedLock) /\ Then(f, "abandon", "over") /\ Fault
      \/ UNCHANGED feedLock /\ Then(f, "abandon", "over") /\ NoFault
  BY DEF commitPlaybackFeedFinalization, Call, NoFault
<1>3. feedLock' \in Lock
  BY <1>2, FeedFacts
<1>4. job.lock.holder = f => Chunks \subseteq feed
  <2>1. job.lock.holder # Collector
    BY DEF IInv, JobOK
  <2>2. CASE f # Collector
    <3>1. f \in Consumers /\ run[f].step = "commit"
      BY <1>1, <2>2 DEF Finalizers, Phase
    <3>2. RunOK(f, run[f], job, stored, feed)
      BY <3>1 DEF IInv
    <3>3. QED
      BY <3>1, <3>2 DEF RunOK
  <2>3. QED
    BY <2>1, <2>2
<1>5. CASE Then(f, "complete", "over") /\ NoFault
  BY <1>1, <1>3, <1>4, <1>5, FeedStep, FeedFacts
<1>6. CASE Then(f, "abandon", "over") /\ (Fault \/ NoFault)
  BY <1>1, <1>3, <1>6, FeedStep, FeedFacts
<1>7. QED
  BY <1>2, <1>5, <1>6

LEMMA AbandonFeedStep ==
    ASSUME IInv, NEW f \in Finalizers, abandonPlaybackFeedFinalization(f)
    PROVE  IInv'
<1>1. UNCHANGED OutsideFeed /\ UNCHANGED feed
  BY DEF abandonPlaybackFeedFinalization
<1>2. feedLock' \in {Free, feedLock} /\ Then(f, "release", "over") /\ (Fault \/ NoFault)
  BY DEF abandonPlaybackFeedFinalization, Call
<1>3. feedLock' \in Lock
  BY <1>2, FeedFacts
<1>4. QED
  BY <1>1, <1>2, <1>3, FeedStep, FeedFacts

-----------------------------------------------------------------------------
(* The request, time limits, recovery and the collection.                  *)

\* A step that moves no delivery and neither takes nor advances the job.
LEMMA OtherStep ==
    ASSUME IInv, TypeOK', JobOK(job', kept', stored', feed'),
           request' = "store" => job'.status = "absent",
           UNCHANGED <<feed, run>>, stored \subseteq stored',
           job.status \in Settled => job'.status \in Settled,
           \/ job'.lock.holder = Nobody
           \/ /\ job'.lock.holder = job.lock.holder
              /\ job'.status = job.status /\ job'.next = job.next
    PROVE  IInv'
<1>1. \A c \in Consumers : /\ run'[c] = run[c]
                           /\ job'.lock.holder = c =>
                                /\ job.lock.holder = c
                                /\ job'.status = job.status /\ job'.next = job.next
  BY LockFacts
<1>2. QED
  BY <1>1, Preserved

LEMMA EnqueueStep == ASSUME IInv, enqueueManualImportJob PROVE IInv'
<1>1. /\ job' = [job EXCEPT !.status = "pending"] /\ kept' = TRUE /\ request' = "send"
      /\ job.status = "absent"
      /\ UNCHANGED <<stored, feed, feedLock, queue, run, collection, recoveries, faults>>
  BY DEF enqueueManualImportJob, IInv
<1>2. job \in Job /\ JobOK(job, kept, stored, feed)
  BY JobKept
<1>3. /\ job' \in Job /\ job'.status = "pending" /\ job'.next = job.next
      /\ job'.changed = job.changed /\ job'.failures = job.failures /\ job'.lock = job.lock
  BY <1>1, <1>2 DEF Job, Active
<1>4. job.next = 0 /\ job.lock.holder = Nobody
  BY <1>1, <1>2 DEF JobOK
<1>5. JobOK(job', kept', stored', feed')
  BY <1>1, <1>2, <1>3, <1>4, NumbersOK DEF JobOK, Active
<1>6. TypeOK'
  BY <1>1, <1>3 DEF IInv, TypeOK
<1>7. job.status \notin Settled /\ job'.lock.holder = Nobody
  BY <1>1, <1>3, <1>4 DEF Settled
<1>8. QED
  BY <1>1, <1>5, <1>6, <1>7, OtherStep

LEMMA SendStep == ASSUME IInv, SendFirst \/ RequestEnds \/ Recover PROVE IInv'
<1>1. /\ UNCHANGED <<job, kept, stored, feed, feedLock, run, collection>>
      /\ Send(Fresh) \/ UNCHANGED queue
  BY DEF SendFirst, RequestEnds, Recover, NoFault
<1>2. IsABag(queue') /\ BagToSet(queue') \subseteq Message
  <2>1. CASE Send(Fresh)
    <3>1. queue' = queue (+) SetToBag({Fresh})
      BY <2>1 DEF Send
    <3>2. QED
      BY <3>1, FreshMessage, QueueSend DEF IInv, TypeOK
  <2>2. CASE UNCHANGED queue
    BY <2>2 DEF IInv, TypeOK
  <2>3. QED
    BY <1>1, <2>1, <2>2
<1>3. faults' \in 0 .. MaxFaults
  BY FaultsCounted DEF IInv, SendFirst, RequestEnds, Recover, NoFault
<1>4. /\ recoveries' \in 0 .. MaxRecoveries
      /\ request' \in {"store", "send", "withdraw", "accepted", "refused", "lost"}
      /\ request' = "store" => request = "store"
  BY ImportAssumption DEF IInv, TypeOK, SendFirst, RequestEnds, Recover
<1>5. TypeOK'
  BY <1>1, <1>2, <1>3, <1>4 DEF IInv, TypeOK
<1>6. JobOK(job', kept', stored', feed') /\ (request' = "store" => job'.status = "absent")
  BY <1>1, <1>4 DEF IInv
<1>7. QED
  BY <1>1, <1>5, <1>6, OtherStep

LEMMA WithdrawStep == ASSUME IInv, failManualImportJob PROVE IInv'
<1>1. /\ request' = "refused" /\ (Fault \/ NoFault)
      /\ UNCHANGED <<stored, feed, feedLock, queue, run, collection, recoveries>>
      /\ \/ /\ job' = IF job.status \in Settled THEN job
                      ELSE [job EXCEPT !.status = "failed", !.failures = MaxFailures, !.lock = Free]
            /\ kept' = FALSE
         \/ UNCHANGED <<job, kept>>
  BY DEF failManualImportJob
<1>2. job \in Job /\ JobOK(job, kept, stored, feed) /\ Free \in Lock /\ Free.holder = Nobody
  BY JobKept, LockFacts
<1>3. faults' \in 0 .. MaxFaults
  BY <1>1, FaultsCounted DEF IInv
<1>4. Nobody # Collector
  BY ImportAssumption DEF Finalizers
<1>5. CASE UNCHANGED <<job, kept>>
  <2>1. TypeOK'
    BY <1>1, <1>3, <1>5 DEF IInv, TypeOK
  <2>2. QED
    BY <1>1, <1>2, <1>5, <2>1, OtherStep
<1>6. CASE job.status \in Settled /\ job' = job /\ kept' = FALSE
  <2>1. TypeOK'
    BY <1>1, <1>3, <1>6 DEF IInv, TypeOK
  <2>2. JobOK(job', kept', stored', feed')
    BY <1>1, <1>2, <1>6 DEF JobOK, Active, Settled
  <2>3. QED
    BY <1>1, <1>6, <2>1, <2>2, OtherStep
<1>7. CASE /\ job.status \notin Settled /\ kept' = FALSE
           /\ job' = [job EXCEPT !.status = "failed", !.failures = MaxFailures, !.lock = Free]
  <2>1. /\ job' \in Job /\ job'.status = "failed" /\ job'.next = job.next
        /\ job'.changed = job.changed /\ job'.lock = Free
    <3>1. MaxFailures \in 0 .. MaxFailures /\ "failed" \in Settled
      BY DEF MaxFailures, Settled
    <3>2. QED
      BY <1>2, <1>7, <3>1 DEF Job
  <2>2. TypeOK'
    BY <1>1, <1>3, <1>7, <2>1 DEF IInv, TypeOK
  <2>3. JobOK(job', kept', stored', feed')
    BY <1>1, <1>2, <1>4, <2>1 DEF JobOK, Active
  <2>4. QED
    BY <1>1, <1>2, <1>7, <2>1, <2>2, <2>3, OtherStep DEF Settled
<1>8. QED
  BY <1>1, <1>5, <1>6, <1>7

LEMMA ExpiryStep == ASSUME IInv, LockExpires PROVE IInv'
<1>1. /\ job' = [job EXCEPT !.lock.expired = TRUE] /\ (Fault \/ NoFault)
      /\ UNCHANGED <<kept, stored, feed, feedLock, queue, run, request, collection, recoveries>>
  BY DEF LockExpires
<1>2. job \in Job /\ JobOK(job, kept, stored, feed) /\ job.lock \in Lock
  BY JobKept, LockFacts
<1> DEFINE lock == [job.lock EXCEPT !.expired = TRUE]
<1>3. lock \in Lock /\ lock.holder = job.lock.holder
  BY <1>2 DEF Lock
<1>4. job' = [job EXCEPT !.lock = lock]
  BY <1>1, <1>2 DEF Job
<1> HIDE DEF lock
<1>5. /\ job' \in Job /\ job'.status = job.status /\ job'.next = job.next
      /\ job'.changed = job.changed /\ job'.failures = job.failures /\ job'.lock = lock
  BY <1>2, <1>3, <1>4 DEF Job
<1>6. faults' \in 0 .. MaxFaults
  BY <1>1, FaultsCounted DEF IInv
<1>7. TypeOK'
  BY <1>1, <1>5, <1>6 DEF IInv, TypeOK
<1>8. JobOK(job', kept', stored', feed') /\ (request' = "store" => job'.status = "absent")
  BY <1>1, <1>2, <1>3, <1>5 DEF IInv, JobOK
<1>9. QED
  BY <1>1, <1>3, <1>5, <1>7, <1>8, OtherStep

LEMMA OutsideStep ==
    ASSUME IInv, FeedLockExpires \/ Collect \/ CollectionEnds
    PROVE  IInv'
<1>1. UNCHANGED <<job, kept, feed, queue, run, request, recoveries>> /\ (Fault \/ NoFault)
  BY DEF FeedLockExpires, Collect, CollectionEnds, OutsideFeed, NoFault
<1>2. stored \subseteq stored' /\ stored' \subseteq Chunks
  BY DEF IInv, TypeOK, FeedLockExpires, Collect, CollectionEnds, OutsideFeed
<1>3. feedLock' \in Lock
  BY DEF IInv, TypeOK, Lock, FeedLockExpires, Collect, CollectionEnds
<1>4. collection' \in {"due", "feed", "sync", "commit", "abandon", "over"}
  BY DEF IInv, TypeOK, FeedLockExpires, Collect, CollectionEnds
<1>5. faults' \in 0 .. MaxFaults
  BY <1>1, FaultsCounted DEF IInv
<1>6. TypeOK'
  BY <1>1, <1>2, <1>3, <1>4, <1>5 DEF IInv, TypeOK
<1>7. JobOK(job', kept', stored', feed') /\ (request' = "store" => job'.status = "absent")
  BY <1>1, <1>2 DEF IInv, JobOK
<1>8. QED
  BY <1>1, <1>2, <1>6, <1>7, OtherStep

-----------------------------------------------------------------------------
(* The theorems.                                                           *)

LEMMA InitialState == Init => IInv
<1> SUFFICES ASSUME Init PROVE IInv
  OBVIOUS
<1>1. Free \in Lock /\ Free.holder = Nobody /\ Nobody # Collector
  BY ImportAssumption DEF Free, Lock, Finalizers
<1>2. /\ job \in Job /\ job.status = "absent" /\ job.next = 0 /\ job.changed = 0
      /\ job.failures = 0 /\ job.lock = Free
  BY <1>1, NumbersOK DEF Init, Job
<1>3. IsABag(queue) /\ BagToSet(queue) = {}
  BY DEF Init, EmptyBag, SetToBag, IsABag, BagToSet
<1>4. NoRun \in Run /\ NoRun.step = "idle"
  BY NumbersOK DEF NoRun, Run
<1>5. run \in [Consumers -> Run] /\ \A c \in Consumers : run[c].step \in Quiet
  BY <1>4 DEF Init, Quiet
<1>6. recoveries \in 0 .. MaxRecoveries /\ faults \in 0 .. MaxFaults
  BY ImportAssumption DEF Init
<1>7. TypeOK
  BY <1>1, <1>2, <1>3, <1>5, <1>6 DEF Init, TypeOK
<1>8. JobOK(job, kept, stored, feed)
  BY <1>1, <1>2, NumbersOK DEF Init, JobOK, Active, MaxFailures
<1>9. \A c \in Consumers : RunOK(c, run[c], job, stored, feed)
  BY <1>5, QuietRun
<1>10. QED
  BY <1>2, <1>7, <1>8, <1>9 DEF IInv

LEMMA FinalizeStep == ASSUME IInv, NEW f \in Finalizers, Finalize(f) PROVE IInv'
BY AcquireFeedStep, SyncFeedStep, CommitFeedStep, AbandonFeedStep DEF Finalize

LEMMA InvariantStep == IInv /\ [Next]_vars => IInv'
<1> SUFFICES ASSUME IInv, [Next]_vars PROVE IInv'
  OBVIOUS
<1>1. CASE Request \/ RequestEnds \/ Recover
  BY <1>1, EnqueueStep, SendStep, WithdrawStep DEF Request
<1>2. ASSUME NEW c \in Consumers, Deliveries(c) \/ Killed(c) PROVE IInv'
  <2>1. c \in Finalizers
    BY DEF Finalizers
  <2>2. QED
    BY <1>2, <2>1, DeliverStep, AcquireStep, QuietSteps, SaveStep, AdvanceStep, CompleteStep,
       BusyStep, ReleaseStep, SweepStep, FinalizeStep DEF Deliveries
<1>3. CASE Finalize(Collector)
  BY <1>3, FinalizeStep DEF Finalizers
<1>4. CASE LockExpires \/ FeedLockExpires \/ Collect \/ CollectionEnds
  BY <1>4, ExpiryStep, OutsideStep
<1>5. CASE UNCHANGED vars
  <2>1. /\ UNCHANGED <<job, kept, stored, feed, feedLock, queue, run, request>>
        /\ UNCHANGED <<collection, recoveries, faults>>
    BY <1>5 DEF vars
  <2>2. TypeOK'
    BY <2>1 DEF IInv, TypeOK
  <2>3. JobOK(job', kept', stored', feed') /\ (request' = "store" => job'.status = "absent")
    BY <2>1 DEF IInv
  <2>4. QED
    BY <2>1, <2>2, <2>3, OtherStep
<1>6. QED
  BY <1>1, <1>2, <1>3, <1>4, <1>5 DEF Next

\* What the deliveries rely on holds throughout.
THEOREM InvariantHolds == Spec => []IInv
<1>1. QED
  BY InitialState, InvariantStep, PTL DEF Spec

\* The rows, the locks, the queue and the deliveries keep their types.
THEOREM TypeCorrect == Spec => []TypeOK
<1>1. IInv => TypeOK
  BY DEF IInv
<1>2. QED
  BY <1>1, InvariantHolds, PTL

\* No interleaving of deliveries, overrun locks, retries and lost answers makes a job
\* skip a chunk: every chunk behind next_chunk is stored.
THEOREM NoChunkIsSkipped == Spec => []NoChunkSkipped
<1>1. IInv => NoChunkSkipped
  BY DEF IInv, JobOK, NoChunkSkipped
<1>2. QED
  BY <1>1, InvariantHolds, PTL

\* The feed has the videos of every completed job that changed any.
THEOREM CompletedJobIsPlayed == Spec => []CompletedIsPlayed
<1>1. IInv => CompletedIsPlayed
  BY DEF IInv, JobOK, CompletedIsPlayed
<1>2. QED
  BY <1>1, InvariantHolds, PTL

\* As long as a job is active its chunks are there.
THEOREM ChunksAreKept == Spec => []ActiveKeepsChunks
<1>1. IInv => ActiveKeepsChunks
  BY DEF IInv, JobOK, ActiveKeepsChunks
<1>2. QED
  BY <1>1, InvariantHolds, PTL

\* No step touches the row of a settled job.
LEMMA SettledStep == IInv /\ [Next]_vars => [job.status \in Settled => job' = job]_vars
<1> SUFFICES ASSUME IInv, Next, job.status \in Settled, job' # job PROVE FALSE
  OBVIOUS
<1>1. job.status \notin Active /\ request # "store"
  BY DEF IInv, Settled, Active
<1>2. \A c \in Consumers : ~Holds(c)
  BY <1>1, ActiveJob DEF Active
<1>3. job.lock.holder = Nobody
  BY <1>2, LockFacts DEF Holds
<1>4. ~Request /\ ~RequestEnds /\ ~Recover /\ ~LockExpires
  BY <1>1, <1>3 DEF Request, RequestEnds, Recover, LockExpires, enqueueManualImportJob,
     SendFirst, failManualImportJob
<1>5. ASSUME NEW f \in Finalizers PROVE ~Finalize(f)
  BY DEF Finalize, acquirePlaybackFeedFinalization, syncCompactedFeedInDatabase,
     commitPlaybackFeedFinalization, abandonPlaybackFeedFinalization, OutsideFeed
<1>6. ASSUME NEW c \in Consumers PROVE ~(Deliveries(c) \/ Killed(c))
  <2>1. ~acquireJob(c)
    BY <1>1 DEF acquireJob, Acquirable
  <2>2. ~advanceJob(c) /\ ~finalizeJob(c) /\ ~releaseBusyFinalization(c) /\ ~releaseForRetry(c)
    BY <1>2 DEF advanceJob, finalizeJob, releaseBusyFinalization, releaseForRetry
  <2>3. ~Deliver(c) /\ ~Look(c) /\ ~processJobChunk(c) /\ ~Sweep(c) /\ ~Judge(c)
        /\ ~PublishNext(c) /\ ~Killed(c)
    BY DEF Deliver, Look, processJobChunk, Sweep, Judge, PublishNext, Killed
  <2>4. c \in Finalizers
    BY DEF Finalizers
  <2>5. QED
    BY <1>5, <2>1, <2>2, <2>3, <2>4 DEF Deliveries
<1>7. ~FeedLockExpires /\ ~Collect /\ ~CollectionEnds
  BY DEF FeedLockExpires, Collect, CollectionEnds, OutsideFeed
<1>8. QED
  BY <1>4, <1>5, <1>6, <1>7 DEF Next, Finalizers

\* A completed or failed job is never taken up again.
THEOREM SettledStaysSettled == Spec => SettledIsFinal
<1>1. QED
  BY InvariantHolds, SettledStep, PTL DEF Spec, SettledIsFinal

-----------------------------------------------------------------------------
(* An accepted import is not left without a message.  Each time a message comes back it
   has one retry less, so what is to be shown is that one of the job's messages has come
   back no more often than the faults so far can explain: twice for each, once for the
   error and once for the lock that it left behind, and once for every other
   delivery that got a step done and will send a new message. *)

Num(b) == IF b THEN 1 ELSE 0

Publishing == {c \in Consumers : At(c, "publish")}
Ahead(x)   == Cardinality(Publishing \ {x})

Held == job.lock.holder # Nobody /\ ~job.lock.expired

\* Delivery c will end in an error, without another fault.
Astray(c) ==
    \/ At(c, "abandon") \/ At(c, "release")
    \/ (At(c, "sync") \/ At(c, "commit")) /\ (feedLock.holder # c \/ feedLock.expired)

\* Whoever holds the job's lock will not get a step done under it.
Spoilt == Held /\ (~Working(job.lock.holder) \/ Astray(job.lock.holder))

\* Delivery c may have to send its message back.
Owes(c) ==
    At(c, "judge") \/ At(c, "look") \/ Astray(c) \/ (Working(c) /\ ~(Held /\ Holds(c)))

\* How often a message may have come back, but for a lock it has met.
Budget(x) == 2 * faults + Ahead(x) - Num(Spoilt /\ ~(Holds(x) /\ Working(x)))

MessageFine(m)  == m.attempts =< Budget(Nobody) + Num(Held /\ Holds(m.behind))
DeliveryFine(c) ==
    /\ ~At(c, "idle")
    /\ run[c].attempts + Num(Owes(c)) =< Budget(c) + Num(Held /\ At(c, "look"))

GoesOn  == (\E m \in BagToSet(queue) : MessageFine(m)) \/ \E c \in Consumers : DeliveryFine(c)
Carried == request = "accepted" /\ job.status \in Active => GoesOn

SpoiltByFault == Spoilt => faults > 0

EnoughRetries == ReadsFail = FALSE /\ MaxRetries >= 2 * MaxFaults + Cardinality(Consumers) - 1

-----------------------------------------------------------------------------
(* How many are about to publish. *)

LEMMA PublishersFinite ==
    \A x : IsFiniteSet(Publishing \ {x}) /\ Ahead(x) \in Nat
           /\ IsFiniteSet((Publishing \ {x})') /\ Ahead(x)' \in Nat
<1> TAKE x
<1>1. Publishing \ {x} \in SUBSET Consumers /\ (Publishing \ {x})' \in SUBSET Consumers
  BY DEF Publishing
<1>2. IsFiniteSet(Consumers)
  BY ImportAssumption
<1>3. IsFiniteSet(Publishing \ {x}) /\ IsFiniteSet((Publishing \ {x})')
  BY <1>1, <1>2, FS_Subset
<1>4. QED
  BY <1>3, FS_CardinalityType DEF Ahead

\* A step of delivery c changes their number by itself only.
LEMMA AheadOfOthers ==
    ASSUME NEW c \in Consumers, \A d \in Consumers : d # c => run'[d] = run[d],
           NEW x, x # c
    PROVE  Ahead(x)' = Ahead(x) - Num(At(c, "publish")) + Num(At(c, "publish")')
<1> DEFINE rest == Publishing \ {x, c}
           old == Publishing \ {x}
           new == (Publishing \ {x})'
<1>1. rest \in SUBSET Consumers /\ IsFiniteSet(Consumers)
  BY ImportAssumption DEF Publishing
<1>2. IsFiniteSet(rest) /\ Cardinality(rest) \in Nat
  BY <1>1, FS_Subset, FS_CardinalityType
<1>3. old = (IF At(c, "publish") THEN rest \cup {c} ELSE rest)
  BY DEF Publishing
<1>4. new = (IF At(c, "publish")' THEN rest \cup {c} ELSE rest)
  BY DEF Publishing, At
<1>5. Ahead(x) = Cardinality(old) /\ Ahead(x)' = Cardinality(new) /\ c \notin rest
  BY DEF Ahead
<1> HIDE DEF rest, old, new
<1>6. Cardinality(rest \cup {c}) = Cardinality(rest) + 1
  BY <1>2, <1>5, FS_AddElement
<1>7. Cardinality(old) = Cardinality(rest) + Num(At(c, "publish"))
  BY <1>2, <1>3, <1>6 DEF Num
<1>8. Cardinality(new) = Cardinality(rest) + Num(At(c, "publish")')
  BY <1>2, <1>4, <1>6 DEF Num
<1>9. Num(At(c, "publish")) \in Nat /\ Num(At(c, "publish")') \in Nat
  BY DEF Num
<1>10. QED
  BY <1>2, <1>5, <1>7, <1>8, <1>9

LEMMA AheadOfSelf ==
    ASSUME NEW c \in Consumers, \A d \in Consumers : d # c => run'[d] = run[d],
           Nobody \notin Consumers
    PROVE  /\ Ahead(c)' = Ahead(c)
           /\ ~At(c, "publish") => Ahead(Nobody) = Ahead(c)
           /\ ~At(c, "publish")' => Ahead(Nobody)' = Ahead(c)
<1>1. (Publishing \ {c})' = Publishing \ {c}
  BY DEF Publishing, At
<1>2. ~At(c, "publish") => Publishing \ {Nobody} = Publishing \ {c}
  BY DEF Publishing
<1>3. ~At(c, "publish")' => (Publishing \ {Nobody})' = (Publishing \ {c})'
  BY DEF Publishing
<1>4. Ahead(c)' = Ahead(c)
  BY <1>1 DEF Ahead
<1>5. QED
  BY <1>2, <1>3, <1>4 DEF Ahead

\* A delivery that is not about to publish has at most all others ahead; and not the
\* holder of the lock, if that gets on.
LEMMA AheadBounded ==
    ASSUME IInv, NEW c \in Consumers
    PROVE  /\ Ahead(c) =< Cardinality(Consumers) - 1
           /\ Held /\ ~Spoilt /\ ~Holds(c) => Ahead(c) =< Cardinality(Consumers) - 2
<1>1. IsFiniteSet(Consumers) /\ Cardinality(Consumers) \in Nat
  BY ImportAssumption, FS_CardinalityType
<1>2. IsFiniteSet(Consumers \ {c}) /\ Cardinality(Consumers \ {c}) = Cardinality(Consumers) - 1
  BY <1>1, FS_RemoveElement
<1>3. Publishing \ {c} \in SUBSET (Consumers \ {c})
  BY DEF Publishing
<1>4. Ahead(c) =< Cardinality(Consumers) - 1
  BY <1>2, <1>3, FS_Subset DEF Ahead
<1>5. ASSUME Held, ~Spoilt, ~Holds(c) PROVE Ahead(c) =< Cardinality(Consumers) - 2
  <2> DEFINE h == job.lock.holder
  <2>1. h \in Consumers \ {c} /\ run[h].step # "publish"
    BY <1>5, LockFacts DEF Held, Spoilt, Working, Holds
  <2>2. Publishing \ {c} \in SUBSET ((Consumers \ {c}) \ {h})
    BY <2>1 DEF Publishing, At
  <2> HIDE DEF h
  <2>3. /\ IsFiniteSet((Consumers \ {c}) \ {h})
        /\ Cardinality((Consumers \ {c}) \ {h}) = Cardinality(Consumers) - 2
    <3> DEFINE rest == Consumers \ {c}
    <3>1. IsFiniteSet(rest) /\ Cardinality(rest) = Cardinality(Consumers) - 1 /\ h \in rest
      BY <1>2, <2>1
    <3> HIDE DEF rest
    <3>2. IsFiniteSet(rest \ {h}) /\ Cardinality(rest \ {h}) = Cardinality(rest) - 1
      BY <3>1, FS_RemoveElement
    <3>3. Cardinality(rest \ {h}) = Cardinality(Consumers) - 2
      BY <1>1, <3>1, <3>2
    <3>4. QED
      BY <3>2, <3>3 DEF rest
  <2>4. QED
    BY <2>2, <2>3, FS_Subset DEF Ahead
<1>6. QED
  BY <1>4, <1>5
-----------------------------------------------------------------------------
(* A step of a delivery leaves the messages and the other deliveries what they had: a
   fault makes up for whatever it breaks, and a lock that was in the way is given up by
   one that is about to publish, unless it was spoilt. *)

Eased(c) ==
    /\ \/ job'.lock = job.lock
       \/ Holds(c) /\ ~Held'
       \/ ~Held /\ Holds(c)'
    /\ \/ faults' = faults + 1
       \/ /\ faults' = faults /\ ~At(c, "publish") /\ (Spoilt' => Spoilt)
          /\ Held /\ ~Held' => Spoilt \/ At(c, "publish")'

\* The others rest.
Alone(c) ==
    \A d \in Consumers \ {c} : run'[d] = run[d] /\ (Astray(d)' => Astray(d))

LEMMA BudgetTyped ==
    ASSUME IInv, IInv', NEW x
    PROVE  Budget(x) \in Int /\ Budget(x)' \in Int /\ faults \in Nat /\ faults' \in Nat
<1>1. Ahead(x) \in Nat /\ Ahead(x)' \in Nat
  BY PublishersFinite
<1>2. faults \in Nat /\ faults' \in Nat
  BY ImportAssumption DEF IInv, TypeOK
<1>3. QED
  BY <1>1, <1>2 DEF Budget, Num

LEMMA BudgetKept ==
    ASSUME IInv, IInv', NEW c \in Consumers, Alone(c), Eased(c),
           NEW x \in (Consumers \cup {Nobody}) \ {c},
           NEW b \in BOOLEAN, NEW b2 \in BOOLEAN, job'.lock = job.lock /\ b => b2
    PROVE  Budget(x) + Num(Held /\ b) =< Budget(x)' + Num(Held' /\ b2)
<1> DEFINE own  == Holds(x) /\ Working(x)
           own2 == Holds(x)' /\ Working(x)'
           p == Num(At(c, "publish"))
           q == Num(At(c, "publish")')
<1>1. x # c /\ Nobody \notin Consumers
  BY LockFacts
<1>2. Ahead(x) \in Nat /\ Ahead(x)' \in Nat /\ Ahead(x)' = Ahead(x) - p + q
  BY <1>1, PublishersFinite, AheadOfOthers DEF Alone
<1>3. faults \in Nat /\ faults' \in Nat /\ Budget(x) \in Int /\ Budget(x)' \in Int
  BY BudgetTyped
<1>4. p \in {0, 1} /\ q \in {0, 1} /\ (~At(c, "publish") => p = 0) /\ (At(c, "publish")' => q = 1)
  BY DEF Num
<1>5. Budget(x) = 2 * faults + Ahead(x) - Num(Spoilt /\ ~own)
  BY DEF Budget
<1>6. Budget(x)' = 2 * faults' + Ahead(x)' - Num(Spoilt' /\ ~own2)
  BY DEF Budget, Num
<1>7. job'.lock = job.lock => (Held' <=> Held) /\ (Spoilt /\ Spoilt' => (own2 <=> own))
  BY <1>1 DEF Held, Holds, Working, Alone, Spoilt
<1>8. Holds(c) => ~own
  BY <1>1 DEF Holds
<1>9. (Spoilt => Held) /\ (Spoilt' => Held')
  BY DEF Spoilt
<1> HIDE DEF own, own2, p, q
<1>10. CASE faults' = faults + 1
  <2>1. Budget(x)' >= 2 * faults + 2 + Ahead(x) - 1 - Num(Spoilt' /\ ~own2)
    BY <1>2, <1>3, <1>4, <1>6, <1>10 DEF Num
  <2>2. CASE job'.lock = job.lock
    <3>1. Num(Held /\ b) =< Num(Held' /\ b2)
      BY <1>7, <2>2 DEF Num
    <3>2. QED
      BY <1>2, <1>3, <1>5, <2>1, <3>1 DEF Num
  <2>3. CASE Holds(c) /\ ~Held'
    BY <1>2, <1>3, <1>5, <1>9, <2>1, <2>3 DEF Num
  <2>4. CASE ~Held /\ Holds(c)'
    BY <1>2, <1>3, <1>5, <1>9, <2>1, <2>4 DEF Num
  <2>5. QED
    BY <2>2, <2>3, <2>4 DEF Eased
<1>11. CASE /\ faults' = faults /\ ~At(c, "publish") /\ (Spoilt' => Spoilt)
            /\ Held /\ ~Held' => Spoilt \/ At(c, "publish")'
  <2>1. CASE job'.lock = job.lock
    BY <1>2, <1>3, <1>4, <1>5, <1>6, <1>7, <1>9, <1>11, <2>1 DEF Num
  <2>2. CASE Holds(c) /\ ~Held'
    BY <1>2, <1>3, <1>4, <1>5, <1>6, <1>8, <1>9, <1>11, <2>2 DEF Num
  <2>3. CASE ~Held /\ Holds(c)'
    BY <1>2, <1>3, <1>4, <1>5, <1>6, <1>9, <1>11, <2>3 DEF Num
  <2>4. QED
    BY <2>1, <2>2, <2>3 DEF Eased
<1>12. QED
  BY <1>10, <1>11 DEF Eased

\* The messages that are left.
LEMMA MessageKept ==
    ASSUME IInv, IInv', NEW c \in Consumers, Alone(c), Eased(c),
           NEW m \in Message, MessageFine(m)
    PROVE  MessageFine(m)'
<1> DEFINE b == Holds(m.behind)
           b2 == Holds(m.behind)'
<1>1. b \in BOOLEAN /\ b2 \in BOOLEAN /\ (job'.lock = job.lock /\ b => b2)
  BY DEF Holds
<1>2. Nobody \in (Consumers \cup {Nobody}) \ {c}
  BY LockFacts
<1>3. m.attempts =< Budget(Nobody) + Num(Held /\ b)
  BY DEF MessageFine
<1>4. MessageFine(m)' <=> m.attempts =< Budget(Nobody)' + Num(Held' /\ b2)
  BY DEF MessageFine, Num
<1> HIDE DEF b, b2
<1>5. Budget(Nobody) + Num(Held /\ b) =< Budget(Nobody)' + Num(Held' /\ b2)
  BY <1>1, <1>2, BudgetKept
<1>6. m.attempts \in Int
  BY DEF Message
<1>7. Num(Held /\ b) \in Int /\ Num(Held' /\ b2) \in Int
  BY DEF Num
<1>8. QED
  BY <1>3, <1>4, <1>5, <1>6, <1>7, BudgetTyped

LEMMA DeliveryKept ==
    ASSUME IInv, IInv', NEW c \in Consumers, Alone(c), Eased(c),
           NEW d \in Consumers \ {c}, DeliveryFine(d)
    PROVE  DeliveryFine(d)'
<1> DEFINE b == At(d, "look")
           b2 == At(d, "look")'
<1>1. b \in BOOLEAN /\ b2 \in BOOLEAN /\ (b => b2) /\ run'[d] = run[d]
  BY DEF At, Alone
<1>2. Owes(d)' => Owes(d)
  <2>1. Held /\ Holds(d) => Held' /\ Holds(d)'
    BY DEF Eased, Holds, Held
  <2>2. QED
    BY <1>1, <2>1 DEF Owes, Alone, At, Working
<1>3. run[d].attempts + Num(Owes(d)) =< Budget(d) + Num(Held /\ b)
  BY DEF DeliveryFine
<1>4. DeliveryFine(d)' <=> /\ run'[d].step # "idle"
                           /\ run'[d].attempts + Num(Owes(d)') =< Budget(d)' + Num(Held' /\ b2)
  BY DEF DeliveryFine, Num, At
<1>5. run[d].step # "idle"
  BY DEF DeliveryFine, At
<1> HIDE DEF b, b2
<1>6. Budget(d) + Num(Held /\ b) =< Budget(d)' + Num(Held' /\ b2)
  BY <1>1, BudgetKept
<1>7. run[d].attempts \in Int
  BY DEF IInv, TypeOK, Run
<1>8. Num(Held /\ b) \in Int /\ Num(Held' /\ b2) \in Int /\ Num(Owes(d)') =< Num(Owes(d))
      /\ Num(Owes(d)) \in Int /\ Num(Owes(d)') \in Int
  BY <1>2 DEF Num
<1>9. QED
  BY <1>1, <1>3, <1>4, <1>5, <1>6, <1>7, <1>8, BudgetTyped

\* What a step of c has to show: the queue loses no message, and c goes on or has sent one.
LEMMA OneGoesOn ==
    ASSUME IInv, IInv', NEW c \in Consumers, Alone(c), Eased(c), GoesOn,
           BagToSet(queue) \subseteq BagToSet(queue'),
           DeliveryFine(c) => DeliveryFine(c)' \/ \E m \in BagToSet(queue') : MessageFine(m)'
    PROVE  GoesOn'
<1>1. ASSUME NEW m \in BagToSet(queue), MessageFine(m) PROVE GoesOn'
  <2>1. m \in Message
    BY DEF IInv, TypeOK
  <2>2. MessageFine(m)'
    BY <1>1, <2>1, MessageKept
  <2>3. QED
    BY <2>2 DEF GoesOn
<1>2. ASSUME NEW d \in Consumers, DeliveryFine(d) PROVE GoesOn'
  <2>1. CASE d = c
    BY <1>2, <2>1 DEF GoesOn
  <2>2. CASE d # c
    <3>1. DeliveryFine(d)'
      BY <1>2, <2>2, DeliveryKept
    <3>2. QED
      BY <3>1 DEF GoesOn
  <2>3. QED
    BY <2>1, <2>2
<1>3. QED
  BY <1>1, <1>2 DEF GoesOn
-----------------------------------------------------------------------------
(* The delivery that takes the step. *)

OrphanInv == IInv /\ SpoiltByFault /\ Carried

LEMMA RestAlone ==
    ASSUME IInv, NEW c \in Consumers, \A d \in Consumers : d # c => run'[d] = run[d],
           feedLock' = feedLock \/ feedLock.holder = c \/ Open(feedLock)
    PROVE  Alone(c)
<1>1. Nobody \notin Consumers
  BY LockFacts
<1>2. QED
  BY <1>1 DEF Alone, Astray, At, Open

LEMMA SpoiltStays ==
    ASSUME IInv, IInv', SpoiltByFault, NEW c \in Consumers, Eased(c)
    PROVE  SpoiltByFault'
<1>1. faults \in Nat /\ faults' \in Nat
  BY BudgetTyped
<1>2. QED
  BY <1>1 DEF SpoiltByFault, Eased

LEMMA SpoiltByOthers ==
    ASSUME IInv, NEW c \in Consumers, Alone(c), job'.lock = job.lock,
           Holds(c) => (Working(c)' <=> Working(c)) /\ (Astray(c)' => Astray(c))
    PROVE  Spoilt' => Spoilt
<1> SUFFICES ASSUME Spoilt' PROVE Spoilt
  OBVIOUS
<1> DEFINE h == job.lock.holder
<1>1. Held /\ h \in Consumers
  BY LockFacts DEF Spoilt, Held
<1>2. ~Working(h)' \/ Astray(h)'
  BY DEF Spoilt, Working, Astray, At
<1>3. CASE h = c
  BY <1>1, <1>2, <1>3 DEF Spoilt, Holds
<1>4. CASE h # c
  <2>1. run'[h] = run[h] /\ (Astray(h)' => Astray(h))
    BY <1>1, <1>4 DEF Alone
  <2>2. ~Working(h) \/ Astray(h)
    BY <1>2, <2>1 DEF Working
  <2>3. QED
    BY <1>1, <2>2 DEF Spoilt
<1>5. QED
  BY <1>3, <1>4

\* The terms of the delivery's own inequality.
LEMMA OwnTerms ==
    ASSUME IInv, IInv', NEW c \in Consumers, Alone(c)
    PROVE  /\ Ahead(c) \in Nat /\ Ahead(c)' = Ahead(c)
           /\ faults \in Nat /\ faults' \in Nat
           /\ run[c].attempts \in Nat /\ run'[c].attempts \in Nat
           /\ Budget(c) = 2 * faults + Ahead(c) - Num(Spoilt /\ ~(Holds(c) /\ Working(c)))
           /\ Budget(c)' = 2 * faults' + Ahead(c) - Num(Spoilt' /\ ~(Holds(c)' /\ Working(c)'))
           /\ DeliveryFine(c) <=>
                 /\ run[c].step # "idle"
                 /\ run[c].attempts + Num(Owes(c)) =< Budget(c) + Num(Held /\ At(c, "look"))
           /\ DeliveryFine(c)' <=>
                 /\ run'[c].step # "idle"
                 /\ run'[c].attempts + Num(Owes(c)') =< Budget(c)' + Num(Held' /\ At(c, "look")')
<1>1. Nobody \notin Consumers /\ \A d \in Consumers : d # c => run'[d] = run[d]
  BY LockFacts DEF Alone
<1>2. Ahead(c) \in Nat /\ Ahead(c)' = Ahead(c)
  BY <1>1, PublishersFinite, AheadOfSelf
<1>3. faults \in Nat /\ faults' \in Nat
  BY BudgetTyped
<1>4. run[c].attempts \in Nat /\ run'[c].attempts \in Nat
  BY NumbersOK DEF IInv, TypeOK, Run
<1>5. Budget(c) = 2 * faults + Ahead(c) - Num(Spoilt /\ ~(Holds(c) /\ Working(c)))
  BY DEF Budget
<1>6. Budget(c)' = 2 * faults' + Ahead(c)' - Num(Spoilt' /\ ~(Holds(c)' /\ Working(c)'))
  BY DEF Budget, Num
<1>7. DeliveryFine(c) <=>
         /\ run[c].step # "idle"
         /\ run[c].attempts + Num(Owes(c)) =< Budget(c) + Num(Held /\ At(c, "look"))
  BY DEF DeliveryFine, At
<1>8. DeliveryFine(c)' <=>
         /\ run'[c].step # "idle"
         /\ run'[c].attempts + Num(Owes(c)') =< Budget(c)' + Num(Held' /\ At(c, "look")')
  BY DEF DeliveryFine, At, Num
<1>9. QED
  BY <1>2, <1>3, <1>4, <1>5, <1>6, <1>7, <1>8

LEMMA ActorStep ==
    ASSUME OrphanInv, IInv', NEW c \in Consumers, Alone(c), Eased(c), request' = request,
           job'.status \in Active => job.status \in Active,
           job'.status \in Active =>
               /\ BagToSet(queue) \subseteq BagToSet(queue')
               /\ DeliveryFine(c) =>
                     DeliveryFine(c)' \/ \E m \in BagToSet(queue') : MessageFine(m)'
    PROVE  SpoiltByFault' /\ Carried'
<1>1. SpoiltByFault'
  BY SpoiltStays DEF OrphanInv
<1>2. ASSUME request' = "accepted", job'.status \in Active PROVE GoesOn'
  <2>1. GoesOn
    BY <1>2 DEF OrphanInv, Carried
  <2>2. QED
    BY <1>2, <2>1, OneGoesOn DEF OrphanInv
<1>3. QED
  BY <1>1, <1>2 DEF Carried

\* An error: the fault allows for the delivery's own retry and for the lock it leaves.
LEMMA FaultyStep ==
    ASSUME OrphanInv, IInv', NEW c \in Consumers,
           \A d \in Consumers : d # c => run'[d] = run[d],
           run'[c].attempts = run[c].attempts,
           run[c].step # "look", run'[c].step # "idle",
           faults' = faults + 1,
           feedLock' = feedLock \/ feedLock.holder = c \/ Open(feedLock),
           \/ job'.lock = job.lock
           \/ Holds(c) /\ ~Held'
           \/ ~Held /\ Holds(c)',
           request' = request, BagToSet(queue) \subseteq BagToSet(queue'),
           job'.status \in Active => job.status \in Active
    PROVE  SpoiltByFault' /\ Carried'
<1>1. IInv
  BY DEF OrphanInv
<1>2. Alone(c) /\ Eased(c)
  BY <1>1, RestAlone DEF Eased
<1>3. ASSUME DeliveryFine(c) PROVE DeliveryFine(c)'
  <2>1. run[c].attempts + Num(Owes(c)) =< Budget(c)
    BY <1>1, <1>2, <1>3, OwnTerms DEF Num, At
  <2>2. Budget(c)' >= Budget(c) + 1
    BY <1>1, <1>2, OwnTerms DEF Num
  <2>3. QED
    BY <1>1, <1>2, <2>1, <2>2, OwnTerms, BudgetTyped DEF Num
<1>4. QED
  BY <1>2, <1>3, ActorStep

\* A step that goes right, or shows that the lock was lost.
LEMMA OnwardStep ==
    ASSUME OrphanInv, IInv', NEW c \in Consumers,
           \A d \in Consumers : d # c => run'[d] = run[d],
           run'[c].attempts = run[c].attempts,
           run[c].step \notin {"look", "publish"}, run'[c].step # "idle",
           UNCHANGED <<job, faults, request, queue>>,
           feedLock' = feedLock \/ feedLock.holder = c \/ Open(feedLock),
           Holds(c) => (Working(c)' <=> Working(c)) /\ (Astray(c)' => Astray(c)),
           Owes(c)' => Owes(c)
    PROVE  SpoiltByFault' /\ Carried'
<1>1. IInv
  BY DEF OrphanInv
<1>2. Alone(c)
  BY <1>1, RestAlone
<1>3. Spoilt' => Spoilt
  BY <1>1, <1>2, SpoiltByOthers
<1>4. Held' <=> Held
  BY DEF Held
<1>5. Eased(c)
  BY <1>3, <1>4 DEF Eased, At
<1>6. ASSUME DeliveryFine(c) PROVE DeliveryFine(c)'
  <2>1. run[c].attempts + Num(Owes(c)) =< Budget(c)
    BY <1>1, <1>2, <1>6, OwnTerms DEF Num, At
  <2>2. Holds(c)' <=> Holds(c)
    BY DEF Holds
  <2>3. Spoilt' /\ ~(Holds(c)' /\ Working(c)') => Spoilt /\ ~(Holds(c) /\ Working(c))
    BY <1>3, <2>2
  <2>4. Budget(c)' >= Budget(c)
    BY <1>1, <1>2, <2>3, OwnTerms DEF Num
  <2>5. QED
    BY <1>1, <1>2, <2>1, <2>4, OwnTerms, BudgetTyped DEF Num
<1>7. QED
  BY <1>2, <1>5, <1>6, ActorStep

\* The lock is given back, after a chunk or after an error.
LEMMA FreeingStep ==
    ASSUME OrphanInv, IInv', NEW c \in Consumers,
           \A d \in Consumers : d # c => run'[d] = run[d],
           run'[c].attempts = run[c].attempts,
           Working(c), Holds(c), job'.lock = Free,
           run'[c].step = "publish" \/ (run[c].step = "release" /\ run'[c].step = "judge"),
           UNCHANGED <<faults, request, queue, feedLock>>,
           job'.status \in Active => job.status \in Active
    PROVE  SpoiltByFault' /\ Carried'
<1>1. IInv
  BY DEF OrphanInv
<1>2. Alone(c)
  BY <1>1, RestAlone
<1>3. ~Held' /\ ~Spoilt'
  BY <1>1, LockFacts DEF Held, Spoilt
<1>4. run[c].step = "release" /\ Held => Spoilt
  BY DEF Spoilt, Held, Holds, Astray, At
<1>5. Eased(c)
  BY <1>3, <1>4 DEF Eased, At, Working
<1>6. ASSUME DeliveryFine(c) PROVE DeliveryFine(c)'
  <2>1. run[c].attempts + Num(Owes(c)) =< Budget(c)
    BY <1>1, <1>2, <1>6, OwnTerms DEF Num, At, Working
  <2>2. Owes(c)' => Owes(c)
    BY DEF Owes, Astray, At, Working
  <2>3. Budget(c)' >= Budget(c)
    BY <1>1, <1>2, <1>3, OwnTerms DEF Num
  <2>4. QED
    BY <1>1, <1>2, <2>1, <2>2, <2>3, OwnTerms, BudgetTyped DEF Num
<1>7. QED
  BY <1>2, <1>5, <1>6, ActorStep
-----------------------------------------------------------------------------
(* Messages. *)

LEMMA BagWith == \A q, m : BagToSet(q (+) SetToBag({m})) = BagToSet(q) \cup {m}
BY DEF (+), SetToBag, BagToSet

LEMMA BagWithout ==
    ASSUME NEW q, IsABag(q), NEW m
    PROVE  BagToSet(q) \subseteq BagToSet(q (-) SetToBag({m})) \cup {m}
<1> SUFFICES ASSUME NEW e \in DOMAIN q, e # m PROVE e \in DOMAIN (q (-) SetToBag({m}))
  BY DEF BagToSet
<1> DEFINE less == [x \in DOMAIN q |-> IF x \in DOMAIN SetToBag({m})
                                         THEN q[x] - SetToBag({m})[x] ELSE q[x]]
           left == {d \in DOMAIN less : less[d] > 0}
           new  == [x \in left |-> less[x]]
<1>1. q (-) SetToBag({m}) = new
  BY DEF (-)
<1>2. DOMAIN SetToBag({m}) = {m}
  BY DEF SetToBag
<1>3. q[e] \in Nat /\ q[e] > 0
  BY DEF IsABag
<1>4. e \in DOMAIN less /\ less[e] = q[e]
  BY <1>2
<1> HIDE DEF less
<1>5. e \in left
  BY <1>3, <1>4
<1>6. QED
  BY <1>1, <1>5

LEMMA SentOff ==
    ASSUME NEW m, Send(m)
    PROVE  m \in BagToSet(queue') /\ BagToSet(queue) \subseteq BagToSet(queue')
BY BagWith DEF Send

LEMMA RetryKeeps == ASSUME NEW c, NEW h, Retry(c, h)
                    PROVE  BagToSet(queue) \subseteq BagToSet(queue')
BY SentOff DEF Retry

\* A message that has not come back yet is as good as any.
LEMMA FreshFine == ASSUME IInv, IInv', SpoiltByFault' PROVE MessageFine(Fresh)'
<1>1. Ahead(Nobody)' \in Nat /\ faults' \in Nat
  BY PublishersFinite, BudgetTyped
<1>2. Budget(Nobody)' = 2 * faults' + Ahead(Nobody)' - Num(Spoilt' /\ ~(Holds(Nobody)' /\ Working(Nobody)'))
  BY DEF Budget, Num
<1>3. Budget(Nobody)' \in Nat
  BY <1>1, <1>2 DEF Num, SpoiltByFault
<1>4. Fresh.attempts = 0
  BY DEF Fresh
<1>5. MessageFine(Fresh)' <=> Fresh.attempts =< Budget(Nobody)' + Num(Held' /\ Holds(Fresh.behind)')
  BY DEF MessageFine, Num
<1>6. QED
  BY <1>3, <1>4, <1>5 DEF Num

\* The delivery's message goes back, as long as there are retries.
LEMMA SentBack ==
    ASSUME IInv, IInv', NEW c \in Consumers, NEW h, Retry(c, h), run[c].attempts < MaxRetries,
           run[c].attempts + 1 =< Budget(Nobody)' + Num(Held' /\ Holds(h)')
    PROVE  \E m \in BagToSet(queue') : MessageFine(m)'
<1>1. PICK m : m = [attempts |-> run[c].attempts + 1, behind |-> h]
  OBVIOUS
<1>2. Send(m)
  BY <1>1 DEF Retry
<1>3. m \in BagToSet(queue')
  BY <1>2, SentOff
<1>4. MessageFine(m)' <=> m.attempts =< Budget(Nobody)' + Num(Held' /\ Holds(m.behind)')
  BY DEF MessageFine, Num, Holds
<1>5. m.attempts = run[c].attempts + 1 /\ m.behind = h
  BY <1>1
<1>6. QED
  BY <1>3, <1>4, <1>5

LEMMA RetryAlone ==
    ASSUME IInv, NEW c \in Consumers, NEW h, Retry(c, h), UNCHANGED feedLock
    PROVE  /\ Alone(c) /\ run'[c].step = "idle"
           /\ \A d \in Consumers : d # c => run'[d] = run[d]
<1>1. /\ run'[c].step = "idle"
      /\ \A d \in Consumers : d # c => run'[d] = run[d]
  BY Finished DEF Retry, IInv, TypeOK
<1>2. QED
  BY <1>1, RestAlone

\* A delivery without a message left to send, and without an error of this moment.
LEMMA RetryNow ==
    ASSUME OrphanInv, IInv', EnoughRetries, NEW c \in Consumers, NEW h, Retry(c, h),
           \/ run[c].step = "judge"
           \/ run[c].step = "look" /\ h = job.lock.holder,
           UNCHANGED <<job, feedLock, request, faults>>
    PROVE  SpoiltByFault' /\ Carried'
<1>1. IInv
  BY DEF OrphanInv
<1>2. /\ Alone(c) /\ run'[c].step = "idle"
      /\ \A d \in Consumers : d # c => run'[d] = run[d]
  BY <1>1, RetryAlone
<1>3. ~Working(c) /\ ~Working(c)' /\ ~Astray(c)'
  BY <1>2 DEF Working, Astray, At
<1>4. (Spoilt' => Spoilt) /\ (Held' <=> Held)
  BY <1>1, <1>2, <1>3, SpoiltByOthers DEF Held
<1>5. Eased(c)
  BY <1>4 DEF Eased, At
<1>6. ASSUME DeliveryFine(c) PROVE \E m \in BagToSet(queue') : MessageFine(m)'
  <2> DEFINE k == Num(Held /\ run[c].step = "look")
  <2>1. run[c].attempts + 1 =< Budget(c) + k
    <3>1. Owes(c)
      BY DEF Owes, At
    <3>2. QED
      BY <1>1, <1>2, <1>6, <3>1, OwnTerms DEF Num, At
  <2>2. Budget(c) = 2 * faults + Ahead(c) - Num(Spoilt)
    BY <1>1, <1>2, <1>3, OwnTerms DEF Num
  <2>3. Ahead(Nobody)' = Ahead(c) /\ Ahead(c) \in Nat
    BY <1>1, <1>2, LockFacts, AheadOfSelf, PublishersFinite DEF At
  <2>4. Budget(Nobody)' = 2 * faults + Ahead(c) - Num(Spoilt' /\ ~(Holds(Nobody)' /\ Working(Nobody)'))
    BY <2>3 DEF Budget, Num
  <2>5. Num(Spoilt' /\ ~(Holds(Nobody)' /\ Working(Nobody)')) =< Num(Spoilt)
    BY <1>4 DEF Num
  <2>6. k =< Num(Held' /\ Holds(h)') /\ k \in {0, 1}
    BY <1>4 DEF Num, Holds
  <2> HIDE DEF k
  <2>7. Num(Held' /\ Holds(h)') \in {0, 1} /\ Num(Spoilt) \in {0, 1}
        /\ Num(Spoilt' /\ ~(Holds(Nobody)' /\ Working(Nobody)')) \in {0, 1}
    BY DEF Num
  <2>8. faults \in Nat /\ faults =< MaxFaults /\ MaxFaults \in Nat /\ run[c].attempts \in Nat
    BY <1>1, <1>2, OwnTerms, ImportAssumption DEF IInv, TypeOK
  <2>9. run[c].attempts + 1 =< Budget(Nobody)' + Num(Held' /\ Holds(h)')
    BY <2>1, <2>2, <2>3, <2>4, <2>5, <2>6, <2>7, <2>8
  <2>10. Ahead(c) - Num(Spoilt) + k =< Cardinality(Consumers) - 1
    <3>1. Cardinality(Consumers) \in Nat
      BY ImportAssumption, FS_CardinalityType
    <3>2. CASE ~Held
      BY <1>1, <2>3, <2>7, <3>1, <3>2, AheadBounded DEF Num, k
    <3>3. CASE Spoilt
      BY <1>1, <2>3, <2>6, <3>1, <3>3, AheadBounded DEF Num
    <3>4. CASE Held /\ ~Spoilt
      <4>1. ~Holds(c)
        BY <1>3, <3>4 DEF Spoilt, Holds
      <4>2. QED
        BY <1>1, <2>3, <2>6, <3>1, <3>4, <4>1, AheadBounded DEF Num
    <3>5. QED
      BY <3>2, <3>3, <3>4
  <2>11. run[c].attempts < MaxRetries
    <3>1. Cardinality(Consumers) \in Nat /\ MaxRetries \in Nat
      BY ImportAssumption, FS_CardinalityType
    <3>2. QED
      BY <2>1, <2>2, <2>3, <2>6, <2>7, <2>8, <2>10, <3>1 DEF EnoughRetries
  <2>12. QED
    BY <1>1, <2>9, <2>11, SentBack
<1>7. job'.status \in Active => job.status \in Active
  OBVIOUS
<1>8. BagToSet(queue) \subseteq BagToSet(queue')
  BY RetryKeeps
<1>9. QED
  BY <1>2, <1>5, <1>6, <1>7, <1>8, ActorStep

\* The invocation is ended.
LEMMA KilledStep ==
    ASSUME OrphanInv, IInv', EnoughRetries, NEW c \in Consumers, Killed(c)
    PROVE  SpoiltByFault' /\ Carried'
<1>1. /\ IInv /\ Retry(c, Nobody) /\ run[c].step # "idle"
      /\ faults' = faults + 1 /\ faults < MaxFaults
      /\ UNCHANGED <<job, feedLock, request>>
  BY DEF OrphanInv, Killed, Fault, At
<1>2. /\ Alone(c) /\ run'[c].step = "idle"
      /\ \A d \in Consumers : d # c => run'[d] = run[d]
  BY <1>1, RetryAlone
<1>3. Eased(c)
  BY <1>1 DEF Eased
<1>4. ASSUME DeliveryFine(c) PROVE \E m \in BagToSet(queue') : MessageFine(m)'
  <2>1. run[c].attempts =< Budget(c)
    <3>1. Num(Held /\ At(c, "look")) =< Num(Owes(c))
      BY DEF Num, Owes
    <3>2. Num(Held /\ At(c, "look")) \in {0, 1} /\ Num(Owes(c)) \in {0, 1}
      BY DEF Num
    <3>3. QED
      BY <1>1, <1>2, <1>4, <3>1, <3>2, OwnTerms, BudgetTyped
  <2>2. Ahead(Nobody)' = Ahead(c) /\ Ahead(c) \in Nat
    BY <1>1, <1>2, LockFacts, AheadOfSelf, PublishersFinite DEF At
  <2>3. Budget(Nobody)' >= 2 * faults + 1 + Ahead(c)
    <3>1. Budget(Nobody)' = 2 * faults' + Ahead(Nobody)'
                            - Num(Spoilt' /\ ~(Holds(Nobody)' /\ Working(Nobody)'))
      BY DEF Budget, Num
    <3>2. QED
      BY <1>1, <2>2, <3>1, BudgetTyped DEF Num
  <2>4. Budget(c) =< 2 * faults + Ahead(c)
    BY <1>1, <1>2, OwnTerms DEF Num
  <2>5. /\ faults \in Nat /\ MaxFaults \in Nat /\ MaxRetries \in Nat
        /\ run[c].attempts \in Nat /\ Cardinality(Consumers) \in Nat
    BY <1>1, <1>2, OwnTerms, ImportAssumption, FS_CardinalityType
  <2>6. run[c].attempts < MaxRetries
    BY <1>1, <2>1, <2>2, <2>4, <2>5, AheadBounded, BudgetTyped DEF EnoughRetries
  <2>7. run[c].attempts + 1 =< Budget(Nobody)' + Num(Held' /\ Holds(Nobody)')
    BY <1>1, <2>1, <2>2, <2>3, <2>4, <2>5, BudgetTyped DEF Num
  <2>8. QED
    BY <1>1, <2>6, <2>7, SentBack
<1>5. BagToSet(queue) \subseteq BagToSet(queue')
  BY <1>1, RetryKeeps
<1>6. QED
  BY <1>1, <1>2, <1>3, <1>4, <1>5, ActorStep
-----------------------------------------------------------------------------
(* The steps one by one. *)

LEMMA Moved ==
    ASSUME IInv, NEW c \in Consumers, NEW s, Go(c, s)
    PROVE  /\ run'[c].step = s /\ run'[c].attempts = run[c].attempts
           /\ \A d \in Consumers : d # c => run'[d] = run[d]
BY DEF Go, IInv, TypeOK, Run

\* What an error in c's hands comes to.
LEMMA ErrorHere ==
    ASSUME OrphanInv, IInv', NEW c \in Consumers, NEW s, s # "idle", Go(c, s),
           run[c].step # "look", Fault,
           feedLock' = feedLock \/ feedLock.holder = c \/ Open(feedLock),
           job'.lock = job.lock \/ (Holds(c) /\ ~Held') \/ (~Held /\ Holds(c)'),
           UNCHANGED <<request, queue>>,
           job'.status \in Active => job.status \in Active
    PROVE  SpoiltByFault' /\ Carried'
BY Moved, FaultyStep DEF OrphanInv, Fault

LEMMA LookStep ==
    ASSUME OrphanInv, IInv', EnoughRetries, NEW c \in Consumers, Look(c) \/ Judge(c)
    PROVE  SpoiltByFault' /\ Carried'
<1>1. UNCHANGED <<job, feedLock, request>> /\ ReadsFail = FALSE
  BY DEF Look, Judge, EnoughRetries
<1>2. CASE job.status \notin Active
  <2>1. \/ Finish(c) \/ \E h : Retry(c, h)
    BY DEF Look, Judge
  <2>2. \A d \in Consumers : d # c => run'[d] = run[d]
    BY <2>1, Finished DEF Retry, OrphanInv, IInv, TypeOK
  <2>3. faults' = faults /\ ~Working(c) /\ run'[c].step = "idle" /\ run[c].step # "publish"
    BY <1>1, <2>1, Finished DEF Look, Judge, NoFault, Working, At, Retry, OrphanInv, IInv, TypeOK
  <2>4. Alone(c)
    BY <1>1, <2>2, RestAlone DEF OrphanInv
  <2>5. Spoilt' => Spoilt
    BY <1>1, <2>3, <2>4, SpoiltByOthers DEF OrphanInv, Working, Astray, At
  <2>6. SpoiltByFault'
    BY <2>3, <2>5 DEF OrphanInv, SpoiltByFault
  <2>7. QED
    BY <1>1, <1>2, <2>6 DEF Carried
<1>3. CASE job.status \in Active /\ Look(c)
  <2>1. PICK h : h = job.lock.holder
    OBVIOUS
  <2>2. Retry(c, h) /\ NoFault /\ run[c].step = "look"
    BY <1>1, <1>3, <2>1 DEF Look, At
  <2>3. QED
    BY <1>1, <2>1, <2>2, RetryNow DEF NoFault
<1>4. CASE job.status \in Active /\ Judge(c)
  <2>1. Retry(c, Nobody) /\ NoFault /\ run[c].step = "judge"
    BY <1>1, <1>4 DEF Judge, At, Active
  <2>2. QED
    BY <1>1, <2>1, RetryNow DEF NoFault
<1>5. QED
  BY <1>2, <1>3, <1>4

LEMMA PublishStep ==
    ASSUME OrphanInv, IInv', NEW c \in Consumers, PublishNext(c)
    PROVE  SpoiltByFault' /\ Carried'
<1>1. UNCHANGED <<job, feedLock, request>> /\ run[c].step = "publish" /\ IInv
  BY DEF PublishNext, At, OrphanInv
<1>2. CASE (Send(Fresh) \/ UNCHANGED queue) /\ Go(c, "judge") /\ Fault
  <2>1. BagToSet(queue) \subseteq BagToSet(queue')
    BY <1>2, SentOff
  <2>2. QED
    BY <1>1, <1>2, <2>1, Moved, FaultyStep DEF Fault
<1>3. CASE Send(Fresh) /\ Finish(c) /\ NoFault
  <2>1. run'[c].step = "idle" /\ \A d \in Consumers : d # c => run'[d] = run[d]
    BY <1>1, <1>3, Finished DEF IInv, TypeOK
  <2>2. Alone(c) /\ ~Working(c) /\ ~Working(c)' /\ ~Astray(c)'
    BY <1>1, <2>1, RestAlone DEF Working, Astray, At
  <2>3. Spoilt' => Spoilt
    BY <1>1, <2>2, SpoiltByOthers
  <2>4. SpoiltByFault'
    BY <1>3, <2>3 DEF OrphanInv, SpoiltByFault, NoFault
  <2>5. Fresh \in BagToSet(queue')
    BY <1>3, SentOff
  <2>6. PICK m : m = Fresh
    OBVIOUS
  <2>7. MessageFine(m)' <=> MessageFine(Fresh)'
    BY <2>6 DEF MessageFine, Num, Holds, Fresh
  <2>8. GoesOn'
    BY <1>1, <2>4, <2>5, <2>6, <2>7, FreshFine DEF GoesOn
  <2>9. QED
    BY <2>4, <2>8 DEF Carried
<1>4. QED
  BY <1>2, <1>3 DEF PublishNext, Call

LEMMA TakenStep ==
    ASSUME OrphanInv, IInv', NEW c \in Consumers, Deliver(c)
    PROVE  SpoiltByFault' /\ Carried'
<1>1. /\ UNCHANGED <<job, feedLock, request, faults>> /\ run[c].step = "idle" /\ IInv
      /\ Nobody \notin Consumers
  BY LockFacts DEF Deliver, At, OrphanInv
<1>2. PICK m \in BagToSet(queue) :
          /\ m.behind = Nobody \/ job.lock.holder # m.behind \/ job.lock.expired
          /\ queue' = queue (-) SetToBag({m})
          /\ run' = [run EXCEPT ![c] = [NoRun EXCEPT !.step = "acquire", !.attempts = m.attempts]]
  BY DEF Deliver
<1>3. m \in Message
  BY <1>1, <1>2 DEF IInv, TypeOK
<1>4. /\ run'[c].step = "acquire" /\ run'[c].attempts = m.attempts
      /\ \A d \in Consumers : d # c => run'[d] = run[d]
  <2>1. run \in [Consumers -> Run]
    BY <1>1 DEF IInv, TypeOK
  <2>2. QED
    BY <1>2, <2>1 DEF NoRun
<1>5. Alone(c)
  BY <1>1, <1>4, RestAlone
<1>6. ~Working(c) /\ ~Working(c)' /\ ~Astray(c)' /\ ~Owes(c)'
  BY <1>1, <1>4 DEF Working, Astray, Owes, At
<1>7. Spoilt' => Spoilt
  BY <1>1, <1>5, <1>6, SpoiltByOthers
<1>8. Eased(c)
  BY <1>1, <1>7 DEF Eased, At, Held
<1>9. SpoiltByFault'
  BY <1>1, <1>8, SpoiltStays DEF OrphanInv
<1>10. ASSUME MessageFine(m) PROVE DeliveryFine(c)'
  <2>1. ~(Held /\ Holds(m.behind))
    BY <1>2 DEF Held, Holds
  <2>2. m.attempts =< Budget(Nobody)
    BY <1>10, <1>3, <2>1, <1>1, BudgetTyped DEF MessageFine, Num, Message
  <2>3. Ahead(Nobody) = Ahead(c) /\ Ahead(c) \in Nat
    BY <1>1, <1>4, AheadOfSelf, PublishersFinite DEF At
  <2>4. ~(Spoilt /\ Holds(Nobody))
    BY DEF Spoilt, Held, Holds
  <2>5. Budget(Nobody) = 2 * faults + Ahead(c) - Num(Spoilt)
    BY <2>3, <2>4 DEF Budget, Num
  <2>6. Budget(c)' >= Budget(Nobody)
    BY <1>1, <1>5, <1>7, <2>3, <2>5, OwnTerms DEF Num
  <2>7. m.attempts \in Nat
    BY <1>3, NumbersOK DEF Message
  <2>8. QED
    BY <1>1, <1>4, <1>5, <1>6, <2>2, <2>6, <2>7, OwnTerms, BudgetTyped DEF Num
<1>11. ASSUME request' = "accepted", job'.status \in Active PROVE GoesOn'
  <2>1. GoesOn
    BY <1>1, <1>11 DEF OrphanInv, Carried
  <2>2. ASSUME NEW n \in BagToSet(queue), MessageFine(n) PROVE GoesOn'
    <3>1. CASE n = m
      BY <1>10, <2>2, <3>1 DEF GoesOn
    <3>2. CASE n # m
      <4>1. n \in BagToSet(queue') /\ n \in Message
        BY <1>1, <1>2, <3>2, BagWithout DEF IInv, TypeOK
      <4>2. MessageFine(n)'
        BY <1>1, <1>5, <1>8, <2>2, <4>1, MessageKept
      <4>3. QED
        BY <4>1, <4>2 DEF GoesOn
    <3>3. QED
      BY <3>1, <3>2
  <2>3. ASSUME NEW d \in Consumers, DeliveryFine(d) PROVE GoesOn'
    <3>1. d # c
      BY <1>1, <2>3 DEF DeliveryFine, At
    <3>2. DeliveryFine(d)'
      BY <1>1, <1>5, <1>8, <2>3, <3>1, DeliveryKept
    <3>3. QED
      BY <3>2 DEF GoesOn
  <2>4. QED
    BY <2>1, <2>2, <2>3 DEF GoesOn
<1>12. QED
  BY <1>9, <1>11 DEF Carried

LEMMA TakeLockStep ==
    ASSUME OrphanInv, IInv', NEW c \in Consumers, acquireJob(c)
    PROVE  SpoiltByFault' /\ Carried'
<1>1. /\ UNCHANGED <<feedLock, queue, request>> /\ run[c].step = "acquire" /\ IInv
      /\ run \in [Consumers -> Run] /\ job \in Job /\ c # Nobody
  BY LockFacts DEF acquireJob, At, OrphanInv, IInv, TypeOK
<1>2. Acquirable => ~Held /\ job.status \in Active
  BY DEF Acquirable, Open, Held
<1>3. Acquired(c) => job'.lock = HeldBy(c)
  BY <1>1 DEF Acquired, Job
<1>4. job'.lock = HeldBy(c) => Holds(c)' /\ Held'
  BY <1>1 DEF HeldBy, Holds, Held
<1>5. CASE ~Acquirable /\ Go(c, "look") /\ UNCHANGED <<job, faults>>
  <2>1. /\ run'[c].step = "look" /\ run'[c].attempts = run[c].attempts
        /\ \A d \in Consumers : d # c => run'[d] = run[d]
    BY <1>1, <1>5, Moved
  <2>2. Alone(c) /\ ~Working(c) /\ ~Working(c)' /\ ~Astray(c)'
    BY <1>1, <2>1, RestAlone DEF Working, Astray, At
  <2>3. (Spoilt' => Spoilt) /\ (Held' <=> Held)
    BY <1>1, <1>5, <2>2, SpoiltByOthers DEF Held
  <2>4. Eased(c)
    BY <1>1, <1>5, <2>3 DEF Eased, At
  <2>5. ASSUME job'.status \in Active, DeliveryFine(c) PROVE DeliveryFine(c)'
    <3>1. Held'
      BY <1>5, <2>3, <2>5 DEF Acquirable, Open, Held
    <3>2. Budget(c)' >= Budget(c)
      BY <1>1, <1>5, <2>2, <2>3, OwnTerms DEF Num
    <3>3. run[c].attempts =< Budget(c)
      BY <1>1, <2>2, <2>5, OwnTerms, BudgetTyped DEF Num, At
    <3>4. QED
      BY <1>1, <2>1, <2>2, <3>1, <3>2, <3>3, OwnTerms, BudgetTyped DEF Num, At
  <2>6. QED
    BY <1>1, <1>5, <2>2, <2>4, <2>5, ActorStep
<1>6. CASE Acquirable /\ (Acquired(c) \/ UNCHANGED job) /\ Go(c, "judge") /\ Fault
  <2>1. job'.lock = job.lock \/ (~Held /\ Holds(c)')
    BY <1>2, <1>3, <1>4, <1>6
  <2>2. QED
    BY <1>1, <1>2, <1>6, <2>1, ErrorHere
<1>7. CASE /\ Acquirable /\ Acquired(c) /\ NoFault
           /\ run' = [run EXCEPT ![c].step = FirstStep, ![c].chunk = job.next,
                                 ![c].changed = job.changed]
  <2>1. /\ run'[c].step \in {"save", "feed", "complete"} /\ run'[c].attempts = run[c].attempts
        /\ \A d \in Consumers : d # c => run'[d] = run[d]
    BY <1>1, <1>7 DEF Run, FirstStep
  <2>2. Alone(c)
    BY <1>1, <2>1, RestAlone
  <2>3. ~Held /\ ~Spoilt /\ Held' /\ Holds(c)' /\ job'.lock.holder = c
    BY <1>2, <1>3, <1>4, <1>7 DEF Spoilt, HeldBy
  <2>4. Working(c)' /\ ~Astray(c)' /\ ~Owes(c)'
    BY <2>1, <2>3 DEF Working, Astray, At, Owes
  <2>5. ~Spoilt'
    BY <2>3, <2>4 DEF Spoilt, Working, Astray, At
  <2>6. Eased(c)
    BY <1>1, <1>7, <2>3, <2>5 DEF Eased, NoFault, At
  <2>7. ASSUME DeliveryFine(c) PROVE DeliveryFine(c)'
    <3>1. Budget(c)' >= Budget(c)
      BY <1>1, <1>7, <2>2, <2>5, OwnTerms DEF Num, NoFault
    <3>2. run[c].attempts =< Budget(c)
      BY <1>1, <2>2, <2>7, OwnTerms, BudgetTyped DEF Num, At
    <3>3. QED
      BY <1>1, <2>1, <2>2, <2>4, <3>1, <3>2, OwnTerms, BudgetTyped DEF Num
  <2>8. QED
    BY <1>1, <1>2, <1>7, <2>2, <2>6, <2>7, ActorStep
<1>8. QED
  BY <1>5, <1>6, <1>7 DEF acquireJob, Call

LEMMA SavingStep ==
    ASSUME OrphanInv, IInv', NEW c \in Consumers, processJobChunk(c)
    PROVE  SpoiltByFault' /\ Carried'
<1>1. UNCHANGED <<job, feedLock, queue, request>> /\ run[c].step = "save" /\ IInv
  BY DEF processJobChunk, At, OrphanInv
<1>2. CASE Go(c, "release") /\ Fault
  BY <1>1, <1>2, ErrorHere
<1>3. CASE /\ NoFault
           /\ \E n : run' = [run EXCEPT ![c].step = "advance", ![c].changed = n]
  <2>1. /\ run'[c].step = "advance" /\ run'[c].attempts = run[c].attempts
        /\ \A d \in Consumers : d # c => run'[d] = run[d]
    BY <1>1, <1>3 DEF IInv, TypeOK, Run
  <2>2. Working(c) /\ Working(c)' /\ ~Astray(c)' /\ (Owes(c)' => Owes(c))
    BY <1>1, <2>1 DEF Working, Astray, At, Owes, Held, Holds
  <2>3. QED
    BY <1>1, <1>3, <2>1, <2>2, OnwardStep DEF NoFault
<1>4. CASE ~kept
  <2>1. job'.status \notin Active
    BY <1>1, <1>4 DEF IInv, JobOK
  <2>2. Go(c, "release") /\ UNCHANGED faults
    BY <1>4 DEF processJobChunk
  <2>3. /\ run'[c].step = "release" /\ run'[c].attempts = run[c].attempts
        /\ \A d \in Consumers : d # c => run'[d] = run[d]
    BY <1>1, <2>2, Moved
  <2>4. job.lock.holder = Nobody
    BY <1>1, <2>1 DEF IInv, JobOK, Active
  <2>5. ~Spoilt'
    BY <1>1, <2>4 DEF Spoilt, Held
  <2>6. QED
    BY <2>1, <2>5 DEF SpoiltByFault, Carried
<1>5. QED
  BY <1>2, <1>3, <1>4 DEF processJobChunk, Call

\* The lock token shows that another has taken the job over.
LEMMA OvertakenStep ==
    ASSUME OrphanInv, IInv', NEW c \in Consumers, NEW s, s \in {"release", "judge"}, Go(c, s),
           run[c].step \in {"advance", "complete", "defer", "release"}, ~Holds(c),
           UNCHANGED <<job, faults, feedLock, queue, request>>
    PROVE  SpoiltByFault' /\ Carried'
<1>1. /\ run'[c].step = s /\ run'[c].attempts = run[c].attempts
      /\ \A d \in Consumers : d # c => run'[d] = run[d]
  BY Moved DEF OrphanInv
<1>2. Owes(c)
  BY DEF Owes, Working
<1>3. QED
  BY <1>1, <1>2, OnwardStep

LEMMA ChunkDoneStep ==
    ASSUME OrphanInv, IInv', NEW c \in Consumers, advanceJob(c)
    PROVE  SpoiltByFault' /\ Carried'
<1>1. /\ UNCHANGED <<feedLock, queue, request>> /\ run[c].step = "advance" /\ IInv
      /\ job \in Job /\ Free \in Lock /\ Free.holder = Nobody
  BY LockFacts DEF advanceJob, At, OrphanInv
<1>2. CASE ~Holds(c) /\ Go(c, "release") /\ UNCHANGED <<job, faults>>
  BY <1>1, <1>2, OvertakenStep
<1>3. job' = Advanced(c) => job'.lock = Free /\ job'.status = Advanced(c).status
  BY <1>1 DEF Advanced, Job
<1>4. job'.lock = Free => ~Held'
  BY <1>1 DEF Held
<1>5. Holds(c) => job.status \in Active
  BY <1>1, LockFacts DEF IInv, JobOK, Active, Holds
<1>6. CASE Holds(c) /\ (job' = Advanced(c) \/ UNCHANGED job) /\ Go(c, "release") /\ Fault
  <2>1. job'.lock = job.lock \/ (Holds(c) /\ ~Held')
    BY <1>3, <1>4, <1>6
  <2>2. QED
    BY <1>1, <1>5, <1>6, <2>1, ErrorHere
<1>7. CASE /\ Holds(c) /\ job' = Advanced(c) /\ NoFault
           /\ Go(c, IF Advanced(c).status = "completed" THEN "sweep" ELSE "publish")
  <2>1. CASE Advanced(c).status = "completed"
    <3>1. ~Spoilt' /\ job'.status \notin Active
      BY <1>3, <1>4, <1>7, <2>1 DEF Spoilt, Active
    <3>2. QED
      BY <3>1 DEF SpoiltByFault, Carried
  <2>2. CASE Advanced(c).status # "completed"
    <3>1. /\ run'[c].step = "publish" /\ run'[c].attempts = run[c].attempts
          /\ \A d \in Consumers : d # c => run'[d] = run[d]
      BY <1>1, <1>7, <2>2, Moved
    <3>2. Working(c)
      BY <1>1 DEF Working
    <3>3. QED
      BY <1>1, <1>3, <1>5, <1>7, <3>1, <3>2, FreeingStep DEF NoFault
  <2>3. QED
    BY <2>1, <2>2
<1>8. QED
  BY <1>2, <1>6, <1>7 DEF advanceJob, Call

LEMMA CompletionStep ==
    ASSUME OrphanInv, IInv', NEW c \in Consumers, finalizeJob(c)
    PROVE  SpoiltByFault' /\ Carried'
<1>1. /\ UNCHANGED <<feedLock, queue, request>> /\ run[c].step = "complete" /\ IInv
      /\ job \in Job /\ Free \in Lock /\ Free.holder = Nobody
  BY LockFacts DEF finalizeJob, At, OrphanInv
<1> DEFINE done == [job EXCEPT !.status = "completed", !.failures = 0, !.lock = Free]
<1>2. CASE ~Holds(c) /\ Go(c, "release") /\ UNCHANGED <<job, faults>>
  BY <1>1, <1>2, OvertakenStep
<1>3. job' = done => ~Held' /\ ~Spoilt' /\ job'.status \notin Active
  BY <1>1 DEF Held, Spoilt, Job, Active
<1>4. CASE Holds(c) /\ (job' = done \/ UNCHANGED job) /\ Go(c, "release") /\ Fault
  <2>1. job'.lock = job.lock \/ (Holds(c) /\ ~Held')
    BY <1>3, <1>4
  <2>2. job'.status \in Active => job.status \in Active
    BY <1>3, <1>4
  <2>3. QED
    BY <1>1, <1>4, <2>1, <2>2, ErrorHere
<1>5. CASE job' = done
  BY <1>3, <1>5 DEF SpoiltByFault, Carried
<1>6. QED
  BY <1>2, <1>4, <1>5 DEF finalizeJob, Call

LEMMA PutOffStep ==
    ASSUME OrphanInv, IInv', NEW c \in Consumers, releaseBusyFinalization(c)
    PROVE  SpoiltByFault' /\ Carried'
<1>1. /\ UNCHANGED <<feedLock, queue, request>> /\ run[c].step = "defer" /\ IInv
      /\ job \in Job /\ Free \in Lock /\ Free.holder = Nobody
  BY LockFacts DEF releaseBusyFinalization, At, OrphanInv
<1>2. CASE ~Holds(c) /\ Go(c, "judge") /\ UNCHANGED <<job, faults>>
  BY <1>1, <1>2, OvertakenStep
<1>3. job' = [job EXCEPT !.lock = Free] => job'.lock = Free /\ ~Held' /\ job'.status = job.status
  BY <1>1 DEF Held, Job
<1>4. CASE /\ Holds(c) /\ (job' = [job EXCEPT !.lock = Free] \/ UNCHANGED job)
           /\ Go(c, "judge") /\ Fault
  <2>1. job'.lock = job.lock \/ (Holds(c) /\ ~Held')
    BY <1>3, <1>4
  <2>2. QED
    BY <1>1, <1>3, <1>4, <2>1, ErrorHere
<1>5. CASE Holds(c) /\ job' = [job EXCEPT !.lock = Free] /\ Go(c, "publish") /\ NoFault
  <2>1. /\ run'[c].step = "publish" /\ run'[c].attempts = run[c].attempts
        /\ \A d \in Consumers : d # c => run'[d] = run[d]
    BY <1>1, <1>5, Moved
  <2>2. Working(c)
    BY <1>1 DEF Working
  <2>3. QED
    BY <1>1, <1>3, <1>5, <2>1, <2>2, FreeingStep DEF NoFault
<1>6. QED
  BY <1>2, <1>4, <1>5 DEF releaseBusyFinalization, Call

LEMMA GivenBackStep ==
    ASSUME OrphanInv, IInv', NEW c \in Consumers, releaseForRetry(c)
    PROVE  SpoiltByFault' /\ Carried'
<1>1. /\ UNCHANGED <<feedLock, queue, request>> /\ run[c].step = "release" /\ IInv
      /\ job \in Job /\ Free \in Lock /\ Free.holder = Nobody /\ run \in [Consumers -> Run]
  BY LockFacts DEF releaseForRetry, At, OrphanInv, IInv, TypeOK
<1>2. CASE ~Holds(c) /\ Go(c, "judge") /\ UNCHANGED <<job, faults>>
  BY <1>1, <1>2, OvertakenStep
<1>3. job' = Released => job'.lock = Free /\ ~Held' /\ job'.status = Released.status
  BY <1>1 DEF Held, Job, Released
<1>4. Holds(c) => job.status \in Active
  BY <1>1, LockFacts DEF IInv, JobOK, Active, Holds
<1>5. CASE Holds(c) /\ (job' = Released \/ UNCHANGED job) /\ Go(c, "judge") /\ Fault
  <2>1. job'.lock = job.lock \/ (Holds(c) /\ ~Held')
    BY <1>3, <1>5
  <2>2. QED
    BY <1>1, <1>4, <1>5, <2>1, ErrorHere
<1>6. CASE /\ Holds(c) /\ job' = Released /\ NoFault
           /\ run' = [run EXCEPT ![c].done = "failed",
                          ![c].step = IF Released.status = "failed" THEN "sweep" ELSE "judge"]
  <2>1. CASE Released.status = "failed"
    <3>1. ~Spoilt' /\ job'.status \notin Active
      BY <1>3, <1>6, <2>1 DEF Spoilt, Active
    <3>2. QED
      BY <3>1 DEF SpoiltByFault, Carried
  <2>2. CASE Released.status # "failed"
    <3>1. /\ run'[c].step = "judge" /\ run'[c].attempts = run[c].attempts
          /\ \A d \in Consumers : d # c => run'[d] = run[d]
      BY <1>1, <1>6, <2>2 DEF Run
    <3>2. Working(c)
      BY <1>1 DEF Working
    <3>3. QED
      BY <1>1, <1>3, <1>4, <1>6, <3>1, <3>2, FreeingStep DEF NoFault
  <2>3. QED
    BY <2>1, <2>2
<1>7. QED
  BY <1>2, <1>5, <1>6 DEF releaseForRetry, Call

\* Only the chunks of a settled job are swept away, and nobody holds its lock.
LEMMA SweptStep ==
    ASSUME OrphanInv, IInv', NEW c \in Consumers, Sweep(c)
    PROVE  SpoiltByFault' /\ Carried'
<1>1. job' = job /\ run[c].step = "sweep" /\ IInv
  BY DEF Sweep, At, OrphanInv
<1>2. job.status \in Settled
  BY <1>1 DEF IInv, RunOK
<1>3. job.lock.holder = Nobody /\ job.status \notin Active
  BY <1>1, <1>2 DEF IInv, JobOK, Settled, Active
<1>4. ~Spoilt' /\ job'.status \notin Active
  BY <1>1, <1>3 DEF Spoilt, Held
<1>5. QED
  BY <1>4 DEF SpoiltByFault, Carried

\* The steps under the lock of the playback feed.
LEMMA FeedTurn ==
    ASSUME OrphanInv, IInv', NEW c \in Consumers, Finalize(c)
    PROVE  SpoiltByFault' /\ Carried'
<1>1. IInv /\ c # Collector /\ c # Nobody /\ (Phase(c) = run[c].step)
  BY LockFacts DEF OrphanInv, Phase
<1>2. UNCHANGED <<job, queue, request>>
  BY DEF Finalize, acquirePlaybackFeedFinalization, syncCompactedFeedInDatabase,
         commitPlaybackFeedFinalization, abandonPlaybackFeedFinalization, OutsideFeed
<1>3. ASSUME NEW s, NEW over, Then(c, s, over) PROVE Go(c, s)
  BY <1>1, <1>3 DEF Then
<1>4. ASSUME NEW s \in {"release", "abandon"}, Go(c, s), Fault,
             run[c].step \in {"feed", "sync", "commit", "abandon"},
             feedLock' = feedLock \/ feedLock.holder = c \/ Open(feedLock)
      PROVE  SpoiltByFault' /\ Carried'
  BY <1>1, <1>2, <1>4, ErrorHere
<1>5. ASSUME NEW s \in {"sync", "defer", "commit", "complete", "abandon", "release"}, Go(c, s),
             faults' = faults,
             run[c].step \in {"feed", "sync", "commit", "abandon"},
             feedLock' = feedLock \/ feedLock.holder = c \/ Open(feedLock),
             Astray(c)' => Astray(c)
      PROVE  SpoiltByFault' /\ Carried'
  <2>1. /\ run'[c].step = s /\ run'[c].attempts = run[c].attempts
        /\ \A d \in Consumers : d # c => run'[d] = run[d]
    BY <1>1, <1>5, Moved
  <2>2. Working(c) /\ Working(c)'
    BY <1>5, <2>1 DEF Working
  <2>3. Owes(c)' => Owes(c)
    BY <1>2, <1>5, <2>1, <2>2 DEF Owes, At, Held, Holds
  <2>4. QED
    BY <1>2, <1>5, <2>1, <2>2, <2>3, OnwardStep
<1>6. CASE acquirePlaybackFeedFinalization(c)
  <2>1. run[c].step = "feed"
    BY <1>1, <1>6 DEF acquirePlaybackFeedFinalization
  <2>2. CASE Open(feedLock) /\ feedLock' = HeldBy(c) /\ Then(c, "sync", "over") /\ NoFault
    <3>1. Go(c, "sync") /\ run'[c].step = "sync"
      BY <1>1, <1>3, <2>2, Moved
    <3>2. ~Astray(c)'
      BY <2>2, <3>1 DEF Astray, At, HeldBy
    <3>3. QED
      BY <1>5, <2>1, <2>2, <3>1, <3>2 DEF NoFault
  <2>3. CASE /\ Open(feedLock) /\ (feedLock' = HeldBy(c) \/ UNCHANGED feedLock)
             /\ Then(c, "release", "over") /\ Fault
    BY <1>3, <1>4, <2>1, <2>3
  <2>4. CASE ~Open(feedLock) /\ Then(c, "defer", "over") /\ UNCHANGED <<feedLock, faults>>
    <3>1. Go(c, "defer") /\ run'[c].step = "defer"
      BY <1>1, <1>3, <2>4, Moved
    <3>2. ~Astray(c)'
      BY <3>1 DEF Astray, At
    <3>3. QED
      BY <1>5, <2>1, <2>4, <3>1, <3>2
  <2>5. QED
    BY <1>6, <2>2, <2>3, <2>4 DEF acquirePlaybackFeedFinalization, Call
<1>7. CASE syncCompactedFeedInDatabase(c)
  <2>1. run[c].step = "sync" /\ UNCHANGED feedLock
    BY <1>1, <1>7 DEF syncCompactedFeedInDatabase
  <2>2. CASE Then(c, "commit", "over") /\ NoFault
    <3>1. Go(c, "commit") /\ run'[c].step = "commit"
      BY <1>1, <1>3, <2>2, Moved
    <3>2. Astray(c)' => Astray(c)
      BY <2>1, <3>1 DEF Astray, At
    <3>3. QED
      BY <1>5, <2>1, <2>2, <3>1, <3>2 DEF NoFault
  <2>3. CASE Then(c, "abandon", "over") /\ Fault
    BY <1>3, <1>4, <2>1, <2>3
  <2>4. QED
    BY <1>7, <2>2, <2>3 DEF syncCompactedFeedInDatabase, Call
<1>8. CASE commitPlaybackFeedFinalization(c)
  <2>1. run[c].step = "commit"
    BY <1>1, <1>8 DEF commitPlaybackFeedFinalization
  <2>2. CASE feedLock.holder = c /\ Then(c, "complete", "over") /\ NoFault
    <3>1. Go(c, "complete") /\ run'[c].step = "complete"
      BY <1>1, <1>3, <2>2, Moved
    <3>2. ~Astray(c)'
      BY <3>1 DEF Astray, At
    <3>3. QED
      BY <1>5, <2>1, <2>2, <3>1, <3>2 DEF NoFault
  <2>3. CASE feedLock.holder = c /\ Then(c, "abandon", "over") /\ Fault
    BY <1>3, <1>4, <2>1, <2>3
  <2>4. CASE feedLock.holder # c /\ Then(c, "abandon", "over") /\ UNCHANGED <<feedLock, faults>>
    <3>1. Astray(c) /\ Go(c, "abandon")
      BY <1>3, <2>1, <2>4 DEF Astray, At
    <3>2. QED
      BY <1>5, <2>1, <2>4, <3>1
  <2>5. QED
    BY <1>8, <2>2, <2>3, <2>4 DEF commitPlaybackFeedFinalization, Call
<1>9. CASE abandonPlaybackFeedFinalization(c)
  <2>1. run[c].step = "abandon" /\ Astray(c)
    BY <1>1, <1>9 DEF abandonPlaybackFeedFinalization, Astray, At
  <2>2. feedLock' = feedLock \/ feedLock.holder = c
    BY <1>9 DEF abandonPlaybackFeedFinalization, Call
  <2>3. Go(c, "release") /\ (Fault \/ NoFault)
    BY <1>3, <1>9 DEF abandonPlaybackFeedFinalization, Call
  <2>4. QED
    BY <1>4, <1>5, <2>1, <2>2, <2>3 DEF NoFault
<1>10. QED
  BY <1>6, <1>7, <1>8, <1>9 DEF Finalize

-----------------------------------------------------------------------------
(* Steps in which no delivery moves. *)

\* They cost a thread no more than the fault that comes with them allows for.
LEMMA StillStep ==
    ASSUME OrphanInv, IInv', run' = run, request' # "accepted" \/ request = "accepted",
           job'.status \in Active => job.status \in Active \/ request' # "accepted",
           BagToSet(queue) \subseteq BagToSet(queue'),
           \/ /\ job'.lock = job.lock
              /\ \/ faults' = faults + 1
                 \/ faults' = faults /\ \A d \in Consumers : Astray(d)' => Astray(d)
           \/ /\ ~Held' /\ feedLock' = feedLock
              /\ faults' = faults + 1 \/ (faults' = faults /\ (Held => ~Working(job.lock.holder)))
    PROVE  SpoiltByFault' /\ Carried'
<1>1. IInv /\ Nobody \notin Consumers
  BY LockFacts DEF OrphanInv
<1>2. \A x : Ahead(x) \in Nat /\ Ahead(x)' = Ahead(x)
  BY PublishersFinite DEF Ahead, Publishing, At
<1>3. faults \in Nat /\ faults' \in Nat
  BY <1>1, BudgetTyped
<1>4. /\ \A d \in Consumers : (Working(d)' <=> Working(d)) /\ run'[d] = run[d]
      /\ job.lock.holder \in Consumers \cup {Nobody}
  BY <1>1, LockFacts DEF Working
<1>5. ASSUME job'.lock = job.lock, \A d \in Consumers : Astray(d)' => Astray(d)
      PROVE  Spoilt' => Spoilt
  BY <1>4, <1>5 DEF Spoilt, Held, Working
<1>6. SpoiltByFault'
  BY <1>3, <1>5 DEF SpoiltByFault, OrphanInv, Spoilt
<1>7. ASSUME NEW x \in Consumers \cup {Nobody}, NEW b \in BOOLEAN, NEW b2 \in BOOLEAN,
             NEW n \in {0, 1}, NEW n2 \in {0, 1},
             job'.lock = job.lock /\ b => b2,
             n2 =< n \/ (faults' = faults + 1 /\ Held /\ Holds(x) /\ Working(x))
      PROVE  Budget(x) + Num(Held /\ b) - n =< Budget(x)' + Num(Held' /\ b2) - n2
  <2> DEFINE own  == Holds(x) /\ Working(x)
             own2 == Holds(x)' /\ Working(x)'
  <2>1. Budget(x) = 2 * faults + Ahead(x) - Num(Spoilt /\ ~own)
    BY DEF Budget
  <2>2. Budget(x)' = 2 * faults' + Ahead(x) - Num(Spoilt' /\ ~own2)
    BY <1>2 DEF Budget, Num
  <2>3. job'.lock = job.lock => (Held' <=> Held) /\ (Spoilt /\ Spoilt' => (own2 <=> own))
    BY <1>1, <1>4 DEF Held, Holds, Spoilt
  <2>4. Holds(x) /\ Working(x) => own
    OBVIOUS
  <2>5. (Spoilt => Held) /\ (Spoilt' => Held')
    BY DEF Spoilt
  <2>6. Held /\ ~Working(job.lock.holder) => Spoilt /\ ~own
    BY DEF Spoilt, Holds
  <2>7. job'.lock = job.lock /\ own => own2
    BY <1>1, <1>4, <2>3 DEF Holds, Working
  <2>8. Ahead(x) \in Nat
    BY <1>2
  <2> HIDE DEF own, own2
  <2>9. CASE job'.lock = job.lock /\ faults' = faults + 1
    <3>1. Num(Held /\ b) =< Num(Held' /\ b2)
      BY <1>7, <2>3, <2>9 DEF Num
    <3>2. n2 =< n \/ Num(Spoilt' /\ ~own2) = 0
      BY <1>7, <2>4, <2>7, <2>9 DEF Num
    <3>3. QED
      BY <1>3, <1>7, <2>1, <2>2, <2>8, <2>9, <3>1, <3>2 DEF Num
  <2>10. CASE /\ job'.lock = job.lock /\ faults' = faults
              /\ \A d \in Consumers : Astray(d)' => Astray(d)
    <3>1. Num(Held /\ b) =< Num(Held' /\ b2)
      BY <1>7, <2>3, <2>10 DEF Num
    <3>2. Num(Spoilt' /\ ~own2) =< Num(Spoilt /\ ~own)
      BY <1>5, <2>3, <2>10 DEF Num
    <3>3. n2 =< n
      BY <1>3, <1>7, <2>10
    <3>4. Num(Spoilt' /\ ~own2) \in {0, 1} /\ Num(Spoilt /\ ~own) \in {0, 1}
          /\ Num(Held /\ b) \in {0, 1} /\ Num(Held' /\ b2) \in {0, 1}
      BY DEF Num
    <3>5. QED
      BY <1>3, <2>1, <2>2, <2>8, <2>10, <3>1, <3>2, <3>3, <3>4
  <2>11. CASE ~Held' /\ faults' = faults + 1
    BY <1>3, <1>7, <2>1, <2>2, <2>5, <2>8, <2>11 DEF Num
  <2>12. CASE ~Held' /\ faults' = faults /\ (Held => ~Working(job.lock.holder))
    <3>1. Num(Held /\ b) =< Num(Spoilt /\ ~own) /\ Num(Spoilt' /\ ~own2) = 0
      BY <2>5, <2>6, <2>12 DEF Num
    <3>2. n2 =< n
      BY <1>3, <1>7, <2>12
    <3>3. Num(Spoilt /\ ~own) \in {0, 1} /\ Num(Held /\ b) \in {0, 1} /\ Num(Held' /\ b2) \in {0, 1}
      BY DEF Num
    <3>4. QED
      BY <1>3, <2>1, <2>2, <2>8, <2>12, <3>1, <3>2, <3>3
  <2>13. QED
    BY <2>9, <2>10, <2>11, <2>12
<1>8. ASSUME NEW m \in Message, MessageFine(m) PROVE MessageFine(m)'
  <2> DEFINE b == Holds(m.behind)
             b2 == Holds(m.behind)'
  <2>1. b \in BOOLEAN /\ b2 \in BOOLEAN /\ (job'.lock = job.lock /\ b => b2)
    BY DEF Holds
  <2>2. m.attempts =< Budget(Nobody) + Num(Held /\ b)
    BY <1>8 DEF MessageFine
  <2>3. MessageFine(m)' <=> m.attempts =< Budget(Nobody)' + Num(Held' /\ b2)
    BY DEF MessageFine, Num
  <2> HIDE DEF b, b2
  <2> DEFINE zero == 0
  <2>4. zero \in {0, 1} /\ zero =< zero /\ zero = 0
    OBVIOUS
  <2> HIDE DEF zero
  <2>5. Budget(Nobody) + Num(Held /\ b) - zero =< Budget(Nobody)' + Num(Held' /\ b2) - zero
    BY <1>7, <2>1, <2>4
  <2>6. m.attempts \in Int /\ Num(Held /\ b) \in Int /\ Num(Held' /\ b2) \in Int
    BY DEF Num, Message
  <2>7. QED
    BY <1>1, <2>2, <2>3, <2>4, <2>5, <2>6, BudgetTyped
<1>9. ASSUME NEW d \in Consumers, DeliveryFine(d) PROVE DeliveryFine(d)'
  <2> DEFINE b == At(d, "look")
             n == Num(Owes(d))
             n2 == Num(Owes(d)')
  <2>1. b \in BOOLEAN /\ (At(d, "look")' <=> b)
    BY <1>4 DEF At
  <2>2. Owes(d)' => Owes(d) \/ (faults' = faults + 1 /\ Held /\ Holds(d) /\ Working(d))
    <3>1. CASE job'.lock = job.lock
      BY <1>4, <3>1, <1>3 DEF Owes, At, Held, Holds, Astray, Working
    <3>2. CASE ~Held' /\ feedLock' = feedLock
      <4>1. Astray(d)' => Astray(d)
        BY <1>4, <3>2 DEF Astray, At
      <4>2. QED
        BY <1>4, <3>2, <4>1 DEF Owes, At, Held, Holds, Working
    <3>3. QED
      BY <3>1, <3>2
  <2>3. n \in {0, 1} /\ n2 \in {0, 1}
        /\ (n2 =< n \/ (faults' = faults + 1 /\ Held /\ Holds(d) /\ Working(d)))
    BY <2>2 DEF Num
  <2>4. run[d].step # "idle" /\ run[d].attempts + n =< Budget(d) + Num(Held /\ b)
    BY <1>9 DEF DeliveryFine, At
  <2>5. DeliveryFine(d)' <=> /\ run[d].step # "idle"
                             /\ run[d].attempts + n2 =< Budget(d)' + Num(Held' /\ b)
    BY <1>4, <2>1 DEF DeliveryFine, Num, At
  <2> HIDE DEF b, n, n2
  <2>6. Budget(d) + Num(Held /\ b) - n =< Budget(d)' + Num(Held' /\ b) - n2
    BY <1>7, <2>1, <2>3
  <2>7. run[d].attempts \in Int /\ Num(Held /\ b) \in Int /\ Num(Held' /\ b) \in Int
    BY <1>1 DEF IInv, TypeOK, Run, Num
  <2>8. QED
    BY <1>1, <2>3, <2>4, <2>5, <2>6, <2>7, BudgetTyped
<1>10. ASSUME request' = "accepted", job'.status \in Active PROVE GoesOn'
  <2>1. GoesOn
    BY <1>10 DEF OrphanInv, Carried
  <2>2. ASSUME NEW m \in BagToSet(queue), MessageFine(m) PROVE GoesOn'
    <3>1. m \in Message /\ m \in BagToSet(queue')
      BY <1>1 DEF IInv, TypeOK
    <3>2. QED
      BY <1>8, <2>2, <3>1 DEF GoesOn
  <2>3. ASSUME NEW d \in Consumers, DeliveryFine(d) PROVE GoesOn'
    <3>1. DeliveryFine(d)'
      BY <1>9, <2>3
    <3>2. QED
      BY <3>1 DEF GoesOn
  <2>4. QED
    BY <2>1, <2>2, <2>3 DEF GoesOn
<1>11. QED
  BY <1>6, <1>10 DEF Carried

\* The request's own message is one that has not come back yet.
LEMMA FirstSent == ASSUME OrphanInv, IInv', SendFirst PROVE SpoiltByFault' /\ Carried'
<1>1. UNCHANGED <<job, feedLock, run>> /\ IInv /\ request # "accepted"
  BY DEF SendFirst, OrphanInv
<1>2. \A d \in Consumers : Astray(d)' => Astray(d)
  BY <1>1 DEF Astray, At
<1>3. CASE Send(Fresh) /\ request' = "accepted" /\ NoFault
  <2>1. Spoilt' => Spoilt
    BY <1>1 DEF Spoilt, Held, Working, Astray, At
  <2>2. SpoiltByFault'
    BY <1>3, <2>1 DEF OrphanInv, SpoiltByFault, NoFault
  <2>3. Fresh \in BagToSet(queue')
    BY <1>3, SentOff
  <2>4. PICK m : m = Fresh
    OBVIOUS
  <2>5. MessageFine(m)' <=> MessageFine(Fresh)'
    BY <2>4 DEF MessageFine, Num, Holds, Fresh
  <2>6. GoesOn'
    BY <1>1, <2>2, <2>3, <2>4, <2>5, FreshFine DEF GoesOn
  <2>7. QED
    BY <2>2, <2>6 DEF Carried
<1>4. CASE (Send(Fresh) \/ UNCHANGED queue) /\ request' = "withdraw" /\ Fault
  <2>1. BagToSet(queue) \subseteq BagToSet(queue')
    BY <1>4, SentOff
  <2>2. QED
    BY <1>1, <1>4, <2>1, StillStep DEF Fault
<1>5. QED
  BY <1>3, <1>4 DEF SendFirst

LEMMA RequestStep ==
    ASSUME OrphanInv, IInv',
           enqueueManualImportJob \/ failManualImportJob \/ RequestEnds \/ Recover
    PROVE  SpoiltByFault' /\ Carried'
<1>1. UNCHANGED <<feedLock, run>> /\ IInv
  BY DEF enqueueManualImportJob, failManualImportJob, RequestEnds, Recover, OrphanInv
<1>2. \A d \in Consumers : Astray(d)' => Astray(d)
  BY <1>1 DEF Astray, At
<1>3. CASE job'.lock = job.lock
  <2>1. request' # "accepted" \/ (request = "accepted" /\ job' = job)
    BY <1>3 DEF enqueueManualImportJob, failManualImportJob, RequestEnds, Recover
  <2>2. BagToSet(queue) \subseteq BagToSet(queue')
    BY SentOff DEF enqueueManualImportJob, failManualImportJob, RequestEnds, Recover
  <2>3. faults' = faults + 1 \/ faults' = faults
    BY DEF enqueueManualImportJob, failManualImportJob, RequestEnds, Recover, Fault, NoFault
  <2>4. QED
    BY <1>1, <1>2, <1>3, <2>1, <2>2, <2>3, StillStep
<1>4. CASE job'.lock # job.lock
  <2>1. job \in Job
    BY <1>1 DEF IInv, TypeOK
  <2>2. request' = "refused" /\ job'.lock = Free
    BY <1>4, <2>1 DEF enqueueManualImportJob, failManualImportJob, RequestEnds, Recover, Job
  <2>3. ~Spoilt'
    BY <1>1, <2>2, LockFacts DEF Spoilt, Held
  <2>4. QED
    BY <2>2, <2>3 DEF SpoiltByFault, Carried
<1>5. QED
  BY <1>3, <1>4

LEMMA TimeoutStep == ASSUME OrphanInv, IInv', LockExpires PROVE SpoiltByFault' /\ Carried'
<1>1. /\ job' = [job EXCEPT !.lock.expired = TRUE] /\ IInv /\ job \in Job /\ job.lock \in Lock
      /\ UNCHANGED <<feedLock, queue, run, request>>
      /\ IF Working(job.lock.holder) THEN Fault ELSE NoFault
  BY LockFacts DEF LockExpires, OrphanInv
<1>2. job'.lock.expired /\ job'.status = job.status
  BY <1>1 DEF Job, Lock
<1>3. ~Held'
  BY <1>2 DEF Held
<1>4. faults' = faults + 1 \/ (faults' = faults /\ ~Working(job.lock.holder))
  BY <1>1 DEF Fault, NoFault
<1>5. QED
  BY <1>1, <1>2, <1>3, <1>4, StillStep

\* The collection, and the time limit of its lock.
LEMMA CollectionStep ==
    ASSUME OrphanInv, IInv',
           FeedLockExpires \/ Collect \/ CollectionEnds \/ Finalize(Collector)
    PROVE  SpoiltByFault' /\ Carried'
<1>1. UNCHANGED <<job, queue, run, request>> /\ IInv /\ Collector \notin Consumers /\ Nobody \notin Consumers
  BY LockFacts DEF FeedLockExpires, Collect, CollectionEnds, Finalize, acquirePlaybackFeedFinalization,
         syncCompactedFeedInDatabase, commitPlaybackFeedFinalization,
         abandonPlaybackFeedFinalization, OutsideFeed, OrphanInv, Then, Call
<1>2. faults' = faults + 1 \/ (faults' = faults /\ \A d \in Consumers : Astray(d)' => Astray(d))
  <2>1. CASE FeedLockExpires
    <3>1. CASE faults' = faults /\ Phase(feedLock.holder) \notin {"sync", "commit", "abandon"}
      <4>1. ASSUME NEW d \in Consumers, Astray(d)' PROVE Astray(d)
        <5>1. feedLock.holder = d => run[d].step \notin {"sync", "commit"}
          BY <1>1, <3>1 DEF Phase
        <5>2. QED
          BY <1>1, <2>1, <4>1, <5>1 DEF Astray, At
      <4>2. QED
        BY <3>1, <4>1
    <3>2. QED
      BY <2>1, <3>1 DEF FeedLockExpires, Fault, NoFault
  <2>2. CASE Collect \/ CollectionEnds
    BY <1>1, <2>2 DEF Collect, CollectionEnds, Fault, Astray, At
  <2>3. CASE Finalize(Collector)
    <3>1. feedLock' = feedLock \/ feedLock.holder = Collector \/ Open(feedLock)
      BY <2>3 DEF Finalize, acquirePlaybackFeedFinalization, syncCompactedFeedInDatabase,
             commitPlaybackFeedFinalization, abandonPlaybackFeedFinalization, Call
    <3>2. faults' = faults + 1 \/ faults' = faults
      BY <2>3 DEF Finalize, acquirePlaybackFeedFinalization, syncCompactedFeedInDatabase,
             commitPlaybackFeedFinalization, abandonPlaybackFeedFinalization, Call, Fault, NoFault
    <3>3. \A d \in Consumers : Astray(d)' => Astray(d)
      BY <1>1, <3>1 DEF Astray, At, Open
    <3>4. QED
      BY <3>2, <3>3
  <2>4. QED
    BY <2>1, <2>2, <2>3
<1>3. QED
  BY <1>1, <1>2, StillStep

LEMMA OrphanStep ==
    ASSUME EnoughRetries, OrphanInv, [Next]_vars
    PROVE  OrphanInv'
<1>1. IInv'
  BY InvariantStep DEF OrphanInv
<1>2. CASE Request \/ RequestEnds \/ Recover
  BY <1>1, <1>2, FirstSent, RequestStep DEF Request, OrphanInv
<1>3. ASSUME NEW c \in Consumers, Deliveries(c) \/ Killed(c) PROVE OrphanInv'
  BY <1>1, <1>3, TakenStep, TakeLockStep, LookStep, SavingStep, ChunkDoneStep, CompletionStep,
     PutOffStep, GivenBackStep, SweptStep, PublishStep, FeedTurn, KilledStep
     DEF Deliveries, OrphanInv
<1>4. CASE LockExpires
  BY <1>1, <1>4, TimeoutStep DEF OrphanInv
<1>5. CASE Finalize(Collector) \/ FeedLockExpires \/ Collect \/ CollectionEnds
  BY <1>1, <1>5, CollectionStep DEF OrphanInv
<1>6. CASE UNCHANGED vars
  <2>1. UNCHANGED <<job, feedLock, queue, run, request, faults>>
    BY <1>6 DEF vars
  <2>2. \A d \in Consumers : Astray(d)' => Astray(d)
    BY <2>1 DEF Astray, At
  <2>3. QED
    BY <1>1, <2>1, <2>2, StillStep DEF OrphanInv
<1>7. QED
  BY <1>2, <1>3, <1>4, <1>5, <1>6 DEF Next

\* As long as the retries are two for each fault and one for each other delivery at work
\* at the time, an active job that was accepted has a message that will go on with it, or
\* a delivery that will send one.  With one delivery at a time one retry less is too few.
THEOREM NoJobIsOrphaned == ASSUME EnoughRetries PROVE Spec => []NeverOrphaned
<1>1. Init => OrphanInv
  <2>1. Init => IInv
    BY InitialState
  <2>2. Init => ~Spoilt /\ request # "accepted"
    BY DEF Init, Spoilt, Held, Free
  <2>3. QED
    BY <2>1, <2>2 DEF OrphanInv, SpoiltByFault, Carried
<1>2. OrphanInv /\ [Next]_vars => OrphanInv'
  BY OrphanStep
<1>3. OrphanInv => NeverOrphaned
  <2> SUFFICES ASSUME OrphanInv, request = "accepted", job.status \in Active
               PROVE  queue # EmptyBag \/ \E c \in Consumers : ~At(c, "idle")
    BY DEF NeverOrphaned
  <2>1. GoesOn
    BY DEF OrphanInv, Carried
  <2>2. BagToSet(EmptyBag) = {}
    BY DEF EmptyBag, SetToBag, BagToSet
  <2>3. QED
    BY <2>1, <2>2 DEF GoesOn, DeliveryFine
<1>4. QED
  BY <1>1, <1>2, <1>3, PTL DEF Spec

-----------------------------------------------------------------------------
(* StateSync: a version a file was accepted with is never above the current one, and is the
   current one only of the current content; versions grow with every change of content,
   the dashboard's because it is a sum. *)

LEMMA SyncConstants ==
    /\ SwitchBot \in Sources /\ IsFiniteSet(Sources)
    /\ "environment" \notin Sources /\ "dashboard" \notin Sources
    /\ SwitchBot # "environment" /\ SwitchBot # "dashboard"
    /\ Sync!Documents = {"dashboard", SwitchBot}
<1>1. Sync!IsFiniteSet(Sources) <=> IsFiniteSet(Sources)
  BY DEF Sync!IsFiniteSet, IsFiniteSet
<1>2. QED
  BY <1>1, ArrivingAssumption DEF Sync!SyncAssumption, Sync!Documents

LEMMA SyncSum == \A versions : Sync!SumOf(versions) = SumOver(versions, Sources)
BY DEF Sync!SumOf, Sync!MapThenSumSet, Sync!MapThenFoldSet, SumOver, Sums, Summand, Others

\* One version more is one more in the sum.
LEMMA SumGrows ==
    ASSUME NEW st \in [Sources -> Nat], NEW s \in Sources,
           NEW next, next = [st EXCEPT ![s] = @ + 1]
    PROVE  Sync!SumOf(st) \in Nat /\ Sync!SumOf(next) = Sync!SumOf(st) + 1
<1> DEFINE R == Sources \ {s}
           T == Nat
<1>1. IsFiniteSet(Sources) /\ IsFiniteSet(R)
  BY SyncConstants, FS_Subset
<1>2. /\ next \in [Sources -> Nat] /\ next[s] = st[s] + 1 /\ \A x \in R : next[x] = st[x]
      /\ \A x \in Sources : st[x] \in Int /\ next[x] \in Int
  OBVIOUS
<1>3. T \in {Nat, Int} /\ \A x \in R : st[x] \in T
  OBVIOUS
<1> HIDE DEF R, T
<1>4. SumOver(st, R) \in T
  BY <1>1, <1>3, SumTyped
<1>5. SumOver(next, R) = SumOver(st, R)
  BY <1>1, <1>2, SumSame
<1>6. SumOver(st, Sources) = st[s] + SumOver(st, R)
  BY <1>1, <1>2, SumSplit DEF R
<1>7. SumOver(next, Sources) = next[s] + SumOver(next, R)
  BY <1>1, <1>2, SumSplit DEF R
<1>8. QED
  BY <1>2, <1>4, <1>5, <1>6, <1>7, SyncSum DEF T

\* The sum of what is natural numbers.
LEMMA SumIsNat == \A st \in [Sources -> Nat] : Sync!SumOf(st) \in Nat
BY SumGrows, SyncConstants

-----------------------------------------------------------------------------
CurrentOf(doc, st, env) == Sync!VersionOf(doc, st, env)

\* The file f of a document, were it held with this version.
FileOK(f, doc, version, st, env) ==
    /\ version \in Int /\ version <= CurrentOf(doc, st, env)
    /\ version = CurrentOf(doc, st, env) => f.kind = "payload" /\ f.view = Sync!ViewOf(doc, st, env)

FilesOK(f, h, st, env) == \A doc \in Sync!Documents : FileOK(f[doc], doc, h[doc], st, env)

\* What a poll has read is not ahead.
RowsOK(p, st, env) ==
    /\ p = [step |-> p.step, asked |-> p.asked, hasRows |-> p.hasRows, rows |-> p.rows,
             hasEnv |-> p.hasEnv, env |-> p.env]
    /\ p.rows \in [Sources -> Nat] /\ p.env \in Nat /\ p.env <= env
    /\ p.hasRows =>
          Sync!SumOf(p.rows) <= Sync!SumOf(st) /\ \A s \in Sources : p.rows[s] <= st[s]

VersionsOK(p, st, env) ==
    /\ p.version \in [Sync!Documents -> Int] /\ p.env \in Nat
    /\ p.changed \subseteq Sync!Documents
    /\ p.version[SwitchBot] <= st[SwitchBot]
    /\ p.version["dashboard"] <= Sync!SumOf(st) + env
    /\ p.version["dashboard"] = Sync!SumOf(st) + env => p.env = env

Sent(p, doc) == [kind |-> "payload", view |-> p.view[doc], status |-> p.status[doc]]

\* What the panel writes is good for the version of the reply; the other document also
\* for the version that is held, should the poll fail.
ReplyOK(p, f, h, st, env) ==
    /\ p = [step |-> p.step, version |-> p.version, todo |-> p.todo, applied |-> p.applied,
             view |-> p.view, status |-> p.status]
    /\ p.version \in [Sync!Documents -> Int]
    /\ p.todo \subseteq Sync!Documents /\ p.applied \subseteq Sync!Documents
    /\ \A doc \in Sync!Documents :
          /\ FileOK(Sent(p, doc), doc, p.version[doc], st, env)
          /\ IF doc \in p.applied THEN f[doc] = Sent(p, doc) ELSE FileOK(f[doc], doc, h[doc], st, env)
    /\ FileOK(Sent(p, SwitchBot), SwitchBot, h[SwitchBot], st, env)

PollOK(p, f, h, st, env) ==
    \/ p.step = "idle" /\ FilesOK(f, h, st, env)
    \/ p.step = "reading" /\ RowsOK(p, st, env) /\ FilesOK(f, h, st, env)
    \/ p.step = "rows" /\ VersionsOK(p, st, env) /\ FilesOK(f, h, st, env)
    \/ p.step = "reply" /\ ReplyOK(p, f, h, st, env)
    \/ p.step \in {"patch", "error"} /\ FileOK(f[SwitchBot], SwitchBot, h[SwitchBot], st, env)

SyncInv ==
    /\ state \in [Sources -> Nat] /\ r2 \in Nat
    /\ cache \in [Isolates -> Int] /\ \A i \in Isolates : cache[i] >= -1 /\ cache[i] <= r2
    /\ file = [doc \in Sync!Documents |-> file[doc]]
    /\ held \in [Sync!Documents -> Int] /\ meta \in [Sync!Documents -> Int]
    /\ dirty \in BOOLEAN /\ (dirty = FALSE => meta = held) /\ unclean \in Nat
    /\ PollOK(poll, file, held, state, r2)

\* Without an environment row in D1 the version of an environment is its own.
LEMMA VersionIs ==
    ASSUME LegacyEnvironment = 0
    PROVE  /\ \A st, env : CurrentOf("dashboard", st, env) = Sync!SumOf(st) + env
           /\ \A st, env : CurrentOf(SwitchBot, st, env) = st[SwitchBot]
           /\ \A st, e1, e2 : Sync!ViewOf(SwitchBot, st, e1) = Sync!ViewOf(SwitchBot, st, e2)
<1>1. \A env : Sync!Environment(env) = env
  BY DEF Sync!Environment
<1>2. \A st, env : CurrentOf("dashboard", st, env) = Sync!SumOf(st) + env
  BY <1>1 DEF CurrentOf, Sync!VersionOf
<1>3. \A st, env : CurrentOf(SwitchBot, st, env) = st[SwitchBot]
  BY SyncConstants DEF CurrentOf, Sync!VersionOf
<1>4. \A st, e1, e2 : Sync!ViewOf(SwitchBot, st, e1) = Sync!ViewOf(SwitchBot, st, e2)
  BY SyncConstants DEF Sync!ViewOf, Sync!Parts
<1>5. QED
  BY <1>2, <1>3, <1>4

\* The state has changed, or rests, from (st, e) to (st2, e2).
Grown(st, e, st2, e2) ==
    /\ st2 \in [Sources -> Nat] /\ e2 \in Nat /\ e <= e2 /\ Sync!SumOf(st) <= Sync!SumOf(st2)
    /\ \A s \in Sources : st[s] <= st2[s]
    /\ \/ st2 = st /\ e2 = e
       \/ Sync!SumOf(st) + e < Sync!SumOf(st2) + e2

LEMMA GrownFile ==
    ASSUME LegacyEnvironment = 0, NEW st \in [Sources -> Nat], NEW e \in Nat, NEW st2, NEW e2,
           Grown(st, e, st2, e2),
           NEW f, NEW doc \in Sync!Documents, NEW version, FileOK(f, doc, version, st, e)
    PROVE  FileOK(f, doc, version, st2, e2)
<1>1. /\ Sync!SumOf(st) \in Nat /\ Sync!SumOf(st2) \in Nat /\ st2 \in [Sources -> Nat] /\ e2 \in Nat
      /\ version \in Int
  BY SumIsNat DEF Grown, FileOK
<1>2. CASE doc = "dashboard"
  <2>1. /\ CurrentOf(doc, st, e) = Sync!SumOf(st) + e /\ CurrentOf(doc, st2, e2) = Sync!SumOf(st2) + e2
    BY <1>2, VersionIs
  <2>2. CASE st2 = st /\ e2 = e
    BY <2>2
  <2>3. CASE Sync!SumOf(st) + e < Sync!SumOf(st2) + e2
    BY <1>1, <2>1, <2>3 DEF FileOK
  <2>4. QED
    BY <2>2, <2>3 DEF Grown
<1>3. CASE doc = SwitchBot
  <2>1. CurrentOf(doc, st, e) = st[SwitchBot] /\ CurrentOf(doc, st2, e2) = st2[SwitchBot]
    BY <1>3, VersionIs
  <2>2. st[SwitchBot] \in Nat /\ st2[SwitchBot] \in Nat /\ st[SwitchBot] <= st2[SwitchBot]
    BY <1>1, SyncConstants DEF Grown
  <2>3. st[SwitchBot] = st2[SwitchBot] => Sync!ViewOf(doc, st, e) = Sync!ViewOf(doc, st2, e2)
    BY <1>3, SyncConstants DEF Sync!ViewOf, Sync!Parts
  <2>4. QED
    BY <1>1, <2>1, <2>2, <2>3 DEF FileOK
<1>4. QED
  BY <1>2, <1>3, SyncConstants

\* Nothing that was read gets ahead by that.
LEMMA GrownPoll ==
    ASSUME LegacyEnvironment = 0, NEW st \in [Sources -> Nat], NEW e \in Nat, NEW st2, NEW e2,
           Grown(st, e, st2, e2), NEW p, NEW f, NEW h, PollOK(p, f, h, st, e)
    PROVE  PollOK(p, f, h, st2, e2)
<1>1. /\ Sync!SumOf(st) \in Nat /\ Sync!SumOf(st2) \in Nat /\ st2 \in [Sources -> Nat] /\ e2 \in Nat
      /\ SwitchBot \in Sources /\ SwitchBot \in Sync!Documents /\ "dashboard" \in Sync!Documents
  BY SumIsNat, SyncConstants DEF Grown
<1>2. FilesOK(f, h, st, e) => FilesOK(f, h, st2, e2)
  BY GrownFile DEF FilesOK
<1>3. RowsOK(p, st, e) => RowsOK(p, st2, e2)
  <2> SUFFICES ASSUME RowsOK(p, st, e) PROVE RowsOK(p, st2, e2)
    OBVIOUS
  <2>1. \A s \in Sources : p.rows[s] \in Nat /\ st[s] \in Nat /\ st2[s] \in Nat
    BY <1>1 DEF RowsOK
  <2>2. Sync!SumOf(p.rows) \in Nat
    BY SumIsNat DEF RowsOK
  <2>3. QED
    BY <1>1, <2>1, <2>2 DEF RowsOK, Grown
<1>4. VersionsOK(p, st, e) => VersionsOK(p, st2, e2)
  <2> SUFFICES ASSUME VersionsOK(p, st, e) PROVE VersionsOK(p, st2, e2)
    OBVIOUS
  <2>1. p.version[SwitchBot] \in Int /\ p.version["dashboard"] \in Int /\ st[SwitchBot] \in Nat
        /\ st2[SwitchBot] \in Nat
    BY <1>1 DEF VersionsOK
  <2>2. QED
    BY <1>1, <2>1 DEF VersionsOK, Grown
<1>5. ReplyOK(p, f, h, st, e) => ReplyOK(p, f, h, st2, e2)
  BY <1>1, GrownFile DEF ReplyOK
<1>6. FileOK(f[SwitchBot], SwitchBot, h[SwitchBot], st, e) => FileOK(f[SwitchBot], SwitchBot, h[SwitchBot], st2, e2)
  BY <1>1, GrownFile
<1>7. QED
  BY <1>2, <1>3, <1>4, <1>5, <1>6 DEF PollOK

LEMMA CurrentIsNat ==
    ASSUME LegacyEnvironment = 0, NEW st \in [Sources -> Nat], NEW e \in Nat, NEW doc \in Sync!Documents
    PROVE  CurrentOf(doc, st, e) \in Nat
<1>1. Sync!SumOf(st) \in Nat /\ st[SwitchBot] \in Nat
  BY SumIsNat, SyncConstants
<1>2. doc = "dashboard" \/ doc = SwitchBot
  BY SyncConstants
<1>3. QED
  BY <1>1, <1>2, VersionIs

\* What no version is held of.
LEMMA NothingHeld ==
    ASSUME LegacyEnvironment = 0, NEW st \in [Sources -> Nat], NEW e \in Nat, NEW doc \in Sync!Documents,
           NEW f, NEW version, version = -1
    PROVE  FileOK(f, doc, version, st, e)
<1>1. CurrentOf(doc, st, e) \in Nat
  BY CurrentIsNat
<1>2. QED
  BY <1>1 DEF FileOK

LEMMA SyncStart == ASSUME LegacyEnvironment = 0, Sync!Init PROVE SyncInv
<1> DEFINE T == Nat
           version == -1
<1>1. /\ state = [s \in Sources |-> 0] /\ r2 = 0 /\ cache = [i \in Isolates |-> -1]
      /\ poll.step = "idle" /\ file = [doc \in Sync!Documents |-> Sync!NoFile]
      /\ held = [doc \in Sync!Documents |-> -1] /\ meta = held /\ dirty = FALSE /\ unclean = 0
  BY DEF Sync!Init, Sync!IdlePoll
<1>2. /\ state \in [Sources -> T] /\ r2 \in T /\ version = -1
      /\ \A doc \in Sync!Documents : held[doc] = version
  BY <1>1
<1> HIDE DEF version
<1>3. \A doc \in Sync!Documents : FileOK(file[doc], doc, held[doc], state, r2)
  <2> TAKE doc \in Sync!Documents
  <2>1. FileOK(file[doc], doc, version, state, r2)
    BY <1>2, NothingHeld
  <2>2. QED
    BY <1>2, <2>1
<1>4. PollOK(poll, file, held, state, r2)
  BY <1>1, <1>3 DEF PollOK, FilesOK
<1>5. file = [doc \in Sync!Documents |-> file[doc]]
  BY <1>1
<1>6. held \in [Sync!Documents -> Int] /\ meta = held /\ dirty = FALSE
  <2> DEFINE Z == Int
  <2>1. version \in Z
    BY DEF version
  <2> HIDE DEF Z
  <2>2. held = [doc \in Sync!Documents |-> version]
    BY <1>1 DEF version
  <2>3. QED
    BY <1>1, <2>1, <2>2
<1>7. cache \in [Isolates -> Int] /\ \A i \in Isolates : cache[i] >= -1 /\ cache[i] <= r2
  BY <1>1
<1>8. unclean \in Nat
  BY <1>1
<1>9. QED
  BY <1>2, <1>4, <1>5, <1>6, <1>7, <1>8 DEF SyncInv

-----------------------------------------------------------------------------
(* The Worker's steps. *)

\* A source whose version grows.
LEMMA RowGrows ==
    ASSUME LegacyEnvironment = 0, SyncInv, NEW s \in Sources, state' = [state EXCEPT ![s] = @ + 1],
           UNCHANGED <<r2, cache, poll, file, held, meta, dirty, unclean>>
    PROVE  SyncInv'
<1> DEFINE next == state'
<1>1. state \in [Sources -> Nat] /\ r2 \in Nat /\ PollOK(poll, file, held, state, r2)
  BY DEF SyncInv
<1>2. next = [state EXCEPT ![s] = @ + 1]
  OBVIOUS
<1> HIDE DEF next
<1>3. Sync!SumOf(state) \in Nat /\ Sync!SumOf(next) = Sync!SumOf(state) + 1
  BY <1>1, <1>2, SumGrows
<1>4. next \in [Sources -> Nat] /\ \A x \in Sources : state[x] <= next[x]
  BY <1>1, <1>2
<1>5. Grown(state, r2, next, r2)
  BY <1>1, <1>3, <1>4 DEF Grown
<1>6. PollOK(poll, file, held, next, r2)
  BY <1>1, <1>5, GrownPoll
<1>7. QED
  BY <1>4, <1>6 DEF SyncInv, next

LEMMA SourceStep ==
    ASSUME LegacyEnvironment = 0, SyncInv, NEW s \in Sources,
           Sync!UpdateSource(s) \/ Sync!RepeatSource(s) \/ Sync!FailSource(s)
    PROVE  SyncInv'
<1>1. UNCHANGED <<r2, cache, poll, file, held, meta, dirty, unclean>>
  BY DEF Sync!UpdateSource, Sync!RepeatSource, Sync!FailSource, Sync!panelVars
<1>2. state' = [state EXCEPT ![s] = @ + 1] \/ state' = state
  <2>1. state \in [Sources -> Nat]
    BY DEF SyncInv
  <2>2. CASE state[s] = 0 /\ state' = [state EXCEPT ![s] = 1]
    BY <2>1, <2>2
  <2>3. QED
    BY <2>2 DEF Sync!UpdateSource, Sync!RepeatSource, Sync!FailSource
<1>3. CASE state' = state
  BY <1>1, <1>3 DEF SyncInv
<1>4. QED
  BY <1>1, <1>2, <1>3, RowGrows

LEMMA UpdateEnvironmentStep ==
    ASSUME LegacyEnvironment = 0, SyncInv, Sync!UpdateEnvironment PROVE SyncInv'
<1>1. r2' = r2 + 1 /\ UNCHANGED <<state, cache, poll, file, held, meta, dirty, unclean>>
  BY DEF Sync!UpdateEnvironment, Sync!panelVars, Sync!rowVars
<1> DEFINE next == r2'
<1>2. state \in [Sources -> Nat] /\ r2 \in Nat /\ PollOK(poll, file, held, state, r2)
  BY DEF SyncInv
<1>3. next \in Nat /\ r2 < next
  BY <1>1, <1>2
<1>4. \A i \in Isolates : cache[i] \in Int /\ cache[i] <= r2 => cache[i] <= next
  BY <1>2, <1>3
<1>5. cache \in [Isolates -> Int] /\ \A i \in Isolates : cache[i] >= -1 /\ cache[i] <= next
  BY <1>4 DEF SyncInv
<1> HIDE DEF next
<1>6. Sync!SumOf(state) \in Nat /\ \A x \in Sources : state[x] \in Nat
  BY <1>2, SumIsNat
<1>7. Grown(state, r2, state, next)
  BY <1>2, <1>3, <1>6 DEF Grown
<1>8. PollOK(poll, file, held, state, next)
  BY <1>2, <1>7, GrownPoll
<1>9. QED
  BY <1>1, <1>3, <1>5, <1>8 DEF SyncInv, next

LEMMA ExpireCacheStep ==
    ASSUME SyncInv, NEW i \in Isolates, Sync!ExpireCache(i) PROVE SyncInv'
<1>1. /\ cache' = [cache EXCEPT ![i] = -1]
      /\ UNCHANGED <<state, r2, poll, file, held, meta, dirty, unclean>>
  BY DEF Sync!ExpireCache, Sync!panelVars, Sync!rowVars
<1>2. cache' \in [Isolates -> Int] /\ \A j \in Isolates : cache'[j] >= -1 /\ cache'[j] <= r2
  BY <1>1 DEF SyncInv
<1>3. QED
  BY <1>1, <1>2 DEF SyncInv

LEMMA SnapshotStep == ASSUME SyncInv, Sync!SnapshotRows PROVE SyncInv'
<1>1. /\ poll.step = "reading" /\ poll' = [poll EXCEPT !.hasRows = TRUE, !.rows = state]
      /\ UNCHANGED <<state, r2, cache, file, held, meta, dirty, unclean>>
  BY DEF Sync!SnapshotRows, Sync!panelVars, Sync!serverVars, Sync!rowVars
<1>2. /\ PollOK(poll, file, held, state, r2) /\ state \in [Sources -> Nat] /\ r2 \in Nat
  BY DEF SyncInv
<1>3. RowsOK(poll, state, r2) /\ FilesOK(file, held, state, r2)
  BY <1>1, <1>2 DEF PollOK
<1> DEFINE p == poll
           next == poll'
<1>4. /\ next.step = "reading" /\ next.rows = state /\ next.env = p.env
      /\ next = [step |-> next.step, asked |-> next.asked, hasRows |-> next.hasRows, rows |-> next.rows,
                 hasEnv |-> next.hasEnv, env |-> next.env]
  <2>1. /\ p = [step |-> p.step, asked |-> p.asked, hasRows |-> p.hasRows, rows |-> p.rows,
                hasEnv |-> p.hasEnv, env |-> p.env]
        /\ next = [p EXCEPT !.hasRows = TRUE, !.rows = state] /\ p.step = "reading"
    BY <1>1, <1>3 DEF RowsOK
  <2> HIDE DEF p, next
  <2>2. QED
    BY <2>1
<1>5. RowsOK(poll', state, r2)
  <2>1. Sync!SumOf(state) \in Nat /\ \A x \in Sources : state[x] \in Nat
    BY <1>2, SumIsNat
  <2>2. QED
    BY <1>2, <1>3, <1>4, <2>1 DEF RowsOK
<1>6. PollOK(poll', file, held, state, r2)
  BY <1>3, <1>4, <1>5 DEF PollOK
<1>7. QED
  BY <1>1, <1>6 DEF SyncInv

LEMMA EnvironmentRead ==
    ASSUME SyncInv, poll.step = "reading", NEW env \in Nat, env <= r2,
           NEW next, next = [poll EXCEPT !.hasEnv = TRUE, !.env = env]
    PROVE  PollOK(next, file, held, state, r2)
<1> DEFINE p == poll
<1>1. RowsOK(p, state, r2) /\ FilesOK(file, held, state, r2)
  BY DEF SyncInv, PollOK
<1>2. /\ p = [step |-> p.step, asked |-> p.asked, hasRows |-> p.hasRows, rows |-> p.rows,
              hasEnv |-> p.hasEnv, env |-> p.env]
      /\ next = [p EXCEPT !.hasEnv = TRUE, !.env = env] /\ p.step = "reading"
  BY <1>1 DEF RowsOK
<1> HIDE DEF p
<1>3. /\ next.step = "reading" /\ next.rows = p.rows /\ next.env = env /\ next.hasRows = p.hasRows
      /\ next = [step |-> next.step, asked |-> next.asked, hasRows |-> next.hasRows, rows |-> next.rows,
                 hasEnv |-> next.hasEnv, env |-> next.env]
  BY <1>2
<1>4. RowsOK(next, state, r2)
  BY <1>1, <1>3 DEF RowsOK
<1>5. QED
  BY <1>1, <1>3, <1>4 DEF PollOK

LEMMA ReadEnvironmentStep ==
    ASSUME SyncInv, NEW i \in Isolates, Sync!ReadEnvironment(i) PROVE SyncInv'
<1> DEFINE next == poll'
<1>1. /\ poll.step = "reading" /\ UNCHANGED <<state, r2, file, held, meta, dirty, unclean>>
      /\ \/ /\ cache[i] # -1 /\ next = [poll EXCEPT !.hasEnv = TRUE, !.env = cache[i]]
            /\ cache' = cache
         \/ /\ next = [poll EXCEPT !.hasEnv = TRUE, !.env = r2]
            /\ cache' = [cache EXCEPT ![i] = r2]
         \/ /\ next = [poll EXCEPT !.hasEnv = TRUE, !.env = 0]
            /\ cache' = cache
  BY DEF Sync!ReadEnvironment, Sync!panelVars, Sync!rowVars
<1>2. /\ cache \in [Isolates -> Int] /\ \A j \in Isolates : cache[j] >= -1 /\ cache[j] <= r2
      /\ r2 \in Nat
  BY DEF SyncInv
<1>3. \E env \in Nat : env <= r2 /\ next = [poll EXCEPT !.hasEnv = TRUE, !.env = env]
  <2>1. CASE cache[i] # -1 /\ next = [poll EXCEPT !.hasEnv = TRUE, !.env = cache[i]]
    <3>1. cache[i] \in Nat /\ cache[i] <= r2
      BY <1>2, <2>1
    <3>2. QED
      BY <2>1, <3>1
  <2>2. CASE next = [poll EXCEPT !.hasEnv = TRUE, !.env = r2]
    <3>1. r2 \in Nat /\ r2 <= r2
      BY <1>2
    <3>2. QED
      BY <2>2, <3>1
  <2>3. CASE next = [poll EXCEPT !.hasEnv = TRUE, !.env = 0]
    <3>1. 0 \in Nat /\ 0 <= r2
      BY <1>2
    <3>2. QED
      BY <2>3, <3>1
  <2>4. QED
    BY <1>1, <2>1, <2>2, <2>3
<1> HIDE DEF next
<1>4. PollOK(next, file, held, state, r2)
  BY <1>1, <1>3, EnvironmentRead
<1>5. cache' \in [Isolates -> Int] /\ \A j \in Isolates : cache'[j] >= -1 /\ cache'[j] <= r2
  <2>1. CASE cache' = cache
    BY <1>2, <2>1
  <2>2. CASE cache' = [cache EXCEPT ![i] = r2]
    BY <1>2, <2>2
  <2>3. QED
    BY <1>1, <2>1, <2>2
<1>6. QED
  BY <1>1, <1>4, <1>5 DEF SyncInv, next

LEMMA CompareVersionsStep ==
    ASSUME LegacyEnvironment = 0, SyncInv, Sync!CompareVersions PROVE SyncInv'
<1> DEFINE next == poll'
           D == Sync!Documents
           rows == poll.rows
           env == poll.env
           total == Sync!SumOf(rows)
           latest == Sync!SumOf(state)
           version == next.version
<1>1. /\ poll.step = "reading" /\ poll.hasRows
      /\ UNCHANGED <<state, r2, cache, file, held, meta, dirty, unclean>>
      /\ next.step = "rows" /\ next.env = env
      /\ version = [doc \in D |-> CurrentOf(doc, rows, env)] /\ next.changed \subseteq D
  BY DEF Sync!CompareVersions, Sync!panelVars, Sync!serverVars, Sync!rowVars, CurrentOf
<1>2. RowsOK(poll, state, r2) /\ FilesOK(file, held, state, r2) /\ state \in [Sources -> Nat] /\ r2 \in Nat
  BY <1>1 DEF SyncInv, PollOK
<1>3. /\ rows \in [Sources -> Nat] /\ env \in Nat /\ env <= r2
      /\ rows[SwitchBot] <= state[SwitchBot] /\ total <= latest
  BY <1>1, <1>2, SyncConstants DEF RowsOK
<1>4. total \in Nat /\ latest \in Nat
  BY <1>2, <1>3, SumIsNat
<1> HIDE DEF rows, env
<1>5. version \in [D -> Int]
  <2>1. \A doc \in D : CurrentOf(doc, rows, env) \in Nat
    BY <1>3, CurrentIsNat
  <2>2. QED
    BY <1>1, <2>1
<1>6. version["dashboard"] = total + env /\ version[SwitchBot] = rows[SwitchBot]
  BY <1>1, SyncConstants, VersionIs
<1> HIDE DEF total, latest, version
<1>7. /\ version["dashboard"] <= latest + r2
      /\ version["dashboard"] = latest + r2 => env = r2
  BY <1>2, <1>3, <1>4, <1>6
<1>8. VersionsOK(next, state, r2)
  BY <1>1, <1>3, <1>5, <1>6, <1>7 DEF VersionsOK, version, latest
<1>9. PollOK(next, file, held, state, r2)
  BY <1>1, <1>2, <1>8 DEF PollOK
<1>10. QED
  BY <1>1, <1>9 DEF SyncInv

LEMMA ReadPayloadsStep ==
    ASSUME LegacyEnvironment = 0, SyncInv, Sync!ReadPayloads PROVE SyncInv'
<1> DEFINE next == poll'
           D == Sync!Documents
           env == poll.env
           version == poll.version
           view == [doc \in D |-> Sync!ViewOf(doc, state, env)]
           statuses == [doc \in D |-> Sync!StatusOf(doc, status)]
           todo == {doc \in poll.changed : doc = "dashboard" \/ state[doc] # 0}
<1>1. /\ poll.step = "rows" /\ UNCHANGED <<state, r2, cache, file, held, meta, dirty, unclean>>
      /\ next = [step |-> "reply", version |-> version, todo |-> todo, applied |-> {}, view |-> view,
                 status |-> statuses]
  BY DEF Sync!ReadPayloads, Sync!panelVars, Sync!serverVars, Sync!rowVars
<1>2. /\ VersionsOK(poll, state, r2) /\ FilesOK(file, held, state, r2)
      /\ state \in [Sources -> Nat] /\ r2 \in Nat
  BY <1>1 DEF SyncInv, PollOK
<1>3. todo \subseteq D
  BY <1>2 DEF VersionsOK
<1>4. \A doc \in D : view[doc] = Sync!ViewOf(doc, state, env)
  OBVIOUS
<1>5. /\ version \in [D -> Int] /\ env \in Nat /\ version[SwitchBot] <= state[SwitchBot]
      /\ version["dashboard"] <= Sync!SumOf(state) + r2
      /\ version["dashboard"] = Sync!SumOf(state) + r2 => env = r2
  BY <1>2 DEF VersionsOK
<1> HIDE DEF version, env, view, todo, statuses
<1>6. /\ next.step = "reply" /\ next.version = version /\ next.todo = todo /\ next.applied = {}
      /\ next.view = view
      /\ next = [step |-> next.step, version |-> next.version, todo |-> next.todo,
                 applied |-> next.applied, view |-> next.view, status |-> next.status]
  BY <1>1
<1> HIDE DEF next
<1>7. \A doc \in D : Sent(next, doc).kind = "payload" /\ Sent(next, doc).view = Sync!ViewOf(doc, state, env)
  BY <1>4, <1>6 DEF Sent
<1>8. ASSUME NEW doc \in D PROVE FileOK(Sent(next, doc), doc, version[doc], state, r2)
  <2>1. CASE doc = "dashboard"
    BY <1>5, <1>7, <2>1, VersionIs DEF FileOK
  <2>2. CASE doc = SwitchBot
    BY <1>5, <1>7, <2>2, VersionIs DEF FileOK
  <2>3. QED
    BY <2>1, <2>2, SyncConstants
<1>9. FileOK(Sent(next, SwitchBot), SwitchBot, held[SwitchBot], state, r2)
  <2>1. Sync!ViewOf(SwitchBot, state, env) = Sync!ViewOf(SwitchBot, state, r2) /\ SwitchBot \in D
    BY VersionIs, SyncConstants
  <2>2. QED
    BY <1>2, <1>7, <2>1 DEF FilesOK, FileOK
<1>10. ReplyOK(next, file, held, state, r2)
  BY <1>2, <1>3, <1>5, <1>6, <1>8, <1>9 DEF ReplyOK, FilesOK
<1>11. PollOK(next, file, held, state, r2)
  BY <1>6, <1>10 DEF PollOK
<1>12. QED
  BY <1>1, <1>11 DEF SyncInv, next

-----------------------------------------------------------------------------
(* The panel's steps. *)

LEMMA StartPollStep == ASSUME SyncInv, Sync!StartPoll PROVE SyncInv'
<1> DEFINE next == poll'
           asked == [doc \in Sync!Documents |-> Sync!Reported(doc)]
           nothing == [s \in Sources |-> 0]
<1>1. /\ poll.step = "idle" /\ UNCHANGED <<state, r2, cache, file, held, meta, dirty, unclean>>
      /\ next = [step |-> "reading", asked |-> asked, hasRows |-> FALSE, rows |-> nothing,
                 hasEnv |-> FALSE, env |-> 0]
  BY DEF Sync!StartPoll, Sync!panelVars, Sync!serverVars, Sync!rowVars
<1>0. nothing \in [Sources -> Nat]
  OBVIOUS
<1> HIDE DEF asked, nothing
<1>2. FilesOK(file, held, state, r2) /\ state \in [Sources -> Nat] /\ r2 \in Nat
  BY <1>1 DEF SyncInv, PollOK
<1>3. /\ next = [step |-> next.step, asked |-> next.asked, hasRows |-> next.hasRows, rows |-> next.rows,
                 hasEnv |-> next.hasEnv, env |-> next.env]
      /\ next.step = "reading" /\ next.rows = nothing /\ next.hasRows = FALSE /\ next.env = 0
  BY <1>1
<1> HIDE DEF next
<1>4. 0 \in Nat /\ 0 <= r2
  BY <1>2
<1>6. RowsOK(next, state, r2)
  BY <1>0, <1>3, <1>4 DEF RowsOK
<1>7. PollOK(next, file, held, state, r2)
  BY <1>2, <1>3, <1>6 DEF PollOK
<1>8. QED
  BY <1>1, <1>7 DEF SyncInv, next

\* Whatever a poll has done, the file of SwitchBot is as good as the version that is held.
LEMMA FileIsGood ==
    ASSUME SyncInv
    PROVE  FileOK(file[SwitchBot], SwitchBot, held[SwitchBot], state, r2)
<1>1. SwitchBot \in Sync!Documents
  BY SyncConstants
<1>2. CASE FilesOK(file, held, state, r2)
  BY <1>1, <1>2 DEF FilesOK
<1>3. CASE ReplyOK(poll, file, held, state, r2)
  <2>1. CASE SwitchBot \in poll.applied
    BY <1>1, <1>3, <2>1 DEF ReplyOK
  <2>2. CASE SwitchBot \notin poll.applied
    BY <1>1, <1>3, <2>2 DEF ReplyOK
  <2>3. QED
    BY <2>1, <2>2
<1>4. QED
  BY <1>2, <1>3 DEF SyncInv, PollOK

LEMMA FailPollStep == ASSUME SyncInv, Sync!FailPoll PROVE SyncInv'
<1>1. poll' = [step |-> "patch"] /\ UNCHANGED <<state, r2, cache, file, held, meta, dirty, unclean>>
  BY DEF Sync!FailPoll, Sync!panelVars, Sync!serverVars, Sync!rowVars
<1>2. poll'.step = "patch"
  BY <1>1
<1>3. PollOK(poll', file, held, state, r2)
  BY <1>2, FileIsGood DEF PollOK
<1>4. QED
  BY <1>1, <1>3 DEF SyncInv

LEMMA WriteDocumentStep ==
    ASSUME SyncInv, NEW doc \in Sync!Documents, Sync!WriteDocument(doc) PROVE SyncInv'
<1> DEFINE p == poll
           next == poll'
           D == Sync!Documents
           payload == Sent(p, doc)
<1>1. /\ p.step = "reply" /\ doc \in p.todo
      /\ file' = [file EXCEPT ![doc] = payload]
      /\ next = [p EXCEPT !.todo = @ \ {doc}, !.applied = @ \cup {doc}]
      /\ UNCHANGED <<state, r2, cache, held, meta, dirty, unclean>>
  BY DEF Sync!WriteDocument, Sync!serverVars, Sync!rowVars, Sent
<1>2. ReplyOK(p, file, held, state, r2) /\ file = [d \in D |-> file[d]]
  BY <1>1 DEF SyncInv, PollOK
<1>3. p = [step |-> p.step, version |-> p.version, todo |-> p.todo, applied |-> p.applied,
           view |-> p.view, status |-> p.status]
  BY <1>2 DEF ReplyOK
<1> HIDE DEF p
<1>4. /\ next.step = "reply" /\ next.version = p.version /\ next.todo = p.todo \ {doc}
      /\ next.applied = p.applied \cup {doc} /\ next.view = p.view
      /\ next.status = p.status
      /\ next = [step |-> next.step, version |-> next.version, todo |-> next.todo,
                 applied |-> next.applied, view |-> next.view, status |-> next.status]
  BY <1>1, <1>3
<1> HIDE DEF next, payload
<1>5. \A d \in D : Sent(next, d) = Sent(p, d)
  BY <1>4 DEF Sent
<1>6. /\ file' = [d \in D |-> file'[d]] /\ file'[doc] = payload
      /\ \A d \in D : d # doc => file'[d] = file[d]
  BY <1>1, <1>2
<1>7. SwitchBot \in D
  BY SyncConstants
<1>8. ReplyOK(next, file', held, state, r2)
  <2>1. ASSUME NEW d \in D
        PROVE  /\ FileOK(Sent(next, d), d, next.version[d], state, r2)
               /\ IF d \in next.applied THEN file'[d] = Sent(next, d)
                  ELSE FileOK(file'[d], d, held[d], state, r2)
    <3>1. FileOK(Sent(next, d), d, next.version[d], state, r2)
      BY <1>2, <1>4, <1>5 DEF ReplyOK
    <3>2. CASE d = doc
      BY <1>4, <1>5, <1>6, <3>1, <3>2 DEF payload
    <3>3. CASE d # doc
      BY <1>2, <1>4, <1>5, <1>6, <3>1, <3>3 DEF ReplyOK
    <3>4. QED
      BY <3>2, <3>3
  <2>2. FileOK(Sent(next, SwitchBot), SwitchBot, held[SwitchBot], state, r2)
    BY <1>2, <1>5, <1>7 DEF ReplyOK
  <2>3. /\ next.version \in [D -> Int] /\ next.todo \subseteq D /\ next.applied \subseteq D
    BY <1>2, <1>4 DEF ReplyOK
  <2>4. QED
    BY <1>4, <2>1, <2>2, <2>3 DEF ReplyOK
<1>9. PollOK(next, file', held, state, r2)
  BY <1>4, <1>8 DEF PollOK
<1>10. QED
  BY <1>1, <1>6, <1>9 DEF SyncInv, next

LEMMA AcceptVersionsStep == ASSUME SyncInv, Sync!AcceptVersions PROVE SyncInv'
<1> DEFINE D == Sync!Documents
           unsaved == dirty \/ held' # held
<1>1. /\ poll.step = "reply" /\ held' = [doc \in D |-> Sync!Accepted(doc)]
      /\ \/ meta' = held' /\ dirty' = FALSE
         \/ dirty' = unsaved /\ UNCHANGED meta
      /\ poll'.step = "idle"
      /\ UNCHANGED <<state, r2, cache, file, unclean>>
  BY DEF Sync!AcceptVersions, Sync!serverVars, Sync!rowVars, Sync!IdlePoll
<1>2. /\ ReplyOK(poll, file, held, state, r2) /\ held \in [D -> Int] /\ meta \in [D -> Int]
      /\ dirty \in BOOLEAN /\ (dirty = FALSE => meta = held)
  BY <1>1 DEF SyncInv, PollOK
<1>3. ASSUME NEW doc \in D PROVE held'[doc] \in Int /\ FileOK(file[doc], doc, held'[doc], state, r2)
  <2>1. CASE doc \in poll.applied
    <3>1. held'[doc] = poll.version[doc]
      BY <1>1, <2>1 DEF Sync!Accepted
    <3>2. QED
      BY <1>2, <2>1, <3>1 DEF ReplyOK
  <2>2. CASE doc \notin poll.applied
    <3>1. held'[doc] = held[doc]
      BY <1>1, <2>2 DEF Sync!Accepted
    <3>2. QED
      BY <1>2, <2>2, <3>1 DEF ReplyOK
  <2>3. QED
    BY <2>1, <2>2
<1>4. held' \in [D -> Int]
  BY <1>1, <1>3
<1>5. meta' \in [D -> Int] /\ dirty' \in BOOLEAN /\ (dirty' = FALSE => meta' = held')
  <2>1. CASE meta' = held' /\ dirty' = FALSE
    BY <1>4, <2>1
  <2>2. CASE dirty' = unsaved /\ UNCHANGED meta
    BY <1>2, <2>2
  <2>3. QED
    BY <1>1, <2>1, <2>2
<1>6. PollOK(poll', file, held', state, r2)
  BY <1>1, <1>3 DEF PollOK, FilesOK
<1>7. QED
  BY <1>1, <1>4, <1>5, <1>6 DEF SyncInv

LEMMA ForcePresenceStep ==
    ASSUME LegacyEnvironment = 0, SyncInv, Sync!ForcePresence PROVE SyncInv'
<1> DEFINE D == Sync!Documents
           f == file'
           none == -1
           version == f[SwitchBot]
<1>1. /\ poll'.step = "error" /\ UNCHANGED <<state, r2, cache, meta, unclean>>
      /\ \/ /\ f = [file EXCEPT ![SwitchBot] = Sync!PatchedFile]
            /\ held' = [held EXCEPT ![SwitchBot] = none]
            /\ dirty' = TRUE
         \/ UNCHANGED <<file, held, dirty>>
  BY DEF Sync!ForcePresence, Sync!serverVars, Sync!rowVars
<1>2. /\ state \in [Sources -> Nat] /\ r2 \in Nat /\ file = [doc \in D |-> file[doc]] /\ SwitchBot \in D
      /\ held \in [D -> Int] /\ meta \in [D -> Int] /\ dirty \in BOOLEAN
      /\ (dirty = FALSE => meta = held)
      /\ FileOK(file[SwitchBot], SwitchBot, held[SwitchBot], state, r2)
  BY FileIsGood, SyncConstants DEF SyncInv
<1>3. none \in Int /\ none = -1
  OBVIOUS
<1> HIDE DEF none
<1>4. CASE /\ f = [file EXCEPT ![SwitchBot] = Sync!PatchedFile]
           /\ held' = [held EXCEPT ![SwitchBot] = none]
           /\ dirty' = TRUE
  <2>1. held' \in [D -> Int] /\ held'[SwitchBot] = none /\ f = [doc \in D |-> f[doc]]
    BY <1>2, <1>3, <1>4
  <2>2. FileOK(f[SwitchBot], SwitchBot, none, state, r2)
    BY <1>2, <1>3, NothingHeld
  <2>3. PollOK(poll', f, held', state, r2)
    BY <1>1, <2>1, <2>2 DEF PollOK
  <2>4. QED
    BY <1>1, <1>2, <1>4, <2>1, <2>3 DEF SyncInv
<1>5. CASE UNCHANGED <<file, held, dirty>>
  <2>1. PollOK(poll', file, held, state, r2)
    BY <1>1, <1>2 DEF PollOK
  <2>2. QED
    BY <1>1, <1>2, <1>5, <2>1 DEF SyncInv
<1>6. QED
  BY <1>1, <1>4, <1>5

LEMMA ShowErrorStep ==
    ASSUME LegacyEnvironment = 0, SyncInv, Sync!ShowError PROVE SyncInv'
<1> DEFINE D == Sync!Documents
           f == file'
           h == held'
           none == -1
           Board == "dashboard"
<1>1. /\ poll.step = "error" /\ poll'.step = "idle" /\ UNCHANGED <<state, r2, cache, meta, unclean>>
      /\ h = [held EXCEPT ![Board] = none] /\ dirty' = TRUE
      /\ f = [file EXCEPT ![Board] = Sync!PatchedFile] \/ f = file
  BY DEF Sync!ShowError, Sync!HeldAfterError, Sync!serverVars, Sync!rowVars, Sync!IdlePoll
<1>2. /\ state \in [Sources -> Nat] /\ r2 \in Nat /\ file = [doc \in D |-> file[doc]]
      /\ SwitchBot \in D /\ Board \in D /\ D = {Board, SwitchBot} /\ SwitchBot # Board
      /\ held \in [D -> Int] /\ meta \in [D -> Int]
      /\ FileOK(file[SwitchBot], SwitchBot, held[SwitchBot], state, r2)
  BY FileIsGood, SyncConstants DEF SyncInv
<1>3. none \in Int /\ none = -1
  OBVIOUS
<1> HIDE DEF none, Board
<1>4. /\ h \in [D -> Int] /\ h[Board] = none /\ h[SwitchBot] = held[SwitchBot]
  BY <1>1, <1>2, <1>3
<1>5. f = [doc \in D |-> f[doc]] /\ f[SwitchBot] = file[SwitchBot]
  BY <1>1, <1>2
<1>6. FileOK(f[Board], Board, none, state, r2)
  BY <1>2, <1>3, NothingHeld
<1> HIDE DEF f, h
<1>7. FilesOK(f, h, state, r2)
  BY <1>2, <1>4, <1>5, <1>6 DEF FilesOK
<1>8. PollOK(poll', f, h, state, r2)
  BY <1>1, <1>7 DEF PollOK
<1>9. QED
  BY <1>1, <1>2, <1>4, <1>5, <1>8 DEF SyncInv, f, h

LEMMA RestartStep ==
    ASSUME MaxUnclean = 0, SyncInv, Sync!Restart PROVE SyncInv'
<1>0. ~Sync!Unsaved /\ unclean' = unclean
  BY DEF Sync!Restart, SyncInv
<1>1. /\ ~Sync!Unsaved /\ poll'.step = "idle" /\ held' = meta /\ dirty' = FALSE
      /\ UNCHANGED <<state, r2, cache, file, meta, unclean>>
  BY <1>0 DEF Sync!Restart, Sync!serverVars, Sync!rowVars, Sync!IdlePoll
<1>2. meta = held /\ meta \in [Sync!Documents -> Int]
  BY <1>1 DEF SyncInv, Sync!Unsaved
<1>3. FilesOK(file, held, state, r2)
  <2>1. poll.step \notin {"patch", "error"} /\ (poll.step = "reply" => poll.applied = {})
    BY <1>1 DEF Sync!Unsaved
  <2>2. poll.applied = {} /\ ReplyOK(poll, file, held, state, r2) => FilesOK(file, held, state, r2)
    BY DEF ReplyOK, FilesOK
  <2>3. QED
    BY <2>1, <2>2 DEF SyncInv, PollOK
<1>4. PollOK(poll', file, held', state, r2)
  BY <1>1, <1>2, <1>3 DEF PollOK
<1>5. QED
  BY <1>1, <1>2, <1>4 DEF SyncInv

LEMMA SyncStep ==
    ASSUME LegacyEnvironment = 0, MaxUnclean = 0, SyncInv, Sync!Next PROVE SyncInv'
<1>1. CASE Sync!Worker
  BY <1>1, SourceStep, UpdateEnvironmentStep, ExpireCacheStep, ReadEnvironmentStep, SnapshotStep,
     CompareVersionsStep, ReadPayloadsStep DEF Sync!Worker
<1>2. CASE Sync!Panel
  BY <1>2, StartPollStep, FailPollStep, AcceptVersionsStep, ForcePresenceStep, ShowErrorStep, RestartStep,
     WriteDocumentStep DEF Sync!Panel
<1>3. QED
  BY <1>1, <1>2 DEF Sync!Next

LEMMA SyncRests == ASSUME SyncInv, UNCHANGED syncVars PROVE SyncInv'
BY DEF SyncInv, syncVars

-----------------------------------------------------------------------------
(* What a dashboard shows of a source: its version is not ahead, and at the current version
   it tells a source that has never succeeded from one that has. *)

Seen(f, st, ss) ==
    f.kind = "payload" =>
        \A s \in Sources :
            /\ f.view[s] \in Nat /\ f.view[s] <= st[s]
            /\ f.view[s] = st[s] => (f.status[s] = "error" <=> ss[s] = "error")

SeenInv ==
    /\ Seen(file["dashboard"], state, status)
    /\ poll.step = "reply" => Seen(Sent(poll, "dashboard"), state, status)
    /\ status = [s \in Sources |-> status[s]]

\* A row changes.
LEMMA SeenOn ==
    ASSUME SyncInv, SeenInv, NEW s \in Sources,
           Sync!UpdateSource(s) \/ Sync!RepeatSource(s) \/ Sync!FailSource(s),
           NEW f, Seen(f, state, status)
    PROVE  Seen(f, state, status)'
<1> SUFFICES ASSUME f.kind = "payload", NEW x \in Sources
             PROVE  /\ f.view[x] \in Nat /\ f.view[x] <= state'[x]
                    /\ f.view[x] = state'[x] => (f.status[x] = "error" <=> status'[x] = "error")
  BY DEF Seen
<1>1. /\ state \in [Sources -> Nat] /\ status = [y \in Sources |-> status[y]]
      /\ f.view[x] \in Nat /\ f.view[x] <= state[x]
      /\ f.view[x] = state[x] => (f.status[x] = "error" <=> status[x] = "error")
  BY DEF SyncInv, SeenInv, Seen
<1>2. CASE x # s
  <2>1. state'[x] = state[x] /\ status'[x] = status[x]
    BY <1>1, <1>2 DEF Sync!UpdateSource, Sync!RepeatSource, Sync!FailSource
  <2>2. QED
    BY <1>1, <2>1
<1>3. CASE x = s
  <2>1. \/ state'[s] = state[s] + 1
        \/ state'[s] = state[s] /\ status[s] # "error" /\ status'[s] # "error"
    BY <1>1 DEF Sync!UpdateSource, Sync!RepeatSource, Sync!FailSource
  <2>2. QED
    BY <1>1, <1>3, <2>1
<1>4. QED
  BY <1>2, <1>3

LEMMA SourceSeen ==
    ASSUME SyncInv, SeenInv, NEW s \in Sources,
           Sync!UpdateSource(s) \/ Sync!RepeatSource(s) \/ Sync!FailSource(s)
    PROVE  SeenInv'
<1>1. file' = file /\ poll' = poll
  BY DEF Sync!UpdateSource, Sync!RepeatSource, Sync!FailSource, Sync!panelVars
<1>2. status' = [x \in Sources |-> status'[x]]
  BY DEF Sync!UpdateSource, Sync!RepeatSource, Sync!FailSource, SeenInv
<1> DEFINE board == file["dashboard"]
           sent == Sent(poll, "dashboard")
<1>3. PICK f1 : f1 = board
  OBVIOUS
<1>4. PICK f2 : f2 = sent
  OBVIOUS
<1>5. Seen(f1, state', status')
  BY <1>3, SeenOn DEF SeenInv
<1>6. poll.step = "reply" => Seen(f2, state', status')
  BY <1>4, SeenOn DEF SeenInv
<1>7. board' = f1 /\ sent' = f2
  BY <1>1, <1>3, <1>4 DEF Sent
<1>8. QED
  BY <1>1, <1>2, <1>5, <1>6, <1>7 DEF SeenInv

\* The rows are read.
LEMMA ReadSeen == ASSUME SyncInv, SeenInv, Sync!ReadPayloads PROVE SeenInv'
<1> DEFINE next == poll'
           D == Sync!Documents
<1>1. /\ UNCHANGED <<state, status, file>>
      /\ next.view = [doc \in D |-> Sync!ViewOf(doc, state, poll.env)]
      /\ next.status = [doc \in D |-> Sync!StatusOf(doc, status)]
  BY DEF Sync!ReadPayloads, Sync!serverVars, Sync!rowVars, Sync!panelVars
<1>2. "dashboard" \in D /\ "environment" \notin Sources /\ state \in [Sources -> Nat]
  BY SyncConstants DEF SyncInv
<1> HIDE DEF next
<1>3. ASSUME NEW s \in Sources
      PROVE  next.view["dashboard"][s] = state[s] /\ next.status["dashboard"][s] = status[s]
  BY <1>1, <1>2 DEF Sync!ViewOf, Sync!StatusOf, Sync!Parts, Sync!Reporting
<1>4. \A s \in Sources : state[s] \in Nat /\ state[s] <= state[s]
  BY <1>2
<1>5. Seen(Sent(next, "dashboard"), state, status)
  BY <1>3, <1>4 DEF Seen, Sent
<1>6. QED
  BY <1>1, <1>5 DEF SeenInv, next

\* The panel writes what it was sent.
LEMMA WriteSeen ==
    ASSUME SyncInv, SeenInv, NEW doc \in Sync!Documents, Sync!WriteDocument(doc) PROVE SeenInv'
<1> DEFINE p == poll
           next == poll'
<1>1. /\ p.step = "reply" /\ UNCHANGED <<state, status>>
      /\ file' = [file EXCEPT ![doc] = Sent(p, doc)]
      /\ next = [p EXCEPT !.todo = @ \ {doc}, !.applied = @ \cup {doc}]
  BY DEF Sync!WriteDocument, Sync!serverVars, Sync!rowVars, Sent
<1>2. /\ p = [step |-> p.step, version |-> p.version, todo |-> p.todo, applied |-> p.applied,
              view |-> p.view, status |-> p.status]
      /\ file = [d \in Sync!Documents |-> file[d]] /\ "dashboard" \in Sync!Documents
  BY <1>1, SyncConstants DEF SyncInv, PollOK, ReplyOK
<1>3. Seen(Sent(p, "dashboard"), state, status) /\ Seen(file["dashboard"], state, status)
  BY <1>1 DEF SeenInv
<1> HIDE DEF p
<1>4. next.step = "reply" /\ next.view = p.view /\ next.status = p.status
  BY <1>1, <1>2
<1> HIDE DEF next
<1>5. Sent(next, "dashboard") = Sent(p, "dashboard")
  BY <1>4 DEF Sent
<1>6. file'["dashboard"] = Sent(p, "dashboard") \/ file'["dashboard"] = file["dashboard"]
  BY <1>1, <1>2
<1>7. Seen(file'["dashboard"], state, status)
  BY <1>3, <1>6
<1>8. QED
  BY <1>1, <1>3, <1>5, <1>7 DEF SeenInv, next

\* Whatever else happens neither changes a row nor shows one.
LEMMA OtherSeen ==
    ASSUME SyncInv, SeenInv, UNCHANGED <<state, status>>, poll'.step # "reply",
           file'["dashboard"] = file["dashboard"] \/ file'["dashboard"].kind = "patched"
    PROVE  SeenInv'
<1>1. Seen(file'["dashboard"], state, status)
  BY DEF SeenInv, Seen
<1>2. QED
  BY <1>1 DEF SeenInv

\* The steps of a poll that is not at its reply before or after.
LEMMA ReadingSeen ==
    ASSUME SyncInv, SeenInv,
           \/ Sync!SnapshotRows \/ Sync!CompareVersions \/ Sync!StartPoll \/ Sync!FailPoll
           \/ Sync!AcceptVersions \/ Sync!Restart \/ \E i \in Isolates : Sync!ReadEnvironment(i)
    PROVE  SeenInv'
<1>1. UNCHANGED <<state, status, file>>
  BY DEF Sync!SnapshotRows, Sync!CompareVersions, Sync!StartPoll, Sync!FailPoll, Sync!AcceptVersions,
         Sync!Restart, Sync!ReadEnvironment, Sync!serverVars, Sync!rowVars, Sync!panelVars
<1>2. poll'.step # "reply"
  <2>1. CASE Sync!SnapshotRows \/ \E i \in Isolates : Sync!ReadEnvironment(i)
    <3>1. RowsOK(poll, state, r2) /\ poll.step = "reading"
      BY <2>1 DEF Sync!SnapshotRows, Sync!ReadEnvironment, SyncInv, PollOK
    <3>2. poll = [step |-> poll.step, asked |-> poll.asked, hasRows |-> poll.hasRows, rows |-> poll.rows,
                  hasEnv |-> poll.hasEnv, env |-> poll.env]
      BY <3>1 DEF RowsOK
    <3>3. PICK p : p = poll
      OBVIOUS
    <3>4. /\ p = [step |-> p.step, asked |-> p.asked, hasRows |-> p.hasRows, rows |-> p.rows,
                  hasEnv |-> p.hasEnv, env |-> p.env]
          /\ p.step = "reading"
      BY <3>1, <3>2, <3>3
    <3>5. \/ \E rows : poll' = [p EXCEPT !.hasRows = TRUE, !.rows = rows]
          \/ \E env : poll' = [p EXCEPT !.hasEnv = TRUE, !.env = env]
      BY <2>1, <3>3 DEF Sync!SnapshotRows, Sync!ReadEnvironment
    <3>6. \A rows : [p EXCEPT !.hasRows = TRUE, !.rows = rows].step = "reading"
      BY <3>4
    <3>7. \A env : [p EXCEPT !.hasEnv = TRUE, !.env = env].step = "reading"
      BY <3>4
    <3>8. QED
      BY <3>5, <3>6, <3>7
  <2>2. CASE Sync!CompareVersions \/ Sync!StartPoll \/ Sync!FailPoll \/ Sync!AcceptVersions \/ Sync!Restart
    BY <2>2 DEF Sync!CompareVersions, Sync!StartPoll, Sync!FailPoll, Sync!AcceptVersions, Sync!Restart,
                Sync!IdlePoll
  <2>3. QED
    BY <2>1, <2>2
<1>3. QED
  BY <1>1, <1>2, OtherSeen

\* The patches of a failed poll.
LEMMA PatchSeen ==
    ASSUME SyncInv, SeenInv, Sync!ForcePresence \/ Sync!ShowError PROVE SeenInv'
<1>1. /\ UNCHANGED <<state, status>> /\ poll'.step # "reply"
      /\ \/ file' = [file EXCEPT ![SwitchBot] = Sync!PatchedFile]
         \/ file' = [file EXCEPT !["dashboard"] = Sync!PatchedFile]
         \/ file' = file
  BY DEF Sync!ForcePresence, Sync!ShowError, Sync!serverVars, Sync!rowVars, Sync!IdlePoll
<1>2. file = [d \in Sync!Documents |-> file[d]] /\ "dashboard" \in Sync!Documents /\ SwitchBot # "dashboard"
  BY SyncConstants DEF SyncInv
<1>3. file'["dashboard"] = file["dashboard"] \/ file'["dashboard"] = Sync!PatchedFile
  BY <1>1, <1>2
<1>4. Sync!PatchedFile.kind = "patched"
  BY DEF Sync!PatchedFile, Sync!NoFile
<1>5. QED
  BY <1>1, <1>3, <1>4, OtherSeen

LEMMA SeenRests == ASSUME SeenInv, UNCHANGED <<state, status, file, poll>> PROVE SeenInv'
BY DEF SeenInv, Sent

LEMMA SeenStep == ASSUME SyncInv, SeenInv, Sync!Next PROVE SeenInv'
<1>1. CASE Sync!UpdateEnvironment \/ \E i \in Isolates : Sync!ExpireCache(i)
  BY <1>1, SeenRests DEF Sync!UpdateEnvironment, Sync!ExpireCache, Sync!rowVars, Sync!panelVars
<1>2. QED
  BY <1>1, SourceSeen, ReadSeen, WriteSeen, ReadingSeen, PatchSeen DEF Sync!Next, Sync!Worker, Sync!Panel

LEMMA SeenStart == ASSUME Sync!Init PROVE SeenInv
<1>1. file["dashboard"].kind = "absent" /\ poll.step = "idle" /\ status = [s \in Sources |-> "none"]
  BY SyncConstants DEF Sync!Init, Sync!IdlePoll, Sync!NoFile
<1>2. QED
  BY <1>1 DEF SeenInv, Seen

LEMMA AgreedFile == ASSUME LegacyEnvironment = 0, SyncInv, SeenInv PROVE AgreedIsCurrent
<1> SUFFICES ASSUME poll.step = "idle", NEW doc \in Sync!Documents,
                    Sync!Reported(doc) = Sync!CurrentVersion(doc)
             PROVE  Sync!Current(doc)
  BY DEF AgreedIsCurrent, Sync!AgreedIsCurrent
<1>1. FileOK(file[doc], doc, held[doc], state, r2)
  BY DEF SyncInv, PollOK, FilesOK
<1>2. Sync!Reported(doc) \in {-1, held[doc]}
  BY DEF Sync!Reported
<1>3. state \in [Sources -> Nat] /\ r2 \in Nat
  BY DEF SyncInv
<1>4. CurrentOf(doc, state, r2) \in Nat /\ CurrentOf(doc, state, r2) = Sync!CurrentVersion(doc)
  BY <1>3, CurrentIsNat DEF CurrentOf, Sync!CurrentVersion
<1>5. file[doc].kind = "payload" /\ file[doc].view = Sync!ViewOf(doc, state, r2)
  BY <1>1, <1>2, <1>4 DEF FileOK
<1>6. ASSUME NEW s \in Sync!Reporting(doc)
      PROVE  file[doc].status[s] = "error" <=> status[s] = "error"
  <2>1. doc = "dashboard" /\ s \in Sources /\ s # "environment"
    BY SyncConstants DEF Sync!Reporting
  <2>2. file[doc].view[s] = state[s]
    BY <1>5, <2>1 DEF Sync!ViewOf, Sync!Parts
  <2>3. QED
    BY <1>5, <2>1, <2>2 DEF SeenInv, Seen
<1>7. QED
  BY <1>5, <1>6 DEF Sync!Current

\* StateSync: whenever a panel reports a version that is the current one, its file holds the
\* current content of every part and no error of a source that succeeded since, as long
\* as no environment row is left in D1 and the panel's process does not end while its
\* files and the versions it has saved differ.  Which sources are stale it need not show:
\* updateState keeps the version when one turns stale or recovers with the same content.
THEOREM AgreedFilesAreCurrent ==
    ASSUME LegacyEnvironment = 0, MaxUnclean = 0
    PROVE  ArrivalsSpec => []AgreedIsCurrent
<1>1. ArrivalsInit => SyncInv /\ SeenInv
  BY SyncStart, SeenStart DEF ArrivalsInit
<1>2. SyncInv /\ SeenInv /\ [ArrivalsNext]_<<part, vars, syncVars>> => SyncInv' /\ SeenInv'
  BY SyncStep, SyncRests, SeenStep, SeenRests DEF ArrivalsNext, syncVars
<1>3. SyncInv /\ SeenInv => AgreedIsCurrent
  BY AgreedFile
<1>4. QED
  BY <1>1, <1>2, <1>3, PTL DEF ArrivalsSpec
=============================================================================
