---------------------------- MODULE VideoImport ----------------------------
(***************************************************************************)
(* The import of a long list of videos (video/src/manual-import*.js).  The *)
(* request stores a job and its chunks in D1 and sends one queue message;  *)
(* each delivery of a message takes the job's lock, works one chunk off,   *)
(* and sends the next message.  Once all chunks are stored, one more       *)
(* delivery rebuilds the playback feed under a lock of its own             *)
(* (d1-compaction.js), for which the scheduled collection competes.  Every *)
(* await is a step boundary: the job may be failed, its lock may time out  *)
(* and the invocation may end there, and a database call may fail with or  *)
(* without having taken effect.                                            *)
(*                                                                         *)
(* One job is followed.  A chunk stands for its 20 videos; a video that    *)
(* was stored before changes nothing when it is stored again, and a chunk  *)
(* without a valid URL counts as one that was.                             *)
(***************************************************************************)
EXTENDS Naturals, FiniteSets, Bags

CONSTANTS
    Consumers,      \* invocations of the queue handler at work at a time
    Collector,      \* the invocation of the scheduled collection
    Nobody,
    TotalChunks,    \* chunks of the job
    MaxRetries,     \* deliveries after the first, before the dead letter queue
    ReadsFail,      \* TRUE: the status of the job may be unreadable
    MaxFaults,      \* bound: failed calls and ended invocations
    MaxRecoveries   \* bound: recovery messages

MaxFailures == 3    \* failures in a row after which the job is given up

Chunks     == 0 .. TotalChunks - 1
Finalizers == Consumers \cup {Collector}

ASSUME ImportAssumption ==
    /\ IsFiniteSet(Consumers) /\ Nobody \notin Finalizers /\ Collector \notin Consumers
    /\ TotalChunks \in Nat \ {0, 1}
    /\ MaxRetries \in Nat /\ MaxFaults \in Nat /\ MaxRecoveries \in Nat
    /\ ReadsFail \in BOOLEAN

VARIABLES
    job,         \* the row of manual_import_jobs
    kept,        \* the job's rows of manual_import_job_chunks are there
    stored,      \* chunks whose videos are in the table of videos
    feed,        \* chunks whose videos are in the playback feed
    feedLock,    \* holder of the finalization lock in playback_feed_state
    queue,       \* bag of the messages that name the job
    run,         \* the invocation of each consumer
    request,     \* the request that imports, and its answer
    collection,  \* the scheduled collection
    recoveries,  \* recovery messages so far
    faults       \* failed calls and ended invocations so far

vars == <<job, kept, stored, feed, feedLock, queue, run, request, collection,
          recoveries, faults>>

Lock == [holder: Finalizers \cup {Nobody}, expired: BOOLEAN]
Free == [holder |-> Nobody, expired |-> FALSE]
HeldBy(f) == [holder |-> f, expired |-> FALSE]
Open(lock) == lock.holder = Nobody \/ lock.expired

Active  == {"pending", "processing", "finalizing"}
Settled == {"completed", "failed"}

Job == [status: {"absent"} \cup Active \cup Settled,
        next: 0 .. TotalChunks,       \* next_chunk
        changed: 0 .. TotalChunks,    \* changed_count, in chunks
        failures: 0 .. MaxFailures,   \* failure_count
        lock: Lock]                   \* lock_token, lock_until

\* A message waits out the lock that was in its way (retry after 300 s).
Message == [attempts: 0 .. MaxRetries, behind: Consumers \cup {Nobody}]
Fresh   == [attempts |-> 0, behind |-> Nobody]

Run == [step: {"idle", "acquire", "look", "save", "advance", "feed", "sync", "commit",
               "abandon", "complete", "defer", "release", "sweep", "judge", "publish"},
        attempts: 0 .. MaxRetries,    \* of the message
        chunk: 0 .. TotalChunks,      \* nextChunk as acquired
        changed: 0 .. TotalChunks,    \* changed by this chunk; as acquired when finalizing
        done: {"ok", "failed"}]       \* whether the sweep ends a success
NoRun == [step |-> "idle", attempts |-> 0, chunk |-> 0, changed |-> 0, done |-> "ok"]

TypeOK ==
    /\ job \in Job /\ kept \in BOOLEAN
    /\ stored \subseteq Chunks /\ feed \subseteq Chunks
    /\ feedLock \in Lock
    /\ IsABag(queue) /\ BagToSet(queue) \subseteq Message
    /\ run \in [Consumers -> Run]
    /\ request \in {"store", "send", "withdraw", "accepted", "refused", "lost"}
    /\ collection \in {"due", "feed", "sync", "commit", "abandon", "over"}
    /\ recoveries \in 0 .. MaxRecoveries /\ faults \in 0 .. MaxFaults

Init ==
    /\ job = [status |-> "absent", next |-> 0, changed |-> 0, failures |-> 0, lock |-> Free]
    /\ kept = FALSE /\ queue = EmptyBag
    /\ stored \in SUBSET Chunks /\ feed = stored
    /\ feedLock = Free
    /\ run = [c \in Consumers |-> NoRun]
    /\ request = "store" /\ collection = "due"
    /\ recoveries = 0 /\ faults = 0

Fault == faults < MaxFaults /\ faults' = faults + 1
NoFault == UNCHANGED faults

Send(m) == queue' = queue (+) SetToBag({m})

\* A database call takes effect and is answered, or takes effect or not and
\* ends in an error.
Call(effect, none, then, error) ==
    \/ effect /\ then /\ NoFault
    \/ (effect \/ none) /\ error /\ Fault

-----------------------------------------------------------------------------
(* The request (runManualImport).                                          *)

enqueueManualImportJob ==
    /\ request = "store"
    /\ job' = [job EXCEPT !.status = "pending"] /\ kept' = TRUE
    /\ request' = "send"
    /\ UNCHANGED <<stored, feed, feedLock, queue, run, collection, recoveries, faults>>

SendFirst ==
    /\ request = "send"
    /\ \/ Send(Fresh) /\ request' = "accepted" /\ NoFault
       \/ (Send(Fresh) \/ UNCHANGED queue) /\ request' = "withdraw" /\ Fault
    /\ UNCHANGED <<job, kept, stored, feed, feedLock, run, collection, recoveries>>

\* Mutant: a job that was completed meanwhile is failed all the same.
WithdrawAnyway ==
    /\ request = "withdraw" /\ request' = "refused"
    /\ \/ /\ job' = [job EXCEPT !.status = "failed", !.failures = MaxFailures, !.lock = Free]
          /\ kept' = FALSE /\ NoFault
       \/ UNCHANGED <<job, kept>> /\ Fault
    /\ UNCHANGED <<stored, feed, feedLock, queue, run, collection, recoveries>>

\* Errors are ignored: the client is refused either way.
failManualImportJob ==
    /\ request = "withdraw" /\ request' = "refused"
    /\ \/ /\ job' = IF job.status \in Settled THEN job
                    ELSE [job EXCEPT !.status = "failed", !.failures = MaxFailures,
                                     !.lock = Free]
          /\ kept' = FALSE /\ NoFault
       \/ UNCHANGED <<job, kept>> /\ Fault
    /\ UNCHANGED <<stored, feed, feedLock, queue, run, collection, recoveries>>

RequestEnds ==
    /\ request \in {"send", "withdraw"} /\ request' = "lost" /\ Fault
    /\ UNCHANGED <<job, kept, stored, feed, feedLock, queue, run, collection, recoveries>>

-----------------------------------------------------------------------------
(* One delivery (consumeManualImportMessage, runManualImportJobChunk).     *)

At(c, s) == run[c].step = s
Go(c, s) == run' = [run EXCEPT ![c].step = s]
Finish(c) == run' = [run EXCEPT ![c] = NoRun]

\* The message goes back to the queue, or to the dead letter queue for good.
Retry(c, lockHolder) ==
    /\ IF run[c].attempts < MaxRetries
       THEN Send([attempts |-> run[c].attempts + 1, behind |-> lockHolder])
       ELSE UNCHANGED queue
    /\ Finish(c)

Deliver(c) ==
    /\ At(c, "idle")
    /\ \E m \in BagToSet(queue) :
          /\ m.behind = Nobody \/ job.lock.holder # m.behind \/ job.lock.expired
          /\ queue' = queue (-) SetToBag({m})
          /\ run' = [run EXCEPT ![c] = [NoRun EXCEPT !.step = "acquire",
                                                     !.attempts = m.attempts]]
    /\ UNCHANGED <<job, kept, stored, feed, feedLock, request, collection, recoveries, faults>>

\* Mutant: a lock counts for ever.
AcquirableUnlocked == job.status \in Active /\ job.lock.holder = Nobody

Acquirable == job.status \in Active /\ Open(job.lock)

Acquired(c) ==
    job' = [job EXCEPT !.lock = HeldBy(c),
                       !.status = IF @ = "finalizing" THEN @ ELSE "processing"]

\* What an acquired job asks for.  A job that changed nothing needs no new feed.
FirstStep == IF job.status # "finalizing" THEN "save"
             ELSE IF job.changed > 0 THEN "feed" ELSE "complete"

acquireJob(c) ==
    /\ At(c, "acquire")
    /\ \/ /\ Acquirable
          /\ Call(Acquired(c), UNCHANGED job,
                  run' = [run EXCEPT ![c].step = FirstStep, ![c].chunk = job.next,
                                     ![c].changed = job.changed],
                  Go(c, "judge"))
       \/ ~Acquirable /\ Go(c, "look") /\ UNCHANGED <<job, faults>>
    /\ UNCHANGED <<kept, stored, feed, feedLock, queue, request, collection, recoveries>>

\* Mutant: only a job nobody works on is waited for.
LookForPending(c) ==
    /\ At(c, "look")
    /\ \/ job.status = "pending" /\ Retry(c, job.lock.holder)
       \/ job.status # "pending" /\ Finish(c) /\ UNCHANGED queue
    /\ UNCHANGED <<job, kept, stored, feed, feedLock, request, collection, recoveries, faults>>

\* The job could not be acquired.  A status that cannot be read counts as none.
Look(c) ==
    /\ At(c, "look")
    /\ \/ job.status \in Active /\ Retry(c, job.lock.holder) /\ NoFault
       \/ job.status \notin Active /\ Finish(c) /\ UNCHANGED <<queue, faults>>
       \/ ReadsFail /\ Fault /\ Finish(c) /\ UNCHANGED queue
    /\ UNCHANGED <<job, kept, stored, feed, feedLock, request, collection, recoveries>>

\* readJobChunk and persistMergedFeed.
processJobChunk(c) ==
    /\ At(c, "save")
    /\ LET fill == {run[c].chunk} \ stored
           Save == stored' = stored \cup fill
       IN \/ /\ kept
             /\ Call(Save, UNCHANGED stored,
                     run' = [run EXCEPT ![c].step = "advance",
                                        ![c].changed = Cardinality(fill)],
                     Go(c, "release"))
          \/ ~kept /\ Go(c, "release") /\ UNCHANGED <<stored, faults>>
    /\ UNCHANGED <<job, kept, feed, feedLock, queue, request, collection, recoveries>>

Holds(c) == job.lock.holder = c

\* Mutant: one delivery too many is asked for.
AdvancedBeyond(c) ==
    [job EXCEPT !.next = @ + 1, !.changed = @ + run[c].changed, !.failures = 0, !.lock = Free,
                !.status = IF job.next < TotalChunks THEN "pending" ELSE "finalizing"]

\* Mutant: the last chunk alone decides whether the feed is rebuilt.
AdvancedByLast(c) ==
    [job EXCEPT !.next = @ + 1, !.changed = @ + run[c].changed, !.failures = 0, !.lock = Free,
                !.status = IF job.next + 1 < TotalChunks THEN "pending"
                           ELSE IF run[c].changed = 0 THEN "completed" ELSE "finalizing"]

\* A chunk is done; after the last, the feed is rebuilt unless nothing changed.
Advanced(c) ==
    LET next    == job.next + 1
        changed == job.changed + run[c].changed
    IN [job EXCEPT !.next = next, !.changed = changed, !.failures = 0, !.lock = Free,
                   !.status = IF next < TotalChunks THEN "pending"
                              ELSE IF changed = 0 THEN "completed" ELSE "finalizing"]

\* Mutant: the update does not ask for the lock token.
AdvanceAnyway(c) ==
    /\ At(c, "advance")
    /\ Call(job' = Advanced(c), UNCHANGED job,
            Go(c, IF Advanced(c).status = "completed" THEN "sweep" ELSE "publish"),
            Go(c, "release"))
    /\ UNCHANGED <<kept, stored, feed, feedLock, queue, request, collection, recoveries>>

advanceJob(c) ==
    /\ At(c, "advance")
    /\ \/ /\ Holds(c)
          /\ Call(job' = Advanced(c), UNCHANGED job,
                  Go(c, IF Advanced(c).status = "completed" THEN "sweep" ELSE "publish"),
                  Go(c, "release"))
       \/ ~Holds(c) /\ Go(c, "release") /\ UNCHANGED <<job, faults>>
    /\ UNCHANGED <<kept, stored, feed, feedLock, queue, request, collection, recoveries>>

\* finalizeJob after the feed, or the counts beside it, were written or failed.
finalizeJob(c) ==
    /\ At(c, "complete")
    /\ \/ /\ Holds(c)
          /\ Call(job' = [job EXCEPT !.status = "completed", !.failures = 0, !.lock = Free],
                  UNCHANGED job, Go(c, "sweep"), Go(c, "release"))
       \/ ~Holds(c) /\ Go(c, "release") /\ UNCHANGED <<job, faults>>
    /\ UNCHANGED <<kept, stored, feed, feedLock, queue, request, collection, recoveries>>

\* Another finalization is under way: this one is put off.
releaseBusyFinalization(c) ==
    /\ At(c, "defer")
    /\ \/ /\ Holds(c) /\ job.status = "finalizing"
          /\ Call(job' = [job EXCEPT !.lock = Free], UNCHANGED job,
                  Go(c, "publish"), Go(c, "judge"))
       \/ ~Holds(c) /\ Go(c, "judge") /\ UNCHANGED <<job, faults>>
    /\ UNCHANGED <<kept, stored, feed, feedLock, queue, request, collection, recoveries>>

\* An error counts against the job, which is given up at the third.
Released ==
    [job EXCEPT !.failures = @ + 1, !.lock = Free,
                !.status = IF job.failures + 1 >= MaxFailures THEN "failed"
                           ELSE IF job.status = "finalizing" THEN "finalizing" ELSE "pending"]

\* Mutant: the chunks go with the first failure.
ReleaseAndSweep(c) ==
    /\ At(c, "release")
    /\ \/ /\ Holds(c)
          /\ Call(job' = Released, UNCHANGED job,
                  run' = [run EXCEPT ![c].done = "failed", ![c].step = "sweep"],
                  Go(c, "judge"))
       \/ ~Holds(c) /\ Go(c, "judge") /\ UNCHANGED <<job, faults>>
    /\ UNCHANGED <<kept, stored, feed, feedLock, queue, request, collection, recoveries>>

releaseForRetry(c) ==
    /\ At(c, "release")
    /\ \/ /\ Holds(c)
          /\ Call(job' = Released, UNCHANGED job,
                  run' = [run EXCEPT ![c].done = "failed",
                          ![c].step = IF Released.status = "failed" THEN "sweep" ELSE "judge"],
                  Go(c, "judge"))
       \/ ~Holds(c) /\ Go(c, "judge") /\ UNCHANGED <<job, faults>>
    /\ UNCHANGED <<kept, stored, feed, feedLock, queue, request, collection, recoveries>>

\* The chunks of a settled job are deleted.  In releaseForRetry an error of the
\* deletion is ignored, after a completion it is an error of the delivery.
Sweep(c) ==
    /\ At(c, "sweep")
    /\ Call(kept' = FALSE, UNCHANGED kept,
            IF run[c].done = "ok" THEN Finish(c) ELSE Go(c, "judge"),
            Go(c, IF run[c].done = "ok" THEN "release" ELSE "judge"))
    /\ UNCHANGED <<job, stored, feed, feedLock, queue, request, collection, recoveries>>

\* The delivery ended with an error: a job that failed needs no other.
Judge(c) ==
    /\ At(c, "judge")
    /\ \/ job.status = "failed" /\ Finish(c) /\ UNCHANGED <<queue, faults>>
       \/ job.status # "failed" /\ Retry(c, Nobody) /\ NoFault
       \/ job.status = "failed" /\ ReadsFail /\ Fault /\ Retry(c, Nobody)
    /\ UNCHANGED <<job, kept, stored, feed, feedLock, request, collection, recoveries>>

\* The next message is sent before this one is acknowledged; an invocation that
\* ends in between is one that saw the sending fail.
PublishNext(c) ==
    /\ At(c, "publish")
    /\ Call(Send(Fresh), UNCHANGED queue, Finish(c), Go(c, "judge"))
    /\ UNCHANGED <<job, kept, stored, feed, feedLock, request, collection, recoveries>>

\* The invocation is ended; its message is delivered again.
Killed(c) ==
    /\ ~At(c, "idle") /\ Fault /\ Retry(c, Nobody)
    /\ UNCHANGED <<job, kept, stored, feed, feedLock, request, collection, recoveries>>

\* The job's lock times out: that of an invocation that ended, or of one that
\* works for more than five minutes.
Working(c) == run[c].step \notin {"idle", "acquire", "look", "judge", "publish"}

LockExpires ==
    /\ job.lock.holder # Nobody /\ ~job.lock.expired
    /\ job' = [job EXCEPT !.lock.expired = TRUE]
    /\ IF Working(job.lock.holder) THEN Fault ELSE NoFault
    /\ UNCHANGED <<kept, stored, feed, feedLock, queue, run, request, collection, recoveries>>

\* consumeRecoveryMessage: sent by hand after a deployment; when it fails it is
\* delivered again.
Recover ==
    /\ recoveries < MaxRecoveries /\ recoveries' = recoveries + 1
    /\ job.status \in Active /\ Send(Fresh)
    /\ UNCHANGED <<job, kept, stored, feed, feedLock, run, request, collection, faults>>

-----------------------------------------------------------------------------
(* The playback feed (withPlaybackFeedFinalization), rebuilt by a consumer *)
(* or by the collection.                                                   *)

Phase(f) == IF f = Collector THEN collection ELSE run[f].step

\* Where an error leads, and what follows a finished or a refused finalization.
Then(f, step, over) ==
    IF f = Collector
    THEN /\ collection' = (IF step \in {"sync", "commit", "abandon"} THEN step ELSE over)
         /\ UNCHANGED run
    ELSE Go(f, step) /\ UNCHANGED collection

OutsideFeed == <<job, kept, stored, queue, request, recoveries>>

acquirePlaybackFeedFinalization(f) ==
    /\ Phase(f) = "feed"
    /\ \/ /\ Open(feedLock)
          /\ Call(feedLock' = HeldBy(f), UNCHANGED feedLock,
                  Then(f, "sync", "over"), Then(f, "release", "over"))
       \/ ~Open(feedLock) /\ Then(f, "defer", "over") /\ UNCHANGED <<feedLock, faults>>
    /\ UNCHANGED <<OutsideFeed, feed>>

\* One batch replaces the feed by the videos of the moment.
syncCompactedFeedInDatabase(f) ==
    /\ Phase(f) = "sync"
    /\ Call(feed' = stored, UNCHANGED feed, Then(f, "commit", "over"), Then(f, "abandon", "over"))
    /\ UNCHANGED <<OutsideFeed, feedLock>>

commitPlaybackFeedFinalization(f) ==
    /\ Phase(f) = "commit"
    /\ \/ /\ feedLock.holder = f
          /\ Call(feedLock' = Free, UNCHANGED feedLock,
                  Then(f, "complete", "over"), Then(f, "abandon", "over"))
       \/ feedLock.holder # f /\ Then(f, "abandon", "over") /\ UNCHANGED <<feedLock, faults>>
    /\ UNCHANGED <<OutsideFeed, feed>>

\* The lock is given back; an error of that is logged only.
abandonPlaybackFeedFinalization(f) ==
    /\ Phase(f) = "abandon"
    /\ LET Back == feedLock' = IF feedLock.holder = f THEN Free ELSE feedLock
       IN Call(Back, UNCHANGED feedLock, Then(f, "release", "over"), Then(f, "release", "over"))
    /\ UNCHANGED <<OutsideFeed, feed>>

FeedLockExpires ==
    /\ feedLock.holder # Nobody /\ ~feedLock.expired
    /\ feedLock' = [feedLock EXCEPT !.expired = TRUE]
    /\ IF Phase(feedLock.holder) \in {"sync", "commit", "abandon"} THEN Fault ELSE NoFault
    /\ UNCHANGED <<OutsideFeed, feed, run, collection>>

\* The scheduled collection stores what it found, which may be videos of the
\* job, and rebuilds the feed; it may end at any time.
Collect ==
    /\ collection = "due" /\ collection' = "feed"
    /\ \E found \in SUBSET Chunks : stored' = stored \cup found
    /\ UNCHANGED <<job, kept, feed, feedLock, queue, run, request, recoveries, faults>>

CollectionEnds ==
    /\ collection \notin {"due", "over"} /\ collection' = "over" /\ Fault
    /\ UNCHANGED <<OutsideFeed, feed, feedLock, run>>

-----------------------------------------------------------------------------
Finalize(f) ==
    \/ acquirePlaybackFeedFinalization(f) \/ syncCompactedFeedInDatabase(f)
    \/ commitPlaybackFeedFinalization(f)  \/ abandonPlaybackFeedFinalization(f)

Deliveries(c) ==
    \/ Deliver(c) \/ acquireJob(c) \/ Look(c) \/ processJobChunk(c) \/ advanceJob(c)
    \/ finalizeJob(c) \/ releaseBusyFinalization(c) \/ releaseForRetry(c) \/ Sweep(c)
    \/ Judge(c) \/ PublishNext(c) \/ Finalize(c)

Request == enqueueManualImportJob \/ SendFirst \/ failManualImportJob

Next ==
    \/ Request \/ RequestEnds
    \/ \E c \in Consumers : Deliveries(c) \/ Killed(c)
    \/ Finalize(Collector) \/ Collect \/ CollectionEnds
    \/ LockExpires \/ FeedLockExpires \/ Recover

Spec == Init /\ [][Next]_vars

\* Deliveries and locks' time limits go on; the collection need not come.
Fairness ==
    /\ WF_vars(Request) /\ WF_vars(Finalize(Collector))
    /\ \A c \in Consumers : WF_vars(Deliveries(c))
    /\ WF_vars(LockExpires) /\ WF_vars(FeedLockExpires)

FairSpec == Spec /\ Fairness

-----------------------------------------------------------------------------
(* Properties.                                                             *)

\* The chunks a job has behind it are stored, each exactly once counted: no
\* interleaving of deliveries, time limits and retries makes next_chunk skip
\* one.  The lock token in advanceJob is what this rests on.
NoChunkSkipped == \A chunk \in 0 .. job.next - 1 : chunk \in stored

\* A completed import that changed any video is played: the feed was rebuilt
\* after its last chunk (finalFeedCount before finalizeJob), also when other
\* deliveries, the collection or a lost answer came in between.
CompletedIsPlayed ==
    job.status = "completed" /\ job.changed > 0 =>
        job.next = TotalChunks /\ Chunks \subseteq feed

\* Chunks are deleted (releaseForRetry, failManualImportJob, finalizeJob) only
\* once the job is settled, so that every active job can be gone on with.
ActiveKeepsChunks == job.status \in Active => kept

\* A completed or failed job is never taken up again, by whichever delivery,
\* withdrawal or retry was still under way when it settled.
SettledIsFinal == [][job.status \in Settled => job' = job]_vars

\* An active job that was accepted has a message that will go on with it, or a
\* delivery that will send one (consumeManualImportMessage: "retries the Queue
\* message after the lock TTL instead of orphaning the job").
NeverOrphaned ==
    request = "accepted" /\ job.status \in Active =>
        queue # EmptyBag \/ \E c \in Consumers : ~At(c, "idle")

\* An accepted import is completed or given up: what must come true in the end.
AcceptedIsSettled == request = "accepted" => job.status \in Settled

=============================================================================
