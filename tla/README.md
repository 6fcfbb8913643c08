# HomePanel: specifications, model checks and proofs

HomePanel is a wall panel (a Windows program, `native/`), a Cloudflare Worker that
collects and serves its data (`cloud/`), and a second Worker that collects and checks
videos (`video/`, served by the same deployment). This directory holds TLA+ modules
of the parts whose correctness depends on the order in which things happen: what is
retried, lost, interrupted or done twice.

## 1. Inventory

| Component | State | Operations | What is hard |
| --- | --- | --- | --- |
| Telemetry delivery (`native/src/sensors*.cpp`, `cloud_client_exchange.inc`, `cloud/src/telemetry_compact.ts`, `environment_r2.ts`, `telemetry_heartbeat.ts`) | `outbox.ndjson`, `outbox.ack`, `outbox_`, `nextSequence_`, one slot `pendingTelemetry_`; one R2 object with `lastSequences` and buckets; a heartbeat row in D1 | append a sample, queue a payload, exchange, merge, acknowledge, compact, renumber, load at start | crashes between writes, two HTTP attempts of one request running at once, several devices writing one object, a data race on `nextSequence_` |
| Job scheduler (`cloud/src/scheduler*.ts`) | `jobs` rows; the single alarm of a Durable Object | tick: select, run, complete; refresh; reconcile; `/wake`, `/ensure`; recovery alarm | refresh against completion, alarm set from a value read before an await, D1 errors after the alarm has been cleared |
| Device commands, configuration and release announcement (`device_control.ts`, `device_command_delivery.ts`, `update_check.ts`, `native/src/app_commands.cpp`) | `device_commands`, `device_config` rows; `commands.json`, `command-acks.pending`; the release announced last | enqueue once, claim, redeliver, acknowledge, execute, announce a release, ETag-guarded update | redelivery against acknowledgement, a crash between execution and saving, row ids used again, two isolates announcing at once |
| State versions and synchronisation (`snapshot.ts`, `device_sync*.ts`, `state_generation.ts`, `dashboard_cache.ts`, `cloud_client_sync.cpp`) | `states` rows with versions and hashes, per-isolate caches; the client's cache files | update a state, build a delta, apply a delta | stale caches, a crash between payload and metadata |
| Updater (`app_update.cpp`, `updater.cpp`, `updater_entry.cpp`) | installed files, backup, `pending-update.json`, the installer mutex | save the manifest, start a runner, wait for the panel, replace, verify, copy back, restart | a runner killed between two files, two runners, an older manifest |
| Telemetry tables (`telemetry_route.ts`, `telemetry_bucket.ts`, `telemetry_history.ts`, `snapshot.ts`) | samples with an `applied` mark, buckets, the row `environment`, each isolate's copy of it | insert, aggregate once, merge into the row under its version, rebuild | requests with the same samples, a cached row that changes during an await |
| Response caches (`dashboard_cache.ts`, `state_generation.ts`) | entry and pending load per isolate, the generation | answer, load, mark a change | a load that began before a change |
| Video collection (`video/src/collection-*.js`, `scheduled-*.js`) | runs, captures, the abort of a source | start, capture, filter, store, abandon, close stale runs | a task that goes on after its timeout, an isolate that dies |
| Video imports (`manual-import*.js`) | `manual_import_jobs` and their chunks, queue messages, the lock in `playback_feed_state` | store, send, lock, store a chunk, advance, finalize the feed, retry, withdraw, recover | an invocation that ends or outlives its lock, messages delivered twice or not at all, the collection rebuilding the feed at the same time |
| Video liveness, blocking and counters (`liveness-*.js`, `video-blocklist.js`, `status-counts.js`, `video_liveness.ts`) | status of videos, death and block lists, the feed, the position of a pass, counters | lock, choose, probe, mark, evict; block and unblock; refresh counters | a video imported again or blocked while it is probed, a failure after any write |
| Playback (`playback-*.js`, `entry-core.js`, `video/public/*.js`) | the shuffled feed, cursors, cached pages, the player page with two elements | fetch a page, invalidate, show, skip, preload | the feed changes under the cursor, a block during a read, async functions overtaken by newer ones |
| Spotify, SwitchBot, Octopus, radar sources (`spotify_*.ts`, `switchbot*.ts`, `octopus_*.ts`, `radar_*.ts`) | tokens, presence, readings and daily sums, bundles | authorize, refresh, poll, webhook, collect, prewarm, assemble | a refresh and an authorization at once, webhooks late, readings late or corrected, puts out of order |
| Stationhead (`stationhead_health.ts`; `sh*.cpp`, `app_stationhead_*.cpp`) | the health row and its mails; web views | check, mail, store; poll, recover | a mail sent and not recorded, or recorded and not sent |
| Rendering, configuration, logging (`renderer*.cpp`, `config.cpp`, `logger.cpp`, `web_renderer.h`) | pixels, settings | draw, parse | none that a model of this kind reaches |

The panel polls the Worker with one request, `POST /v1/device/exchange`: it carries
the versions the panel holds and at most one telemetry payload, and brings back the
changed states, pending commands and a telemetry receipt. The Worker's states are
written by the jobs the scheduler runs. The Durable Object wakes the scheduler;
requests (refresh, ensure) wake the Durable Object.

The main properties of each part, and what would break them, are the `hazards` of
`PROJECT.json`: telemetry is never lost and never counted twice; an alarm is always set and no
refresh is forgotten; a command is carried out, once, before it counts as completed; a release
counts as announced only when the panels were told; versions that agree mean contents that agree;
an import skips nothing, settles, and is played; what is blocked or dead is not shown; an exit turns
the plugs off; a source never waits for ever, nor a page but for a video that stalls; what is put together from several places is
what was fetched; the newest executable is never beside files of another release.

## 2. Plan

The order followed was: telemetry, scheduler, commands and release announcement, state
synchronisation, imports (each with its runs), proofs of the first three; then the library with liveness and
blocking, collection runs, playback and the player page, response caches, telemetry tables, health mails,
presence, energy, rain, Spotify, the updater; and the proofs of imports and of the announcement; then those of the
components of `MCStores` and `MCLoops` and the refinement of `TelemetryPromise`.

What is left, the most useful first:

1. Proofs: the remaining invariants of section 6 ("Only model-checked").
2. Several import jobs at once with the finalization they share, and the synchronous import of few URLs.
3. The finalization after a scheduled group, and the ranks and the limit of the feed.
4. Recovery of the panel's Stationhead web views (`app_stationhead_*.cpp`).

The number of runs is kept small: components that do not interact share a run (section 4).

## 3. Modules

### Telemetry, TelemetryPromise, MCTelemetry

A sample is its position in the device's order of appending. The outbox, the file and
a payload are functions from samples to sequence numbers, 0 for a sample that is not there.

| Code | Model |
| --- | --- |
| `SensorHub::SerialLoop` | `DrawSequence`, `AdvanceSequence` (two steps, because `nextSequence_` is read and written without `mutex_`), `SkipSample`, `AppendOutbox`, `TearAppend` |
| `LoadOutbox` and the constructor after a crash | `Restart` |
| `SendTelemetryAsync`, `QueueTelemetry` | `QueueTelemetry` |
| `TryCompressedExchange`, `Request` | `StartExchange`, `TimeOut`, `Resend`, `TakeReceipt` |
| `ApplyTelemetryReceipt` | `RebaseOutbox`, `PersistAck`, `AdoptReceipt`: three steps between which the process may die, under the hub's mutex |
| `mergeR2EnvironmentTelemetry` | `ReadDocument`, `PutDocument` (compare-and-set, retried) |
| the heartbeat upsert, the reply | `UpsertHeartbeat`, `EndInvocation` |

`TelemetryPromise` says what a sample may go through: new, then kept on disk, then counted
once, and nothing else, until the disk of its device loses a write (`Damage`); `KeptUntilCounted` is that
`Telemetry` implements it, with the status of a sample read off the durable state. The history variable `whole[d]`
says that no append of device `d` was torn and no write of `outbox.ack` failed: after either the
device can use a sequence number again, the Worker takes the second sample for the first, and
neither `KeptUntilCounted` nor `AcknowledgedIsCounted` speaks of it any more.

### Scheduler, MCScheduler

Every await is a step boundary. `FireAlarm`, `SelectJob`, `FinishJob`, `ReadNextWake` and
`ArmNext` are the alarm handler; `StartEnsure`/`ArmEnsure` the `/ensure` request, `Wake` the
`/wake` request, `StartRefresh`/`MarkRefresh` a refresh request. `EvictTick` stands for the platform
(a Durable Object whose alarm handler does not return is given its alarm again).

### CommandTable, CommandDelivery, MCCommandDelivery

`CommandTable` holds the rows of `device_commands` and its statements as operators: `Inserted`
(`enqueueCommandOnce`: unless the same command is open), `Claimed` (oldest rows that were never
delivered, or not for 90 s), `Acknowledged`, `Cleaned`. `NewId` is SQLite's choice of an id: one more than
the largest in use, so that the id of a deleted last row is used again. Time is three facts of a
row (may be redelivered, not expired, retained) that `AgedRow` takes away.

| Code | Model |
| --- | --- |
| `enqueueCommandOnce`; the exchange's claim; retention | `Enqueue`; `Claim`; `Cleanup`, `Age` |
| the reply, `commands.json`, `WM_HP_COMMANDS_UPDATED` | `WriteInbox`, `LoseReply` |
| `App::ProcessRemoteCommands` | `BeginProcessing`, then per command `RetryAck`, `Defer` (an update is under way) or `Execute`, `Record`, `Confirm`; `FinishProcessing` |
| `AcknowledgeCommand` and its request | `Record` and `RetryAck` send it, `ApplyAck` and `LoseAck` decide its fate, `Confirm` what the panel sees of it |
| the end of an update check; of the process | `EndUpdate`; `Restart` |

### UpdateCheck, MCUpdateCheck

`performUpdateCheck`, one action per await: `ReadManifest`, `ReadPrevious`, `ReadDevices`, then for each
device `TryInsert` and, when a row was in the way, `FindExisting`; `Store`. `Fail` ends a check
with an error at any of them. A release is its number.

### StateSync, MCStateSync

| Code | Model |
| --- | --- |
| `updateState` with new content, with the content of the row, with an error; the environment's object | `UpdateSource`, `RepeatSource`, `FailSource`; `UpdateEnvironment` |
| `readR2EnvironmentState` with each isolate's cache | `ReadEnvironment`, `ExpireCache` |
| `deviceSyncSnapshot`, `buildDeviceSyncPayloadForDevice` | `CompareVersions`, then `ReadPayloads` in a later statement |
| the panel's poll | `StartPoll`, `WriteDocument` per file, `AcceptVersions`, `FailPoll` |
| presence forced to home; the error in the dashboard | `ForcePresence`, `ShowError` |
| a restart, which reads files and `dashboard.meta.json` | `Restart` |

A file is its parts' versions, which stand for their content, and the status of each source that the dashboard shows. `updateState`
raises the version with the hash of the content only: `RepeatSource` and `FailSource` change the dashboard without a version, which no poll
tells the panel. The properties therefore ask for current content, and leave open whether the file shows a source as ok or as stale.

### VideoImport, MCVideoImport

One job and the invocations of the queue handler that work on it. `Call` is a database or queue
call: it takes effect and is answered, or ends in an error with or without having taken effect.

| Code | Model |
| --- | --- |
| `runManualImport` of more than 20 URLs | `enqueueManualImportJob`, `SendFirst`, `failManualImportJob` |
| `consumeManualImportMessage` | `Deliver`, `acquireJob`, `Look` (not acquired), `PublishNext`, `Judge` (after an error) |
| `runManualImportJobChunk` | `processJobChunk`, `advanceJob`, or the feed's steps, `finalizeJob`, `releaseBusyFinalization`; `releaseForRetry`, `Sweep` |
| `withPlaybackFeedFinalization`, by a delivery or the collection | `acquirePlaybackFeedFinalization`, `syncCompactedFeedInDatabase`, `commitPlaybackFeedFinalization`, `abandonPlaybackFeedFinalization` |
| five and ten minutes | `LockExpires`, `FeedLockExpires` |
| the recovery message after a deployment | `Recover` |

### VideoLibrary, PlaybackPages, PlaybackCache, Player

`VideoLibrary` is the tables and all their writers; a statement or batch of D1 is atomic with its triggers.

| Code | Model |
| --- | --- |
| `runLivenessMonitor`, one video a run | `LivenessStep` (lock, choice, probe, verdict, mark or evict, counters, record, release), `RunLost`, `LockExpires` |
| the viewer's block and unblock | `BlockRead`, `BlockWrite`, `BlockAbandoned`, `Unblock` |
| a collection or import that stores videos | `FilterItems`, `UpsertItems`, `SyncFeed`, `RefreshStatusVideoCounts`, `StoringStops` |
| counters marked dirty; 48 hours | `RefreshDirtyCounts`; `Ages` |

`PlaybackPages` is one walk over the shuffled ring: `Request`, `QueryAll`, `QueryOriented`, and `FeedChanges` between any
two queries. `PlaybackCache` is the map of pages of an isolate: `CachedPlaybackPage`, `ReadLands`, `ReadReturns`,
`ReadFails`, `EntryLeaves`, `BlockWrites`, `BlockAnswers`, `OtherInvalidation`. `Player` runs the page's async functions from
await to await (`CallStep`), lets the two video elements report (`ElementStep`, `MediaError`) and the viewer act
(`ViewerStep`); tokens and generations are reduced to being the newest or stale.

### CollectionRun

The group (`GroupStep`) runs its sources one after another; each is a task (`TaskStep`) raced against a timeout
(`Abort`, `RaceSettles`) with a runner that records the outcome (`RunnerStep`). `IsolateLost` ends everything at once, and
`CloseStaleCollectionRuns` is what the next run does about it.

### TelemetryStore, ResponseCache

`TelemetryStore` is `POST /v1/telemetry`: one action per statement, batch and await of a request, from `Receive` over
`InsertSamples`, `ReadBack`, `ApplyBuckets`, `Heartbeat` to the merge (`ReadPrevious`, `Hashed`, `CompareAndSet`, `Won`,
`Conflict`) or the rebuild (`ReadBuckets`, `Reread`, `Upsert`). `ResponseCache` is one of the two caches of `dashboard_cache.ts`: `Begin`
(hit, join a load, or load), `ReadRows`, `LoadEnds`, `LoadFails`, against `Store`, `MarkStateChanged`, `StoreElsewhere`, `Expire`.

### StationheadHealth, SwitchBot, Octopus, Radar, SpotifyAuth

| Module | Actions |
| --- | --- |
| `StationheadHealth` | `Collect`, `Check`, `Sent`/`SendFails`, `PersistHealth`, `Configure`, `Crash` |
| `SwitchBot` | `Happens` (at home), `Poll`, `DevicesAnswer`, `Webhook`, `TurnOff`, `UpdateState`, failures of each, `Age` |
| `Octopus` | the supplier (`Tick`, `PublishLate`, `Amend`, `TokenExpires`, `Refuse`) and the job, a request, batch or query a step |
| `Radar` | the supplier (`Observe`, `Forecast`), the job (`fetchRadar`, `prewarmRadarBundle`, `updateState`), requests for a bundle with shards, the edge and late puts |
| `SpotifyAuth` | `startSpotifyAuthorization`, callbacks (`SelectSession` to `StoreCredentials`), access tokens (`Select`, `TradeRefreshToken`, `UpdateCredentials`) |

### Updater

| Code | Model |
| --- | --- |
| `CheckForUpdateAsync`, `LaunchVerifiedUpdater`; `HardenedRunStandalone`, `LaunchRunner` | `CheckForUpdate`; `RunStandalone`; both `SaveManifest`, `CopyRunner`, `CreateRunner`, `LaunchFails` |
| the installer mutex; the checks of version and manifest | `Lock`; `CheckManifest` |
| download; `WaitForExit`, `EnsureHomePanelStopped`; backup | `Download`; `PanelStopped`; `Backup` |
| `ReplaceOne`, `VerifyInstalledFiles`, `RestoreBackupChecked`, a file a step | `ReplaceOne`, `VerifyInstalledFiles`, `RestoreBackup` |
| `RestartHomePanel`, `App::Run`, `StopServices` | `Finish`, `StartPanel`, `PanelEnds` |
| a runner that is killed; an error; damage from outside | `KillRunner`; `InstallFails`; `Spoil` |

### Instances for TLC and proofs

`MCTelemetry`, `MCScheduler`, `MCCommandDelivery`, `MCUpdateCheck`, `MCStateSync`, `MCVideoImport`, `MCTelemetryStore`
instantiate one component. `MCStores`, `MCLoops`, `MCSources` and `MCArrivals` put several that do not interact
into one run (section 4); their constants are given values in the `.cfg` files. `TelemetryProofs`, `SchedulerProofs`, `CommandProofs`,
`ArrivalsProofs` (those of `MCArrivals`), `SourcesProofs` (the components of `MCSources`), `StoresProofs` (those of `MCStores`) and `LoopsProofs` (those of `MCLoops`) hold the
theorems, `FiniteFacts` lemmas on finite sets and their sums.

## 4. Runs

A run of `MCStores`, `MCLoops`, `MCSources` or `MCArrivals` is made of several small instances: a variable `part`, chosen
at the start and never changed, says which component moves; the others rest in their initial
states. The states add up instead of multiplying, every property is about its own component, and
the fairness of a component is asked of its own behaviours only.

| Run | Question | Bounds |
| --- | --- | --- |
| Telemetry_counts | is a sample kept until it is counted, counted once (refinement of `TelemetryPromise`) and acknowledged only then, and no count lost, when everything goes wrong? | 1 device, 2 invocations, 2 samples in batches of 1, 2 attempts, 3 sequence numbers; every fault: crashes, network, failing rewrites, torn appends, lost acknowledgement writes, a clock set back |
| Telemetry_store | expected to fail: history merged by another request is lost | 2 requests of one isolate, row present, no fault |
| Scheduler | alarm chain, alarm covers the table, refreshes kept, due jobs run | 2 jobs, 3 seconds, 1 refresh, 2 faults of any kind |
| Commands | no duplicates, nothing acknowledged that was not done, nothing done again | 1 panel, 2 commands, 1 restart, failing saves; retention periods do not end |
| Commands_live | is every command carried out and acknowledged? | the same without restarts; rows are deleted once nothing is on its way or being handled (`Quiet`: retention is days long) |
| Commands_reuse | expected to fail: a command completed though it was never carried out | rows deleted while `command-acks.pending` still names one |
| Sync_fallback | expected to fail: forced presence that outlives the outage | 1 restart between writing files and saving versions |
| Arrivals | imports: nothing skipped, settled once, played, never orphaned, settled in the end; synchronisation: do versions that agree mean files with the current content, and does every change of content arrive? | 2 chunks, 2 deliveries at a time, 1 fault, 1 recovery message, 1 collection, 5 retries as deployed; 1 source with 2 versions and any number of failures and recoveries, the environment with 1, 1 isolate with a cache, failing storage, any number of restarts while files and saved versions agree |
| Import_orphan | expected to fail: a job without a message | 1 delivery at a time, 2 faults, the status may be unreadable |
| Stores | are samples of the telemetry tables aggregated once and acknowledged only then; are cached answers and pages fresh; is an outage announced; do lists, feed and counters agree, and does a walk give every video once; are installed files of one release? | tables: 2 requests, 2 samples, 1 fault; 3 requests and 2 changes of a cache; 5 checks of the health row; 2 videos, 2 stores; 5 videos in pages of 1; 2 runners, 2 releases, 1 failure, kills at any time |
| Loops | is every sample delivered; does an exit turn the plugs off; do a group of sources and the player page go on, and leave consistent records? | 1 invocation and any number of network failures; 3 events at home, 1 webhook beside the poll; 2 sources, 2 videos, 2 faults; 2 pages, 2 calls at a time |
| Sources | is the latest release announced, and none without the panels being told; are energy readings, rain bundles and credentials those of one fetch, base time, grant? | 2 panels, 2 isolates, 2 releases, 1 failure; 3 days of 2 half hours, 1 late and 1 corrected reading, 2 faults; 2 base times, 2 requests, shards of 2; 2 devices, 2 sessions, 2 callbacks, 1 request |

Why the bounds are enough. Two samples are the fewest that leave one behind the batch, so that
renumbering, front-only batches and gaps happen; two invocations suffice for every conflict of a
compare-and-set. Merges of several devices are covered by the proofs, which hold for any number.
Two jobs are the fewest that compete for a tick. `ClaimLimit = 1` stands for the ten rows of a
claim, so that two commands already compete for it. What a second isolate with an older cache would answer, a failed read or the cache of the one isolate
answers too; `AgreedIsCurrent` was also checked once with two isolates and two versions of the environment. Two isolates and two panels make
a check overlap with another between telling the first and the second panel. Two chunks are the fewest with a
next chunk to skip; the handler is deployed with one delivery at a time, and two are checked because
the lock tokens are there for them. Three requests of a cache are one that loads, one that joins it and one that comes after the change. Two videos
are one that a pass stands on and one it may skip; five in two orientations give pages that end in the middle of
either phase. Three days of readings have one from the sums, one from the
readings and one just fetched. Two releases and two runners let an older manifest meet a newer installation.

What the runs leave out on purpose, by constant: `LegacyEnvironment = 0` and `LegacyLast = 0` (an installation without
an environment row or a heartbeat in D1: with a larger old environment the sum that is the dashboard's version may repeat, and
with an old heartbeat a payload queued between a receipt and the renumbering may be counted under two numbers);
`MaxUnclean = 0` (no end of the process while files and saved versions differ) and `ReadsFail = FALSE` in `Arrivals`; `RetentionEnds = FALSE` in `Commands`; `Materialised = FALSE` in `Stores`.
The violation runs set the last four.

Four disagreements between the code and what is said of it: `Commands_reuse`, `Sync_fallback`, `Import_orphan`,
`Telemetry_store` (`findings` in `PROJECT.json`).

Known limits that no run shows, met while modelling and kept out by the properties' wording:

* Scheduler and commands: a refresh that meets a run which a refresh started is overwritten by that run's end
  (`RefreshKept` is about the other runs); a redelivered command whose reply is written after its
  `command-acks.pending` entry was erased is carried out again (`NotRepeatedUnacknowledged` ends at the acknowledgement);
  two isolates may command a device twice for one release.
* Telemetry: a failed write of `outbox.ack` (`sensors_outbox.cpp:154`) together with a crash lets a sample be counted twice, and, like a
  torn append, together with a clock set back lets a new sample take a number that is acknowledged or counted
  already. `KeptUntilCounted` and `AcknowledgedIsCounted` are therefore about devices whose disk took those writes whole (`whole`); failed
  rewrites of `outbox.ndjson` are not excepted. The rebuild of the environment row (`snapshot.ts:258`) has no condition on the version.
* Telemetry tables: a sample that replaces an older one of its sequence while a request has that pending, to go into another bucket, is
  marked applied by that request, which goes by the sequence (`telemetry_bucket.ts:257`), and counted by none; its own request finds it
  applied and acknowledges it. `AcknowledgedIsCounted` excepts these samples (`displacing`) and no others.
* Synchronisation: a source that turns stale, or recovers with the content it had, changes the dashboard without a version
  (`snapshot.ts:238`, `snapshot.ts:265`), so that a panel whose versions agree shows the old status until some content changes. The same holds
  for error messages, times, the fields `stablePayload` leaves out of the hash, and the day by which the history of Octopus is cut, none of which are modelled.
* Player: nothing limits the wait for `play()` (`app-resilient.js:301`). While a video that has begun stalls there, `moving` stays set and swipes do
  nothing, until it settles or another orientation is selected; `NothingHangs` excepts just this (`OnlyPlayIsLeft`). A transition that was under way when
  another orientation was selected finishes over the newer list, and its `finally` (`app-resilient.js:404`) clears `moving` while that one loads;
  `PageIsConsistent` asks nothing of the active element after such a beginning (`overlapped`).
* Imports: a chunk whose changes were stored but not counted, because the answer or the update was lost, does not
  count towards the decision to rebuild the feed, which the next collection makes up for
  (`CompletedIsPlayed` is about jobs that counted a change).
* Library: a dead verdict on an old `media_url` is applied after the video was imported again with a new one; a run that
  marks a video dead and then fails to record itself does not invalidate cached pages (`entry-core.js:412`), which
  expire after 30 s.
* Energy: a day whose sum was torn by a failure stays wrong until one of its readings changes; `FetchedIsTrue` excludes it.
* Rain: the edge cache is keyed by the URL only and may serve a bundle of the same base time with fewer forecasts.
* Spotify: a slow refresh may overwrite a newer authorization's row with the older grant; the row is consistent.
* Updater: copying back is not a replacement, so that a copy cut short leaves a damaged file (`spoilt`; `NewestIsWhole` excludes
  it); a runner that fails before it has waited starts the panel while the old one still closes, which ends the new
  one at once (`App::Run`), and nobody runs until it is started by hand.

## 5. Fairness

`Telemetry`: threads keep running (weak fairness of their steps); an exchange that is tried
again and again is answered some time (strong fairness of the useful steps), because
the panel queues telemetry every few minutes, a request lasts at most two timeouts of 8 seconds,
and the network is assumed not to be down for ever. `Scheduler`: the clock, the platform's alarm and the
requests under way make progress; failures are finitely many (`MaxFaults`), any of them. `CommandDelivery`: the window
thread runs, panels poll every few seconds, of the exchanges and acknowledgements tried
again and again one gets through, and 90 seconds pass. `UpdateCheck`: checks under way end and new ones
start, as a scheduled job makes them. `StateSync`: polls are repeated for ever, and however often requests, storage and the process fail, a poll meets, at some time, working
storage and an isolate without a stale cache in every step; caches expire after their 30 s. `VideoImport`:
the queue delivers, locks reach their time limit, the request and the finalization under way go on; nothing is assumed about
the collection or recovery messages coming. `SwitchBot`: time passes, the scheduler polls, and a webhook that has begun goes
on; webhooks need not come. `CollectionRun`: the group, the runners and the timers go on; nothing is
assumed about a task, which may hang for ever. `Player`: requests settle (the browser ends them), microtasks run, and a wait for
an element's data ends by its timer at the latest; nothing is assumed about `play()`, which has no timer (`PlayEnds` is not in `CallGoesOn`), nor about the viewer.

`GetsThere` says "again and again every accepted import is settled"; because
acceptance and settlement are for good, that is the same as "an accepted import is settled in the end".

## 6. Proofs

All theorems hold for all constants that satisfy the assumptions of the modules (`TelemetryAssumption`,
`SchedulerAssumption`, `CommandTableAssumption`, `DeliveryAssumption`, and those of `VideoImport`, `UpdateCheck` and of the components
of `MCArrivals`, `MCStores`, `MCLoops` and `MCSources`), which TLC evaluates; the bounds that keep TLC's instances finite are constants too. Two theorems of
`TelemetryProofs` assume `LegacyLast = 0` besides, two of `CommandProofs` `~RetentionEnds`, `AgreedFilesAreCurrent` `LegacyEnvironment = 0` and
`MaxUnclean = 0` (section 4), and `NoJobIsOrphaned` `EnoughRetries`. `FiniteFacts` proves that finite sets of integers have a largest
member, which `CHOOSE` in the models relies on, that a function takes finitely many values on one, and what a sum over a finite set does when a summand changes, when
the set is taken in parts, and when all summands are equal. That is induction over data, done with
the library's `WFMin`: of the subsets that refute a claim a smallest one is taken, and one member fewer contradicts it (`SmallestSubset`).

`TelemetryProofs`
* `TypeCorrect`: the inductive invariant adds `Support`: a sample the
  serial thread works on has a place below the bound, acknowledgements are finite sets (so a largest one
  exists), a running invocation belongs to a device.
* `CountsAreKept`: a successful put writes `MergedDocument` of the document it replaces.
* `AcknowledgedStaysCovered`: inductive with `CoveredInv`, which knows the high-water mark an
  invocation carries between its put and its reply.
* `AcknowledgedAreCounted`, `SamplesAreKept` assume `LegacyLast = 0` (no heartbeat of an older installation). `OrderlyInv` says that every
  whole device has numbered the samples it accepted, each above those before (`Numbered`), and that the file, the outbox, the slot, the exchange, every
  invocation and the receipt hold copies of those numbers: the file is complete above `ackFile` (`OnDisk`), the outbox is what is above
  `ackSeq` (`InOutbox`), the document counts exactly the samples up to `lastSequences` (`InDocument`), a payload has no gap but samples
  already merged (`FromFront`), and whatever was sent is in the front of the outbox, in the payload that replaces it, and in the
  acknowledgement that is being applied (`SentFirst`, `AtReceipt`). The last is why `RebaseOutbox` renumbers nothing while the disk is whole
  (`NothingRebased`): a sample renumbered while an old copy of it is under way could be counted twice. One lemma per action keeps
  `Orderly`, and steps of others leave it alone (`UntouchedStep`). `StatusByNumber` reads a sample's status off its number,
  and `KeepStep`, `DamageStep` and `CountStep` map every step to one of `TelemetryPromise`.

`SchedulerProofs`
* `TypeCorrect`, `RefreshIsKept`; `AlarmChainKept` with `ChainInv` (before the first `/ensure` nothing runs);
  `AlarmAlwaysCovers` with `CoverInv`: unless a failure left only the recovery alarm, every row is covered by
  the alarm, by a signal on its way, or by a handler whose wake-up time, read before an await, is no
  later than what the row now asks for.

`CommandProofs`
* The lemmas on `CommandTable` say what each statement does to a table: the id of an insertion is fresh,
  a claim and an aging keep what a row is about, an acknowledgement completes at most one row.
* `TypeCorrect`: the invariant adds `Stemming`: whatever a row, a message, a file or a handler names is one of the commands inserted so far.
* `OnePendingRowKept`: by the table lemmas alone.
* `CompletedWereExecuted` and `RecordedNotRepeated` assume `~RetentionEnds`: no finished row is deleted, so no id is used
  again. `Commands_reuse` shows that the first fails otherwise. `NamesInv` says that an id names
  the same command in the table, in messages and in files; `AckInv` that whatever may acknowledge an id was
  carried out; `AnswerInv` and `MemoryInv` that a command recorded and not yet acknowledged is still in
  `command-acks.pending` or in the hands of the thread that will put it there.

`ArrivalsProofs`
* `IInv` is `TypeOK`, `JobOK` and, for every delivery, `RunOK`. `JobOK` is what the rows agree on: the chunks behind
  `next_chunk` are stored, those of an active job are there, a completed job with changes has its videos in the feed, and only
  a job that is processing or finalizing is locked. `RunOK` is what a delivery read before its last await and may still rely on: most of it only
  while the lock carries its token, which the guarded statements check again. That is why an overrun lock does no harm,
  and why the steps are proved in two groups: those that keep the job's row and those of the lock's holder.
* `NoChunkIsSkipped`, `CompletedJobIsPlayed`, `ChunksAreKept` follow from `JobOK`; `SettledStaysSettled` from the guards
  on `state` that every writing statement has, one step per action.
* `NoJobIsOrphaned` assumes `EnoughRetries`: the status of a job can be read (`ReadsFail = FALSE`; `Import_orphan` shows what happens otherwise), and
  the retries are at least two for each fault and one for each other delivery at work at the time. With the 5 retries and the
  one delivery at a time that are deployed, that is a job that meets two faults. `OrphanInv` counts: of the job's messages, one at least has come back
  (`MessageFine`, `DeliveryFine`) no more often than twice for each fault so far, once for the error and once for the lock that it
  left behind, and once for each other delivery that got its step done and is about to send a message that starts from none (`Ahead`).
  A lock whose holder will not get on costs one until it is given up (`Spoilt`, which only a fault brings about), and a delivery that will have to
  send its message back owes one (`Owes`). A step of one delivery leaves the others what they had (`Eased`). With one delivery at a time the bound
  cannot be lowered: TLC finds an orphan with two faults and three retries.
* `AgreedFilesAreCurrent`: `SyncInv` says of every document that the version it is held with is not ahead of the current one, and if it is
  the current one the file holds the current content (`FileOK`); what a poll has read is not ahead either, and a dashboard version it compared
  is the current one only if the environment it read is (`VersionsOK`). `GrownFile` carries that over a change, since one version more is one
  more in the sum (`SumGrows`); the last conjunct of `ReplyOK` keeps the file of SwitchBot good for the old version too, should the poll fail
  after it was written. `SeenInv` says what a file or a reply shows of statuses: of a source whose row still has the version shown, an error
  exactly if the row has one, since turning stale and recovering lead to no error and away from none.

`SourcesProofs`
* `AnnouncementsAreCommanded`: rows of `device_commands` stay (`RowsKept`), so that "device d has had a command for release v" is
  stable; `CheckOK` says that every device known at publication that a check no longer has to tell is in that state for the release the check
  read, and `Store` records the release only when none is left to tell.
* `AnswersOfOneOrigin`: `RadarInv` says that every bundle that is kept, in the table, in the edge cache or in the hands of a request, is that of a
  payload the supplier made, and that a request that joins shards looks for those of one payload; `ShardsMakePaths` is why the shards, cut by
  position, are together its paths and nothing else. `SpotifyInv` says that the code, the tokens and the answer that a callback or a
  request carries from one await to the next stem from one grant, of a session its device began, and that a row is written from such an answer only.
* `FetchedTrue`: what is stored, what runs have in their hands, and what is answered. `EnergyInv` says that the days with a sum that nothing tore follow
  their readings, and that the sum of a day depends on the readings of that day alone (`SameReadings`), which a batch that writes other
  days leaves as they are. `DailyInv` says that the readings kept are those before the cutoff (`StoredOK`), that what a run has seen is kept or still
  live (`SeenOK`), and that what it fetched and has not yet kept is in `changed` (`FetchedOK`). The answer is then compared day by day: the old
  readings of a day and its row have the same number and sum (`DailySegment`), which is spread over the day without remainder (`NoRemainder`);
  the usage of the month follows by smallest counterexample (`UsageSame`).

`StoresProofs`: one section and one inductive invariant for each component; `PartsStep` says that a step of `StoresSpec` is a step or a
stutter of every component.
* `AnswersStayFresh`: `ResponsesInv` says that a load under way, as long as the generation is still its own, has read at least what
  is marked (`RequestOK`); that those who joined it need no more than that; and that the load an entry waits for
  is under way with the entry's generation (`EntryOK`). `CacheInv` says which reads may still write into the map: once the viewer was told,
  only those of a map that is no longer current (`MapsOK`, `LateOK`, `AnsweredOK`).
* `OutageAnnounced`: `HealthInv` says that a row that is unhealthy has either had its mail or names a transition whose mail is still due,
  also in the hands of a check that has sent and not yet stored.
* `SamplesCounted`: `StoreInv` is `TablesOK` (a row is marked applied when a bucket counted it, or when it is in `displacing`) and what each invocation has
  read before its last await (`InvocationsOK`): what it has pending its row still has, or a newer sample that goes into the same bucket or is in `displacing` (`PendingOK`); what it
  is about to acknowledge was counted, replaced, or is in `displacing` (`CountedOK`).
* `LibraryConsistent`: `LibraryInv` says what a status says of the lists (`ListsOK`), what a liveness run still relies on (`RunOK`), where
  a video that a pass owes stands (`DueOK`) and that counters are the sizes of their sets (`CountsOK`). `PagesInv` is about the ring: a
  cursor cuts it (`Left`), and what lies between two cuts is what was read (`Took`) and, of the videos that stayed, all that is wanted
  (`Gave`). What was served lies before the cursor, what a page has found between the cursor and the row it has got to. Batches, pages and the
  walk are joined cut by cut (`GaveJoin`); a page that has read a row too many goes back to the cut of its last row (`CutBack`).
* `InstallationWhole`: `UpdaterInv` says that only the holder of the mutex has got past it, so that no other runner relies on a
  file (`WriterMoves`); and what the holder relies on (`RunnerOK`): the executable is no newer than its release, each file is its release's, the backup's
  or spoilt, those already replaced or put back follow the two orders. That an executable of the newest release is beside its own
  files (`WholeOK`) then survives a release, a damage and an end of the process at any point.
* `StoresTyped`: the type invariants of all seven components. Three need a bound no assignment shows: a generation is at most the
  number of changes (`ResponseBounds`, `CacheBounds`), what an invocation merges has a value for every bucket (`StoreTypes`), and a counter
  of the library, taken down by what a pass deletes, is never negative (`LibraryBounds`, from `CountsOK`).

`LoopsProofs`
* `AwayControlled`: `PresenceInv` says of every operation under way that a state in its hands that says away comes with the plug seen off, or
  is on its way to turn it off.
* `CollectionRecorded`: `CollectionInv` relates, for each source, where its runner and its task are to what its row says and to what is
  in the library; a runner or an abandoned task that closes the row finds it open or leaves it.
* `PageConsistent`: `PageInv` keeps the list to the selection always, and more as long as no list began with older calls under way (`Calm`): each
  call's search is the one of the page's state, an element loads only what such a search gets to (`Reaches`), and of the active item
  only with the last attempt; one call at most is about to change the page (`Main`); who is told later that its load was given up has no index
  left to try (`Hopeless`). That nothing happens before the waiters of a settled promise have gone on (`Quiet`) is needed for each of these.
* `LoopsTyped`: of the player, `PageBounds` says that every index, also a failed one and the last of a search given up, is below the longest
  list an orientation gives or one of the two numbers that stand for none (`RoundTheList`, `LastPageArrivesIn`); the delivery has its `TypeInv`.

Every safety property of the passing runs is stated by a theorem. Only model-checked: all liveness, which is out of the prover's reach
together with `ENABLED`.
No module uses a recursive operator.
The type invariants of `UpdateCheck`, `Octopus`, `Radar`, `SpotifyAuth` and `StateSync` are in no run of their own:
their wrong values would show in the properties.

## 7. Not modelled

Contents of samples and arithmetic of buckets, wording of messages, HTTP parsing, authentication, encryption and signatures,
rendering, layout and gestures: data the properties do not tell apart. Stationhead's web views, which are driven by
pages outside the repository. What a source's page says and how it is parsed; the finalization
after a scheduled group (scheduled collection is disabled; the admin endpoints start collections), the ranks and the limit
of the feed, the synchronous import of at most 20 URLs, several import jobs at once. `rebuildPlaybackFeed` and `finalizeCollectionDatabase`,
which are only reached when feed maintenance is not deferred (all callers defer it), and `runUnifiedCollection`. In `VideoLibrary` the overlap of two
liveness runs after a lock's expiry; in `TelemetryStore` a second device, the cutoff of 24 hours and requests of several batches.

Hazards without a property: a torn append that glues two lines (`sensors_outbox.cpp:24`) and a sample the Worker refuses
with its whole batch (`telemetry_compact.ts:62`) are about the contents of lines; a repeated chunk whose changes count as none
(`manual-import-jobs.js:354`) is the known limit of imports above. `PROJECT.json` has each component's reason.
