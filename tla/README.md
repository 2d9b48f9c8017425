# Dash-Fast-EM: formal models of the sync platform

Dash-Fast-EM shows a ministry the state of its online exams. The exams run in
FastTest, an external service; the platform imports registrations, polls
FastTest for the status and the results of each, and shows dashboards over what
it has stored. What is hard about it is the **sync platform**: a durable job
queue in MySQL without a broker, worker processes with many concurrent runners,
a scheduler in every worker without leader election, a circuit breaker shared
through a row, and several writers of the same registration. Around it stand
services that share its habits (find and then write, write by id, run in every
process): pacing and its tuning, the worker registry, alerts, imports, attention
items, saved views, the live wall and the dashboards, and one difficult pure
algorithm, the reading of FastTest's timestamps. These modules model both, TLC
checks them on small instances, and TLAPS proves the main invariants for every
instance.

Paths below are relative to the repository.

## The system: components, state, interactions

| Component | Source | State it keeps | Operations | What is hard |
|---|---|---|---|---|
| Job queue | `src/services/sync/queue.service.ts`, `retry.ts` | `SyncJob` rows, `QueueControl` rows, a 2 s cache of the pauses per process | enqueue, claimNext, completeJob, failJob, heartbeatJob, recoverStalledJobs, cancel, retry, requeue, retry-failed, pauses, year switch | claim races, writes by id after the claim is lost, find-then-insert, ceilings read before the claim |
| Worker loops | `src/workers/sync.worker.ts` | runners of a process | processOneJob, runSchedulerTick, maintenance | crashes, hangs, lost acknowledgements |
| Handlers | `src/services/sync/handlers.ts` | none of their own; a copy of the registration | status, results, full, manual, batch fan-out | the copy is stale after the HTTP call |
| Scheduler | `scheduler.service.ts`, `policy.ts` | `nextSyncAt` of each registration | enqueueDueJobs, refreshStaleFlags | read, enqueue and advance are three steps |
| Direct sync | `sync.service.ts` | the registration and its results | syncRegistration | bypasses queue and state machine |
| Sync-state machine | `src/lib/sync-state.ts`, `state.ts` | `syncState` | transitionState | checks the caller's state, writes by id |
| Circuit breaker | `circuit-breaker.service.ts` | `WorkspaceCircuitBreaker` row | canRequest, recordSuccess, recordFailure | every operation reads, awaits, writes |
| Distributed lock | `lock.service.ts` | `DistributedLock` row | acquire, renew, release, reap | expiry during the protected section, a holder that dies |
| FastTest client | `services/fasttest/*` | token cache, single flight and copy of the master switch per process | getToken, authedGet, freeze | shared refreshes that fail, late 401s, a switch set during calls |
| Pacing and rate limits | `rate-limiter.service.ts`, `adaptive.service.ts`, `autotune.service.ts`, parts of `queue.service.ts`, `sync-admin.routes.ts` | token buckets and throttle per process, `WorkspaceRateLimit` rows, mode, ceiling | acquireSlot, globalRateAllows, autoTuneRateLimits, setFastMode, manual limits | window boundaries, three limits in one answer, read-modify-write by tuner, mode and operator |
| Sync window | `queue.service.ts` (`syncAllowedNow`), `sync-admin.routes.ts` | two settings and two switches, a 2 s copy | set, clear, pause, freeze | settings are strings; windows past midnight |
| Worker registry | `worker-registry.service.ts` | `WorkerInstance` rows | register, heartbeat, markStopped, reconcile | late heartbeats, hangs, purge of a live worker |
| Alerts | `observability/alert.service.ts` | `SystemAlert` rows | detector cycles in every worker, raise, auto-resolve, acknowledge, resolve | cycles overlap, rows are written by id |
| Live wall | `observability/dashboard-live.service.ts`, `memo` of `dashboard.service.ts` | last frame, clients, memo | tick, subscribe | ticks overlap, repeated frames are suppressed |
| Dashboards | `dashboard.service.ts`, `filters.ts` | none | filtered and scoped aggregates | every tile is a query of its own |
| Attention items | `attention.service.ts` | `AttentionItem` rows | refreshAttention, setStatus | read, upsert and resolve are three statements beside staff |
| Saved views | `saved-views.service.ts` | `SavedView` rows | create, update, duplicate, setDefault, delete | two requests, one default |
| Import | `services/import/import.service.ts`, `workspace.service.ts` | registrations, students, `ImportJob` | validate, preview, commit; routing of an exam to a workspace | find-then-write per row, failing half-way, overlapping |
| Manual verification | `manual-verification.service.ts` | a history row | verifyTestCode | two calls that fail apart, a record that changes |
| Exam times | `src/lib/exam-time.ts` | none | resolveExamTime | a zone with daylight saving, and no AM or PM |
| Everything else | analytics, export, users, roles, audit, retention, metrics, routes, views | rows | CRUD and read-only aggregation | little; covered by unit tests |

How they interact: the scheduler reads due registrations and calls `enqueue`; a
runner calls `claimNext`, which asks the circuit breaker of the job's workspace,
and runs the handler; the handler takes a rate slot, calls FastTest through the
client (token, lock), writes the registration, tells the breaker the outcome and
may enqueue a results job; the runner ends the job with `completeJob`, `failJob`
or a reschedule. Operators write the same job and registration rows from the web
process. Nothing is shared but database rows, and nothing is atomic but single
statements and a few two-statement transactions.

What makes each component correct:

* queue: one runner per job, locks in step with statuses, settled jobs stay
  settled, no more live jobs of a dedupe key than requests that overlap, a bounded
  number of attempts, ceilings that are passed by a known amount only, what is queued
  runs in the end, pauses hold;
* breaker: never stuck open, closes once FastTest is back, opens while it is away;
* registration: polling goes on until the results are stored and then stops, the
  formal state tells the truth;
* client and lock: one refresh per process, nobody awaits a lost one, calls recover
  from refused tokens, the master switch ends the traffic, and only a holder that
  outlived its lease shares the lock;
* pacing: never more than a known number of calls in any minute, nobody who keeps to
  what he is told is refused for ever; tuned limits end up under the mode's ceiling
  and leave an operator's alone but for the ticks under way, one in each worker;
* registry and alerts: what is shown of workers and conditions follows what is the
  case, through overlapping sweeps and cycles;
* import, attention, saved views: one row per key, nothing known is lost, no work of
  staff is undone, one default;
* wall and dashboards: screens end up with the data, tiles agree with each other;
* exam times: what was sent is what the instant found shows, and the half of the day
  is the right one;
* manual verification: nothing is said of a side that was not seen.

## Modules

| Module | What it is |
|---|---|
| `JobQueue` | the `SyncJob` table with runners, processes, clients and operators |
| `JobLifecycle` | what the queue promises: waiting, working, settled, one owner |
| `CircuitBreaker` | one workspace's breaker row and the runners that use it |
| `RegistrationSync` | one registration with its handlers, scheduler, direct requests, operator |
| `TokenRefresh` | the calls of one workspace, the token each process caches, the lock, the master switch |
| `Pacing` | the token bucket of a workspace, its throttle, and the operator's ceiling over all of them |
| `RateLimits` | who writes the limits of a workspace: the tuner in each worker, mode switch, operator |
| `SyncWindow` | whether jobs may be claimed at this hour |
| `WorkerRegistry` | workers, their rows, and the sweep over them |
| `Alerts` | detector cycles of several workers on the same alerts |
| `LiveWall` | ticks, memo and screens of the live wall |
| `Dashboard` | one request for a dashboard over one table |
| `Attention` | refreshes of the attention items beside staff |
| `SavedViews` | transactions that make a view the default |
| `Import` | imports of a file, row by row, and the routing of an exam |
| `ManualCheck` | one manual verification |
| `ExamTime` | one FastTest timestamp |
| `MCJobQueue`, `MCRegistrationSync`, `MCAttention` | instances of one module for TLC |
| `MCRecovery`, `MCServices` | instances that follow one of several components that share nothing: registration and breaker (`MCRecovery`), the others (`MCServices`) |
| `JobQueueProofs`, `JobQueueLifecycleProofs` | theorems about the queue: ownership, ceilings and pauses; what it promises in a healthy fleet |
| `RegistrationSyncProofs` | theorems about one registration |
| `FastTestProofs` | theorems about `CircuitBreaker` and `TokenRefresh` |
| `PacingProofs` | theorems about `Pacing` and `RateLimits` |
| `RecordsProofs` | theorems about the services that keep rows: `SavedViews`, `Import`, `Attention`, `ManualCheck` |
| `MonitoringProofs` | theorems about `WorkerRegistry`, `Alerts`, `LiveWall` |
| `AlgorithmProofs` | theorems about what is computed: `ExamTime`, `Dashboard`, `SyncWindow` |

The modules are linked by what they assume of each other: `JobQueue` takes the
breaker as a set of workspaces that flips at will (`BreakerFlips`, which
over-approximates `CircuitBreaker`); `RegistrationSync` takes the queue as
`JobLifecycle` has it where requests do not overlap (one live job per type, one runner
per job, a lost job waits again), which `JobQueue` is shown to implement; a failed call is a free choice in
both, which over-approximates `TokenRefresh`, and a refused rate slot another, which
over-approximates `Pacing`. The services around the queue share no state with each
other and little with it: what they read of it (the health of FastTest in
`RateLimits`, the conditions of `Alerts`, the data of `LiveWall`, registrations in
`Attention` and `ManualCheck`) changes freely.

### JobQueue

A row has `status`, `kind` (its dedupe key), `lockedBy`, `attempts`
(`attemptCount`) and two facts that replace its dates: `due` (`scheduledAt` or
`nextRetryAt` is reached) and `lapsed` (RUNNING with a heartbeat older than
`SYNC_STALLED_JOB_MS`). The only atomic steps are SQL statements. A path that
reads, awaits and writes is split at the await:

* `enqueue`: `EnqueueFind`, `EnqueueCreate`;
* `claimNext`: `ClaimCount` (count of running rows, cached pauses), `ClaimList`
  (candidates and workspace counts), then `ClaimWin` or `ClaimSkip` for each
  candidate, then `ClaimReadBack`, which may already see another attempt's row;
* the end of an attempt: `Complete`, `Fail`, `Reschedule`, each a write by id;
  `CompleteAckLost`, `FailAckLost`, `RescheduleAckLost`, `Throw`, `FailRefused` and
  `Forget` are the ways in which the write is made and not acknowledged, throws, or is
  refused for an invalid date;
* `cancelJob`, `requeueDeadLetter`, `pauseAcademicYear`: a read and a write each.
  `retryJob` reads nothing that matters, `retryFailedJobs` and
  `recoverStalledJobs` are one guarded update.

Two pairs of adjacent reads are one step (count and pauses; candidates and
grouped counts): nothing is written between them, and the writes of others that
could fall between commute with one of the two reads up to staleness that the
later steps allow for anyway. The window of 200 candidates is taken to hold all
rows, and priorities, which order the window, are left out: what the code does with
more rows than fit (low priorities behind a steady supply of high ones) is not told.
`Prune` is retention, which deletes settled rows; only `SupplySpec` has it, where it
makes the supply of rows endless. Job-type filters of `retryFailedJobs` are not distinguished from its
workspace filter.

`revoked` is a history variable: the runners whose claim somebody else has ended.
It tells a live owner from a zombie, which nothing in the code does.

### CircuitBreaker

The row, the runners with the copy they have read, and whether FastTest answers.
`failures` saturates at the threshold (a larger number is compared no
differently). A failure that says nothing about FastTest, a lost claim and a crash
are all `NoOutcome`: `canRequest` was called and nothing is recorded.

### RegistrationSync

The row has the formal state, the dashboard status, whether result rows exist,
and `nextAt` (null or past: `due`; future:
`ahead`; a century ahead: `never`). Three dashboard statuses stand for the seven:
those without results (IN_PROGRESS), UNDER_REVIEW with REVIEW_FAILED, and
COMPLETED. Each write of a handler is a step; what it decides on is its `copy`.
`API_ERROR` stands for the four error states with the same row in the transition
table. The states no code writes (QUEUED, RETRY_SCHEDULED, STALE) are left out.
FastTest does not take back a completion. Database failures in the middle of a
handler and crashes of direct requests are left out.

### TokenRefresh

The awaits of a call are its program counter: `Begin` and `First` are the two
awaits at the head of `authedGetRaw`; a call without a token waits for the promise
of another (`waiting`) or runs `refreshToken` itself, through `Acquire` (insert),
`TakeOver` (guarded update) and `Verify` (read-back) to `AuthenticateLocked` and
`Release`, or through `backoff` to `AuthenticateFree`. An insert that fails, for
whatever reason, goes on to the takeover, as the bare catch of the code does.
`SettlePromise` is the promise with
its `finally`: the map entry goes and all who await it proceed together.
`Unauthorized` is the first 401 with its `invalidateToken` and second `getToken`.

A token is `good` or `bad`, by whether FastTest takes it; `TokenAges` is the refresh
margin. A lease is ahead or past. The owner of the lock is the call that refreshes,
as the random owner of the code is per refresh; `Orphan` is the row of an owner
that died or whose release failed. `lapsed` is history: the calls whose lease ran
out inside the lock. Faults happen only while `healthy` is FALSE; liveness is
stated for the time after it stays TRUE. A process is one Node event loop, so what
lies between two awaits is one step. `Connect` and `Connected` are the two ends of an
authentication outside `getToken` (AUTHENTICATE job, connection test): one that was
begun before the switch was set caches its token after it.

The switch: `stopped` is the stored setting, `seen` the copy each process keeps for
four seconds. A failed read counts as not stopped, as in `isFastTestFrozen`.

### Pacing, RateLimits and SyncWindow

`Pacing` keeps, in ticks, the time since each instant the code stores, and counts
tokens in units of 1/`Minute`, so that its arithmetic is exact. `TryAcquire` is
`TokenBucket.tryAcquire` with the order of its three refusals; `GlobalRateAllows`
the bucket of `queue.service.ts`. `Evaluate` is the throttle, with the rolling
error rates reduced to `stress`. `recent` is history: for each t below a minute, the
grants of the last t ticks. Ages stop at `Horizon`, at which any bucket is full and
any throttled spacing over. A patient caller comes back when `retryAfterMs` says so.

The orchestrator of every worker tunes (`sync.worker.ts:146`), without a leader, so
`RateLimits` has a set of `Tuners`. A tick reads the rows (`TuneRead`), then the mode
(`TuneMode`, NORMAL where that fails), and later writes by id (`TuneWrite`), whatever
the row has become; `SetMode` and `SeedRow` are the two writes of `setFastMode`. The
traffic of the window is `good`, `bad` or `idle`. `strays` is history: the writes of
tuners since the operator took over.

`SyncWindow` has the settings as strings, as far as `Number` tells them apart, the
copy of them with its age reduced to being fresh or not, and the hour.

### WorkerRegistry, Alerts, LiveWall

Each statement of `reconcileWorkerHealth` that must be told apart is a step
(`Classify` has the two updates of one transaction, `Purge` the deletion), and a
heartbeat is sent and lands in two. Ages count ticks; a statement may last for several.

A cycle of `Alerts` reads its conditions, each query some of them (`Detect`), looks up
the alert of each that holds (`LookUp`) before it raises it, reads what is unresolved
and resolves that by id. A condition
is one alert: `dedupeKey` is unique.

`LiveWall` has the data as a version, memoized and live tiles, and frames as what
they show. `MaxUpsets` bounds failures and comings and goings.

### Attention, SavedViews, Import, ManualCheck

`Attention` has the ten issues of `classify` over a record of what it looks at;
`ReadRegistrations`, `StoreItem`, `ReadItems` and `ResolveStale` are the steps of a
refresh, which may fail between any two. A refresh reads at most `ReadLimit`
registrations (50000 in the code), in no stated order: any `Pages` of that size.
`undisturbed` is history.

In `SavedViews` a request looks its view up, clears the defaults and sets its own;
from the clearing to the end it holds the row locks InnoDB gives the update.

A step of `Import` is a row's look-up (with the upserts of student, school and
subject before it) or its write. `overlapped` is history: two imports were under way
at once. A file must not repeat a `FileKey`, which has the subject normalized; stored
rows are found by `Key`, which has it as it is spelled. `ResolveWorkspace` is the routing.

`ManualCheck` keeps of every compared pair only how the sides relate.

### Dashboard and ExamTime

Both are algorithms: a behaviour answers one request, or reads one timestamp, and
the invariants compare the answer with what it should be. `Dashboard` translates the
filter (`Matches`) and each aggregate as a query of its own over the same table.
`ExamTime` counts minutes; a zone is an offset before and one after a change of its
clock, and a wall time the instant at which UTC shows it, as `asUtcMs` has it.

## What the runs check

| Run | Instance | Shows |
|---|---|---|
| `queue_faults` | 2 rows with one key, 2 runners of a process, every fault and row operation | locks match statuses (`LockMatchesRunning`); unrevoked claims are exclusive (`UnrevokedClaimOwnsJob`); the global ceiling is passed by at most runners − 1 (`RunningBounded`) |
| `queue_service` | 2 keys, 3 rows, 2 processes, 2 requests that may overlap, crash and breaker, workspace cap 1 | no double processing (`NoJobProcessedTwice`), `RetryBudget`, no more live rows of a key than requests (`DuplicatesBounded`), the cap is passed by at most runners − 1 (`WorkspaceLoadBounded`), refines `JobLifecycle` (`ImplementsLifecycle`) |
| `queue_liveness` | 2 keys, 1 runner, an endless supply of rows, crash, pauses, year switch, fairness | running ends (`RunningEnds`), what is queued runs and retries do if the queue is found empty again and again (`WaitingRuns`), paused years drain (`PauseDrains`) |
| `queue_zombie` | 1 row, 2 processes, a hang | finding: terminal statuses are overwritten (`TerminalIsFinal`) |
| `queue_starved_retry` | 2 workspaces, pause, fairness | finding: due retries starve behind paused rows (`DueRetryRuns`) |
| `queue_duplicates` | 1 key, 2 requests | finding: overlapping requests insert it twice (`NoDuplicateActive`) |
| `registration` | 2 runners, direct request, scheduler in both modes, one operator action or request | polling stops, and COMPLETED is said, only with results (`TerminalIsEarned`, `CompletedMeansResults`) |
| `registration_overlap` | 2 runners, one batch action | finding: older status under a stopped polling (`StoppedMeansCompleted`) |
| `recovery` | registration: 1 runner, scheduler, one lost runner or tick; breaker: 2 runners, thresholds 3/2/2, 2 probes; fairness | `CompletionIsRecorded`, `PollingStops`; the breaker is never stuck open (`OpenHasProbeTime`), `ClosesOnceUp`, `TripsWhileDown` |
| `services` | one of the twelve components around the queue in each behaviour, fairness | see below |
| `attention_recurring` | one registration, 2 refreshes | finding: an issue that comes back stays resolved (`RecurringIsReopened`) |
| `window_cleared` | five hours of the day | finding: a cleared window forbids every hour (`ClearedMeansAlways`) |

What `services` shows of each component, on which instance:

| Module | Instance | Shows |
|---|---|---|
| `ExamTime` | three zones, both changes of the clock, every half hour of two days, three windows | conversions round-trip, sittings are found again without AM and PM (`ConversionRoundTrips`, `SittingRecovered`) |
| `Pacing` | minutes of 4 ticks, a bucket that the minute limits and one that spacing and tokens do, two ceilings | at most twice the ceiling in any minute; three refusals of a patient caller at most (`MinuteBounded`, `PatienceIsRewarded`) |
| `RateLimits` | 2 workers that tune, both modes, two acts of the operator | one stray write for each worker; limits ease to the ceiling, idle or not (`StraysBounded`, `EasesToCeiling`) |
| `WorkerRegistry` | 2 workers, purge after 3 ticks | the dead are forgotten, the living counted (`DeadIsForgotten`, `LivingIsCounted`) |
| `Alerts` | 2 conditions, 2 detectors, 2 mishaps | alerts follow the conditions (`AlertsFollow`) |
| `LiveWall` | 2 screens, 2 overlapping ticks, a memoized and a live tile, 3 upsets | screens catch up (`ViewersCatchUp`) |
| `Dashboard` | 3 rows of 6 kinds, 6 requests | tiles agree, scopes hold (`TilesAgree`) |
| `Attention` | one registration and a limit of one, 2 refreshes, two conditions with a common issue | a refresh catches up; staff's work is kept (`RefreshCatchesUp`, `StaffWorkIsKept`) |
| `SavedViews` | 2 views, 2 requests | one default (`OneDefault`) |
| `Import` | 3 files, 2 importers, 3 registrations, 4 routings | one registration per key; what is known is kept (`OnePerKey`, `KnownIsKept`) |
| `ManualCheck` | 3 records, 2 workspaces, every answer of both probes | no verdict without data (`NoVerdictWithoutData`) |
| `TokenRefresh` | 2 calls of one process, every fault, the switch | shared refreshes (`SingleFlight`), no lost waiter (`WaitersAreServed`), `RecoversOnceUp`, `FreezeDrains`, `AbandonedLockIsFreed` |

Bounds. Two runners are enough for every race of a claim (each step involves the
writer and one rival); two processes where the identity of the lock matters, one
where runners share it. Two rows with **one** key show duplicates and their
claims; a third is needed to see that duplicates do not breed, with two requests. Of
states with three rows `queue_service` explores those in which each was claimed at
most once and no breaker is open (the constraint `ThreeRowsOnce`); of states with two
rows, all. `MaxAttempts` 2 has a retry and an exhausted budget; one crash makes each
orphan. `MaxClaims` bounds `attemptCount` (2 in `queue_faults`, where retries by
operators and crashes would let it grow; 9, never reached, elsewhere). In
`queue_liveness` two rows are used over and over (`Prune`), so that a fresh row can
always be due before a retry.
`MaxCalls` bounds operator actions and direct requests on a registration: one, so
that each kind meets every state of the jobs, while the state space stays below
ten million. `registration` has one kind of failed call and `recovery`
two. Two calls of one process show every meeting of a refresh with a waiter, a 401
or a crash, and meet locks that crashes and failed releases leave behind; locks of
other processes differ only in who holds them, and that exclusion is proved for any
number (`LockExcludes`). In `services` two of each actor make every overlap of two
(tuners, detectors, refreshes, importers, requests, screens, ticks, workers of which
one sweeps), and the bounds on mishaps and upsets leave room for a failure between any
two steps and another after it. `Minute` is 4, so that a window, a spacing and a
refill can fall in every order. `ExamTime` needs no more than the days round a
change: elsewhere offsets are constant. Symmetry is used in safety runs only, over values that no constant
function tells apart. Deadlock checking is off where a system may stop: when all
rows are settled, or a registration is finished.

Fairness, and why the code has it. Runner loops poll without end and every HTTP
call has a timeout, hence weak fairness of `Claim` and `Finish`; the orchestrator
runs the sweep in every tick (`RecoverStalled`, `TickRead`). A claim of a given
job is strongly fair: the shuffle of `claimNext` draws a job that is listed again
and again first at some time. Strong fairness of the FastTest calls in
`RegistrationSync` and of the outcomes in `CircuitBreaker` (of all its runners
together, not of each) says that not every
attempt fails: with weak fairness they could all be throttled, lost or crashed.
`queue_liveness` has ceilings that do not bind and no breaker, since an open
breaker or a full workspace may keep a job waiting by design; nothing is assumed of
requests and retention (`SupplySpec`), and nothing of retries but what `WaitingRuns`
says itself. `recovery` puts the strong fairness of a step of each component into one
condition, as they are never followed together, which keeps TLC's work down. In `TokenRefresh`
every await of a call under way ends, copies of the switch get old, the lease of a
dead owner runs out and each tick reaps; nothing is assumed of callers, faults or
operators. In `services` the timers of the code fire (heartbeat, orchestrator, wall)
and statements end: weak fairness of each step; time passes. Nobody is assumed to
operate, connect, start, fail or recover.

## What the code does not keep to

Six runs find a promise of the documents or comments broken; `PROJECT.json` quotes
them.

* `queue_zombie`: a runner that hung past the stalled limit writes its status over
  a settled row ("Terminal statuses never get re-processed", `src/lib/enums.ts:111`).
  A guard `lockedBy = workerId AND attemptCount = …` on the final writes would do.
* `queue_starved_retry`: due retries wait for QUEUED rows that no runner may take.
* `registration_overlap`: two jobs of different types on one registration.
* `window_cleared`: "Clear (always on)" stops the sync altogether, since `Number('')`
  is 0 and a window from 0 to 0 holds no hour (`queue.service.ts:567`, `:575`).
  Any window that ends at the hour it starts is as empty.
* `queue_duplicates`: two requests that overlap between `findFirst` and `create`
  (`queue.service.ts:62`, `:65`) both insert, against "duplicate enqueues collapse to a
  single job" (`docs/WORKER_OPERATIONS.md:165`); every worker runs a scheduler. What
  does hold is `DuplicatesBounded`. A unique key on the live rows would do.
* `attention_recurring`: an item that SYSTEM resolved stays resolved when its issue is
  back, since the update sets its status to undefined (`attention.service.ts:95`),
  against the comment one line above.

Seen while modelling, without a run: a handler takes a registration out of
MANUAL_REVIEW, since it names the state it expects (`handlers.ts:64`, `:68`)
against "Any transition not listed here is rejected" (`sync-state.ts:3`); bulk
MANUAL_REVIEW clears `nextSyncAt` even where the machine refuses the move; a
permanent error of a direct sync clears it too (`sync.service.ts:271`), and null is
due to the scheduler (`scheduler.service.ts:139`), so the registration is polled
again against "Permanent errors are not retried" (`docs/OPERATIONS_RUNBOOK.md:163`);
the token lock keeps no process from authenticating, since the others wait 250 ms
for a token that only their own memory could hold (`client.ts:213`) against "only
one worker refreshes" (`client.ts:203`); the retry after a 401 may get the refused
token again from a refresh that is still releasing the lock;
`attemptCount` goes to −1 when a running job is retried and then rescheduled, and
`backoffMs` gives NaN; HALF_OPEN limits nothing ("allow limited probes",
`circuit-breaker.service.ts:47`); a steady supply of due QUEUED rows keeps retries
waiting for ever, paused or not (`queue.service.ts:149`, `WaitingRuns`); with more than
50000 registrations a refresh resolves the items of those it has not read, and stores
none for them (`attention.service.ts:73`, `RefreshCatchesUp`); results jobs and MANUAL_SYNC carry no
academic year; the interval does not snap back on the poll that sees a change.

And in the services around the queue, each named at the property it bounds: ticks of
the tuner that were under way, one in each worker, overwrite the limits an operator has
just set, and nothing corrects it, since auto-tuning is off by then
(`autotune.service.ts:72`, `StraysBounded`); with several workers a tick that is late
puts back a rate another has lowered, so that the row may rise again for a while
(`RatesDescend`); a stressed tuner raises limits below 30 to 30; up to twice the
ceiling is granted in a minute that straddles two windows, against "exactly the
operator's number" (`queue.service.ts:532`, `MinuteBounded`); a worker whose row was
purged in a long hang never registers again (`worker-registry.service.ts:54`,
`LivingIsCounted`); two imports at once store a row twice (`import.service.ts:205`), as do two files that
spell its subject differently (`:208`; within one file the subject is normalized, `:122`),
and an import that dies half-way is stored COMPLETED from the start
(`import.service.ts:167`); an import routes by ExamName (`:202`) while a manual
verification without a stored workspace routes by examSubject
(`manual-verification.service.ts:252`); a screen that connects when the stored frame
is too old, and the new one repeats it, gets keepalives only and stays blank until
the data changes (`dashboard-live.service.ts:112`, `ViewersCatchUp`); the tiles of a
frame need not be of one moment, as each has a memo of its own; two detector cycles
that reopen the same alert both call the alert hook.

## What is proved

All theorems hold for any finite sets of rows and runners, any processes,
workspaces and clients, any limits, instants and files, and any set of faults and
operator actions, from the assumptions the modules declare (`ConstantsAssumption`,
`BreakerAssumption`, `SyncAssumption`, `TokenAssumption`, `PacingAssumption`,
`LimitsAssumption`, `ViewAssumption`, `ExamTimeAssumption`, `DashboardAssumption`,
`RegistryAssumption`, `AlertsAssumption`, `WallAssumption`, `AttentionAssumption`;
`Import`, `ManualCheck` and `SyncWindow` need none). Where a theorem needs more, it says so in its
hypotheses:

* `HealthyFleet`: the fault set has no hang and no lost acknowledgement, and the
  operators neither cancel, retry nor requeue. Crashes, thrown errors, breakers and
  pauses stay. Runs `queue_service` and `queue_zombie` are on either side of it.
* `NothingThrown`: no statement at the end of an attempt throws. A runner that drops
  its row after an error (`Forget`) leaves it RUNNING, and the sweep grants an attempt
  that no crash has paid for.
* `ShiftsByAnHour`, `StandingDisplay`, `RepeatsStayInside`: source clocks move by at
  most an hour, the display clock never, and an hour that is shown twice does not
  lie across the edge of a window (the instant found may be the other one of the
  two, and then outside). The zones and windows of run
  `services` have all three; about three thousand of its sittings are inside their window, and
  a hundred of them at a minute that is shown twice.
* `AnswersDoNotCross`: at most one handler is between an answer of FastTest and the
  write it leads to. The code does not enforce it; run `registration_overlap` shows
  what happens without it.
* `"hang" \notin Faults` (`LockIsExclusive`): no holder of the token lock outlives its
  lease. What is left with hanging holders is `LockExcludes`.
* `FloorRpm <= NormalTuning.ceil` (`RatesDescend`) and `Hours \subseteq 0 .. 23`
  (`DailyWindow`): the constants of the code, and of the runs, are like that.

The arguments, module by module:

* **Queue.** `TypeCorrect` rests on `Typed` (the holder of a claim holds a row).
  `LockAlwaysMatchesRunning` and `ClaimsOwnTheirJobs` come from one inductive
  invariant, `Ownership`: neither is inductive without the other, since a claim is
  exclusive because the row was unlocked, and the row was unlocked because it did
  not run. The lemma `EndingClaims` covers all the paths that end an attempt.
* **Capacity.** `GlobalCeiling` and `WorkspaceCeiling`: `Capacity` counts running
  rows together with the runners between count and claim, for the workspace cap
  against what each runner has read. The steps are reduced to three lemmas on
  cardinalities (`Sizes`, `ShrinkingKeepsBound`, `ClaimKeepsBound`).
* **Pauses.** `PausesAreKept` is the safety half of `PauseDrains`: a pause is heeded
  (`Heeded`) when every process has read it and no claim begun without it is under
  way. Nothing of its scope starts then, through claims, sweeps, crashes, retries and
  requeues, until it is lifted. Every action but those of a claim and the insertion is
  one case (`ClaimsNothing`); `Listed` keeps an insertion away from rows on a candidate list.
* **Healthy fleet.** `Undisturbed` says that nobody is revoked and no holder's row
  lapses; with `Ownership` two holders are one (`HealthyFleetProcessesOnce`).
  `NoRowRevives` draws from it that only live rows change, but for submissions, and so
  `SettledStaysSettled`. `DuplicatesAreBounded` adds `Keyed`: the live rows of a key
  and the requests about to insert it are together no more than all requests, since
  nothing revives a row, and a request gets there only when the key has none; so the
  theorem needs no word on how requests overlap, and with one it says that there is one. `AttemptsAreBudgeted`
  comes from `Accounts`: a row that waits, or lies RUNNING without a holder, has an
  attempt to spare, which the crash that orphaned it has paid for; and a runner's
  copy of the count is the row's.
* **Refinement.** `QueueImplementsLifecycle`: the mapping sends statuses to phases
  (`PhaseBar`) and a row to its holder (`OwnerBar`). `HoldersOwn` is what
  makes the mapping move: the owner of a job is its holder, before and after. Each of
  the thirty-odd actions is then a stutter (`Unseen`), the end of an attempt
  (`HolderEnds`), a loss of runners (`HoldersLost`), or one of `SubmitsJob`,
  `TakesJob`, `ReclaimsJobs` and `WithdrawsJobs`.
* **Breaker.** `BreakerTypeCorrect`, and `OpenIsNeverForever` and `ProbesNeverPassClosing`
  from `Breaker`, which is inductive as it stands: the opening write sets state
  and probe time together and the closing write clears both. `MendedCircuitStays` is the
  safety half of `ClosesOnceUp`: with no probe and no failure under way, only a
  failure could open the circuit, and while FastTest is up there is none.
* **Registration.** `PollingStopsOnlyWhenDone` and `CompletedOnlyWithResults`
  follow from `Completion`: answers are true (FastTest takes nothing back), a
  count of results once true stays true, those who close have seen COMPLETED, and
  a tick that closes had read a finished row. It is this that makes stale copies
  harmless for these two properties, though not for `StoppedMeansCompleted`.
  That one needs `AnswersDoNotCross`, and nothing else: with `Recorded`, a handler that
  carries an answer into a COMPLETED row carries COMPLETED, so that none takes a
  completion back (`StoppedWhereAnswersDoNotCross`, `CompletionIsNotTakenBack`).
  `OneHandlerPerJob` is what the module takes from the queue: each running job has one
  actor and each actor its job, so that a crash gives back just its own.
  `FinishedRests`: with the exam completed, its results stored and nobody at work, no
  tick of either mode starts anything.
* **Token refresh.** `OneRefreshPerProcess` and `NobodyWaitsInVain` come from
  `Flights`, which ties the three copies of "who refreshes" to each other: the
  program counters, the map of each process, and the promises others hold. Each is
  inductive only with the others: a waiter is served because the map named a call
  under way when it joined, and the map is cleared only with the waiters.
  `LockExcludes` comes from `Leases`: a call inside the lock whose lease has not
  run out owns the row, and an owned row has a lease ahead or a lapsed owner. It is
  not checked by a run, as one process cannot violate it. Where nobody hangs no lease
  is outlived, and it becomes mutual exclusion (`LockIsExclusive`). `CleanStaysClean`
  is the safety half of `RecoversOnceUp`: good tokens and a cleared view of the switch
  are all a step needs to leave them so, and a call fails only from a bad one.
  `FreezeIsKept` is that of `FreezeDrains`, process by process and whatever fails: the
  switch is looked at again before each authentication, so a call that is not over
  can only use what was there or end.
* **Pacing.** `NoMinuteOverTwice` has an argument for each gate. `Counted` (workspace):
  the count of the minute covers every call since it began, and the calls before are
  no more than its predecessor allowed. `Budgeted` (global): what was granted in the
  last t ticks and what could be granted now are together at most a full bucket and
  the refill of t ticks, for each t; for one minute alone this is not inductive, which is why
  `recent` counts for every t. `PatienceRewarded` comes from `Appeased`: after its
  first refusal a caller has waited for the spacing, after the second for the
  minute, after the third for a token, so that a fourth has no reason left. Maxima
  are of arbitrary finite sets (`ListsBounded`, `MaxIs`), and the divisions by
  throttle and refill rate are lemmas (`CeilDivIs`, `Quotient`).
* **Rate limits.** `StraysAreBounded` comes from `Handover`: a tick begins only on a
  row that is auto-tuned, and whatever makes it so again ends the count; so strays and
  ticks under way are together at most the workers, however often the operator
  intervenes. `LimitsTypeCorrect` needs the bounds of the derived companions (`Derived`,
  `Spacing`), whose divisions are lemmas. `RatesDescend` is the safety half of
  `EasesToCeiling`, for any number of workers. The rate of the row may rise again, when
  a late tick writes; what does not is the largest rate of the row and of all ticks
  under way (`TunedBelow`, `BoundKept`). A tick writes less than it has read above
  the ceiling and nothing past it (`NextRpmDescends`), which fairness of the ticks turns
  into the liveness.
* **Registry, alerts, live wall.** `StatusIsEarned` compares what the sweep has written with
  the silence so far; it is inductive because ages only grow, and whatever resets one
  writes the status with it. `RegistryIsKept`, `AlertsAreKept` and `WallIsKept` are the safety halves
  of the liveness of these three modules. Each names the state that fairness leads
  to and shows that no step leaves it: for the alerts a condition that is told
  (`Told`) or quiet (`Quiet`) to every cycle under way as well; for the wall a screen
  that shows the data with nothing older left in the memo or in a tick (`CaughtUp`).
* **Saved views.** `ViewTypeCorrect` and `DefaultsAreUnique` come from `Promise`: of one user and page at
  most one transaction is past its clearing (`Exclusive`), and each other view there
  that is still a default is one it has cleared and will commit as such (`Cleared`).
  `Requested` ties a transaction to its view: one being created is nobody's yet and
  no other's, one being edited is of the user and page that the lock is for.
* **Import.** `StoredOnce` comes from `Recorded`: unless two imports were under way at
  once, at most one is busy and what its look-up found still stands (`Stands`): no
  row of the key, or the one row and whether it has its attendance.
  `ImportKeepsWhatIsKnown` uses the latter: the write spares attendance by what
  the look-up saw, not by what is stored.
* **Attention.** `UndisturbedRefreshCatchesUp` comes from `Refreshing`, the progress of a
  refresh that nothing came between, by its step: what it has read and no longer has to
  store has its item, and what is unsettled is detected or among the stale it is about to
  resolve. That it has read every registration is where the limit comes in (`AllRead`).
  `RefreshLeavesStaffWork` holds of refreshes that overlap as well, although they
  resolve by what they have read: their upsert leaves statuses alone, and the last
  statement only resolves.
* **Manual verification.** `SilenceIsNoVerdict` from `Unanswered`: a live status comes only with
  the answer of the status probe, and nothing is compared before both were asked.
* **Exam times.** `ConversionsRoundTrip`: measuring the offset twice is enough for a
  reading the zone does show. `MeasuringTwice` is the arithmetic, for one change of
  offset of any size; the answer carries over to the algorithm because only full
  readings are called conversions (`ChoiceIsNoConversion`). `SittingsAreRecovered`:
  of the two readings of an hour of twelve one is the wall clock and the other twelve
  hours away (`TwoReadings`); a change of the clock between them leaves eleven
  hours or more, and a window of less than eleven holds only one of them (`FarApart`).
* **Dashboards.** `DashboardTilesAgree` is about sums over a table, which are folds and so
  recursive in the end. Induction is not to be had here, but a least counterexample is
  (`LeastExists`): the fold exists for all subsets (`FoldExists`) and goes by its step
  (`SumSteps`), and if a sum of counts differed from the count of the whole
  it would differ for a smallest set of keys, without one of which it agrees
  (`SumOfCounts`). Each tile is then a table that adds up (`GroupsAddUp`). The filter of
  hours goes round midnight with its last hour (`HoursFiltered`), the sync window without
  (`DailyWindow`).

Only model-checked: liveness (`RunningEnds`, `WaitingRuns`, `PauseDrains`,
`ClosesOnceUp`, `TripsWhileDown`, `RecoversOnceUp`, `CompletionIsRecorded`,
`PollingStops`, `FreezeDrains`, `AbandonedLockIsFreed`, `EasesToCeiling`,
`DeadIsForgotten`, `LivingIsCounted`, `AlertsFollow`, `ViewersCatchUp`),
which the prover does not reach, nor ENABLED. For most of them the half that is
safety, that what is reached is kept, is one of the theorems above; that it is
reached is what the runs show. There is none for `RunningEnds`, `WaitingRuns`,
`TripsWhileDown` and `AbandonedLockIsFreed`, which lead to something that does not last.

## Not modelled

Priorities and the 200-row window, the length of polling intervals and staleness flags,
AUTHENTICATE and REFRESH jobs, raw payloads. Whether the sync window and the master
switch allow a claim is modelled apart from the claims (`SyncWindow`,
`TokenRefresh`): a forbidden claim is one that `queue_liveness` does not promise.
Notes, assignments and columns that no decision reads; pages, lists, exports and
statistics, which read and never write; users, roles and sessions, which are
single-row operations under unit tests; retention (but for the settled jobs it makes
room of), metrics and snapshots; start-up,
logging and encryption. `PROJECT.json` lists every component with its reason.

## What could follow

1. An abstract specification of a refresh beside staff (`Attention`, `Alerts`) that
   both implement.
2. Results mapping and error classification against reference definitions.
3. The year switch with scheduler and handlers, where rows without a year leak.
4. The claim of the queue under the window and the global rate, if a property of the
   two together comes up.
