# A verification project for ev-sim

TLA+ specifications of ev-sim's headless execution stack and of the services
around it (the experiment queue, browser control, the marketplace client),
model-checked with TLC and, where it matters most, proved with TLAPS. The reference is the code;
every definition that models code is mapped to its lines in `PROJECT.json`.

## 1. The system

ev-sim is a deterministic vehicle simulator in JavaScript. The simulation
itself (`app/simulation`, `app/3d`, `app/scripting`, `app/vehicles`, ...) is
sequential: one step after the other, on one thread. What is concurrent, and
may fail in the middle, is everything that runs simulations for somebody else
and everything that keeps their results:

| component | state it keeps | operations | talks to | what makes it correct |
|---|---|---|---|---|
| **Headless supervisor** (`server/headless/HeadlessSupervisor.js`) | batches; per environment a state, the current worker, the recovery promise, the episode, its timer and finalize result; `reservedWorkers` | Create/Reset/Step/Finalize/CloseBatch, `runManagedExperiment`, recovery, watchdog, `close` | worker handles, arena, renderer, admission, UDP sidecar | one worker per environment; the supervisor's idea of the session is right; failed episodes never continue; capacity; nothing outlives a close |
| **Worker handle, worker, session** (`WorkerHandle.js`, `HeadlessWorker.js`, `HeadlessSession.js`) | a process, one request in flight; the session's phase | dispatch, terminate, close, exit; initialize, reset, step, finalize | each other, over IPC | a request fails exactly once; a late answer has no effect; commands run only in the phase they belong to |
| **Shared tensor arena** (`SharedTensorArena.js`) | blocks of a file, generations, reference counts | publish, retain, release, invalidate, close | session results, clients that map the file | live blocks never overlap; what a client still reads is not reused |
| **Experiment queue** (`HeadlessExperimentService.js`, `HeadlessExperimentQueue.js`, `GpuTurn.js`) | a queue file, results with revisions, sidecars, the pump, the active job | enqueue, pump, cancel, close, reconcile at start | storage, supervisor, admission | each job runs at most once at a time, is never lost, and a cancelled one never completes |
| **Browser simulation service** (`server/browser-sim`) | tabs with heartbeats, command receipts | register, heartbeat, submit, claim, complete, expire | browser tabs over HTTP | a command runs at most once and its receipt says so |
| **Packet transports** (`server/sensor-transports`) | per sensor queues, a sidecar process with generations | submit, drain, finalize, cancel | worker, sidecar, receivers | order per sensor, bounded queue, no packet of a cancelled generation |
| **Visual asset admission** (`VisualAssetAdmission.js`, `ManagedVisualAssetAdmission.js`) | pins, leases, a journal | admit, bind, pin, release, sweep, recover | storage, supervisor | what is pinned is not collected; a restart recovers the pins |
| **GPU renderer pool** (`PooledGpuRenderer.js`) | renderer processes, environment scopes | prepare, capture, release | workers through the supervisor | a lost context fails the environments that used it, and only those |
| **Marketplace** (`server/marketplace`) | transactions, install and publish jobs, package files | plan, commit, compensate, resume | storage, registry | all of a transaction or none of it, across crashes |
| **Storage** (`server/storage`) | JSON documents with revisions, stages | read, compare-and-set, promote, publish | everything above | no lost update, no half-published document |
| **Logging** (`server/logging`) | segments, a catalogue, retention | append, seal, import, collect | kernel, experiment service | the catalogue names only complete logs |
| **Simulation kernel, episode, scenarios, experiments, plugins** (`app/...`) | the world of one run | step, reset, publish | each other | determinism; the action and observation contract |
| **Editor, 3D scene, vehicles, scripting, UI** | documents, scenes, graphs | edits, rendering, compilation | storage | geometry and pure functions over data |
| **Routes, MCP tools, clients** | none of their own | translate requests | services | - |

The behaviours that are hard to get right, and that unit tests of this code
reach only by luck, are listed with their lines under `hazards` in
`PROJECT.json`: callers that read state before an await and use it after it;
exits, timers, health reports and answers that arrive in any order; recoveries
that race a close; documents that no transaction spans, and a crash between
two of them; capacity that must be claimed in one turn and given back on
every path; and waits that wait for each other.

## 2. What is modelled

### `HeadlessSupervisor` - one batch, from CreateBatch to CloseBatch

**Granularity.** The supervisor is one Node.js event loop. An action is what
runs between two suspension points. *Events* (a call, a message or exit of a
worker, a timer, the end of an I/O operation) are taken only when no
continuation is due (`EventLoopIdle`); *continuations* that the event loop runs
in the same turn as the event that released them (`Dispatch` after a recovery,
the catch block of a failed command, `FailedWorkerGone`, `CreateCompletes`) are
actions of their own, in any order.

**State and code.**

| variable | code |
|---|---|
| `state`, `requiresReset`, `episode`, `finalized`, `armed` | `environment.state`, `.requiresReset`, `.episodeSequence`, `.lastFinalizeResult` (as the episode it belongs to), `.episodeTimer` |
| `active` | the episode `environment.episodeSpec` was last reset to |
| `worker`, `restartCount`, `recovery` | `environment.worker` (workers are numbered in the order they are forked, 0 is null), `.restartCount`, and how far the closure behind `.recoveryPromise` has come |
| `proc`, `session`, `pending` | the processes, the phase of the session in the current one, and `WorkerHandle.pending` |
| `call`, `thread` | client calls in flight and, per environment, where the function that serves it is suspended |
| `batch`, `disposal`, `snapshot`, `sup` | progress of `_createBatch`, `_closeBatch` and `_close`, and the workers each of them is waiting for |

Two workers of an environment never run at once (proved, `OneWorker`), so one
`session` and one `pending` per environment, those of the current worker, are
enough.

**Actions and code.** `ResetBatch`, `StepBatch`, `FinalizeBatch` are the
synchronous parts of those calls. `Dispatch` is `_dispatch` and
`WorkerHandle.dispatch`; `ResetAnswered`, `StepAnswered`, `FinalizeAnswered`,
`Rejected`, `CommandFails`, `PluginFails` are what the session does with a
command together with what the supervisor does with the answer; `Breach` is the
answer over a limit, `Publish` the write of the observation into the arena,
`Uncertain` a timeout, abort or IPC failure. `Exit`, `HealthBreach` and
`WatchdogFires` are `_observeExit`, `_observeHealth` and the episode timer.
`Recover`, `Drained`, `FailedWorkerGone`, `Respawn`, `RespawnFails`,
`Replaced`, `ReplacementFails`, `FailedReplacementGone` are `_recover` from one
await to the next. `Spawn` to `CreateFails` are `_createBatch`,
`CloseFinalizes` to `BatchCloses` are `_closeBatch`, `BeginShutdown` to
`ShutdownEnds` are `_close`.

**Failures** are switched on by the constant `Faults`: `create` (anything that
can make a creation fail), `crash`, `uncertain`, `command` (an infrastructure
failure inside a command), `plugin`, `breach` (an answer over a limit),
`health` (a periodic report over a limit), `watchdog`, `spawn` (a replacement
cannot be prepared), `publish` (the arena is exhausted), `reject` (a refusal
that says nothing about the worker).

**Left out.** Payloads, spaces and hashes; the limits themselves (a breach is a
choice); the UDP sidecar, the renderer and asset admission, of which only the
awaits remain; artifact directories; the read-only `health` and
`getCapabilities`. A worker's answer to a command and the handling of that
answer are one action: between the two the message is in the channel, and
whatever makes the supervisor drop it also makes the outcome unknown, which is
`Uncertain` or `Exit`.

### `SupervisorCapacity` - many batches and managed runs

The capacity of the whole supervisor: `phase` of every CreateBatch and managed
experiment, `reserved` (`reservedWorkers`), the number of live `workers` of
each, and the stages of `_close`. `activeEnvironmentCount` is computed from the
batches in the map, as in the code. What happens inside a batch is abstracted
to a number of workers that may die and be replaced. Its workers are taken to
be gone when its creation has failed or its close has ended; recoveries can
break this (1 and 2 under section 4), so the passing run claims nothing about
processes, only about the accounting.

### `ExperimentQueue` - managed experiments, from enqueue to the final result

`HeadlessExperimentService` with the documents it keeps in `StorageService`.
Stored are `queue` (the entries of `headless-experiment-queue.v1.json`),
`result` (status, cases and revision of each result document; `failed` stands
for the case statuses `failed` and `error`) and `bundles` (which jobs have
their sidecar directory). In memory are `service` (starting, serving, the two
waits of `close()`), `boot` (how far the reconciliation has come), `pump`,
`cancelledIds` (`cancelledResultIds`), `cancel` (a cancellation of a job that
is not active, between its three writes), `admission` (the `enqueue` that holds
the admission chain) and `removing` (a deletion between its two). A crash, or
the end of `close()`, leaves what is stored and nothing else.

An action ends where the code waits for a write, for the sidecars, for the GPU
turn or for a case; the comments above the actions name the functions. `pump`
walks through `_drainQueue` (`look`, `entry`, `read`, `turn`), then with the
job active through `_drain` (`begin` to `skipping`), then through what follows
a conflict or the end. It carries a `copy` of the result, as `job.result` and
`job.revision` do, and every write of it is checked against the stored
revision when it takes effect.

| action | code |
|---|---|
| `EnqueueStarts` ... `AppendEntry`; `RefuseEntry`, `RollBackBundles` | `enqueue` and the rollback in its catch block |
| `CancelActive`; `CancelQueued`, `CancelPut`, `CancelDequeue`, `CancelUnlink` | the two halves of `cancel` |
| `Look`, `LookAtResult`, `ReadBundles`, `BundlesMissing`, `TakeTurn`, `GiveUpTurn`, `Dequeue`, `Unlink`, `JobEnds` | `_drainQueue`, `_persistQueueError`, `_finalizeQueueEntry`, `GpuTurn.acquire` |
| `DrainBegins`, `CaseStarts`, `CaseEnds`, `SkipRest`, `JobFinishes` | `_drain`, `_runCase`, `_persist`, `_finalizeShutdown`, `_finalizeCancellation` |
| `Start`, `ReconcileEntry`, `RewriteQueue`, `InterruptOrphan`, `Opens` | `_initialize`, `_reconcileOnStartup` |
| `BeginClose`, `CloseInterrupts`, `CloseEnds`, `Crash` | `close`, and a process that stops |
| `RemoveResult`, `RemoveBundles`, `PauseResult` | a client that deletes or rewrites a result through the storage routes; whether clients delete is the constant `MayRemove` |

Documents that were read once are served from memory, so a read and the
decision on it are one action, with two exceptions where another decision is
taken in between: the queue and the result in `_drainQueue`, and the queue that
`enqueue` reads before it writes it. The flag `resumePausedJobs` is down
whenever the pump tests it, because `_ensurePump` does not wait for the pump's
reads; a paused entry is therefore always dropped. Left out are writes that
fail, damaged sidecars, jobs of other backends, and managed PBR runs, whose
sidecars outlive their job (no provider of these is installed by default). What
happens during a case is the business of `SupervisorCapacity` and
`HeadlessSupervisor`.

### `ResultLifecycle` - what the result documents promise

The abstract specification of a job for somebody who only reads its result: it
is submitted, begins once, runs its cases in order and one at a time (one in
the whole system), no case twice, and reaches one final status; it may be
paused, and a case that was running when that happened is interrupted. A final
result changes only by being deleted, or into an error when a restart can no
longer admit the job. `ExperimentQueue` implements it, with
`doc` read off `result` without the revisions (`ResultsLiveAsPromised`).

### `SharedTensorArena` - the file, its allocations and its readers

`cells` is the file, one cell to a unit, so that the order of the writes of a
publication (payload first, header last), of a release (allocation first, then
the magic) and of an invalidation (truncate, grow, then the allocations) is
visible to a reader between any two of them. `blocks` is `allocations`; `tail`
is what is chained on `writeTail`, the operation that runs being its head, and
`stage`, `placed`, `written` say how far that one is. A block of n units is one
of header and n - 1 of payload.

| action | code |
|---|---|
| `Place` (with `Retire`, `Gaps`), `WritePayload`, `WriteHeader`, `PublishFails` | `publishTensor`, `_retireTransientAllocations`, `_allocate` |
| `Retain`, `ReleaseKeeps`, `ReleaseFrees`, `EraseMagic` | `retain`, `release` |
| `Truncate`, `Grow`, `InvalidateNothing` | `invalidate` |
| `Close`, `Unlink` | `close` |
| `Readable`, `PayloadAt`, `Accepts` | `validateSharedTensorReference`, and its counterpart in the Python client |

`ArenaSpec` is the arena with users that may ask for anything at any moment;
the proofs are about it.

### `SharedTensorEnvironment` - who publishes into the arena, and who reads it

One environment of a batch that negotiated shared memory. The worker's GPU
sensors are captured in groups; each capture is a *handler* of the supervisor
(`handler`) that reads `transportSequence`, publishes a raw product and an
observation, and then stores the sequence, with awaits in between. Handlers are
numbered by the worker they serve, because those of a replaced worker go on.
`queue` and `latest` are what the worker's `SensorPublisher` holds; `call` is a
reset or a step, `response`, `newest` and `refused` are the client's
(`TensorMapCodec`), and `read` is a reader in the middle of validating a
reference. `published`, `outlived`, `late` and `misread` are ghosts; `late` says
that some handler has gone on after its worker had been replaced or closed.

| action | code |
|---|---|
| `StartCall` | a reset or a step reaching the worker; `resetRun` releases the frames |
| `CaptureGroup`, `ProcessGroup`, `Deliver` | `updateAsync` before and after its await, `deliver`, `onDeliveredObservation` |
| `Rendered`, `RawPublished`, `ObservationPublished`, `CaptureFails` | the capture-group handler and `allocateCaptureProducts` with its roll-back |
| `WorkerAnswers`, `Externalized`, `ExternalizeFails` | `_externalizeObservation` |
| `Recover`, `Replaced`, `CloseBatch` | what `_recover` and `_closeBatch` do to the arena, the worker and the calls |
| `Read` | a client that maps the file, at any moment |

Left out are the PBR route, sensors with more products than two, the
computation of an arena's size (`Size` is a parameter, and exhaustion happens),
and a second call in flight: with two, the earlier response may carry
references the later one has already given up, which the protocol does not
forbid.

### `BrowserSimCommands` - an open simulator page under remote control

`BrowserSimService` on the server, `BrowserSimBridge` in the page, and the
requests between them. `browsers` and `commands` are the service's registries;
`registration`, `syncing`, `operations`, `snapshot` are the bridge's. A request
is in `flight` until it is served, its response in `replies` until the page
takes it; `GiveUp` (the page's request timeout) loses the request, loses the
response, or leaves the request to be served with nobody waiting. Ages stand
for clocks, and `Tick` advances them all.

| action | code |
|---|---|
| `Register`, `Heartbeat`, `Claim`, `Complete`, `Unregister` | the methods of these names; `_expire` (`Ended`, `LiveCommands`, `LiveBrowsers`), `_reportSnapshot` and `_finishUnavailable` are part of them |
| `Poll`, `Submit`, `Prepared`, `PrepareFails` | `list`/`status`/`get`, `submit`, `_prepare` |
| `Sync`, `Registered`, `HeartbeatAnswered`, `CompletionAnswered` | `_sync` from one await to the next |
| `ClaimAnswered`, `Executed`, `Acknowledged`, `DetachedExecuted` | `_handle`, `execute`, `_complete` |
| `RestartServer`, `ReloadPage` | nothing of the service, or of the page, survives |

Left out are `requestId` (a repeated submission returns the receipt it already
has, as long as that is kept), which page is the default, tokens, the admission
checks, and what the user does in the page meanwhile.

### `MarketplaceInstall` - transactions on the marketplace client

The two ledgers (`installed`, `ownership`), the journals (`torn`: those whose
directory is deleted in part), receipts, the libraries the adapters fill and the
recorded provenance are stored; so is the snapshot of each `job`. In memory are
`run` (how far `#runPrecommit` or `#runCommit` of a job is; `"lost"` when it
ended without being able to write how), `replan`, `planned` (a removal between its plan and
its journal), the coordinator's `queue` and the operation that is `active`.
`Crash` may come between any two durable writes, `Close` waits for what is
durable, `Open` to `Opened` are `recoverPending` and `recover`. The write of a
snapshot, the clearing of a work directory and the deletion of a journal may
fail too (the kind `"work"` of `MayFail`). A deletion that stops half way leaves
a directory with its journal and without its writes, which `recoverPending`
refuses as ambiguous: `Crash` may leave such a directory when it comes during a
deletion (`Deleting`). A deletion that fails without the process stopping leaves
the whole directory.

| action | code |
|---|---|
| `Start`, `Planned`, `PrecommitEnds`, `PrecommitLost`, `Cancel`, `ConfirmCommit`, `Resume` | the job manager's requests and `#runPrecommit` |
| `QueueInstall`, `Complete`, `CompleteFails`, `CommitFails`, `CommitLost` | `#runCommit`: `CompleteFails` leads into its catch block, whose write is `CommitFails` or, when it fails as well, `CommitLost` |
| `Replan`, `QueueAbandon`, `TakeAbandon`, `Replanned` | `replan`, `abandonJob` |
| `PlanRemoval`, `JournalRemoval`, `TakeRemoval`, `RemoveOwner`, `RemovalsDone` | `removeMembership`, and for its journal `#apply`, `#removeAdapterOwnership`, `#finish` |
| `TakeInstall`, `Prepare`, `Check`, `CommitAdapter`, `AdaptersDone`, `PublishProvenance`, `PublishOwnership`, `PublishInstalled`, `InstallDone`; `CheckFails`, `WriteFails` | `#preparedTransactionForJob`, `prepareInstall`, `#apply` and what they throw |
| `TakeFinish` | `finish`, which may fail |
| `ReplayNext`, `Replayed`, `RecoverJob` | `recoverPending`, the comparison of the ledgers, `recover` |

A hash of a ledger is the ledger itself. An adapter's operation, its completion
marker and the receipt are one step, because a replay recovers the adapter from
the marker and finds the receipt published. Downloading, verifying and planning
are one phase. Left out are publishing, policy and rights, artifact-only
releases and the journals of earlier formats.

### The proofs

`HeadlessSupervisorProofs`, `SupervisorCapacityProofs`,
`BrowserSimCommandsProofs`, `MarketplaceInstallProofs` and
`ExperimentQueueProofs` hold the theorems about the modules they are named
after, `SupervisorSerialProofs` those about `HeadlessSupervisor` with clients
that wait for their answers, `SharedTensorProofs` those about
`SharedTensorArena` and `SharedTensorEnvironment`, see section 5;
`FiniteSetFacts` the lemmas about finite sets of numbers and sums over them that
the community modules define without theorems. The modules whose names begin
with `MC` give the constants their values for TLC.

## 3. Runs

| run | instance | shows |
|---|---|---|
| `Overlapping` | 1 environment, 2 calls in flight, 1 restart, 2 episodes, every failure | `TypeOK`, `SupervisorInv` (the inductive invariant of the proofs: one worker per environment, and which session a command meets), `SessionAgrees` (outside a recovery the session is in the phase and the episode the supervisor believes), `FinalizeResultIsCurrent`, `OneRestartPerFailure`, `StepsItsEpisode` (a step runs in the episode it was accepted for, and a new episode has a number no earlier one had) |
| `Serial` | 1 call at a time, 3 episodes, 2 restarts, no creation or plugin failures | `RequiresResetIsReported`, `WatchdogGuardsAnEpisode`, `ClosedBatchHasNoWorker`, `NothingSurvivesShutdown` (neither a close nor a shutdown leaves a worker, except a second replacement in an environment that the end of a recovery has put back to `prepared`) |
| `NoRestart` | 2 environments, budget 0, creation failures, crashes, command failures, health breaches | `EndedBatchHasNoWorker` (neither a closed batch nor a failed creation leaves a worker) |
| `Liveness` | 1 environment, 1 call beside closing and shutdown, every failure, fair | `EveryCallReturns`, `CreationEnds`, `ClosingEnds` (a close and a shutdown both end) |
| `Capacity` | 3 creations of 1, 2 and 2 environments, 2 managed runs, room for 3, fair | `TypeOK`, `ReservationsAreHeld`, `CapacityRespected`, `NothingRunsAfterClose`, `CloseReturns` |
| `QueueCrash` | 2 jobs of 2 cases (one fail-fast), 2 starts, 2 submissions, restarts that refuse a job | `TypeOK`, `QueuedHasBundles`, `OpenResultsAreLookedAfter` (no result is left open by itself), `ResultsLiveAsPromised` (the refinement) |
| `QueueClients` | 2 jobs of 1 case, 1 start, 2 submissions, one result deleted or paused by a client, fair | `QueueIsServed`, `CloseReturns` |
| `Marketplace` | a bundle of a pack of a plugin, a job that installs the bundle and one that installs the plugin, 1 removal at a time, 1 failure, 2 restarts, 1 replan, fair | `TypeOK`, `InstalledIsBacked` (an installed release has its receipt, its effect and its origin), `LedgersExplained` (the ledgers differ only under a journal that says so, and agree after every replay), `OutcomeIsTrue` (a job says what became of its transaction), `ConfirmedJobsSettle` (a confirmed job completes, fails or asks for attention, unless its outcome could not be written or the process can no longer start) |
| `SharedTensors` | 2 sensors, 1 queued frame each, room for 12 units, 2 calls, 2 capture groups, 1 restart | `TypeOK`, `BlocksIntact`, `HeldReferencesAreLive` (what a worker holds is not reused), `ResponseIsReadable`, `ReadIsTruthful` (a reader that accepts a reference has what was published under it); the last three unless a handler outlives its worker |
| `BrowserSim` | 1 page, 2 registrations, 2 commands (the first one with a lost or late request and a restart), fair | `TypeOK`, `ReceiptsAreTrue` (at most once, and the receipt says what happened), `StatusIsNotOlder`, `UnresolvedAreKept`, `CommandsSettle` |
| `RefusedRemoval`, `StaleReference` | the smallest instance that shows it | one disagreement each between the code and its documentation (section 4) |

**Bounds of the supervisor.** `MaxEpisodes` bounds the accepted resets of an
environment, and is the only bound put on behaviour. Two calls are the least
that overlap; a third one would meet the same recovery promise as the second.
One restart distinguishes the first worker, its replacement, and an exhausted
budget, and the second one in `Serial` a failure of the replacement; two episodes tell
a result or a timer of the last episode from one of this. Environments of a batch interact only through the creation, the close and
calls that name several of them: `NoRestart` has two, the theorems any number.
Larger instances, which take longer than a run should, find nothing more:
`Overlapping` with 3 episodes (1.9 million states) or 2 restarts (1.8 million),
`Serial` with 3 restarts or 4 episodes, `QueueCrash` with 3 starts (3.5 million)
or 3 submissions (2.4 million), and 2 environments with 1 call, 1 restart and
no resets for the invariants of `Overlapping`.
In `Capacity` the sizes are such that two of the creations never fit together
while each of them fits with the small one or with a managed run.

**Of the queue.** Two jobs are the least of which one waits for the other, two
cases tell the case that was running from one that has not begun, and two
starts give one crash and its reconciliation (the process may crash again,
also while it reconciles, but does not come back then). `QueueCrash` keeps
clients from deleting results (`MayRemove = FALSE`): revisions begin again at 1
when an id is used a second time, and a copy from before the deletion then
passes the revision check (a hazard in `PROJECT.json`). `MaxEdits` bounds
deletions and pauses together. `QueueInv`, the inductive invariant of
section 5, holds of `QueueCrash` as it is, and with one pause (`MaxEdits = 1`, 7.1
million states), which takes longer than a run should.

**Of the marketplace.** Three releases, each in the one before, give the
closure, a release with two owners (the plugin, asked for by itself and by the
pack) and orphans of orphans; two jobs share the plugin, so that one's target is
the other's base. Two restarts crash once inside a transaction and once inside
its replay. A single remover still races both installations; two of them are in
`RefusedRemoval`. `MaxFailures` does not count the failures that keep a status
from being written (`PrecommitLost`, `CommitLost`), so that one of these may
follow a failure of the completion, or of the transaction, as it does on a full
disk.

**Of the arena.** A raw product (2 units) and an observation (3) differ in
length, so that what one leaves is taken partly by the other; 12 units hold what
both sensors capture at once and not twice, so exhaustion and reuse both
happen. Two calls and two
groups put every generation of the retirement (3 sequences) in play, since each
capture and each response takes one, and a handler of a replaced worker
overlaps the captures of the new one. The same properties hold in two larger
instances that take longer than a run should: one sensor with 4 calls, 3 groups
and a restart (8.9 million states), and two sensors with 3 calls and 3 groups
without one (14.6 million). Without the condition on `late`,
`ReadIsTruthful` fails in the first of them (section 4).

**Of browser control.** Clocks are counted in units of which a page's silence
is 2, the wait for a claim 3 and the retention 3; the code has 15 seconds, one
minute and ten minutes, and compares each with the age of one thing only. One
page and one receipt at a time are the registries at their limit: a second
registration takes the slot of the page that was reloaded, a second submission
evicts the receipt of the first. Requests are late in every behaviour; one is
lost or given up, and the server or the page restarted, only in behaviours of
one command, and a second command comes only in those without
(`FaultyCommands`). The same properties hold in two larger instances that take
longer than a run should: one page, two commands and a lost or late request of
either of them, without restarts (2.1 million states), and two pages, three
registrations, one command and a restart (1.9 million).

**Deadlock** is checked in the runs of the supervisor, its capacity and the
queue; a supervisor that is down stutters explicitly (`Terminated`), and so does
a queue that has used up its starts (`Over`). The other three systems really do
come to rest once the bounded calls, captures, submissions and jobs are used up,
and their configurations say `CHECK_DEADLOCK FALSE`; that they do not rest too
early is what `ConfirmedJobsSettle` and `CommandsSettle` are for. For the arena
there is no such property: what waits there waits on a promise that the file
system settles.

**Fairness.** In `HeadlessSupervisor` continuations are weakly fair: the event
loop runs them. Events are strongly fair, because the loop takes them in the
order they come: calls that keep arriving, with continuations of their own, do
not hold up an exit or a timer for ever. Fair are the supervisor's own events
(the stages of a recovery, a close, a creation), the exit of a *killed* worker
(close() escalates to SIGKILL), and the answer to a command or to `initialize`.
Only a step has a timeout in the code, so for the others the last one is an
assumption about the worker: a `reset`, a `finalize` or the `initialize` of a
replacement that hangs for ever blocks its environment (listed as a hazard).
Client calls, failures and the start of a shutdown owe nothing. In
`SupervisorCapacity` an admission, a creation and a managed run are fair, as
their parts are in the other module. In `ExperimentQueue` whatever the process
has begun is weakly fair: one continuation after the other of the pump, of the
admission, of each cancellation and of the reconciliation. That a case ends
rests on the supervisor's own liveness; that the GPU turn is obtained rests on
clip jobs giving it back, although the code has no order among those who wait
for it. In `MarketplaceInstall` the coordinator's queue, the continuations of
each job and the stages of a start are weakly fair, and somebody starts the
process again; nothing is assumed of the callers. In `BrowserSimCommands` the
page's timer and promises go on, a request the page still waits for is served,
the storage answers, time passes, and some controller asks for a status now and
then, since expiry is only ever run by a request. Nobody has to submit, reload
or restart.

## 4. Where the code does not do what its documentation says

Two of these are runs that TLC must find violated; the quoted lines are in
`PROJECT.json` under `findings`.

1. **`RefusedRemoval`** - a removal reads the ledgers and writes its journal
   before it joins the coordinator's queue. When an installation or another
   removal commits in between, its journal fits neither the base nor the target,
   cannot be rolled forward, stays on disk, and makes every later start throw.
   `docs/marketplace-plan.md:401-403` promises serialized transactions and
   startup roll-forward.
2. **`StaleReference`** - the references of one response may decrease in
   sequence, because a retained observation keeps the sequence of its capture,
   and the Python client refuses the second as stale.
   `docs/headless-supervisor.md:269-270` gives a reference until the next
   successful response.

Eight more are not runs of their own. Each of the properties below is defined in
the module and fails on the instance given; a passing run leaves exactly that
case out.

| what happens | module and property | instance |
|---|---|---|
| A worker that exits while the catch block of `_createBatch` cleans up belongs to an environment in state `prepared`, so `_observeExit` starts a recovery; the replacement is forked after the workers to be closed were collected, and stays. | `HeadlessSupervisor`, `FailedBatchHasNoWorker` | 1 environment, budget 1, `MaxEpisodes = 0`, `Faults = {"create"}` |
| A call still in flight that fails during `CloseBatch` calls `_recover`, which does not ask whether the batch is closing; again a replacement is forked that nobody closes. | `CloseDisposesEveryWorker` | `Overlapping = TRUE`, budget 1, `Faults = {"crash"}` |
| `CloseBatch` sets every state to `closing` and then waits for a recovery under way; that recovery, when it ends, sets its environment back to `prepared`. If the replacement exits before the workers are collected, `_observeExit` starts another recovery, and its worker is forked too late to be closed. `docs/headless-supervisor.md:287` says that `CloseBatch` always disposes every worker. | `CloseDisposesEveryWorker` | `Overlapping = FALSE`, budget 2, `Faults = {"crash"}` |
| `_dispatch` recovers from a breach, then throws; the caller recovers again, from the same error, the healthy replacement, so two restarts are consumed. The same happens to a call whose observation cannot be published after a recovery. | `BreachCostsOneRestart` | budget 1, `MaxEpisodes = 1`, `Faults = {"breach"}` |
| A plugin failure ends the episode but leaves its timer armed. When it fires during the next reset, the answer to that reset lowers `requiresReset` in the middle of the recovery. | `RequiresResetIsReported` | budget 1, `MaxEpisodes = 2`, `Faults = {"plugin", "watchdog"}` |
| A reset answers between the start of a recovery and the exit of its worker: when another call asked for that recovery, the code after the await declares the episode ready, lowers `requiresReset` and starts the timer, and the end of the recovery undoes neither. | `RequiresResetIsReported`, `WatchdogGuardsAnEpisode` | `Overlapping = TRUE`, 2 calls, budget 1, `MaxEpisodes = 2`, the failures of `Serial` |
| A capture that is with the GPU when its worker is replaced is published for the dead worker, under a sequence a capture of the new worker has read as well. A reset releases the observation of the new one while the client still has its reference; the late one may be placed there, with the same offset, length, generation and sequence, and the reader takes it for the other. `docs/headless-simulation-plan.md:1004` says that stale references are rejected. | `SharedTensorEnvironment`, `StaleReferencesAreRejected` | 1 sensor, 4 calls, 3 groups, 1 restart, 12 units |
| `enqueue` reads the queue and then writes it with compare-and-set; when the pump or a cancellation takes an entry off in between, the submission is rolled back and rejected. | `ExperimentQueue`, `SubmissionsAreAccepted` | 2 jobs of 1 case, 1 start, 2 submissions, no edits |

The passing runs state what holds besides: `Serial` leaves out plugin failures
and overlapping calls, and its two properties about closing except an
environment that was put back (`PutBack`); `NoRestart` leaves out the restarts,
`OneRestartPerFailure`
speaks of commands that failed, not of failures found after a good answer, and
the properties of `SharedTensors` of behaviours in which no handler has
outlived its worker (`late`).

The models also show the following, of which no document speaks clearly enough
to call it a disagreement. Most are listed as hazards.

*Supervisor and queue.*

- A managed run gives back its reservation before its worker has exited, so
  more than `maxWorkers` worker processes run for a while
  (`HeadlessSupervisor.js:947`).
- A job that a shutdown or a crash has paused is never resumed: the flag that
  should allow it is lowered before the pump looks at it
  (`HeadlessExperimentService.js:186`).
- An id that was cancelled is passed over until the process restarts when its
  entry is not removed by the cancellation itself, also when a new job takes
  the id (`HeadlessExperimentService.js:584`).
- A result that is changed while the pump finds the sidecars missing ends the
  pump; the entries left wait for the next submission
  (`HeadlessExperimentService.js:685`).

*Marketplace.*

- A job that needs attention is stuck when another transaction moves the
  ledgers: it cannot be resumed (its journal fits no longer), nor replanned (the
  same check refuses to abandon it), nor cancelled. With the journal left on
  disk the next start fails as in 1.
- `finish` waits behind whatever is queued. A crash before it runs finds the
  journal of a complete job, replays it over ledgers that a later transaction
  has moved, and again cannot start.
- When an installation is durable but its work directory cannot be cleared, or
  its completion not be written, `#runCommit` (lines 324-331) marks the job
  `failed` although `docs/marketplace-client.md:407-409` sends such failures to
  `needs-attention`. The journal is kept, so that the next start completes it;
  this is what the last conjunct of `OutcomeIsTrue` says.
- When that status cannot be written either, as on a full disk, the error is
  swallowed (`.catch(() => {})`, lines 291 and 331). The job stays in `commit`
  or `recover` (or, before it is confirmed, in the phase it was in), nobody goes
  on with it, and resume, replan and, once it was confirmed, cancel refuse it
  until the process is started again. `ConfirmedJobsSettle` excepts it (`run[j]
  = "lost"`); without the exception TLC refutes it in `Marketplace`: an install
  throws, and the write of the status fails. None of the
  invariants is touched by it.
- `removeDirectoryDurable` deletes a journal's directory file by file. When the
  process stops half way, the directory may keep its journal and lose its
  staged writes; `recoverPending` then throws, at this start and at every later
  one, although the transaction was over or abandoned
  (`MarketplaceTransactionCoordinator.js:649-657,674-682`).
  `ConfirmedJobsSettle` excepts this as it excepts the journals of 1.

*Shared tensors.*

- A recovery while a response with two inline tensors is being externalized
  lets the call succeed with a reference to a block that is gone (`outlived`).
- A capture that fails rolls back by offset. When its release is queued behind
  an invalidation, it may free whatever has been placed there since
  (`SharedTensorArena.js:203`).
- A handler whose environment was released by the renderer keeps its blocks
  until the next recovery (`PooledGpuRenderer.js:1403`).
- A slow handler stores the sequence it has read before others were stored, so
  `transportSequence` may go back; captures of a replaced worker may retire
  blocks of the current one that are not retained.
- A late handler whose observation cannot be published rolls back by offset as
  well: the raw product it releases may have been retired, and its place taken
  by the inline tensor of the response just sent (1 sensor, 5 calls, 4 groups,
  1 restart).

*Browser control.*

- An execution that throws an error whose `code` is not a string can never be
  reported: the service refuses the completion as invalid, the command stays
  `running`, and `_sync` throws before it handles any other
  (`BrowserSimBridge.js:124`). `CommandsSettle` excepts it.
- A claim whose response is lost, followed by fifteen seconds of silence, makes
  the command `unknown` without ever having run, and the page stays busy until
  it is reloaded. `docs/browser-sim-api.md` says so.
- After a restart of the server the page accepts a new command while the old one
  still executes; a registration served late creates a page nobody is behind.

## 5. Theorems

**Supervisor.** Proved for any number of environments and calls, any restart
budget, any set of failures, from `SupervisorAssumption` (the types of the
constants, and that the actors are not named like the states of a handle):

- `TypeCorrect`: `Spec => []TypeOK`. It contains one fact that is more than
  typing: `restartCount` never exceeds the budget, and no environment gets
  more workers than that.
- `OneWorker`: `Spec => [](LiveIsCurrent /\ PendingOnLiveWorker)`. An
  environment never has a worker process other than `environment.worker`, and
  requests are in flight only on a live one.
- `SessionsAgree`: `Spec => []SessionAgrees`.
- `FinalizeResults`: `Spec => []FinalizeResultIsCurrent`.
- `OneRestart`: `Spec => []OneRestartPerFailure`.
- `StepsRunTheirEpisode`: `Spec => StepsItsEpisode`, an action property.
- `FirstWorkerGone`: `Spec => []FirstWorkerIsDisposed`: the workers of
  `CreateBatch` are gone when the batch has failed or is closed, and
- `EndedBatchIsClean`: without restarts, so are all
  (`EndedBatchHasNoWorker`, `NothingSurvivesShutdown`).

And, in `SupervisorSerialProofs`, for clients whose calls do not overlap
(`~Overlapping`), still with any budget and any number of recoveries:

- `ClosedBatches`: `Spec => []ClosedBatchHasNoWorker`, with any failures.
- `Shutdowns`: `Spec => []NothingSurvivesShutdown`, when no failure but the
  shutdown ends a creation (`"create" \notin Faults`).
- `ResetIsReported`: `Spec => []RequiresResetIsReported`, and
- `WatchdogGuards`: `Spec => []WatchdogGuardsAnEpisode`, without plugin failures.

These hypotheses are what section 4 asks for: without any one of them TLC finds
the property violated. They are not those of the run alone: restarts, episodes
and environments are not bounded.

`LiveIsCurrent` is not inductive: to fork a replacement is right only because
the failed worker has exited by then, although `_recover` awaits an admission
in between, and because `_createBatch` does not fork for an environment that is
being recovered. `LiveInv` adds exactly that (`RecoveryForksAlone`) and that a
pending request implies a live worker, which the answers rely on. The proof
takes the actions that leave the processes, the workers and the recoveries
alone together (`CalmKeepsLiveInv`, with `Calm` as the common shape), and the
others one by one (`LiveInvNext`). From `LiveInv` and `DisposalInv`, which says
how far the disposal of each environment has come, follow the last two: no step
forks a first worker once the batch has begun to end.

What the supervisor believes of a session outlives the turn in which it learnt
it: between the message of a caller and the answer of the worker a recovery may
begin and end, another call may reset the episode, and the worker may be
replaced. `SupervisorInv` says what carries over. A share of a call that has sent
its command is the one the pending request belongs to, and goes to the worker
of the environment (`ThreadsFollowCalls`). A command is held back by recoveries
only, and one let through is sent before the next event, so that no recovery
begins in between but one of the same turn (`ResumedBeforeEvents`). Any session
that may still get or answer a command (`Heard`) is in the episode the
supervisor last reset it to (`SessionEpisode`), a step that reaches it was
accepted for that episode (`StepsMeetTheirEpisode`), and resets reach it in the
order of their numbers (`ResetsAreNumbered`): that is why an answer may be
taken at its word. A replacement that failed is not heard again
(`DiscardedIsSilent`), and outside a recovery the state of the environment names
the phase of the session (`StateNamesPhase`), which gives `SessionAgrees`.

`SupervisorInv` has nine parts and the next-state relation more than forty actions.
The proof therefore first shows what a step does to one
environment (`EnvSteps`) and to one share of a call (`ThreadSteps`), each as a
short list of kinds that speak of single values, and then, for each part, that
every kind preserves it (`ThreadsFollowCallsNext` to `StateNamesPhaseNext`).

The theorems about serial clients rest on `SupervisorInv` and on what it does
not know: who can still begin a recovery. `CallsAlone` says that one actor at a
time is busy, none before the batch is open, and none once it is being disposed
of, unless by a shutdown, which waits for nobody. `ClosedBatchHasNoWorker` is
far from inductive. A worker that is left was forked by a recovery, which was
granted before the shares of `_closeBatch` were; `EndInv` follows that recovery.
While a share waits for it, anything may happen; from then on (`LateRecovery`)
an environment that is not `closing` has been restarted once, a second grant
therefore makes it one that was put back, and every worker that the share did
not collect is the second replacement in such an environment. Before the batch
is open no recovery begins at all, if the workers do not fail of their own
accord (`CreationInv`), so the cleanup of a shutdown finds all workers.

`requiresReset` and the episode timer are set in answers, in the catch block, in
`_recover` and in `_closeBatch`, at places that do not ask for one another.
`RequiresResetIsReported` is inductive only once it covers a recovery that has
not killed its worker yet (`FlagIsReported`), when a command may still be
answered: that command is a step, and the environment was ready when the
recovery began (`DrainsReady`), for no timer runs under a reset or a finalize
(`Disarmed`) and nothing but the timer and the caller itself begins a recovery
during a command. `WatchdogGuardsAnEpisode` holds between turns only: a failed
step leaves the timer running until its caller asks for the recovery, in the
same turn (`Guarded`, with `ThrownSteps`).

**Capacity.** Proved for any capacity, any batches of any sizes and any managed
runs, from `CapacityAssumption`:

- `CapacityTypeCorrect`: `Spec => []TypeOK`; `reservedWorkers` stays between 0
  and `maxWorkers`.
- `NoReservationLeaks`: `Spec => []ReservationsAreHeld`, `CapacityIsRespected`:
  `Spec => []CapacityRespected`, and `CloseIsFinal`:
  `Spec => []NothingRunsAfterClose`.

The accounts are sums over the operations, so each step needs what changing one
term does to a sum (`FiniteSetFacts`). `CapacityRespected` is inductive only
together with `ReservationsAreHeld`: a creation that registers its batch gives
its reservation back in the same turn, and the sum is what says that this
reservation was part of the total. `NothingRunsAfterClose` needs the order in
which `close()` takes its lists (`ShutdownOrder`): at each stage, the kinds of
operation that have been waited for are over, and what is left can only move
into kinds still to be waited for.

**Arena.** Proved of `ArenaSpec`, whose users submit any requests at any moment,
for any size, any number of generations, any contents and callers, from
`ArenaAssumption` (the types of the first two):

- `ArenaTypeCorrect`: `ArenaSpec => []ArenaTypeOK`.
- `DisjointBlocks`: no two allocated blocks overlap and none reaches past the
  end of the region.
- `IntactBlocks`: an allocated block holds the header and the payload it was
  published with until it is released, retired or invalidated.

None of these is inductive alone, because the arena decides and then awaits:
the place of a publication is chosen before its first write and registered
after its last, and a release takes its block off before it erases the magic.
`Inductive` adds what holds in between: the space of the publication under way
is disjoint from every block and holds what has been written so far
(`PayloadPlaced`), the magic about to be erased belongs to no block
(`MagicFreed`), and only an invalidation truncates the file (`Growing`). That operations are chained is what makes one such space enough.
Actions that leave the file and the blocks alone are taken together
(`BystanderStep`), those that only end an operation too (`EndingStep`), the
others one by one.

**The environment of the arena.** Proved of `SharedTensorEnvironment`, for any
sensors and lengths of their products, any queue, captures, calls and restarts,
from `EnvironmentAssumption` (the types of the constants; sensors are numbered,
as the publisher's list is; handlers and calls are callers of the arena; every
publication has a content of its own, its number):

- `EnvironmentTypeCorrect`: `Spec => []TypeOK`.
- `EnvironmentUsesArena`: `Spec => ArenaSpec`. The environment asks the arena for
  well-formed requests only, whoever asks and whatever fails, and touches the
  file through it only, so the theorems about the arena hold of the composition;
- `EnvironmentBlocksIntact`: `Spec => []BlocksIntact` is one of them.

The types are not inductive by themselves: that a capture that is done has an
observation (`DoneIsCaptured`), and that a reader reads a reference
(`ReadsReference`), are part of the invariant, and so is that of the arena. What a
worker releases is a sequence of sequences flattened by a fold; that its members
are requests is shown on the recursive function behind the fold
(`FlattenIsDefined`, by the least counterexample).

Three more, with one call in flight (`OneCall`) and no more routes than generations
(`EnoughGenerations`):

- `HeldReferencesLive`: `Spec => []HeldReferencesAreLive`. Whatever a worker
  holds is allocated: no retirement, no release at the same offset and no
  roll-back takes it.
- `ResponseReadable`: `Spec => []ResponseIsReadable`. Until the next call, all the
  references of a response can be read.
- `TruthfulReads`: `Spec => []ReadIsTruthful`. A reader that accepts a reference,
  then or later, has the content that was published under it; responses
  that a recovery overtakes are excepted.

What goes wrong with a reference is decided long before it happens: a release or
a publication waits in the tail of the arena behind others, and `release` goes by
the offset alone. So the invariant (`Holding`, as long as no handler is late)
speaks of the whole tail: for whom each publication is and with which sequence
(`Publishing`), that what is being released is nobody's any more, is being released
once, and cannot have been replaced when its turn comes (`Releasing`), that nobody
else holds what somebody holds (`Raws`, `FramesHeld`), what a response under way
refers to (`Responding`), and that the sequences read by the captures of one group
are within the number of sensors of each other (`SequencesNear`): a raw product is
transient, and no other capture of its group, published while it is awaited, may
retire it. That is what `EnoughGenerations` is for. In the model a sensor has a
route of its own; in the code there are three routes
(`HeadlessGpuSensorManager.js:678`) and `SHARED_TENSOR_GENERATIONS` is 3. With two
sensors and one generation TLC finds a raw product retired before it is released.

A reader is not part of the tail: it reads a file in which the block may be gone,
or another one be half written, and has only the header to tell by, before it
reads the payload and again after. `Reading` says that publications run in the
order of their sequences (`InTurn`, `AtTurn`: all observations of a group before
a raw product of the next, and a response's tensors after them), that frames have
sequences of the past (`FramesPast`), and that each cell at the offset of a
reference, if it is a header a reader takes for that reference, has its content
(`ResponseTells`, `ReadTells`). While a block is allocated the cell is its own
header; once it is gone every header to come has a later sequence (`Ahead`), so
what the cell tells never becomes false again. The property excepts what a recovery
overtakes, as the code does not promise it (section 4), and handlers that outlive
their worker, for which it is false (section 4).

`OneCall` is the restriction of section 2. TLC shows that the second theorem needs
it: with two calls and 16 units the earlier one ends last and its response refers to
a frame the later one has replaced. The first may not: with two calls and 12 units
TLC finds no reference lost; the proof uses that the one call under way
explains every publication in the tail.

**Browser control.** Proved for any number of pages, registrations, commands,
lost, late or repeated requests, restarts of the server and reloads of the page,
and any limits of the registries, from `BrowserSimAssumption`: the limits are
positive, a page's silence is shorter than the wait for a claim and that not
longer than the retention (15 seconds, one minute and ten minutes in the code).

- `BrowserSimTypeCorrect`: `Spec => []TypeOK`.
- `PagesExecuteOnce`: `Spec => []ReceiptsAreTrue`. No page executes a command
  twice, and a receipt that says succeeded or failed says what happened.
- `StatusOnlyAdvances`: `Spec => []StatusIsNotOlder`.
- `UnresolvedReceiptsAreKept`: `Spec => UnresolvedAreKept`, an action property:
  no step of the service drops the receipt of a command whose page may still
  claim it or report on it.

What makes a command run at most once is spread over the two ends and the
requests between them: the service grants a claim once per claimId, the page
remembers its operations, and a grant may be under way, or be lost. The
inductive invariant says, of each command, where its one chance to be executed is
(`ClaimsAreFresh`, `GrantsAreGood`, `Operations`, `Detached`, `OneAtATime`),
that requests and answers carry what their sender knew (`Requests`, `Values`,
`Acknowledgements`, `Taken`), and that a registration, an id or a snapshot number
once given out is never given out again (`Counters`, `Server`).

**Marketplace.** Proved for any releases and any structure of memberships, any
number of jobs and removers, failures, crashes, restarts and replans, from
`MarketplaceAssumption` (the types of the constants, and that jobs, removers and
the owner `Direct` are told apart by their names):

- `MarketplaceTypeCorrect`: `Spec => []TypeOK`; in particular a journal always
  holds two whole states of both ledgers.
- `InstalledReleasesAreBacked`: `Spec => []InstalledIsBacked`.
- `LedgersAreExplained`: `Spec => []LedgersExplained`.
- `OutcomesAreTrue`: `Spec => []OutcomeIsTrue`.

None of the last three is inductive. The ledgers are written one after the other
under a journal; after a crash journals are replayed in any order. `Journals`
says that the two states a journal holds agree with each other and that the
target is the base or has a higher revision, so that a state of a ledger
belongs to one of them only; `Explained` that while journals are replayed the
one that explains a difference is among those still to be replayed; `Running`,
`Committed`, `Queued` and `Phases` tie the active operation, the queue and the
job's continuation to the journal; and `Outcomes` that an installed outcome is
never taken back. Most of the work is to see which steps change what
(`LedgerSteps`, `JournalSteps`, `ActiveSteps`, ...), after which each conjunct
has one lemma (`TypesKept` to `OutcomesKept`). The closure of memberships and the
orphans of a removal are handled by what they must satisfy (`PlanIsRequired`,
`OrphansAreClosed`), not computed.

**Experiment queue.** Proved for any jobs, any number of cases, starts and
submissions, pauses by clients, crashes at any point and restarts that refuse a
job, from `QueueAssumption` (the types of the constants):

- `QueueTypeCorrect`: `Spec => []TypeOK`.
- `QueueInvariant`: `~MayRemove`, then `Spec => []QueueInv`, and from it
- `EntriesHaveBundles`: `Spec => []QueuedHasBundles`,
- `NothingIsForgotten`: `Spec => []OpenResultsAreLookedAfter`,
- `LifecycleKept`: `Spec => ResultsLiveAsPromised`, the refinement of
  `ResultLifecycle`.

The last four are of clients that do not delete results. The hypothesis is
needed: with `MayRemove = TRUE` TLC finds all three properties violated in the
instance of `QueueClients`, because a job submitted again under a deleted id
starts again at revision 1. The code has the same gap for ids that a client
chooses; those it generates are new each time.

The pump, one submission and any number of cancellations write the same
documents, each from a copy read earlier. `Copies` says what the revision check
is worth: a copy with the stored revision is the stored document, so a write
that is not refused changes what its writer saw. Hence every change of a
document is one of four (`ResultMoves`): a submission creates it or rolls it
back, somebody stops it, or the pump, whose copy is current, advances it; each
is a step of `ResultLifecycle` (`MoveKept`). The other parts say where the
files stand to each other at each place of those who write them: `Entries`,
`Admitting` and `Cancelling` that bundles come first and go last; `Pumping` that
the pump does not give up what is still pending, unless a cancellation will
surely end it (`ToBeCancelled`); `Lifetimes` and `Booted` that a start finds
nobody at work and stops what it does not keep. `OpenResultsAreLookedAfter` is
not inductive without them: a pending result that has left the queue is looked
after only because its cancellation will not be refused. That the queue loses
exactly the entries taken off it is an induction on its length (`KeptKeeps`),
carried out by the least counterexample.

**Model-checked only.** Liveness, which the prover does not reach:
`EveryCallReturns`, `CreationEnds`, `ClosingEnds`, `CloseReturns` of
`SupervisorCapacity` and of `ExperimentQueue`, `QueueIsServed`,
`ConfirmedJobsSettle` and `CommandsSettle`. Every other property of a passing run is a theorem. No
RECURSIVE operator is used in a module with proofs.

## 6. Plan

Modelled so far: the supervisor, its capacity, the experiment queue, the shared
tensor arena with an environment that uses it, browser control, and marketplace
installation. Next, in this order; each is a module with its own instance and
properties.

1. `PacketTransport`: hub, ordering, sidecar generations.
2. `AssetAdmission`: pins and leases, the journal, recovery after a crash.
3. `BakePromotion`, `VehiclePublication`: commits in several steps with
   compensation.
4. `EpisodeContract`: what a client may assume of one environment (prepared,
   ready, terminal, finalized, lost), with `HeadlessSupervisor` shown to
   implement it.

Theorems to come: `HeldReferencesAreLive` with more than one call in flight.

**Not modelled, and why.**

- *Physics, sensors, rendering, geometry, road graphs, route planning, the 3D
  scene, vehicles*: floating point and large data, sequential, and best tested
  against numbers.
- *Visual scripting, plugin packages, marketplace signing, formats and policy,
  protocol encoding, reports*: pure functions over documents. Their definitions
  would be as long as their code and say the same.
- *User interface and editor*: event handlers over one user's state. The
  editor's command history and the run controller of the browser
  (`RunSessionController`) are the parts with a protocol worth a module.
- *Packet transports, asset admission, publication of vehicles and bakes,
  marketplace publishing jobs, telemetry segments, the renderer pool*:
  concurrent or persistent, and within reach; they are the plan above.
- *The file system under storage*: a write is taken to be atomic, as the
  rename at its end is meant to make it.
- *How large an arena must be* (`calculateSharedTensorArenaBytes`): arithmetic
  over the layout of a batch. The model has arenas that are too small instead.

## 7. Checking it

    tlc -config Overlapping.cfg MCHeadlessSupervisor.tla
    tlapm HeadlessSupervisorProofs.tla

and so for the other configurations, which name their properties, and the other
modules with proofs. A run takes from a second to three minutes with two
workers, the proofs of a module up to four minutes. The
definitions marked "Mutant" are not part of the specification: each is a
plausible bug in the definition that follows it, and replacing that definition
by it makes the property named in `PROJECT.json` fail.
