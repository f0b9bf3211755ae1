# A TLA+ model of the orchestration core

The program is a server that runs coding agents (Claude, Codex, OpenCode and others) on behalf of
web, desktop and mobile clients. Everything a user does is a *command*; a decider turns a command
into *events*; events are appended to a log in SQLite and projected into tables; reactors watch the
events and drive the agents; clients keep a copy of the projected rows. These modules model that
core: the command engine, the connection of a client, the synchronization of its sidebar and of an
open thread, the lifecycle of a thread, its deletion and its terminals, and its checkpoints.

Paths below are relative to `src/apps/server/src` unless they begin with `packages/`.

## Inventory

| Component | State it keeps | Operations | What is hard | What makes it correct |
|---|---|---|---|---|
| Orchestration engine (`orchestration/Layers/OrchestrationEngine.ts`) | command queue, command read model, event feed; durable log and receipts | `dispatch`, `processEnvelope`, reconcile after a failure, start-up | retries while the first attempt is queued, commits reported as failed, crashes between commit, swap and publication | a command takes effect at most once, answers agree with the receipts, read model and feed follow the log |
| Decider and projector (`orchestration/decider.ts`, `projector.ts`) | the command read model: thread flags, a window of activities, the last message | one decision per command | commands of several clients and reactors cross; the read model knows less than the database | no thread is settled while it has work; lifecycle flags never contradict each other |
| Projection pipeline (`orchestration/Layers/ProjectionPipeline.ts`) | projected tables, one cursor per projector | project in the engine's transaction, bootstrap | crash between projectors | tables are a function of the log |
| Snapshot query (`orchestration/Layers/ProjectionSnapshotQuery.ts`) | none (reads the tables) | command read model, shell snapshot, rows | what it leaves out after a restart | what it returns matches the log |
| WebSocket server (`ws.ts`) | per subscription: retained live events, replay position | `subscribeShell`, `subscribeThread`, dispatch | events published during the snapshot or the replay, coalescing, overflow | nothing lost, nothing late behind the completion marker |
| Client shell (`packages/client-runtime/src/state/shell.ts`, `shellReducer.ts`, `rpc/client.ts`) | snapshot, cursor, status, disk cache | subscribe, apply items, resubscribe, persist | several sessions, wakeups, restarts, partial caches | a cursor never hides a missing change; "live" is true |
| Connection supervisor (`packages/client-runtime/src/connection/supervisor.ts`) | active and replacement session, backoff | connect, replace before expiry, retry, stop | a replacement that races the end of the active session | exactly one active session, no leaked lease |
| Thread settlement (`orchestration/Layers/ThreadSettlementReactor.ts`) | none between sweeps | sweep: snapshot, pull-request lookup, command | the command arrives long after the snapshot | a thread that changed in between is left alone |
| Provider command reactor (`orchestration/Layers/ProviderCommandReactor.ts`) | inbox of domain events, pending attempts, pending fallback decisions | start and stop turns, clean up settled threads, offer fallbacks | late processing, two independent event streams, restarts that forget memory | a late stop never kills a new turn; what waits for the user is visible |
| Provider runtime ingestion (`orchestration/Layers/ProviderRuntimeIngestion.ts`) | buffered deltas, turn state | runtime event to commands | late events of a superseded turn | a turn is finished once, by its own events |
| Checkpoint reactor (`orchestration/Layers/CheckpointReactor.ts`) | none beyond the queue | capture, revert | two paths capture one turn | a ref is of the turn that has its count, a placeholder is captured |
| Thread deletion reactor (`orchestration/Layers/ThreadDeletionReactor.ts`) | queue, watermark | stop sessions, close terminals, drain | re-creation under the same id | clean-up is over before the id is used again |
| Workers (`packages/shared/src/DrainableWorker.ts`, `KeyedCoalescingWorker.ts`) | queue, outstanding count, latest value per key | enqueue, drain | enqueue during processing or during a failure | every value is processed, drain means drained |
| Live streams (`orchestration/LiveStreamBudget.ts`, `ThreadLiveEventCoalescer.ts`) | charged bytes and items, window | retain, release, flush | overflow, a timer that fires during an offer | no leak, no reordering, failure is seen |
| Start-up (`serverRuntimeStartup.ts`) | none | reconcile sessions, open the gate | sessions that were at work | none is left running in the tables only |
| Terminals (`terminal/Manager.ts`) | session objects, a map to the current ones, history files, persist worker | open, restart, close, evict, persist | history is written late, by reference; a session may leave the map while it is worked on | a process belongs to a session, a history to its incarnation |
| Relay, git, providers, authorization, applications | their own | - | external programs and services | not modelled, see the end |

The components meet in four ways. Clients *call* `dispatch` through the WebSocket server and wait on
a Deferred. The engine *publishes* every committed event on a hot stream: the reactors and the
subscriptions consume it, nobody acknowledges it, and a restart forgets it. Reactors act by
*dispatching commands* of their own, usually some time after they looked. And everybody *reads the
tables*, which are written in the engine's transaction and are therefore never behind the log,
though they may be ahead of the feed.

`PROJECT.json` lists the hazards at their lines and the properties that answer each.

## Modules

| Module | Role |
|---|---|
| `CommandLog` | what dispatch promises: an atomic log with receipts (abstract specification) |
| `OrchestrationEngine` | the engine, step by step; implements `CommandLog` |
| `OrchestrationEngine_proofs` | theorems about it: log, receipts and refinement; the feed and the read model |
| `EnvironmentSession` | what the connection supervisor promises the client's state: one session, its generation (abstract specification) |
| `ConnectionSupervisor` | the supervisor; implements `EnvironmentSession` |
| `ConnectionSupervisor_proofs` | theorems about it |
| `ShellSync` | engine feed, server subscription and client shell, composed |
| `ShellSync_proofs` | theorems about it |
| `ThreadEventCoalescer` | live events of one thread: window, budget, delivery |
| `ThreadStream` | the coalescer composed with the thread subscription and the client's thread |
| `ThreadStream_proofs` | theorems about it and about the coalescer |
| `ThreadLifecycle` | decider, projector, settlement sweep and provider reactor on one thread, composed |
| `ThreadLifecycle_proofs` | theorems about it |
| `KeyedCoalescingWorker` | the shared worker that processes the latest value of each key |
| `TerminalManager` | the terminals of a thread, with that worker as their persist worker |
| `TerminalManager_proofs` | what each step of the worker and of the terminals preserves |
| `ThreadDeletion` | deletion and re-creation of a thread id: engine, deletion reactor, drainable worker, terminals, composed |
| `ThreadDeletion_proofs` | theorems about it, on top of `TerminalManager_proofs` |
| `Checkpoints` | provider, ingestion, checkpoint reactor, turns projection and git refs of one thread, composed |
| `Checkpoints_proofs` | theorems about it |
| `MC...` | the instances for TLC: symmetry and model values |

Definitions introduced by "Faulty variant" are not part of any specification: each is the definition
next to it with a plausible bug, and `PROJECT.json` pairs it with the property that catches it.

### Command dispatch: `OrchestrationEngine`

`processEnvelope` is one fiber that takes envelopes in order. `stage` is its program counter, and
there is one action per point at which another fiber, a failure or a crash can be observed:
`TakeEnvelope` (remember `dispatchStartSequence`), `CheckReceipt`, `PlanEvents` or `RejectCommand`
(decider and the guards of automatic settlement), `CommitTransaction` (events, projections and the
accepted receipt in one SQL transaction), `SwapReadModel`, `PublishNext`, `Reply`. A failure goes
through `Reconcile`, which reads the log after the remembered sequence, projects and publishes what it
finds, and `RecordRejection`, whose own failure is swallowed (`RejectionReceiptLost`). The transaction
can roll back, or commit and be reported as failed (`CommitReportedAsFailed`), which is the case the
reconciliation is written for. `Crash` may come between any two steps; it loses the queue, the feed
and the read model and leaves the log and the receipts.

An event is its command and its aggregate, and its sequence is its position in the log. The read model
is the *set* of events it has applied and its `snapshotSequence`; whether that set is `1..Len(log)`
is what matters to the decider. What the decider answers is left open: any plan of up to
`MaxEventsPerCommand` events whose last is on the command's aggregate, or a refusal. After a restart
the model says that all events are applied, although the engine reloads threads without messages
and activities; that difference is the subject of `ThreadLifecycle`.

`CommandLog` leaves out everything but `log`, `receipts` and `answer`. It says that the events of a
command enter the log as one block together with their receipt, that a receipt is never overwritten,
and what a caller may be told. `ImplementsCommandLog` is refinement under the identity mapping.

### Sidebar synchronization: `ShellSync`

One client, one server, one shell subscription at a time. The engine side is the order in which it
makes a commit visible: tables (`Commit`), `latestSequence` (`SwapLatest`), feed (`Publish`). The
server side is `subscribeShell`: `Attach` live delivery first, then `StartReplay` or `SendSnapshot`,
the completion marker behind everything retained so far (`OfferMarker`, `EmitMarker`), then `LiveChunk`.
A chunk of any length is coalesced to the last event of each aggregate, a set that is emptied in
ascending order, and the row is read when the item is sent (`EmitItem`), so it may be newer than its
event. The client side is `makeEnvironmentShellState`:
`MakeSubscribeInput` (the same session resumes from its cursor, a new one loads a snapshot over HTTP),
`applyItem` as one action per kind of item, and the debounced `Persist`.

A row is the sequence of the last event it reflects, or `Absent`. The payload budget of a replay is
a free choice of a snapshot whenever there is anything to replay. `SHELL_RESUME_MAX_GAP` is 1, so
that replays, snapshots and cursors ahead of the server all occur. Items of an abandoned subscription
are discarded, as `switchMap` does. A row whose reads both fail is dropped by the server with a
warning: the ghost variable `stranded` remembers its event so that the properties can excuse exactly that
row, until a later row of the aggregate or a snapshot arrives; the "lost" item on the wire only carries
that note.

It would be natural to ask that the client's rows reflect every event up to its cursor. That is not
so: coalescing drops the earlier event of an aggregate, the cursor moves past it with an item of
another aggregate, and for a moment the change is missing. `ResumeLosesNothing` is what is true and
sufficient: whenever a row is behind the cursor, a later event of that aggregate is still ahead of it.

Nor does a row only ever become newer. The item of an event carries the row as it is when the item is
sent; if the thread is archived and unarchived again behind that event, the client has the newest row,
then comes to the item of the archival, which removes it (`ws.ts`, 750 to 758, and the reducer apply a
removal for its sequence alone), and the item of the unarchival puts it back: the thread flickers.
`BackwardsOnlyByRemoval` says that this and a removal that is newer than the row are the only ways for
a row to vanish, that in the first case the newer event is still ahead of the cursor, and that otherwise
neither row nor cursor goes back, except to the cache at a start.

### Thread lifecycle: `ThreadLifecycle`

A command is one step, since the engine decides one at a time. Commands that emit several events move
`version` once. What the module keeps apart is what the *decider* sees and what is *true in the
tables*: `activities` (the last `ActivityWindow`, plus open questions, empty after a restart) against
`openRequests`, and `seesMessage` against `queuedMessage`. An activity carries the place in the log of
the command that appended it, which orders the window, so that the list of the code is a set here. Actions are the lifecycle commands,
`Ask`, `CloseRequest` and `AnswerQuestion` for requests, `SetSession` for what ingestion reports of
the provider, `TakeSnapshot` and `AutoSettle` for the two ends of the settlement sweep, and the events
that the provider command reactor takes from its `inbox` in log order. `liveTurn` is the turn the
provider works on, named by the sequence of the event that asked for it.

Left open (every outcome is allowed): the age and pull-request rules of settlement, background
liveness, snooze wake-up times, when a queued message ages out, and whether a turn adopts the queued
message. Approvals and questions differ in the code: only questions answered by a message are retained
beyond the window, as the decider's comment (decider.ts, lines 80-82) says; therefore
`WindowKeepsQuestions` speaks of questions, and `SettledIsQuiet` of approvals only until the thread has
had more events than the window keeps. `TurnStartFails` makes one step of the two commits for the error
and its activity.

### The connection: `ConnectionSupervisor`

Callers (`connect`, `disconnect`, `retryNow`, changes of the network) write the intent or the reset
flag and queue their signal in a later step, so `calling` holds those in between; wakeups only queue.
`pc` is where the loop of `run` and `runAttempt` waits: `top`, `idle` (available, offline, blocked,
backoff), `establishing`, `connected`, `swapping` (between the installation of a replacement and the
end of the one before) and `closing` (between `clearLease` and the loop's look at the outcome). Fibers
that race while connected are separate actions: the monitor takes signals and runs a health check
(`probe`), the transport may die without being noticed (`dead`), and `prepareReplacement` waits,
connects and delays (`refresh`). A lease is a name for a scope; `open` says which scopes are open, and
`active`, `candidate` and `previous` who is responsible for them. Durations are choices. `rung` is as
much of `failureCount` as `retryDelayMs` reads: the count itself grows without bound, the index into
`RETRY_DELAYS_MS` is clamped, so that all counts from the length of the ladder on are one.

`EnvironmentSession` is what `ShellSync` relies on when it speaks of sessions: at most one, each with
the next generation, only published while wanted; and that one comes when it is wanted and not
blocked, and goes when it is not. The refinement maps the session to its generation, and `last` to
the generation that the loop has used up; the abstract fairness is a liveness claim on the supervisor.
`NoSignalLost` is the invariant behind it: the intent is the truth and a signal a nudge, so wherever
the loop waits for an intent that no longer holds, a signal that ends this wait must be coming.

### An open thread: `ThreadEventCoalescer`, `ThreadStream`

The coalescer has the fibers of `ThreadLiveEventCoalescer.ts` and `LiveStreamBudget.ts`: `PullBatch` and
`OfferEvent` are the subscription under its mutex (`batch` is what it has yet to offer), `WindowFires`
the timer, `OfferMarker` the synchronization marker, `Acknowledge`, `TakeOutput` and `Deliver` the pull
of the RPC server, `CleanUp` and `CloseCoalescer` the two fibers that wait for the failure. `retained`
is the budget's set, with the raw item of an event and the projected one told apart. Around it,
`ThreadStream` has `subscribeThread` (`Subscribe`, then `ReadHead`, a replay or a snapshot, the marker,
live) and the client's `applyItem`. Replayed and snapshot items are sent one at a time after an
acknowledgement; live items come as a batch. `fence` remembers for the properties what the marker
stands for. A failed subscription is retried; whatever it retained goes with its scope.

### Deleting a thread: `KeyedCoalescingWorker`, `TerminalManager`, `ThreadDeletion`

`KeyedCoalescingWorker` has one action per transaction; the steps between two transactions (a key taken
and not looked at, a failed key not back on the queue) are states of `fiber`. `TerminalManager` uses it
as the persist worker. A request to the worker is the session *object*, since the code hands over the
history object and not its text: what is written is what the history is by then. The map `sessions`
and the objects are kept apart, because eviction, closing and re-opening replace one without the other.
`operation` is the holder of the thread's lock and where it waits. A line of output is the number of
the incarnation it was printed for, which is all `NoInheritedHistory` needs: what a terminal shows, has
in its file or has yet to write is of the thread that is there.

`ThreadDeletion` adds the log of one thread id, the subscription of the reactor (`Deliver` hands a
deletion to the worker, `NoteSeen` moves the watermark), the drainable worker, and creates that wait in
`drainThrough`. Clients use terminals for an incarnation from the answer to its create on, and for ever:
the manager checks no request against the thread.
`CleanUpSparesNext` states the comment in `ws.ts` at line 1166: when the create answers, no clean-up
of an earlier incarnation is queued, under way, or still to be delivered.

Three history variables name what the code lets go wrong, and each property excepts what it must:

* `forgotten`: terminals with a session evicted while an operation was starting its process; with one
  evicted and a write outstanding when the histories of the thread were deleted; with a write or removal
  that failed (both are logged only); and all of them, when a restart forgot a clean-up. `ReopenedInFull`
  and `NoInheritedHistory` except these. After a forgotten clean-up the next thread does show old lines.
* `late`: terminals opened or restarted for an incarnation whose clean-up had closed the terminals
  already, by a client that has not heard of the deletion. Nothing refuses or cleans up such a terminal,
  and the next thread of the id finds it. `NoInheritedHistory` excepts these as well.
* `abandoned`: objects evicted during their own open or restart. `NoOrphanProcess` excepts the process
  of such an object and no other.

TLC finds `NoInheritedHistory` violated if either of its exceptions is left out. `OpenRead` waits for the
write of an evicted session, so eviction alone loses nothing: this is `ReopenedInFull`.

### Checkpoints: `Checkpoints`

A row of the turns projection (`rows`) gives a turn a count, a status and whether its ref is real or a
placeholder's; `refs` says for which turn the ref of a count was captured. Ingestion and the checkpoint
reactor are two fibers that read the rows, number a turn by the highest count plus one, and write
later. The reactor takes domain events and provider events in an arbitrary merge, as its two
subscriptions feed one worker. `Record` is the projection of `thread.turn.diff.complete`, in which
another turn with the same count loses its checkpoint. A revert is five steps: restore, roll back,
delete refs, complete, with a failure possible after each.

Two turns can get the same count in this code: ingestion reads while a capture of the turn before is
under way. `RefsHoldTheirTurn` is what is true nevertheless: whichever turn the projection gives the
count to is the one its ref was captured for last, once the capture is recorded. It says no more than
that. The earlier of the two turns loses its checkpoint, and the diff of the later one, from the ref of
the count before to its own, holds the changes of both. `halfDone` and `failed` are the history of
broken-off captures and of restarts, which the code reports as activities and does not repair.

Nor is it so that a placeholder never replaces a real checkpoint, as comments in ingestion and in the
projector have it: see `CheckpointsOverwrite` below. The two properties hold although it happens. The
reactor takes the placeholder's event, finds no real checkpoint and captures the turn once more under
the same count, at a time when the next turn may have begun to change the files.

## Runs

| Run | Question | Result |
|---|---|---|
| `EngineDurability` | with retries, id reuse, rollbacks, commits reported as failed, failed reconciliations and a crash: do log and receipts agree, is the command log implemented, is a stale settlement refused, is the feed ordered? | holds |
| `EngineAgreement` | while the log can be read back after a failure: do read model and feed follow the log, do callers read their writes, is every caller answered? | holds |
| `ShellSync` | does resuming lose nothing, is "live" true, does the sidebar go back only where a removal takes a row? | holds |
| `ShellSyncLiveness` | does the client converge once it is left in peace? | holds |
| `Lifecycle` | with a small window and a restart: is a settled thread quiet and never pinned, does no open question leave the window while the server stays up, does the automatic settlement hide nothing, does the late clean-up spare new turns? | holds |
| `LifecycleRestartHides` | after a restart, does a settled thread still hide no work? | **violated** |
| `ConnectionSupervisor` | is no change of the intent forgotten, every scope owned, a dead session found by a health check, and the environment session implemented, liveness included? | holds |
| `ThreadDeletion` | does the clean-up of a deleted thread spare the next one, is nothing inherited or orphaned, is no write stranded? | holds |
| `ThreadDeletionLiveness` | is every create answered? | holds |
| `ThreadStream` | is nothing charged or lost wrongly, does no update wait without a window, is "live" true, does the client converge? | holds |
| `Checkpoints` | is the ref of a captured count of the turn that has the count, and are placeholders captured? | holds |
| `CheckpointsOverwrite` | does a placeholder never replace a real checkpoint? | **violated** |

### What the violations show

`LifecycleRestartHides`: the command read model is reloaded with `messages: []` and `activities: []`
(`ProjectionSnapshotQuery.ts`, line 2240), so `hasOpenBlockingRequest` finds nothing that was opened
before the restart. Three steps: the agent asks, the server restarts, a client settles. The comment at
decider.ts, line 554, says that a raced or stale client must not park such requests behind a settled
override. The sweep is safe, because it reads the durable counts (`AutoSettleHidesNothing`).

`CheckpointsOverwrite`: ingestion reads that the running turn has no checkpoint; the turn completes, the
reactor captures it and records it as ready; then ingestion's command is decided and its placeholder
replaces that row, status missing and without a ref. The in-memory projector has a guard against it, with
a comment that says why (projector.ts, lines 794 to 800), and ingestion's comment (lines 2037 to 2040)
says that a real capture should not be clobbered; but ingestion checks rows it reads before it
dispatches, and the turns projection (`ProjectionPipeline.ts`, line 1755) has no guard.

### Bounds

* Engine: two command ids, two callers and three dispatches give a retry of a queued, a committed, a
  rejected and a failed command, by the same caller or another; two aggregates give conflicts and
  plans over two aggregates (the agreement run has one, as aggregates play no part in it). Two events
  per command make blocks. `ReconcileReadLimit` equals the largest block, the weakest relation the
  assumption allows; the code's 1000 is far above what a command plans. Two faults and a crash let a
  failure meet a failure.
* Shell: three events on two aggregates, two sessions and two disturbances (a failure, a restart or a
  wakeup each) are the least with which an event can be coalesced away, its item lost or delayed, and
  the cursor used again by the same session and by another. The liveness run has two events and one
  disturbance.
* Lifecycle: one request of each kind, five commands (four in the violation run), a window of three
  activities and a restart. Settling and being interrupted by a message and a late stop takes four; a
  question, the activities that would push it out and a settlement take five. Up to three commands
  the window keeps approvals too, so that `SettledIsQuiet` speaks of them.
* Connection: three calls, network changes or wakeups, one lost transport and one refresh. A lost
  signal takes two calls and a wait between them; three leases are all that may be open at once, and
  the assumption asks for no fewer. A ladder of one rung tells a
  failure that is counted from none.
* Deletion: a created, deleted and re-created id, one terminal with two session objects, a history of
  one line, two faults. A closed session and its successor are what the hazards need; terminals of a
  thread share its lock and meet nowhere else. The liveness run has one session object per run of the
  server: what a create waits for (a delivery, the clean-up, the lock, a drained write) needs no second.
* Thread stream: two tool calls, four events, a budget of three items, a full window at three updates,
  replays of up to two events, one disturbance. Replay, snapshot, overflow, a window that fills, fires
  and is cancelled, and an update superseded inside and outside a window all occur.
* Checkpoints: two turns and counts, one revert, one fault. Two turns are what a count can be mistaken
  between.

`CHECK_DEADLOCK FALSE` is set because the bounded counters stop the models.

### Fairness

`OrchestrationEngine!FairSpec`: weak fairness of `WorkerStep` and of `Restart`. The worker is a fiber
forked for the life of the engine whose steps are always enabled until it idles, and a server that is
never started again answers nobody. `WorkerStep` as a whole is fair, not each way a step may go.

`ShellSync!FairSpec`: weak fairness of the engine's, the server's and the client's own steps, and of
`Connect`, since the supervisor retries without end. Nothing obliges the environment: no fairness of
commits, failures, disconnects, wakeups, replacements or restarts. What is bounded is how often they
happen, so that `Converges` reads: eventually always, once they have stopped. Some choices inside the
fair steps remain adversarial: `LoadFails` may be taken every time.

`ConnectionSupervisor!Spec`: weak fairness of a caller's second half, of the loop's own steps, of the
end of a health check and of an attempt (each has a timeout); strong fairness of `Established`: a
driver that is asked for ever does not refuse for ever, which is the least assumption under which a
wanted connection comes. Nothing is fair about transports, calls or replacements.

`ThreadDeletion!Spec`: weak fairness of the reactor's subscription, its worker, waiting creates, the
persist fiber and the holder of the lock; strong fairness of `CloseTerminals`, because the thread lock
is a semaphore that serves in order, so that the clean-up is not overtaken for ever. A process need
not print nor exit. `CreateReturns` excepts an orphaned process that prints for ever: closing waits for
the persist worker, whose key it keeps busy.

`ThreadStream!Spec`: weak fairness of the subscription, the coalescer and the client. Commits and
disturbances are not fair, and bounded; `Converges` reads as in `ShellSync`.

`ThreadLifecycle` and `Checkpoints` claim no liveness.

## Proofs

The theorems hold for every value of the constants: any number of commands, terminals, calls, leases or
turns, any window, budget and limit, and any number of faults and restarts.

| Module | Theorem | What it establishes |
|---|---|---|
| `OrchestrationEngine_proofs` | `TypeCorrect` | the engine's type invariant |
| | `ReceiptsAlwaysMatchLog` | log and receipts agree |
| | `EngineImplementsCommandLog` | the engine implements `CommandLog` |
| | `SettlementsNeverStale` | no automatic settlement commits over a later event of its thread |
| | `FeedAlwaysOrdered` | nothing is published twice or out of order, whatever fails |
| | `DecidedAgainstWholeLog` | * a command is decided against all events of the log |
| | `FeedHasNoGap` | * the feed lacks only what the worker is about to publish |
| | `AnswersAreReadable` | * a caller that was answered finds its events published |
| `ShellSync_proofs` | `ShellInvariant`, `TypesHold` | the inductive invariant, and the types |
| | `ResumingLosesNothing` | what the client's rows lack behind its cursor is ahead of it, or its read failed |
| | `LiveIsSynchronized` | "live" is shown only by a client that has caught up |
| | `RemovalsAloneGoBack` | but for a start from the cache the cursor never goes back, and a row only vanishes, by a removal since or by an older one that its early row overtook |
| `ThreadLifecycle_proofs` | `SettledNeverPinned` | a thread is never settled and pinned |
| | `CleanUpNeverInterruptsNewTurns` | the late stop spares new turns |
| | `LifecycleInvariant`, `TypesHold` | the inductive invariant, and the types |
| | `QuestionsOutliveTheWindow` | no question is hidden by a settlement while the server stays up |
| | `SettledHidesNothing` | ** nor is an approval, nor a session at work |
| | `AutoSettlesOnlyIdleThreads` | the settlement sweep hides nothing, restarts included |
| `ConnectionSupervisor_proofs` | `SupervisorInvariant`, `SupervisorTypes` | the inductive invariant, and the types |
| | `LeasesAlwaysOwned` | an open scope has exactly one part of the loop responsible for it |
| | `NoSignalIsLost` | a wait that the intent has overtaken will be ended by a signal |
| | `SupervisorKeepsItsPromise` | the safety part of `EnvironmentSession` is implemented |
| `ThreadDeletion_proofs` | `DeletionInvariant`, `DeletionTypes` | the inductive invariant, and the types |
| | `CleanUpAlwaysSparesNext` | when a create answers, no earlier clean-up is left |
| | `NothingIsInherited` | no session, file or write to come holds output of an earlier thread, but for terminals in `forgotten` or `late` |
| | `NoProcessIsOrphaned` | a running process is its terminal's session, unless it is `abandoned` |
| | `HistoriesAlwaysGetWritten` | a key of the persist worker is never stranded |
| | `ReopensInFullAlways` | a re-opened terminal shows all it showed last, but where `forgotten` says so |
| `ThreadStream_proofs` | `StreamInvariant`, `TypesHold` | the inductive invariant, and the types |
| | `BudgetExact` | exactly what is held is charged to the budget, and it fits |
| | `WindowsOpen` | an update that waits has a window that will end the wait |
| | `NoEventMissed` | no event behind the client's cursor is missing |
| | `MarkerKept` | a client that is told it is live has caught up |
| `Checkpoints_proofs` | `CheckpointInvariant` | the inductive invariant, with the types |
| | `RefsAlwaysHoldTheirTurn` | a captured count's ref was captured for the turn that has the count, counts in doubt excepted |
| | `PlaceholdersAreNotForgotten` | a placeholder's capture is still to come, or broke off |

\* under the hypothesis `ReconcileMayFail = FALSE`: after a failure the log can be read back. Without it
the engine's own comment concedes that its read model stays behind, and TLC shows it.
\*\* while the server stays up and, for approvals, until the thread has had more events than the window
keeps (`Kept`). A restart empties the window, as the run `LifecycleRestartHides` shows, and an approval,
unlike a question, leaves it with age. That the session is not alive holds throughout. The corollary
`SettledHidesNothingInWindow` states it with the two conditions as hypotheses on the constants.

The constants' assumptions are these; TLC evaluates them on every run. `ConstantsAssumption`: a command
plans at least one event, and the read limit of the reconciliation covers one command's events.
`LifecycleAssumption`: kinds of requests are disjoint, the window is not empty. `SupervisorAssumption`:
no fewer than three leases, the most that are open at once, and "no lease" is none of them.
`TerminalAssumption`: a history has room for a line. `CoalescerAssumption`: the budget has room for an
item and a full window for two, and what is not a call is none. `ShellAssumption`, `StreamAssumption`,
`CheckpointsAssumption` and `DeletionAssumption`, like what the others say besides: bounds are numbers.

**Engine.** `ReceiptsMatchLog` is not inductive alone: the step that commits would overwrite a receipt
if there were one. `IInv` adds what the worker remembers between reading the receipt and committing.
`UndecidedHasNoReceipt`: between `CheckReceipt` and the commit the command has no receipt, because
only the worker writes receipts. `PlanEndsAtTarget`: the plan ends on the command's aggregate.
`ExitTruthful`: the outcome the worker carries to `Reply` is one that `CommandLog` allows.
`CallersWait`: each queued envelope has a waiting caller of its own, so that `Reply` answers a
question. `CommitEvents` and `CommitMatches` are about appending a block to the log and carry most of
the arithmetic; `CommitImplements` maps the commit to the abstract one. The refinement has one step
per action: `Dispatch` is `Ask`, both commits are `Commit`, `RecordRejection` is `Refuse`, `Reply` is
`Answer`, `Crash` is `LoseCallers`, the rest stutters. `SettlementsNeverStale` needs
`SettlementStillFresh`: what was checked at the decision still holds at the commit, since nobody else
appends.

**Feed.** `FeedInv` says at each place of the worker how far read model and feed are apart: before a
swap or a reconciliation everything known is published and `dispatchStartSequence` is where the read
model stands (`StartIsReached`), and what is unpublished is the end of the read model
(`UnpublishedFollow`). This holds whatever fails, and orders the feed. `AgreementInv` needs the log to be
readable: then the read model lacks only what one command has committed since
`dispatchStartSequence`, which one reconciliation reads. `SwapEffect`, `ReconcileEffect` and
`PublishOne` say what the three steps that move anything do; to all others the feed is blind
(`SilentKeeps`, `StepKinds`).

**Shell.** The invariant follows each event from the log to the client's rows. `ClientKeeps` says of the
client and of its cache that an event behind the cursor is shown, or lost, or superseded by one ahead of
the cursor. For the cursor to move, the item that moves it has to leave nothing out: `WireCovers` says
that what is behind an item is shown, lost, made up for by the items up to it (`Accounted`), or
superseded by a later event; `ReplayCovers` and `LiveCovers` say the same of what is in the batch, still
to be replayed, retained or not yet published, and of the marker. `MakesUp` counts an item only if the
items before it leave the cursor short of it, so that the client does not drop it as old. The rows of
`RowsTrue` and `ItemsTrue` were true at some time, and `RowsForward` says that none is sent behind a
newer one, unless it is a removal's (`NowFollows`: the row as it is now follows any there ever was). The lemmas about rows (`RowStays`, `RowOrder`, `HiddenRow`) use only the log; those about an
item that is applied (`ShownApplied`, `AccountApplied`) and about a stream that is sent more
(`AccountStays`, `AccountLeaves`) are what every action comes down to. `RowReflects` turns the account of
the single events into what the properties say of a row.

**Lifecycle.** `SettledNeverPinned` is inductive as it stands. `CleanUpSparesNewTurns` is not: it
speaks of a stop that waits in the inbox. `TurnsPrecedeSettlement` says that while a thread is settled
every turn the reactor knows of is older than the settlement, because asking for a turn resets the
override; `TurnsPrecedeStops` carries that over to the queued stop and all that is ahead of it, because
the inbox is processed in order. The lemmas `InboxKept`, `InboxTaken`, `InboxTold` and `CleanUpQueued`
say what each way of touching the inbox preserves.

What a settlement hides depends on what the decider sees. `ActivitiesTrue`: an activity says nothing
false, so a waiting request has no resolution in the window and, if its opening is there, blocks
(`WaitingRequestBlocks`). `OpenRequestsSeen`: its opening is there, if the window cannot have pushed it
out, which `Kept` defines: questions never, anything while the thread has fewer events than the window
(`AllRecent` counts them, by the injection of an activity to its place in the log).
`RequestsAppended` shows that `Retain` keeps it so. `SettledIsQuiet` is the conclusion, from
`QuietSettled` for the two settlements and `QuietKept` for every other step. `SweepStillTrue` is the
reason why the sweep needs none of this: until something is committed, what it looked at is as it was.

**Connection.** `LeaseRoles` says which lease is active, candidate or previous at each place of the loop,
`Generations` that an attempt works under a later generation than the loop's. `NoSignalLost`
is not inductive alone: after a failed attempt the loop waits without looking at the intent again, and
`FailureLeavesSignals` says that the signal is then still to come. Each action is taken twice: for
the leases and for the signals. The refinement follows, a step at a time: a session that is established,
first or as a replacement, is `Publish`, its end `Drop`, a change of the intent or a failure that
blocks `Surroundings`, and the rest stutters. Liveness of `EnvironmentSession` stays with TLC.

**Deletion.** `TerminalInv` is preserved by every step of the terminals (`TerminalStepKeeps`,
`RequestKeeps`): a session and a write are of an object of their terminal (`SessionsOwned`), one
that is closed has no process and no write left (`ClosingProgress`), and what a terminal showed last is
in its file or on its way there, after anything older (`LastShownIsKept`). The lemmas at its bottom are
those of the worker: a key with a value is queued, or is in the fiber's hands. On top of it,
`CleanUpSparesNext` implies that at most one incarnation may still have its clean-up ahead of it or be
in use (`Users`, `OneUser`, `OnlyUser`), and `ContentBelongs` that all content of the terminals, wherever
it is kept, is that one's, `forgotten` and `late` ones apart. `EventAdded` is the step that matters, the creation and deletion of an incarnation.

**Thread stream.** `HeldInOrder`: the batch under way, what was taken, the output, the window and the
batch not yet offered lie in the order of the log, although updates of a call replace each other.
Hence nothing is held twice, and the charges are exact (`ReplacementFits`, `ReleaseFits`).
`OneBatch`: one batch is under way, the marker in one place. `WireCovers` and `HeldCovers` say that
whatever the client lacks behind an item is on its way ahead of it, or superseded by a later update
that is. `MarkerBehindFence`: the marker does not overtake the event it stands for. `StageShape`
describes each stage of the subscription. `Coalesce` is defined by what it yields, the sequence in
ascending order of the events that survive; `AscendingExists` proves that there is one.

**Checkpoints.** Two turns can have been numbered with one count, so a ref can be of another turn than a
row says. `InDoubt` are the counts for which this is possible; `RefsInPlace` that there are no others;
`WorkInProgress` that a capture writes its ref first, and that a revert deletes nothing it keeps.

**Only model-checked.** Liveness (`EveryCallerAnswered`, `Converges`, `DeadSessionFound`, `CreateReturns`
and the fairness part of `ImplementsEnvironmentSession`) is beyond the prover. What a recursive
definition computes for every input would take the library's induction theorems, which the prover cannot
instantiate; no theorem here depends on one. Where existence over finite data was needed (an ascending
order of a set, `AscendingExists`) the proof takes a least counterexample instead.

## Limits of the model

* `ReadModelAgrees`, `FeedComplete` and `ReadYourWrites` hold only with `ReconcileMayFail = FALSE`.
  If the log cannot be read back after a failure, the engine logs a warning and its read model stays
  behind until the next restart. The durable properties and the order of the feed hold regardless.
* `ShellSync` has one client and a server that supports the completion marker, and so has
  `ThreadStream`. There, the budget's limit in bytes (of the same form as the one in items), updates
  without a call id, a thread that is deleted or recreated during the subscription, older pages and
  the disk cache are left out.
* `ConnectionSupervisor` does not model the end of the supervisor itself, tracing, or how long anything
  takes; an attempt's success, kind of failure and stability are choices.
* `TerminalManager` has the terminals of one thread. Eviction by terminals of other threads may come at
  any time. Attaching, writing, clearing, resizing, the escalation from SIGTERM to SIGKILL and the
  polling of subprocesses are left out.
* `KeyedCoalescingWorker.Look` has a branch for a key without a value. The code has it too; the model
  checks that it is never needed.
* `Checkpoints` tracks neither files nor the provider's conversation. The reactor rolls back as many
  turns as there are counts above the target; a superseded turn has none, so this may not be the
  number of turns. Aborted turns, and workspaces that are no git repository, are not modelled: they
  have no checkpoints.
* `ThreadLifecycle` has one thread. Creation, fork, deletion, metadata, plans, checkpoints, reverts,
  compaction, interrupts, approval answers and the routing of fallbacks are not modelled. A restart
  puts a session that was at work in error or leaves it to be continued. An offer of a fallback
  provider blocks a settlement, but one that is appended to a settled thread does not wake it
  (decider.ts, line 1567); the properties of settled threads except offers for this reason.
* Not modelled at all: large parts of the repository that are not its core, namely the provider
  adapters (protocol clients of external programs), git and source control, authorization and remote
  endpoints, the user interfaces, the push relay (its queue is a cloud service whose code is not here)
  and the schemas.

## Plan

Proofs: all safety properties that the passing runs check are theorems. What could be added is that the
lemmas of `TerminalManager_proofs` become theorems of a specification of the terminals alone.

Modules not written: `ThreadTurns` (ingestion with the provider reactor, late events of superseded turns,
the fallback protocol with its decisions in memory) and `ProjectionBootstrap` (cursors per projector
and a crash in between).
