# CyberGroupmate in TLA+

CyberGroupmate is an agent that takes part in group chats. A global *Meta agent*
decides where to act and dispatches tasks; each chat has a *subagent* whose
executor runs them, one LLM session at a time, in a sandbox. It is one Node
process: no two statements run at once, but everything of interest is spread over
`await`s, timers and callbacks, and survives crashes in one JSON file and a
database.

These modules model the core of it: the way of a message to an agent, of a task
to its run, of a callback back to Meta or to whoever asked, and the resources all
of this shares: sandboxes, LLM keys and slots, the recording of each chat. They
are checked with TLC on small instances, and their safety properties are proved with
TLAPS for every instance.

Paths below are relative to the repository's `src/` directory.

## 1. The system

### 1.1 Components that are modelled

**Attention accumulator** (`accumulator/attention-accumulator.ts`, `pressure.ts`).
*State*: `pending` items of layers 0 and 1, `signalPool` of layer 2 topic signals,
`windowStartedAt`, `blockedChatIds`; a copy of the pool in `GlobalState`.
*Operations*: `ingest`, `requeue`, `block`, `unblock`, `remove`, `flush`,
`markActioned`, `restoreSignalPool`.
*Interacts with*: the notification hook, the recording pipeline and the callback
phase of the tick put items in; the tick flushes; a post-task window blocks.
*Hard*: items come back while a batch is out; blocks come between release and
return; pools come from disk.
*Correct when*: a blocked chat stays silent, the batching window runs exactly
while something waits and cannot be held open, a topic has one signal, the pool
on its way to the disk is the pool in memory.

**Dispatched-task ledger** (`main-agent/global-state.ts`).
*State*: `dispatchedSubagentTasks`, `dirty`, the state file.
*Operations*: record, update, `save`, autosave, `load`,
`reconcileLeakedDispatchedTasks`.
*Interacts with*: dispatch, the executor and the window's forwarding write it; the
tick and the autosave timer save it.
*Hard*: writes that fail or are torn, restarts at any point, a cap that drops
records still in flight.
*Correct when*: one record per task within the cap, and a change stays due until
the file has it.

**Code-act executor** (`subagent/code-act-executor.ts`).
*State*: `taskQueue` (Q4), `processing`, `cancelRequested`, a buffer of pending
messages, the session.
*Operations*: `enqueue`, `processNext`, `execute`, `cancelCurrentRun`,
`pushPendingMessage`, the drains.
*Interacts with*: dispatch and the window hand it tasks; the hook pushes messages
into a running session; it updates the ledger and hands each callback to the
window.
*Hard*: tasks arrive at every `await` of the loop; cancel empties the queue and
destroys the sandbox under the run; any stage may throw.
*Correct when*: runs are serial, no queued task is forgotten or run twice, the
ledger tells what the run does, every task settles.

**Code-act session and send interruption** (`sandbox/session-runner.ts`,
`sandbox/send-interrupt.ts`, the delay in `sandbox/host-call-handler.ts`).
*State*: the context, the turns left, format errors, the abort of the inference
under way, sends that are held back to look human.
*Operations*: a turn, the two drains of the executor's buffer, the interruption of
an inference or of a send, the ends of a session, `extendSteps`.
*Interacts with*: the executor around it, the sandbox in which its code runs.
*Hard*: messages come in during an inference, during the enrichment of others, or
while code that was written without them is about to send.
*Correct when*: nothing is sent that a message has overtaken, no inference is
thrown away for nothing, each message is in the context once and in order, and an
agent that says it is done has seen all of them.

**Post-task window and callback queue** (`subagent/post-task-window.ts`,
`subagent/callback-queue.ts`).
*State*: one window per chat with its messages, those delivered and those judged,
the callbacks it holds back, a flush timer, a follow-up timer, a judgement in
flight; Q5.
*Operations*: `handleSentMessage`, `recordMessage`, `tryForwardDirectMessage`,
`handleCallback`, `checkFollowUpBatch`, `flushIfIdle`, `drain`.
*Interacts with*: everything above.
*Hard*: three ways to the subagent for one message, a judge that answers late,
timers that race the run, a block that must be lifted.
*Correct when*: no chat stays deaf, no message is forgotten or told twice,
mentions are never judged away, callbacks reach Meta once.

**Main loop** (`main-agent/main-agent-loop.ts`).
*State*: its timer, `circuitBreakerOpenUntil`, the batch of the session it awaits.
*Operations*: the tick in its phases: drain Q5 and tell who asked, flush, hand back
what belongs to a busy chat, run a Meta session, schedule the next tick.
*Interacts with*: Q5, the accumulator, every chat's executor, the harness.
*Hard*: a callback's addressee hangs on a record that may have been dropped; busy
chats are the first of every batch; the session throws; everything else goes on
while it is awaited.
*Correct when*: no callback and no message is lost or doubled, the result of a
task finds whoever asked for it and nobody else, and all that waits is dealt with.

**Sandbox pool** (`sandbox/sandbox-pool.ts`, the life of a worker in
`sandbox/sandbox.ts`).
*State*: per chat an entry with its instance, `inUse`, `stale` and generation; the
order of use; the worker processes with their background commands.
*Operations*: `acquire`, `release`, `destroy`, evictions, `cleanupIdle`,
`invalidateSkills`, `dispose`; a worker starts, exits, times out.
*Interacts with*: executor, debug console and MCP tool hold instances.
*Hard*: the awaits of start and stop lie between the check and the update of the
pool; the work of one user must not make room for another.
*Correct when*: the cap is exceeded and a worker forgotten only by overlapping
starts, old skills do not stay in use, eviction spares what works, idle instances
are reclaimed.

**LLM access** (`core/llm-rate-limiter.ts`, `core/llm-pool.ts`, the fallback chain
of `core/llm.ts`).
*State*: counts of slots, time stamps of the minute, queue and drain timer; pending
requests, errors, cool-downs and disabled keys of each pool.
*Operations*: take a key, wait for a slot, send, retry, give both back; the drain;
changes of the configuration.
*Interacts with*: every caller of an LLM; a reload replaces the pools.
*Hard*: limits are checked and the slot recorded on two sides of an await; keys come
back late and in any order.
*Correct when*: what is counted is what is held, a waiting call is looked at and
gets the slot that is freed, a refused key is not tried again at once, every call
ends.

**Recording pipeline and topic registry** (`pipeline/recording-pipeline.ts`,
`pipeline/topic-registry.ts`).
*State*: buffer, eager mode, silence and drain timers, the flush under way; topics
and their states.
*Operations*: `onMessage`, `flush`, its failures, `dispose`; create, update and
clean up topics.
*Interacts with*: the hook feeds it, it feeds memory and accumulator; the shutdown
flushes it.
*Hard*: messages, timers and clean-ups come in while a flush waits; a flush fails at
any of its writes and puts its batch back.
*Correct when*: each message is recorded once and in order or dropped by the cap,
none is signalled twice, a backlog never lies without a timer, a topic gets nothing
from after its end in the process that archived it.

**Harness manager** (`harness/manager.ts`).
*State*: pending notifications, the run and its child, timers, failures in a row,
the history, journals and the file of the last success.
*Operations*: enqueue and the three triggers, launch, exit, retry, relaunch,
shutdown, hydration after a restart.
*Hard*: one process at a time, whose start, exit and error race the manager; retry
timers nothing clears; a digest that must connect to the last successful run.
*Correct when*: each notification is told or retried, digests leave no gap, throttles
hold, nothing starts after the shutdown.

**Conversation manager and backfill** (`core/conversation-manager.ts`,
`subagent/subagent-manager.ts`, `adapter/backfill.ts`).
*State*: the instance of a chat, its log and session file; a deletion under way;
the chats listed for a backfill.
*Operations*: `delete` with its wait and its steps; `getOrCreate`, `remove`,
`restoreAll`; what messages, flushes, dispatches and runs do to a chat.
*Hard*: everything the chat does may be under way when it is deleted, and some of
what knows it lives elsewhere: its post-task window, its tasks for other chats.
*Correct when*: what has been deleted comes back only through what the deletion is
known not to stop.

**Dispatch API** (`meta-sandbox/meta-api/dispatch.ts`), **notification hook**
(`main.ts`) and the **cancel endpoint** (`dashboard/api-routes.ts`) are modelled as
far as they act on the components above; see section 2.

### 1.2 Components that are planned

| Component | State and operations | What is hard, and what makes it correct |
|---|---|---|
| Background manager (`sandbox/background-manager.ts`) | named tasks, persisted records | replacement and restart; a killed task does not come back |
| Context engine (`context-engine/`) | ledger of committed sections | commit only what the model saw, reset with compaction |

### 1.3 Components that are not modelled

Platform adapters with their connection tracker, which only displays, the sandbox worker and its host calls, message enrichment,
vision and media are input and output. The memory is synchronous SQLite and
retrieval scores; observer and stickiness are arithmetic. Configuration, logging,
the request of the LLM client, metrics, the MCP server, the generators under
`tools/` and the dashboard's other endpoints and UI keep no state whose order of
change matters. These are most of the repository's lines; no order of steps is
hidden in them that a model checker would find.

Wake conditions are matched in `main-agent/`, but no code registers one: the only
callers of `addWakeCondition` are tests. What a Meta session does is the answer of
an LLM; the main loop's model keeps that it returns or throws.

## 2. The modules

| Module | What it is |
|---|---|
| `AttentionAccumulator` | the accumulator, with GlobalState's copy of the pool and the file |
| `TaskRecords` | the operations on a list of task records; constants and operators only |
| `TaskLedger` | the ledger and its file, on `TaskRecords` |
| `TaskServer` | abstract: a server of tasks, serial and in order |
| `CodeActExecutor` | the executor; uses `TaskRecords`, instantiates `TaskLedger`, implements `TaskServer` |
| `CodeActSession` | one run from inside: turns, drains, interruptions |
| `PostTaskWindow` | a chat after the agent has spoken: window, Q5, the chat's items in the accumulator, the tick; instantiates `TaskServer` for the executor |
| `MainLoop` | the tick over several chats, with executors, windows and accumulator reduced to what it sees |
| `SandboxPool` | the pool composed with the life of its workers and with its users |
| `LlmAccess` | key pools, rate limiter and fallback chain, composed |
| `RecordingPipeline` | the recording of one chat and its topics |
| `HarnessManager` | the background agent's queue, process and history |
| `Conversation` | the deletion of one chat against all that works on it |
| `...Proofs` | the theorems about `AttentionAccumulator`, `CodeActExecutor` (with `TaskLedger`), `PostTaskWindow`, `CodeActSession`, `RecordingPipeline`, `HarnessManager`, `Conversation`, `LlmAccess`, `SandboxPool` (in `CodeActSessionProofs`) and `MainLoop` (in `HarnessManagerProofs`) |
| `MC...` | constants of the runs |

The executor appears at four levels. In `CodeActExecutor` it is detailed and shown to
implement `TaskServer`; `PostTaskWindow` builds on `TaskServer` and adds only the
stages of a run that matter to messages; `MainLoop` keeps its queue; `CodeActSession`
opens up the one await in which the session runs.

An action is what the code does between two awaits, timers or callbacks.
Operators named *Fault: ...* in the comments are not used by the specifications:
each is a definition with a plausible bug, which the property named in
`PROJECT.json` has to reject. Variables commented *history* record the past for
the properties and are read by no action, except that a task or message is used
once.

### AttentionAccumulator

| Model | Code |
|---|---|
| `Ingest`, `IngestSignal` | `ingest`, layers 0/1 and layer 2 |
| `Requeue`, `Sorted` | phase 3 of the tick, with nothing in between: items handed back because the executor is busy; the rest goes to the agent |
| `Attend` | an item is worked off, after the session's await |
| `Block`, `Unblock`, `Remove` | the same; `DropChat` is what block and remove share |
| `Flush` | `flush` that returns a set; one that returns null changes nothing |
| `MarkActioned` | `markActioned`, called by dispatch |
| `SaveState`, `Restart` | `GlobalState.save`; a crash, load and `restoreSignalPool` |
| `Tick` | the clock |

Items carry ages, not times, which saturate at `MaxAge`, so that time needs no
bound on its own. Items are objects with identities, since two equal ones can be
queued. Where the comparison of two items leaves their order open, so does
`FirstOf`; an item of layers 0 and 1 may have a pressure of its own, so their order
within a layer is open. Pressures are scaled to integers. A pool file holds at most two entries
per topic, and which comes first is not modelled.

### TaskRecords and TaskLedger

`TaskRecords` holds what an operation does to a list of records, and is used by the
executor and its proofs as well. `RecordTask`, `UpdateTask`, `SaveState` and `Restart` are the methods of the same
meaning. `Save` has three outcomes: written, failed with the old file left, and
torn; a failure is logged and leaves `dirty` as it was. Most saves follow a
`markDirty`, so that one that fails is repeated. Two do not ask whether a change is
due: the constructor's, after it has reconciled (`global-state.ts:71, 80`), and the
one that ends a tick (`main-agent-loop.ts:424`). If one of them fails with nothing
due, the file differs from memory with `dirty` down, until the next save; the history
variable `slipped` says so, and `CleanMeansSaved` excepts just that. Only id and
status of a record are kept. `addSessionDigest` and other changes of the state make
it dirty as well and are left out: they can only cause more saves.

### CodeActExecutor

| Model | Code |
|---|---|
| `Dispatch`, `DispatchFails` | `taskToGroup` from the record on; the digest between record and hand-over throws |
| `Forward` | `forwardWindowMessages`, which hands over first |
| `Enqueue`, `LoopHead` | `enqueue`, and `processNext` up to its next await |
| `Prepare` ... `EndSession`, `Throw` | the awaits of `execute` and what settles the record |
| `Report` | the callback is handed on, the loop's head runs again |
| `Cancel` | `cancelCurrentRun` up to its await |
| `Restart` | the process ends; the ledger is loaded and reconciled |

The loops are a *set* of workers, so that a second one is possible and
`SerialExecution` says something. What cancel does to a run in its sandbox is open:
it may throw, end with an error, or complete.

### PostTaskWindow

| Model | Code |
|---|---|
| `SendMessage` | `handleSentMessage`; `own = FALSE` is a message sent here by another chat's session |
| `ChatMessage`, `MentionWhileProcessing`, `MentionWhileIdle` | the notification hook: `recordMessage`, `tryForwardDirectMessage`, `ingest`, `pushPendingMessage` |
| `BeginSession`, `Drain`, `EndRun` | a run clears the buffer and starts; takes messages from it; ends or throws |
| `HandleCallback` | the callback handler, `handleCallback` and the loop's next turn |
| `CheckFollowUpBatch`, `NoFollowUp`, `FollowUp` | `checkFollowUpBatch` before and after the judge's call |
| `Expire`, `FlushIfIdle` | `maxFlushAtMs` passes; the flush timer fires |
| `CancelRun`, `CancelReturns` | the dashboard's cancel on both sides of its await |
| `Tick` | phases 1 and 3 for this chat |

A timer is a Boolean; one that is set may fire at any time. One chat is modelled:
the windows of different chats share nothing, and what another chat can do here,
send a message, is an action. Tasks are Meta's: callbacks of tasks a subagent
dispatched take another way in phase 1 and are in `MainLoop`. Topic signals of the chat
are left out too; they are in `AttentionAccumulator`. Windows are taken to be
enabled, with a judge configured. Restarts are not modelled here: window, Q5 and
buffer live in memory only.

### CodeActSession

| Model | Code |
|---|---|
| `MessageArrives` | `pushPendingMessage` |
| `TakeTask`, `EmptyBuffer`, `Acquired`, `Finish` | `processNext` and `executeWithSandbox` around the session |
| `TurnBegins`, `Call` | the loop's head, and the start of an inference that a message may abort |
| `Drain`, `DrainEnds`, `Observe` | `drainPendingMessages` before and after the enrichment, and the drain for an observation |
| `AbortFires`, `CallInterrupted`, `CallFails`, `Answers...` | the debounced abort; the ways out of the inference |
| `HoldBack`, `SendsOut` | `applyInterruptibleHumanizedDelay` |
| `CodeEnds`, `CodeThrows`, `CodeAborted` | the ways out of the code |
| `CancelCurrentRun`, `SandboxDies` | the cancel; an exit of the worker |

Messages are numbered from 1 since the buffer was last emptied, so sessions need
no bound. Only messages that address the agent get to the buffer (`main.ts:966`),
so that both drains take everything; a drain that finds nothing is part of its
step. What the token budget cuts from the context is left out. `clearSession` is
refused while a run is under way. When the code times out, sends that are held
back go on by themselves and become *stray*. `extendSteps` takes up to 100 turns
in a call (`sandbox-worker.ts:558`), in any number of calls and turns
(`session-runner.ts:1065`): code may add what it likes, and `MaxLeft` only bounds how
many turns a session has left at a time.

### MainLoop

| Model | Code |
|---|---|
| `Address`, `Elevate`, `TopicSignal` | what the hook, `runtime.elevate` and the recording put into the accumulator |
| `Dispatch` | `taskToGroup` by Meta, a chat's subagent or the harness, with the record |
| `Speak`, `CloseWindow` | a window opens and blocks the chat; it closes and folds its callbacks into one |
| `EndRun` | a run ends; its callback goes to the window or to Q5 |
| `TickOnly` | a tick without a batch: breaker open, window still running, nothing there; the patrol |
| `TickFlush` | a tick that flushes and, if an entry is left, awaits a session |
| `SessionReturns`, `SessionThrows` | phases 4 to 6; the session throws, perhaps for a quota |
| `BreakerCloses` | `circuitBreakerOpenUntil` passes |

The tick runs from its timer to the session's await in one step, as the code does.
A job is a task or the notification of its author, which is a job of the author's
executor. The accumulator's clock is left open, so a batch may or may not be due;
`topN` is one of those configured. Pressures are left open, so that any signals
may fill the spare slots. Scheduled reminders and background notices go the way of
an elevation and are left out, and so are the removal of chats, `stop()` and
restarts.

### SandboxPool

| Model | Code |
|---|---|
| `AcquireLive`, `Acquire`, `AcquireRefused` | `acquire` up to its await: a live entry, a new instance after eviction and recycling, no room |
| `Started`, `StartFails` | after the await of `start()` |
| `release`, `destroy`, `Destroyed`, `cleanupIdle`, `invalidateSkills`, `dispose`, `Disposed` | the same, on both sides of the await of `stop()` |
| `Exit`, `ExecuteTimesOut`, `runBackground`, `BackgroundEnds` | the worker process |

What has been idle too long is any number of the least recently used entries. The
identity of an instance that is dead and known to nobody may be used again. One user
is the executor of its chat; a second shares its sandbox as the debug console does,
so that users and chats differ.

### LlmAccess

`Choose`, `TakeKey`, `Answer`, `Settle` and `NextProfile` are the chain of
`callLLMWithFallback` between its awaits, all of them disjuncts of `Continue`;
`Admit`, `RecordSlot` and `Uncounted` are the limiter's `acquire` on both sides of
its await and the function that gives the slot back; `Drained` is the drain, which
`TimerFires` or whoever frees a slot runs. `Available`, `Returned` and `Disabled`
are the pool's. `Reload` replaces the pools: calls keep the member of the pool they
took their key from, so pools are numbered by *generation*. Cool-downs may end and
minutes may pass at any moment. `Outcome` is how a request ends after its retries
within the slot; the choice of a strategy is any available key.

### RecordingPipeline

`onMessage`, `triggerFlush`, `Take`, `FlushSucceeds`, `FlushFails`, `SilenceFires`,
`DrainFires`, `dispose` and the shutdown's flush are those of the code; enrichment,
clustering and triage change no state and are one await. A flush that fails does so
at any of its writes: the registry may have been updated, in part or in full, and
published or not. `cleanup` may archive any topic while a flush waits, and
`UpdatedRegistry` deals with what it finds then. Messages are numbered as they
arrive, anew in each process.

`Restart` ends the process in any state. What was buffered is lost to the recording;
its messages are in the log. The topics of the last six hours are restored, and
nothing in the query, the conversion or `restoreFromMemory` looks at their end
(`memory-v2.ts:2384`, `group-subagent.ts:355`, `topic-registry.ts:413`): an archived
topic comes back live and gets later messages, though the memory keeps its first
end. Such topics are *revived*, in the initial state too, and `ArchivedKeepsItsEnd`
speaks of the others. A flush counts as having recorded its messages when it has
gone to its end; one that fails is repeated with the writes that had succeeded.

### HarnessManager

`Enqueue` is `enqueue` with the triggers that call it and their throttles; `launch`
is one step, since it starts the process within one turn of the event loop, and
tells how the start came out: alive, failed where `launch` hears it, or failed where
only the launcher's clean-up does. `Exit`, `ExitFails`, `handleSpawnFailure`,
`RelaunchFires` and `RetryFires` are what ends and repeats a run; `shutdown`,
`ShutdownKills` and `Restart` end the program, with or without the harness's
results, and read history, journals and the last success back. A run is named by
the number of its start, which stands for its time.

### Conversation

`DeleteAtOnce`, `DeleteCalled` and `DeleteGoesOn` are `delete` without and with a
run to wait for; the wait ends when the run has or after five seconds, so that
`DeleteGoesOn` knows nothing of the run, and any of the `Steps` of the cascade may
fail. `CancelCalled` is the dashboard's cancel. Around it are the chat's own ways to
write: `Message`, `MessageMakesNone` (a message that is filtered, or that an agent
sends here), `Flush`, `DispatchBegins`/`DispatchEnds`, `RunGoesOn`/`RunEnds`, the
backfill's listing, fetching and wake-up, and `Restart`. `Removed...` are the same by
an instance that has been removed.

Two carriers outlive a deletion without being part of the chat, and are `elsewhere`:
the chat's post-task window, which `delete` clears nothing of
(`conversation-manager.ts:353-378`) and which holds messages word by word, and the
tasks that the chat's runs have dispatched to other chats. `ElsewhereForwards` puts
what they have into whatever executor the chat has by then
(`post-task-window.ts:353`, `main-agent-loop.ts:466`), and so into its session file.
The history variable `left` names these and whatever else the last deletion found
and did not stop. A chat that an adapter lists of its own accord as unread is fetched
anew without anything having been left under way (`telegram-adapter.ts:694`); that is
the entry `unread`, which the listing puts there.

Of what is stored only its age is kept: nothing, since the deletion, or from before.
Topics are merged with the log, since a flush stores both. What removed instances
still do is a set, an over-approximation of any number of them. Attention items are
left out, and so is what others know of the chat: Meta's sessions and digests, the
memory's facts and profiles, reminders, and what runs have left in the sandbox. A
dispatch, which is taken to be new, may pass on of it. Failures and restarts need no
bound.

## 3. The runs

| Run | Instance | What it checks |
|---|---|---|
| `accumulator` | 2 chats, 1 topic, 2 items, cap 1, window 1, pools on disk without and with duplicates | `AccumulatorConsistent` (types, `WindowArmed`, `OneSignalPerTopic`, `PoolIsPersisted`), `BlockedChatsSilent`, `SignalsFillSpareSlots`, `BatchEventuallyFlushed` |
| `executor` | 3 tasks, ledger cap 2 | `ServedInTurn` (`SerialExecution`, `QueueHasWorker`, `NoTaskTwice`), `LedgerIsTrue` (types, the ledger's `LedgerConsistent`, `LedgerFollowsRun`, `LiveRecordIsOwned`), `TerminalIsFinal`, `EveryTaskSettles`, and `ImplementsServer` with its fairness |
| `session` | 4 messages, 3 turns, at most 4 left, 2 sends | `SessionConsistent` (types, `InLine`), `InterruptedInTime` (`NoBlindSend`, `InterruptedForAReason`), `EndsKnowingAll`, `SessionEnds` |
| `window_safety` | 2 messages, 3 tasks, cancels | `WindowConsistent` (types, `MentionForwardedOnce`, `CallbackInOnePlace`), `BlockedOnlyInWindow`, `UntriagedIsScheduled`, `MentionsAreNotJudged`, `DeliveredIsCarried` |
| `window_liveness` | 1 message, 2 tasks, cancels | `WindowCloses`, `CallbackIsCollected` |
| `main_loop` | 2 chats, 2 dispatches, 1 message, ledger cap 1, `topN` 1 or 2 | `LoopConsistent` (types, `EachJobInOnePlace`, `EachMessageInOnePlace`, `OnePatrol`, `OneSession`), `ResultsFindTheirAuthor` (`AuthorsAreTold`, `ExchangesStayPrivate`), `EverythingIsDealtWith` |
| `sandbox_pool` | 2 chats, 3 users, 2 instances at a time, cap 1 | `PoolConsistent` (types, `OvershootBounded`, `OldSkillsAreMarked`, `LeakNeedsOverlap`), `EvictionSparesWork` (`InUseEvictedLast`, `WakeNotKill`), `IdleIsReclaimed` |
| `llm_access` | 2 calls, a profile of 2 keys and one of a single key, two configurations, 1 reload | `CountsConsistent` (types, `SlotsCounted`, `PendingCounted`, `LimitsHold`), `QueueIsServed` (`QueueIsPolled`, `NoIdleSlot`), `RotationChangesKey`, `CallsSettle` |
| `recording` | 4 messages of a process, restarts, 2 topics, 2 failures, thresholds 3 and 2, batches of 2, buffer of 3 | `MessagesAccountedFor` (types, `NothingLost`, `InArrivalOrder`, `DropsOldest`, `BacklogIsPolled`, `SignalledOnce`, `LastFlushRecords`), `ArchivedKeepsItsEnd`, `BacklogDrains` |
| `harness` | 3 notifications, 4 failures, 1 restart, retry limit 2, history of 2, journal of 1 | `NotificationsAccountedFor` (types, `EachInOnePlace`, `QueueIsPolled`, `OverrideWaitsWithItsTrigger`, `DreamsAreApart`), `DigestsMeet`, `NoStartAfterShutdown`, `NotificationsAreTold` |
| `harness_heard` | the same | violates `FailedStartIsRetried` |
| `conversation` | 2 deletions at a time | `ConversationConsistent` (types, `OneRunPerChat`), `DeletionHolds` (`OldDataHasASource`, `StaysDeleted`) |

Properties of one module that one instance answers are conjunctions of named parts;
each part has a mutant of its own which breaks the conjunction through it.

**Why the bounds are enough.** A blocked chat and one that is not, and a queue
longer than the cap, need two chats and two items with a cap of one. Overlapping
signals need one topic and two weights in the pools of the disk; of what arrives one
weight is enough, and the theorems cover the rest. Three tasks over a cap of two drop
a record, and are one running, one waiting and one arriving. Two messages are the
trigger of a forward and one that goes along; a judgement and a mention; the third
task is the one that continues. Four messages are one in the context, one in the
enrichment, one in the buffer and one that interrupts; with three turns, and four
left after an addition, there is a turn left for each. In the main loop two tasks over a cap of one drop a record whose result is
outstanding, two chats ask one another, and a busy chat holds the only slot of
`topN = 1`. The pool overshoots, evicts, shares and leaks with a cap of one and two
instances. Two calls meet between check and recording, one waits for the other,
and the second configuration switches the limiter off while calls wait. A batch of
two leaves a rest in a buffer of three, and the fourth message meets a full one, which
a failed flush puts its batch back into; two topics are one that is archived and one
that is made. Two deletions overtake one another, and are alike, so they are
symmetric; nothing else of `Conversation` needs a bound. Four failures exceed a limit of two twice, and a third start rotates the history.

Where only safety is checked, identities that are merely compared may be symmetric.
Deadlock is checked except where the system may stop: a disposed pool
(`sandbox_pool`), calls each made once (`llm_access`), notifications that are bounded
and a program that has been shut down (`harness`).

**Fairness.** Each is what the scheduling of the code gives.

- `AttentionAccumulator`: the clock advances; the loop schedules its next tick
  whatever the last one did, so that a flush that stays possible happens; a tick
  disposes of its items. Nothing is assumed of arrivals, blocks or restarts.
- `CodeActExecutor`: every await of a run ends, because LLM and sandbox calls have
  time limits and a session has a limit of turns. Code that extends its turns for
  ever would break this (see `CodeActSession`); that no agent's code does is an
  assumption. No fairness is assumed for the loop's head: it is part of the step
  that ends a run.
- `TaskServer`: only `Answer` is fair; the executor's fairness implies it.
- `CodeActSession`: the loop's head goes on, and enrichment, inference and code end,
  which all have time limits. The code bounds the turns added by a call, and not
  those added to a session: `SessionEnds` says that a session ends unless its code
  goes on adding turns for ever.
- `PostTaskWindow`: the flush timer that is set fires, the window's time limit
  passes, the loop ticks. A run may go on for ever: windows close all the same.
- `MainLoop`: some run ends, some window closes, the tick's timer fires, a session
  ends and the breaker's time passes. It is not assumed of each chat, of a tick with
  a flush, or that sessions succeed.
- `SandboxPool`: the cleaning timer fires again and again, a stopped worker is killed
  after 3 s, a start gives up after 10 s, awaits of a stop end. Users need not
  release, and nothing else of a worker is assumed.
- `LlmAccess`: some call moves on while one can, the drain timer that is set fires,
  minutes pass. Not each call: the queue has to bring every one forward.
- `RecordingPipeline`: timers that are set fire, a flush ends, well or not.
- `HarnessManager`: timers fire, and a harness ends at some time. Nothing in the
  manager limits its time; that it ends is an assumption about the process.
- `Conversation`: none. Only safety is checked; that a deletion ends rests on the
  deadline of its wait alone.

## 4. The proofs

All are proved from `Spec` (`PoolSpec`, `LoopSpec`) without bounds on the constants; the assumptions are
those named in the modules and nothing else. Each module of proofs names its inductive invariant at the top,
mostly `IInv`; each of these was a run of TLC before it was proved. The theorem
called `...Invariance` or `...Invariant` in a module is the induction; the others
follow from it.

- `AttentionAccumulatorProofs`. Assumptions: the window, cap and bounds are numbers
  of the right sign, `None` is none of them, and pools found on disk are finite
  sets of signals. The inductive invariant is the type invariant and the four
  state properties. `OneSignalPerTopic` is inductive
  because a merge keeps the key of the entry it replaces, and a restored pool has
  one merged entry for each key. `SignalsOnlyFillSlots` is an action property and
  needs a second invariant, that the pools and the queue stay finite: a released
  signal then means a spare slot, so fewer items than the cap were released, so all
  of them were.
- `CodeActExecutorProofs`. Assumptions: `Idle` is no task, the cap is positive, and a
  torn file is not a list of records. Three parts.
  *The queue*: that no task is taken up twice hangs on the loop being
  alone, and that on `processing` being up exactly while there is one; nothing of
  what the ledger holds is needed (`QueueIsServedInTurn`). `ExecutorIsSerialServer`
  maps every step to a step of `TaskServer` or a stutter, one case per action.
  *The ledger alone*: each operation on a list (replace a
  status, append, drop the oldest, reconcile) leaves a list within the cap and
  with unique ids, whether it is the list in memory or the one in the file
  (`LedgerIsConsistent`, for `TaskLedger`'s own specification). A save that fails
  leaves `dirty` as it was, so a change stays due (`NoDueChangeIsForgotten`).
  *Both together*: `LedgerTellsTheTruth` needs the invariants of the two,
  `LedgerFollowsRun` and `LiveRecordIsOwned`, and two facts more: the record of a
  queued task is in flight, so that the loop never marks a settled task as RUNNING;
  and what is recorded, in the file too, has been handed over or its dispatch has
  failed, so that a dispatch records no task anew. `TerminalStatusIsIrreversible`
  follows from both.
- `PostTaskWindowProofs`. Assumptions: `Idle` is no task, `NoWindow` no window, and
  `NoRun` no state of a run.
  The invariant `Good` of a window adds to the stated properties that a batch the
  classifier is looking at holds no undelivered mention: that is what keeps its
  answer, which comes after any number of other steps, from judging one away. Each
  operation on a window (record, forward, postpone, judge) has a lemma that it
  keeps `Good`, and each action is a combination of them.
  `CallbacksAndMentionsArriveOnce` is a second induction on top: a task is waiting,
  served or answered, so that its callback is made once, and no two callbacks share
  a task while they pass from window to Q5 to the tick; and a mention that a brief
  carries counts as delivered in the window that holds it, so that a forward, which
  takes what was not delivered, takes none twice.
- `CodeActSessionProofs`. The context, the batch in enrichment and the buffer, put
  together, are one increasing sequence; each action moves a boundary or appends
  the newest message. Besides that, one conjunct says for each stage what may lie
  in the batch and what the LLM has been shown, and one that a send is only held
  back while code runs and nothing waits in the buffer.
  `AgentHasSeenAll` is an action property of the same invariant.
- `RecordingPipelineProofs`. Messages are over (recorded or dropped) in the order in
  which they came, so those that wait, the batch and then the buffer, are
  consecutive numbers that end with the last arrival: a failed flush puts its batch
  back in front of what came meanwhile, and the cap cuts off the front. The type
  invariant needs a count of the drain timers, each of which is left from a flush
  that has recorded something or failed. `ArchivedTopicsStayClosed` needs that a
  topic a flush was shown, and that has been archived meanwhile for the first time,
  was archived after the flush's messages had come; of a topic that a restart has
  brought back it claims nothing. That new topics find a free place is shown
  by counting (`InjectionExists`). The minimum for a flush is not validated and may be 0, so a backlog is a
  buffer that is not empty and has that many.
- `HarnessManagerProofs`. Notifications are over in the order in which they came:
  the run's and the queue's ids, put together, follow on the last one that is over.
  That is what makes `EachInOnePlace` hold although failed batches go back in front
  of new ones. `DigestsMeet` is inductive with two facts more: a history that has a
  successful run has the last one, however it rotates, and the file is never ahead
  of what is in memory. Each start has failed, has finished with a notification or
  is under way, which gives the type invariant its bound. `ShutdownIsQuiet` is an
  action property.
- `ConversationProofs`. `OneAgentAtATime` adds that what a removed instance still
  does is named in `left`, as something the last deletion did not stop. The
  invariant of `DeletedIsGone` says of the other carriers of older data, what an
  instance knows, what is elsewhere and a backfill that is about to fetch, by which
  entry of `left` they are explained.
- `LlmAccessProofs`. Assumptions: there are finitely many calls, the chain is a
  sequence of sets of keys and not empty, a key may fail at least once before it is
  disabled, and a configuration maps each scope to numbers. The invariant has two parts.
  *The limiter*: a counter is the number of calls that hold a slot of its scope, the
  queue has each waiting call once, none of them could go on, and, unless there is an
  excuse, the counters are within the limits and only one call is past the check, with
  its slots still free: without that last fact the next slot recorded could be one too
  many. *The keys*: what is pending on a key of a generation is the number of calls
  that hold it. The drain is a function of the queue by recursion; that this function
  exists and what it comes to is shown by a least counterexample (`ScanExists`,
  `DrainedHolds`), since an induction theorem takes an operator as its parameter.
  `RefusedKeyIsNotRetried` is an action property: releasing a key after such an error
  leaves it cooling or disabled, and the next one is taken from the others in the same
  step.
- `SandboxPool`, in `CodeActSessionProofs`: a session gets its sandbox from the pool.
  Assumptions: the cap is positive, and there are finitely many chats and users, which
  the counts in `OvershootBounded` are over. The specification is `PoolSpec`, the
  invariant `PoolInv`. The cap: a start makes room before it begins, so that with it the
  pool is at most full but for the other starts in flight, and of those there are never
  more than `peak`; everything else keeps or lowers the sum. The leaks: a worker that is
  starting is the one of a single user, and, in a chat that is not in `overlapped`,
  nothing else happens to the chat until it has started (`StartsAlone`); the entry that
  a destroy will delete is still the one whose worker it has stopped (`DestroyHolds`).
  With these, every worker that comes up goes into an entry, and every entry that goes
  has had its worker stopped (`Watched`). A sole user's entry is in use
  (`SoleUseIsKnown`), and an entry's worker has started.
  `PoolSparesWork` is an action property of it: an eviction takes an entry in use only
  when no idle one can go, and none with background commands. `Without`, which takes an entry out of the order, is a recursive function;
  what it leaves is shown by a least counterexample.
- `MainLoop`, in `HarnessManagerProofs`: the tick hands the harness the results of
  what it has dispatched. The specification is `LoopSpec`, the invariant `LoopInv`. It says
  of each job in which one of six places it is (`JobsHold`), of each list, callback and
  item that it shares no job with another, and of the items of layer 1 and of the
  session for whom they are (`ForMeta`): an item's first job is a task that no chat has
  asked for, as far as the ledger knows, and the harness knows of its own already. That
  is what makes `ResultsAreTold` inductive, because the tick decides when it drains Q5
  and the item is disposed of much later, after it has been handed back any number of
  times, dropped by a window or lost with a session that threw; and records only ever
  leave the ledger, so that what was decided with a record is not decided otherwise
  later. A notification is new, since its author is told only when the callback is
  disposed of. The tick is shown in two halves: phase 1 (`DrainMoves`, `CollectedHolds`)
  and what a flush or no flush makes of the items collected (`Dealt`): each is in the
  session, not released, or handed back, never in two of them. `Only`, the filter that
  the model uses throughout, is a recursive function; `OnlyHas` says what it keeps.

**Only model-checked.** Liveness: `BatchEventuallyFlushed`, `EveryTaskSettles`,
`WindowCloses`, `CallbackIsCollected`, `EverythingIsDealtWith`, `IdleIsReclaimed`,
`CallsSettle`, `BacklogDrains`, `NotificationsAreTold` and `SessionEnds`,
and the fairness part of `ImplementsServer`. They need ENABLED, which is beyond the
prover. Every other property of a run that passes is stated by a theorem.
## 5. What the checks found

**With a run.** `harness_heard`: a comment (`harness/manager.ts:481`) says that a
failed spawn is enqueued again. `spawn()` reports such a failure by an event on the
next tick; `launch()` listens for it after an await, and called from a timer or an
input event it listens too late. `running` stays up, and this batch and all later
notifications wait until the program restarts.

**Kept as definitions.** Six statements of the documentation, the comments or the
tests do not hold of the code. Each is a definition of its module, under the heading
that says so; named as the INVARIANT of a configuration it yields a counterexample
(for the window: 2 messages, 3 tasks and `MayCancel = FALSE`; for the penalty:
`InitialPools <- MCEmptyPool`; for the cancel: 2 tasks).

1. `ShownSignalIsPenalised`: `docs/Meta_CodeAct.md` promises an indifference penalty.
   `flush()` counts on a copy that leaves the pool; no signal is ever penalised.
2. `CancelConcernsCurrentRun`: `cancelCurrentRun()` with nothing running leaves
   `cancelRequested` up. The next task handed over is dropped without run, callback
   or status.
3. `ToldOnce`: the judge names a message which a mention took along during the
   judge's call: the subagent is told twice.
4. `MetaSeesEveryCallback`: a callback in the accumulator is dropped when the next
   message of the agent opens a window, because opening one blocks the chat.
5. `EveryCallbackIsMatched`: the second and later callbacks of a window are folded
   into the first; whoever waits for one of their task ids is never told.
6. `MentionIsKept`: a mention that waits for Meta is dropped by the same block, or
   leaves with the buffer the session clears, and no session and no Meta turn has
   been shown it.

**Seen while modelling**, allowed by the models, and of use to a reader of the code.

*Main loop.*
- `runMetaSession` catches every error of the LLM and returns (`meta-sandbox/meta-session-runner.ts:466`),
  so a quota error does not trip the circuit breaker, resets it and marks the chats as
  read, contrary to the comments at `main-agent-loop.ts:148` and `:167`. The model
  lets a session throw all the same, as other errors of it do.
- The folding of a window (item 5) crosses addressees: a result folded under the
  callback of a notification reaches nobody, and one folded under a task of Meta's
  does not go back to the subagent that asked. `ResultsFindTheirAuthor` excepts what
  was folded, and says that there is no other reason.
- A result for the harness goes to Meta as well. A dropped record sends a subagent's
  result to Meta.
- A busy chat's topic signal is dropped by `requeue()`, where the log says it was put
  back. Reminders are marked as triggered before they wait, in memory only.

*Ledger.* A save at start-up that fails leaves settled tasks in flight in the file
with nothing due (`global-state.ts:80-84, 486`), and a torn save at the end of a quiet
tick leaves a torn file with nothing due (`main-agent-loop.ts:424`): the next save
mends both, a crash before it does not.

*Executor and session.*
- A cancelled run may end as COMPLETED; a live record whose task was cancelled stays
  live until the next start.
- Sends that outlive their code may go out although the model was told that the code
  failed. An interrupted inference costs a turn, so a lively chat may use up all of
  them. Messages drained in the last turn are shown by the next session's history;
  those left in the buffer at the end, or that come before the next session starts,
  go with the clear.

*Window.* The tick and the cancel endpoint may unblock a chat whose window is open; a
direct message to a chat without an executor, in a window another chat's session
opened, goes to Meta and is blocked there, but stays in the window's messages.

*Pool.* An entry gets the generation of the skills that is current after its start
(`sandbox-pool.ts:147`). A worker whose start timed out is left running. `dispose()`
does not stop instances that are starting.

*LLM access.* Concurrent calls of one turn exceed `maxConcurrency`. Calls through a
pool pass no profile name, so limits per profile do not apply to them; the limiter's
header says that these override the global ones, but both apply. A late success ends
another's cool-down (`llm-pool.ts:177`). A cancelled call sits out its back-off.

*Recording.* The flush of the shutdown (`main.ts:1800`) does nothing while another is
under way, and takes one batch. Fewer messages than the minimum wait for the next one.
A failed flush that has updated the registry counts its messages again. A restart
revives topics that had been archived; the comments at `group-subagent.ts:350` and
`topic-registry.ts:420` speak of two hours where the code takes six.

*Harness.* The queue is in memory only; an override of the digest is lost if its run
fails; `mkdirSync` throwing at `manager.ts:283` would leave `running` up.

*Conversation.* The deadline of the wait is 5 s, and the cascade then goes on,
unlike what the comment at `conversation-manager.ts:355` says; `removeSessionFile`
catches its error, so it is not among the failures the comment at `:347` promises. An
adapter that lists unread chats (`telegram-adapter.ts:694`) fetches a deleted chat's
latest messages again without any race. The chat's post-task window survives its
deletion with the messages in it, and forwards them into the next run.

## 6. Plan

Done: the components of 1.1, the abstract server, the compositions in
`PostTaskWindow`, `MainLoop`, `SandboxPool` and `LlmAccess`, and the proofs of section
4. Next:

1. `BackgroundManager`, put together with the workers of `SandboxPool`, and the
   context engine's ledger.
2. A crash in `PostTaskWindow` and `MainLoop` composed with the ledger: what of a
   callback is left after a restart. Q5, the windows and the buffers are in memory
   only, so the answer is the record's status.

The hazards the properties are aimed at, and those that still wait for a module,
are listed in `PROJECT.json`.
