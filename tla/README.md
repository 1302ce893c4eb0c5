# TOM: specifications

TOM is a local assistant one talks or types to: a Python program
(`src/python/tom`) that routes requests, runs an agent with tools, listens and
speaks, and a Rust engine (`src/rust/tom-engine`) that owns audio, input devices
and sensors and is reached over a named pipe. This directory holds TLA+ models
of its parts, what TLC checks of them and what TLAPS proves of them for every
value of their constants.

Run a model check with `tlc -config <run>.cfg <MC module>.tla` and the proofs with
`tlapm` on each of the eight `*Proofs.tla`. `PROJECT.json` lists the runs, for every
definition the source lines it stands for, for every property a mutated
definition that breaks it, and the hazards the properties are for.

## The system

| Component | State it keeps | Operations | Talks to |
|---|---|---|---|
| Resource governor (`resources/manager.py`, `policies.py`) | counters of granted VRAM and RAM, the heavy lock and its reservation, leases, a priority queue, resident models | acquire, release (which dispatches a waiter), register and clear a resident model | agent and vision ask for leases; NVML is asked for free memory |
| IPC client (`ipc/client.py`, `transport.py`) | connection state, the table of pending requests, a receive task, a reconnect task, the pipe's writer and its lock | connect, request, close; the two loops | every caller of the engine; the lifecycle manager connects and closes it |
| Engine server (`ipc/server.rs`, `dispatcher.rs`) | one task per connection | read a frame, dispatch under a limit, write the response | the client; audio, input, sensors |
| Lifecycle manager (`core/lifecycle.py`) | started, stopped | start (connect, ping, status), stop | the IPC client |
| Voice interaction core (`voice/interaction_core.py`) | the active turn, turn epoch, candidate audio, wake-word session, pipeline state; which turn is open | event handling, turns, barge-in, smart-turn and wake-word timers, greeting, watchdog, stop | microphone, recogniser, orchestrator, streamer, engine |
| Microphone loop (`voice/microphone.py`) | gate, mute and pause flags, the utterance under way, the sample buffer | start, stop, push samples, gate, mute, pause, subscribe; polls the engine | emits speech events to the interaction core |
| Streaming synthesis (`voice/streaming_tts.py`) | slots of a synthesis pipeline, a semaphore, a play queue | synthesize and play in order, cancel, drain | synthesis provider, the engine plays |
| Conversation (`voice/turn_manager.py`, `response_policy.py`) | a context per turn, the referents, a bounded history, background tasks, tool timings | start and close a turn, record a tool call or a referent, sync, reset; decide how to answer | the interaction core and its tools |
| Sentences (`voice/sentence_streamer.py`) | what waits to be spoken | push a delta, flush, reset | the streamed answer goes in, speech comes out |
| Pipeline (`voice/pipeline.py`, `interaction.py`) | pipeline state, epoch, active task | run a turn, barge in, reset, announce | engine, recogniser, agent |
| Speech providers (`voice/stt.py`, `tts.py`, `streaming_stt.py`) | a model and the lock on it | load with a fallback from the GPU, decode, synthesize, under timeouts | a thread per call |
| Agent, orchestrator, tool executor (`agents/base.py`, `orchestrator.py`, `tools/executor.py`) | agent state, the executor's confirmation hook | run, stream, execute a tool | model, governor, tools |
| Task manager and executor (`agents/task_manager.py`, `executor.py`) | task and step states, tokens, persisted copies; loop history | create, start, cancel, complete, fail; execute a plan in dependency order | tools, revalidation, SQLite |
| Planner (`agents/planner.py`) | nothing that outlives a request but its token | ask a model for a plan, validate it, order its steps, plan again | a model; the executor orders plans by the same algorithm |
| Proactive scheduler, reminders (`agents/proactive.py`, `personal/reminders.py`, `store.py`) | rate limit, active token; reminders in SQLite | tick, dispatch, preempt; create, update, cancel, delete, fire | task manager |
| Confirmation (`security/confirmation.py`) | sliding window of prompts, threads that read | ask, rate limit | agents, console |
| Model coordinator (`resources/model_manager.py`) | per model: state, acquisitions, residency | register, acquire, release, record ready or failed, evict | an eviction hook |
| Memory manager (`memory/*`) | rows in SQLite, vectors in Qdrant | store, update, delete, search, clean up | tools |
| Model provider (`models/providers/http.py`), web tools (`tools/web.py`) | nothing that outlives a call | generate, stream; search, fetch | model server, the web |
| Vision (`vision/*`, `tools/vision.py`) | nothing that outlives a call | capture, read, locate, ask | governor, visual model |
| Application (`main.py`, `desktop/*`, `core/lifecycle.py`) | the parts it made, the shutdown event | set up, run one of four modes, shut down | everything |
| Engine (`audio/*.rs`, `ipc/server.rs`, `lifecycle.rs`, `main.rs`) | playback and capture state shared with device callbacks, a ring buffer; a token per task | play, stop, capture, get speech; accept, serve, shut down | the client's requests |

The Python side is one asyncio loop: what interleaves are coroutines, and only
at an `await` that really suspends. The hard parts are therefore what a
coroutine knew before such an `await` and uses after it, cancellation and
timeouts arriving there, threads that outlive the call that started them, two
tasks sharing one field, and the engine process failing on its own. The engine
is a process of threads and tokio tasks connected by bounded channels. What
makes each component correct:

* governor: one heavy model at a time, the software budget kept, no starvation,
  no capacity left idle while somebody waits for it;
* IPC: each request executed at most once and answered at most once, with its
  own answer; every call ends; the connection comes back;
* voice: whole utterances, each answered at most once; the microphone gated only
  as long as somebody is there to open it; the session always listens again; all
  of an answer is spoken; a turn keeps the context it began with;
  speech in order, each sentence once; one thread at a model that was made;
* agent: whatever ended a request, lease, hook and state are left clean;
* planner, tasks and reminders: an accepted plan has an order and is put in it, one
  refused for a cycle has none; executor and manager agree, the states follow the
  matrix, steps run in order; an occurrence fires once and is never used up unfired;
* coordinator, memory, vision: no state from before an `await` overwrites what
  happened during it;
* provider and web: what is handed over is what was sent or found, however it
  was cut;
* application and engine: everything that came up goes down, whatever fails.

`PROJECT.json` lists the hazards at their lines.

## Modules

| Module | What it is |
|---|---|
| `ExclusiveLease` | abstract: a slot at most one client owns at a time, taken at once or waited for |
| `ResourceManager`, `MCResourceManager` | the governor; refines `ExclusiveLease`; its instances for TLC |
| `AtMostOnceCall` | abstract: a call that is executed at most once and has one outcome |
| `IpcClient`, `MCIpcClient` | client, transport and connection handler; refines `AtMostOnceCall` |
| `TaskLifecycle` | abstract: the transition matrix of a task |
| `TaskExecution` | task manager, executor and the tool pipeline; refines `TaskLifecycle`, uses `LoopDetector` |
| `Planner` | requests to the planning model, validation, Kahn's algorithm |
| `MCTaskExecution` | both of them: the plans TLC executes, and those it answers the planner with |
| `LoopDetector` | the loop detector, with the history it does not keep |
| `ReminderService`, `MCReminderService` | reminder rows, ticks, the scheduler's policy and its preemption, crashes; the settings "busy", "told" and "quiet" for TLC |
| `VoiceSession` | the interaction core with the parts of microphone, pipeline, streamer and engine it meets |
| `OrderedStream` | abstract: what a consumer of synthesized speech is promised |
| `StreamingTTS` | one stream of the incremental synthesizer; refines `OrderedStream` |
| `MicrophoneLoop` | frames become the events of an utterance |
| `PipelineStates`, `VoicePipeline` | the pipeline's matrix; turns, barge-in, reset and announcement as tasks |
| `SpeechProvider` | the lock, the model and the threads of a provider |
| `SentenceStreamer` | the cutting of an answer into pieces that can be spoken |
| `TurnManager` | contexts of turns, referents, history; the rules of the response policy |
| `MCVoiceParts` | the six parts before, which do not call each other, in one run |
| `EnginePlayback`, `EngineCapture`, `EngineServer`, `MCEngineParts` | the engine's audio, its server and shutdown, in one run |
| `AgentSession` | the agent, its orchestrator and the tool executor |
| `ModelLifecycle` | the model coordinator |
| `MemoryStore` | the two stores of memory |
| `HttpStream` | one request to a model server |
| `WebTools` | a search and a fetch |
| `App` | the program from `main()` to its exit |
| `Vision` | the vision tools and the lease on the visual model |
| `ConfirmationHook` | the rate limiter of prompts and the console hook with its reader threads |
| `MCServices` | the parts from `AgentSession` to here, and `LoopDetector` with its own history, in one run |
| `ResourceManagerProofs`, `IpcClientProofs`, `ReminderServiceProofs`, `VoiceSessionProofs` | theorems about one module each |
| `TaskExecutionProofs` | theorems about `TaskExecution` and about `Planner` |
| `VoicePartsProofs`, `EnginePartsProofs`, `ServicesProofs` | theorems about parts of `MCVoiceParts`, `MCEngineParts` and `MCServices`, as they stand in the composition |

`MCVoiceParts`, `MCEngineParts` and `MCServices` put parts side by side that share
no variable: a variable `part` or `subject` chooses, in the initial state, the one
that moves. That is a sum of their state spaces, not a product, and every
property is checked of each behaviour of its own part.

A step of a model is what the code runs between two suspension points. The
conventions: parameters are `CONSTANTS`, one action per operation, and a
definition `X_<fault>` just before `X` is `X` with a plausible programming error,
used by no specification (`PROJECT.json` says which property detects it).

### ResourceManager

`book` holds the counters `_allocated_vram_mb`, `_allocated_ram_mb`,
`_current_heavy_vram_mb`, whether `_heavy_lock` is held and
`_heavy_lock_reserved`; `resident` the keys of `_resident_vram`; `telemetry`
what the provider would answer now. A client's lease is its `pc` and `demand`;
the queue is `ahead` (for each waiter, those with a lower sequence number) and
`age` (ticks waited).

| Action | Code |
|---|---|
| `Acquire` (`AcquireNow`, `AcquireQueued`, `AcquireRejected`, `AcquireUnfit`) | `_acquire_internal` up to the wait: budget check, immediate grant with the lock, or the queue |
| `Resume` | the granted coroutine takes the heavy lock and clears the reservation |
| `GiveUpWaiting`, `GiveUpGranted` | timeout or cancellation before and after the grant; after it the lease goes back by `Release` |
| `Release` (`Dispatch`, `DispatchNobody`) | `release` and the dispatch it ends in, one step because the state lock is held across it and nothing in it suspends |
| `RegisterResident`, `ClearResident`, `TelemetryMoves`, `Tick` | resident models, the card, the clock |

A budget check asks the telemetry provider, and admission does so again:
`RacyReads` lets the two answers differ, as a live driver's may. `Monus` is the
code's `max(0, ...)`. Negative requests, which raise before any state is read,
are outside `DemandType`.

### IpcClient

`req`, `fut` and `pending` are the `request()` calls, their futures and the keys
of `_pending`; `lockq` the calls that wait for the transport's write lock;
`state`, `closed`, `recv`, `reconn`, `attempt` the client's fields and how far
its two tasks have come; `pipe`, `peer`, `toEngine`, `fromEngine` the writer, the
engine's end and the frames under way; `engine` whether the process runs, hangs
or is gone; `executed` a history of what it dispatched.

| Action | Code |
|---|---|
| `Refuse`, `Send`, `LockGranted`, `Drained`, `DrainFails` | `request` up to the end of `write_frame`: refused, registered and written, or queued for the write lock, then waiting in `drain()` when the frame is large |
| `Answered`, `Lost`, `TimesOut`, `CancelAwaiting`, `CancelWriting` | the five ways out of `request` |
| `Receive`, `ReceiveLast`, `ReceiveFails`, `StartReconnecting` | a turn of `_receive_loop`, its quiet end, its end by an error and the start of the reconnect loop once the transport is closed |
| `Attempt`, `Reconnected`, `AttemptFails`, `NextBurst` | `_reconnect_loop` |
| `Connect`, `Connected`, `ConnectFails`, `Close` | `connect` and `close`, called by the lifecycle manager one at a time |
| `Serve`, `DropConnection`, `WriterFails`, `EngineStarts`, `EngineHangs` | the connection handler of the engine, and its failures |

Cancelling a task and waiting for its end is one step: a cancelled task does
nothing but end, and a connection is opened only after the drains of the old one
have been woken (`OpenLink`). Error responses are answers. `_recently_done`, which
chooses the wording of a warning, is left out.

### TaskExecution and LoopDetector

`state`, `error` and `token` are what the manager keeps of a task; `pc`, `pos`,
`done`, `late` and `result` the locals of its `execute()`: where it waits, the
number of executed steps, those that succeeded, whether the wall-clock limit has
passed, what it returned. `ran` and `approved` are histories. `detector` is the
one `LoopDetector` all executions share, `calls` and `screens` its history.

| Action | Code |
|---|---|
| `Create`, `Prepare`, `Cancel` | `TaskManager.create`, `transition`, `cancel` |
| `Start` | `execute` up to its first await, or its failure on a plan without an execution order |
| `Revalidated` | the look at the screen returns; then the permission check and the tool |
| `Approve` | the user confirms; the handler runs |
| `StepFails`, `StepSucceeds` | the tool's result, the loop detector's verdict, then `Turn`: the token, the wall clock, the budget, the prerequisites of the next step; or `Complete` |
| `Abandon` | the coroutine is cancelled by its caller; the `finally` clause puts the state back |
| `RunsLate` | the wall-clock limit passes |
| `RecordToolCall`, `RecordObservation`, `Reset` | the operations of the detector |

A plan is given in execution order, its prerequisites as positions (0 for one it
does not have); `Cyclic` names the plans `resolve_execution_order` rejects. A call
is one value for a tool and its normalised parameters, outputs and errors are
fingerprints. A blocked call or an argument that does not fit is a handler that
fails at once. The token is the task's own, which `cancel` sets. Left out: the
rows in SQLite, which are written and never read back, `current_step_index`,
which nothing reads, and handler threads that go on after their timeout.

### Planner

`stage` is where the request is: waiting for the model, ordering, accepted,
refused (and `reason`), cancelled. `plan` is the plan that is validated or
ordered, `inDegree`, `ready` and `ordered` the locals of
`get_execution_order`; `checked` says whether it went through `validate_plan`,
which the executor does not call before it orders.

| Action | Code |
|---|---|
| `MakePlan`, `Replan`, `CancelPlanning`, `AnswerIsVoid` | `plan`, `replan`, and the token they look at before they ask and once answered |
| `Malformed`, `Answered` | the model's answer: `_extract_plan`, the schema, `validate_plan` |
| `Resolve` | `resolve_execution_order` of the executor |
| `Take`, `OrderEnds` | one round of the loop over the ready list, and what follows it |

The ready list is sorted by the position in the plan, so it is a set. Prompts and
the registry's descriptions are left out.

### ConfirmationHook

`history` and `cooldown` are the tracker's deque and deadline, as ages in ticks;
`asked` says which calls of `request_confirmation` wait and for how long, `outcome`
how they ended; `readers`, `queue` and `stale` are the threads of asyncio's pool
that read for a waiting request, the prompts that have no thread yet, and the
threads whose request has ended; `line` is what was read. `shown` is a history of
the permitted prompts.

| Action | Code |
|---|---|
| `Request` (`Permitted`, `Flooded`, `CoolingDown`, `NotInteractive`) | `acquire` and, when permitted, handing the prompt to the pool |
| `ReadLine`, `ReadInVain` | `input()` returns, to a request that waits or to nobody |
| `Decide`, `TimesOut`, `Abandon` | the three ways out of the wait |
| `ResetTracker`, `Tick` | `reset`, and the monotonic clock |

Only prompts use the pool here. An error of the input denies, as "no" does.

### ReminderService

`row` is the table of reminders: status, time left until `fire_utc` (negative:
overdue), `fires` and `max_fires`. `tick` says for each caller of
`ReminderService.tick` how far it has come, how old its `current_time` is, whether
that is within quiet hours, and which of the rows it read are still to do.
`last`, `userActive` and `active` are `_last_proactive_time`, `_user_active_override`
and the owner of `_active_proactive_token`; `running` and `preempted` the plans
under way and those whose token was cancelled. `told` is a history: how often
this process dispatched the present occurrence.

| Action | Code |
|---|---|
| `Create`, `Update`, `Cancel`, `Delete` | the transactions of `PersonalStore`, at any time: the service's `cancel` and `delete` do not take the lock of `tick` |
| `Begin`, `ReadDue` | `tick` up to the lock, and the query for what is due, in a thread, under the lock |
| `Dispatch` | `dispatch_proactive_task` of a reminder the policy allows, up to the start of the record |
| `Defer` | nothing is left; or the policy refuses the reminder, and with it the others, which are judged at the same stamp and without an await between |
| `Record` | `record_reminder_fire`, and the end of the tick when the row is gone |
| `StartPlan`, `PlanEnds`, `SignalUserTaskStarted`, `SignalUserTaskEnded` | triggers with a plan, and preemption |
| `Crash`, `Clock` | the process ends and starts again with the table it had; time |

A reminder has no plan: its task is put on record and the dispatch is over. The
map of the service's triggers is left out, because nothing reads it to decide
anything: `tick` rebuilds each trigger from its row. New times lie in the present
or the future, where a row that is due always has a trigger that is due
(`build_reminder_trigger`); a time given in the past may have to wait an hour. A
reminder overdue for longer than `Late` is overdue by `Late`, and its next occurrence any
that agrees with that. Months of different length, cron expressions and system
events only choose when a trigger is due, which `StartPlan` leaves open. Nothing in
the program calls `tick` yet, only its tests do: the model lets two callers do so at any time.

### VoiceSession

All of `InteractionCore` that keeps state, with what it shares with its
neighbours. `events`, `said`, `inSpeech` and `gated` are the microphone;
`state` the pipeline; `epoch`, `active`, `playbackActive`, `barging`, `pending`,
`candidate`, `smart`, `awake` the core's fields; `caller` says for the three
coroutines that begin or end turns (the consumer, the timer's task, `stop`) which await they are at;
`turn` is the task of each turn, named by its epoch, `cancelled` those told to stop,
`open` and `history` the turn manager's; `calls` the requests on their way to the engine.

| Action | Code |
|---|---|
| `SpeechStarts`, `SpeechEnds`, `EngineServes`, `EngineFails` | the neighbours |
| `Greet`, `HearStart`, `HearEnd`, `Leave` | the consumer: greeting, one event, the end of `run` |
| `Identified`, `WakeAckPlayed`, `Continuing`, `Complete` | `_handle_speech_end` after recognition: wake phrase, candidate or turn |
| `Flushed`, `Reaped`, `AfterBargeIn`, `StartAfterBargeIn`, `BeginAfterBargeIn` | `handle_barge_in`: invalidate, flush the engine, cancel, wait, go on in whoever asked for it |
| `SmartTurnTimeout`, `TimerTaskRuns`, `WakeWordTimeout`, `Watchdog` | timers |
| `Runs` … `Finish`, `CancelArrives`, `Unwound`, `TurnDone` | a turn's task, from its transcript to its done callback |
| `Stop`, `StopMicrophone`, `Stopped` | `stop()` |

What the arbiter, the wake phrase and the response policy decide is open, and
every engine call may fail.

### StreamingTTS, MicrophoneLoop, VoicePipeline, SpeechProvider, SentenceStreamer, TurnManager

`StreamingTTS` has one action per await of each of its tasks: `Fetch`,
`StartSynthesis`, `ProducerEnds` (producer), `Synthesized`, `LearnsIfLast` (a synthesis,
which ends only when it is known whether its sentence is the last), `NextSlot`,
`Skip`, `Sequence` (sequencer), `Deliver`, `StreamEnds`, `Drained`, `CallerLeaves`,
`LeavesDraining`, `Shutdown` (caller), `TakeChunk`, `Played`, `PlayFails` (player), `Cancel`,
`Watch`. A failing source, a failing synthesis and a failing player are among them. The
producer reads the token before it waits for a sentence and not after, so one that comes
after the cancellation is still synthesized (`Fetch`, `StartSynthesis`).
`OrderedStream` sees what was delivered and whether the caller's stream is over, and
again what was played and whether the player is.

`MicrophoneLoop`: `Poll` fetches frames, `ProcessFrame` handles one with no other
task in between until the burst is over, and in between come `Gate`, `Mute`,
`Unmute`, `Pauses`, `Stop`, `Start`, `Subscribe`. A frame is speech or not and loud or
not, an utterance its number of frames, and `listener` is what a subscriber can
tell of the events it got.

`VoicePipeline`: `Begin`, `Proceeds`, `AwaitFails`, `CancelArrives`, `Unwound`,
`FailureHandled` are `run_turn` between its awaits; `BargesIn`, `BargedIn`, `Resets`, `WasReset`,
`Announces` … the other tasks. An await may fail, and whoever awaits `run_turn` may be
cancelled, at an await of the turn or of its clean-up (`CallerCancelled`), and so may whoever
interrupts it, at the flush (`InterrupterCancelled`). `cutOff` remembers the last two, until a
reset is completed.

`SpeechProvider`: `Hear`, `Over`, `Leave` are a caller, `Acquire`, `TimesOut` its call
under the lock, `Load`, `WarmedUp`, `CudaFails`, `SetUp`, `MadeAtOnce`, `Used`, `LoadFails`
its thread, which a timeout does not stop. Decoding and signal processing are data.

`SentenceStreamer`: `PushChunk`, `Flush`, `Reset` on a buffer of characters, of which
only the kind counts (letter, digit, abbreviation, space, line's end, full stop, other
end, clause mark); `text` and `pieces` are histories of what came in and went out.

`TurnManager`: no operation awaits, so each is a step (`StartTurn`, `RecordToolCall`,
`RegisterReferent`, `Close`, `SyncBackgroundTasks`, `Reset`, `RecordToolTiming`);
`contexts` keeps every context handed out, as the turns and tools that hold one do.
`Decide` is `ResponsePolicy.decide`, on the features its patterns look for.

### Engine

`EnginePlayback`: `Play` finds the open stream or opens one (`Opens`, `OpenFails`,
`Install`, which drops its own if another came first), `CloneSender`, `Send` and
`TimesOut` end the request, `Bridge` resamples, `Device` plays, `Stop` silences.
`EngineCapture`: `held` is the token and the stream the manager keeps, each behind a lock of
its own; `Start`, `Drops`, `Clear`, `Opened`, `InstallToken`, `Installed` are `start_capture`,
whose request may time out while the device opens (`OpenedForNobody`), `StopCapture` and
`StopDrops` are `stop_capture`. A session is a chain: `Callback`, `Convert`, `SendFrame`,
`Count`, `Push` take a frame through it, and `GuardEnds` is the end of the task that waits for
its token (capture.rs:245-250). `EngineServer`: the accept loop, `Reads`, `Answers`,
`DispatchTimesOut`, `Writes`, `WriteFails`, `Refuses` of a worker, `Signal`, `HandleAwaited`,
`HandleTimesOut`, `ShutdownEnds` of the shutdown, and `ProcessEnds`, for which the runtime waits
for the threads it cannot drop: `orphans`, blocking calls whose request was given up
(manager.rs:179, 279), and the listener for the hotkeys. Samples are counted, formats and
devices left out.

### AgentSession

`agent` is the state of the one `Agent`, `hook` the executor's confirmation hook,
`lease` the lease on the reasoning model, `request` where the request under way
is. `Begin`, `RoutedToTool`, `RoutedToLoop`, `NoModel`; `Step`, `LeaseGranted`, `Chunk`,
`Consumed`, `Answered`, `OutOfSteps` the loop; `ToolRefused`, `ToolAsks`, `Confirmed`,
`Denied`, `ToolStarts`, `ToolReturns`, `ToolTimesOut`, `Drained` a call;
`CancelToken`, `Kill` and `Closed` the three ways of cancelling, and the `Killed…`
actions where they arrive. `late` counts handlers that outlive their call.

### ModelLifecycle, MemoryStore, HttpStream, WebTools, App, Vision

`ModelLifecycle`: every method is a step under the lock, `TriggerEviction` and
`EvictionSucceeds` or `EvictionFails` the two around the hook.
`MemoryStore`: `Store`, `Update`, `DeleteRecord`, `CleanupExpired` and the searches
touch SQLite; `AskIndex`, `Upsert`, `DeleteVector`, `SemanticHits` the index, which comes
and goes; `Fetch` reads a candidate again. Of a record only its `expires_at` counts: none, or
the same instant written in UTC or with the offset of a place in the east or in the west. The
`clock` passes the text of the western one first, then the instant, which is the text in UTC,
then the text of the eastern one: `Lapsed` compares texts, as SQLite does, and `Passed`
instants, as the manager does with a candidate it has read again. A search may ask for
expired records, too (`include_expired`).
`HttpStream`: the server's events (text, part of a tool call, usage, an error,
`[DONE]`) in any order, and what the generator hands over after each; a call that does not
make a valid request ends the stream after those before it (`CallRefused`).
`WebTools`: the four sources one after another, `Combined` and `Distinct`; a fetch by its
hops, addresses and redirects; `TimesOut` anywhere.
`App`: set-up in its order with a failure after each part, the four modes, signals,
the main task and its cancellation, and `TakeDown` of each part, which may raise.
`Vision`: the privacy check and the grab, the tiers, escalation to the visual model
with a governor or without, refusals, failures, cancellation anywhere. Which tier an answer
reports is left out.

### What is left out inside the parts

Beyond what the modules say in their headers:

* `AgentSession`: `Closed` is one step. A consumer that stops iterating does not close
  `orchestrator.stream` (`interaction_core.py:492-504`), so the generator unwinds, with its
  lease and hook, when it is collected. A tool's result that cannot be written as JSON raises
  after the hook is back (`base.py:337-338`);
* `ReminderService`: `Record` may find the row gone, but SQLite does not fail to write it, and
  a tick is not cancelled between its dispatch and the record (`reminders.py:150-161`). Either
  would leave the occurrence due, to be dispatched once more, as after a crash;
* `VoiceSession`: of the watchdog the recovery of a gated microphone. Its failure
  (`interaction_core.py:1107-1112`) needs a microphone whose `resume` is not the one of
  `MicrophoneLoop`, which cannot fail; the branch for a starved one (`:1119-1174`) calls the
  same on a microphone that is neither paused nor gated, and changes nothing modelled;
* `MicrophoneLoop`: a listener subscribes between utterances. `subscribe` does not ask for it
  (`microphone.py:368-370`), and who came in the middle of one would miss its start; the only
  one in the program subscribes before `start()` (`interaction_core.py:909`);
* `EnginePlayback`: whether the resampler can be made is decided as the stream opens, not a
  little later in its task (`playback.rs:149-160`), and a chunk that cannot be resampled, which
  is dropped with a warning (`:215-217`), is left out: `AcceptedIsNotLost` is about sounds that
  can be;
* `EngineCapture`: a request that times out does so while the device opens, its only wait
  without a limit; an overwritten token or stream is in the model;
* `SpeechProvider`: `WholeModelsOneAtATime` excepts what follows a load that was reported as
  failed after the model was assigned, and a call that was given up while its thread went on;
* `TurnManager`: `TurnsKeepTheirContext` does not say that a tool is noted on the turn that
  called it; the code notes it on the one in flight (`interaction_core.py:886`);
* `HttpStream`: the parts of a tool call carry their index, as the protocol has it; without
  one the code takes 0 and merges the calls (`http.py:486`);
* `IpcClient`: closing the writer wakes whoever waits in its `drain()` before a new connection
  is opened (`transport.py:260-275`), a frame the client itself finds too large raises before
  it is sent (`transport.py:180-185`), and a response that cannot be read is logged and skipped
  (`client.py:302-306`); the last two are left out;
* `EngineServer`: a handler's work is one dispatch, whose thread may outlive it; how many
  threads the runtime has is not counted.

## Runs

| Run | Instance | Shows |
|---|---|---|
| `governor_safety` | 3 clients (symmetric), 2 heavy roles and a light one that together fill a ceiling of 7, a caller that does not wait, 3 telemetry readings, racy | lock and lease agree, the budget is kept, `ExclusiveLease` is implemented |
| `governor_liveness` | 3 clients, voice requests without end against vision requests of two priorities and sizes, ageing every tick, fair | nobody queues for ever |
| `governor_lost_capacity` | 2 clients, live telemetry, fair | violation: see below |
| `ipc_safety` | 3 requests: one whose answer is oversized, two that may block in `drain()` (symmetric), bursts of 2, engine crashes, drops, hangs | one owner of the link, waiters have a receiver, `AtMostOnceCall` implemented |
| `ipc_liveness` | 2 requests, engine that crashes and restarts but does not hang, fair | `EndsAndRecovers`: every call ends, a noticed loss is repaired |
| `ipc_lost_loop` | 2 requests, fair | violation: see below |
| `tasks` | 3 interleaved plans: a loop with a confirmation, a revalidation and a step beyond the budget of 3; a step both revalidated and confirmed before a terminal one; one without an order; fair. The planner: every plan of 3 steps with up to 2 dependencies each, of up to 2 steps with anything wrong, and plans of 4 steps over a limit of 3; 2 requests | results and records agree, steps in order, `TaskLifecycle` implemented, every execution ends; plans are ordered and refused rightly |
| `reminders` | 2 reminders in three settings. "busy", the constants of the configuration: a tick against a plan, the user and quiet hours; "told": 2 overlapping ticks that may last as long as the cooldown; "quiet": one caller that ticks again and again, fair; a crash in each | an occurrence is dispatched at most once and used up only if dispatched; the user preempts the plan; whatever is due is dispatched |
| `voice_session` | 2 utterances, 2 chunks of speech, with and without a turn arbiter and a wake word, fair | a closed gate has an owner, no utterance is answered twice, turns end once, the session listens again |
| `voice_parts` | a stream of 3 sentences, 2 syntheses at a time; 9 frames, onset and pre-roll of 2, silence of 2, utterances of 4 to 7; 2 turns, a barge-in, a reset, an announcement; 2 callers of a provider, 2 windows; answers of up to 6 characters in 8 kinds of deltas; 2 turns, 2 records | `OrderedStream` implemented and all its tasks end; whole utterances; the pipeline is not left busy unless a clean-up or a flush was itself cut off, and a completed turn was undisturbed; one thread at a model that was made; all of an answer is spoken; contexts are their turns' own |
| `engine_parts` | 3 sounds of 3 samples against a stop; 2 sessions against a stop; one client with a frame of any kind, two subsystems, against the shutdown; fair | what was accepted is played once and in order; `EverythingStops`: the chain of a session that is not held any more ends, a worker comes back to its token, and the process ends unless it waits for a blocking call |
| `services` | agent: 2 steps, 2 tools, a chunk; a model, 2 evictors, 3 users; a memory, 2 operations; 4 server events, 2 tool calls; 3 URLs, 2 redirects, 2 addresses; the application's 4 modes; 2 vision requests; 4 calls and 4 screens; 2 prompts, 2 threads; fair where liveness is asked | nothing is left behind by a request; `RequestsEnd`: every request ends and every prompt is decided; a busy model is spared; what was forgotten or had expired is not recalled; an answer is what was meant; a search answers what was found; everything is taken down; the visual model is used under its lease only; loops are found |

Why the bounds are enough. Three clients are the fewest where one holds the slot
while two queue with an order between them; three requests the fewest where one
drains, one waits for the lock and one is answered. Bursts of two attempts tell
the first, the last and the rest between bursts apart. The plan of four steps under
a budget of three reaches the loop threshold and the budget at once; a second plan
that calls the same tool interleaves with its count. A tick may take as long as
the cooldown between dispatches, so that the rate limit does not hide what the lock
of `tick` is for. Two utterances are one to answer and one to barge in with, before
and after the answer begins to be spoken, and a turn of two chunks has one under
way and one waiting. Three sentences with two syntheses leave one waiting for the
semaphore while two overtake each other. Nine frames are an utterance cut off by
its limit, or one that is dropped as short and a second. Three sounds are one that
opens the stream, one that loses the race and one after a stop; three samples in
chunks of two leave a remainder. Four server events are two interleaved fragments
of one call, of two, or a text between two, and an end. Two redirects are one that
is followed and one beyond. Operations on memory meet on one record; which others there are
changes nothing (the theorem is for any). A frame of each kind is enough to leave a worker at
each of its awaits when the signal comes; `AnsweredInOrder` and `BooksBalance`, which are about
several, hold with two of `MaxSent` and `MaxFrames` as well. Four calls leave one before a loop of three (the
theorem has no such bound). Two prompts, requests and threads fill the pool, with a
stale thread and a queued prompt; the window is longer than the cooldown, as the
code's 30 s are than its 10 s. Plans of three steps have every cycle of up to
three and every order; two turns are one that outlives the other; six characters
are two sentences, or a clause and a word, with blanks between them.

Fairness: the loop resumes what is ready (weak fairness of each continuation), leases
end because they wrap an inference that ends, timers fire, the clock ticks, an engine
that is up reads its pipe, and a connection attempted again and again to a running
engine succeeds (strong fairness of `Reconnected`, whose attempts may each time out). A
tool, a confirmation and a revalidation answer (`WF` of `Answer` in `TaskExecution`, of
`ToolTimesOut` and `Drained` in `AgentSession`), because `wait_for` limits them or, for
the third, because it is one screenshot. In `VoiceSession` the engine answers its
requests or they fail, which the client's timeout sees to, and turns, timers and the
consumer go on. In the engine a
request that has begun goes on, and so do the tasks of a session; the worker of a connection
and `main` go on, timers run out, and the listener for the hotkeys looks at its token between
two messages. A client need not send or read, the accept loop need not accept, and another
subsystem or a blocking call need not end. Nobody has to speak, call, cancel, give up, connect or close, and
no user has to type. `ReminderService` needs a caller that ticks again and again, some
of the time outside the quiet hours and while no task of the user is listed, and gets
its turn when another dispatch has let the cooldown pass (strong fairness of the steps
of a tick); `LeftAlone` says the user and the plans let it. `CHECK_DEADLOCK FALSE` is
said where the parts of a run really stop: tasks that have ended, a session after
`stop()`, a stream, a process or a call that is over.

### How to check more

The modules state more than the twelve runs list, in the section after their
`Next`: type invariants, exact books, `HeavyExclusion`, `NoOvertaking`,
`ClosedIsQuiet`, `WaitingIsForUser`, `TerminalIsFinal`, `LoopsAbort`,
`StagnationIsReal`, `BurstsAreBounded`, `EveryPromptIsSomewhere`, `CooldownEnds`,
`UtterancesAreBounded`, `StopSilences`, `BooksBalance`, `AnsweredInOrder`. Add
the name to the configuration whose module extends theirs; for a part of
`MCVoiceParts`, `MCEngineParts`, `MCServices` or `MCReminderService`, define it there first, as its
neighbours are (`BurstsAreBounded == Confirm!BurstsAreBounded`). The proofs treat
unknown tools and missing prerequisites, which the plans of `MCTaskExecution` leave out.

The inductive invariants of the proofs can be checked too (`IInv`, `PlanInv`,
`PipelineInv`, `MicrophoneInv`, `ProviderInv`, `VisionInv`, …): with a proof module in
place of the one it extends, a configuration takes them as invariants, except those
that name infinite sets of rows or sequences.

### Disagreements found

Two runs expect a violation:

* `CapacityAdmitsWaiters` (`governor_lost_capacity`): waiters are dispatched only
  by a release. If the last release finds the waiter inadmissible, because the
  model server has not freed its memory yet, it stays queued when the memory frees.
* `RecoversWhenEngineIsUp` (`ipc_lost_loop`): the receive loop looks at the
  transport after each response; if a write has failed meanwhile, the loop ends
  without reconnecting and the client stays `CONNECTED` and useless.

The modules state more that the code does not keep. TLC finds each violated when
it replaces the properties of the configuration named (without the symmetry):

* `EveryCallEnds` (`IpcLiveness.cfg` with `MayHang = TRUE`): `drain()` is outside the
  timeout.
* `PendingIsInFlight` (`IpcSafety.cfg`): a request cancelled while it is written stays
  in `_pending`.
* `FailsAsDocumented` (`IpcSafety.cfg`): the transport may be closed while a call waits
  for the write lock; the call ends in `AttributeError`.
* `CancelledActsNoMore` (`Tasks.cfg`): the token is read at the head of the loop and the
  tool runs after a revalidation and a confirmation.
* `AbortedForALoop` (`Tasks.cfg`): nothing resets the shared detector; after one loop
  every later task fails after its first step.
* `CompletedInManager` (`Tasks.cfg`): a task cancelled during its last step is returned
  as completed and kept as cancelled.
* `ActiveIsExecuted` (`Tasks.cfg`): a plan without an order, or with an unknown tool,
  raises outside the `try`; the task stays as it was and in `list_active`, so the
  scheduler takes the user to be active for ever.
* `RepetitionIsReal` (`Services.cfg`): the remembered output is not that of the previous
  attempt once one failed, so a call that recovers may count as repeated.
* `WindowIsKept` of `Confirm` (`Services.cfg`): reaching the limit clears the window and
  the cooldown is shorter, so a new burst falls into the same window, against
  `confirmation.py:118` ("at most max_prompts within a sliding window_seconds").
* `TimedOutWasShown` of `Confirm` (`Services.cfg`): with every thread of the pool
  reading for an ended request, a prompt times out before it is printed.
* `CancelledIsSilent` of `Overlapping` (`Reminders.cfg`): a reminder cancelled after it
  was read as due is dispatched all the same.
* `ConsumedWhenDue` of `Overlapping` (`Reminders.cfg`): the guard of the record compares
  the count of occurrences only, so one rescheduled between its dispatch and the record
  is used up at its new time, which never comes.
* `UserComesFirst` (`Reminders.cfg` with `PlanTicks = 2`, without the assumption): the
  scheduler has one token in hand; a plan that outlives the cooldown is no longer
  preempted once something else was dispatched. With the default limits (300 s of a
  plan, 1800 s of cooldown) it cannot.
* `NoStaleChunk` (`VoiceSession.cfg`): `interaction_core.py:43` says invalidating first
  "guarantees no stale chunk can be enqueued *after* the engine buffer is flushed"; the
  player is driven without a token and is cancelled only after the flush has been
  awaited, so it sends the next chunk behind it.
* `NoLeakedTurn` (`VoiceSession.cfg`): `interaction_core.py:1182` says `stop()` "never
  leaks tasks"; `_begin_turn` asks for `_stopping` before its barge-in and not after,
  and begins a turn `stop()` does not know of.
* `PriorityIsSpoken` of `Pipe` (`VoiceParts.cfg`): a priority announcement interrupts
  the turn and is then refused, because the pipeline is `INTERRUPTED`
  (`interaction.py:172-192`).
* `AgentStaysUsable` of `Agent` (`Services.cfg`): the program has one agent; after a
  model failure it stays `ERROR`, after a cancellation `TERMINATED`, and later requests
  raise.

Others follow from reading the models beside the code, and are not stated as properties:

* a crash between dispatch and record dispatches the occurrence once more in the next
  process (`told` is of one process);
* pipeline: a turn that is cancelled again while it cleans up (`pipeline.py:519`, `523`, `539`,
  `543`), or a barge-in, reset or announcement cancelled at its flush (`:261`), leaves the
  pipeline as it was, `LISTENING`, `PROCESSING` or `SPEAKING`, with nobody at work, and
  `run_turn` refuses until somebody resets it: `NeverLeftBusy` excepts it, and TLC finds it
  without `~cutOff`;
* voice session: the timer's task and the consumer may both barge in on one turn and
  orphan the new one; the watchdog skips a microphone that never delivered a frame;
* microphone: the pre-roll is not contiguous with the onset; a short segment is dropped
  after its start event; `start()` during the awaits of `stop()` leaves a poll loop
  running;
* model coordinator: `record_ready` on a busy model keeps its acquisitions, and the
  releases that follow raise; an eviction may unload a model loaded anew during its
  hook;
* providers: the model is assigned before it is set up (`tts.py:264`, `stt.py:323`), so
  a later load takes a half-made one for loaded; after a timeout two threads may share
  it;
* HTTP: a stream closed without `[DONE]` counts as a complete answer; `generate` drops a
  tool call whose arguments cannot be read where `stream` hands it over raw;
* web: the tool's limit equals that of each source, so a slow first source loses the
  others; results of the local engine displace the weather and may repeat;
* memory: `cleanup_expired` leaves vectors behind; a late upsert leaves an orphan
  (searches filter both). `schemas/memory.py:87` says that `expires_at` is in UTC, but only a
  time without an offset is taken for one (`:46-52`); another is kept with its offset, and
  SQLite compares the texts (`sqlite.py:305-312`, `353`, `365`). So a search that asks SQLite
  alone (no query text, no Qdrant, or a failure) returns what was written in the east for hours
  after it has expired, and `cleanup_expired` deletes what was written in the west hours before:
  TLC finds the first if `Gone` asks for the instant alone;
* vision: the privacy check and the grab are two steps, and the window may change
  between; `vision.ask` always reports the visual model (`tools/vision.py:356-360`), also when
  it fell back to text;
* application: the debug trace of a voice session is never closed (`main.py:116`); a
  stop that fails half way is taken for done when tried again;
* engine: a request answered Ok may have played nothing if a stop came before the sender
  was cloned; a stop while a stream opens does not stop the sound after it; of two
  concurrent `start_capture` the first loses its token, uncancelled, and the task that waits
  for it (`capture.rs:245-250`) stays as long as the process; a stop that comes between the
  token and the stream of a `start_capture` (`manager.rs:211-212`) leaves the stream open; the
  refusal of an oversized frame is written without a timeout; the shutdown does not wait for
  connections, and the runtime that `main` drops last waits without a limit for a blocking call
  (`main.rs:7`), so a device that does not open keeps the process.

## Proofs

`ResourceManagerProofs` proves, for all clients, roles, demands, readings and
limits that satisfy `ConstantsAssumption`:

* `TypeCorrect`: `Spec => []TypeOK`;
* `ExclusiveHeavyLease`: at most one heavy lease (`HeavyExclusion`);
* `LockFollowsLease`: lock and reservation agree with the leases (`LockMatchesLease`);
* `BudgetKept`: the ceiling (`WithinCeiling`);
* `Refinement`: `Spec => ImplementsExclusiveLease`.

The inductive invariant is `IInv == Typed /\ SlotInv`. Neither exclusion nor the
ceiling is inductive alone. `SlotInv` adds that a client that waits, is granted
or holds knows its demand, and that no heavy VRAM is on the books while the slot
is free (so a heavy admission, measured without the current heavy lease, is
measured against all of the books whenever it is granted). The step proof has a
lemma per action; arithmetic on the books is in lemmas about `Grant`, `TakeLock`
and `Settle`. The refinement maps the owners of heavy leases to owners and heavy
waiters to waiting, and uses exclusion to show that a grant finds the slot free.

`TaskExecutionProofs` proves, for all tasks, plans, tools and budgets:

* `TypeCorrect`; `ReportsAgree` (`EndsAsReported`); `WaitsForUser`
  (`WaitingIsForUser`); `StepsRunInOrder` (`StepsInOrder`);
* `TerminalStaysFinal` (`TerminalIsFinal`);
* `Refinement`: `Spec => ImplementsTaskLifecycle`.

Its inductive invariant `IInv` gives each task, besides its types, three facts:
`Standing` (which states go with which place in `execute()`, and that the token is
set exactly when the task was cancelled), `Progress` (while it waits, exactly the
steps before the present one are done and ran) and `Ordered` (the history). An
execution moves through one of the operators `Return`, `Fail`, `Raise`, `Await`,
`Attempt`, `Turn` or `Complete`; a lemma about each says it ends in an `Outcome`: a
state reachable along the matrix from where the task stood, and a place that
agrees with it. `OutcomeKeeps` then preserves the invariant once for all of them,
and the same outcome gives the step of `TaskLifecycle` and the finality of
terminal states.

The same module proves of `Planner`, with the invariant `PlanInv`,
`PlansAreOrdered` (`OrderIsRight`) for any plans
(`PlansAssumption`: finite sequences with at least one step): names may repeat,
dependencies may be missing, repeated or cyclic. Its invariant `Kahn` says what the
algorithm knows between two steps: `inDegree` counts the dependencies on steps not
in the order yet, those with none left are the ready ones and the ordered ones,
and a ready step listed before an ordered one depends on something ordered since.
That a plan refused for a cycle has one is a counting argument: the steps left each
wait for one of them, or two steps have one name.

`IpcClientProofs` proves, for any requests, however many of them are large or have
oversized answers, any number of attempts, and an engine that may hang or not
(`IpcAssumption`):

* `TypeCorrect`; `LinkHasOneOwner` (`OneOwnerOfTheLink`); `NobodyWaitsInVain`
  (`WaitersHaveReceiver`); `CloseIsFinal` (`ClosedIsQuiet`);
* `Refinement`: `Spec => ImplementsAtMostOnceCall`.

`OneOwnerOfTheLink` is not inductive: `connect()` looks at the state and not at
the receive task, so `Roles` adds that a receive task implies `CONNECTED` and that
one that closes has no pipe. At-most-once rests on the histories: a frame is in a
pipe once, a request whose frame is not yet written or not yet read was not
executed (`Frames`, `Executions`), and who waits for the write lock is in its queue
once (`LockQueue`).

`ReminderServiceProofs` proves, under `Bounds` (positive limits, finitely many
reminders, and a rate limit longer than a plan, as the defaults are):

* `DispatchedOnce` (`FiresAtMostOnce`), `DeferredStaysDue` (`NothingIsSkipped`): the
  invariant is that one tick is past the lock (`OneTick`), that its list has no
  reminder twice (`Lists`), that what was told of is being recorded or over
  (`ToldOnce`), and that what is still on the list has not been told and is the
  occurrence that was read, unless it was cancelled meanwhile (`Owed`);
* `PlansGiveWay` (`UserComesFirst`): the latest dispatch is no older than a plan
  under way, whose token therefore is the one in hand (`Recent`).

`Reminders.cfg` checks the same module: its setting "busy" is `ReminderService`
itself, and "told" and "quiet" are instances of it with other constants, of which
the theorems hold as well.

`VoiceSessionProofs` proves, for any number of utterances and sentences, with and
without the arbiter and the wake word (`BoundsAssumption`; `NoneAssumption`: the value for
"no turn" is no number):

* `TheGateIsOpened` (`GateHasAnOwner`), by `GateInv`: no turn is ahead of the epoch
  (`NoneAhead`), and a turn that was told to stop, or is waited for, is of an epoch that
  is over (`CancelledArePast`), so that the turn that unwinds without opening the gate
  is never the present one, whose end does open it;
* `TurnsRunOneAtATime` (`TurnsEndOnce`), by `TurnsInv`: without an arbiter only the
  consumer begins turns (`OnlyTheConsumer`), and it does so at the end of an utterance,
  whose start is before it in the queue (`StartsAndEnds`) and has ended the turn before;
  so the turn that runs is the active one, or nobody's while it is waited for
  (`ActiveAlone`), and what is open runs (`RecordedOnce`);
* `NothingIsAnsweredTwice` (`AnsweredOnce`), by `AnswersInv`, for both settings of the
  arbiter: an utterance is in one place at a time (`InOnePlace`): coming from the
  microphone, with the consumer or the candidate, with the timer's task, with the turns
  that may still pass it on, or answered. A barge-in keeps the sound of the turn it cuts
  off only while that turn is the active one (`KeptByOne`), and a turn that was answered
  is done (`AnsweredAreDone`).

A step of the module is first reduced to what the invariants ask of it: a turn's task
works on, answers, finishes or is over (`TurnEffects`), and the core invalidates an
epoch, begins a turn or does neither (`BeginTurnEffect`, `InvalidateEffect`); each of
the three arguments has one lemma per such effect. That epochs stop at `MaxEpoch` is a
guard of `NewTurn` that TLC never needs: an utterance moves the epoch on at most three
times.

`VoicePartsProofs` proves, of the composition `MCVoiceParts` and for any constants
(`SentenceAssumption`: a sentence need not be shorter than a clause, as in the
program, which is built with 20 and 15 characters):

* `SpeechIsOrdered` (`StreamImplementsOrderedStream`), for any number of sentences
  (`SizeAssumption`) and of syntheses at a time: `StreamInv` says that the slots hold
  the tasks in the order of their sentences (`Producing`), that both queues are in order
  with nothing but marks of the end behind the last (`InOrderSoFar`), that what was
  taken goes on in what waits (`GoesOn`), and that all still to come is behind what has
  passed the sequencer (`Past`). A sentence is known to be the last only once the
  producer has ended. Each step is then an `Emit` or the end of the abstract stream, or
  leaves it alone, for the caller (`Delivering`) and for the player (`Playing`);
* `UsableAgain` (`NeverLeftBusy`), wherever a turn, its clean-up or who interrupts it is
  cancelled: of a busy pipeline somebody is in charge: the turn of the present epoch, one that
  cleans up without having been cancelled again, or whoever interrupted them, unless a
  clean-up or a flush was cut off and no reset was completed since (`SomebodyInCharge`);
* `CompletedTurnsWereLeftAlone` (`CompletedUndisturbed`): a disturbed turn that does not
  know yet was told to cancel or has an epoch that is over (`EpochsPass`);
* `ListenersHearWholeUtterances` (`UtterancesAreWhole`): what a listener has heard of
  the utterance under way is what the loop has recorded of it, or it did not subscribe
  in time (`InStep`); needs `PreRollAssumption`;
* `TheLockStandsForTheModel` (`WholeModelsOneAtATime`): who has a thread holds the lock,
  and a model that can be used was made whole (`OneAtATime`, `Sound`);
* `ContextsAreTheirOwn` (`TurnsKeepTheirContext`): the referents and the history a new
  context copies come from turns there are (`ManagerInv`);
* `AnswersAreSpokenWhole` (`SpokenWhole`), for texts of any length, in deltas of any
  kinds of characters: `SentencesInv` says that the buffer is a tail of the text and that the pieces cover
  what is before it (`Covers`): each is written in the text behind the last, with only
  blanks between. `SaidAsWritten` says the same with where each piece ends computed from
  the text, which TLC can evaluate (`CoveredIsWritten`). What the loop over the
  sentences has passed and said after each character (`After`, `SaidBy`) are functions
  that `Recursion` shows to exist; that it never goes back (`LoopGoesOn`) and that what
  it says covers what it passes (`SpokenCovers`) is induction over the characters
  (`UpTo`). A first piece that ends with a word has the words that were counted
  (`WordsAreInThePiece`, by an injection).

`EnginePartsProofs` proves, of the composition `MCEngineParts`, for any requests and
sounds of any length (`PlaybackAssumption`: the resampler takes at least one sample, and "no
stream" is no request):

* `AcceptedSoundsArePlayed` (`AcceptedIsNotLost`), by `PlaysAll`, which says besides:
  only the current stream plays, and those being opened, which are empty (`OnePlays`);
  until silence is asked for, a request sends to the current stream, though it took the
  sender some steps before (`ToTheCurrent`); what has not been accepted is nowhere
  (`NotYetSent`). Then only two steps disturb what was taken and what waits: `Send` adds
  a sound that was nowhere, and `Bridge` moves the first that waits behind what has been
  taken (`TakesASound`), whatever the resampler keeps of it;
* `StopPlaybackSilences` (`StopSilences`): what was accepted before a stop is in no
  stream that plays (`Silenced`), since the one that did has lost its device with the
  controller.

`ServicesProofs` proves, of the composition `MCServices` and for any constants
(`UnregisteredAssumption`: the value for "not registered" is no record):

* `ModelUnderLease` (`ModelOnlyUnderLease`): with a governor nobody comes to the model
  from a look at the free memory (`WayToModel`), and one lease is out at most, held by who is
  at the model;
* `ForgottenStaysForgotten` (`ForgottenIsNotRecalled`): what was gone before a search began,
  deleted or expired both as an instant and as a text, is gone now, since the clock does not
  go back and only a new record brings it back (`StaleIsGone`); neither comparison lets it
  through;
* `BusyModelsAreSpared` (`BusyIsSpared`): a record counts its users (`RecordsAgree`);
* `RequestsLeaveNothingBehind` (`NothingLeftBehind`): for every place a request can be
  at, whose hook is installed and who has the lease (`HeldAt`);
* `NothingIsLeftUp` (`EverythingIsTakenDown`): what the shutdown has passed is not up
  and nothing comes up any more (`AppInv`);
* `EveryLoopIsFound` (`LoopsAreFound`), for any thresholds of at least two and over
  histories without the bound: as long as no reason is given, each counter is at least
  the length of the run of repetitions the history ends in, so a run that reaches the
  threshold has been judged;
* `SearchesAnswerWhatWasFound` (`WhatWasFoundIsAnswered`), under `WebAssumption` (at
  least one result may be asked for): a search that goes on has told nothing and has no
  results of SearXNG, whose answer ends it (`SearchSoFar`), and the addresses a hop may
  still try count against its bound (`HopSoFar`). That the loops over the results keep
  each URL once, all of them and the first one first (`KeptOf`), is induction over the
  results, told as a contradiction: `Least` gives the first turn of the loop of which it
  does not hold, and `KeepsOneMore` says there is none;
* `StreamsHandOverWhatWasMeant` (`AnswerIsWhatWasMeant`), under `HttpAssumption` (the
  index of a call is a natural number, as it is on the wire): while the stream goes on,
  the entry of each call is made of the fragments sent so far (`PutTogether`, kept by
  `FragmentMeans` for each kind of fragment), and the consumer has the texts so far and
  then the least of the calls (`Handed`); the call handed over next comes after those,
  being the least that is left (`CallIsHanded`).

In all three, a step of the composition is a step of one part or leaves it alone
(`EachPartByItself`), so each part has its own invariant and step proof, and the
theorem is about the whole behaviour.

Only model-checked, and why:

* liveness (`NobodyStarves`, `EndsAndRecovers`, `ExecutionsEnd`, `QuietRemindersFire`,
  `HearsAgain`, `StreamTasksEnd`, `EverythingStops`, `RequestsEnd`): fairness and
  `ENABLED` are out of the prover's reach.

## Plan

Twelve runs and forty properties are what the project allows itself, and eight
modules with theorems; a component that comes new is checked and proved about
together with its neighbours.

What is left is more of the parts of the system that `PROJECT.json` lists as partly
modelled; every invariant and action property of the runs has its theorem.

## Not modelled

Neural models and what surrounds their tensors; classification of text (router, wake
phrase, smart turn, path and secret rules, what the response policy's patterns match)
and the formatter, which the models leave open or do without; the planner's prompt,
whose answers are inputs of `Planner`, and the revalidator's screenshot, whose verdict
is an input of `TaskExecution`; tools that make one call each; operating-system calls
behind the engine's handlers, and its hotkeys, which are registered once; configuration,
logging, latency measurement, the audit log.
