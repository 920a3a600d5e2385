# TLA+ models of Newbro

Newbro lets a user talk to a *communication brain* that hands work to *bros*
(personas), each of which runs its tasks on an *executor* (Codex, acpx) that lives
on a detached *executor node*. The server keeps everything in an in-memory
blackboard and runs on one asyncio event loop; so does each node. This directory holds
models of the server's execution core, its notification pump, its conversation, drafts
and client stream, of the protocol between server and executor nodes, of the thread
timeline, and of the voice connector's sessions, with the TLC instances that check them
and TLAPS proofs of every safety property those instances check.

## The system

| Part | State | Operations | Talks to |
|---|---|---|---|
| Execution loop (`execution/reconcile.py`, `scheduler.py`, `assignment.py`) | one asyncio task, one coroutine per task | `tick`, `_execute_task`, failure and release paths | blackboard, hosted executor |
| Run and session managers (`run_manager.py`, `session_manager.py`) | runs, execution sessions, bindings | `create_run`, `apply_event`, `ensure_session` | blackboard |
| Session runtime (`runtime/session.py`) | pointers to the loops, message queue, drafts, subscribers | `apply_command`, `resolve_interaction_request`, `send_draft`, `schedule_execution`, `submit_message` | everything below it |
| Interaction manager (`interaction/manager.py`) | interaction requests, attention items | raise, resolve, cancel | blackboard writes |
| Executor node manager (`runtime/executor_node_manager.py`) | connections, run queues, request futures, file streams | register, disconnect, dispatch, cancel, answer, instruct, request, publish | nodes over a websocket |
| Node registry (`executors/node/registry.py`) | nodes and token hashes | create, verify, rotate, delete | node manager |
| Hosted executor (`executors/adapters/hosted`) | one reader per run | `run_task` | node manager |
| Executor node service (`executors/node/service.py`) | active runs, live sessions, subscriptions, background commands | receive loop, one handler per command | server, Codex or acpx |
| Codex and acpx adapters (`executors/adapters`) | sessions, the turn lock, thread queues | runs, follow-ups, direct turns, subscriptions | app server, child process |
| Notification pump (`notification/`, `session.py:2626`) | candidates, delivery state | build, gate, deliver, suppress | blackboard writes, communication brain |
| Communication brain (`communication/`) | conversation history, focus | turns, tools, corrections | language model |
| Drafts (`runtime/drafts.py`) | draft sessions and revisions | transcribe, revise, confirm, send, clear | session runtime |
| Direct executor (`runtime/direct_executor.py`, `direct_turn_starter.py`) | outbound turn requests | start a turn without a task, apply its events | node manager |
| Thread projection (`runtime/bro_detail_thread_*.py`) | selected subscriptions, listed and live turns | subscribe, merge, page | node manager |
| Session stream (`api/ws/stream.py`) | one queue per client | greet, broadcast, drain | session runtime |
| Voice connector (`connectors/`) | prepared and live sessions, bindings, pending turns | prepare, activate, coalesce, stop, sweep | Agora, Newbro's API |
| Mode manager, auth, observability, CLI, clients | | | |

What makes it hard: everything is interleaved at `await`s. A command sets a task's
status, suspends in a websocket send and goes on with objects it read before; events
an executor sent before a cancellation are read after it; a node is lost between the
registration of a run and the send of its dispatch; the execution loop ends by itself
and has to be started again by whoever makes a task runnable; a draft is revised, sent
and cleared while a model call rewrites it; one thread is told of by three unordered
sources; a node carries out some commands before it reads the next one; and one
coroutine that never returns stops every later task of the session.

`PROJECT.json` lists every part with its sources and what is modelled of it, and the
hazards of the code at their lines with the properties about them.

## Modules

| Module | Models |
|---|---|
| `RunProtocol` | statuses, executor events, what one event does to a task and a run (`RunManager.apply_event`) |
| `TaskExecution` | the execution core of one session; uses `RunProtocol` |
| `NotificationPump` | blackboard writes turned into questions and assistant messages, and the turns they yield to |
| `RequestReply`, `NodeControl` | what a caller is promised about a question to a node, and the node manager, registry and node service that keep it |
| `ThreadSubscriptions` | the selected thread of a bro, from the HTTP call to the Codex app server |
| `ThreadTimeline` | the timeline of one thread: direct turns, two event channels, history pages, merging |
| `RunInstructions` | text and audio instructions, cancellations and answers at the node's receive loop, and the Codex turn lock |
| `SessionStream`, `Drafts` | the client stream, and the drafts it shows; `Drafts` extends `SessionStream` |
| `Conversation` | the communication brain: focus, stop, continue, corrections, tools, notifications |
| `SpeechSessions`, `VoiceSessions` | the voice connector's speech-to-text sessions, and its voice sessions, bindings and coalescer |
| `MC…`, `MC_*.cfg` | small instances for TLC |
| `…Proofs` | inductive invariants, theorems and their proofs about the module of that name; `VoiceConnectorProofs` is about `VoiceSessions` and `SpeechSessions`, `BroThreadProofs` about `ThreadSubscriptions` and `ThreadTimeline` |

In all of them one action is the code between two *real* suspension points: what an
`await` of an uncontended lock or of the in-memory blackboard separates is one step, what
a network call, a model call, a queue or a spawned task separates is several. Actions
keep the names of the functions they model where a function is one step.

### TaskExecution

One action is the code between two *real* suspension points. The in-memory blackboard
takes an uncontended `asyncio.Lock` and never suspends, nor does the node registry, so
the only such points are: a websocket send, the wait for a run event, the wait for the
coroutines a tick gathered, and the start of a spawned asyncio task.

| State | Code |
|---|---|
| `task`, `run` | `Task.status`, `ExecutionRun.status`; the blackboard hands out shared objects, so a write is seen at once |
| `persona` | `Persona.status`, which `create_task` and `send_draft` check |
| `session` | `active_run_id`, `latest_run_id` of the bro's execution session, shared by its tasks through the continuity key |
| `binding` | `SessionBinding.binding_status` |
| `loop` | `_execution_task`: not running, about to tick, waiting for the gather |
| `co` | the coroutine of a task: none, spawned, in the dispatch send, reading events |
| `owed` | tasks whose writer calls `schedule_execution` only later, at the end of a conversation turn or in the draft route |
| `commands`, `answers` | commands and native answers suspended in their send |
| `request` | the interaction request of a run, from the blackboard write the pump has yet to see (`noted`) to its end |
| `connected`, `greeting` | `_connections_by_node`; nodes whose registration has not yet reached `handle_executor_node_connected` |
| `registered`, `queue` | `_run_states` and `_run_queues` |
| `remote` | what the node does with a run |

| Actions | Code |
|---|---|
| `CreateTask`, `SendDraft`, `ScheduleExecution` | the `create_task` tool, `send_draft`, `schedule_execution` |
| `Tick`, `EndTick` | `_run_execution_loop`, `ReconcileLoop.tick` before and after the gather |
| `FailUnknownExecutor`, `StartWithoutNode`, `StartDispatch`, `DispatchSent`, `DispatchFailed`, `ReadEvent`, `FinishRun` | `_execute_task` with `ensure_session`, `create_run`, `HostedExecutor.run_task`, `dispatch_run`, `apply_event`, `finish_run`, `_fail_execution_exception`, `_release_persona` |
| `StopTask`, `CommandSent`, `CommandSendFailed`, `RequeueTask` | `apply_command`: pause and cancel before and after their send, resume and retry |
| `IngestAgentEvent` | `ingest_agent_event` |
| `RaiseRequest`, `ResolveRequest`, `AnswerSent`, `AnswerSendFailed` | `handle_blackboard_write`, `resolve_interaction_request`, `supply_interaction_response` |
| `NodeStart`, `NodeEmit`, `Disconnect`, `Connect`, `NodeConnected` | the node service, `publish_run_event`, `disconnect`, `register_connection`, `handle_executor_node_connected` |

Abstractions. Payloads, summaries, attention items, execution details and resume
handles are left out; a resume handle matters only where it is invalid
(`InvalidHandle`: `_sync_executor_session` raises and the run fails). A task may name no
executor (`Unnamed`: `send_draft` found none to name, or `update_task` took it away); it runs
on the default one, but `requeue_waiting_executor_tasks` passes over it. Executors are
either ones that keep their turn open while they wait for an answer (`NativeTask`:
Codex approvals and questions) or ones that end it. A node reconnects a second after a
loss (`run_forever`), by when everything the loss woke has run: that is the guard
`Settled` of `Connect`.

### NotificationPump

The loop suspends in `asyncio.wait` and while the language model words a group; what
lies between (draining the subscription, both `handle_blackboard_write`s, the plan) is
not interrupted. It is modelled as several steps of the pump during which only time
passes (`Suspended` guards the others).

| State | Code |
|---|---|
| `events`, `other` | the pump's subscription: run and summary writes in order, and whether any other write (tasks, sessions, candidates, requests) is in it, which wakes the pump and is ignored |
| `wakeup`, `timer` | `_notification_wakeup`; the candidate whose due time the `asyncio.sleep` was set to |
| `cand`, `created`, `born`, `due` | delivery status of each candidate id, creation order (`created_at`), and whose merge window is over |
| `plan`, `group` | what is left of the adopted plan, and the group being worded |
| `said` | the assistant messages in the history that tell of a candidate |
| `inbox`, `sent`, `turn` | `_message_queue`, and `_active_assistant_turns > 0` |
| `task`, `attempts`, `run`, `live`, `needsInput`, `cancelling`, `muted`, `asked` | what the writers keep: tasks, runs, open streams, `needs_user_input` of the summary, cancel commands in their send, `suppress_communication_notifications`, pending interaction requests (number 0: raised from a summary) |

| Actions | Code |
|---|---|
| `StartRun`, `EndRun` | `create_run`; the last event of a stream with the summary after it |
| `CancelTask`, `CancelSent`, `RetryTask`, `AnswerRequest`, `DirectInput` | `apply_command`, `resolve_interaction_request`, `mark_direct_executor_input` |
| `SubmitMessage`, `StartTurn`, `EndTurn` | `submit_message`, `_communication_loop`, `_handle_message_request` |
| `WindowOver` | a completion's `_due_at` has passed; windows have one length, so in creation order |
| `PumpWakes`, `HandleWrite`, `Plan`, `EmitGroup` | `_notification_loop`, the two managers' `handle_blackboard_write`, `process_pending` with `NotificationPolicy.plan`, `_emit_group` with `emit_notification` |

The writers are coarser than in `TaskExecution`: one task per bro, no nodes, no pauses
(a pause writes a summary that asks for nothing), follow-up answers only (a native answer
writes no run or summary), and no external agent events, which write tasks alone.

### NodeControl and RequestReply

`NodeControl` has the node's token in the registry (`token`, `issued`), the registered
websocket (`conn`), the manager's maps of futures and file streams (`pending`, `future`,
`stream`), the callers, and per websocket the messages both ways. The node opens a second
websocket while the server may not have noticed the loss of the first; rotation and
deletion close a websocket and finish after that suspension. Questions of all kinds
(`list`, `turns`, `read`, `transcribe`, `file`) follow one pattern; a file is answered by
blocks and an end mark. Timeouts and cancelled callers may come at any moment, and so may
answers that are late.

`RequestReply` is the abstract specification: a question is put at most once, served at
most once and has one outcome, and an answer is heard only when the node has served it.
`KeepsPromise` says that `NodeControl` implements it under the mapping in that module.

### ThreadSubscriptions

The session keeps at most one selected subscription per bro (`selected`, under a lock per
bro), stops a replaced one in the background (`bg`), and gives up on one that timed out.
The node keeps contexts and resume tasks (`ctx`, `task`, `stopping`), and asks the app
server to stop a thread only when no other subscription has a queue for it (`queue`); the app
server has the threads it feeds (`feed`). After a lost websocket the node cleans up from
lists taken at that moment (`sweep`). `overrun`, `loose` and `late` record the cases the
properties except.

### ThreadTimeline

A turn is a script of items. Direct turns (`req`, `starter`) reach the timeline by
`codex_turn_event`s (channel A), everything on a subscribed thread by raw events (channel
B), and the past by pages that were read earlier than they are applied. Texts are what the
timeline may confuse: commentary, a partial answer, the final answer, a generic
completion, an error. `_merge_timeline_turn`, `upsert` and the projection are operators;
the loops over a page and over the entries are recursive functions (`Merged`, `Projection`,
`_timeline_turns_from_codex_thread`).

A turn may fail after any of its items, the final answer included. Scripts are any
sequences of items in which nothing but a user message or a plan follows
the final answer (`ScriptsAssumption`). The code relies on it: the generator of channel A
reports the last agent message as the answer (`codex/executor.py`, `_stream_turn_events`),
so narration after the final answer would replace it. `docs/protocol/codex-turn-streaming.md:13`
says "the durable assistant response. Exactly one per turn." `NilAssumption` says that the
absence of a value is none of the values.

### RunInstructions

The server sends an instruction to the active run of the thread or starts a turn for it.
The node's receive loop (`loop`, `down`) carries out instructions, cancellations and
answers before it reads on; `work` is what each run does at the node, and holds the lock
of the Codex session. A command that raises ends the connection. The app server may die at
any moment (`AppServerDies`): the sessions opened before keep its client (`severed`), their
requests raise or wait for ever, and a turn under way hears nothing more.

### SessionStream and Drafts

A client's queue holds references to snapshots: what it sees is the state when the sender
dumps it. `unsubscribe` cancels the snapshot pump when the last client leaves, and a client
that subscribes before the pump has ended gets none of its own (`session.py:794`, `:2473`,
`:2619`): `lapsed` records those clients, and `ShownAtRest` excepts what the pump would have
told them. A client that is lost while it is greeted leaves its queue subscribed
(`GreetingFails`, `leaked`), and from then on the pump is never cancelled. `Drafts` has the draft sessions with their revisions (`sess`, `active`), the
utterance handlers suspended in the classifier or the rewriter (`call`), the generation of
live transcripts, and the prompts spoken. The text of a draft is the set of utterances the
rewriter was given.

### Conversation

Tasks with their slots (what they mention), the focus (`focus`: the tasks named by the
latest assistant entry), the message queue, the turn and its phase, notifications being
worded. The language model's choices (which tool, with which text) are free, `control_task`
with all its commands included (preempt is a pause); stop, continue, status and corrections
are handled as the code does without it. Whether a task can be cloned depends on its
executor, which the initial tasks have or lack freely. `split` and `untold` record the cases
the properties except.

### SpeechSessions and VoiceSessions

`SpeechSessions`: prepared and live sessions, their age, the starts and leaves under way,
and sweeps, each with the list and the clock it began with. Time is an age per session.
`VoiceSessions`: the tables of registry, connector and service, the registry's lock, the
agent at Agora, activations and stops as sequences of steps each of which may fail, before
or after the called service did its work, and the turns in the coalescer. `astray` has the
activations whose agent runs unknown to every table, `later` the text submitted next after
each.

Definitions whose comment starts with *Fault* are what the code would be with a
plausible bug; no specification uses them. They show that the properties can fail.

## Runs

| Run | Instance | Distinct states | Shows |
|---|---|---|---|
| `commands` | one native task; pause, cancel, resume, retry, answers; node losses | 2,222,980 | types, no lost wakeup (follow-ups to answers included), no deaf reader, no running task without a reader |
| `cancel` | two tasks of one bro, one without a named executor and with an invalid handle, all events, three runs each; cancel | 142,347 | cancellation is final; nothing is asked about a cancelled task; a bro is busy while it has work, and has one task at a time |
| `live` | three tasks, two bros, one without a node, one unknown executor; fairness | 30,264 | one stream per task; every runnable task starts; every parked task whose node is back is requeued |
| `pump` | two tasks, one run and one user message each at most; fairness | 95,074 | no wake-up is lost; nobody is told twice; a settled cancellation leaves nothing pending; completions get candidates, and candidates are told or suppressed |
| `control` | a transcription and a file of two blocks, two websockets, two tokens | 474,652 | waiting callers stay reachable; downloads are whole; refinement of `RequestReply` |
| `subscriptions` | two calls, two threads, two subscriptions, one lost websocket, one event | 391,179 | no stray stream at the node or the app server; the selected subscription is streamed and its thread fed |
| `timeline` | one turn (narration and answer, plan, or question), two requests, one page, one gap | 1,279,530 | commentary is no answer; the final answer is shown at rest and stays; one bubble per turn |
| `drafts` | two utterances over four entry points, two clicks, one client | 2,699,014 | what was confirmed is sent; listed turns are in the draft; clients catch up; one prompt per revision |
| `conversation` | one drafted task, two messages, four tasks, three moves of runs and users; commands retry, pause, cancel | 2,009,317 | one live copy of a request; every created task is told |
| `speech` | three sessions; fairness | 354,159 | no unknown bot; only silent sessions are swept; silent ones are |
| `voice` | four activations, three prepared sessions, two turns | 3,606,001 | tables agree at rest; one binding per session; spoken text is posted |
| `instructions` | one Codex run, one acpx run, a text and an audio instruction, two questions, the app server dying at any moment; fairness | 512,919 | no run ends silently; one turn per thread; every instruction settles or is stranded by a dead app server |

Bounds. `MaxRuns` bounds the runs of a task: two are enough for a stale run beside a
current one, which is all any interaction between runs needs, because only the current
run has a coroutine; `cancel` has three. It shows up as a guard in every action that makes a task runnable
again (`CanRequeue`, and `Connect`, which does not happen when a task parked on the node
could not be requeued). `MaxQueue` bounds the executor events waiting in a queue; the
event of a disconnect is added beyond it, as the code's queues are unbounded. In the
pump, `MaxEvents` stops the writers while that many writes are unread (one action may add
two), and `MaxMessages` bounds the user messages: one is enough to defer a plan and to
interrupt one. In `control` two websockets are a lost one and its successor, two tokens an
old and a new one. In `subscriptions` two of each make a replacement, and the calls are
symmetric. In `timeline` a lag of three (`MaxLag`) lets one channel deliver the end of a
turn while the other still holds its partial answer; `Typed` says which requests a user
types, the other one exists only as the answer to a plan or a question. In `drafts` two
utterances make overlapping rewrites, two clicks a double send; a greeting that
fails counts as one of them. In `conversation` four
tasks are a drafted one, one the model makes, and their clones, and two
messages make a stop, a continuation or a correction follow the turn that made them; with
three messages and one move (6,365,286 states) the same invariants hold. In `speech` three sessions let a sweep be suspended in one
leave with another to come while a third starts; in `voice` two activations compete for
each of a named and a created session.

Deadlock is not checked: once the bounds are used up, and in the real system when nobody
asks for anything, everything rests.

Fairness. `ServerFairness` is weak fairness of every server step: the event loop runs
each ready callback, and a send returns or raises. `ExecutorFairness` adds that an
executor starts what it is sent and sooner or later ends its stream; the bound on the
queue can disable an emission again and again, hence strong fairness there. Users and
connections are never fair: nobody has to send a command, connect or disconnect.
The pump's `FairSpec` is weak fairness of the pump (the model answers or raises) and of
time, and strong fairness of the turns: the pump runs and suspends again and again, and
the event loop's ready queue is first in, first out. `CandidatesAreSettled` rests on the
bound on messages: a user who never stops talking defers notifications for ever, by design.
In `speech` time passes, the watchdog wakes, and a leave returns or raises (the HTTP client
has a time limit). In `instructions` both loops read what is there, processes and turns
end while their app server lives, and the waits for the user and for a transcription run
out, as their time limits say. Nothing is assumed of what waits for an app server that died:
`_stream_turn_events` has no time limit (`codex/executor.py:611`), so `Advances` and
`Proceeds` leave it out, and `InstructionsSettle` excepts the instructions it strands: the
turn of their own whose app server died, and the follow-up that holds the receive loop,
behind which no later command is read.

## Proofs

Every theorem holds for any values of the constants that satisfy the named `ASSUME` of its
module (sets disjoint, bounds natural numbers), unless a further assumption is named below.
Each rests on an inductive invariant: a lemma says that `Init` implies it, a lemma per
action (or per group of actions with one frame) that every step keeps it, and what a run
checks is read off it. Each invariant was model-checked on the run's instance before it was
proved.

`TaskExecutionProofs` proves `TypeCorrect` (`TypeOK`), `Wakeups` (`NoLostWakeup`),
`RunningTasksAreRead` (`RunningHasReader`), `ReadersAreWoken` (`NoDeafReader`) and
`StreamsAreOwned` (`NoOrphanStream`, `OneStreamPerTask`). None of these is inductive alone.
`Inv` adds: a coroutine about to create a run has room for it (`Budget`), a task that does
not exist has no runs and no coroutine (`AbsentIsFresh`), coroutines exist only inside a
gather (`CoroutinesAreGathered`, the fact that makes a second stream impossible), a reader
has a run (`StreamHasRun`), and a registered run belongs to a connected node
(`RegisteredIsConnected`). The lemmas about `LoseConnection`, `FollowUp` and `Complete` are
shared by the actions built from them.

Its second part has the properties of `cancel`: `BrosStayBusy` (`PersonaBusyWhileActive`),
`OneTaskPerBro` (`OneActiveTaskPerPersona`), `CancelledAsksNothing`
(`NoQuestionForCancelled`) and `CancelIsFinal` (the action property `CancelSticky`). They
assume `OnlyCancels`: no command but cancellations is issued. The code needs it, because a
retry, a pause, an agent event and the follow-up of an answer bring a task back without a
look at its bro, and the run `cancel` has the same restriction. `CancelIsFinal` also assumes
that every executor type is known, for the reason given at the end of the next section. `CancelInv`
calls a task engaged while it is unfinished or its coroutine runs, and says that an
engaged task's bro is busy and has no other engaged task (`EngagedIsBusy`, `OneEngaged`);
that the run a command would find is the one being read (`ReadersAreShown`); and that a
question is open only once the coroutine has ended, while its run is still the one
a cancellation ends (`BlockedWaits`, `QuestionsAreAtRest`).

`NotificationPumpProofs` proves `PumpTypeCorrect` (`TypeOK`), `NoLostWakeup`
(`DeliveryIsComing`), `CancelSettles` (`SettledCancel`) and `NeverToldTwice` (`ToldOnce`).
Its `IInv` adds: the timer of a pump that nothing else will wake stands for the oldest
pending completion (`TimerInv`; with windows of one length it is then due whenever any
other is), a cancelled task whose summary asks for input is still in its cancel command
(`SummaryInv`, needed because `build_from_summary` does not look at the task's status), and
only candidates nobody was told of are pending or planned (`SaidInv`).

`NodeControlProofs` proves `WaitersStayReachable` (`WaitersAreReachable`),
`DownloadsStayWhole` (`DownloadsAreWhole`) and `ImplementsRequestReply` (`KeepsPromise`, the
refinement). `IInv` says where a question and what tells of it can be: once on its way to
the node and then not yet served (`DownInv`), every answer, block and command only of served
questions (`ServedInv`), the blocks of a file over one websocket (`OneSocket`), and those
blocks in order, the reader's queue going on where the reader stands and the websocket where
the queue ends (`OrderInv`). The refinement maps each action to the step of `RequestReply` it
takes or to a stutter; that a question is put and served at most once comes from `DownInv`.

`BroThreadProofs` has two parts. About `ThreadSubscriptions` it proves `NoStrayStreams`
(`NoStrayStream`) and `SelectedIsServed` (`SelectedIsStreamed`). `IInv` is about what is still under way: the stop of every
subscription that is not selected is to be sent, or will come with the loss of the
websocket, or is behind every request that could set the subscription up at the node
(`StopInv`, over the two queues to the node); whatever is being stopped was given up and will
not be selected again (`StoppedIsPast`); and the selected one is on its way or served
(`ServedInv`). `WireInv` says what a loss leaves: contexts that a command set up during
the cleanup (`late`), and nothing else, survive it. When all queues are empty the properties follow.
`GiveUp` is the one argument for a timeout, an unsubscription, a closed thread and a
replaced subscription. `FeedsInv` is about the app server: the thread of
a subscription whose queue is up is fed, with no request to stop it on the way behind the
subscription's own resume, unless another's stop was sent while it resumed (`overrun`); and a
thread that is fed has a queue or a request to stop it on the way, unless it is `loose`.

About `ThreadTimeline` it proves `TimelineInvariant`, `TimelineOneBubble`
(`OneBubblePerTurn`), `TimelineCommentary` (`CommentaryIsNoAnswer`), `TimelineAnswer`
(`AnswerAtRest`) and `TimelineSettled` (the action property `SettledStays`). The sources are
unordered, so what they carry must be true of a turn for good, or it would be false by the
time it is merged: a message that reports a completion tells of a turn that has completed,
with its final answer if it gave one (`GoodMessage`, `GoodEvent`, `GoodPage`), and so does
every entry of the list (`GoodTurn`). On that rest the four properties:

* One bubble: no two entries have the same turn id or the same executor turn (`Apart`), and a
  client id belongs to the executor turn of its request, or to a request that will never have
  one (`Dead`). Then the projection joins nothing and clients are sent the list as it is
  (`ProjectionIsTurns`).
* Commentary: of a turn that was heard in full, the start of a commentary item precedes its
  deltas on channel B or has been read (`CommentaryStarts`), so a delta is never taken for an
  answer.
* The answer: once channel B has passed the final answer, or some source has told of the end of
  the turn, an entry shows it (`HeardIsShown`, `ToldIsShown`); channel B says nothing of a turn
  after its end (`EndIsLast`).
* It stays: `InsertKeeps` says which merges leave a shown answer shown, and the loops over a
  page merge one turn after the other (`MergeAllGood`, `PageMerge`). The exceptions are the
  page read while the turn was in flight (the history variable `stale`), and the app server's
  own report that the turn failed after its answer (`FailureNext`).

What a loop yields for a list of any length is proved without the library's induction
theorems, which take the property as a parameter: a least number at which a property fails
(`Least`, from well-foundedness of `<`) gives induction up to a bound for a set (`Climb`),
and from it that a function on `0..n` obeys the recursion (`ReachesExists`), which a recursive
definition alone does not say.

`RunInstructionsProofs` proves `RunsEndHeard` (`NoSilentEnd`) and `NoSecondTurn`
(`OneTurnPerThread`). `IInv`: a run that has said something has it in the inbox of whoever
reads it (`HeardInv`), the first event that ends the thread's run for the server was sent
when its work was over, or the run was cut (`OverInv`), follow-ups have turns of their own
only after the run's (`NodeInv`), and the server asks for such a turn only when the thread has no
active run (`OwnTurnInv`).

`DraftsProofs` proves `SentAsShown` (`ConfirmedIsSent`), `NoTurnLost` (`TurnsAreInDraft`),
`ClientsCatchUp` (`ShownAtRest`) and `NoRepeatedPrompt` (`PromptedOncePerRevision`). `IInv`:
whatever names the present revision of a draft, in a client, a greeting or a request, has
its text (`ViewsInv`); a rewrite that nobody overtook was given all its draft holds
(`CallsInv`); what was prompted for is a revision that has been (`SaidInv`); and the last
event in a queue tells how things are (`StreamInv`).

`VoiceConnectorProofs` has two parts. About `VoiceSessions` it proves
`TablesStayInAgreement` (`TablesAgree`), `NoDoubleBinding` (`OneBindingPerSession`) and
`NoSpeechLost` (`SpokenIsPosted`). `TablesInv` has, for each stage of an activation and of a
stop, which tables know the binding; `SessionsInv` says that the sessions which bindings and
prepared sessions name exist, so that a session made by a later activation is nobody's yet;
`TurnsInv` says whose turn is pending and which one a stop flushes. `SpokenInv` says that a text
which gave way did so to another text of its session, the one the history `later` names.
Together they follow each single text: it waits, is being posted, was posted or refused, or
gave way to a later one. About `SpeechSessions` it proves
`NoUnknownBot` (`BotsAreKnown`) and `SweepsSpareTheLiving` (the action property
`OnlySilentAreSwept`): what a sweep has yet to stop is still silent, since a heartbeat takes
it out of the sweep and no session is started twice (`TodoIsExpired`), and a sweep is
replaced by nobody but its maker (`SweepHasOwner`).

`ConversationProofs` proves `ConversationInvariant`, `OneLiveCopyHolds` (`OneLiveCopy`) and
`CreatedIsToldHolds` (`CreatedIsTold`). Two active tasks of one request are one that the
correction under way has yet to cancel, and its clone (`OneCopy`, `Due`); a focus that a turn
left, rather than a notification, is on a task from which no other active one took over, since
a turn that copies a task ends by focusing the copy (`FocusInv`, `Latest`); what a stop cancels, and what a correction
has made, are the latest of their requests (`TurnInv`); and a task that was made is told,
or lost with a turn that failed, or the turn's still to tell (`ToldInv`, `Untold`). Every
step that makes no task is an instance of one lemma (`CalmStep`); those that make tasks are
`GrownStep`, `Cloned` and `MadeAnew`. A command, of a user or of the model's `control_task`,
makes an ended task active again only together with an entry in `split` (`Controlled`).

Only model-checked: liveness under fairness (`RunnableTasksStart`, `ParkedTasksResume`,
`CandidatesAreSettled`, `CompletionsAreNoted`, `SilentIsStopped`, `InstructionsSettle`), which is outside the prover.
Every other property of a run is the statement of a theorem.

## Differences between documents and code

Met while modelling; the models have the code's behaviour, and where a property would be
false because of one it names the exception.

* A task cancelled before it runs, or while it waits, leaves its bro busy
  (`session.py:1966`, `reconcile.py:150`); `docs/rfcs/0006-user-defined-persona-system.md:163`:
  "Persona goes idle immediately and is available for new tasks."
* An event read after a pause overwrites it (`run_manager.py:63`);
  `docs/architecture/execution-brain.md:60`.
* After a native answer the server no longer listens to the run
  (`executors/adapters/hosted/executor.py:84`);
  `docs/protocol/interaction-request-and-attention.md:261`: "the same live Codex session
  continues the same turn".
* Later groups of a notification plan are begun although the user talks
  (`notification/manager.py:140`), and a candidate suppressed during its wording is marked
  emitted (`manager.py:158`); `docs/architecture/notifications-and-interruptions.md:49-50`.
* A summary write handled late raises a second request for one block
  (`interaction/manager.py:64`); `docs/protocol/interaction-request-and-attention.md:163-165`.
* A turn shown completed runs again after a page that holds only its user message
  (`bro_detail_thread_helpers.py:638`); `docs/protocol/codex-turn-streaming.md:34`.
* A rewrite in flight makes a sent draft the active one again (`drafts.py:329`);
  `docs/protocol/draft-to-execute.md:329`.
* A turn that fails after its final answer shows the error text instead of the answer
  (`codex/executor.py:636`, `bro_detail_thread_helpers.py:1231`);
  `docs/protocol/codex-turn-streaming.md:34`.
* One failed leave ends the speech watchdog for good (`stt_service.py:294`);
  `docs/protocol/draft-to-execute.md:149-151`.

Other behaviours a reader may not expect, noted under `hazards`: a retry gives a bro a
second active task; a failed native answer requeues a task cancelled meanwhile; a new task
waits for the runs of other bros; a follow-up instruction keeps the node from reading the
answer its run waits for until the wait runs out, and for ever if the app server dies under
the turn it waits for or for its own; a cancelled Codex run's turn works on in
the shared app server; a run whose app server died is read for ever by the server; a stop of
a voice session that raises half-way keeps its Newbro session bound; a start whose answer is
lost leaves its agent at Agora, known to nobody, until Agora ends it; an older text of a
voice session may replace a newer one in the coalescer, when its partial is answered later;
the model's `control_task` may retry or pause a task that a correction has replaced, which
then lives beside its copy; a subscription that resumes while another one of its thread is
being stopped may end up with a stream the app server does not feed, and one cancelled while
it resumes leaves the app server streaming to nobody; a task that names no executor and parks
is never requeued; a client lost while it is greeted leaves its queue in `subscribers`; a task of an unknown executor type that is cancelled between the claim of
the task and the start of its coroutine ends as failed, because `_fail_unknown_executor`
(`reconcile.py:93`) writes the status it decided on without looking again.

## Not modelled

* What language models say, the wording of messages and items, logging, configuration,
  the command line and the clients: data and presentation.
* The execution mode manager: three labels chosen by run status and elapsed time, which no
  modelled step reads.
* Public auth and ownership: one request and one answer over a store.
* Message schemas, JSON-RPC framing and REST payloads.
* In the timeline: turns of tasks, matching of a request by heuristics, native reasoning
  steps, timestamps and sorting.
* In the registry and the node manager: the YAML file and its failures, lists for the API.
* In the voice connector: two concurrent stops of one binding, typed events, shutdown (with
  `close` of the coalescer), the failure of a watcher, and the end of an agent by Agora's own
  idle limit.
* In `RunInstructions`: events that do not end a stream, and connection losses other than
  by a raising command; those are in `TaskExecution`, `NodeControl` and
  `ThreadSubscriptions`.
* The death and restart of the Codex app server outside `RunInstructions`: in
  `ThreadSubscriptions` (where `_close_app_session` forgets every queue) and in
  `ThreadTimeline` it lives.
* In `TaskExecution`: `update_task`, which may change the executor of a task under way.

## Plan

The modules above cover the system's own state machines, and the safety properties the runs
check are proved. What would add most next: properties for the hazards that have none (a follow-up
queued after an awaited send, a long run that holds the gather, a bro freed at one place
only), each of which needs the code's intent to be settled first; and in `ThreadTimeline` the
turns of tasks, which share the projection with direct turns.
