--------------------------- MODULE TaskExecution ---------------------------
(***************************************************************************)
(* The execution core of one runtime session: the execution loop and its   *)
(* per-task coroutines (ReconcileLoop), the task commands that race with   *)
(* them (SessionRuntime.apply_command, resolve_interaction_request), and   *)
(* the run streams that HostedExecutor and ExecutorNodeManager keep for    *)
(* the executor nodes.                                                     *)
(*                                                                         *)
(* Everything runs on one asyncio event loop and the in-memory blackboard  *)
(* never suspends, so one action is the code between two real suspension   *)
(* points: a websocket send, a wait for a run event, the wait for the      *)
(* gathered coroutines of a tick, and the start of a spawned task.         *)
(***************************************************************************)
EXTENDS Naturals, Sequences, RunProtocol

CONSTANTS
    Task,             \* the tasks of the session
    Persona,          \* the bros; the tasks of one bro share its execution session
    PersonaOf,        \* the bro each task is assigned to
    Node,             \* the executor nodes
    Unbound,          \* stands for a bro without an executor node
    NodeOf,           \* the node a bro is bound to, or Unbound
    UnknownExecutor,  \* the tasks whose executor type is not in the registry
    Unnamed,          \* the tasks that name no executor and run on the default one
    InvalidHandle,    \* the tasks whose executor reports an invalid resume handle
    NativeTask,       \* the tasks whose executor waits for the answer to its question
    Commands,         \* the kinds of user command issued
    Emits,            \* the event types executors emit
    MaxRuns,          \* bound: runs per task
    MaxQueue          \* bound: executor events waiting in one run queue

CommandKind == {"pause", "cancel", "resume", "retry", "answer", "agent_event"}

ASSUME ConstantsAssumption ==
    /\ PersonaOf \in [Task -> Persona]
    /\ Unbound \notin Node
    /\ NodeOf \in [Persona -> Node \cup {Unbound}]
    /\ UnknownExecutor \subseteq Task
    /\ Unnamed \subseteq Task
    /\ InvalidHandle \subseteq Task
    /\ NativeTask \subseteq Task
    /\ Commands \subseteq CommandKind
    /\ Emits \subseteq EventType \ {"waiting_executor"}
    /\ MaxRuns \in Nat \ {0}
    /\ MaxQueue \in Nat \ {0}

\* The k-th run of task t.
Run == Task \X (1 .. MaxRuns)
NoRun == <<>>
TaskNode(t) == NodeOf[PersonaOf[t]]

VARIABLES
    task,        \* task status
    persona,     \* "idle" or "busy", the display cache create_task checks
    run,         \* run status
    attempts,    \* how many runs each task has had
    session,     \* the bro's execution session: its active and its latest run
    binding,     \* the task's SessionBinding status
    loop,        \* the execution task: "idle", "ready" to tick, "gathering"
    co,          \* the _execute_task coroutine of each task
    owed,        \* tasks whose writer has yet to call schedule_execution
    commands,    \* pause and cancel commands waiting for their node send
    request,     \* the interaction request of each run
    answers,     \* requests whose native answer is being sent
    connected,   \* nodes in _connections_by_node
    greeting,    \* registered nodes whose tasks have not been requeued yet
    registered,  \* runs in _run_queues and _run_states
    queue,       \* the events each run's reader has yet to take
    remote       \* what the node is doing with each run

vars == <<task, persona, run, attempts, session, binding, loop, co, owed, commands,
          request, answers, connected, greeting, registered, queue, remote>>

\* The parts of the state that belong together in UNCHANGED clauses.
boardVars  == <<task, persona, run, attempts, session, binding>>
loopVars   == <<loop, co, owed>>
askVars    == <<request, answers>>
nodeVars   == <<connected, greeting, registered, queue, remote>>

Command == [kind: {"pause", "cancel"}, task: Task, run: Run]

-----------------------------------------------------------------------------
(* Helpers *)

CurrentRun(t) == <<t, attempts[t]>>

\* The run RunManager.create_run gives to t next.
NewRun(t) == <<t, attempts[t] + 1>>

Bro(r) == PersonaOf[r[1]]

\* Fault: schedule_execution starts a loop although one is gathering.
ScheduledTwice(l) == "ready"

\* SessionRuntime.schedule_execution: one loop at a time.
Scheduled(l) == IF l = "idle" THEN "ready" ELSE l

\* Bound: a further run of t stays within MaxRuns.
CanRequeue(t) == attempts[t] < MaxRuns

\* SessionRuntime._select_command_run on the session t is bound to.
SelectCommandRun(t) ==
    LET s == session[PersonaOf[t]] IN
    IF attempts[t] = 0 THEN NoRun
    ELSE IF s.active # NoRun /\ run[s.active] \in CommandableRun THEN s.active
    ELSE IF s.latest # NoRun /\ run[s.latest] \in CommandableRun THEN s.latest
    ELSE NoRun

\* ReconcileLoop._release_persona.
ReleasePersona(t) ==
    IF \E u \in Task \ {t} : PersonaOf[u] = PersonaOf[t] /\ task[u] \in ActiveTask
    THEN persona
    ELSE [persona EXCEPT ![PersonaOf[t]] = "idle"]

\* A binding whose claim has been given up, where there is one.
Unclaim(t, status) ==
    IF binding[t] = "none" THEN binding ELSE [binding EXCEPT ![t] = status]

ClearActive(p, r) ==
    IF r # NoRun /\ session[p].active = r
    THEN [session EXCEPT ![p].active = NoRun]
    ELSE session

RunsOf(n) == {r \in registered : NodeOf[Bro(r)] = n}

\* Fault: the runs are forgotten without waking their readers.
ForgetReaders(n) == queue

\* ExecutorNodeManager._handle_node_disconnected: every reader is woken.
WakeReaders(n) ==
    [r \in Run |-> IF r \in RunsOf(n) THEN Append(queue[r], "waiting_executor") ELSE queue[r]]

\* What the node makes of its runs once the control connection is gone.
DropRemote(n) == [r \in Run |-> IF NodeOf[Bro(r)] = n THEN "none" ELSE remote[r]]

\* Fault: a lost node is still greeted.
KeepGreeting(n) ==
    /\ connected' = connected \ {n}
    /\ queue' = WakeReaders(n)
    /\ registered' = registered \ RunsOf(n)
    /\ remote' = DropRemote(n)
    /\ UNCHANGED greeting

\* ExecutorNodeManager.disconnect, and the node's own cleanup of its runs.
LoseConnection(n) ==
    /\ connected' = connected \ {n}
    /\ greeting' = greeting \ {n}
    /\ queue' = WakeReaders(n)
    /\ registered' = registered \ RunsOf(n)
    /\ remote' = DropRemote(n)

-----------------------------------------------------------------------------
Init ==
    /\ task = [t \in Task |-> "absent"]
    /\ persona = [p \in Persona |-> "idle"]
    /\ run = [r \in Run |-> "none"]
    /\ attempts = [t \in Task |-> 0]
    /\ session = [p \in Persona |-> [active |-> NoRun, latest |-> NoRun]]
    /\ binding = [t \in Task |-> "none"]
    /\ loop = "idle"
    /\ co = [t \in Task |-> "none"]
    /\ owed = {}
    /\ commands = {}
    /\ request = [r \in Run |-> "none"]
    /\ answers = {}
    /\ connected = {}
    /\ greeting = {}
    /\ registered = {}
    /\ queue = [r \in Run |-> <<>>]
    /\ remote = [r \in Run |-> "none"]

-----------------------------------------------------------------------------
(* Creating tasks and starting the loop *)

\* Fault: a busy bro is given a task.
AnyBro(t) == TRUE

\* Both ways to create a task refuse a busy bro.
MayAssign(t) == persona[PersonaOf[t]] = "idle"

\* The bro is marked busy.  The conversation turn or the draft route calls
\* schedule_execution later, after more awaits.
NewTask(t, status) ==
    /\ task[t] = "absent"
    /\ MayAssign(t)
    /\ task' = [task EXCEPT ![t] = status]
    /\ persona' = [persona EXCEPT ![PersonaOf[t]] = "busy"]
    /\ owed' = owed \cup {t}
    /\ UNCHANGED <<run, attempts, session, binding, loop, co, commands, askVars, nodeVars>>

\* The create_task tool, which insists on an executor type the registry knows.
CreateTask(t) == t \notin UnknownExecutor /\ NewTask(t, "created")

\* SessionRuntime.send_draft, which does not.
SendDraft(t) == NewTask(t, "queued")

ScheduleExecution(t) ==
    /\ t \in owed
    /\ owed' = owed \ {t}
    /\ loop' = Scheduled(loop)
    /\ UNCHANGED <<boardVars, co, commands, askVars, nodeVars>>

RunnableTasks == {t \in Task : task[t] \in Runnable}

\* AssignmentManager.claim_task: one worker, so every claim succeeds.
Claimed == [t \in Task |-> IF t \in RunnableTasks THEN "claimed" ELSE binding[t]]

\* _run_execution_loop and ReconcileLoop.tick up to the gather: claim every
\* runnable task and spawn its coroutine, or leave the loop.
Tick ==
    /\ loop = "ready"
    /\ IF RunnableTasks = {}
       THEN loop' = "idle" /\ UNCHANGED <<co, binding>>
       ELSE /\ loop' = "gathering"
            /\ co' = [t \in Task |-> IF t \in RunnableTasks THEN "start" ELSE co[t]]
            /\ binding' = Claimed
    /\ UNCHANGED <<task, persona, run, attempts, session, owed, commands, askVars, nodeVars>>

\* The gather returns once every coroutine of the tick has.
Gathered == \A t \in Task : co[t] = "none"

EndTick ==
    /\ loop = "gathering"
    /\ Gathered
    /\ loop' = "ready"
    /\ UNCHANGED <<boardVars, co, owed, commands, askVars, nodeVars>>

-----------------------------------------------------------------------------
(* The coroutine of one task: ReconcileLoop._execute_task *)

FailUnknownExecutor(t) ==
    /\ co[t] = "start"
    /\ t \in UnknownExecutor
    /\ task' = [task EXCEPT ![t] = "failed"]
    /\ binding' = [binding EXCEPT ![t] = "released"]
    /\ co' = [co EXCEPT ![t] = "none"]
    /\ UNCHANGED <<persona, run, attempts, session, loop, owed, commands, askVars, nodeVars>>

\* dispatch_run finds no connected node: the run waits for its executor, and
\* the coroutine finishes without having suspended.
StartWithoutNode(t) ==
    LET r  == NewRun(t)
        st == ApplyEvent([task |-> task[t], run |-> "assigned"], "waiting_executor")
    IN  /\ co[t] = "start"
        /\ t \notin UnknownExecutor
        /\ TaskNode(t) \notin connected
        /\ attempts' = [attempts EXCEPT ![t] = @ + 1]
        /\ task' = [task EXCEPT ![t] = st.task]
        /\ run' = [run EXCEPT ![r] = st.run]
        /\ session' = [session EXCEPT ![PersonaOf[t]] =
                          [active |-> IF st.run = "waiting_executor" THEN NoRun ELSE r,
                           latest |-> r]]
        /\ binding' = [binding EXCEPT ![t] =
                          IF st.run = "waiting_executor" THEN "released" ELSE "active"]
        /\ co' = [co EXCEPT ![t] = "none"]
        /\ UNCHANGED <<persona, loop, owed, commands, askVars, nodeVars>>

\* dispatch_run registers the run and starts to send it to the node.
StartDispatch(t) ==
    LET r == NewRun(t)
    IN  /\ co[t] = "start"
        /\ t \notin UnknownExecutor
        /\ TaskNode(t) \in connected
        /\ attempts' = [attempts EXCEPT ![t] = @ + 1]
        /\ run' = [run EXCEPT ![r] = "assigned"]
        /\ session' = [session EXCEPT ![PersonaOf[t]] = [active |-> r, latest |-> r]]
        /\ binding' = [binding EXCEPT ![t] = "active"]
        /\ co' = [co EXCEPT ![t] = "dispatching"]
        /\ registered' = registered \cup {r}
        /\ UNCHANGED <<task, persona, loop, owed, commands, askVars, connected, greeting, queue, remote>>

\* The send returns.  It reached the node unless the connection was lost.
DispatchSent(t) ==
    LET r == CurrentRun(t)
    IN  /\ co[t] = "dispatching"
        /\ co' = [co EXCEPT ![t] = "reading"]
        /\ remote' = IF r \in registered THEN [remote EXCEPT ![r] = "starting"] ELSE remote
        /\ UNCHANGED <<boardVars, loop, owed, commands, askVars, connected, greeting, registered, queue>>

\* The send raises on a live connection, which the manager then drops.
DispatchFailed(t) ==
    /\ co[t] = "dispatching"
    /\ CurrentRun(t) \in registered
    /\ co' = [co EXCEPT ![t] = "reading"]
    /\ LoseConnection(TaskNode(t))
    /\ UNCHANGED <<boardVars, loop, owed, commands, askVars>>

\* An event that does not end the stream.
ReadEvent(t) ==
    LET r  == CurrentRun(t)
        st == ApplyEvent([task |-> task[t], run |-> run[r]], Head(queue[r]))
    IN  /\ co[t] = "reading"
        /\ queue[r] # <<>>
        /\ Head(queue[r]) \notin TerminalEvents
        /\ task' = [task EXCEPT ![t] = st.task]
        /\ run' = [run EXCEPT ![r] = st.run]
        /\ queue' = [queue EXCEPT ![r] = Tail(@)]
        /\ UNCHANGED <<persona, attempts, session, binding, loopVars, commands, askVars,
                       connected, greeting, registered, remote>>

(***************************************************************************)
(* The event that ends the stream, and the rest of the coroutine:          *)
(* finish_run, the parking of a run that waits for its executor, and the   *)
(* release of the bro.  _sync_executor_session raises on an invalid resume *)
(* handle, and _fail_execution_exception runs instead.                     *)
(***************************************************************************)
FinishRun(t) ==
    LET r    == CurrentRun(t)
        bad  == t \in InvalidHandle
        last == ApplyEvent([task |-> task[t], run |-> run[r]], Head(queue[r]))
        st   == IF bad THEN ApplyEvent(last, "failed") ELSE last
        park == ~bad /\ st.run = "waiting_executor"
    IN  /\ co[t] = "reading"
        /\ queue[r] # <<>>
        /\ Head(queue[r]) \in TerminalEvents
        /\ task' = [task EXCEPT ![t] = st.task]
        /\ run' = [run EXCEPT ![r] = st.run]
        /\ session' = IF park THEN [session EXCEPT ![PersonaOf[t]].active = NoRun] ELSE session
        /\ binding' = IF park \/ bad THEN [binding EXCEPT ![t] = "released"] ELSE binding
        /\ persona' = IF bad \/ st.run \in FinishedRun THEN ReleasePersona(t) ELSE persona
        /\ co' = [co EXCEPT ![t] = "none"]
        /\ registered' = registered \ {r}
        /\ queue' = [queue EXCEPT ![r] = <<>>]
        /\ request' = IF st.run = "blocked" THEN [request EXCEPT ![r] = "noted"] ELSE request
        /\ UNCHANGED <<attempts, loop, owed, commands, answers, connected, greeting, remote>>

-----------------------------------------------------------------------------
(* Task commands: SessionRuntime.apply_command *)

\* The rest of a pause once the node has been told, if it had to be.
CompletePause(t, r) ==
    /\ run' = IF r = NoRun THEN run ELSE [run EXCEPT ![r] = "paused"]
    /\ binding' = Unclaim(t, "paused")
    /\ UNCHANGED <<session, request>>

\* Fault: the pending questions of a cancelled task stay open.
KeepRequests(t) == request

\* InteractionManager.cancel_requests_for_task.
CancelRequests(t) ==
    [r \in Run |-> IF r[1] = t /\ request[r] = "pending" THEN "cancelled" ELSE request[r]]

\* The rest of a cancellation.
CompleteCancel(t, r) ==
    /\ run' = IF r = NoRun THEN run ELSE [run EXCEPT ![r] = "cancelled"]
    /\ session' = ClearActive(PersonaOf[t], r)
    /\ binding' = Unclaim(t, "released")
    /\ request' = CancelRequests(t)

Complete(kind, t, r) ==
    IF kind = "pause" THEN CompletePause(t, r) ELSE CompleteCancel(t, r)

\* The API routes call schedule_execution after a command, a spoken stop does not.
PerhapsScheduled == loop' \in {loop, Scheduled(loop)}

\* validate_task_command for a pause, which a task that names no executor takes
\* only before its runs and during them.
MayPause(t) ==
    \/ task[t] \in Runnable
    \/ t \notin UnknownExecutor \cup Unnamed
    \/ t \in Unnamed /\ attempts[t] > 0 /\ run[CurrentRun(t)] \in CommandableRun

\* The status is set first; if the run is live the node is told next, and the
\* send suspends the command.
StopTask(kind, t) ==
    LET r == SelectCommandRun(t)
    IN  /\ kind \in Commands
        /\ task[t] # "absent"
        /\ kind = "pause" => MayPause(t)
        /\ task' = [task EXCEPT ![t] = IF kind = "pause" THEN "paused" ELSE "cancelled"]
        /\ IF r \in registered
           THEN /\ commands' = commands \cup {[kind |-> kind, task |-> t, run |-> r]}
                /\ UNCHANGED <<run, session, binding, request, loop>>
           ELSE /\ Complete(kind, t, r)
                /\ PerhapsScheduled
                /\ UNCHANGED commands
        /\ UNCHANGED <<persona, attempts, co, owed, answers, nodeVars>>

\* Sends of one connection are ordered, so a dispatch in progress goes first.
Dispatching(r) == co[r[1]] = "dispatching" /\ CurrentRun(r[1]) = r

\* The node has been told.  It ignores a run it has not started.
CommandSent(c) ==
    /\ c \in commands
    /\ ~Dispatching(c.run)
    /\ commands' = commands \ {c}
    /\ remote' = IF remote[c.run] \in {"running", "waiting"}
                 THEN [remote EXCEPT ![c.run] = "stopping"] ELSE remote
    /\ Complete(c.kind, c.task, c.run)
    /\ PerhapsScheduled
    /\ UNCHANGED <<task, persona, attempts, co, owed, answers, connected, greeting, registered, queue>>

\* The send raises, and the manager drops the connection if it still has it.
CommandSendFailed(c) ==
    /\ c \in commands
    /\ ~Dispatching(c.run)
    /\ c.run \in registered
    /\ commands' = commands \ {c}
    /\ LoseConnection(NodeOf[Bro(c.run)])
    /\ Complete(c.kind, c.task, c.run)
    /\ PerhapsScheduled
    /\ UNCHANGED <<task, persona, attempts, co, owed, answers>>

\* Fault: a requeued task is left to a loop that may have ended.
LeaveLoop(t) == UNCHANGED <<loop, owed>>

\* The API route schedules at once; a conversation turn does so at its end.
WakeLoop(t) ==
    \/ loop' = Scheduled(loop) /\ UNCHANGED owed
    \/ owed' = owed \cup {t} /\ UNCHANGED loop

\* RESUME_TASK needs a paused task, RETRY_TASK any.
RequeueTask(kind, t) ==
    /\ kind \in Commands
    /\ task[t] # "absent"
    /\ kind = "resume" => task[t] = "paused"
    /\ CanRequeue(t)
    /\ task' = [task EXCEPT ![t] = "queued"]
    /\ session' = ClearActive(PersonaOf[t], SelectCommandRun(t))
    /\ binding' = Unclaim(t, "released")
    /\ WakeLoop(t)
    /\ UNCHANGED <<persona, run, attempts, co, commands, askVars, nodeVars>>

\* ingest_agent_event: an event reported for a task from outside.
IngestAgentEvent(t, status) ==
    /\ "agent_event" \in Commands
    /\ task[t] # "absent"
    /\ task' = [task EXCEPT ![t] = status]
    /\ UNCHANGED <<persona, run, attempts, session, binding, loopVars, commands, askVars, nodeVars>>

-----------------------------------------------------------------------------
(* Interaction requests *)

\* The notification pump sees the blocked run, if it is still blocked.
RaiseRequest(r) ==
    /\ request[r] = "noted"
    /\ request' = [request EXCEPT ![r] = IF run[r] = "blocked" THEN "pending" ELSE "none"]
    /\ UNCHANGED <<boardVars, loopVars, commands, answers, nodeVars>>

\* resolve_interaction_request continues with a new run of the task.
FollowUp(r) ==
    LET t == r[1]
    IN  /\ CanRequeue(t)
        /\ task' = [task EXCEPT ![t] = "queued"]
        /\ session' = ClearActive(PersonaOf[t], r)
        /\ binding' = Unclaim(t, "released")
        /\ loop' = Scheduled(loop)
        /\ UNCHANGED <<persona, run, attempts, co, owed>>

ResolveRequest(r) ==
    /\ "answer" \in Commands
    /\ request[r] = "pending"
    /\ request' = [request EXCEPT ![r] = "answered"]
    /\ IF r[1] \in NativeTask /\ TaskNode(r[1]) \in connected
       THEN answers' = answers \cup {r} /\ UNCHANGED <<boardVars, loopVars>>
       ELSE FollowUp(r) /\ UNCHANGED answers
    /\ UNCHANGED <<commands, nodeVars>>

\* The answer reached the node; the task is not touched.
AnswerSent(r) ==
    /\ r \in answers
    /\ answers' = answers \ {r}
    /\ remote' = IF remote[r] = "waiting" THEN [remote EXCEPT ![r] = "running"] ELSE remote
    /\ loop' = Scheduled(loop)
    /\ UNCHANGED <<boardVars, co, owed, commands, request, connected, greeting, registered, queue>>

\* The send raises: the connection is dropped and the follow-up run takes over.
AnswerSendFailed(r) ==
    /\ r \in answers
    /\ answers' = answers \ {r}
    /\ LoseConnection(TaskNode(r[1]))
    /\ FollowUp(r)
    /\ UNCHANGED <<commands, request>>

-----------------------------------------------------------------------------
(* The executor nodes *)

\* The dispatched run's generator starts.
NodeStart(r) ==
    /\ remote[r] = "starting"
    /\ remote' = [remote EXCEPT ![r] = "running"]
    /\ UNCHANGED <<boardVars, loopVars, commands, askVars, connected, greeting, registered, queue>>

\* What the node does with a run after sending event e for it.
RemoteAfter(r, e) ==
    CASE e = "blocked" -> IF r[1] \in NativeTask THEN "waiting" ELSE "none"
      [] e \in FinishedRun -> "none"
      [] OTHER -> remote[r]

\* A run reports a cancellation only when told to stop; one that waits for an
\* answer reports nothing but a failure when its wait times out.
MayEmit(r, e) ==
    CASE remote[r] = "running"  -> e # "cancelled"
      [] remote[r] = "stopping" -> TRUE
      [] remote[r] = "waiting"  -> e = "failed"
      [] OTHER -> FALSE

\* publish_run_event: the event of a run that is no longer known is refused.
NodeEmit(r, e) ==
    /\ e \in Emits
    /\ MayEmit(r, e)
    /\ IF r \in registered
       THEN Len(queue[r]) < MaxQueue /\ queue' = [queue EXCEPT ![r] = Append(@, e)]
       ELSE UNCHANGED queue
    /\ remote' = [remote EXCEPT ![r] = RemoteAfter(r, e)]
    /\ UNCHANGED <<boardVars, loopVars, commands, askVars, connected, greeting, registered>>

\* The control websocket closes, or the node's credentials are rotated or deleted.
Disconnect(n) ==
    /\ n \in connected
    /\ LoseConnection(n)
    /\ UNCHANGED <<boardVars, loopVars, commands, askVars>>

(***************************************************************************)
(* A node reconnects a second after a loss, when every coroutine and every *)
(* send that the loss woke has run.                                        *)
(***************************************************************************)
Settled(n) ==
    /\ \A t \in Task : TaskNode(t) = n => co[t] \notin {"dispatching", "reading"}
    /\ \A r \in answers : TaskNode(r[1]) # n
    /\ \A c \in commands : NodeOf[Bro(c.run)] # n

\* executor_availability of the node a task names, or of any node if it names none.
Available(n) == n \in connected \/ (n = Unbound /\ connected # {})

Connect(n) ==
    /\ n \in Node \ connected
    /\ Settled(n)
    /\ \A t \in Task \ Unnamed :
           task[t] = "waiting_executor" /\ TaskNode(t) = n => CanRequeue(t)
    /\ connected' = connected \cup {n}
    /\ greeting' = greeting \cup {n}
    /\ UNCHANGED <<boardVars, loopVars, commands, askVars, registered, queue, remote>>

\* Fault: the availability of the nodes is the one before the registration.
ParkedBefore ==
    {t \in Task \ Unnamed : /\ task[t] = "waiting_executor" /\ CanRequeue(t)
                            /\ TaskNode(t) \in connected \ greeting}

\* The tasks requeue_waiting_executor_tasks moves, within the bound on runs; it
\* passes over those that name no executor.
Parked ==
    {t \in Task \ Unnamed : /\ task[t] = "waiting_executor" /\ CanRequeue(t)
                            /\ Available(TaskNode(t))}

\* handle_executor_node_connected, after the registration has been acknowledged.
NodeConnected(n) ==
    /\ n \in greeting
    /\ greeting' = greeting \ {n}
    /\ task' = [t \in Task |-> IF t \in Parked THEN "queued" ELSE task[t]]
    /\ loop' = IF Parked = {} THEN loop ELSE Scheduled(loop)
    /\ UNCHANGED <<persona, run, attempts, session, binding, co, owed, commands, askVars,
                   connected, registered, queue, remote>>

-----------------------------------------------------------------------------
Execute(t) ==
    \/ FailUnknownExecutor(t) \/ StartWithoutNode(t) \/ StartDispatch(t)
    \/ DispatchSent(t) \/ DispatchFailed(t) \/ ReadEvent(t) \/ FinishRun(t)

Next ==
    \/ \E t \in Task : CreateTask(t) \/ SendDraft(t)
    \/ \E t \in Task : ScheduleExecution(t)
    \/ Tick \/ EndTick
    \/ \E t \in Task : Execute(t)
    \/ \E t \in Task, kind \in {"pause", "cancel"} : StopTask(kind, t)
    \/ \E c \in commands : CommandSent(c) \/ CommandSendFailed(c)
    \/ \E t \in Task, kind \in {"resume", "retry"} : RequeueTask(kind, t)
    \/ \E t \in Task, status \in {"waiting_user_input", "completed"} : IngestAgentEvent(t, status)
    \/ \E r \in Run : RaiseRequest(r) \/ ResolveRequest(r) \/ AnswerSent(r) \/ AnswerSendFailed(r)
    \/ \E r \in Run, e \in EventType : NodeEmit(r, e)
    \/ \E r \in Run : NodeStart(r)
    \/ \E n \in Node : Disconnect(n) \/ Connect(n) \/ NodeConnected(n)

Spec == Init /\ [][Next]_vars

-----------------------------------------------------------------------------
(***************************************************************************)
(* Fairness.  The event loop runs every ready callback, sends return or    *)
(* raise, and a conversation turn ends, so every step of the server that   *)
(* stays enabled is taken.                                                 *)
(***************************************************************************)
ServerFairness ==
    /\ WF_vars(Tick) /\ WF_vars(EndTick)
    /\ \A t \in Task : WF_vars(Execute(t)) /\ WF_vars(ScheduleExecution(t))
    /\ \A n \in Node : WF_vars(NodeConnected(n))
    /\ WF_vars(\E c \in commands : CommandSent(c) \/ CommandSendFailed(c))
    /\ \A r \in Run : WF_vars(RaiseRequest(r))
    /\ \A r \in Run : WF_vars(AnswerSent(r) \/ AnswerSendFailed(r))

\* An executor starts what it is sent and sooner or later ends its stream.  The
\* bound MaxQueue may refuse an event again and again, hence strong fairness.
ExecutorFairness ==
    /\ \A r \in Run : WF_vars(NodeStart(r))
    /\ \A r \in Run : SF_vars(\E e \in TerminalEvents : NodeEmit(r, e))

FairSpec == Spec /\ ServerFairness /\ ExecutorFairness

-----------------------------------------------------------------------------
(* Properties *)

TypeOK ==
    /\ task \in [Task -> TaskStatus \cup {"absent"}]
    /\ persona \in [Persona -> {"idle", "busy"}]
    /\ run \in [Run -> RunStatus \cup {"none"}]
    /\ attempts \in [Task -> 0 .. MaxRuns]
    /\ session \in [Persona -> [active: Run \cup {NoRun}, latest: Run \cup {NoRun}]]
    /\ binding \in [Task -> {"none", "claimed", "active", "paused", "released"}]
    /\ loop \in {"idle", "ready", "gathering"}
    /\ co \in [Task -> {"none", "start", "dispatching", "reading"}]
    /\ owed \subseteq Task
    /\ commands \subseteq Command
    /\ request \in [Run -> {"none", "noted", "pending", "answered", "cancelled"}]
    /\ answers \subseteq Run
    /\ connected \subseteq Node
    /\ greeting \subseteq connected
    /\ registered \subseteq Run
    /\ queue \in [Run -> Seq(EventType)]
    /\ remote \in [Run -> {"none", "starting", "running", "stopping", "waiting"}]

(***************************************************************************)
(* A runnable task is never forgotten: the loop will look at it again, or  *)
(* whoever made it runnable still has to call schedule_execution.  The     *)
(* loop ends by itself, so a status write that races with its last look    *)
(* would strand the task.                                                  *)
(***************************************************************************)
NoLostWakeup == RunnableTasks # {} => loop # "idle" \/ owed # {}

(***************************************************************************)
(* A task never has two live run streams, however commands, retries and    *)
(* reconnects interleave: the executor would work on it twice.             *)
(***************************************************************************)
OneStreamPerTask ==
    \A r, s \in registered : r[1] = s[1] => r = s

(***************************************************************************)
(* A coroutine that waits for events will get one: its run is registered   *)
(* with a connected node, or an event that ends its stream is queued.  A   *)
(* node that disconnects must not leave a reader waiting forever.          *)
(***************************************************************************)
StreamEndQueued(r) == \E i \in 1 .. Len(queue[r]) : queue[r][i] \in TerminalEvents

NoDeafReader ==
    \A t \in Task : co[t] \in {"dispatching", "reading"} =>
        \/ CurrentRun(t) \in registered /\ TaskNode(t) \in connected
        \/ StreamEndQueued(CurrentRun(t))

(***************************************************************************)
(* A registered run always has its reader: finish_run and the disconnect   *)
(* handling together leave no queue that nobody will drain.                *)
(***************************************************************************)
NoOrphanStream ==
    \A r \in registered : r = CurrentRun(r[1]) /\ co[r[1]] \in {"dispatching", "reading"}

(***************************************************************************)
(* Cancelling is final: no late executor event, reconnect or failure       *)
(* brings a cancelled task back.                                           *)
(***************************************************************************)
CancelSticky ==
    [][\A t \in Task : task[t] = "cancelled" => task'[t] = "cancelled"]_vars

(***************************************************************************)
(* A running task is being worked on: its coroutine reads the stream of    *)
(* its current run.  Parking, blocking, pausing and losing the node all    *)
(* take the status away when they end the coroutine.                       *)
(***************************************************************************)
RunningHasReader ==
    \A t \in Task : task[t] = "running" => co[t] = "reading"

(***************************************************************************)
(* Once a cancellation is complete the user is not asked about the task,   *)
(* whether the question was open already or still on its way to the pump.  *)
(***************************************************************************)
NoQuestionForCancelled ==
    \A r \in Run : task[r[1]] = "cancelled" /\ request[r] = "pending" =>
        \E c \in commands : c.task = r[1]

\* A bro with an unfinished task is busy, so nothing else is given to it.
PersonaBusyWhileActive ==
    \A t \in Task : task[t] \in ActiveTask => persona[PersonaOf[t]] = "busy"

\* The tasks of one bro share its execution session: one of them at a time.
OneActiveTaskPerPersona ==
    \A t, u \in Task :
        /\ task[t] \in ActiveTask /\ task[u] \in ActiveTask
        /\ PersonaOf[t] = PersonaOf[u]
        => t = u

\* Every runnable task leaves that status.
RunnableTasksStart ==
    \A t \in Task : task[t] \in Runnable ~> task[t] \notin Runnable

\* A parked task whose node is back, and stays, is requeued.  One that names no
\* executor is not: it stays parked although the default executor would run it.
ParkedTasksResume ==
    \A t \in Task \ Unnamed :
        task[t] = "waiting_executor" /\ TaskNode(t) \in connected
            ~> task[t] # "waiting_executor" \/ TaskNode(t) \notin connected
=============================================================================
