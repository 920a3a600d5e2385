------------------------ MODULE TaskExecutionProofs ------------------------
(***************************************************************************)
(* Proofs about TaskExecution, for any tasks, bros, nodes, commands and    *)
(* bounds.                                                                 *)
(***************************************************************************)
EXTENDS TaskExecution, TLAPS

-----------------------------------------------------------------------------
(* What one event does to a task and a run *)

TaskRange == TaskStatus \cup {"absent"}
RunRange  == RunStatus \cup {"none"}
StatusPair == [task: TaskRange, run: RunRange]

\* StatusAfter never makes a task runnable, and leaves it running only for the
\* events that do not end the stream.
LEMMA StatusAfterFacts ==
    ASSUME NEW e \in EventType
    PROVE  /\ StatusAfter(e) \in StatusPair
           /\ StatusAfter(e).task \notin Runnable
           /\ StatusAfter(e).task # "absent"
           /\ e \in TerminalEvents => StatusAfter(e).task # "running"
BY DEF StatusAfter, EventType, StatusPair, TaskRange, RunRange, TaskStatus, RunStatus,
       Runnable, TerminalEvents

\* apply_event keeps the statuses in their ranges, makes no task runnable, and
\* does not leave a task running at the end of a stream.
LEMMA ApplyEventFacts ==
    ASSUME NEW st \in StatusPair, NEW e \in EventType
    PROVE  /\ ApplyEvent(st, e) \in StatusPair
           /\ ApplyEvent(st, e).task \notin Runnable
           /\ st.task # "absent" => ApplyEvent(st, e).task # "absent"
           /\ e \in TerminalEvents => ApplyEvent(st, e).task # "running"
<1>1. CASE st.task = "cancelled" /\ e # "cancelled"
    BY <1>1 DEF ApplyEvent, Runnable
<1>2. CASE ~(st.task = "cancelled" /\ e # "cancelled")
    BY <1>2, StatusAfterFacts DEF ApplyEvent
<1> QED BY <1>1, <1>2

-----------------------------------------------------------------------------
(* The invariant *)

Live == {"dispatching", "reading"}

\* A coroutine that will create a run, now or at the next tick, has room for it.
Budget ==
    \A t \in Task :
        co[t] = "start" \/ (task[t] \in Runnable /\ co[t] = "none") => attempts[t] < MaxRuns

\* A task that does not exist has neither a run nor a coroutine.
AbsentIsFresh ==
    \A t \in Task : task[t] = "absent" => attempts[t] = 0 /\ co[t] = "none"

\* Coroutines live only inside the gather of a tick.
CoroutinesAreGathered == loop # "gathering" => \A t \in Task : co[t] = "none"

\* What the loop and the writers of task statuses keep.
LoopInv ==
    /\ Budget
    /\ AbsentIsFresh
    /\ CoroutinesAreGathered
    /\ RunningHasReader
    /\ NoLostWakeup

\* A coroutine past its start has a current run.
StreamHasRun == \A t \in Task : co[t] \in Live => attempts[t] # 0

RegisteredIsConnected == \A r \in registered : NodeOf[Bro(r)] \in connected

\* What the readers, the run registry and the connections keep.
StreamInv ==
    /\ StreamHasRun
    /\ RegisteredIsConnected
    /\ NoOrphanStream
    /\ NoDeafReader

Inv == TypeOK /\ LoopInv /\ StreamInv

USE ConstantsAssumption DEF ConstantsAssumption

-----------------------------------------------------------------------------
(* Facts about the helpers *)

SessionRange == [active: Run \cup {NoRun}, latest: Run \cup {NoRun}]
BindingRange == {"none", "claimed", "active", "paused", "released"}
RequestRange == {"none", "noted", "pending", "answered", "cancelled"}

\* A command acts on an existing run or on none.
LEMMA SelectedRun ==
    ASSUME TypeOK, NEW t \in Task
    PROVE  SelectCommandRun(t) \in Run \cup {NoRun}
BY DEF TypeOK, SelectCommandRun

LEMMA ClearActiveType ==
    ASSUME TypeOK, NEW p \in Persona, NEW r
    PROVE  ClearActive(p, r) \in [Persona -> SessionRange]
<1>1. session \in [Persona -> SessionRange]
    BY DEF TypeOK, SessionRange
<1>2. [session[p] EXCEPT !.active = NoRun] \in SessionRange
    BY <1>1 DEF SessionRange
<1>3. [session EXCEPT ![p].active = NoRun] \in [Persona -> SessionRange]
    BY <1>1, <1>2
<1> QED BY <1>1, <1>3 DEF ClearActive

LEMMA UnclaimType ==
    ASSUME TypeOK, NEW t \in Task, NEW status \in BindingRange
    PROVE  Unclaim(t, status) \in [Task -> BindingRange]
BY DEF TypeOK, Unclaim, BindingRange

LEMMA ReleasePersonaType ==
    ASSUME TypeOK, NEW t \in Task
    PROVE  ReleasePersona(t) \in [Persona -> {"idle", "busy"}]
BY DEF TypeOK, ReleasePersona

\* The completion of a pause or a cancellation keeps the types.
LEMMA CompleteType ==
    ASSUME TypeOK, NEW kind \in {"pause", "cancel"}, NEW t \in Task,
           NEW r \in Run \cup {NoRun}, Complete(kind, t, r)
    PROVE  /\ run' \in [Run -> RunRange]
           /\ session' \in [Persona -> SessionRange]
           /\ binding' \in [Task -> BindingRange]
           /\ request' \in [Run -> RequestRange]
<1>1. PersonaOf[t] \in Persona
    OBVIOUS
<1>2. run' \in [Run -> RunRange]
    <2>1. PICK x \in {"paused", "cancelled"} :
            run' = IF r = NoRun THEN run ELSE [run EXCEPT ![r] = x]
        BY DEF Complete, CompletePause, CompleteCancel
    <2>2. run \in [Run -> RunRange] /\ x \in RunRange
        BY DEF TypeOK, RunRange, RunStatus
    <2> QED BY <2>1, <2>2
<1>3. session' \in [Persona -> SessionRange]
    BY <1>1, ClearActiveType DEF TypeOK, Complete, CompletePause, CompleteCancel, SessionRange
<1>4. binding' \in [Task -> BindingRange]
    BY UnclaimType DEF Complete, CompletePause, CompleteCancel, BindingRange
<1>5. request' \in [Run -> RequestRange]
    BY DEF TypeOK, Complete, CompletePause, CompleteCancel, CancelRequests, RequestRange
<1> QED BY <1>2, <1>3, <1>4, <1>5

\* Losing a node keeps the types.
LEMMA LoseConnectionType ==
    ASSUME TypeOK, NEW n, LoseConnection(n)
    PROVE  /\ connected' \subseteq Node
           /\ greeting' \subseteq connected'
           /\ registered' \subseteq Run
           /\ queue' \in [Run -> Seq(EventType)]
           /\ remote' \in [Run -> {"none", "starting", "running", "stopping", "waiting"}]
<1>1. "waiting_executor" \in EventType
    BY DEF EventType
<1>2. \A r \in Run : WakeReaders(n)[r] \in Seq(EventType)
    BY <1>1 DEF TypeOK, WakeReaders
<1>3. queue' \in [Run -> Seq(EventType)]
    BY <1>2 DEF LoseConnection, WakeReaders
<1> QED BY <1>3 DEF TypeOK, LoseConnection, DropRemote

\* The coroutines that read a stream are the same before and after a step.
SameReaders == attempts' = attempts /\ \A t \in Task : co'[t] \in Live <=> co[t] \in Live

\* A step that leaves streams, readers and connections alone keeps StreamInv.
LEMMA StreamUnchanged ==
    ASSUME TypeOK, StreamInv, SameReaders, UNCHANGED <<registered, queue, connected>>
    PROVE  StreamInv'
<1>1. StreamHasRun'
    BY DEF StreamInv, StreamHasRun, SameReaders
<1>2. RegisteredIsConnected'
    BY DEF StreamInv, RegisteredIsConnected, Bro
<1>3. NoOrphanStream'
    BY DEF TypeOK, StreamInv, NoOrphanStream, SameReaders, Live, CurrentRun, Run
<1>4. NoDeafReader'
    BY DEF StreamInv, NoDeafReader, StreamEndQueued, SameReaders, Live, CurrentRun, TaskNode
<1> QED BY <1>1, <1>2, <1>3, <1>4 DEF StreamInv

\* A node that is lost wakes every reader it had.
LEMMA LoseConnectionStream ==
    ASSUME TypeOK, StreamInv, NEW n, LoseConnection(n), SameReaders
    PROVE  StreamInv'
<1>1. StreamHasRun'
    BY DEF StreamInv, StreamHasRun, SameReaders
<1>2. RegisteredIsConnected'
    BY DEF StreamInv, RegisteredIsConnected, LoseConnection, RunsOf, Bro
<1>3. NoOrphanStream'
    BY DEF TypeOK, StreamInv, NoOrphanStream, LoseConnection, RunsOf, SameReaders, Live,
           CurrentRun, Run
<1>4. NoDeafReader'
    <2> SUFFICES ASSUME NEW t \in Task, co'[t] \in Live
                 PROVE  \/ CurrentRun(t)' \in registered' /\ TaskNode(t) \in connected'
                        \/ StreamEndQueued(CurrentRun(t))'
        BY DEF NoDeafReader, Live, TaskNode
    <2> DEFINE r == CurrentRun(t)
    <2>1. r \in Run /\ CurrentRun(t)' = r /\ r[1] = t
        BY DEF TypeOK, StreamInv, StreamHasRun, SameReaders, CurrentRun, Run
    <2>2. queue[r] \in Seq(EventType)
        BY <2>1 DEF TypeOK
    <2>3. CASE r \in RunsOf(n)
        <3>1. queue'[r] = Append(queue[r], "waiting_executor")
            BY <2>1, <2>3 DEF LoseConnection, WakeReaders
        <3>2. /\ Len(queue'[r]) = Len(queue[r]) + 1
              /\ queue'[r][Len(queue[r]) + 1] = "waiting_executor"
            BY <2>2, <3>1
        <3>3. Len(queue[r]) + 1 \in 1 .. Len(queue'[r])
            BY <2>2, <3>2
        <3> QED BY <2>1, <3>2, <3>3 DEF StreamEndQueued, TerminalEvents
    <2>4. CASE r \notin RunsOf(n)
        <3>1. queue'[r] = queue[r]
            BY <2>1, <2>4 DEF LoseConnection, WakeReaders
        <3>2. CASE r \in registered /\ TaskNode(t) \in connected
            BY <2>1, <2>4, <3>2 DEF LoseConnection, RunsOf, TaskNode, Bro
        <3>3. CASE StreamEndQueued(r)
            BY <2>1, <3>1, <3>3 DEF StreamEndQueued
        <3> QED BY <3>2, <3>3 DEF StreamInv, NoDeafReader, SameReaders, Live
    <2> QED BY <2>3, <2>4
<1> QED BY <1>1, <1>2, <1>3, <1>4 DEF StreamInv

-----------------------------------------------------------------------------
(* The steps of the loop *)

LEMMA NewTaskInv ==
    ASSUME Inv, NEW t \in Task, NEW status \in Runnable, NewTask(t, status)
    PROVE  Inv'
<1>1. TypeOK'
    BY DEF Inv, TypeOK, NewTask, Runnable, TaskStatus, askVars, nodeVars
<1>2. LoopInv'
    BY DEF Inv, TypeOK, NewTask, LoopInv, Budget, AbsentIsFresh,
           CoroutinesAreGathered, RunningHasReader, NoLostWakeup, RunnableTasks,
           Runnable
<1>3. StreamInv'
    BY StreamUnchanged DEF Inv, SameReaders, NewTask, nodeVars
<1> QED BY <1>1, <1>2, <1>3 DEF Inv

LEMMA ScheduleExecutionInv ==
    ASSUME Inv, NEW t \in Task, ScheduleExecution(t)
    PROVE  Inv'
<1>1. TypeOK'
    BY DEF Inv, TypeOK, ScheduleExecution, Scheduled, boardVars, askVars, nodeVars
<1>2. LoopInv'
    BY DEF Inv, TypeOK, ScheduleExecution, Scheduled, LoopInv, Budget, AbsentIsFresh,
           CoroutinesAreGathered, RunningHasReader, NoLostWakeup, RunnableTasks, boardVars
<1>3. StreamInv'
    BY StreamUnchanged DEF Inv, SameReaders, ScheduleExecution, boardVars, nodeVars
<1> QED BY <1>1, <1>2, <1>3 DEF Inv

\* No coroutine is alive when a tick starts, so none is started over.
LEMMA TickInv ==
    ASSUME Inv, Tick
    PROVE  Inv'
<1>1. TypeOK'
    BY DEF Inv, TypeOK, Tick, Claimed, askVars, nodeVars
<1>2. LoopInv'
    <2>1. \A t \in Task : co[t] = "none"
        BY DEF Inv, LoopInv, CoroutinesAreGathered, Tick
    <2>2. CASE RunnableTasks = {}
        BY <2>2 DEF Inv, Tick, LoopInv, Budget, AbsentIsFresh,
           CoroutinesAreGathered, RunningHasReader, NoLostWakeup, RunnableTasks
    <2>3. CASE RunnableTasks # {}
        <3>1. \A t \in Task : co'[t] = IF task[t] \in Runnable THEN "start" ELSE "none"
            BY <2>1, <2>3 DEF Tick, RunnableTasks
        <3> QED BY <2>1, <2>3, <3>1 DEF Inv, Tick, LoopInv, Budget, AbsentIsFresh,
           CoroutinesAreGathered, RunningHasReader, NoLostWakeup, RunnableTasks, Runnable
    <2> QED BY <2>2, <2>3
<1>3. StreamInv'
    <2>1. \A t \in Task : co[t] = "none"
        BY DEF Inv, LoopInv, CoroutinesAreGathered, Tick
    <2>2. SameReaders
        BY <2>1 DEF Inv, TypeOK, Tick, SameReaders, Live
    <2> QED BY <2>2, StreamUnchanged DEF Inv, Tick, nodeVars
<1> QED BY <1>1, <1>2, <1>3 DEF Inv

LEMMA EndTickInv ==
    ASSUME Inv, EndTick
    PROVE  Inv'
<1>1. TypeOK'
    BY DEF Inv, TypeOK, EndTick, boardVars, askVars, nodeVars
<1>2. LoopInv'
    BY DEF Inv, EndTick, Gathered, LoopInv, Budget, AbsentIsFresh,
           CoroutinesAreGathered, RunningHasReader, NoLostWakeup, RunnableTasks, boardVars
<1>3. StreamInv'
    BY StreamUnchanged DEF Inv, SameReaders, EndTick, boardVars, nodeVars
<1> QED BY <1>1, <1>2, <1>3 DEF Inv

LEMMA FailUnknownExecutorInv ==
    ASSUME Inv, NEW t \in Task, FailUnknownExecutor(t)
    PROVE  Inv'
<1>1. TypeOK'
    BY DEF Inv, TypeOK, FailUnknownExecutor, TaskStatus, askVars, nodeVars
<1>2. LoopInv'
    BY DEF Inv, TypeOK, FailUnknownExecutor, LoopInv, Budget, AbsentIsFresh,
           CoroutinesAreGathered, RunningHasReader, NoLostWakeup, RunnableTasks,
           Runnable
<1>3. StreamInv'
    <2>1. SameReaders
        BY DEF Inv, TypeOK, FailUnknownExecutor, SameReaders, Live
    <2> QED BY <2>1, StreamUnchanged DEF Inv, FailUnknownExecutor, nodeVars
<1> QED BY <1>1, <1>2, <1>3 DEF Inv

\* A run that starts without a node is parked by its own coroutine.
LEMMA StartWithoutNodeInv ==
    ASSUME Inv, NEW t \in Task, StartWithoutNode(t)
    PROVE  Inv'
<1> DEFINE r  == NewRun(t)
           st == ApplyEvent([task |-> task[t], run |-> "assigned"], "waiting_executor")
<1>1. /\ st \in StatusPair
      /\ st.task \notin Runnable
      /\ st.task # "running"
      /\ task[t] # "absent" => st.task # "absent"
    <2>1. [task |-> task[t], run |-> "assigned"] \in StatusPair
        BY DEF Inv, TypeOK, StatusPair, TaskRange, RunRange, RunStatus
    <2>2. "waiting_executor" \in EventType /\ "waiting_executor" \in TerminalEvents
        BY DEF EventType, TerminalEvents
    <2> QED BY <2>1, <2>2, ApplyEventFacts
<1>2. /\ co[t] = "start"
      /\ attempts' = [attempts EXCEPT ![t] = @ + 1]
      /\ task' = [task EXCEPT ![t] = st.task]
      /\ run' = [run EXCEPT ![r] = st.run]
      /\ session' = [session EXCEPT ![PersonaOf[t]] =
                        [active |-> IF st.run = "waiting_executor" THEN NoRun ELSE r,
                         latest |-> r]]
      /\ binding' = [binding EXCEPT ![t] =
                        IF st.run = "waiting_executor" THEN "released" ELSE "active"]
      /\ co' = [co EXCEPT ![t] = "none"]
      /\ UNCHANGED <<persona, loop, owed, commands, askVars, nodeVars>>
    BY DEF StartWithoutNode
<1>3. attempts[t] + 1 \in 1 .. MaxRuns /\ r \in Run
    BY <1>2 DEF Inv, TypeOK, LoopInv, Budget, NewRun, Run
<1> HIDE DEF st
<1>4. TypeOK'
    BY <1>1, <1>2, <1>3 DEF Inv, TypeOK, StatusPair, TaskRange, RunRange, askVars, nodeVars
<1>5. LoopInv'
    BY <1>1, <1>2 DEF Inv, TypeOK, LoopInv, Budget, AbsentIsFresh, CoroutinesAreGathered,
           RunningHasReader, NoLostWakeup, RunnableTasks
<1>6. StreamInv'
    <2>1. \A u \in Task : co'[u] \in Live => u # t /\ co[u] \in Live /\ attempts'[u] = attempts[u]
        BY <1>2 DEF Inv, TypeOK, Live
    <2>2. \A q \in registered : q \in Run /\ q[1] # t
        BY <1>2 DEF Inv, TypeOK, StreamInv, NoOrphanStream, Run
    <2>3. StreamHasRun'
        BY <2>1 DEF Inv, StreamInv, StreamHasRun
    <2>4. RegisteredIsConnected'
        BY <1>2 DEF Inv, StreamInv, RegisteredIsConnected, Bro, nodeVars
    <2>5. NoOrphanStream'
        BY <1>2, <2>2 DEF Inv, TypeOK, StreamInv, NoOrphanStream, CurrentRun, NewRun, Run, nodeVars
    <2>6. NoDeafReader'
        BY <1>2, <2>1 DEF Inv, StreamInv, NoDeafReader, StreamEndQueued, CurrentRun, NewRun, Live,
               TaskNode, nodeVars
    <2> QED BY <2>3, <2>4, <2>5, <2>6 DEF StreamInv
<1> QED BY <1>4, <1>5, <1>6 DEF Inv

\* A dispatch registers the run it reads.
LEMMA StartDispatchInv ==
    ASSUME Inv, NEW t \in Task, StartDispatch(t)
    PROVE  Inv'
<1> DEFINE r == NewRun(t)
<1>1. attempts[t] + 1 \in 1 .. MaxRuns /\ r \in Run
    BY DEF Inv, TypeOK, LoopInv, Budget, StartDispatch, NewRun, Run
<1>2. TypeOK'
    <2>1. [active |-> r, latest |-> r] \in SessionRange
        BY <1>1 DEF SessionRange
    <2>2. session' \in [Persona -> SessionRange]
        BY <2>1 DEF Inv, TypeOK, StartDispatch, SessionRange
    <2>3. attempts' \in [Task -> 0 .. MaxRuns]
        BY <1>1 DEF Inv, TypeOK, StartDispatch
    <2>4. run' \in [Run -> RunRange]
        BY DEF Inv, TypeOK, StartDispatch, RunRange, RunStatus
    <2>5. registered' \subseteq Run
        BY <1>1 DEF Inv, TypeOK, StartDispatch
    <2>6. /\ binding' \in [Task -> BindingRange]
          /\ co' \in [Task -> {"none", "start", "dispatching", "reading"}]
        BY DEF Inv, TypeOK, StartDispatch, BindingRange
    <2>7. UNCHANGED <<task, persona, loop, owed, commands, request, answers, connected,
                      greeting, queue, remote>>
        BY DEF StartDispatch, askVars
    <2> QED BY <2>2, <2>3, <2>4, <2>5, <2>6, <2>7 DEF Inv, TypeOK, SessionRange, RunRange,
               BindingRange
<1>3. LoopInv'
    BY DEF Inv, TypeOK, StartDispatch, LoopInv, Budget, AbsentIsFresh, CoroutinesAreGathered,
           RunningHasReader, NoLostWakeup, RunnableTasks
<1>4. StreamInv'
    <2>1. \A q \in registered : q \in Run /\ q[1] # t
        BY DEF Inv, TypeOK, StreamInv, NoOrphanStream, StartDispatch, NewRun, Run
    <2>2. StreamHasRun'
        BY <1>1 DEF Inv, TypeOK, StreamInv, StreamHasRun, StartDispatch, Live
    <2>3. RegisteredIsConnected'
        BY DEF Inv, StreamInv, RegisteredIsConnected, StartDispatch, NewRun, Bro, TaskNode
    <2>4. NoOrphanStream'
        BY <1>1, <2>1 DEF Inv, TypeOK, StreamInv, NoOrphanStream, StartDispatch, CurrentRun,
           NewRun, Run
    <2>5. NoDeafReader'
        <3>1. /\ r \in registered' /\ TaskNode(t) \in connected'
              /\ registered \subseteq registered' /\ UNCHANGED <<connected, queue>>
            BY DEF StartDispatch
        <3>2. CurrentRun(t)' = r
            BY DEF Inv, TypeOK, StartDispatch, CurrentRun, NewRun
        <3>3. ASSUME NEW u \in Task \ {t} PROVE co'[u] = co[u] /\ CurrentRun(u)' = CurrentRun(u)
            BY DEF Inv, TypeOK, StartDispatch, CurrentRun
        <3>4. ASSUME NEW u \in Task \ {t}, co'[u] \in {"dispatching", "reading"}
              PROVE  \/ CurrentRun(u)' \in registered' /\ TaskNode(u) \in connected'
                     \/ StreamEndQueued(CurrentRun(u))'
            BY <3>1, <3>3, <3>4 DEF Inv, StreamInv, NoDeafReader, StreamEndQueued
        <3> QED BY <3>1, <3>2, <3>4 DEF NoDeafReader, TaskNode
    <2> QED BY <2>2, <2>3, <2>4, <2>5 DEF StreamInv
<1> QED BY <1>2, <1>3, <1>4 DEF Inv

LEMMA DispatchSentInv ==
    ASSUME Inv, NEW t \in Task, DispatchSent(t)
    PROVE  Inv'
<1>1. TypeOK'
    BY DEF Inv, TypeOK, DispatchSent, CurrentRun, boardVars, askVars
<1>2. LoopInv'
    BY DEF Inv, TypeOK, DispatchSent, LoopInv, Budget, AbsentIsFresh,
           CoroutinesAreGathered, RunningHasReader, NoLostWakeup, RunnableTasks,
           boardVars
<1>3. StreamInv'
    <2>1. SameReaders
        BY DEF Inv, TypeOK, DispatchSent, SameReaders, Live, boardVars
    <2> QED BY <2>1, StreamUnchanged DEF Inv, DispatchSent
<1> QED BY <1>1, <1>2, <1>3 DEF Inv

LEMMA DispatchFailedInv ==
    ASSUME Inv, NEW t \in Task, DispatchFailed(t)
    PROVE  Inv'
<1>1. TypeOK'
    BY LoseConnectionType DEF Inv, TypeOK, DispatchFailed, boardVars, askVars
<1>2. LoopInv'
    BY DEF Inv, TypeOK, DispatchFailed, LoopInv, Budget, AbsentIsFresh,
           CoroutinesAreGathered, RunningHasReader, NoLostWakeup, RunnableTasks,
           boardVars
<1>3. StreamInv'
    <2>1. SameReaders
        BY DEF Inv, TypeOK, DispatchFailed, SameReaders, Live, boardVars
    <2> QED BY <2>1, LoseConnectionStream DEF Inv, DispatchFailed
<1> QED BY <1>1, <1>2, <1>3 DEF Inv

\* What the reader of t finds at the head of its queue.
LEMMA ReaderFacts ==
    ASSUME Inv, NEW t \in Task, co[t] = "reading", queue[CurrentRun(t)] # <<>>
    PROVE  LET r == CurrentRun(t) IN
           /\ r \in Run
           /\ queue[r] \in Seq(EventType)
           /\ Head(queue[r]) \in EventType
           /\ Tail(queue[r]) \in Seq(EventType)
           /\ [task |-> task[t], run |-> run[r]] \in StatusPair
           /\ task[t] # "absent"
<1>1. CurrentRun(t) \in Run
    BY DEF Inv, TypeOK, StreamInv, StreamHasRun, CurrentRun, Run, Live
<1>2. task[t] # "absent"
    BY DEF Inv, LoopInv, AbsentIsFresh
<1>3. queue[CurrentRun(t)] \in Seq(EventType)
    BY <1>1 DEF Inv, TypeOK
<1>4. Head(queue[CurrentRun(t)]) \in EventType /\ Tail(queue[CurrentRun(t)]) \in Seq(EventType)
    BY <1>3
<1> QED BY <1>1, <1>2, <1>3, <1>4 DEF Inv, TypeOK, StatusPair, TaskRange, RunRange

LEMMA ReadEventInv ==
    ASSUME Inv, NEW t \in Task, ReadEvent(t)
    PROVE  Inv'
<1> DEFINE r  == CurrentRun(t)
           e  == Head(queue[r])
           st == ApplyEvent([task |-> task[t], run |-> run[r]], e)
<1>1. /\ co[t] = "reading"
      /\ queue[r] # <<>>
      /\ e \notin TerminalEvents
      /\ task' = [task EXCEPT ![t] = st.task]
      /\ run' = [run EXCEPT ![r] = st.run]
      /\ queue' = [queue EXCEPT ![r] = Tail(@)]
      /\ UNCHANGED <<persona, attempts, session, binding, loopVars, commands, askVars,
                     connected, greeting, registered, remote>>
    BY DEF ReadEvent
<1>2. /\ r \in Run
      /\ queue[r] \in Seq(EventType)
      /\ e \in EventType
      /\ Tail(queue[r]) \in Seq(EventType)
      /\ [task |-> task[t], run |-> run[r]] \in StatusPair
      /\ task[t] # "absent"
    BY <1>1, ReaderFacts
<1>3. st \in StatusPair /\ st.task \notin Runnable /\ st.task # "absent"
    BY <1>2, ApplyEventFacts
<1> HIDE DEF st
<1>4. TypeOK'
    BY <1>1, <1>2, <1>3 DEF Inv, TypeOK, StatusPair, TaskRange, RunRange, loopVars, askVars
<1>5. LoopInv'
    BY <1>1, <1>3 DEF Inv, TypeOK, LoopInv, Budget, AbsentIsFresh, CoroutinesAreGathered,
           RunningHasReader, NoLostWakeup, RunnableTasks, loopVars
<1>6. StreamInv'
    <2>1. StreamHasRun' /\ RegisteredIsConnected' /\ NoOrphanStream'
        BY <1>1 DEF Inv, StreamInv, StreamHasRun, RegisteredIsConnected, NoOrphanStream,
               CurrentRun, Bro, loopVars
    <2>2. ASSUME NEW q \in Run, StreamEndQueued(q)
          PROVE  StreamEndQueued(q)'
        <3>1. CASE q # r
            BY <1>1, <2>2, <3>1 DEF Inv, TypeOK, StreamEndQueued
        <3>2. CASE q = r
            <4>1. PICK i \in 1 .. Len(queue[r]) : queue[r][i] \in TerminalEvents
                BY <2>2, <3>2 DEF StreamEndQueued
            <4>2. i # 1
                BY <1>1, <1>2, <4>1
            <4>3. i - 1 \in 1 .. Len(Tail(queue[r])) /\ Tail(queue[r])[i - 1] = queue[r][i]
                BY <1>1, <1>2, <4>1, <4>2
            <4>4. queue'[r] = Tail(queue[r])
                BY <1>1, <1>2 DEF Inv, TypeOK
            <4> QED BY <3>2, <4>1, <4>3, <4>4 DEF StreamEndQueued
        <3> QED BY <3>1, <3>2
    <2>3. NoDeafReader'
        BY <1>1, <2>2 DEF Inv, TypeOK, StreamInv, StreamHasRun, NoDeafReader, CurrentRun,
               TaskNode, Run, Live, loopVars
    <2> QED BY <2>1, <2>3 DEF StreamInv
<1> QED BY <1>4, <1>5, <1>6 DEF Inv

\* The end of a stream ends its coroutine and forgets its run.
LEMMA FinishRunInv ==
    ASSUME Inv, NEW t \in Task, FinishRun(t)
    PROVE  Inv'
<1> DEFINE r    == CurrentRun(t)
           e    == Head(queue[r])
           bad  == t \in InvalidHandle
           last == ApplyEvent([task |-> task[t], run |-> run[r]], e)
           st   == IF bad THEN ApplyEvent(last, "failed") ELSE last
           park == ~bad /\ st.run = "waiting_executor"
<1>1. /\ co[t] = "reading"
      /\ queue[r] # <<>>
      /\ e \in TerminalEvents
      /\ task' = [task EXCEPT ![t] = st.task]
      /\ run' = [run EXCEPT ![r] = st.run]
      /\ session' = IF park THEN [session EXCEPT ![PersonaOf[t]].active = NoRun] ELSE session
      /\ binding' = IF park \/ bad THEN [binding EXCEPT ![t] = "released"] ELSE binding
      /\ persona' = IF bad \/ st.run \in FinishedRun THEN ReleasePersona(t) ELSE persona
      /\ co' = [co EXCEPT ![t] = "none"]
      /\ registered' = registered \ {r}
      /\ queue' = [queue EXCEPT ![r] = <<>>]
      /\ request' = IF st.run = "blocked" THEN [request EXCEPT ![r] = "noted"] ELSE request
      /\ UNCHANGED <<attempts, loop, owed, commands, answers, connected, greeting, remote>>
    BY DEF FinishRun
<1>2. /\ r \in Run
      /\ e \in EventType
      /\ [task |-> task[t], run |-> run[r]] \in StatusPair
      /\ task[t] # "absent"
    BY <1>1, ReaderFacts
<1>3. last \in StatusPair /\ last.task \notin Runnable \cup {"absent", "running"}
    BY <1>1, <1>2, ApplyEventFacts
<1>4. st \in StatusPair /\ st.task \notin Runnable \cup {"absent", "running"}
    <2>1. "failed" \in EventType /\ "failed" \in TerminalEvents
        BY DEF EventType, TerminalEvents
    <2> HIDE DEF last
    <2> QED BY <1>3, <2>1, ApplyEventFacts
<1> HIDE DEF st, bad
<1>5. TypeOK'
    <2>1. session' \in [Persona -> SessionRange]
        <3>1. session \in [Persona -> SessionRange]
            BY DEF Inv, TypeOK, SessionRange
        <3>2. [session[PersonaOf[t]] EXCEPT !.active = NoRun] \in SessionRange
            BY <3>1 DEF SessionRange
        <3>3. [session EXCEPT ![PersonaOf[t]].active = NoRun] \in [Persona -> SessionRange]
            BY <3>1, <3>2
        <3> QED BY <1>1, <3>1, <3>3
    <2>2. persona' \in [Persona -> {"idle", "busy"}]
        BY <1>1, ReleasePersonaType DEF Inv, TypeOK
    <2>3. queue' \in [Run -> Seq(EventType)]
        <3>1. <<>> \in Seq(EventType)
            OBVIOUS
        <3> QED BY <1>1, <3>1 DEF Inv, TypeOK
    <2>4. /\ task' \in [Task -> TaskRange]
          /\ run' \in [Run -> RunRange]
        BY <1>1, <1>2, <1>4 DEF Inv, TypeOK, StatusPair, TaskRange, RunRange
    <2>5. binding' \in [Task -> BindingRange] /\ request' \in [Run -> RequestRange]
        BY <1>1, <1>2 DEF Inv, TypeOK, BindingRange, RequestRange
    <2> HIDE DEF park
    <2> QED BY <1>1, <2>1, <2>2, <2>3, <2>4, <2>5 DEF Inv, TypeOK, SessionRange, TaskRange,
               RunRange, BindingRange, RequestRange
<1>6. LoopInv'
    <2>1. task' = [task EXCEPT ![t] = st.task] /\ co' = [co EXCEPT ![t] = "none"]
        BY <1>1
    <2>2. co[t] = "reading" /\ UNCHANGED <<attempts, loop, owed>>
        BY <1>1
    <2> HIDE DEF park
    <2> QED BY <1>4, <2>1, <2>2 DEF Inv, TypeOK, LoopInv, Budget, AbsentIsFresh,
               CoroutinesAreGathered, RunningHasReader, NoLostWakeup, RunnableTasks
<1>7. StreamInv'
    <2>1. /\ co' = [co EXCEPT ![t] = "none"]
          /\ registered' = registered \ {r}
          /\ queue' = [queue EXCEPT ![r] = <<>>]
          /\ UNCHANGED <<attempts, connected>>
        BY <1>1
    <2>2. StreamHasRun' /\ RegisteredIsConnected'
        BY <2>1 DEF Inv, TypeOK, StreamInv, StreamHasRun, RegisteredIsConnected, Live, Bro
    <2>3. NoOrphanStream'
        BY <2>1 DEF Inv, TypeOK, StreamInv, NoOrphanStream, CurrentRun, Run
    <2>4. \A u \in Task \ {t} : CurrentRun(u) # r
        BY DEF CurrentRun
    <2>5. NoDeafReader'
        BY <2>1, <2>4, SMTT(30) DEF Inv, TypeOK, StreamInv, StreamHasRun, NoDeafReader, StreamEndQueued,
               CurrentRun, TaskNode, Run, Live
    <2> QED BY <2>2, <2>3, <2>5 DEF StreamInv
<1> QED BY <1>5, <1>6, <1>7 DEF Inv

-----------------------------------------------------------------------------
(* The steps of commands, interaction requests and nodes *)

LEMMA StopTaskInv ==
    ASSUME Inv, NEW t \in Task, NEW kind \in {"pause", "cancel"}, StopTask(kind, t)
    PROVE  Inv'
<1> DEFINE r == SelectCommandRun(t)
<1>1. r \in Run \cup {NoRun}
    BY SelectedRun DEF Inv
<1>2. /\ task[t] # "absent"
      /\ task' = [task EXCEPT ![t] = IF kind = "pause" THEN "paused" ELSE "cancelled"]
      /\ UNCHANGED <<persona, attempts, co, owed, answers, nodeVars>>
      /\ IF r \in registered
         THEN /\ commands' = commands \cup {[kind |-> kind, task |-> t, run |-> r]}
              /\ UNCHANGED <<run, session, binding, request, loop>>
         ELSE Complete(kind, t, r) /\ PerhapsScheduled /\ UNCHANGED commands
    BY DEF StopTask
<1> HIDE DEF r
<1>3. TypeOK'
    <2>1. task' \in [Task -> TaskRange]
        BY <1>2 DEF Inv, TypeOK, TaskRange, TaskStatus
    <2>2. CASE r \in registered
        <3>1. [kind |-> kind, task |-> t, run |-> r] \in Command
            BY <2>2 DEF Inv, TypeOK, Command
        <3>2. commands' \subseteq Command
            BY <1>2, <2>2, <3>1 DEF Inv, TypeOK
        <3> QED BY <1>2, <2>1, <2>2, <3>2 DEF Inv, TypeOK, TaskRange, nodeVars
    <2>3. CASE r \notin registered
        <3>1. /\ run' \in [Run -> RunRange]
              /\ session' \in [Persona -> SessionRange]
              /\ binding' \in [Task -> BindingRange]
              /\ request' \in [Run -> RequestRange]
            BY <1>1, <1>2, <2>3, CompleteType DEF Inv
        <3>2. loop' \in {"idle", "ready", "gathering"}
            BY <1>2, <2>3 DEF Inv, TypeOK, PerhapsScheduled, Scheduled
        <3> QED BY <1>2, <2>1, <2>3, <3>1, <3>2 DEF Inv, TypeOK, TaskRange, RunRange,
                   SessionRange, BindingRange, RequestRange, nodeVars
    <2> QED BY <2>2, <2>3
<1>4. LoopInv'
    <2>1. loop' = loop \/ loop' = Scheduled(loop)
        BY <1>2 DEF PerhapsScheduled
    <2>2. \A u \in Task :
              \/ task'[u] = task[u]
              \/ task[u] # "absent" /\ task'[u] \in {"paused", "cancelled"}
        BY <1>2 DEF Inv, TypeOK
    <2>3. UNCHANGED <<attempts, co, owed>>
        BY <1>2
    <2> QED BY <2>1, <2>2, <2>3 DEF Inv, LoopInv, Budget, AbsentIsFresh, CoroutinesAreGathered,
               RunningHasReader, NoLostWakeup, RunnableTasks, Runnable, Scheduled
<1>5. StreamInv'
    BY <1>2, StreamUnchanged DEF Inv, SameReaders, nodeVars
<1> QED BY <1>3, <1>4, <1>5 DEF Inv

\* A step that leaves tasks and coroutines alone may only wake the loop.
LEMMA LoopKept ==
    ASSUME LoopInv, UNCHANGED <<task, attempts, co, owed>>,
           loop' = loop \/ loop' = Scheduled(loop)
    PROVE  LoopInv'
BY DEF LoopInv, Budget, AbsentIsFresh, CoroutinesAreGathered, RunningHasReader,
       NoLostWakeup, RunnableTasks, Scheduled

LEMMA CommandSentInv ==
    ASSUME Inv, NEW c \in commands, CommandSent(c)
    PROVE  Inv'
<1>1. c.kind \in {"pause", "cancel"} /\ c.task \in Task /\ c.run \in Run
    BY DEF Inv, TypeOK, Command
<1>2. /\ run' \in [Run -> RunRange]
      /\ session' \in [Persona -> SessionRange]
      /\ binding' \in [Task -> BindingRange]
      /\ request' \in [Run -> RequestRange]
    BY <1>1, CompleteType DEF Inv, CommandSent
<1>3. TypeOK'
    <2>1. /\ remote' \in [Run -> {"none", "starting", "running", "stopping", "waiting"}]
          /\ loop' \in {"idle", "ready", "gathering"}
          /\ commands' \subseteq Command
        BY <1>1 DEF Inv, TypeOK, CommandSent, PerhapsScheduled, Scheduled
    <2> QED BY <1>2, <2>1 DEF Inv, TypeOK, CommandSent, RunRange, SessionRange, BindingRange,
               RequestRange
<1>4. LoopInv'
    BY LoopKept DEF Inv, CommandSent, PerhapsScheduled
<1>5. StreamInv'
    BY StreamUnchanged DEF Inv, SameReaders, CommandSent
<1> QED BY <1>3, <1>4, <1>5 DEF Inv

LEMMA CommandSendFailedInv ==
    ASSUME Inv, NEW c \in commands, CommandSendFailed(c)
    PROVE  Inv'
<1> DEFINE n == NodeOf[Bro(c.run)]
<1>1. c.kind \in {"pause", "cancel"} /\ c.task \in Task /\ c.run \in Run
    BY DEF Inv, TypeOK, Command
<1>2. /\ run' \in [Run -> RunRange]
      /\ session' \in [Persona -> SessionRange]
      /\ binding' \in [Task -> BindingRange]
      /\ request' \in [Run -> RequestRange]
    BY <1>1, CompleteType DEF Inv, CommandSendFailed
<1>3. LoseConnection(n)
    BY DEF CommandSendFailed
<1>4. TypeOK'
    <2>1. loop' \in {"idle", "ready", "gathering"} /\ commands' \subseteq Command
        BY DEF Inv, TypeOK, CommandSendFailed, PerhapsScheduled, Scheduled
    <2>2. UNCHANGED <<task, persona, attempts, co, owed, answers>>
        BY DEF CommandSendFailed
    <2> HIDE DEF n
    <2> QED BY <1>2, <1>3, <2>1, <2>2, LoseConnectionType DEF Inv, TypeOK, RunRange,
               SessionRange, BindingRange, RequestRange
<1>5. LoopInv'
    BY LoopKept DEF Inv, CommandSendFailed, PerhapsScheduled
<1>6. StreamInv'
    BY <1>3, LoseConnectionStream DEF Inv, SameReaders, CommandSendFailed
<1> QED BY <1>4, <1>5, <1>6 DEF Inv

\* A task is made runnable within the bound, and the loop is woken or will be.
LEMMA RequeuedTask ==
    ASSUME TypeOK, LoopInv, NEW t \in Task, CanRequeue(t),
           task' = [task EXCEPT ![t] = "queued"],
           UNCHANGED <<attempts, co>>,
           \/ loop' = Scheduled(loop) /\ UNCHANGED owed
           \/ owed' = owed \cup {t} /\ UNCHANGED loop
    PROVE  LoopInv'
<1>1. \A u \in Task : task'[u] = IF u = t THEN "queued" ELSE task[u]
    BY DEF TypeOK
<1>2. Budget'
    BY <1>1 DEF LoopInv, Budget, CanRequeue
<1>3. AbsentIsFresh'
    BY <1>1 DEF LoopInv, AbsentIsFresh
<1>4. CoroutinesAreGathered'
    BY DEF TypeOK, LoopInv, CoroutinesAreGathered, Scheduled
<1>5. RunningHasReader'
    BY <1>1 DEF LoopInv, RunningHasReader
<1>6. loop' # "idle" \/ owed' # {}
    BY DEF TypeOK, Scheduled
<1>7. NoLostWakeup'
    BY <1>6 DEF NoLostWakeup
<1> QED BY <1>2, <1>3, <1>4, <1>5, <1>7 DEF LoopInv

LEMMA RequeueTaskInv ==
    ASSUME Inv, NEW t \in Task, NEW kind \in {"resume", "retry"}, RequeueTask(kind, t)
    PROVE  Inv'
<1>1. /\ session' \in [Persona -> SessionRange]
      /\ binding' \in [Task -> BindingRange]
    <2>1. PersonaOf[t] \in Persona /\ "released" \in BindingRange
        BY DEF BindingRange
    <2> QED BY <2>1, ClearActiveType, UnclaimType DEF Inv, RequeueTask
<1>2. TypeOK'
    <2>1. task' \in [Task -> TaskRange]
        BY DEF Inv, TypeOK, RequeueTask, TaskRange, TaskStatus
    <2>2. loop' \in {"idle", "ready", "gathering"} /\ owed' \subseteq Task
        BY DEF Inv, TypeOK, RequeueTask, WakeLoop, Scheduled
    <2>3. UNCHANGED <<persona, run, attempts, co, commands, askVars, nodeVars>>
        BY DEF RequeueTask
    <2> QED BY <1>1, <2>1, <2>2, <2>3 DEF Inv, TypeOK, TaskRange, SessionRange, BindingRange,
               askVars, nodeVars
<1>3. LoopInv'
    BY RequeuedTask DEF Inv, RequeueTask, WakeLoop
<1>4. StreamInv'
    BY StreamUnchanged DEF Inv, SameReaders, RequeueTask, nodeVars
<1> QED BY <1>2, <1>3, <1>4 DEF Inv

LEMMA IngestAgentEventInv ==
    ASSUME Inv, NEW t \in Task, NEW status \in {"waiting_user_input", "completed"},
           IngestAgentEvent(t, status)
    PROVE  Inv'
<1>1. TypeOK'
    BY DEF Inv, TypeOK, IngestAgentEvent, TaskStatus, loopVars, askVars, nodeVars
<1>2. LoopInv'
    BY DEF Inv, TypeOK, IngestAgentEvent, LoopInv, Budget, AbsentIsFresh,
           CoroutinesAreGathered, RunningHasReader, NoLostWakeup, RunnableTasks, Runnable,
           loopVars
<1>3. StreamInv'
    BY StreamUnchanged DEF Inv, SameReaders, IngestAgentEvent, loopVars, nodeVars
<1> QED BY <1>1, <1>2, <1>3 DEF Inv

LEMMA RaiseRequestInv ==
    ASSUME Inv, NEW r \in Run, RaiseRequest(r)
    PROVE  Inv'
<1>1. TypeOK'
    BY DEF Inv, TypeOK, RaiseRequest, boardVars, loopVars, nodeVars
<1>2. LoopInv'
    BY LoopKept DEF Inv, RaiseRequest, boardVars, loopVars
<1>3. StreamInv'
    BY StreamUnchanged DEF Inv, SameReaders, RaiseRequest, boardVars, loopVars, nodeVars
<1> QED BY <1>1, <1>2, <1>3 DEF Inv

\* What the follow-up to an answer keeps.
LEMMA FollowUpFacts ==
    ASSUME TypeOK, LoopInv, NEW r \in Run, FollowUp(r)
    PROVE  /\ task' \in [Task -> TaskRange]
           /\ session' \in [Persona -> SessionRange]
           /\ binding' \in [Task -> BindingRange]
           /\ loop' \in {"idle", "ready", "gathering"}
           /\ LoopInv'
<1>1. r[1] \in Task /\ PersonaOf[r[1]] \in Persona /\ "released" \in BindingRange
    BY DEF Run, BindingRange
<1>2. task' \in [Task -> TaskRange]
    BY <1>1 DEF TypeOK, FollowUp, TaskRange, TaskStatus
<1>3. session' \in [Persona -> SessionRange] /\ binding' \in [Task -> BindingRange]
    BY <1>1, ClearActiveType, UnclaimType DEF FollowUp
<1>4. loop' \in {"idle", "ready", "gathering"}
    BY DEF TypeOK, FollowUp, Scheduled
<1>5. LoopInv'
    BY <1>1, RequeuedTask DEF FollowUp
<1> QED BY <1>2, <1>3, <1>4, <1>5

LEMMA ResolveRequestInv ==
    ASSUME Inv, NEW r \in Run, ResolveRequest(r)
    PROVE  Inv'
<1>1. /\ request' \in [Run -> RequestRange]
      /\ UNCHANGED <<commands, nodeVars>>
    BY DEF Inv, TypeOK, ResolveRequest, RequestRange
<1>2. CASE answers' = answers \cup {r} /\ UNCHANGED <<boardVars, loopVars>>
    <2>1. TypeOK'
        BY <1>1, <1>2 DEF Inv, TypeOK, RequestRange, boardVars, loopVars, nodeVars
    <2>2. LoopInv'
        BY <1>2, LoopKept DEF Inv, boardVars, loopVars
    <2>3. StreamInv'
        BY <1>1, <1>2, StreamUnchanged DEF Inv, SameReaders, boardVars, loopVars, nodeVars
    <2> QED BY <2>1, <2>2, <2>3 DEF Inv
<1>3. CASE FollowUp(r) /\ UNCHANGED answers
    <2>1. UNCHANGED <<persona, run, attempts, co, owed>>
        BY <1>3 DEF FollowUp
    <2>2. TypeOK'
        BY <1>1, <1>3, <2>1, FollowUpFacts DEF Inv, TypeOK, TaskRange, SessionRange,
           BindingRange, RequestRange, nodeVars
    <2>3. LoopInv'
        BY <1>3, FollowUpFacts DEF Inv
    <2>4. StreamInv'
        BY <1>1, <2>1, StreamUnchanged DEF Inv, SameReaders, nodeVars
    <2> QED BY <2>2, <2>3, <2>4 DEF Inv
<1> QED BY <1>2, <1>3 DEF ResolveRequest

LEMMA AnswerSentInv ==
    ASSUME Inv, NEW r \in Run, AnswerSent(r)
    PROVE  Inv'
<1>1. TypeOK'
    BY DEF Inv, TypeOK, AnswerSent, Scheduled, boardVars
<1>2. LoopInv'
    BY LoopKept DEF Inv, AnswerSent, boardVars
<1>3. StreamInv'
    BY StreamUnchanged DEF Inv, SameReaders, AnswerSent, boardVars
<1> QED BY <1>1, <1>2, <1>3 DEF Inv

LEMMA AnswerSendFailedInv ==
    ASSUME Inv, NEW r \in Run, AnswerSendFailed(r)
    PROVE  Inv'
<1>1. /\ LoseConnection(TaskNode(r[1]))
      /\ FollowUp(r)
      /\ answers' = answers \ {r}
      /\ UNCHANGED <<commands, request>>
    BY DEF AnswerSendFailed
<1>2. UNCHANGED <<persona, run, attempts, co, owed>>
    BY <1>1 DEF FollowUp
<1>3. TypeOK'
    BY <1>1, <1>2, FollowUpFacts, LoseConnectionType DEF Inv, TypeOK, TaskRange, SessionRange,
       BindingRange
<1>4. LoopInv'
    BY <1>1, FollowUpFacts DEF Inv
<1>5. StreamInv'
    BY <1>1, <1>2, LoseConnectionStream DEF Inv, SameReaders
<1> QED BY <1>3, <1>4, <1>5 DEF Inv

LEMMA NodeStartInv ==
    ASSUME Inv, NEW r \in Run, NodeStart(r)
    PROVE  Inv'
<1>1. TypeOK'
    BY DEF Inv, TypeOK, NodeStart, boardVars, loopVars, askVars
<1>2. LoopInv'
    BY LoopKept DEF Inv, NodeStart, boardVars, loopVars
<1>3. StreamInv'
    BY StreamUnchanged DEF Inv, SameReaders, NodeStart, boardVars, loopVars
<1> QED BY <1>1, <1>2, <1>3 DEF Inv

\* Appending to a queue keeps the event that ends the stream.
LEMMA NodeEmitInv ==
    ASSUME Inv, NEW r \in Run, NEW e \in EventType, NodeEmit(r, e)
    PROVE  Inv'
<1>1. UNCHANGED <<boardVars, loopVars, commands, askVars, connected, greeting, registered>>
    BY DEF NodeEmit
<1>2. RemoteAfter(r, e) \in {"none", "starting", "running", "stopping", "waiting"}
    <2>1. CASE e = "blocked"
        BY <2>1 DEF RemoteAfter
    <2>2. CASE e # "blocked" /\ e \in FinishedRun
        BY <2>2 DEF RemoteAfter
    <2>3. CASE e # "blocked" /\ e \notin FinishedRun
        BY <2>3 DEF RemoteAfter, Inv, TypeOK
    <2> QED BY <2>1, <2>2, <2>3
<1>3. remote' \in [Run -> {"none", "starting", "running", "stopping", "waiting"}]
    BY <1>2 DEF Inv, TypeOK, NodeEmit
<1>4. /\ queue' \in [Run -> Seq(EventType)]
      /\ \A s \in Run : StreamEndQueued(s) => StreamEndQueued(s)'
    <2>1. CASE UNCHANGED queue
        BY <2>1 DEF Inv, TypeOK, StreamEndQueued
    <2>2. CASE queue' = [queue EXCEPT ![r] = Append(@, e)]
        <3>1. queue[r] \in Seq(EventType)
            BY DEF Inv, TypeOK
        <3>2. /\ queue'[r] = Append(queue[r], e)
              /\ \A s \in Run \ {r} : queue'[s] = queue[s]
            BY <2>2 DEF Inv, TypeOK
        <3>3. queue' \in [Run -> Seq(EventType)]
            BY <2>2, <3>1 DEF Inv, TypeOK
        <3>4. ASSUME StreamEndQueued(r) PROVE StreamEndQueued(r)'
            <4>1. PICK i \in 1 .. Len(queue[r]) : queue[r][i] \in TerminalEvents
                BY <3>4 DEF StreamEndQueued
            <4>2. i \in 1 .. Len(queue'[r]) /\ queue'[r][i] = queue[r][i]
                BY <3>1, <3>2
            <4> QED BY <4>1, <4>2 DEF StreamEndQueued
        <3>5. \A s \in Run \ {r} : StreamEndQueued(s) => StreamEndQueued(s)'
            BY <3>2 DEF StreamEndQueued
        <3> QED BY <3>3, <3>4, <3>5
    <2> QED BY <2>1, <2>2 DEF NodeEmit
<1>5. TypeOK'
    BY <1>1, <1>3, <1>4 DEF Inv, TypeOK, boardVars, loopVars, askVars
<1>6. LoopInv'
    BY <1>1, LoopKept DEF Inv, boardVars, loopVars
<1>7. StreamInv'
    <2>1. UNCHANGED <<attempts, co, registered, connected>>
        BY <1>1 DEF boardVars, loopVars
    <2>2. StreamHasRun' /\ RegisteredIsConnected' /\ NoOrphanStream'
        BY <2>1 DEF Inv, StreamInv, StreamHasRun, RegisteredIsConnected, NoOrphanStream,
           CurrentRun, Bro
    <2>3. \A t \in Task : co[t] \in Live => CurrentRun(t) \in Run
        BY DEF Inv, TypeOK, StreamInv, StreamHasRun, CurrentRun, Run
    <2>4. \A t \in Task : CurrentRun(t)' = CurrentRun(t)
        BY <2>1 DEF CurrentRun
    <2>5. NoDeafReader'
        <3> SUFFICES ASSUME NEW t \in Task, co'[t] \in Live
                     PROVE  \/ CurrentRun(t)' \in registered' /\ TaskNode(t) \in connected'
                            \/ StreamEndQueued(CurrentRun(t))'
            BY DEF NoDeafReader, Live, TaskNode
        <3> DEFINE c == CurrentRun(t)
        <3>1. c \in Run /\ CurrentRun(t)' = c
            BY <2>1, <2>3, <2>4
        <3>2. (c \in registered /\ TaskNode(t) \in connected) \/ StreamEndQueued(c)
            BY <2>1 DEF Inv, StreamInv, NoDeafReader, Live
        <3>3. StreamEndQueued(c) => StreamEndQueued(CurrentRun(t))'
            BY <1>4, <3>1 DEF StreamEndQueued
        <3> QED BY <2>1, <3>1, <3>2, <3>3
    <2> QED BY <2>2, <2>5 DEF StreamInv
<1> QED BY <1>5, <1>6, <1>7 DEF Inv

LEMMA DisconnectInv ==
    ASSUME Inv, NEW n \in Node, Disconnect(n)
    PROVE  Inv'
<1>1. TypeOK'
    BY LoseConnectionType DEF Inv, TypeOK, Disconnect, boardVars, loopVars, askVars
<1>2. LoopInv'
    BY LoopKept DEF Inv, Disconnect, boardVars, loopVars
<1>3. StreamInv'
    BY LoseConnectionStream DEF Inv, SameReaders, Disconnect, boardVars, loopVars
<1> QED BY <1>1, <1>2, <1>3 DEF Inv

LEMMA ConnectInv ==
    ASSUME Inv, NEW n \in Node, Connect(n)
    PROVE  Inv'
<1>1. TypeOK'
    BY DEF Inv, TypeOK, Connect, boardVars, loopVars, askVars
<1>2. LoopInv'
    BY LoopKept DEF Inv, Connect, boardVars, loopVars
<1>3. StreamInv'
    <2>1. connected \subseteq connected' /\ UNCHANGED <<attempts, co, registered, queue>>
        BY DEF Connect, boardVars, loopVars
    <2>2. StreamHasRun' /\ RegisteredIsConnected' /\ NoOrphanStream'
        BY <2>1 DEF Inv, StreamInv, StreamHasRun, RegisteredIsConnected, NoOrphanStream,
           CurrentRun, Bro
    <2>3. NoDeafReader'
        BY <2>1 DEF Inv, StreamInv, NoDeafReader, StreamEndQueued, CurrentRun, TaskNode
    <2> QED BY <2>2, <2>3 DEF StreamInv
<1> QED BY <1>1, <1>2, <1>3 DEF Inv

LEMMA NodeConnectedInv ==
    ASSUME Inv, NEW n \in Node, NodeConnected(n)
    PROVE  Inv'
<1>1. /\ greeting' = greeting \ {n}
      /\ \A t \in Task : task'[t] = IF t \in Parked THEN "queued" ELSE task[t]
      /\ task' \in [Task -> TaskRange]
      /\ loop' = IF Parked = {} THEN loop ELSE Scheduled(loop)
      /\ UNCHANGED <<persona, run, attempts, session, binding, co, owed, commands, askVars,
                     connected, registered, queue, remote>>
    BY DEF Inv, TypeOK, NodeConnected, TaskRange, TaskStatus
<1>2. \A t \in Parked : t \in Task /\ task[t] = "waiting_executor" /\ attempts[t] < MaxRuns
    BY DEF Parked, CanRequeue
<1>3. TypeOK'
    BY <1>1 DEF Inv, TypeOK, TaskRange, Scheduled, askVars
<1>4. LoopInv'
    <2>1. Budget' /\ AbsentIsFresh' /\ RunningHasReader'
        BY <1>1, <1>2 DEF Inv, LoopInv, Budget, AbsentIsFresh, RunningHasReader
    <2>2. CoroutinesAreGathered'
        BY <1>1 DEF Inv, TypeOK, LoopInv, CoroutinesAreGathered, Scheduled
    <2>3. NoLostWakeup'
        <3>1. CASE Parked = {}
            <4>1. UNCHANGED <<RunnableTasks, loop, owed>>
                BY <1>1, <3>1 DEF RunnableTasks
            <4> QED BY <4>1 DEF Inv, LoopInv, NoLostWakeup
        <3>2. CASE Parked # {}
            <4>1. loop' # "idle"
                BY <1>1, <3>2 DEF Inv, TypeOK, Scheduled
            <4> QED BY <4>1 DEF NoLostWakeup
        <3> QED BY <3>1, <3>2
    <2> QED BY <2>1, <2>2, <2>3 DEF LoopInv
<1>5. StreamInv'
    BY <1>1, StreamUnchanged DEF Inv, SameReaders
<1> QED BY <1>3, <1>4, <1>5 DEF Inv

-----------------------------------------------------------------------------
(* The theorems *)

\* The session starts with no task, no run and no connected node.
LEMMA InitInv == Init => Inv
<1> SUFFICES ASSUME Init PROVE Inv
    OBVIOUS
<1>1. TypeOK
    <2>1. [active |-> NoRun, latest |-> NoRun] \in SessionRange
        BY DEF SessionRange
    <2>2. <<>> \in Seq(EventType)
        OBVIOUS
    <2> QED BY <2>1, <2>2 DEF Init, TypeOK, SessionRange
<1>2. LoopInv
    BY DEF Init, LoopInv, Budget, AbsentIsFresh, CoroutinesAreGathered, RunningHasReader,
       NoLostWakeup, RunnableTasks, Runnable
<1>3. StreamInv
    BY DEF Init, StreamInv, StreamHasRun, RegisteredIsConnected, NoOrphanStream,
       NoDeafReader, Live
<1> QED BY <1>1, <1>2, <1>3 DEF Inv

\* Every step of the server, of a user or of a node keeps the invariant.
LEMMA NextInv == Inv /\ [Next]_vars => Inv'
<1> SUFFICES ASSUME Inv, [Next]_vars PROVE Inv'
    OBVIOUS
<1>1. CASE \E t \in Task : CreateTask(t) \/ SendDraft(t)
    BY <1>1, NewTaskInv DEF CreateTask, SendDraft, Runnable
<1>2. CASE \E t \in Task : ScheduleExecution(t)
    BY <1>2, ScheduleExecutionInv
<1>3. CASE Tick \/ EndTick
    BY <1>3, TickInv, EndTickInv
<1>4. CASE \E t \in Task : Execute(t)
    BY <1>4, FailUnknownExecutorInv, StartWithoutNodeInv, StartDispatchInv, DispatchSentInv,
       DispatchFailedInv, ReadEventInv, FinishRunInv DEF Execute
<1>5. CASE \E t \in Task, kind \in {"pause", "cancel"} : StopTask(kind, t)
    BY <1>5, StopTaskInv
<1>6. CASE \E c \in commands : CommandSent(c) \/ CommandSendFailed(c)
    BY <1>6, CommandSentInv, CommandSendFailedInv
<1>7. CASE \E t \in Task, kind \in {"resume", "retry"} : RequeueTask(kind, t)
    BY <1>7, RequeueTaskInv
<1>8. CASE \E t \in Task, status \in {"waiting_user_input", "completed"} :
               IngestAgentEvent(t, status)
    BY <1>8, IngestAgentEventInv
<1>9. CASE \E r \in Run :
               RaiseRequest(r) \/ ResolveRequest(r) \/ AnswerSent(r) \/ AnswerSendFailed(r)
    BY <1>9, RaiseRequestInv, ResolveRequestInv, AnswerSentInv, AnswerSendFailedInv
<1>10. CASE \E r \in Run, e \in EventType : NodeEmit(r, e)
    BY <1>10, NodeEmitInv
<1>11. CASE \E r \in Run : NodeStart(r)
    BY <1>11, NodeStartInv
<1>12. CASE \E n \in Node : Disconnect(n) \/ Connect(n) \/ NodeConnected(n)
    BY <1>12, DisconnectInv, ConnectInv, NodeConnectedInv
<1>13. CASE UNCHANGED vars
    <2>1. TypeOK' /\ UNCHANGED <<task, attempts, co, owed, loop, registered, queue, connected>>
        BY <1>13 DEF vars, Inv, TypeOK
    <2>2. LoopInv'
        BY <2>1, LoopKept DEF Inv
    <2>3. StreamInv'
        BY <2>1, StreamUnchanged DEF Inv, SameReaders
    <2> QED BY <2>1, <2>2, <2>3 DEF Inv
<1> QED BY <1>1, <1>2, <1>3, <1>4, <1>5, <1>6, <1>7, <1>8, <1>9, <1>10, <1>11, <1>12, <1>13
        DEF Next

\* Inv is an invariant of the execution core.
THEOREM Invariance == Spec => []Inv
<1> QED BY InitInv, NextInv, PTL DEF Spec

\* Every variable of the execution core keeps its type: statuses stay within the
\* enumerations, runs within the bound, and a greeting node stays connected.
THEOREM TypeCorrect == Spec => []TypeOK
<1>1. Inv => TypeOK
    BY DEF Inv
<1> QED BY <1>1, Invariance, PTL

\* schedule_execution and the loop that ends by itself never strand a runnable
\* task, for any number of tasks, bros and nodes.
THEOREM Wakeups == Spec => []NoLostWakeup
<1>1. Inv => NoLostWakeup
    BY DEF Inv, LoopInv
<1> QED BY <1>1, Invariance, PTL

\* A task in status running always has the coroutine that reads its stream.
THEOREM RunningTasksAreRead == Spec => []RunningHasReader
<1>1. Inv => RunningHasReader
    BY DEF Inv, LoopInv
<1> QED BY <1>1, Invariance, PTL

\* No reader waits for a run that nobody will ever write to.
THEOREM ReadersAreWoken == Spec => []NoDeafReader
<1>1. Inv => NoDeafReader
    BY DEF Inv, StreamInv
<1> QED BY <1>1, Invariance, PTL

\* Every registered run belongs to a coroutine that reads it, so a task never has
\* two live streams.
THEOREM StreamsAreOwned == Spec => [](NoOrphanStream /\ OneStreamPerTask)
<1>1. Inv => NoOrphanStream
    BY DEF Inv, StreamInv
<1>2. NoOrphanStream => OneStreamPerTask
    BY DEF NoOrphanStream, OneStreamPerTask, CurrentRun
<1> QED BY <1>1, <1>2, Invariance, PTL

-----------------------------------------------------------------------------
(***************************************************************************)
(* A bro and its tasks when the only command is a cancellation.            *)
(*                                                                         *)
(* Nothing keeps a bro to one task but its status in create_task and       *)
(* send_draft, and what follows holds only as long as no command brings    *)
(* back a task that has left its bro: RETRY_TASK requeues a finished task, *)
(* PAUSE_TASK pauses one, an agent event or the follow-up of an answer     *)
(* revives one, all without a look at the bro.  Hence the assumption.      *)
(***************************************************************************)

OnlyCancels == Commands \subseteq {"cancel"}

\* A task occupies its bro while it is unfinished and while its coroutine runs.
Engaged(t) == task[t] \in ActiveTask \/ co[t] # "none"

NothingElseIsSent ==
    /\ answers = {}
    /\ \A c \in commands : c.kind = "cancel"

EngagedIsBusy == \A t \in Task : Engaged(t) => persona[PersonaOf[t]] = "busy"

OneEngaged ==
    \A t, u \in Task : Engaged(t) /\ Engaged(u) /\ PersonaOf[t] = PersonaOf[u] => t = u

\* The task of a coroutine neither waits for the user nor has finished.
WorkingStatus == {"created", "queued", "running", "waiting_executor", "paused", "cancelled"}
WorkersAreUnfinished == \A t \in Task : co[t] # "none" => task[t] \in WorkingStatus

\* The session of r's bro would have a command act on r, or on nothing.
Shown(r) == session[Bro(r)].latest = r /\ session[Bro(r)].active \in {r, NoRun}

ReadersAreShown == \A t \in Task : co[t] \in Live => Shown(CurrentRun(t))

BlockedWaits ==
    \A r \in Run : run[r] = "blocked" =>
        task[r[1]] = "waiting_user_input" /\ attempts[r[1]] # 0 /\ Shown(r)

\* A question is open, or on its way, only once the coroutine has ended.
QuestionsAreAtRest ==
    \A r \in Run : request[r] \in {"noted", "pending"} =>
        co[r[1]] = "none" /\ task[r[1]] \in {"waiting_user_input", "cancelled"}

CancelInv ==
    /\ NothingElseIsSent
    /\ EngagedIsBusy
    /\ OneEngaged
    /\ WorkersAreUnfinished
    /\ ReadersAreShown
    /\ BlockedWaits
    /\ QuestionsAreAtRest
    /\ NoQuestionForCancelled

\* Steps that only move streams, connections and the loop.
LEMMA CancelKept ==
    ASSUME TypeOK, CancelInv,
           UNCHANGED <<task, persona, run, attempts, session, commands, request, answers>>,
           \A t \in Task : /\ co'[t] = "none" <=> co[t] = "none"
                           /\ co'[t] \in Live <=> co[t] \in Live
    PROVE  CancelInv'
<1>1. NothingElseIsSent' /\ EngagedIsBusy' /\ OneEngaged' /\ WorkersAreUnfinished'
    BY DEF CancelInv, NothingElseIsSent, EngagedIsBusy, OneEngaged, WorkersAreUnfinished, Engaged
<1>2. ReadersAreShown' /\ BlockedWaits'
    BY DEF CancelInv, ReadersAreShown, BlockedWaits, Shown, Bro, CurrentRun
<1>3. QuestionsAreAtRest' /\ NoQuestionForCancelled'
    BY DEF CancelInv, QuestionsAreAtRest, NoQuestionForCancelled, Run
<1> QED BY <1>1, <1>2, <1>3 DEF CancelInv

LEMMA CancelFrame ==
    ASSUME Inv, CancelInv,
           \/ \E t \in Task : ScheduleExecution(t) \/ DispatchSent(t) \/ DispatchFailed(t)
           \/ EndTick
           \/ \E r \in Run : NodeStart(r) \/ \E e \in EventType : NodeEmit(r, e)
           \/ \E n \in Node : Disconnect(n) \/ Connect(n)
           \/ UNCHANGED vars
    PROVE  CancelInv'
<1> SUFFICES
        /\ UNCHANGED <<task, persona, run, attempts, session, commands, request, answers>>
        /\ \A t \in Task : /\ co'[t] = "none" <=> co[t] = "none"
                           /\ co'[t] \in Live <=> co[t] \in Live
    BY CancelKept DEF Inv
<1>1. CASE \E t \in Task : ScheduleExecution(t)
    BY <1>1 DEF ScheduleExecution, boardVars, askVars
<1>2. CASE \E t \in Task : DispatchSent(t) \/ DispatchFailed(t)
    BY <1>2 DEF DispatchSent, DispatchFailed, Inv, TypeOK, Live, boardVars, askVars
<1>3. CASE EndTick
    BY <1>3 DEF EndTick, boardVars, askVars
<1>4. CASE \E r \in Run : NodeStart(r) \/ \E e \in EventType : NodeEmit(r, e)
    BY <1>4 DEF NodeStart, NodeEmit, boardVars, loopVars, askVars
<1>5. CASE \E n \in Node : Disconnect(n) \/ Connect(n)
    BY <1>5 DEF Disconnect, Connect, boardVars, loopVars, askVars
<1>6. CASE UNCHANGED vars
    BY <1>6 DEF vars
<1> QED BY <1>1, <1>2, <1>3, <1>4, <1>5, <1>6

\* Only an idle bro is given a task, so the bro has no other.
LEMMA CancelNewTask ==
    ASSUME Inv, CancelInv, NEW t \in Task, NEW status \in Runnable, NewTask(t, status)
    PROVE  CancelInv'
<1>1. /\ task[t] = "absent" /\ co[t] = "none"
      /\ persona[PersonaOf[t]] = "idle"
      /\ task' = [task EXCEPT ![t] = status]
      /\ persona' = [persona EXCEPT ![PersonaOf[t]] = "busy"]
      /\ UNCHANGED <<run, attempts, session, co, commands, request, answers>>
    BY DEF NewTask, MayAssign, askVars, Inv, LoopInv, AbsentIsFresh
<1>2. \A u \in Task : Engaged(u)' => u = t \/ Engaged(u)
    BY <1>1 DEF Inv, TypeOK, Engaged
<1>3. \A u \in Task : Engaged(u) => PersonaOf[u] # PersonaOf[t]
    BY <1>1 DEF CancelInv, EngagedIsBusy
<1>4. NothingElseIsSent' /\ WorkersAreUnfinished'
    BY <1>1 DEF Inv, TypeOK, CancelInv, NothingElseIsSent, WorkersAreUnfinished
<1>5. EngagedIsBusy'
    BY <1>1, <1>2 DEF Inv, TypeOK, CancelInv, EngagedIsBusy
<1>6. OneEngaged'
    BY <1>2, <1>3 DEF CancelInv, OneEngaged
<1>7. ReadersAreShown'
    BY <1>1 DEF CancelInv, ReadersAreShown, Shown, Bro, CurrentRun
<1>8. BlockedWaits'
    BY <1>1 DEF Inv, TypeOK, CancelInv, BlockedWaits, Shown, Bro, Run
<1>9. QuestionsAreAtRest' /\ NoQuestionForCancelled'
    BY <1>1 DEF Inv, TypeOK, CancelInv, QuestionsAreAtRest, NoQuestionForCancelled, Run, Runnable
<1> QED BY <1>4, <1>5, <1>6, <1>7, <1>8, <1>9 DEF CancelInv

LEMMA CancelTick ==
    ASSUME Inv, CancelInv, Tick
    PROVE  CancelInv'
<1>1. /\ \A t \in Task : co[t] = "none"
      /\ UNCHANGED <<task, persona, run, attempts, session, commands, request, answers>>
    BY DEF Tick, askVars, Inv, LoopInv, CoroutinesAreGathered
<1>2. CASE RunnableTasks = {}
    <2>1. UNCHANGED co
        BY <1>2 DEF Tick
    <2> QED BY <1>1, <2>1, CancelKept DEF Inv
<1>3. CASE RunnableTasks # {}
    <2>1. \A t \in Task : co'[t] = IF task[t] \in Runnable THEN "start" ELSE "none"
        BY <1>1, <1>3 DEF Tick, RunnableTasks
    <2>2. \A t \in Task : Engaged(t)' <=> Engaged(t)
        BY <1>1, <2>1 DEF Engaged, Runnable, ActiveTask
    <2>3. NothingElseIsSent' /\ EngagedIsBusy' /\ OneEngaged'
        BY <1>1, <2>2 DEF CancelInv, NothingElseIsSent, EngagedIsBusy, OneEngaged
    <2>4. WorkersAreUnfinished' /\ ReadersAreShown'
        BY <1>1, <2>1 DEF WorkersAreUnfinished, ReadersAreShown, Runnable, WorkingStatus, Live
    <2>5. BlockedWaits'
        BY <1>1 DEF CancelInv, BlockedWaits, Shown, Bro
    <2>6. QuestionsAreAtRest' /\ NoQuestionForCancelled'
        BY <1>1, <2>1 DEF CancelInv, QuestionsAreAtRest, NoQuestionForCancelled, Run, Runnable
    <2> QED BY <2>3, <2>4, <2>5, <2>6 DEF CancelInv
<1> QED BY <1>2, <1>3

LEMMA CancelFailUnknown ==
    ASSUME Inv, CancelInv, NEW t \in Task, FailUnknownExecutor(t)
    PROVE  CancelInv'
<1>1. /\ co[t] = "start"
      /\ task' = [task EXCEPT ![t] = "failed"]
      /\ co' = [co EXCEPT ![t] = "none"]
      /\ UNCHANGED <<persona, run, attempts, session, commands, request, answers>>
    BY DEF FailUnknownExecutor, askVars
<1>2. \A u \in Task : Engaged(u)' => Engaged(u)
    BY <1>1 DEF Inv, TypeOK, Engaged, ActiveTask
<1>3. NothingElseIsSent' /\ EngagedIsBusy' /\ OneEngaged'
    BY <1>1, <1>2 DEF CancelInv, NothingElseIsSent, EngagedIsBusy, OneEngaged
<1>4. WorkersAreUnfinished'
    BY <1>1 DEF Inv, TypeOK, CancelInv, WorkersAreUnfinished
<1>5. ReadersAreShown'
    BY <1>1 DEF Inv, TypeOK, CancelInv, ReadersAreShown, Shown, Bro, CurrentRun, Live
<1>6. task[t] \in WorkingStatus
    BY <1>1 DEF CancelInv, WorkersAreUnfinished
<1>7. BlockedWaits'
    BY <1>1, <1>6 DEF Inv, TypeOK, CancelInv, BlockedWaits, Shown, Bro, Run, WorkingStatus
<1>8. QuestionsAreAtRest' /\ NoQuestionForCancelled'
    BY <1>1 DEF Inv, TypeOK, CancelInv, QuestionsAreAtRest, NoQuestionForCancelled, Run
<1> QED BY <1>3, <1>4, <1>5, <1>7, <1>8 DEF CancelInv

\* Of a bro's tasks only the one whose coroutine runs is engaged.
LEMMA AloneWithItsBro ==
    ASSUME Inv, CancelInv, NEW t \in Task, co[t] # "none"
    PROVE  /\ \A u \in Task : PersonaOf[u] = PersonaOf[t] /\ Engaged(u) => u = t
           /\ \A r \in Run : run[r] = "blocked" => Bro(r) # PersonaOf[t] /\ r[1] # t
<1>1. Engaged(t) /\ task[t] \in WorkingStatus
    BY DEF Engaged, CancelInv, WorkersAreUnfinished
<1>2. \A u \in Task : PersonaOf[u] = PersonaOf[t] /\ Engaged(u) => u = t
    BY <1>1 DEF CancelInv, OneEngaged
<1>3. ASSUME NEW r \in Run, run[r] = "blocked"
      PROVE  Bro(r) # PersonaOf[t] /\ r[1] # t
    <2>1. r[1] \in Task /\ task[r[1]] = "waiting_user_input"
        BY <1>3 DEF Run, CancelInv, BlockedWaits
    <2>2. Engaged(r[1]) /\ r[1] # t
        BY <1>1, <2>1 DEF Engaged, ActiveTask, WorkingStatus
    <2> QED BY <1>2, <2>1, <2>2 DEF Bro
<1> QED BY <1>2, <1>3

LEMMA CancelStartWithoutNode ==
    ASSUME Inv, CancelInv, NEW t \in Task, StartWithoutNode(t)
    PROVE  CancelInv'
<1> DEFINE r  == NewRun(t)
           st == ApplyEvent([task |-> task[t], run |-> "assigned"], "waiting_executor")
<1>1. /\ co[t] = "start"
      /\ attempts' = [attempts EXCEPT ![t] = @ + 1]
      /\ task' = [task EXCEPT ![t] = st.task]
      /\ run' = [run EXCEPT ![r] = st.run]
      /\ session' = [session EXCEPT ![PersonaOf[t]] =
                        [active |-> IF st.run = "waiting_executor" THEN NoRun ELSE r,
                         latest |-> r]]
      /\ co' = [co EXCEPT ![t] = "none"]
      /\ UNCHANGED <<persona, commands, request, answers>>
    BY DEF StartWithoutNode, askVars
<1>2. \/ st.task = task[t] /\ task[t] = "cancelled" /\ st.run = "assigned"
      \/ st.task = "waiting_executor" /\ st.run = "waiting_executor"
    BY DEF ApplyEvent, StatusAfter
<1>3. r \in Run /\ r[1] = t /\ Bro(r) = PersonaOf[t] /\ attempts[t] \in Nat
    BY <1>1 DEF Inv, TypeOK, LoopInv, Budget, NewRun, Run, Bro
<1> HIDE DEF st, r
<1>4. /\ \A u \in Task : PersonaOf[u] = PersonaOf[t] /\ Engaged(u) => u = t
      /\ \A q \in Run : run[q] = "blocked" => Bro(q) # PersonaOf[t] /\ q[1] # t
    BY <1>1, AloneWithItsBro
<1>5. \A u \in Task : Engaged(u)' => Engaged(u)
    BY <1>1, <1>2 DEF Inv, TypeOK, Engaged, ActiveTask
<1>6. NothingElseIsSent' /\ EngagedIsBusy' /\ OneEngaged'
    BY <1>1, <1>5 DEF CancelInv, NothingElseIsSent, EngagedIsBusy, OneEngaged
<1>7. WorkersAreUnfinished'
    BY <1>1 DEF Inv, TypeOK, CancelInv, WorkersAreUnfinished
<1>8. ReadersAreShown'
    <2> SUFFICES ASSUME NEW u \in Task, co'[u] \in Live
                 PROVE  Shown(CurrentRun(u))'
        BY DEF ReadersAreShown, Live
    <2>1. u # t /\ co[u] \in Live /\ Engaged(u)
        BY <1>1 DEF Inv, TypeOK, Live, Engaged
    <2>2. PersonaOf[u] # PersonaOf[t]
        BY <1>4, <2>1
    <2>3. CurrentRun(u)' = CurrentRun(u) /\ Bro(CurrentRun(u)) = PersonaOf[u]
        BY <1>1, <2>1 DEF Inv, TypeOK, CurrentRun, Bro
    <2>4. session'[PersonaOf[u]] = session[PersonaOf[u]]
        BY <1>1, <2>2 DEF Inv, TypeOK
    <2> QED BY <2>1, <2>3, <2>4 DEF CancelInv, ReadersAreShown, Shown, Bro
<1>9. BlockedWaits'
    <2> SUFFICES ASSUME NEW q \in Run, run'[q] = "blocked"
                 PROVE  task'[q[1]] = "waiting_user_input" /\ attempts'[q[1]] # 0 /\ Shown(q)'
        BY DEF BlockedWaits
    <2>1. run[q] = "blocked" /\ q[1] \in Task
        BY <1>1, <1>2, <1>3 DEF Inv, TypeOK, Run
    <2>2. Bro(q) # PersonaOf[t] /\ q[1] # t
        BY <1>4, <2>1
    <2>3. session'[Bro(q)] = session[Bro(q)] /\ task'[q[1]] = task[q[1]]
              /\ attempts'[q[1]] = attempts[q[1]]
        BY <1>1, <2>1, <2>2 DEF Inv, TypeOK, Bro
    <2> QED BY <2>1, <2>3 DEF CancelInv, BlockedWaits, Shown, Bro
<1>10. \A q \in Run : request[q] \in {"noted", "pending"} => q[1] # t
    BY <1>1 DEF CancelInv, QuestionsAreAtRest
<1>11. QuestionsAreAtRest' /\ NoQuestionForCancelled'
    BY <1>1, <1>10 DEF Inv, TypeOK, CancelInv, QuestionsAreAtRest, NoQuestionForCancelled, Run
<1> QED BY <1>6, <1>7, <1>8, <1>9, <1>11 DEF CancelInv

LEMMA CancelStartDispatch ==
    ASSUME Inv, CancelInv, NEW t \in Task, StartDispatch(t)
    PROVE  CancelInv'
<1> DEFINE r == NewRun(t)
<1>1. /\ co[t] = "start"
      /\ attempts' = [attempts EXCEPT ![t] = @ + 1]
      /\ run' = [run EXCEPT ![r] = "assigned"]
      /\ session' = [session EXCEPT ![PersonaOf[t]] = [active |-> r, latest |-> r]]
      /\ co' = [co EXCEPT ![t] = "dispatching"]
      /\ UNCHANGED <<task, persona, commands, request, answers>>
    BY DEF StartDispatch, askVars
<1>2. /\ r \in Run /\ r[1] = t /\ Bro(r) = PersonaOf[t] /\ attempts[t] \in Nat
      /\ CurrentRun(t)' = r
    BY <1>1 DEF Inv, TypeOK, LoopInv, Budget, NewRun, CurrentRun, Run, Bro
<1> HIDE DEF r
<1>3. /\ \A u \in Task : PersonaOf[u] = PersonaOf[t] /\ Engaged(u) => u = t
      /\ \A q \in Run : run[q] = "blocked" => Bro(q) # PersonaOf[t] /\ q[1] # t
    BY <1>1, AloneWithItsBro
<1>4. \A u \in Task : Engaged(u)' => Engaged(u)
    BY <1>1 DEF Inv, TypeOK, Engaged
<1>5. NothingElseIsSent' /\ EngagedIsBusy' /\ OneEngaged'
    BY <1>1, <1>4 DEF CancelInv, NothingElseIsSent, EngagedIsBusy, OneEngaged
<1>6. WorkersAreUnfinished'
    BY <1>1 DEF Inv, TypeOK, CancelInv, WorkersAreUnfinished
<1>7. ReadersAreShown'
    <2> SUFFICES ASSUME NEW u \in Task, co'[u] \in Live
                 PROVE  Shown(CurrentRun(u))'
        BY DEF ReadersAreShown, Live
    <2>1. CASE u = t
        <3>1. session'[PersonaOf[t]] = [active |-> r, latest |-> r]
            BY <1>1 DEF Inv, TypeOK
        <3>2. PersonaOf[r[1]] = PersonaOf[t]
            BY <1>2
        <3> QED BY <1>2, <2>1, <3>1, <3>2 DEF Shown, Bro
    <2>2. CASE u # t
        <3>1. co[u] \in Live /\ Engaged(u)
            BY <1>1, <2>2 DEF Inv, TypeOK, Live, Engaged
        <3>2. PersonaOf[u] # PersonaOf[t]
            BY <1>3, <2>2, <3>1
        <3>3. CurrentRun(u)' = CurrentRun(u) /\ Bro(CurrentRun(u)) = PersonaOf[u]
            BY <1>1, <2>2 DEF Inv, TypeOK, CurrentRun, Bro
        <3>4. session'[PersonaOf[u]] = session[PersonaOf[u]]
            BY <1>1, <3>2 DEF Inv, TypeOK
        <3> QED BY <3>1, <3>3, <3>4 DEF CancelInv, ReadersAreShown, Shown, Bro
    <2> QED BY <2>1, <2>2
<1>8. BlockedWaits'
    <2> SUFFICES ASSUME NEW q \in Run, run'[q] = "blocked"
                 PROVE  task'[q[1]] = "waiting_user_input" /\ attempts'[q[1]] # 0 /\ Shown(q)'
        BY DEF BlockedWaits
    <2>1. run[q] = "blocked" /\ q[1] \in Task
        BY <1>1, <1>2 DEF Inv, TypeOK, Run
    <2>2. Bro(q) # PersonaOf[t] /\ q[1] # t
        BY <1>3, <2>1
    <2>3. session'[Bro(q)] = session[Bro(q)] /\ attempts'[q[1]] = attempts[q[1]]
        BY <1>1, <2>1, <2>2 DEF Inv, TypeOK, Bro
    <2> QED BY <1>1, <2>1, <2>3 DEF CancelInv, BlockedWaits, Shown, Bro
<1>9. \A q \in Run : request[q] \in {"noted", "pending"} => q[1] # t
    BY <1>1 DEF CancelInv, QuestionsAreAtRest
<1>10. QuestionsAreAtRest' /\ NoQuestionForCancelled'
    BY <1>1, <1>9 DEF Inv, TypeOK, CancelInv, QuestionsAreAtRest, NoQuestionForCancelled, Run
<1> QED BY <1>5, <1>6, <1>7, <1>8, <1>10 DEF CancelInv

\* Only a stream that ends at a question leaves its run blocked.
LEMMA EventOfWorker ==
    ASSUME NEW s \in WorkingStatus, NEW q, NEW e \in EventType
    PROVE  LET st == ApplyEvent([task |-> s, run |-> q], e) IN
           \/ s = "cancelled" /\ st = [task |-> s, run |-> q]
           \/ st = StatusAfter(e)
BY DEF ApplyEvent

LEMMA CancelReadEvent ==
    ASSUME Inv, CancelInv, NEW t \in Task, ReadEvent(t)
    PROVE  CancelInv'
<1> DEFINE r  == CurrentRun(t)
           e  == Head(queue[r])
           st == ApplyEvent([task |-> task[t], run |-> run[r]], e)
<1>1. /\ co[t] = "reading"
      /\ queue[r] # <<>>
      /\ e \notin TerminalEvents
      /\ task' = [task EXCEPT ![t] = st.task]
      /\ run' = [run EXCEPT ![r] = st.run]
      /\ UNCHANGED <<persona, attempts, session, co, commands, request, answers>>
    BY DEF ReadEvent, askVars, loopVars
<1>2. r \in Run /\ r[1] = t /\ e \in EventType
    BY <1>1, ReaderFacts DEF CurrentRun
<1>3. task[t] \in WorkingStatus
    BY <1>1 DEF CancelInv, WorkersAreUnfinished
<1>4. \A q \in Run : run[q] = "blocked" => q[1] # t
    BY <1>1, AloneWithItsBro
<1>5. \/ st.task = "cancelled" /\ task[t] = "cancelled" /\ st.run = run[r]
      \/ st.task = "running" /\ st.run = "running"
    BY <1>1, <1>2 DEF ApplyEvent, StatusAfter, EventType, TerminalEvents
<1> HIDE DEF st, r, e
<1>6. \A u \in Task : Engaged(u)' => Engaged(u)
    BY <1>1 DEF Inv, TypeOK, Engaged
<1>7. NothingElseIsSent' /\ EngagedIsBusy' /\ OneEngaged'
    BY <1>1, <1>6 DEF CancelInv, NothingElseIsSent, EngagedIsBusy, OneEngaged
<1>8. WorkersAreUnfinished' /\ ReadersAreShown'
    BY <1>1, <1>5 DEF Inv, TypeOK, CancelInv, WorkersAreUnfinished, WorkingStatus,
           ReadersAreShown, Shown, Bro, CurrentRun
<1>9. BlockedWaits'
    BY <1>1, <1>2, <1>4, <1>5 DEF Inv, TypeOK, CancelInv, BlockedWaits, Shown, Bro, Run
<1>10. \A q \in Run : request[q] \in {"noted", "pending"} => q[1] # t
    BY <1>1 DEF CancelInv, QuestionsAreAtRest
<1>11. QuestionsAreAtRest' /\ NoQuestionForCancelled'
    BY <1>1, <1>10 DEF Inv, TypeOK, CancelInv, QuestionsAreAtRest, NoQuestionForCancelled, Run
<1> QED BY <1>7, <1>8, <1>9, <1>11 DEF CancelInv

\* The bro is freed when its only engaged task ends.
LEMMA ReleasedAlone ==
    ASSUME Inv, CancelInv, NEW t \in Task, co[t] # "none", NEW p \in Persona, p # PersonaOf[t]
    PROVE  ReleasePersona(t)[p] = persona[p]
BY DEF ReleasePersona, Inv, TypeOK

LEMMA CancelFinishRun ==
    ASSUME Inv, CancelInv, NEW t \in Task, FinishRun(t)
    PROVE  CancelInv'
<1> DEFINE r    == CurrentRun(t)
           e    == Head(queue[r])
           bad  == t \in InvalidHandle
           last == ApplyEvent([task |-> task[t], run |-> run[r]], e)
           st   == IF bad THEN ApplyEvent(last, "failed") ELSE last
           park == ~bad /\ st.run = "waiting_executor"
<1>1. /\ co[t] = "reading"
      /\ queue[r] # <<>>
      /\ e \in TerminalEvents
      /\ task' = [task EXCEPT ![t] = st.task]
      /\ run' = [run EXCEPT ![r] = st.run]
      /\ session' = IF park THEN [session EXCEPT ![PersonaOf[t]].active = NoRun] ELSE session
      /\ persona' = IF bad \/ st.run \in FinishedRun THEN ReleasePersona(t) ELSE persona
      /\ co' = [co EXCEPT ![t] = "none"]
      /\ request' = IF st.run = "blocked" THEN [request EXCEPT ![r] = "noted"] ELSE request
      /\ UNCHANGED <<attempts, commands, answers>>
    BY DEF FinishRun
<1>2. r \in Run /\ r[1] = t /\ Bro(r) = PersonaOf[t] /\ e \in EventType /\ attempts[t] # 0
    BY <1>1, ReaderFacts DEF CurrentRun, Bro, Inv, StreamInv, StreamHasRun, Live
<1>3. task[t] \in WorkingStatus
    BY <1>1 DEF CancelInv, WorkersAreUnfinished
<1>4. /\ \A u \in Task : PersonaOf[u] = PersonaOf[t] /\ Engaged(u) => u = t
      /\ \A q \in Run : run[q] = "blocked" => Bro(q) # PersonaOf[t] /\ q[1] # t
    BY <1>1, AloneWithItsBro
<1>5. Shown(r)
    BY <1>1 DEF CancelInv, ReadersAreShown, Live
\* The four ways a stream ends.
<1>6. \/ st.task = "cancelled" /\ st.run = run[r] /\ task[t] = "cancelled"
      \/ st.task = "waiting_user_input" /\ st.run = "blocked" /\ ~bad
      \/ st.task = "waiting_executor" /\ st.run = "waiting_executor" /\ ~bad
      \/ st.task = st.run /\ st.task \in FinishedRun
    <2>1. \/ last.task = "cancelled" /\ last.run = run[r] /\ task[t] = "cancelled"
          \/ last.task = "waiting_user_input" /\ last.run = "blocked"
          \/ last.task = "waiting_executor" /\ last.run = "waiting_executor"
          \/ last.task = last.run /\ last.task \in FinishedRun
        BY <1>1, <1>2 DEF ApplyEvent, StatusAfter, EventType, TerminalEvents, FinishedRun
    <2>2. CASE ~bad
        BY <2>1, <2>2
    <2>3. CASE bad
        <3> HIDE DEF last
        <3>1. st = ApplyEvent(last, "failed")
            BY <2>3
        <3>2. \/ last.task = "cancelled" /\ st = last
              \/ st.task = "failed" /\ st.run = "failed"
            BY <3>1 DEF ApplyEvent, StatusAfter
        <3> QED BY <2>1, <3>2 DEF FinishedRun
    <2> QED BY <2>2, <2>3
<1>7. st.task \notin ActiveTask => \A p \in Persona : p # PersonaOf[t] => persona'[p] = persona[p]
    BY <1>1, ReleasedAlone
<1>8. bad \/ st.run \in FinishedRun => st.task \notin ActiveTask
    BY <1>3, <1>6 DEF FinishedRun, ActiveTask
<1>9. /\ session'[PersonaOf[t]].latest = session[PersonaOf[t]].latest
      /\ session'[PersonaOf[t]].active \in {session[PersonaOf[t]].active, NoRun}
      /\ \A p \in Persona : p # PersonaOf[t] => session'[p] = session[p]
    <2>1. CASE park
        <3>1. session' = [session EXCEPT ![PersonaOf[t]].active = NoRun]
            BY <1>1, <2>1
        <3>2. session \in [Persona -> SessionRange]
            BY DEF Inv, TypeOK, SessionRange
        <3> QED BY <3>1, <3>2 DEF SessionRange
    <2>2. CASE ~park
        BY <1>1, <2>2
    <2> QED BY <2>1, <2>2
<1> HIDE DEF st, r, e, bad, park, last
<1>10. \A u \in Task : u # t => (Engaged(u)' <=> Engaged(u))
    BY <1>1 DEF Engaged, Inv, TypeOK
<1>11. Engaged(t)' => st.task \in ActiveTask
    BY <1>1 DEF Engaged, Inv, TypeOK
<1>12. Engaged(t)
    BY <1>1 DEF Engaged
<1>13. NothingElseIsSent' /\ OneEngaged'
    BY <1>1, <1>10, <1>12 DEF CancelInv, NothingElseIsSent, OneEngaged
<1>14. EngagedIsBusy'
    <2> SUFFICES ASSUME NEW u \in Task, Engaged(u)'
                 PROVE  persona'[PersonaOf[u]] = "busy"
        BY DEF EngagedIsBusy, Engaged
    <2>1. Engaged(u) /\ persona[PersonaOf[u]] = "busy"
        BY <1>10, <1>12 DEF CancelInv, EngagedIsBusy
    <2>2. CASE u = t
        BY <1>1, <1>8, <1>11, <2>1, <2>2
    <2>3. CASE u # t
        <3>1. PersonaOf[u] # PersonaOf[t] /\ PersonaOf[u] \in Persona
            BY <1>4, <2>1, <2>3
        <3> QED BY <1>1, <1>7, <1>8, <2>1, <3>1
    <2> QED BY <2>2, <2>3
<1>15. WorkersAreUnfinished'
    BY <1>1 DEF Inv, TypeOK, CancelInv, WorkersAreUnfinished
<1>16. ReadersAreShown'
    <2> SUFFICES ASSUME NEW u \in Task, co'[u] \in Live
                 PROVE  Shown(CurrentRun(u))'
        BY DEF ReadersAreShown, Live
    <2>1. u # t /\ co[u] \in Live /\ Engaged(u)
        BY <1>1 DEF Inv, TypeOK, Live, Engaged
    <2>2. PersonaOf[u] # PersonaOf[t]
        BY <1>4, <2>1
    <2>3. CurrentRun(u)' = CurrentRun(u) /\ Bro(CurrentRun(u)) = PersonaOf[u]
        BY <1>1 DEF CurrentRun, Bro
    <2>4. session'[PersonaOf[u]] = session[PersonaOf[u]]
        BY <1>9, <2>2
    <2> QED BY <2>1, <2>3, <2>4 DEF CancelInv, ReadersAreShown, Shown, Bro
<1>17. BlockedWaits'
    <2> SUFFICES ASSUME NEW q \in Run, run'[q] = "blocked"
                 PROVE  task'[q[1]] = "waiting_user_input" /\ attempts'[q[1]] # 0 /\ Shown(q)'
        BY DEF BlockedWaits
    <2>1. CASE q = r
        <3>1. run[r] # "blocked"
            BY <1>2, <1>4
        <3>2. st.task = "waiting_user_input"
            BY <1>1, <1>2, <1>6, <2>1, <3>1 DEF Inv, TypeOK, FinishedRun
        <3>3. Shown(q) /\ Bro(q) = PersonaOf[t] /\ q[1] = t
            BY <1>2, <1>5, <2>1
        <3>4. Shown(q)'
            BY <1>9, <3>3 DEF Shown, Bro
        <3>5. task'[q[1]] = st.task /\ attempts'[q[1]] # 0
            BY <1>1, <1>2, <3>3 DEF Inv, TypeOK
        <3> QED BY <3>2, <3>4, <3>5
    <2>2. CASE q # r
        <3>1. run[q] = "blocked" /\ q[1] \in Task
            BY <1>1, <2>2 DEF Inv, TypeOK, Run
        <3>2. Bro(q) # PersonaOf[t] /\ q[1] # t
            BY <1>4, <3>1
        <3>3. session'[Bro(q)] = session[Bro(q)] /\ task'[q[1]] = task[q[1]]
            BY <1>1, <1>9, <3>1, <3>2 DEF Inv, TypeOK, Bro
        <3> QED BY <1>1, <3>1, <3>3 DEF CancelInv, BlockedWaits, Shown, Bro
    <2> QED BY <2>1, <2>2
<1>18. \A q \in Run : request[q] \in {"noted", "pending"} => q[1] # t
    BY <1>1 DEF CancelInv, QuestionsAreAtRest
<1>19. st.run = "blocked" => st.task = "waiting_user_input"
    <2>1. run[r] # "blocked"
        BY <1>2, <1>4
    <2> QED BY <1>6, <2>1 DEF FinishedRun
<1>20. \A q \in Run : request'[q] \in {"noted", "pending"} =>
            \/ q[1] # t /\ request'[q] = request[q]
            \/ q[1] = t /\ request'[q] = "noted" /\ st.task = "waiting_user_input"
    BY <1>1, <1>2, <1>18, <1>19 DEF Inv, TypeOK
<1>21. \A q \in Run : /\ q[1] \in Task
                      /\ q[1] # t => task'[q[1]] = task[q[1]] /\ co'[q[1]] = co[q[1]]
                      /\ q[1] = t => task'[q[1]] = st.task /\ co'[q[1]] = "none"
    BY <1>1 DEF Inv, TypeOK, Run
<1>22. QuestionsAreAtRest'
    BY <1>20, <1>21 DEF CancelInv, QuestionsAreAtRest
<1>23. NoQuestionForCancelled'
    BY <1>1, <1>20, <1>21 DEF CancelInv, NoQuestionForCancelled
<1> QED BY <1>22, <1>23, <1>13, <1>14, <1>15, <1>16, <1>17 DEF CancelInv

\* A session forgets its active run at most.
LEMMA ClearActiveShown ==
    ASSUME TypeOK, NEW p \in Persona, NEW r, session' = ClearActive(p, r),
           NEW q \in Run, Shown(q)
    PROVE  Shown(q)'
<1>1. session \in [Persona -> SessionRange] /\ Bro(q) \in Persona
    BY DEF TypeOK, SessionRange, Bro, Run
<1>2. CASE session' = session
    BY <1>2 DEF Shown, Bro
<1>3. CASE session' = [session EXCEPT ![p].active = NoRun]
    <2>1. session'[Bro(q)].latest = session[Bro(q)].latest
          /\ session'[Bro(q)].active \in {session[Bro(q)].active, NoRun}
        BY <1>1, <1>3 DEF SessionRange
    <2> QED BY <2>1 DEF Shown, Bro
<1> QED BY <1>2, <1>3 DEF ClearActive

\* The completion of a cancellation, in StopTask or after its send.
LEMMA CancelCompleted ==
    ASSUME Inv, CancelInv, NEW t \in Task, NEW r \in Run \cup {NoRun}, CompleteCancel(t, r),
           UNCHANGED <<persona, attempts, co, answers>>,
           commands' \subseteq commands,
           \A c \in commands : c.task # t => c \in commands',
           \/ task' = task
           \/ /\ task' = [task EXCEPT ![t] = "cancelled"]
              /\ task[t] # "absent"
              /\ \A q \in Run : run[q] = "blocked" /\ q[1] = t => q = r
    PROVE  CancelInv'
<1>1. /\ run' = IF r = NoRun THEN run ELSE [run EXCEPT ![r] = "cancelled"]
      /\ session' = ClearActive(PersonaOf[t], r)
      /\ \A q \in Run : request'[q] =
              IF q[1] = t /\ request[q] = "pending" THEN "cancelled" ELSE request[q]
    BY DEF CompleteCancel, CancelRequests
<1>2. \A u \in Task : \/ task'[u] = task[u]
                      \/ u = t /\ task'[u] = "cancelled" /\ task[u] # "absent"
    BY DEF Inv, TypeOK
<1>3. \A q \in Run : Shown(q) => Shown(q)'
    BY <1>1, ClearActiveShown DEF Inv
<1>4. \A u \in Task : Engaged(u)' => Engaged(u)
    BY <1>2 DEF Engaged, ActiveTask
<1>5. NothingElseIsSent' /\ EngagedIsBusy' /\ OneEngaged'
    BY <1>4 DEF CancelInv, NothingElseIsSent, EngagedIsBusy, OneEngaged
<1>6. WorkersAreUnfinished'
    BY <1>2 DEF CancelInv, WorkersAreUnfinished, WorkingStatus
<1>7. ReadersAreShown'
    <2> SUFFICES ASSUME NEW u \in Task, co'[u] \in Live
                 PROVE  Shown(CurrentRun(u))'
        BY DEF ReadersAreShown, Live
    <2>1. /\ CurrentRun(u) \in Run /\ CurrentRun(u)' = CurrentRun(u)
          /\ Shown(CurrentRun(u))
        BY DEF Inv, TypeOK, StreamInv, StreamHasRun, CurrentRun, Run, CancelInv, ReadersAreShown
    <2> QED BY <1>3, <2>1
<1>8. BlockedWaits'
    <2> SUFFICES ASSUME NEW q \in Run, run'[q] = "blocked"
                 PROVE  task'[q[1]] = "waiting_user_input" /\ attempts'[q[1]] # 0 /\ Shown(q)'
        BY DEF BlockedWaits
    <2>1. run[q] = "blocked" /\ (r = NoRun \/ q # r) /\ q[1] \in Task
        BY <1>1 DEF Inv, TypeOK, Run
    <2>2. task[q[1]] = "waiting_user_input" /\ attempts[q[1]] # 0 /\ Shown(q)
        BY <2>1 DEF CancelInv, BlockedWaits
    <2>3. NoRun \notin Run
        BY DEF Run, NoRun
    <2>4. task'[q[1]] = task[q[1]]
        BY <2>1, <2>3 DEF Inv, TypeOK
    <2> QED BY <1>3, <2>2, <2>4
<1>9. QuestionsAreAtRest'
    <2> SUFFICES ASSUME NEW q \in Run, request'[q] \in {"noted", "pending"}
                 PROVE  co'[q[1]] = "none" /\ task'[q[1]] \in {"waiting_user_input", "cancelled"}
        BY DEF QuestionsAreAtRest
    <2>1. request[q] \in {"noted", "pending"} /\ q[1] \in Task
        BY <1>1 DEF Run
    <2> QED BY <1>2, <2>1 DEF CancelInv, QuestionsAreAtRest
<1>10. NoQuestionForCancelled'
    <2> SUFFICES ASSUME NEW q \in Run, task'[q[1]] = "cancelled", request'[q] = "pending"
                 PROVE  \E c \in commands' : c.task = q[1]
        BY DEF NoQuestionForCancelled
    <2>1. request[q] = "pending" /\ q[1] # t /\ q[1] \in Task
        BY <1>1 DEF Run
    <2>2. task[q[1]] = "cancelled"
        BY <1>2, <2>1
    <2>3. PICK c \in commands : c.task = q[1]
        BY <2>1, <2>2 DEF CancelInv, NoQuestionForCancelled
    <2> QED BY <2>1, <2>3
<1> QED BY <1>5, <1>6, <1>7, <1>8, <1>9, <1>10 DEF CancelInv

LEMMA CancelStopTask ==
    ASSUME Inv, CancelInv, OnlyCancels, NEW t \in Task, NEW kind \in {"pause", "cancel"},
           StopTask(kind, t)
    PROVE  CancelInv'
<1> DEFINE r == SelectCommandRun(t)
<1>1. /\ kind = "cancel"
      /\ task[t] # "absent"
      /\ task' = [task EXCEPT ![t] = "cancelled"]
      /\ UNCHANGED <<persona, attempts, co, answers>>
    BY DEF StopTask, OnlyCancels
<1>2. r \in Run \cup {NoRun} /\ NoRun \notin Run
    BY SelectedRun DEF Inv, Run, NoRun
\* A blocked run of the task is the one the command acts on.
<1>3. \A q \in Run : run[q] = "blocked" /\ q[1] = t => q = r
    <2> SUFFICES ASSUME NEW q \in Run, run[q] = "blocked", q[1] = t
                 PROVE  q = r
        OBVIOUS
    <2>1. attempts[t] # 0 /\ session[PersonaOf[t]].latest = q
          /\ session[PersonaOf[t]].active \in {q, NoRun}
        BY DEF CancelInv, BlockedWaits, Shown, Bro
    <2>2. q # NoRun /\ run[q] \in CommandableRun
        BY <1>2 DEF CommandableRun
    <2> QED BY <2>1, <2>2 DEF SelectCommandRun
<1>4. CASE r \in registered
    <2>1. /\ commands' = commands \cup {[kind |-> kind, task |-> t, run |-> r]}
          /\ UNCHANGED <<run, session, request>>
        BY <1>4 DEF StopTask
    <2>2. \A q \in Run : run[q] = "blocked" => q[1] # t
        <3> SUFFICES ASSUME NEW q \in Run, run[q] = "blocked", q[1] = t
                     PROVE  FALSE
            OBVIOUS
        <3>1. q = r /\ co[t] # "none"
            BY <1>3, <1>4 DEF Inv, StreamInv, NoOrphanStream
        <3> QED BY <3>1, AloneWithItsBro
    <2> HIDE DEF r
    <2>3. \A u \in Task : \/ task'[u] = task[u]
                          \/ u = t /\ task'[u] = "cancelled"
        BY <1>1 DEF Inv, TypeOK
    <2>4. \A u \in Task : Engaged(u)' => Engaged(u)
        BY <1>1, <2>3 DEF Engaged, ActiveTask
    <2>5. NothingElseIsSent' /\ EngagedIsBusy' /\ OneEngaged' /\ WorkersAreUnfinished'
        BY <1>1, <2>1, <2>3, <2>4 DEF CancelInv, NothingElseIsSent, EngagedIsBusy, OneEngaged,
               WorkersAreUnfinished, WorkingStatus
    <2>6. ReadersAreShown' /\ BlockedWaits'
        BY <1>1, <2>1, <2>2, <2>3 DEF CancelInv, ReadersAreShown, BlockedWaits, Shown, Bro,
               CurrentRun, Run
    <2>7. QuestionsAreAtRest'
        BY <1>1, <2>1, <2>3 DEF CancelInv, QuestionsAreAtRest, Run
    <2>8. NoQuestionForCancelled'
        <3>1. [kind |-> kind, task |-> t, run |-> r] \in commands'
            BY <2>1
        <3> QED BY <2>1, <2>3, <3>1 DEF CancelInv, NoQuestionForCancelled, Run
    <2> QED BY <2>5, <2>6, <2>7, <2>8 DEF CancelInv
<1>5. CASE r \notin registered
    <2>1. CompleteCancel(t, r) /\ UNCHANGED commands
        BY <1>1, <1>5 DEF StopTask, Complete
    <2> HIDE DEF r
    <2> QED BY <1>1, <1>2, <1>3, <2>1, CancelCompleted
<1> QED BY <1>4, <1>5

LEMMA CancelCommandDone ==
    ASSUME Inv, CancelInv, NEW c \in commands, CommandSent(c) \/ CommandSendFailed(c)
    PROVE  CancelInv'
<1>1. c \in Command /\ c.task \in Task /\ c.run \in Run /\ c.kind = "cancel"
    BY DEF Inv, TypeOK, Command, CancelInv, NothingElseIsSent
<1>2. /\ Complete(c.kind, c.task, c.run)
      /\ commands' = commands \ {c}
      /\ UNCHANGED <<task, persona, attempts, co, answers>>
    BY DEF CommandSent, CommandSendFailed
<1>3. CompleteCancel(c.task, c.run)
    BY <1>1, <1>2 DEF Complete
<1> QED BY <1>1, <1>2, <1>3, CancelCompleted

LEMMA CancelRaiseRequest ==
    ASSUME Inv, CancelInv, NEW r \in Run, RaiseRequest(r)
    PROVE  CancelInv'
<1>1. /\ request[r] = "noted"
      /\ request' = [request EXCEPT ![r] = IF run[r] = "blocked" THEN "pending" ELSE "none"]
      /\ UNCHANGED <<task, persona, run, attempts, session, co, commands, answers>>
    BY DEF RaiseRequest, boardVars, loopVars
<1>2. NothingElseIsSent' /\ EngagedIsBusy' /\ OneEngaged' /\ WorkersAreUnfinished'
    BY <1>1 DEF CancelInv, NothingElseIsSent, EngagedIsBusy, OneEngaged, WorkersAreUnfinished,
           Engaged
<1>3. ReadersAreShown' /\ BlockedWaits'
    BY <1>1 DEF CancelInv, ReadersAreShown, BlockedWaits, Shown, Bro, CurrentRun
<1>4. QuestionsAreAtRest'
    BY <1>1 DEF Inv, TypeOK, CancelInv, QuestionsAreAtRest
<1>5. NoQuestionForCancelled'
    BY <1>1 DEF Inv, TypeOK, CancelInv, NoQuestionForCancelled, BlockedWaits
<1> QED BY <1>2, <1>3, <1>4, <1>5 DEF CancelInv

LEMMA CancelNodeConnected ==
    ASSUME Inv, CancelInv, NEW n \in Node, NodeConnected(n)
    PROVE  CancelInv'
<1>1. UNCHANGED <<persona, run, attempts, session, co, commands, request, answers>>
    BY DEF NodeConnected, askVars
<1>2. \A t \in Task : \/ task'[t] = task[t]
                      \/ task[t] = "waiting_executor" /\ task'[t] = "queued"
    BY DEF NodeConnected, Parked
<1>3. \A t \in Task : Engaged(t)' => Engaged(t)
    BY <1>1, <1>2 DEF Engaged, ActiveTask
<1>4. NothingElseIsSent' /\ EngagedIsBusy' /\ OneEngaged' /\ WorkersAreUnfinished'
    BY <1>1, <1>2, <1>3 DEF CancelInv, NothingElseIsSent, EngagedIsBusy, OneEngaged,
           WorkersAreUnfinished, WorkingStatus
<1>5. ReadersAreShown' /\ BlockedWaits'
    BY <1>1, <1>2 DEF CancelInv, ReadersAreShown, BlockedWaits, Shown, Bro, CurrentRun, Run
<1>6. QuestionsAreAtRest' /\ NoQuestionForCancelled'
    BY <1>1, <1>2 DEF CancelInv, QuestionsAreAtRest, NoQuestionForCancelled, Run
<1> QED BY <1>4, <1>5, <1>6 DEF CancelInv

LEMMA InitCancel == Init => CancelInv
BY DEF Init, CancelInv, NothingElseIsSent, EngagedIsBusy, OneEngaged, WorkersAreUnfinished,
       Engaged, ActiveTask, ReadersAreShown, Live, BlockedWaits, QuestionsAreAtRest,
       NoQuestionForCancelled

\* The steps that OnlyCancels rules out.
LEMMA NoOtherCommand ==
    ASSUME OnlyCancels, CancelInv
    PROVE  /\ ~ \E t \in Task, kind \in {"resume", "retry"} : RequeueTask(kind, t)
           /\ ~ \E t \in Task, status \in {"waiting_user_input", "completed"} :
                    IngestAgentEvent(t, status)
           /\ ~ \E r \in Run : ResolveRequest(r) \/ AnswerSent(r) \/ AnswerSendFailed(r)
<1>1. ~ \E t \in Task, kind \in {"resume", "retry"} : RequeueTask(kind, t)
    BY DEF OnlyCancels, RequeueTask
<1>2. ~ \E t \in Task, status \in {"waiting_user_input", "completed"} :
            IngestAgentEvent(t, status)
    BY DEF OnlyCancels, IngestAgentEvent
<1>3. ~ \E r \in Run : ResolveRequest(r)
    BY DEF OnlyCancels, ResolveRequest
<1>4. ~ \E r \in Run : AnswerSent(r) \/ AnswerSendFailed(r)
    BY DEF CancelInv, NothingElseIsSent, AnswerSent, AnswerSendFailed
<1> QED BY <1>1, <1>2, <1>3, <1>4

LEMMA NextCancel ==
    ASSUME OnlyCancels, Inv, CancelInv, [Next]_vars
    PROVE  CancelInv'
<1>1. CASE \E t \in Task : CreateTask(t) \/ SendDraft(t)
    BY <1>1, CancelNewTask DEF CreateTask, SendDraft, Runnable
<1>2. CASE Tick
    BY <1>2, CancelTick
<1>3. CASE \E t \in Task : FailUnknownExecutor(t) \/ StartWithoutNode(t) \/ StartDispatch(t)
    BY <1>3, CancelFailUnknown, CancelStartWithoutNode, CancelStartDispatch
<1>4. CASE \E t \in Task : ReadEvent(t) \/ FinishRun(t)
    BY <1>4, CancelReadEvent, CancelFinishRun
<1>5. CASE \E t \in Task, kind \in {"pause", "cancel"} : StopTask(kind, t)
    BY <1>5, CancelStopTask
<1>6. CASE \E c \in commands : CommandSent(c) \/ CommandSendFailed(c)
    BY <1>6, CancelCommandDone
<1>7. CASE \E r \in Run : RaiseRequest(r)
    BY <1>7, CancelRaiseRequest
<1>8. CASE \E n \in Node : NodeConnected(n)
    BY <1>8, CancelNodeConnected
<1>9. CASE \/ \E t \in Task : ScheduleExecution(t) \/ DispatchSent(t) \/ DispatchFailed(t)
           \/ EndTick
           \/ \E r \in Run : NodeStart(r) \/ \E e \in EventType : NodeEmit(r, e)
           \/ \E n \in Node : Disconnect(n) \/ Connect(n)
           \/ UNCHANGED vars
    BY <1>9, CancelFrame
<1>10. Next \/ UNCHANGED vars
    OBVIOUS
<1> QED BY <1>1, <1>2, <1>3, <1>4, <1>5, <1>6, <1>7, <1>8, <1>9, <1>10, NoOtherCommand
        DEF Next, Execute

\* Where nothing but cancellations is issued, CancelInv is an invariant of the
\* execution core: a bro has one engaged task, and a question outlives its
\* coroutine only while the run is still the one a command would act on.
THEOREM CancelInvariance ==
    ASSUME OnlyCancels PROVE Spec => []CancelInv
<1>1. Inv /\ CancelInv /\ [Next]_vars => CancelInv'
    BY NextCancel
<1> QED BY <1>1, InitCancel, Invariance, PTL DEF Spec

\* create_task and send_draft look only at the bro's status, and
\* _release_persona is called at one place: with cancellations the only command,
\* a bro with an unfinished task is still never free.
THEOREM BrosStayBusy ==
    ASSUME OnlyCancels PROVE Spec => []PersonaBusyWhileActive
<1>1. CancelInv => PersonaBusyWhileActive
    BY DEF CancelInv, EngagedIsBusy, Engaged, PersonaBusyWhileActive
<1> QED BY <1>1, CancelInvariance, PTL

\* No two unfinished tasks share the execution session of a bro.
THEOREM OneTaskPerBro ==
    ASSUME OnlyCancels PROVE Spec => []OneActiveTaskPerPersona
<1>1. CancelInv => OneActiveTaskPerPersona
    BY DEF CancelInv, OneEngaged, Engaged, OneActiveTaskPerPersona
<1> QED BY <1>1, CancelInvariance, PTL

\* cancel_requests_for_task misses no question: one that the notification pump
\* has yet to raise is dropped, because the cancellation ends its blocked run.
THEOREM CancelledAsksNothing ==
    ASSUME OnlyCancels PROVE Spec => []NoQuestionForCancelled
<1>1. CancelInv => NoQuestionForCancelled
    BY DEF CancelInv
<1> QED BY <1>1, CancelInvariance, PTL

\* A cancelled task is brought back by a command alone, or failed by its own
\* coroutine when the executor type is unknown.
LEMMA CancelledStays ==
    ASSUME OnlyCancels, Inv, CancelInv, [Next]_vars,
           NEW t \in Task, t \notin UnknownExecutor, task[t] = "cancelled"
    PROVE  task'[t] = "cancelled"
<1>1. CASE \E u \in Task : CreateTask(u) \/ SendDraft(u)
    BY <1>1 DEF CreateTask, SendDraft, NewTask, Inv, TypeOK
<1>2. CASE Tick \/ EndTick \/ \E u \in Task : ScheduleExecution(u)
    BY <1>2 DEF Tick, EndTick, ScheduleExecution, boardVars
<1>3. CASE \E u \in Task : FailUnknownExecutor(u)
    BY <1>3 DEF FailUnknownExecutor, Inv, TypeOK
<1>4. CASE \E u \in Task : StartWithoutNode(u)
    BY <1>4 DEF StartWithoutNode, ApplyEvent, Inv, TypeOK
<1>5. CASE \E u \in Task : StartDispatch(u) \/ DispatchSent(u) \/ DispatchFailed(u)
    BY <1>5 DEF StartDispatch, DispatchSent, DispatchFailed, boardVars
<1>6. CASE \E u \in Task : ReadEvent(u)
    <2>1. PICK u \in Task : ReadEvent(u)
        BY <1>6
    <2> DEFINE e  == Head(queue[CurrentRun(u)])
               st == ApplyEvent([task |-> task[u], run |-> run[CurrentRun(u)]], e)
    <2>2. task' = [task EXCEPT ![u] = st.task]
        BY <2>1 DEF ReadEvent
    <2>3. task[u] = "cancelled" => st.task = "cancelled"
        BY DEF ApplyEvent, StatusAfter
    <2> HIDE DEF st
    <2> QED BY <2>2, <2>3 DEF Inv, TypeOK
<1>7. CASE \E u \in Task : FinishRun(u)
    <2>1. PICK u \in Task : FinishRun(u)
        BY <1>7
    <2> DEFINE e    == Head(queue[CurrentRun(u)])
               last == ApplyEvent([task |-> task[u], run |-> run[CurrentRun(u)]], e)
               st   == IF u \in InvalidHandle THEN ApplyEvent(last, "failed") ELSE last
    <2>2. task' = [task EXCEPT ![u] = st.task]
        BY <2>1 DEF FinishRun
    <2>3. task[u] = "cancelled" => last.task = "cancelled"
        BY DEF ApplyEvent, StatusAfter
    <2> HIDE DEF last
    <2>4. task[u] = "cancelled" => st.task = "cancelled"
        BY <2>3 DEF ApplyEvent
    <2> HIDE DEF st
    <2> QED BY <2>2, <2>4 DEF Inv, TypeOK
<1>8. CASE \E u \in Task, kind \in {"pause", "cancel"} : StopTask(kind, u)
    BY <1>8 DEF StopTask, OnlyCancels, Inv, TypeOK
<1>9. CASE \E c \in commands : CommandSent(c) \/ CommandSendFailed(c)
    BY <1>9 DEF CommandSent, CommandSendFailed
<1>10. CASE \E r \in Run : \/ RaiseRequest(r) \/ NodeStart(r)
                           \/ \E e \in EventType : NodeEmit(r, e)
    BY <1>10 DEF RaiseRequest, NodeStart, NodeEmit, boardVars
<1>11. CASE \E n \in Node : Disconnect(n) \/ Connect(n) \/ NodeConnected(n)
    BY <1>11 DEF Disconnect, Connect, NodeConnected, Parked, boardVars
<1>12. CASE UNCHANGED vars
    BY <1>12 DEF vars
<1>13. Next \/ UNCHANGED vars
    OBVIOUS
<1> QED BY <1>1, <1>2, <1>3, <1>4, <1>5, <1>6, <1>7, <1>8, <1>9, <1>10, <1>11, <1>12, <1>13,
           NoOtherCommand DEF Next, Execute

\* apply_event ignores what a run still reports for a cancelled task, and a node
\* that comes back requeues waiting tasks only: cancelling is final.  The
\* assumption on executor types is needed: _fail_unknown_executor overwrites a
\* cancellation that lands between the claim of the task and its coroutine.
THEOREM CancelIsFinal ==
    ASSUME OnlyCancels, UnknownExecutor = {} PROVE Spec => CancelSticky
<1>1. Inv /\ CancelInv /\ [Next]_vars =>
        [\A t \in Task : task[t] = "cancelled" => task'[t] = "cancelled"]_vars
    BY CancelledStays
<1> QED BY <1>1, CancelInvariance, Invariance, PTL DEF Spec, CancelSticky
=============================================================================
