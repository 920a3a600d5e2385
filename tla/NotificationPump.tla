-------------------------- MODULE NotificationPump --------------------------
(***************************************************************************)
(* Proactive notifications of one session: the notification loop of        *)
(* SessionRuntime with its wake-up event, its blackboard subscription and  *)
(* its digest timer, the NotificationManager that turns run and summary    *)
(* writes into candidates and candidates into assistant messages, and the  *)
(* conversation turns it must yield to.                                    *)
(*                                                                         *)
(* The loop suspends in two places only: in asyncio.wait, and while the    *)
(* language model words a notification.  The writers of the blackboard are *)
(* the execution core (module TaskExecution has its detail); here they are *)
(* the actions that write runs and summaries, one task per bro.            *)
(***************************************************************************)
EXTENDS Naturals, Sequences

CONSTANTS
    Task,          \* the tasks of the session
    MaxRuns,       \* bound: runs per task
    MaxMessages,   \* bound: user messages in one behaviour
    MaxEvents,     \* bound: no further write while so many wait for the pump
    NoTimer        \* no digest timer is armed

Run == Task \X (1 .. MaxRuns)

\* A candidate's id: its type, its task and the run it is about, 0 for a summary.
Candidate == [type: {"completed", "blocked"}, of: Run]
             \cup [type: {"needs_input"}, of: Task \X {0}]

ASSUME ConstantsAssumption ==
    /\ MaxRuns \in Nat \ {0}
    /\ MaxMessages \in Nat
    /\ MaxEvents \in Nat \ {0}
    /\ NoTimer \notin Candidate

VARIABLES
    task,        \* "queued", "active" or "cancelled"
    attempts,    \* how many runs each task has had
    run,         \* run status
    live,        \* runs whose event stream is being read
    needsInput,  \* tasks whose summary has needs_user_input
    cancelling,  \* tasks whose cancel command waits for its node send
    muted,       \* tasks that suppress communication notifications
    asked,       \* interaction requests still pending
    cand,        \* delivery status of each candidate
    created,     \* how many candidates have been created
    born,        \* creation order of the candidates, their created_at
    due,         \* candidates whose merge window is over
    events,      \* run and summary writes the pump has yet to handle
    other,       \* other writes wait in the pump's subscription
    wakeup,      \* the _notification_wakeup event
    timer,       \* the candidate whose due time the sleep was set to
    pc,          \* the pump: "wait", "handle" or "emit"
    plan,        \* candidates of the adopted plan not emitted yet
    group,       \* the group being worded
    said,        \* how many messages told the user of each candidate
    inbox,       \* user messages in _message_queue
    sent,        \* user messages submitted so far
    turn         \* an assistant turn is active

boardVars == <<task, attempts, run, live, needsInput, cancelling, muted>>
candVars  == <<cand, created, born, due>>
pumpVars  == <<timer, pc, plan, group, said>>
talkVars  == <<inbox, sent, turn>>
vars == <<boardVars, asked, candVars, events, other, wakeup, pumpVars, talkVars>>

Event == [kind: {"run"}, of: Run] \cup [kind: {"summary"}, of: Task]

RunWrite(r) == [kind |-> "run", of |-> r]
SummaryWrite(t) == [kind |-> "summary", of |-> t]
Completion(r) == [type |-> "completed", of |-> r]
Blocking(r) == [type |-> "blocked", of |-> r]
NeedsInput(t) == [type |-> "needs_input", of |-> <<t, 0>>]

TaskOf(c) == c.of[1]
Immediate(c) == c.type # "completed"
Pending == {c \in Candidate : cand[c] = "pending"}
Busy == turn \/ inbox > 0

Init ==
    /\ task = [t \in Task |-> "queued"]
    /\ attempts = [t \in Task |-> 0]
    /\ run = [r \in Run |-> "none"]
    /\ live = {} /\ needsInput = {} /\ cancelling = {} /\ muted = {} /\ asked = {}
    /\ cand = [c \in Candidate |-> "none"]
    /\ created = 0
    /\ born = [c \in Candidate |-> 0]
    /\ due = {}
    /\ events = <<>> /\ other = FALSE /\ wakeup = FALSE
    /\ timer = NoTimer /\ pc = "wait" /\ plan = {} /\ group = {}
    /\ said = [c \in Candidate |-> 0]
    /\ inbox = 0 /\ sent = 0 /\ turn = FALSE

-----------------------------------------------------------------------------
(* The writers of the blackboard *)

\* RunManager.create_run for a task the scheduler picked up.
StartRun(t) ==
    LET r == <<t, attempts[t] + 1>>
    IN  /\ task[t] = "queued"
        /\ attempts[t] < MaxRuns
        /\ task' = [task EXCEPT ![t] = "active"]
        /\ attempts' = [attempts EXCEPT ![t] = @ + 1]
        /\ run' = [run EXCEPT ![r] = "running"]
        /\ live' = live \cup {r}
        /\ events' = Append(events, RunWrite(r))
        /\ other' = TRUE
        /\ UNCHANGED <<needsInput, cancelling, muted, asked, candVars, wakeup, pumpVars, talkVars>>

\* What the end of a run publishes: apply_event puts the run, then
\* _execute_task puts the summary.
EndWrites(r) == <<RunWrite(r), SummaryWrite(r[1])>>

\* The last event of a stream.  A cancelled task ignores it, and only the
\* summary is written.
EndRun(r, status) ==
    LET t       == r[1]
        applies == task[t] # "cancelled"
    IN  /\ r \in live
        /\ live' = live \ {r}
        /\ run' = IF applies THEN [run EXCEPT ![r] = status] ELSE run
        /\ task' = IF applies THEN [task EXCEPT ![t] = "active"] ELSE task
        /\ needsInput' = IF applies /\ status = "blocked"
                         THEN needsInput \cup {t} ELSE needsInput \ {t}
        /\ events' = events \o (IF applies THEN EndWrites(r) ELSE <<SummaryWrite(t)>>)
        /\ other' = TRUE
        /\ UNCHANGED <<attempts, cancelling, muted, asked, candVars, wakeup, pumpVars, talkVars>>

\* Fault: the candidates of a cancelled task stay pending.
SuppressNothing(t) == cand

\* SessionRuntime._suppress_pending_notifications.
Suppressed(t) ==
    [c \in Candidate |->
        IF TaskOf(c) = t /\ cand[c] = "pending" THEN "suppressed" ELSE cand[c]]

\* _select_command_run: the task's latest run, while a command may act on it.
CommandRun(t) ==
    {r \in Run : r = <<t, attempts[t]>> /\ run[r] \in {"running", "blocked"}}

\* The rest of a cancel command, after the node has been told.
FinishCancel(t) ==
    LET ended == CommandRun(t)
    IN  /\ run' = [r \in Run |-> IF r \in ended THEN "cancelled" ELSE run[r]]
        /\ needsInput' = needsInput \ {t}
        /\ cand' = Suppressed(t)
        /\ asked' = {q \in asked : q[1] # t}
        /\ events' = events \o (IF ended = {} THEN <<>> ELSE <<RunWrite(<<t, attempts[t]>>)>>)
                            \o <<SummaryWrite(t)>>
        /\ other' = TRUE

\* The task is cancelled at once; a live run's node is told first, and that suspends.
CancelTask(t) ==
    /\ t \notin cancelling
    /\ task' = [task EXCEPT ![t] = "cancelled"]
    /\ IF CommandRun(t) \cap live # {}
       THEN /\ cancelling' = cancelling \cup {t}
            /\ other' = TRUE
            /\ UNCHANGED <<run, needsInput, cand, asked, events>>
       ELSE FinishCancel(t) /\ UNCHANGED cancelling
    /\ UNCHANGED <<attempts, live, muted, created, born, due, wakeup, pumpVars, talkVars>>

CancelSent(t) ==
    /\ t \in cancelling
    /\ cancelling' = cancelling \ {t}
    /\ FinishCancel(t)
    /\ UNCHANGED <<task, attempts, live, muted, created, born, due, wakeup, pumpVars, talkVars>>

\* Back to the queue: the summary no longer asks for input.
Requeue(t) ==
    /\ attempts[t] < MaxRuns
    /\ task' = [task EXCEPT ![t] = "queued"]
    /\ needsInput' = needsInput \ {t}
    /\ events' = Append(events, SummaryWrite(t))
    /\ other' = TRUE
    /\ UNCHANGED <<attempts, run, live, cancelling, muted, candVars, wakeup, pumpVars, talkVars>>

\* apply_command with RETRY_TASK; the pending questions are left alone.
RetryTask(t) ==
    /\ task[t] # "queued"
    /\ Requeue(t)
    /\ UNCHANGED asked

\* resolve_interaction_request with a follow-up run.
AnswerRequest(q) ==
    /\ q \in asked
    /\ asked' = asked \ {q}
    /\ Requeue(q[1])

\* Direct typed or spoken input to a task with an active run.
DirectInput(t) ==
    /\ \E r \in live : r[1] = t
    /\ t \notin muted
    /\ muted' = muted \cup {t}
    /\ other' = TRUE
    /\ UNCHANGED <<task, attempts, run, live, needsInput, cancelling, asked,
                   candVars, events, wakeup, pumpVars, talkVars>>

-----------------------------------------------------------------------------
(* Conversation turns *)

SubmitMessage ==
    /\ sent < MaxMessages
    /\ sent' = sent + 1
    /\ inbox' = inbox + 1
    /\ wakeup' = TRUE
    /\ UNCHANGED <<boardVars, asked, candVars, events, other, pumpVars, turn>>

\* The message leaves the queue and the turn begins in one step.
StartTurn ==
    /\ inbox > 0
    /\ ~turn
    /\ inbox' = inbox - 1
    /\ turn' = TRUE
    /\ wakeup' = TRUE
    /\ UNCHANGED <<boardVars, asked, candVars, events, other, pumpVars, sent>>

\* Fault: the end of a turn does not wake the pump.
EndTurnSilently ==
    /\ turn
    /\ turn' = FALSE
    /\ UNCHANGED <<boardVars, asked, candVars, events, other, wakeup, pumpVars, inbox, sent>>

\* The reply was generated or failed: both end in the finally clause.
EndTurn ==
    /\ turn
    /\ turn' = FALSE
    /\ wakeup' = TRUE
    /\ UNCHANGED <<boardVars, asked, candVars, events, other, pumpVars, inbox, sent>>

-----------------------------------------------------------------------------
(* Time *)

\* Merge windows have one length, so completions fall due in creation order.
WindowOver(c) ==
    /\ cand[c] # "none"
    /\ ~Immediate(c)
    /\ c \notin due
    /\ \A d \in Candidate \ {c} :
          cand[d] # "none" /\ ~Immediate(d) /\ born[d] <= born[c] => d \in due
    /\ due' = due \cup {c}
    /\ UNCHANGED <<boardVars, asked, cand, created, born, events, other, wakeup, pumpVars, talkVars>>

-----------------------------------------------------------------------------
(* The pump *)

\* Fault: the wake-up forgets the writes it found in the subscription.
WakeAndForget ==
    /\ pc = "wait"
    /\ wakeup \/ events # <<>> \/ other \/ timer \in due
    /\ wakeup' = FALSE
    /\ pc' = "handle"
    /\ events' = <<>> /\ other' = FALSE
    /\ timer' = NoTimer
    /\ UNCHANGED <<boardVars, asked, candVars, plan, group, said, talkVars>>

\* asyncio.wait returns.  The wake-up event is cleared only if its task is
\* among those done; the subscription is drained in any case.
PumpWakes ==
    /\ pc = "wait"
    /\ \/ wakeup /\ wakeup' = FALSE
       \/ (events # <<>> \/ other \/ timer \in due) /\ UNCHANGED wakeup
    /\ pc' = "handle"
    /\ other' = FALSE
    /\ timer' = NoTimer
    /\ UNCHANGED <<boardVars, asked, candVars, events, plan, group, said, talkVars>>

\* NotificationCandidateBuilder: what one write calls for.  A candidate whose
\* id exists is never built again, whatever became of it.
Built(e) ==
    IF e.kind = "run"
    THEN {c \in {Completion(e.of), Blocking(e.of)} :
            /\ c.type = run[e.of]
            /\ e.of[1] \notin muted
            /\ task[e.of[1]] # "cancelled"
            /\ cand[c] = "none"}
    ELSE {c \in {NeedsInput(e.of)} :
            /\ e.of \in needsInput \ muted
            /\ cand[c] = "none"
            /\ \A r \in Run : r[1] = e.of => cand[Blocking(r)] \in {"none", "suppressed"}}

\* InteractionManager.handle_blackboard_write: the question one write raises.
Raised(e) ==
    IF e.kind = "run"
    THEN {q \in {e.of} : run[q] = "blocked"}
    ELSE {q \in {<<e.of, 0>>} : e.of \in needsInput /\ \A p \in asked : p[1] # e.of}

HandleWrite ==
    LET e   == Head(events)
        new == Built(e)
    IN  /\ pc = "handle"
        /\ events # <<>>
        /\ events' = Tail(events)
        /\ asked' = asked \cup Raised(e)
        /\ created' = IF new = {} THEN created ELSE created + 1
        /\ born' = [c \in Candidate |-> IF c \in new THEN created' ELSE born[c]]
        /\ cand' = [c \in Candidate |-> IF c \in new THEN "pending" ELSE cand[c]]
        /\ other' = (other \/ new # {} \/ Raised(e) \ asked # {})
        /\ UNCHANGED <<boardVars, due, wakeup, pumpVars, talkVars>>

\* The next group of plan p: the immediate candidates one by one, in creation
\* order, then the completions that are due as one digest.
NextGroup(p, g) ==
    \/ \E c \in p :
          /\ g = {c}
          /\ Immediate(c)
          /\ \A d \in p : Immediate(d) => born[c] <= born[d]
    \/ g = p /\ \A c \in p : ~Immediate(c)

\* Fault: no timer is armed for the completions that are not due.
PlanWithoutTimer ==
    LET ready == IF Busy THEN {} ELSE {c \in Pending : Immediate(c) \/ c \in due}
    IN  /\ pc = "handle" /\ events = <<>>
        /\ plan' = ready
        /\ \E g \in SUBSET ready : NextGroup(ready, g) /\ group' = g
        /\ timer' = NoTimer
        /\ pc' = IF ready = {} THEN "wait" ELSE "emit"
        /\ UNCHANGED <<boardVars, asked, candVars, events, other, wakeup, said, talkVars>>

\* process_pending up to its first emission: NotificationPolicy.plan.
Plan ==
    LET ready   == IF Busy THEN {} ELSE {c \in Pending : Immediate(c) \/ c \in due}
        waiting == IF Busy THEN {} ELSE Pending \ ready
    IN  /\ pc = "handle"
        /\ events = <<>>
        /\ plan' = ready
        /\ \E g \in SUBSET ready : NextGroup(ready, g) /\ group' = g
        /\ \/ waiting = {} /\ timer' = NoTimer
           \/ \E c \in waiting : (\A d \in waiting : born[c] <= born[d]) /\ timer' = c
        /\ pc' = IF ready = {} THEN "wait" ELSE "emit"
        /\ UNCHANGED <<boardVars, asked, candVars, events, other, wakeup, said, talkVars>>

\* Fault: the emitted candidates are not marked.
NotMarked == cand

\* _emit_group marks the copies it was given: whatever the store holds by now
\* is overwritten.
Marked == [c \in Candidate |-> IF c \in group THEN "emitted" ELSE cand[c]]

\* The wording has arrived, or the fallback text is used: the message enters
\* the history, and the next group of the plan follows without a new look.
EmitGroup ==
    /\ pc = "emit"
    /\ said' = [c \in Candidate |-> IF c \in group THEN said[c] + 1 ELSE said[c]]
    /\ cand' = Marked
    /\ plan' = plan \ group
    /\ \E g \in SUBSET (plan \ group) : NextGroup(plan \ group, g) /\ group' = g
    /\ pc' = IF plan \ group = {} THEN "wait" ELSE "emit"
    /\ other' = TRUE
    /\ UNCHANGED <<boardVars, asked, created, born, due, events, wakeup, timer, talkVars>>

-----------------------------------------------------------------------------

\* Between two suspension points nothing but the pump runs.
Suspended == pc \in {"wait", "emit"}

Writers ==
    \/ \E t \in Task : StartRun(t) \/ CancelTask(t) \/ CancelSent(t) \/ RetryTask(t) \/ DirectInput(t)
    \/ \E r \in Run, status \in {"blocked", "completed", "failed"} : EndRun(r, status)
    \/ \E q \in asked : AnswerRequest(q)

Conversation == SubmitMessage \/ StartTurn \/ EndTurn

Pump == PumpWakes \/ HandleWrite \/ Plan \/ EmitGroup

Next ==
    \/ Suspended /\ Len(events) < MaxEvents /\ Writers
    \/ Suspended /\ Conversation
    \/ \E c \in Candidate : WindowOver(c)
    \/ Pump

Spec == Init /\ [][Next]_vars

(***************************************************************************)
(* Fairness.  The event loop runs what is ready, the language model        *)
(* answers or raises, and time passes.  The pump runs often and suspends   *)
(* again each time, so the turns need strong fairness: the event loop's    *)
(* queue of ready callbacks is first in, first out.                        *)
(***************************************************************************)
FairSpec ==
    /\ Spec
    /\ WF_vars(Pump)
    /\ SF_vars(Suspended /\ (StartTurn \/ EndTurn))
    /\ \A c \in Candidate : WF_vars(WindowOver(c))

-----------------------------------------------------------------------------
(* Properties *)

TypeOK ==
    /\ task \in [Task -> {"queued", "active", "cancelled"}]
    /\ attempts \in [Task -> 0 .. MaxRuns]
    /\ run \in [Run -> {"none", "running", "blocked", "completed", "failed", "cancelled"}]
    /\ live \subseteq Run
    /\ needsInput \subseteq Task /\ cancelling \subseteq Task /\ muted \subseteq Task
    /\ asked \subseteq Task \X (0 .. MaxRuns)
    /\ cand \in [Candidate -> {"none", "pending", "emitted", "suppressed"}]
    /\ created \in Nat
    /\ born \in [Candidate -> Nat]
    /\ due \subseteq Candidate
    /\ events \in Seq(Event)
    /\ other \in BOOLEAN /\ wakeup \in BOOLEAN
    /\ timer \in Candidate \cup {NoTimer}
    /\ pc \in {"wait", "handle", "emit"}
    /\ plan \subseteq Candidate /\ group \subseteq plan
    /\ said \in [Candidate -> Nat]
    /\ inbox \in Nat /\ sent \in 0 .. MaxMessages /\ turn \in BOOLEAN
    /\ inbox + (IF turn THEN 1 ELSE 0) <= sent

(***************************************************************************)
(* No wake-up is lost (_notification_loop): a pump that waits while a      *)
(* candidate is pending and nobody talks is about to be woken, or sleeps   *)
(* until a merge window ends; if the candidate is deliverable now, the     *)
(* sleep is over too.                                                      *)
(***************************************************************************)
DeliveryIsComing ==
    pc = "wait" /\ ~Busy =>
        \A c \in Pending :
            \/ wakeup \/ events # <<>> \/ other
            \/ timer # NoTimer /\ (Immediate(c) \/ c \in due => timer \in due)

(***************************************************************************)
(* Once a cancel command is through, no candidate of the cancelled task is *)
(* pending, and no write still in the subscription makes one               *)
(* (_suppress_pending_notifications with the check in build_from_run).     *)
(***************************************************************************)
SettledCancel ==
    \A c \in Pending : task[TaskOf(c)] = "cancelled" => TaskOf(c) \in cancelling

(***************************************************************************)
(* The user is told once of each candidate, whatever cancellations and     *)
(* turns happen while it is being worded (process_pending, _emit_group).   *)
(***************************************************************************)
ToldOnce == \A c \in Candidate : said[c] <= 1

(***************************************************************************)
(* A pending candidate does not wait for ever: it is told or suppressed    *)
(* once the user pauses (the wake-ups of _handle_message_request, the      *)
(* digest timer).                                                          *)
(***************************************************************************)
CandidatesAreSettled == \A c \in Candidate : (c \in Pending) ~> (c \notin Pending)

(***************************************************************************)
(* A completed run gets its candidate, unless its task is cancelled or     *)
(* muted before the pump sees the write.                                   *)
(***************************************************************************)
CompletionsAreNoted ==
    \A r \in Run : (run[r] = "completed") ~>
        (cand[Completion(r)] # "none" \/ task[r[1]] = "cancelled" \/ r[1] \in muted)

\* A group starts to be worded.
Begins == group' # group /\ group' # {}

=============================================================================
