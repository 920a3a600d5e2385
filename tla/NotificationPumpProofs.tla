----------------------- MODULE NotificationPumpProofs -----------------------
(***************************************************************************)
(* Proofs about NotificationPump for any set of tasks and any bounds.      *)
(* The inductive invariant adds three facts to the properties: what a      *)
(* sleeping pump's timer says of every pending completion, that a settled  *)
(* cancellation leaves no summary asking for input, and that a candidate   *)
(* is in a plan, or pending, only while nobody has been told of it.        *)
(***************************************************************************)
EXTENDS NotificationPump, TLAPS

\* Nothing will end the pump's wait except its timer.
Asleep == pc = "wait" /\ ~Busy /\ ~wakeup /\ events = <<>> /\ ~other

\* The timer stands for the oldest pending completion.
TimerInv ==
    Asleep => \A c \in Pending :
        /\ ~Immediate(c)
        /\ timer \in Candidate /\ ~Immediate(timer) /\ cand[timer] # "none"
        /\ born[timer] <= born[c]
        /\ c \in due => timer \in due

\* A cancelled task asks for input only until its cancel command is through.
SummaryInv == \A t \in needsInput : task[t] = "cancelled" => t \in cancelling

\* Whom the user has not been told of yet.
SaidInv ==
    /\ \A c \in Candidate :
          /\ said[c] <= 1
          /\ cand[c] \in {"none", "pending"} => said[c] = 0
          /\ c \in plan => said[c] = 0
    /\ pc # "emit" => plan = {}

IInv == TypeOK /\ TimerInv /\ SummaryInv /\ SettledCancel /\ SaidInv

-----------------------------------------------------------------------------
(* What the helpers return *)

\* The task of a candidate is a task, and an immediate candidate is not a
\* completion (NotificationCandidate.task_id).
LEMMA CandidateTask ==
    ASSUME NEW c \in Candidate PROVE TaskOf(c) \in Task
  BY DEF Candidate, TaskOf, Run

\* The ids _candidate_id makes.
LEMMA CandidateIds ==
    /\ \A r \in Run : Completion(r) \in Candidate /\ Blocking(r) \in Candidate
    /\ \A t \in Task : NeedsInput(t) \in Candidate
  BY DEF Candidate, Completion, Blocking, NeedsInput, Run

\* What the two managers make of one write: candidates of the write's task
\* that did not exist, and questions of the task.
LEMMA HandledTypes ==
    ASSUME TypeOK, NEW e \in Event
    PROVE  /\ Built(e) \subseteq Candidate
           /\ \A c \in Built(e) : cand[c] = "none"
           /\ Raised(e) \subseteq Task \X (0 .. MaxRuns)
  <1>1. CASE e.kind = "run"
    <2>1. e.of \in Run
      BY <1>1 DEF Event
    <2>2. e.of \in Task \X (0 .. MaxRuns)
      BY <2>1, ConstantsAssumption DEF Run
    <2> QED
      BY <1>1, <2>1, <2>2, CandidateIds DEF Built, Raised
  <1>2. CASE e.kind = "summary"
    <2>1. e.of \in Task
      BY <1>2 DEF Event
    <2>2. <<e.of, 0>> \in Task \X (0 .. MaxRuns)
      BY <2>1, ConstantsAssumption
    <2> QED
      BY <1>2, <2>1, <2>2, CandidateIds DEF Built, Raised
  <1> QED
    BY <1>1, <1>2 DEF Event

\* A candidate built for a cancelled task comes from a summary that asks for
\* input (build_from_summary does not look at the task's status).
LEMMA BuiltWhenCancelled ==
    ASSUME TypeOK, NEW e \in Event, NEW c \in Built(e), task[TaskOf(c)] = "cancelled"
    PROVE  TaskOf(c) \in needsInput
  <1>1. CASE e.kind = "run"
    BY <1>1 DEF Built, TaskOf, Completion, Blocking
  <1>2. CASE e.kind = "summary"
    BY <1>2 DEF Built, TaskOf, NeedsInput
  <1> QED
    BY <1>1, <1>2 DEF Event

-----------------------------------------------------------------------------
(* Type correctness *)

LEMMA TypeInit == Init => TypeOK
  <1> SUFFICES ASSUME Init PROVE TypeOK
    OBVIOUS
  <1>1. 0 \in 0 .. MaxRuns /\ 0 \in 0 .. MaxMessages
    BY ConstantsAssumption
  <1>2. inbox + (IF turn THEN 1 ELSE 0) <= sent
    BY DEF Init
  <1>3. events \in Seq(Event)
    BY DEF Init
  <1> QED
    BY <1>1, <1>2, <1>3 DEF Init, TypeOK

LEMMA TypeStep == TypeOK /\ [Next]_vars => TypeOK'
  <1> SUFFICES ASSUME TypeOK, [Next]_vars PROVE TypeOK'
    OBVIOUS
  <1> USE DEF boardVars, candVars, pumpVars, talkVars
  <1>1. ASSUME NEW t \in Task, StartRun(t) PROVE TypeOK'
    <2>1. <<t, attempts[t] + 1>> \in Run /\ attempts[t] + 1 \in 0 .. MaxRuns
      BY <1>1, ConstantsAssumption DEF StartRun, TypeOK, Run
    <2>2. RunWrite(<<t, attempts[t] + 1>>) \in Event
      BY <2>1 DEF RunWrite, Event
    <2>3. events' \in Seq(Event)
      BY <1>1, <2>2 DEF StartRun, TypeOK
    <2> QED
      BY <1>1, <2>1, <2>3 DEF StartRun, TypeOK
  <1>2. ASSUME NEW r \in Run, NEW status \in {"blocked", "completed", "failed"}, EndRun(r, status)
        PROVE  TypeOK'
    <2>1. r[1] \in Task
      BY DEF Run
    <2>2. RunWrite(r) \in Event /\ SummaryWrite(r[1]) \in Event
      BY <2>1 DEF RunWrite, SummaryWrite, Event
    <2>3. EndWrites(r) \in Seq(Event) /\ <<SummaryWrite(r[1])>> \in Seq(Event)
      BY <2>2 DEF EndWrites
    <2>4. events' \in Seq(Event)
      BY <1>2, <2>3 DEF EndRun, TypeOK
    <2> QED
      BY <1>2, <2>1, <2>4 DEF EndRun, TypeOK
  <1>3. ASSUME NEW t \in Task, FinishCancel(t)
        PROVE  /\ run' \in [Run -> {"none", "running", "blocked", "completed", "failed", "cancelled"}]
               /\ needsInput' \subseteq Task
               /\ asked' \subseteq Task \X (0 .. MaxRuns)
               /\ cand' \in [Candidate -> {"none", "pending", "emitted", "suppressed"}]
               /\ events' \in Seq(Event)
               /\ other' \in BOOLEAN
    <2>1. SummaryWrite(t) \in Event
      BY DEF SummaryWrite, Event
    <2>2. ASSUME CommandRun(t) # {} PROVE RunWrite(<<t, attempts[t]>>) \in Event
      BY <2>2 DEF CommandRun, RunWrite, Event
    <2>3. (IF CommandRun(t) = {} THEN <<>> ELSE <<RunWrite(<<t, attempts[t]>>)>>) \in Seq(Event)
      BY <2>2
    <2>4. events' \in Seq(Event)
      BY <1>3, <2>1, <2>3 DEF FinishCancel, TypeOK
    <2>5. Suppressed(t) \in [Candidate -> {"none", "pending", "emitted", "suppressed"}]
      BY DEF Suppressed, TypeOK
    <2> QED
      BY <1>3, <2>4, <2>5 DEF FinishCancel, TypeOK
  <1>4. ASSUME NEW t \in Task, CancelTask(t) PROVE TypeOK'
    <2>1. CASE CommandRun(t) \cap live # {}
      BY <1>4, <2>1 DEF CancelTask, TypeOK
    <2>2. CASE ~(CommandRun(t) \cap live # {})
      BY <1>3, <1>4, <2>2 DEF CancelTask, TypeOK
    <2> QED
      BY <2>1, <2>2
  <1>5. ASSUME NEW t \in Task, CancelSent(t) PROVE TypeOK'
    BY <1>3, <1>5 DEF CancelSent, TypeOK
  <1>6. ASSUME NEW t \in Task, Requeue(t), asked' \subseteq asked PROVE TypeOK'
    <2>1. SummaryWrite(t) \in Event
      BY DEF SummaryWrite, Event
    <2>2. events' \in Seq(Event)
      BY <1>6, <2>1 DEF Requeue, TypeOK
    <2> QED
      BY <1>6, <2>2 DEF Requeue, TypeOK
  <1>7. ASSUME NEW t \in Task, DirectInput(t) PROVE TypeOK'
    BY <1>7 DEF DirectInput, TypeOK
  <1>8. ASSUME Writers PROVE TypeOK'
    <2>1. ASSUME NEW t \in Task, RetryTask(t) PROVE TypeOK'
      BY <1>6, <2>1 DEF RetryTask
    <2>2. ASSUME NEW q \in asked, AnswerRequest(q) PROVE TypeOK'
      <3>1. q[1] \in Task
        BY DEF TypeOK
      <3> QED
        BY <1>6, <2>2, <3>1 DEF AnswerRequest
    <2> QED
      BY <1>1, <1>2, <1>4, <1>5, <1>7, <1>8, <2>1, <2>2 DEF Writers
  <1>9. ASSUME Conversation PROVE TypeOK'
    <2>1. CASE SubmitMessage
      <3>1. sent' \in 0 .. MaxMessages /\ inbox' \in Nat
        BY <2>1, ConstantsAssumption DEF SubmitMessage, TypeOK
      <3>2. inbox' + (IF turn' THEN 1 ELSE 0) <= sent'
        BY <2>1 DEF SubmitMessage, TypeOK
      <3> QED
        BY <2>1, <3>1, <3>2 DEF SubmitMessage, TypeOK
    <2>2. CASE StartTurn
      <3>1. inbox' \in Nat /\ inbox' + (IF turn' THEN 1 ELSE 0) <= sent'
        BY <2>2 DEF StartTurn, TypeOK
      <3> QED
        BY <2>2, <3>1 DEF StartTurn, TypeOK
    <2>3. CASE EndTurn
      <3>1. inbox' + (IF turn' THEN 1 ELSE 0) <= sent'
        BY <2>3 DEF EndTurn, TypeOK
      <3> QED
        BY <2>3, <3>1 DEF EndTurn, TypeOK
    <2> QED
      BY <1>9, <2>1, <2>2, <2>3 DEF Conversation
  <1>10. ASSUME NEW c \in Candidate, WindowOver(c) PROVE TypeOK'
    BY <1>10 DEF WindowOver, TypeOK
  <1>11. ASSUME PumpWakes PROVE TypeOK'
    BY <1>11 DEF PumpWakes, TypeOK
  <1>12. ASSUME HandleWrite PROVE TypeOK'
    <2>1. Head(events) \in Event /\ Tail(events) \in Seq(Event)
      BY <1>12 DEF HandleWrite, TypeOK
    <2>2. /\ asked' \subseteq Task \X (0 .. MaxRuns)
          /\ cand' \in [Candidate -> {"none", "pending", "emitted", "suppressed"}]
          /\ created' \in Nat
      BY <1>12, <2>1, HandledTypes DEF HandleWrite, TypeOK
    <2>3. born' \in [Candidate -> Nat]
      BY <1>12, <2>2 DEF HandleWrite, TypeOK
    <2>4. other' \in BOOLEAN
      BY <1>12 DEF HandleWrite, TypeOK
    <2> QED
      BY <1>12, <2>1, <2>2, <2>3, <2>4 DEF HandleWrite, TypeOK
  <1>13. ASSUME Plan PROVE TypeOK'
    BY <1>13 DEF Plan, Pending, TypeOK
  <1>14. ASSUME EmitGroup PROVE TypeOK'
    <2>1. Marked \in [Candidate -> {"none", "pending", "emitted", "suppressed"}]
      BY DEF Marked, TypeOK
    <2> QED
      BY <1>14, <2>1 DEF EmitGroup, TypeOK
  <1>15. ASSUME UNCHANGED vars PROVE TypeOK'
    BY <1>15 DEF vars, TypeOK
  <1> QED
    BY <1>8, <1>9, <1>10, <1>11, <1>12, <1>13, <1>14, <1>15 DEF Next, Pump

-----------------------------------------------------------------------------
(* No wake-up is lost *)

LEMMA TimerStep == TypeOK /\ TimerInv /\ [Next]_vars => TimerInv'
  <1> SUFFICES ASSUME TypeOK, TimerInv, [Next]_vars PROVE TimerInv'
    OBVIOUS
  <1> USE DEF boardVars, candVars, pumpVars, talkVars
  <1>1. ASSUME Writers PROVE TimerInv'
    <2>1. other'
      BY <1>1 DEF Writers, StartRun, EndRun, CancelTask, CancelSent, FinishCancel,
                  RetryTask, AnswerRequest, Requeue, DirectInput
    <2> QED
      BY <2>1 DEF TimerInv, Asleep
  <1>2. ASSUME Conversation PROVE TimerInv'
    <2>1. wakeup'
      BY <1>2 DEF Conversation, SubmitMessage, StartTurn, EndTurn
    <2> QED
      BY <2>1 DEF TimerInv, Asleep
  <1>3. ASSUME NEW d \in Candidate, WindowOver(d) PROVE TimerInv'
    <2> SUFFICES ASSUME Asleep', NEW c \in Pending'
                 PROVE  /\ ~Immediate(c)
                        /\ timer' \in Candidate /\ ~Immediate(timer') /\ cand'[timer'] # "none"
                        /\ born'[timer'] <= born'[c]
                        /\ c \in due' => timer' \in due'
      BY DEF TimerInv, Immediate
    <2>1. Asleep /\ c \in Pending
      BY <1>3 DEF WindowOver, Asleep, Busy, Pending
    <2>2. /\ ~Immediate(c)
          /\ timer \in Candidate /\ ~Immediate(timer) /\ cand[timer] # "none"
          /\ born[timer] <= born[c]
          /\ c \in due => timer \in due
      BY <2>1 DEF TimerInv
    <2>3. c = d => timer \in due'
      BY <1>3, <2>2 DEF WindowOver
    <2>4. c # d => (c \in due' => timer \in due')
      BY <1>3, <2>2 DEF WindowOver
    <2> QED
      BY <1>3, <2>2, <2>3, <2>4 DEF WindowOver
  <1>4. ASSUME PumpWakes \/ HandleWrite PROVE TimerInv'
    <2>1. pc' # "wait"
      BY <1>4 DEF PumpWakes, HandleWrite
    <2> QED
      BY <2>1 DEF TimerInv, Asleep
  <1>5. ASSUME Plan PROVE TimerInv'
    <2> SUFFICES ASSUME Asleep', NEW c \in Pending'
                 PROVE  /\ ~Immediate(c)
                        /\ timer' \in Candidate /\ ~Immediate(timer') /\ cand'[timer'] # "none"
                        /\ born'[timer'] <= born'[c]
                        /\ c \in due' => timer' \in due'
      BY DEF TimerInv, Immediate
    <2> DEFINE ready == {d \in Pending : Immediate(d) \/ d \in due}
    <2>1. ~Busy /\ c \in Pending
      BY <1>5 DEF Plan, Asleep, Busy, Pending
    <2>2. ready = {}
      BY <1>5, <2>1 DEF Plan, Asleep
    <2>3. ~Immediate(c) /\ c \notin due
      BY <2>1, <2>2
    <2>4. PICK d \in Pending : (\A x \in Pending : born[d] <= born[x]) /\ timer' = d
      BY <1>5, <2>1, <2>2 DEF Plan
    <2>5. ~Immediate(d) /\ cand[d] # "none" /\ d \in Candidate
      BY <2>2 DEF Pending
    <2> QED
      BY <1>5, <2>1, <2>3, <2>4, <2>5 DEF Plan
  <1>6. ASSUME EmitGroup PROVE TimerInv'
    <2>1. other'
      BY <1>6 DEF EmitGroup
    <2> QED
      BY <2>1 DEF TimerInv, Asleep
  <1>7. ASSUME UNCHANGED vars PROVE TimerInv'
    BY <1>7 DEF vars, TimerInv, Asleep, Busy, Pending, Immediate
  <1> QED
    BY <1>1, <1>2, <1>3, <1>4, <1>5, <1>6, <1>7 DEF Next, Pump

-----------------------------------------------------------------------------
(* Cancellation *)

LEMMA CancelStep ==
    TypeOK /\ SummaryInv /\ SettledCancel /\ [Next]_vars => SummaryInv' /\ SettledCancel'
  <1> SUFFICES ASSUME TypeOK, SummaryInv, SettledCancel, [Next]_vars
               PROVE  SummaryInv' /\ SettledCancel'
    OBVIOUS
  <1> USE DEF boardVars, candVars, pumpVars, talkVars
  \* Steps that cancel nothing and make nothing pending.
  <1>1. ASSUME \A t \in Task : task'[t] = "cancelled" => task[t] = "cancelled",
               \A t \in needsInput' : task'[t] = "cancelled" => t \in needsInput,
               cancelling' = cancelling,
               needsInput' \subseteq Task,
               Pending' \subseteq Pending
        PROVE  SummaryInv' /\ SettledCancel'
    <2>1. \A c \in Pending' : TaskOf(c) \in Task
      BY CandidateTask DEF Pending
    <2>2. SummaryInv'
      BY <1>1 DEF SummaryInv
    <2>3. SettledCancel'
      BY <1>1, <2>1 DEF SettledCancel, TaskOf
    <2> QED
      BY <2>2, <2>3
  <1>2. ASSUME NEW t \in Task, StartRun(t) PROVE SummaryInv' /\ SettledCancel'
    BY <1>1, <1>2 DEF StartRun, Pending, TypeOK
  <1>3. ASSUME NEW r \in Run, NEW status \in {"blocked", "completed", "failed"}, EndRun(r, status)
        PROVE  SummaryInv' /\ SettledCancel'
    <2>1. r[1] \in Task
      BY DEF Run
    <2> QED
      BY <1>1, <1>3, <2>1 DEF EndRun, Pending, TypeOK
  <1>4. ASSUME NEW t \in Task, FinishCancel(t),
               \A u \in Task \ {t} : task'[u] = task[u] /\ (u \in cancelling <=> u \in cancelling')
        PROVE  SummaryInv' /\ SettledCancel'
    <2>1. \A c \in Pending' : c \in Pending /\ TaskOf(c) \in Task \ {t}
      <3> SUFFICES ASSUME NEW c \in Pending' PROVE c \in Pending /\ TaskOf(c) \in Task \ {t}
        OBVIOUS
      <3>1. c \in Candidate /\ Suppressed(t)[c] = "pending"
        BY <1>4 DEF FinishCancel, Pending
      <3>2. cand[c] = "pending" /\ TaskOf(c) # t
        BY <3>1 DEF Suppressed
      <3> QED
        BY <3>1, <3>2, CandidateTask DEF Pending
    <2>2. SettledCancel'
      BY <1>4, <2>1 DEF SettledCancel, TaskOf
    <2>3. SummaryInv'
      BY <1>4 DEF SummaryInv, FinishCancel, TypeOK
    <2> QED
      BY <2>2, <2>3
  <1>5. ASSUME NEW t \in Task, CancelTask(t) PROVE SummaryInv' /\ SettledCancel'
    <2>1. CASE CommandRun(t) \cap live # {}
      <3>1. \A u \in Task : task'[u] = "cancelled" => task[u] = "cancelled" \/ u \in cancelling'
        BY <1>5, <2>1 DEF CancelTask, TypeOK
      <3>2. \A c \in Pending' : c \in Pending /\ TaskOf(c) \in Task
        BY <1>5, <2>1, CandidateTask DEF CancelTask, Pending
      <3>3. cancelling \subseteq cancelling' /\ needsInput' = needsInput
        BY <1>5, <2>1 DEF CancelTask
      <3>4. SettledCancel'
        BY <3>1, <3>2, <3>3 DEF SettledCancel, TaskOf
      <3>5. SummaryInv'
        BY <3>1, <3>3 DEF SummaryInv, TypeOK
      <3> QED
        BY <3>4, <3>5
    <2>2. CASE ~(CommandRun(t) \cap live # {})
      BY <1>4, <1>5, <2>2 DEF CancelTask, TypeOK
    <2> QED
      BY <2>1, <2>2
  <1>6. ASSUME NEW t \in Task, CancelSent(t) PROVE SummaryInv' /\ SettledCancel'
    BY <1>4, <1>6 DEF CancelSent
  <1>7. ASSUME NEW t \in Task, Requeue(t) PROVE SummaryInv' /\ SettledCancel'
    BY <1>1, <1>7 DEF Requeue, Pending, TypeOK
  <1>8. ASSUME NEW q \in asked, AnswerRequest(q) PROVE SummaryInv' /\ SettledCancel'
    <2>1. q[1] \in Task
      BY DEF TypeOK
    <2> QED
      BY <1>7, <1>8, <2>1 DEF AnswerRequest
  <1>9. ASSUME NEW t \in Task, DirectInput(t) PROVE SummaryInv' /\ SettledCancel'
    BY <1>1, <1>9 DEF DirectInput, Pending, TypeOK
  <1>10. ASSUME Writers PROVE SummaryInv' /\ SettledCancel'
    BY <1>2, <1>3, <1>5, <1>6, <1>7, <1>8, <1>9, <1>10 DEF Writers, RetryTask
  <1>11. ASSUME \/ Conversation
                \/ \E c \in Candidate : WindowOver(c)
                \/ PumpWakes
                \/ Plan
                \/ UNCHANGED vars
         PROVE  SummaryInv' /\ SettledCancel'
    <2>1. UNCHANGED <<task, needsInput, cancelling, cand>>
      BY <1>11 DEF Conversation, SubmitMessage, StartTurn, EndTurn, WindowOver, PumpWakes, Plan, vars
    <2> QED
      BY <1>1, <2>1 DEF Pending, TypeOK
  <1>12. ASSUME HandleWrite PROVE SummaryInv' /\ SettledCancel'
    <2>1. Head(events) \in Event
      BY <1>12 DEF HandleWrite, TypeOK
    <2>2. UNCHANGED <<task, needsInput, cancelling>>
      BY <1>12 DEF HandleWrite
    <2>3. \A c \in Pending' : c \in Pending \/ c \in Built(Head(events))
      BY <1>12 DEF HandleWrite, Pending
    <2>4. SummaryInv'
      BY <2>2 DEF SummaryInv
    <2>5. SettledCancel'
      BY <2>1, <2>2, <2>3, BuiltWhenCancelled DEF SettledCancel, SummaryInv, TaskOf
    <2> QED
      BY <2>4, <2>5
  <1>13. ASSUME EmitGroup PROVE SummaryInv' /\ SettledCancel'
    <2>1. Pending' \subseteq Pending
      BY <1>13 DEF EmitGroup, Marked, Pending
    <2> QED
      BY <1>1, <1>13, <2>1 DEF EmitGroup, TypeOK
  <1> QED
    BY <1>10, <1>11, <1>12, <1>13 DEF Next, Pump

-----------------------------------------------------------------------------
(* Nobody is told twice *)

LEMMA SaidStep == TypeOK /\ SaidInv /\ [Next]_vars => SaidInv'
  <1> SUFFICES ASSUME TypeOK, SaidInv, [Next]_vars PROVE SaidInv'
    OBVIOUS
  <1> USE DEF boardVars, candVars, pumpVars, talkVars
  \* Steps of the others: a candidate may be suppressed, no more.
  <1>1. ASSUME UNCHANGED <<said, plan, pc>>,
               \A c \in Candidate : cand'[c] = cand[c] \/ cand'[c] = "suppressed"
        PROVE  SaidInv'
    BY <1>1 DEF SaidInv
  <1>2. ASSUME NEW t \in Task, FinishCancel(t)
        PROVE  \A c \in Candidate : cand'[c] = cand[c] \/ cand'[c] = "suppressed"
    BY <1>2 DEF FinishCancel, Suppressed
  <1>3. ASSUME NEW t \in Task, CancelTask(t) \/ CancelSent(t) PROVE SaidInv'
    <2>1. UNCHANGED <<said, plan, pc>>
      BY <1>3 DEF CancelTask, CancelSent
    <2>2. FinishCancel(t) \/ UNCHANGED cand
      BY <1>3 DEF CancelTask, CancelSent
    <2> QED
      BY <1>1, <1>2, <2>1, <2>2
  <1>4. ASSUME Writers PROVE SaidInv'
    <2>1. CASE \E t \in Task : CancelTask(t) \/ CancelSent(t)
      BY <1>3, <2>1
    <2>2. CASE ~(\E t \in Task : CancelTask(t) \/ CancelSent(t))
      <3>1. UNCHANGED <<said, plan, pc, cand>>
        BY <1>4, <2>2 DEF Writers, StartRun, EndRun, RetryTask, AnswerRequest, Requeue, DirectInput
      <3> QED
        BY <1>1, <3>1
    <2> QED
      BY <2>1, <2>2
  <1>5. ASSUME Conversation \/ (\E c \in Candidate : WindowOver(c)) \/ UNCHANGED vars PROVE SaidInv'
    <2>1. UNCHANGED <<said, plan, pc, cand>>
      BY <1>5 DEF Conversation, SubmitMessage, StartTurn, EndTurn, WindowOver, vars
    <2> QED
      BY <1>1, <2>1
  <1>6. ASSUME PumpWakes PROVE SaidInv'
    BY <1>6 DEF PumpWakes, SaidInv
  <1>7. ASSUME HandleWrite PROVE SaidInv'
    <2>1. Head(events) \in Event
      BY <1>7 DEF HandleWrite, TypeOK
    <2>2. \A c \in Built(Head(events)) : cand[c] = "none"
      BY <2>1, HandledTypes
    <2>3. \A c \in Candidate : cand'[c] \in {"none", "pending"} => cand[c] \in {"none", "pending"}
      BY <1>7, <2>2 DEF HandleWrite
    <2> QED
      BY <1>7, <2>3 DEF HandleWrite, SaidInv
  <1>8. ASSUME Plan PROVE SaidInv'
    <2>1. \A c \in plan' : cand[c] = "pending"
      BY <1>8 DEF Plan, Pending
    <2>2. pc' # "emit" => plan' = {}
      BY <1>8 DEF Plan
    <2> QED
      BY <1>8, <2>1, <2>2 DEF Plan, SaidInv
  <1>9. ASSUME EmitGroup PROVE SaidInv'
    <2>1. ASSUME NEW c \in Candidate
          PROVE  /\ said'[c] <= 1
                 /\ cand'[c] \in {"none", "pending"} => said'[c] = 0
                 /\ c \in plan' => said'[c] = 0
      <3>1. CASE c \in group
        BY <1>9, <3>1 DEF EmitGroup, Marked, SaidInv, TypeOK
      <3>2. CASE c \notin group
        BY <1>9, <3>2 DEF EmitGroup, Marked, SaidInv, TypeOK
      <3> QED
        BY <3>1, <3>2
    <2>2. pc' # "emit" => plan' = {}
      BY <1>9 DEF EmitGroup
    <2> QED
      BY <2>1, <2>2 DEF SaidInv
  <1> QED
    BY <1>4, <1>5, <1>6, <1>7, <1>8, <1>9 DEF Next, Pump

-----------------------------------------------------------------------------
(* The theorems *)

LEMMA Invariance == Spec => []IInv
  <1>1. Init => IInv
    <2> SUFFICES ASSUME Init PROVE IInv
      OBVIOUS
    <2>1. TypeOK
      BY TypeInit
    <2>2. Pending = {}
      BY DEF Init, Pending
    <2> QED
      BY <2>1, <2>2 DEF Init, IInv, TimerInv, SummaryInv, SettledCancel, SaidInv
  <1>2. IInv /\ [Next]_vars => IInv'
    BY TypeStep, TimerStep, CancelStep, SaidStep DEF IInv
  <1> QED
    BY <1>1, <1>2, PTL DEF Spec

(***************************************************************************)
(* Every variable keeps its type, and every turn answers a message that    *)
(* was submitted (SessionRuntime's and NotificationManager's fields).      *)
(***************************************************************************)
THEOREM PumpTypeCorrect == Spec => []TypeOK
  <1>1. IInv => TypeOK
    BY DEF IInv
  <1> QED
    BY <1>1, Invariance, PTL

(***************************************************************************)
(* _notification_loop loses no wake-up, however many tasks, turns and      *)
(* candidates there are.                                                   *)
(***************************************************************************)
THEOREM NoLostWakeup == Spec => []DeliveryIsComing
  <1>1. IInv => DeliveryIsComing
    <2> SUFFICES ASSUME IInv, pc = "wait", ~Busy, NEW c \in Pending,
                        ~wakeup, events = <<>>, ~other
                 PROVE  timer # NoTimer /\ (Immediate(c) \/ c \in due => timer \in due)
      BY DEF DeliveryIsComing
    <2>1. Asleep
      BY DEF Asleep
    <2>2. timer \in Candidate /\ ~Immediate(c) /\ (c \in due => timer \in due)
      BY <2>1 DEF IInv, TimerInv
    <2> QED
      BY <2>2, ConstantsAssumption
  <1> QED
    BY <1>1, Invariance, PTL

(***************************************************************************)
(* A cancel command that is through leaves nothing of its task pending     *)
(* (apply_command with CANCEL_TASK).                                       *)
(***************************************************************************)
THEOREM CancelSettles == Spec => []SettledCancel
  <1>1. IInv => SettledCancel
    BY DEF IInv
  <1> QED
    BY <1>1, Invariance, PTL

(***************************************************************************)
(* The user is told of no candidate twice (_emit_group).                   *)
(***************************************************************************)
THEOREM NeverToldTwice == Spec => []ToldOnce
  <1>1. IInv => ToldOnce
    BY DEF IInv, SaidInv, ToldOnce
  <1> QED
    BY <1>1, Invariance, PTL
=============================================================================
