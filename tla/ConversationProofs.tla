------------------------- MODULE ConversationProofs -------------------------
(***************************************************************************)
(* Proofs about Conversation, for any texts, corrections, drafts and       *)
(* bounds: between turns a request has one live copy, and every task a     *)
(* turn has made was told of.                                              *)
(***************************************************************************)
EXTENDS Conversation, FiniteSetTheorems, TLAPS

USE BoundAssumption, TextAssumption DEF BoundAssumption, TextAssumption

-----------------------------------------------------------------------------
(* The invariant *)

Status == Active \cup Terminal
TaskRecord == [status : Status, slots : SUBSET Slot, root : Nat, refused : BOOLEAN]
Phases == {"idle", "model", "sending", "pausing", "stopping", "replacing", "replacing_send"}
Replacing == {"replacing", "replacing_send"}
Fixes == Corrections \cup {Idle.fix}

\* q is a list of the first n tasks.
Names(q, n) == q \in Seq(Nat) /\ \A i \in 1..Len(q) : q[i] \in 1..n

TaskType == task \in Seq(TaskRecord) /\ \A t \in TaskId : task[t].root \in TaskId
FocusType ==
  /\ focus \in [ids : Seq(Nat), head : Nat, by : {"turn", "model", "notice"}]
  /\ Names(focus.ids, Len(task)) /\ focus.head \in 0..Len(task)
TurnType ==
  /\ turn \in [phase : Phases, did : Seq(Nat), made : SUBSET Nat, old : Seq(Nat), new : Seq(Nat),
               at : Nat, fix : Fixes]
  /\ Names(turn.did, Len(task)) /\ Names(turn.old, Len(task)) /\ Names(turn.new, Len(task))
NewsType == news \subseteq TaskId /\ wording \subseteq TaskId
Types == TaskType /\ FocusType /\ TurnType /\ NewsType

IsActive(t) == task[t].status \in Active

\* The tasks a correction has yet to cancel.
Due == {turn.old[j] : j \in {i \in 1..Len(turn.old) :
                               \/ turn.phase = "replacing" /\ i >= turn.at
                               \/ turn.phase = "replacing_send" /\ i > turn.at}}

\* No other task of h's request is active, but for those due.
Latest(h) ==
  \A u \in TaskId :
    u # h /\ task[u].root = task[h].root /\ task[h].root \notin split /\ IsActive(u) => u \in Due

\* Two active tasks of a request are one that is due and its clone.
OneCopy ==
  \A t, u \in TaskId :
    /\ t # u /\ task[t].root = task[u].root /\ task[t].root \notin split
    /\ IsActive(t) /\ IsActive(u)
    => t \in Due \/ u \in Due

\* A turn of the brain leaves the focus on the task that took over.
FocusInv ==
  turn.phase \notin Replacing /\ focus.by = "turn" /\ focus.head # 0 => Latest(focus.head)

TurnInv ==
  /\ turn.phase = "stopping" => turn.old # <<>> /\ Latest(turn.old[1])
  /\ turn.phase \in Replacing =>
       /\ turn.new # <<>> /\ turn.at # 0
       /\ \A k \in 1..Len(turn.new) : Latest(turn.new[k])
  /\ turn.phase \in {"model", "sending", "pausing"} => turn.made \subseteq ToSet(turn.did)

\* What the turn has made and not told of yet.
Untold == IF turn.phase \in {"model", "sending", "pausing"} THEN turn.made
          ELSE IF turn.phase \in Replacing THEN ToSet(turn.new) ELSE {}
ToldInv == (Len(DraftTasks) + 1)..Len(task) \subseteq told \cup untold \cup Untold

IInv == Types /\ OneCopy /\ FocusInv /\ TurnInv /\ ToldInv

-----------------------------------------------------------------------------
(* Lists of tasks *)

LEMMA NamesFacts ==
  ASSUME NEW n \in Nat
  PROVE  /\ Names(<<>>, n)
         /\ \A t \in 1..n : Names(<<t>>, n)
         /\ \A m \in Nat : \A q : n <= m /\ Names(q, n) => Names(q, m)
         /\ \A q : \A t \in 1..n : Names(q, n) => Names(Append(q, t), n)
<1>1. Names(<<>>, n)
  BY DEF Names
<1>2. ASSUME NEW t \in 1..n PROVE Names(<<t>>, n)
  <2>1. <<t>> \in Seq(Nat) /\ Len(<<t>>) = 1 /\ <<t>>[1] = t
    OBVIOUS
  <2> QED BY <2>1 DEF Names
<1>3. \A m \in Nat : \A q : n <= m /\ Names(q, n) => Names(q, m)
  BY DEF Names
<1>4. ASSUME NEW q, NEW t \in 1..n, Names(q, n) PROVE Names(Append(q, t), n)
  <2>1. /\ q \in Seq(Nat) /\ Len(q) \in Nat
        /\ Append(q, t) \in Seq(Nat) /\ Len(Append(q, t)) = Len(q) + 1
        /\ \A i \in 1..Len(q) : Append(q, t)[i] = q[i]
        /\ Append(q, t)[Len(q) + 1] = t
    BY <1>4 DEF Names
  <2>2. ASSUME NEW i \in 1..Len(q) + 1 PROVE Append(q, t)[i] \in 1..n
    <3>1. CASE i \in 1..Len(q)
      BY <1>4, <2>1, <3>1 DEF Names
    <3>2. CASE i = Len(q) + 1
      BY <2>1, <3>2
    <3> QED BY <2>1, <3>1, <3>2
  <2> QED BY <2>1, <2>2 DEF Names
<1> QED BY <1>1, <1>2, <1>3, <1>4

LEMMA Joined ==
  ASSUME NEW p \in Seq(Nat), NEW q \in Seq(Nat)
  PROVE  ToSet(q) \subseteq ToSet(p \o q)
<1>1. /\ Len(p) \in Nat /\ Len(q) \in Nat /\ p \o q \in Seq(Nat)
      /\ Len(p \o q) = Len(p) + Len(q)
      /\ \A i \in 1..Len(q) : (p \o q)[Len(p) + i] = q[i]
  OBVIOUS
<1>2. DOMAIN (p \o q) = 1..(Len(p) + Len(q)) /\ DOMAIN q = 1..Len(q)
  BY <1>1
<1>3. ASSUME NEW i \in 1..Len(q) PROVE q[i] \in ToSet(p \o q)
  <2>1. Len(p) + i \in DOMAIN (p \o q)
    BY <1>1, <1>2
  <2> QED BY <1>1, <2>1 DEF ToSet
<1> QED BY <1>2, <1>3 DEF ToSet

LEMMA Appended ==
  ASSUME NEW q \in Seq(Nat), NEW t
  PROVE  ToSet(q) \cup {t} \subseteq ToSet(Append(q, t))
<1> DEFINE p == Append(q, t)
<1>1. /\ Len(q) \in Nat /\ DOMAIN p = 1..(Len(q) + 1) /\ DOMAIN q = 1..Len(q)
      /\ p[Len(q) + 1] = t /\ \A i \in 1..Len(q) : p[i] = q[i]
  OBVIOUS
<1> HIDE DEF p
<1>2. ToSet(q) \cup {t} \subseteq ToSet(p)
  BY <1>1 DEF ToSet
<1> QED BY <1>2 DEF p

LEMMA LenFacts ==
  ASSUME TaskType
  PROVE  Len(task) \in Nat /\ TaskId = 1..Len(task) /\ \A t \in TaskId : task[t] \in TaskRecord
BY DEF TaskType, TaskId

-----------------------------------------------------------------------------
(* Steps that make no task *)

\* No task becomes active whose request is not excepted.
Calm ==
  /\ Len(task') = Len(task) /\ split \subseteq split'
  /\ \A t \in TaskId : /\ task'[t].root = task[t].root
                       /\ IsActive(t)' => IsActive(t) \/ task[t].root \in split'

LEMMA Edit ==
  ASSUME TaskType, split \subseteq split', NEW t \in TaskId, NEW r \in TaskRecord,
         task' = [task EXCEPT ![t] = r], r.root = task[t].root,
         r.status \in Active => IsActive(t) \/ task[t].root \in split'
  PROVE  TaskType' /\ Calm /\ task'[t] = r /\ \A u \in TaskId : u # t => task'[u] = task[u]
<1>1. task \in Seq(TaskRecord) /\ t \in 1..Len(task)
  BY DEF TaskType, TaskId
<1>2. /\ task' \in Seq(TaskRecord) /\ Len(task') = Len(task) /\ task'[t] = r
      /\ \A u \in 1..Len(task) : u # t => task'[u] = task[u]
  BY <1>1
<1>3. TaskType'
  BY <1>2 DEF TaskType, TaskId
<1>4. Calm
  BY <1>2 DEF Calm, TaskId, IsActive
<1> QED BY <1>2, <1>3, <1>4 DEF TaskId

\* The new status of a task.
LEMMA SetStatus ==
  ASSUME TaskType, split \subseteq split', NEW t \in TaskId, NEW x \in Status,
         task' = [task EXCEPT ![t].status = x],
         x \in Active => IsActive(t) \/ task[t].root \in split'
  PROVE  TaskType' /\ Calm /\ task'[t].status = x
<1> DEFINE r == [task[t] EXCEPT !.status = x]
<1>1. r \in TaskRecord /\ r.root = task[t].root /\ r.status = x
  <2>1. task[t] \in TaskRecord
    BY LenFacts
  <2> QED BY <2>1 DEF TaskRecord
<1>2. task' = [task EXCEPT ![t] = r]
  OBVIOUS
<1> HIDE DEF r
<1> QED BY <1>1, <1>2, Edit

LEMMA CalmKeeps ==
  ASSUME Types, Calm, \A u \in TaskId : u \in Due /\ IsActive(u)' => u \in Due'
  PROVE  /\ OneCopy => OneCopy'
         /\ \A h \in TaskId : Latest(h) => Latest(h)'
<1>1. TaskId' = TaskId
  BY DEF Calm, TaskId
<1>2. ASSUME OneCopy PROVE OneCopy'
  BY <1>1, <1>2 DEF Calm, OneCopy
<1>3. ASSUME NEW h \in TaskId, Latest(h) PROVE Latest(h)'
  BY <1>1, <1>3 DEF Calm, Latest
<1> QED BY <1>2, <1>3

\* Every step that makes no task.
LEMMA CalmStep ==
  ASSUME IInv, TaskType', FocusType', TurnType', NewsType', Calm,
         \A u \in TaskId : u \in Due /\ IsActive(u)' => u \in Due',
         \/ focus' = focus /\ (turn'.phase \in Replacing \/ turn.phase \notin Replacing)
         \/ focus'.by # "turn" \/ focus'.head = 0
         \/ \E h \in TaskId : focus'.head = h /\ Latest(h),
         turn'.phase = "stopping" =>
           turn'.old # <<>> /\ \E h \in TaskId : turn'.old[1] = h /\ Latest(h),
         turn'.phase \in Replacing =>
           turn.phase \in Replacing /\ turn'.new = turn.new /\ turn'.at # 0,
         turn'.phase \in {"model", "sending", "pausing"} => turn'.made \subseteq ToSet(turn'.did),
         told \cup untold \cup Untold \subseteq told' \cup untold' \cup Untold'
  PROVE  IInv'
<1>1. TaskId' = TaskId /\ Len(task') = Len(task)
  BY DEF Calm, TaskId
<1>2. OneCopy' /\ \A h \in TaskId : Latest(h) => Latest(h)'
  BY CalmKeeps DEF IInv
<1>3. Types'
  BY DEF Types
<1>4. FocusInv'
  <2>1. SUFFICES ASSUME turn'.phase \notin Replacing, focus'.by = "turn", focus'.head # 0
                 PROVE  Latest(focus.head)'
    BY DEF FocusInv
  <2>2. PICK h \in TaskId : focus'.head = h /\ Latest(h)
    BY <2>1 DEF IInv, Types, FocusType, TaskId, FocusInv
  <2>3. Latest(h)'
    BY <1>2, <2>2
  <2> QED BY <2>2, <2>3 DEF Latest
<1>5. TurnInv'
  <2>1. ASSUME turn'.phase = "stopping" PROVE (turn.old # <<>> /\ Latest(turn.old[1]))'
    <3>1. PICK h \in TaskId : turn'.old[1] = h /\ Latest(h)
      BY <2>1
    <3>2. Latest(h)'
      BY <1>2, <3>1
    <3> QED BY <2>1, <3>1, <3>2 DEF Latest
  <2>2. ASSUME turn'.phase \in Replacing
        PROVE  (turn.new # <<>> /\ turn.at # 0 /\ \A k \in 1..Len(turn.new) : Latest(turn.new[k]))'
    <3>1. turn.new # <<>> /\ turn'.new = turn.new /\ turn'.at # 0
      BY <2>2 DEF IInv, TurnInv
    <3>2. ASSUME NEW k \in 1..Len(turn.new) PROVE Latest(turn.new[k])'
      <4>1. Latest(turn.new[k]) /\ turn.new[k] \in TaskId
        BY <2>2, <3>2 DEF IInv, TurnInv, Types, TurnType, Names, TaskId
      <4>2. PICK h \in TaskId : h = turn.new[k]
        BY <4>1
      <4>3. Latest(h)' /\ h = turn'.new[k]
        BY <1>2, <3>1, <4>1, <4>2
      <4> QED BY <4>3 DEF Latest
    <3> QED BY <3>1, <3>2
  <2> QED BY <2>1, <2>2 DEF TurnInv
<1>6. ToldInv'
  BY <1>1 DEF IInv, ToldInv
<1> QED BY <1>2, <1>3, <1>4, <1>5, <1>6 DEF IInv

\* Beside the turn.
LEMMA Aside ==
  ASSUME IInv, TaskType', Calm, NewsType', UNCHANGED <<focus, turn, told, untold>>
  PROVE  IInv'
<1>1. Due' = Due /\ Untold' = Untold /\ Len(task') = Len(task)
  BY DEF Due, Untold, Calm
<1>2. FocusType' /\ TurnType'
  BY <1>1 DEF IInv, Types, FocusType, TurnType
<1>3. ASSUME turn'.phase = "stopping"
      PROVE  turn'.old # <<>> /\ \E h \in TaskId : turn'.old[1] = h /\ Latest(h)
  BY <1>3 DEF IInv, TurnInv, Types, TurnType, Names, TaskId
<1>4. /\ turn'.phase \in {"model", "sending", "pausing"} => turn'.made \subseteq ToSet(turn'.did)
      /\ turn'.phase \in Replacing => turn'.at # 0
  BY DEF IInv, TurnInv
<1> QED BY <1>1, <1>2, <1>3, <1>4, CalmStep

\* A turn ends whose focus took over, or that leaves the focus alone.
LEMMA EndOfTurn ==
  ASSUME IInv, TaskType', Calm, NewsType', Due = {}, turn' = Idle, FocusType',
         \/ focus' = focus /\ turn.phase \notin Replacing
         \/ focus'.by # "turn" \/ focus'.head = 0
         \/ \E h \in TaskId : focus'.head = h /\ Latest(h),
         told \cup untold \cup Untold \subseteq told' \cup untold'
  PROVE  IInv'
<1>1. Idle.phase = "idle"
  BY DEF Idle
<1>2. TurnType'
  BY NamesFacts, LenFacts, <1>1 DEF TurnType, Idle, Fixes, Phases, Calm
<1> QED BY <1>1, <1>2, CalmStep DEF Replacing

\* With no correction under way, an active task is the latest of its request.
LEMMA ActiveIsLatest ==
  ASSUME OneCopy, Due = {}, NEW h \in TaskId, IsActive(h)
  PROVE  Latest(h)
BY DEF OneCopy, Latest

LEMMA NoneDue ==
  ASSUME turn.phase \notin Replacing
  PROVE  Due = {}
BY DEF Due, Replacing

-----------------------------------------------------------------------------
(* What goes on beside the turn *)

LEMMA StatusFacts ==
  /\ Active \subseteq Status /\ Terminal \subseteq Status /\ Active \cap Terminal = {}
  /\ "created" \in Active /\ "queued" \in Active /\ "running" \in Active /\ "paused" \in Active
  /\ "waiting_user_input" \in Active /\ "cancelled" \in Terminal
BY DEF Status, Active, Terminal

\* What a command makes of a task.
LEMMA Controlled ==
  ASSUME TaskType, NEW t \in TaskId, NEW c \in {"cancel", "pause", "resume", "retry"},
         task' = [task EXCEPT ![t].status = CommandResult(c)],
         split' = split \cup Woken(t, c)
  PROVE  TaskType' /\ Calm
<1> DEFINE x == CommandResult(c)
<1>1. x \in Status /\ (x \in Active => c # "cancel")
  BY StatusFacts DEF CommandResult
<1>2. task' = [task EXCEPT ![t].status = x] /\ split \subseteq split'
  OBVIOUS
<1>3. task[t] \in TaskRecord
  BY LenFacts
<1>4. x \in Active => IsActive(t) \/ task[t].root \in split'
  BY <1>1, <1>3 DEF Woken, IsActive, TaskRecord, Status
<1> HIDE DEF x
<1> QED BY <1>1, <1>2, <1>4, SetStatus

LEMMA AsideSteps ==
  ASSUME IInv
  PROVE  /\ \A m : SubmitMessage(m) => IInv'
         /\ \A t \in TaskId, s \in {"running"} \cup Outcomes : Executes(t, s) => IInv'
         /\ \A t \in TaskId : Answer(t) => IInv'
         /\ \A t \in TaskId, c \in Commands : SendCommand(t, c) => IInv'
         /\ \A ts \in SUBSET news : StartWording(ts) => IInv'
         /\ UNCHANGED vars => IInv'
<1>0. Types /\ TaskType /\ NewsType
  BY DEF IInv, Types
<1>1. ASSUME UNCHANGED <<task, split>> PROVE TaskType' /\ Calm /\ TaskId' = TaskId
  BY <1>0, <1>1 DEF TaskType, TaskId, Calm, IsActive
<1>2. ASSUME NEW m, SubmitMessage(m) PROVE IInv'
  BY <1>0, <1>1, <1>2, Aside DEF SubmitMessage, NewsType
<1>3. ASSUME NEW t \in TaskId, NEW s \in {"running"} \cup Outcomes, Executes(t, s) PROVE IInv'
  <2>1. s \in Status /\ IsActive(t)
    BY <1>3, StatusFacts DEF Executes, IsActive, Status
  <2>2. TaskType' /\ Calm
    BY <1>0, <1>3, <2>1, SetStatus DEF Executes
  <2>3. NewsType'
    BY <1>0, <1>3, <2>2 DEF Executes, NewsType, Calm, TaskId
  <2> QED BY <1>3, <2>2, <2>3, Aside DEF Executes
<1>4. ASSUME NEW t \in TaskId, Answer(t) PROVE IInv'
  <2>1. "queued" \in Status /\ IsActive(t)
    BY <1>4, StatusFacts DEF Answer, IsActive
  <2>2. TaskType' /\ Calm
    BY <1>0, <1>4, <2>1, SetStatus DEF Answer
  <2>3. NewsType'
    BY <1>0, <1>4, <2>2 DEF Answer, NewsType, Calm, TaskId
  <2> QED BY <1>4, <2>2, <2>3, Aside DEF Answer
<1>5. ASSUME NEW t \in TaskId, NEW c \in Commands, SendCommand(t, c) PROVE IInv'
  <2>1. /\ task' = [task EXCEPT ![t].status = CommandResult(c)]
        /\ split' = split \cup Woken(t, c)
    BY <1>5 DEF SendCommand
  <2>2. TaskType' /\ Calm
    BY <1>0, <2>1, Controlled
  <2>3. NewsType'
    BY <1>0, <1>5, <2>2 DEF SendCommand, NewsType, Calm, TaskId
  <2> QED BY <1>5, <2>2, <2>3, Aside DEF SendCommand
<1>6. ASSUME NEW ts \in SUBSET news, StartWording(ts) PROVE IInv'
  <2>1. TaskType' /\ Calm /\ NewsType'
    BY <1>0, <1>1, <1>6 DEF StartWording, NewsType
  <2> QED BY <1>6, <2>1, Aside DEF StartWording
<1>7. ASSUME UNCHANGED vars PROVE IInv'
  BY <1>0, <1>1, <1>7, Aside DEF vars, NewsType
<1> QED BY <1>2, <1>3, <1>4, <1>5, <1>6, <1>7

LEMMA NotifyKeeps ==
  ASSUME IInv, NEW key \in wording, Notify(key)
  PROVE  IInv'
<1>0. Types /\ TaskType /\ NewsType /\ TurnType /\ wording \subseteq TaskId /\ Len(task) \in Nat
  BY LenFacts DEF IInv, Types, NewsType
<1>1. TaskType' /\ Calm /\ TaskId' = TaskId /\ NewsType' /\ TurnType'
  BY <1>0 DEF Notify, TaskType, TaskId, Calm, IsActive, NewsType, TurnType
<1>2. FocusType' /\ focus'.by = "notice"
  <2>1. PICK ids \in [1..Cardinality(wording) -> wording] : focus' = Named(ids, key, "notice")
    BY DEF Notify
  <2>2. IsFiniteSet(wording)
    <3>1. IsFiniteSet(1..Len(task))
      BY <1>0, FS_Interval
    <3> QED BY <1>0, <3>1, FS_Subset DEF TaskId
  <2>3. Cardinality(wording) \in Nat
    BY <2>2, FS_CardinalityType
  <2>4. ids \in Seq(Nat) /\ Len(ids) = Cardinality(wording)
    <3> DEFINE m == Cardinality(wording)
    <3>1. m \in Nat /\ ids \in [1..m -> wording]
      BY <2>3
    <3> HIDE DEF m
    <3>2. wording \subseteq Nat
      BY <1>0 DEF TaskId
    <3>3. ids \in [1..m -> Nat]
      BY <3>1, <3>2
    <3>4. ids \in Seq(Nat) /\ Len(ids) = m
      BY <3>1, <3>3
    <3> QED BY <3>4 DEF m
  <2>5. Names(ids, Len(task)) /\ key \in 0..Len(task)
    BY <1>0, <2>1, <2>4 DEF Names, TaskId
  <2>6. task' = task
    BY DEF Notify
  <2> QED BY <2>1, <2>4, <2>5, <2>6 DEF FocusType, Named
<1>3. Due' = Due /\ Untold' = Untold /\ UNCHANGED <<turn, untold>> /\ told \subseteq told'
  BY DEF Notify, Due, Untold
<1>4. ASSUME turn'.phase = "stopping"
      PROVE  turn'.old # <<>> /\ \E h \in TaskId : turn'.old[1] = h /\ Latest(h)
  BY <1>3, <1>4 DEF IInv, TurnInv, Types, TurnType, Names, TaskId
<1>5. /\ turn'.phase \in {"model", "sending", "pausing"} => turn'.made \subseteq ToSet(turn'.did)
      /\ turn'.phase \in Replacing => turn'.at # 0
  BY <1>3 DEF IInv, TurnInv
<1> QED BY <1>1, <1>2, <1>3, <1>4, <1>5, CalmStep

-----------------------------------------------------------------------------
(* The end of a turn *)

LEMMA ReplyFacts ==
  ASSUME Types, TaskType', Len(task) <= Len(task'), NEW affected, NEW ids,
         NEW by \in {"turn", "model"}, Names(ids, Len(task')), Reply(affected, ids, by)
  PROVE  /\ FocusType' /\ turn' = Idle
         /\ told' = told \cup ToSet(affected)
         /\ ids = <<>> => focus' = focus
         /\ ids # <<>> => focus'.head = ids[1] /\ focus'.by = by
<1>1. Len(task) \in Nat /\ Len(task') \in Nat
  BY DEF Types, TaskType
<1>2. turn' = Idle /\ told' = told \cup ToSet(affected)
  BY DEF Reply, Entry
<1>3. ASSUME ids = <<>> PROVE focus' = focus /\ FocusType'
  <2>1. focus' = focus
    BY <1>3 DEF Reply, Entry
  <2>2. Names(focus.ids, Len(task'))
    BY <1>1, NamesFacts DEF Types, FocusType
  <2> QED BY <1>1, <2>1, <2>2 DEF Types, FocusType
<1>4. ASSUME ids # <<>> PROVE focus'.head = ids[1] /\ focus'.by = by /\ FocusType'
  <2>1. focus' = [ids |-> ids, head |-> ids[1], by |-> by]
    BY <1>4 DEF Reply, Entry, Named
  <2>2. ids \in Seq(Nat) /\ 1 \in 1..Len(ids)
    BY <1>4 DEF Names
  <2>3. ids[1] \in 0..Len(task')
    BY <1>1, <2>2 DEF Names
  <2> QED BY <2>1, <2>2, <2>3 DEF FocusType
<1> QED BY <1>2, <1>3, <1>4

LEMMA ReplyEnds ==
  ASSUME IInv, TaskType', Calm, NewsType', Due = {}, UNCHANGED untold,
         NEW affected, NEW ids, NEW by \in {"turn", "model"}, Names(ids, Len(task)),
         Reply(affected, ids, by), Untold \subseteq ToSet(affected),
         ids = <<>> => turn.phase \notin Replacing,
         ids # <<>> => by # "turn" \/ Latest(ids[1])
  PROVE  IInv'
<1>1. Len(task) \in Nat /\ Len(task') = Len(task) /\ Types
  BY LenFacts DEF IInv, Types, Calm
<1>2. /\ FocusType' /\ turn' = Idle
      /\ told' = told \cup ToSet(affected)
      /\ ids = <<>> => focus' = focus
      /\ ids # <<>> => focus'.head = ids[1] /\ focus'.by = by
  BY <1>1, ReplyFacts
<1>3. ids # <<>> => ids[1] \in TaskId
  BY DEF Names, TaskId
<1> QED BY <1>2, <1>3, EndOfTurn

\* The focused bundle.
LEMMA BundleFacts ==
  ASSUME Types
  PROVE  /\ Names(Bundle, Len(task)) /\ Bundle \in Seq(Nat)
         /\ \A i \in 1..Len(Bundle) : Bundle[i] \in TaskId /\ IsActive(Bundle[i])
         /\ Bundle # <<>> => 1 \in 1..Len(Bundle)
<1>1. focus.ids \in Seq(Nat) /\ Names(focus.ids, Len(task)) /\ Names(<<>>, Len(task))
  BY LenFacts, NamesFacts DEF Types, FocusType
<1>2. CASE \A i \in DOMAIN focus.ids : task[focus.ids[i]].status \in Active
  <2>1. Bundle = focus.ids
    BY <1>2 DEF Bundle
  <2> QED BY <1>1, <1>2, <2>1 DEF Names, TaskId, IsActive
<1>3. CASE ~\A i \in DOMAIN focus.ids : task[focus.ids[i]].status \in Active
  <2>1. Bundle = <<>>
    BY <1>3 DEF Bundle
  <2> QED BY <1>1, <2>1 DEF Names
<1> QED BY <1>2, <1>3

\* A turn starts from rest.
LEMMA AtRest ==
  ASSUME IInv, turn = Idle
  PROVE  Due = {} /\ Untold = {} /\ turn.phase \notin Replacing
BY NoneDue DEF Idle, Untold, Replacing

LEMMA SentSteps ==
  ASSUME IInv
  PROVE  StopSent \/ FinishCorrection \/ ModelReplies \/ ModelFails => IInv'
<1>0. Types /\ TaskType /\ NewsType /\ Len(task) \in Nat
  BY LenFacts DEF IInv, Types
<1>1. ASSUME UNCHANGED <<task, split, wording>>, news' \subseteq news
      PROVE  TaskType' /\ Calm /\ TaskId' = TaskId /\ NewsType'
  BY <1>0, <1>1 DEF TaskType, TaskId, Calm, IsActive, NewsType
<1>2. ASSUME StopSent PROVE IInv'
  <2>1. TaskType' /\ Calm /\ NewsType' /\ turn.phase = "stopping" /\ UNCHANGED untold
    BY <1>1, <1>2 DEF StopSent
  <2>2. Due = {} /\ Untold = {} /\ turn.phase \notin Replacing
    BY <2>1, NoneDue DEF Untold, Replacing
  <2>3. Names(turn.old, Len(task)) /\ turn.old # <<>> /\ Latest(turn.old[1])
    BY <2>1 DEF IInv, Types, TurnType, TurnInv
  <2>4. Reply(turn.old, turn.old, "turn")
    BY <1>2 DEF StopSent
  <2> QED BY <2>1, <2>2, <2>3, <2>4, ReplyEnds
<1>3. ASSUME FinishCorrection PROVE IInv'
  <2>1. TaskType' /\ Calm /\ NewsType' /\ UNCHANGED untold
    BY <1>1, <1>3 DEF FinishCorrection
  <2>2. turn.phase = "replacing" /\ turn.at > Len(turn.old)
    BY <1>3 DEF FinishCorrection
  <2>3. /\ turn.old \in Seq(Nat) /\ turn.new \in Seq(Nat) /\ turn.at \in Nat
        /\ Names(turn.new, Len(task))
    BY <1>0 DEF Types, TurnType
  <2>4. Due = {}
    BY <2>2, <2>3 DEF Due
  <2>5. Untold = ToSet(turn.new) /\ turn.new # <<>> /\ 1 \in 1..Len(turn.new)
    BY <2>2, <2>3 DEF Untold, Replacing, IInv, TurnInv
  <2>6. Latest(turn.new[1])
    BY <2>2, <2>5 DEF IInv, TurnInv, Replacing
  <2>7. Reply(turn.old \o turn.new, turn.new, "turn")
    BY <1>3 DEF FinishCorrection, FocusAfterCorrection, NamesAfterCorrection
  <2>8. ToSet(turn.new) \subseteq ToSet(turn.old \o turn.new)
    BY <2>3, Joined
  <2> QED BY <2>1, <2>3, <2>4, <2>5, <2>6, <2>7, <2>8, ReplyEnds
<1>4. ASSUME ModelReplies PROVE IInv'
  <2>1. TaskType' /\ Calm /\ NewsType' /\ turn.phase = "model" /\ UNCHANGED untold
    BY <1>1, <1>4 DEF ModelReplies
  <2>2. Due = {} /\ turn.phase \notin Replacing
    BY <2>1, NoneDue DEF Replacing
  <2>3. Untold \subseteq ToSet(turn.did) /\ Names(turn.did, Len(task))
    BY <1>0, <2>1 DEF Untold, IInv, TurnInv, Types, TurnType
  <2>4. Reply(turn.did, turn.did, "model")
    BY <1>4 DEF ModelReplies
  <2> QED BY <2>1, <2>2, <2>3, <2>4, ReplyEnds
<1>5. ASSUME ModelFails PROVE IInv'
  <2>1. TaskType' /\ Calm /\ NewsType' /\ turn.phase = "model"
    BY <1>1, <1>5 DEF ModelFails
  <2>2. Due = {} /\ turn.phase \notin Replacing /\ Untold = turn.made
    BY <2>1, NoneDue DEF Replacing, Untold
  <2>3. /\ focus' = focus /\ turn' = Idle /\ task' = task
        /\ told' = told /\ untold' = untold \cup turn.made
    BY <1>5 DEF ModelFails, Fallback
  <2>4. FocusType'
    BY <1>0, <2>3 DEF Types, FocusType
  <2> QED BY <2>1, <2>2, <2>3, <2>4, EndOfTurn
<1> QED BY <1>2, <1>3, <1>4, <1>5

-----------------------------------------------------------------------------
(* The turns without the language model *)

\* A turn that has answered about one active task.
LEMMA OneTaskTurn ==
  ASSUME IInv, turn = Idle, TaskType', Calm, NewsType', UNCHANGED untold,
         NEW h \in TaskId, IsActive(h), Reply(<<h>>, <<h>>, "turn")
  PROVE  IInv'
<1>1. Len(task) \in Nat /\ Due = {} /\ Untold = {} /\ OneCopy
  BY LenFacts, AtRest DEF IInv, Types
<1>2. Names(<<h>>, Len(task))
  BY <1>1, NamesFacts DEF TaskId
<1>3. Latest(h) /\ <<h>>[1] = h /\ <<h>> # <<>>
  BY <1>1, ActiveIsLatest
<1> QED BY <1>1, <1>2, <1>3, ReplyEnds

\* A turn that names no task.
LEMMA PlainTurn ==
  ASSUME IInv, turn = Idle, TaskType', Calm, NewsType', UNCHANGED untold, Reply(<<>>, <<>>, "turn")
  PROVE  IInv'
<1>1. Len(task) \in Nat /\ Due = {} /\ Untold = {} /\ turn.phase \notin Replacing
  BY LenFacts, AtRest DEF IInv, Types
<1>2. Names(<<>>, Len(task))
  BY <1>1, NamesFacts
<1> QED BY <1>1, <1>2, ReplyEnds

LEMMA AtRestStill ==
  ASSUME Types, UNCHANGED <<task, split, news, wording>>
  PROVE  TaskType' /\ Calm /\ NewsType'
BY DEF Types, TaskType, TaskId, Calm, IsActive, NewsType

LEMMA CancelOne ==
  ASSUME Types, NEW t \in TaskId, task' = [task EXCEPT ![t].status = "cancelled"],
         split \subseteq split', news' \subseteq news, wording' = wording
  PROVE  TaskType' /\ Calm /\ NewsType' /\ ~IsActive(t)'
<1>1. "cancelled" \in Status /\ "cancelled" \notin Active
  BY StatusFacts
<1>2. TaskType' /\ Calm /\ task'[t].status = "cancelled"
  BY <1>1, SetStatus DEF Types
<1>3. NewsType'
  BY <1>2 DEF Types, NewsType, Calm, TaskId
<1> QED BY <1>1, <1>2, <1>3 DEF IsActive

LEMMA StopKeeps ==
  ASSUME IInv, HandleStop
  PROVE  IInv'
<1>1. /\ turn = Idle /\ Types /\ Len(task) \in Nat /\ Due = {} /\ Untold = {} /\ OneCopy
      /\ UNCHANGED <<untold, split, wording>>
  BY LenFacts, AtRest DEF IInv, Types, HandleStop, Takes
<1>2. CASE Bundle = <<>>
  <2>1. UNCHANGED <<task, news>> /\ Reply(<<>>, <<>>, "turn")
    BY <1>2 DEF HandleStop
  <2> QED BY <1>1, <2>1, AtRestStill, PlainTurn
<1>3. CASE Bundle # <<>>
  <2>1. PICK t \in TaskId : t = Bundle[1] /\ IsActive(t)
    BY <1>1, <1>3, BundleFacts
  <2>2. Latest(t)
    BY <1>1, <2>1, ActiveIsLatest
  <2>3. task' = [task EXCEPT ![t].status = "cancelled"] /\ news' \subseteq news
    BY <1>3, <2>1 DEF HandleStop
  <2>4. TaskType' /\ Calm /\ NewsType'
    BY <1>1, <2>3, CancelOne
  <2>5. CASE HasRun(t)
    <3>1. turn' = [Idle EXCEPT !.phase = "stopping", !.old = <<t>>] /\ UNCHANGED <<focus, told>>
      BY <1>3, <2>1, <2>5 DEF HandleStop
    <3>2. turn' = [phase |-> "stopping", did |-> <<>>, made |-> {}, old |-> <<t>>, new |-> <<>>,
                   at |-> 0, fix |-> Idle.fix]
      BY <3>1 DEF Idle
    <3>3. Names(<<>>, Len(task')) /\ Names(<<t>>, Len(task'))
      BY <1>1, <2>4, NamesFacts DEF Calm, TaskId
    <3>4. TurnType'
      BY <3>2, <3>3 DEF TurnType, Phases, Fixes, Names
    <3>5. FocusType'
      BY <1>1, <2>4, <3>1 DEF Types, FocusType, Calm
    <3>6. turn'.old # <<>> /\ turn'.old[1] = t
      BY <3>2
    <3>7. turn'.phase = "stopping"
      BY <3>2
    <3>8. turn.phase \notin Replacing
      BY <1>1, AtRest
    <3> QED BY <1>1, <2>2, <2>4, <3>1, <3>4, <3>5, <3>6, <3>7, <3>8, CalmStep DEF Replacing
  <2>6. CASE ~HasRun(t)
    <3>1. Reply(<<t>>, <<t>>, "turn")
      BY <1>3, <2>1, <2>6 DEF HandleStop
    <3> QED BY <1>1, <2>1, <2>4, <3>1, OneTaskTurn
  <2> QED BY <2>5, <2>6
<1> QED BY <1>2, <1>3

LEMMA WhatKeeps ==
  ASSUME IInv, HandleCurrentWork
  PROVE  IInv'
<1>1. turn = Idle /\ TaskType' /\ Calm /\ NewsType' /\ UNCHANGED untold
  BY AtRestStill DEF IInv, HandleCurrentWork, Takes
<1>2. CASE Reply(<<>>, <<>>, "turn")
  BY <1>1, <1>2, PlainTurn
<1>3. ASSUME NEW t \in TaskId, task[t].status \in Active, Reply(<<t>>, <<t>>, "turn") PROVE IInv'
  BY <1>1, <1>3, OneTaskTurn DEF IsActive
<1> QED BY <1>2, <1>3 DEF HandleCurrentWork

-----------------------------------------------------------------------------
(* Steps that make tasks *)

\* The tasks so far are as they were, and n new ones follow them.
Grown(n) ==
  /\ TaskType' /\ Len(task') = Len(task) + n /\ split \subseteq split'
  /\ \A t \in TaskId : task'[t] = task[t]

LEMMA Grows ==
  ASSUME TaskType, split \subseteq split', NEW made \in Seq(TaskRecord), task' = task \o made,
         \A i \in 1..Len(made) : made[i].root \in 1..Len(task) + Len(made)
  PROVE  Grown(Len(made)) /\ \A i \in 1..Len(made) : task'[Len(task) + i] = made[i]
<1>1. /\ task \in Seq(TaskRecord) /\ Len(task) \in Nat /\ Len(made) \in Nat
      /\ \A t \in 1..Len(task) : task[t].root \in 1..Len(task)
  BY DEF TaskType, TaskId
<1>2. /\ task' \in Seq(TaskRecord) /\ Len(task') = Len(task) + Len(made)
      /\ \A t \in 1..Len(task) : task'[t] = task[t]
      /\ \A i \in 1..Len(made) : task'[Len(task) + i] = made[i]
  BY <1>1
<1>3. ASSUME NEW t \in 1..Len(task') PROVE task'[t].root \in 1..Len(task')
  <2>1. CASE t \in 1..Len(task)
    BY <1>1, <1>2, <2>1
  <2>2. CASE t \notin 1..Len(task)
    <3>1. t - Len(task) \in 1..Len(made) /\ t = Len(task) + (t - Len(task))
      BY <1>1, <1>2, <2>2
    <3>2. task'[t] = made[t - Len(task)]
      BY <1>2, <3>1
    <3> QED BY <1>2, <3>1, <3>2
  <2> QED BY <2>1, <2>2
<1> QED BY <1>2, <1>3 DEF Grown, TaskType, TaskId

LEMMA GrowsByOne ==
  ASSUME TaskType, split \subseteq split', NEW r \in TaskRecord, task' = Append(task, r),
         r.root \in 1..Len(task) + 1
  PROVE  Grown(1) /\ task'[Len(task) + 1] = r
<1>1. /\ task \in Seq(TaskRecord) /\ Len(task) \in Nat
      /\ \A t \in 1..Len(task) : task[t].root \in 1..Len(task)
  BY DEF TaskType, TaskId
<1>2. /\ task' \in Seq(TaskRecord) /\ Len(task') = Len(task) + 1
      /\ \A t \in 1..Len(task) : task'[t] = task[t]
      /\ task'[Len(task) + 1] = r
  BY <1>1
<1>3. ASSUME NEW t \in 1..Len(task) + 1 PROVE task'[t].root \in 1..Len(task) + 1
  <2>1. CASE t \in 1..Len(task)
    BY <1>1, <1>2, <2>1
  <2>2. CASE t = Len(task) + 1
    BY <1>2, <2>2
  <2> QED BY <1>1, <2>1, <2>2
<1> QED BY <1>2, <1>3 DEF Grown, TaskType, TaskId

\* New tasks of requests of their own, or of excepted ones.
LEMMA GrownKeeps ==
  ASSUME Types, OneCopy, Due = {}, NEW n \in Nat, Grown(n),
         \A t \in TaskId' : t \in TaskId \/ task'[t].root = t \/ task'[t].root \in split'
  PROVE  OneCopy' /\ \A h \in TaskId : Latest(h) => Latest(h)'
<1>1. /\ Len(task) \in Nat /\ TaskId = 1..Len(task) /\ TaskId' = 1..(Len(task) + n)
      /\ \A t \in TaskId : task[t].root \in TaskId /\ task'[t] = task[t]
      /\ split \subseteq split'
  BY LenFacts DEF Types, TaskType, Grown, TaskId
<1>2. ASSUME NEW t \in TaskId', NEW u \in TaskId', t # u, task'[t].root = task'[u].root,
             task'[t].root \notin split'
      PROVE  t \in TaskId /\ u \in TaskId
  <2>1. t \in TaskId \/ task'[t].root = t
    BY <1>2
  <2>2. u \in TaskId \/ task'[u].root = u
    BY <1>2
  <2> QED BY <1>1, <1>2, <2>1, <2>2
<1>3. OneCopy'
  <2> SUFFICES ASSUME NEW t \in TaskId', NEW u \in TaskId', t # u, task'[t].root = task'[u].root,
                      task'[t].root \notin split', IsActive(t)', IsActive(u)'
               PROVE  FALSE
    BY DEF OneCopy
  <2>1. t \in TaskId /\ u \in TaskId
    BY <1>2
  <2> QED BY <1>1, <2>1 DEF OneCopy, IsActive
<1>4. ASSUME NEW h \in TaskId, Latest(h) PROVE Latest(h)'
  <2> SUFFICES ASSUME NEW u \in TaskId', u # h, task'[u].root = task'[h].root,
                      task'[h].root \notin split', IsActive(u)'
               PROVE  FALSE
    BY DEF Latest
  <2>1. u \in TaskId /\ h \in TaskId'
    BY <1>1, <1>2
  <2> QED BY <1>1, <1>4, <2>1 DEF Latest, IsActive
<1> QED BY <1>3, <1>4

LEMMA GrownStep ==
  ASSUME IInv, Due = {}, turn.phase \notin Replacing, NEW n \in Nat, Grown(n),
         \A t \in TaskId' : t \in TaskId \/ task'[t].root = t \/ task'[t].root \in split',
         TurnType', UNCHANGED <<focus, news, wording>>,
         turn'.phase \notin Replacing \cup {"stopping"},
         turn'.phase \in {"model", "sending", "pausing"} => turn'.made \subseteq ToSet(turn'.did),
         told \cup untold \cup Untold \cup (TaskId' \ TaskId) \subseteq told' \cup untold' \cup Untold'
  PROVE  IInv'
<1>1. /\ Types /\ OneCopy /\ Len(task) \in Nat /\ Len(task') = Len(task) + n
      /\ TaskId = 1..Len(task) /\ TaskId' = 1..(Len(task) + n)
  BY LenFacts DEF IInv, Types, Grown, TaskId
<1>2. OneCopy' /\ \A h \in TaskId : Latest(h) => Latest(h)'
  BY <1>1, GrownKeeps
<1>3. FocusType'
  <2>1. Names(focus.ids, Len(task'))
    BY <1>1, NamesFacts DEF Types, FocusType
  <2> QED BY <1>1, <2>1 DEF Types, FocusType
<1>4. Types'
  BY <1>1, <1>3 DEF Types, NewsType, Grown
<1>5. FocusInv'
  <2>1. SUFFICES ASSUME focus.by = "turn", focus.head # 0 PROVE Latest(focus.head)'
    BY DEF FocusInv
  <2>2. PICK h \in TaskId : focus.head = h /\ Latest(h)
    BY <2>1, <1>1 DEF IInv, Types, FocusType, FocusInv
  <2>3. Latest(h)'
    BY <1>2, <2>2
  <2> QED BY <2>2, <2>3 DEF Latest
<1>6. TurnInv'
  BY DEF TurnInv
<1>7. ToldInv'
  <2>1. (Len(DraftTasks) + 1)..Len(task') \subseteq
          (Len(DraftTasks) + 1)..Len(task) \cup (TaskId' \ TaskId)
    BY <1>1
  <2> QED BY <2>1 DEF IInv, ToldInv
<1> QED BY <1>2, <1>4, <1>5, <1>6, <1>7 DEF IInv

-----------------------------------------------------------------------------
(* The turns of the language model *)

\* The model's turn goes on with one more tool call, which named task t.
Called(t, phase) ==
  turn' = [phase |-> phase, did |-> Append(turn.did, t), made |-> turn.made, old |-> turn.old,
           new |-> turn.new, at |-> turn.at, fix |-> turn.fix]

LEMMA CalledType ==
  ASSUME Types, NEW n \in Nat, Len(task') = n, Len(task) <= n, NEW t \in 1..n,
         NEW phase \in {"model", "sending", "pausing"}, Called(t, phase)
  PROVE  TurnType' /\ turn'.phase = phase /\ turn'.made = turn.made
         /\ ToSet(turn.did) \subseteq ToSet(turn'.did) /\ t \in ToSet(turn'.did)
<1>1. /\ turn \in [phase : Phases, did : Seq(Nat), made : SUBSET Nat, old : Seq(Nat),
                   new : Seq(Nat), at : Nat, fix : Fixes]
      /\ Len(task) \in Nat
      /\ Names(turn.did, Len(task)) /\ Names(turn.old, Len(task)) /\ Names(turn.new, Len(task))
  BY LenFacts DEF Types, TurnType
<1>2. Names(turn.did, n) /\ Names(turn.old, n) /\ Names(turn.new, n)
  BY <1>1, NamesFacts
<1>3. Names(Append(turn.did, t), n)
  BY <1>2, NamesFacts
<1> DEFINE did == Append(turn.did, t)
<1>4. did \in Seq(Nat)
  BY <1>3 DEF Names
<1>5. ToSet(turn.did) \cup {t} \subseteq ToSet(did)
  BY <1>1, Appended
<1>6. phase \in Phases
  BY DEF Phases
<1>7. turn' = [phase |-> phase, did |-> did, made |-> turn.made, old |-> turn.old,
               new |-> turn.new, at |-> turn.at, fix |-> turn.fix]
  BY <1>1 DEF Called
<1> HIDE DEF did
<1> QED BY <1>1, <1>2, <1>3, <1>4, <1>5, <1>6, <1>7 DEF TurnType, did

\* A tool call that makes no task.
LEMMA ToolKeeps ==
  ASSUME IInv, turn.phase = "model", TaskType', Calm, NewsType', NEW t \in TaskId,
         NEW phase \in {"model", "sending", "pausing"}, Called(t, phase), UNCHANGED <<focus, told, untold>>
  PROVE  IInv'
<1>1. /\ Types /\ Len(task) \in Nat /\ Len(task') = Len(task) /\ t \in 1..Len(task)
      /\ turn.phase \notin Replacing
  BY LenFacts DEF IInv, Types, Calm, Replacing
<1>2. TurnType' /\ turn'.phase = phase /\ turn'.made = turn.made
      /\ ToSet(turn.did) \subseteq ToSet(turn'.did)
  BY <1>1, CalledType
<1>3. turn.made \subseteq ToSet(turn.did)
  BY DEF IInv, TurnInv
<1>4. Due = {} /\ Untold' = Untold
  BY <1>1, <1>2, NoneDue DEF Untold
<1>5. FocusType'
  BY <1>1 DEF Types, FocusType
<1>6. turn'.phase \notin Replacing /\ turn'.phase # "stopping"
  BY <1>2 DEF Replacing
<1> QED BY <1>1, <1>2, <1>3, <1>4, <1>5, <1>6, CalmStep

LEMMA CallsIsCalled ==
  ASSUME Types, turn.phase = "model", NEW t, Calls(t, {})
  PROVE  Called(t, "model")
<1>1. turn \in [phase : Phases, did : Seq(Nat), made : SUBSET Nat, old : Seq(Nat),
                new : Seq(Nat), at : Nat, fix : Fixes]
  BY DEF Types, TurnType
<1>2. turn' = [phase |-> "model", did |-> Append(turn.did, t), made |-> turn.made, old |-> turn.old,
               new |-> turn.new, at |-> turn.at, fix |-> turn.fix]
  BY <1>1 DEF Calls
<1> QED BY <1>2 DEF Called

LEMMA SetSlots ==
  ASSUME TaskType, UNCHANGED split, NEW t \in TaskId, NEW x \in SUBSET Slot,
         task' = [task EXCEPT ![t].slots = x]
  PROVE  TaskType' /\ Calm
<1> DEFINE r == [task[t] EXCEPT !.slots = x]
<1>1. r \in TaskRecord /\ r.root = task[t].root /\ r.status = task[t].status
  BY LenFacts DEF TaskRecord
<1>2. task' = [task EXCEPT ![t] = r]
  OBVIOUS
<1> HIDE DEF r
<1> QED BY <1>1, <1>2, Edit DEF IsActive

LEMMA ToolSteps ==
  ASSUME IInv, NEW t \in TaskId
  PROVE  /\ \A slots \in Contents, b \in BOOLEAN : ModelUpdates(t, slots, b) => IInv'
         /\ \A s \in Notes : ModelNotes(t, s) => IInv'
         /\ ModelReads(t) \/ ModelAnswers(t) => IInv'
         /\ \A c \in {"cancel", "pause", "resume", "retry"} : ModelControls(t, c) => IInv'
<1>0. Types /\ TaskType /\ NewsType /\ task[t] \in TaskRecord
  BY LenFacts DEF IInv, Types
<1>1. ASSUME NEW slots \in Contents, NEW b \in BOOLEAN, ModelUpdates(t, slots, b) PROVE IInv'
  <2> DEFINE x == slots \cup {s \in task[t].slots : s.field = "note"}
             r == [task[t] EXCEPT !.slots = x, !.refused = b]
  <2>1. x \in SUBSET Slot
    BY <1>0 DEF TaskRecord
  <2>2. task' = [task EXCEPT ![t] = r] /\ split \subseteq split'
    BY <1>1 DEF ModelUpdates, ModelUnchanged
  <2> HIDE DEF x
  <2>3. r \in TaskRecord /\ r.root = task[t].root /\ r.status = task[t].status
    BY <1>0, <2>1 DEF TaskRecord
  <2> HIDE DEF r
  <2>4. TaskType' /\ Calm
    BY <1>0, <2>2, <2>3, Edit DEF IsActive
  <2>5. NewsType' /\ turn.phase = "model" /\ UNCHANGED <<focus, told, untold>>
    BY <1>0, <1>1, <2>4 DEF ModelUpdates, ModelUnchanged, MayCall, NewsType, Calm, TaskId
  <2>6. Called(t, "model")
    BY <1>0, <1>1, <2>5, CallsIsCalled DEF ModelUpdates
  <2> QED BY <2>4, <2>5, <2>6, ToolKeeps
<1>2. ASSUME NEW s \in Notes, ModelNotes(t, s) PROVE IInv'
  <2> DEFINE x == task[t].slots \cup {s}
  <2>1. x \in SUBSET Slot
    BY <1>0 DEF TaskRecord
  <2>2. task' = [task EXCEPT ![t].slots = x] /\ UNCHANGED split
    BY <1>2 DEF ModelNotes, ModelUnchanged
  <2> HIDE DEF x
  <2>3. TaskType' /\ Calm
    BY <1>0, <2>1, <2>2, SetSlots
  <2>4. NewsType' /\ turn.phase = "model" /\ UNCHANGED <<focus, told, untold>>
    BY <1>0, <1>2, <2>3 DEF ModelNotes, ModelUnchanged, MayCall, NewsType, Calm, TaskId
  <2>5. Called(t, "model")
    BY <1>0, <1>2, <2>4, CallsIsCalled DEF ModelNotes
  <2> QED BY <2>3, <2>4, <2>5, ToolKeeps
<1>3. ASSUME ModelReads(t) PROVE IInv'
  <2>1. TaskType' /\ Calm /\ NewsType'
    BY <1>0, <1>3, AtRestStill DEF ModelReads, ModelUnchanged
  <2>2. turn.phase = "model" /\ UNCHANGED <<focus, told, untold>>
    BY <1>3 DEF ModelReads, ModelUnchanged, MayCall
  <2>3. Called(t, "model")
    BY <1>0, <1>3, <2>2, CallsIsCalled DEF ModelReads
  <2> QED BY <2>1, <2>2, <2>3, ToolKeeps
<1>4. ASSUME ModelAnswers(t) PROVE IInv'
  <2>1. "queued" \in Status /\ IsActive(t) /\ UNCHANGED split
    BY <1>4, StatusFacts DEF ModelAnswers, ModelUnchanged, IsActive
  <2>2. TaskType' /\ Calm
    BY <1>0, <1>4, <2>1, SetStatus DEF ModelAnswers
  <2>3. NewsType' /\ turn.phase = "model" /\ UNCHANGED <<focus, told, untold>>
    BY <1>0, <1>4, <2>2 DEF ModelAnswers, ModelUnchanged, MayCall, NewsType, Calm, TaskId
  <2>4. Called(t, "model")
    BY <1>0, <1>4, <2>3, CallsIsCalled DEF ModelAnswers
  <2> QED BY <2>2, <2>3, <2>4, ToolKeeps
<1>5. ASSUME NEW c \in {"cancel", "pause", "resume", "retry"}, ModelControls(t, c) PROVE IInv'
  <2>1. /\ task' = [task EXCEPT ![t].status = CommandResult(c)]
        /\ split' = split \cup Woken(t, c)
        /\ news' \subseteq news /\ turn.phase = "model"
        /\ UNCHANGED <<wording, focus, told, untold>>
    BY <1>5 DEF ModelControls, MayCall
  <2>2. TaskType' /\ Calm
    BY <1>0, <2>1, Controlled
  <2>3. NewsType'
    BY <1>0, <2>1, <2>2 DEF NewsType, Calm, TaskId
  <2>4. CASE c \in {"cancel", "pause"} /\ HasRun(t)
    <3>1. PICK phase \in {"sending", "pausing"} :
            turn' = [turn EXCEPT !.phase = phase, !.did = Append(@, t)]
      BY <1>5, <2>4 DEF ModelControls
    <3>2. turn \in [phase : Phases, did : Seq(Nat), made : SUBSET Nat, old : Seq(Nat),
                    new : Seq(Nat), at : Nat, fix : Fixes]
      BY <1>0 DEF Types, TurnType
    <3>3. Called(t, phase)
      BY <3>1, <3>2 DEF Called
    <3> QED BY <2>1, <2>2, <2>3, <3>3, ToolKeeps
  <2>5. CASE ~(c \in {"cancel", "pause"} /\ HasRun(t))
    <3>1. Called(t, "model")
      BY <1>0, <1>5, <2>1, <2>5, CallsIsCalled DEF ModelControls
    <3> QED BY <2>1, <2>2, <2>3, <3>1, ToolKeeps
  <2> QED BY <2>4, <2>5
<1> QED BY <1>1, <1>2, <1>3, <1>4, <1>5

LEMMA AskKeeps ==
  ASSUME IInv, AskModel
  PROVE  IInv'
<1>1. /\ turn = Idle /\ Types /\ Len(task) \in Nat /\ Due = {} /\ Untold = {}
      /\ turn.phase \notin Replacing /\ UNCHANGED <<task, focus, news, wording, told, untold, split>>
  BY LenFacts, AtRest DEF IInv, Types, AskModel, Takes
<1>2. turn' = [phase |-> "model", did |-> <<>>, made |-> {}, old |-> <<>>, new |-> <<>>,
               at |-> 0, fix |-> Idle.fix]
  BY DEF AskModel, Idle
<1>3. Names(<<>>, Len(task'))
  BY <1>1, NamesFacts
<1>4. TurnType' /\ FocusType'
  BY <1>1, <1>2, <1>3 DEF TurnType, Phases, Fixes, Names, Types, FocusType
<1>5. TaskType' /\ Calm /\ NewsType'
  BY <1>1, AtRestStill
<1>6. turn'.phase = "model" /\ turn'.made \subseteq ToSet(turn'.did)
  BY <1>2
<1> QED BY <1>1, <1>4, <1>5, <1>6, CalmStep DEF Replacing

LEMMA ControlSentKeeps ==
  ASSUME IInv, ModelControlSent
  PROVE  IInv'
<1>1. /\ turn.phase \in {"sending", "pausing"} /\ Types /\ Len(task) \in Nat /\ Due = {}
      /\ turn.phase \notin Replacing /\ UNCHANGED <<task, focus, wording, told, untold, split>>
      /\ news' \subseteq news
  BY LenFacts, NoneDue DEF IInv, Types, ModelControlSent, ModelUnchanged, Replacing
<1>2. TaskType' /\ Calm /\ NewsType'
  BY <1>1 DEF Types, TaskType, TaskId, Calm, IsActive, NewsType
<1>3. turn' = [phase |-> "model", did |-> turn.did, made |-> turn.made, old |-> turn.old,
               new |-> turn.new, at |-> turn.at, fix |-> turn.fix]
  BY <1>1 DEF Types, TurnType, ModelControlSent
<1>4. TurnType' /\ FocusType'
  BY <1>1, <1>3 DEF Types, TurnType, FocusType, Phases
<1>5. turn'.phase = "model" /\ turn'.made \subseteq ToSet(turn'.did) /\ Untold' = Untold
  BY <1>1, <1>3 DEF IInv, TurnInv, Untold
<1> QED BY <1>1, <1>2, <1>4, <1>5, CalmStep DEF Replacing

LEMMA CreateKeeps ==
  ASSUME IInv, NEW slots \in Contents, ModelCreates(slots)
  PROVE  IInv'
<1> DEFINE n == Len(task) + 1
           r == [status |-> "created", slots |-> slots, root |-> n, refused |-> FALSE]
<1>1. /\ turn.phase = "model" /\ Types /\ TaskType /\ Len(task) \in Nat /\ Due = {}
      /\ turn.phase \notin Replacing /\ UNCHANGED <<focus, news, wording, told, untold, split>>
      /\ task' = Append(task, r) /\ OneCopy
  BY LenFacts, NoneDue DEF IInv, Types, ModelCreates, ModelUnchanged, MayCall, Replacing
<1>2. r \in TaskRecord /\ r.root = n /\ n \in 1..n /\ n \in Nat
  BY <1>1, StatusFacts DEF TaskRecord
<1>3. turn \in [phase : Phases, did : Seq(Nat), made : SUBSET Nat, old : Seq(Nat),
                new : Seq(Nat), at : Nat, fix : Fixes]
  BY <1>1 DEF Types, TurnType
<1>4. turn' = [phase |-> "model", did |-> Append(turn.did, n), made |-> turn.made \cup {n},
               old |-> turn.old, new |-> turn.new, at |-> turn.at, fix |-> turn.fix]
  BY <1>1, <1>3 DEF ModelCreates, Calls
<1> HIDE DEF r
<1>5. Grown(1) /\ task'[n] = r
  BY <1>1, <1>2, GrowsByOne
<1>6. TaskId' \ TaskId = {n} /\ Len(task') = n
  BY <1>1, <1>5 DEF Grown, TaskId
<1>7. \A t \in TaskId' : t \in TaskId \/ task'[t].root = t \/ task'[t].root \in split'
  BY <1>2, <1>5, <1>6
<1>8. Names(Append(turn.did, n), n) /\ Names(turn.old, n) /\ Names(turn.new, n)
  <2>1. /\ Names(turn.did, Len(task)) /\ Names(turn.old, Len(task)) /\ Names(turn.new, Len(task))
        /\ Len(task) <= n
    BY <1>1 DEF Types, TurnType
  <2>2. Names(turn.did, n) /\ Names(turn.old, n) /\ Names(turn.new, n)
    BY <1>1, <1>2, <2>1, NamesFacts
  <2> QED BY <1>2, <2>2, NamesFacts
<1>9. TurnType'
  <2>1. Append(turn.did, n) \in Seq(Nat) /\ turn.made \cup {n} \in SUBSET Nat
    BY <1>2, <1>3
  <2> QED BY <1>3, <1>4, <1>6, <1>8, <2>1 DEF TurnType, Phases
<1>10. turn'.phase = "model" /\ turn'.made \subseteq ToSet(turn'.did) /\ Untold' = Untold \cup {n}
  <2>1. turn.made \subseteq ToSet(turn.did)
    BY <1>1 DEF IInv, TurnInv
  <2>2. ToSet(turn.did) \cup {n} \subseteq ToSet(Append(turn.did, n))
    BY <1>3, Appended
  <2> QED BY <1>1, <1>4, <2>1, <2>2 DEF Untold
<1> HIDE DEF n
<1>11. told \cup untold \cup Untold \cup (TaskId' \ TaskId) \subseteq told' \cup untold' \cup Untold'
  BY <1>1, <1>6, <1>10
<1>12. turn'.phase \notin Replacing \cup {"stopping"}
  BY <1>10 DEF Replacing
<1> QED BY <1>1, <1>5, <1>7, <1>9, <1>10, <1>11, <1>12, GrownStep

-----------------------------------------------------------------------------
(* A continuation *)

LEMMA IdleType ==
  ASSUME turn' = Idle, Len(task') \in Nat
  PROVE  TurnType' /\ TurnInv' /\ Untold' = {} /\ turn'.phase = "idle"
<1>1. /\ Idle = [phase |-> "idle", did |-> <<>>, made |-> {}, old |-> <<>>, new |-> <<>>,
                 at |-> 0, fix |-> Idle.fix]
      /\ Idle.phase = "idle"
  BY DEF Idle
<1>2. Names(<<>>, Len(task'))
  BY NamesFacts
<1>3. TurnType'
  BY <1>2 DEF TurnType, Phases, Fixes, Idle
<1>4. TurnInv' /\ Untold' = {}
  BY <1>1 DEF TurnInv, Untold, Replacing
<1> QED BY <1>1, <1>3, <1>4

\* A cancelled task is made anew.
LEMMA MadeAnew ==
  ASSUME IInv, turn = Idle, NEW t \in TaskId, t = focus.head, task[t].status = "cancelled",
         task' = Append(task, [task[t] EXCEPT !.status = "created"]),
         split' = split \cup (IF focus.by # "turn" /\ Superseded(t) THEN {task[t].root} ELSE {}),
         Reply(<<Len(task')>>, <<Len(task')>>, "turn"), UNCHANGED <<news, wording, untold>>
  PROVE  IInv'
<1> DEFINE n == Len(task) + 1
           r == [task[t] EXCEPT !.status = "created"]
<1>1. /\ Types /\ TaskType /\ OneCopy /\ Due = {} /\ Untold = {} /\ turn.phase \notin Replacing
      /\ Len(task) \in Nat /\ n \in Nat /\ TaskId = 1..Len(task) /\ t # 0
      /\ task[t] \in TaskRecord /\ task[t].root \in 1..Len(task)
  BY LenFacts, AtRest DEF IInv, Types, TaskType
<1>2. r \in TaskRecord /\ r.root = task[t].root /\ task' = Append(task, r)
  BY <1>1, StatusFacts DEF TaskRecord
<1> HIDE DEF r
<1>3. Grown(1) /\ task'[n] = r
  BY <1>1, <1>2, GrowsByOne
<1>4. /\ Len(task') = n /\ TaskType' /\ TaskId' = TaskId \cup {n} /\ n \notin TaskId
      /\ split \subseteq split' /\ \A u \in TaskId : task'[u] = task[u]
  BY <1>1, <1>3 DEF Grown, TaskId
<1> HIDE DEF n
<1>5. ASSUME NEW u \in TaskId, task[u].root = task[t].root, task[t].root \notin split'
      PROVE  ~IsActive(u)
  <2>1. CASE u = t
    BY <1>1, <2>1, StatusFacts DEF IsActive
  <2>2. CASE u # t /\ focus.by = "turn"
    <3>1. Latest(t)
      BY <1>1, <2>2 DEF IInv, FocusInv
    <3> QED BY <1>1, <1>4, <1>5, <2>2, <3>1 DEF Latest
  <2>3. CASE u # t /\ focus.by # "turn"
    <3>1. ~Superseded(t)
      BY <1>5, <2>3
    <3> QED BY <1>5, <2>3, <3>1 DEF Superseded, IsActive
  <2> QED BY <2>1, <2>2, <2>3
<1>6. OneCopy'
  <2> SUFFICES ASSUME NEW u \in TaskId', NEW v \in TaskId', u # v, task'[u].root = task'[v].root,
                      task'[u].root \notin split', IsActive(u)', IsActive(v)'
               PROVE  FALSE
    BY DEF OneCopy
  <2>1. CASE u \in TaskId /\ v \in TaskId
    BY <1>1, <1>4, <2>1 DEF OneCopy, IsActive
  <2>2. CASE u = n
    <3>1. v \in TaskId /\ task[v].root = task[t].root /\ task[t].root \notin split' /\ IsActive(v)
      BY <1>2, <1>3, <1>4, <2>2 DEF IsActive
    <3> QED BY <1>5, <3>1
  <2>3. CASE v = n
    <3>1. u \in TaskId /\ task[u].root = task[t].root /\ task[t].root \notin split' /\ IsActive(u)
      BY <1>2, <1>3, <1>4, <2>3 DEF IsActive
    <3> QED BY <1>5, <3>1
  <2> QED BY <1>4, <2>1, <2>2, <2>3
<1>7. ASSUME NEW h, h = n PROVE Latest(h)'
  <2> SUFFICES ASSUME NEW u \in TaskId', u # h, task'[u].root = task'[h].root,
                      task'[h].root \notin split', IsActive(u)'
               PROVE  FALSE
    BY DEF Latest
  <2>1. u \in TaskId /\ task[u].root = task[t].root /\ task[t].root \notin split' /\ IsActive(u)
    BY <1>2, <1>3, <1>4, <1>7 DEF IsActive
  <2> QED BY <1>5, <2>1
<1>8. /\ FocusType' /\ turn' = Idle /\ told' = told \cup ToSet(<<n>>)
      /\ focus'.head = n /\ focus'.by = "turn"
  <2>1. Names(<<n>>, Len(task')) /\ <<n>> # <<>> /\ <<n>>[1] = n /\ Len(task) <= Len(task')
    <3>1. n \in Nat /\ n \in 1..n
      BY <1>1 DEF n
    <3> QED BY <1>1, <1>4, <3>1, NamesFacts DEF n
  <2>2. Reply(<<n>>, <<n>>, "turn")
    BY <1>4
  <2> QED BY <1>1, <1>4, <2>1, <2>2, ReplyFacts
<1>9. TurnType' /\ TurnInv' /\ Untold' = {}
  BY <1>1, <1>4, <1>8, IdleType
<1>10. FocusInv'
  <2>1. PICK h : h = n
    OBVIOUS
  <2>2. Latest(h)' /\ focus'.head = h
    BY <1>7, <1>8, <2>1
  <2> QED BY <2>2 DEF FocusInv, Latest
<1>11. ToldInv'
  <2>1. n \in ToSet(<<n>>)
    BY DEF ToSet
  <2>2. (Len(DraftTasks) + 1)..Len(task') \subseteq (Len(DraftTasks) + 1)..Len(task) \cup {n}
    BY <1>1, <1>4 DEF n
  <2> QED BY <1>1, <1>8, <1>9, <2>1, <2>2 DEF IInv, ToldInv
<1>12. Types'
  BY <1>1, <1>4, <1>8, <1>9 DEF Types, NewsType
<1> QED BY <1>6, <1>9, <1>10, <1>11, <1>12 DEF IInv

LEMMA ContinueKeeps ==
  ASSUME IInv, HandleContinue
  PROVE  IInv'
<1> DEFINE t == focus.head
<1>1. /\ turn = Idle /\ Types /\ TaskType /\ Len(task) \in Nat /\ Due = {} /\ Untold = {}
      /\ turn.phase \notin Replacing /\ UNCHANGED <<news, wording>>
      /\ (t # 0 => t \in TaskId)
  BY LenFacts, AtRest DEF IInv, Types, HandleContinue, Takes, FocusType, TaskId
<1>2. CASE Reply(<<>>, <<>>, "turn") /\ UNCHANGED <<task, untold, split>>
  BY <1>1, <1>2, AtRestStill, PlainTurn
<1>3. CASE /\ t # 0 /\ task[t].status \in Active \ {"paused"}
           /\ Reply(<<t>>, <<t>>, "turn") /\ UNCHANGED <<task, untold, split>>
  <2>1. TaskType' /\ Calm /\ NewsType'
    BY <1>1, <1>3, AtRestStill
  <2> QED BY <1>1, <1>3, <2>1, OneTaskTurn DEF IsActive
<1>4. CASE /\ t # 0 /\ task[t].status = "paused" /\ task' = [task EXCEPT ![t].status = "queued"]
           /\ Reply(<<t>>, <<t>>, "turn") /\ UNCHANGED <<untold, split>>
  <2>1. t \in TaskId /\ IsActive(t) /\ "queued" \in Status
    BY <1>1, <1>4, StatusFacts DEF IsActive
  <2>2. TaskType' /\ Calm
    BY <1>1, <1>4, <2>1, SetStatus
  <2>3. NewsType'
    BY <1>1, <2>2 DEF Types, NewsType, Calm, TaskId
  <2> QED BY <1>1, <1>4, <2>1, <2>2, <2>3, OneTaskTurn
<1>5. CASE t # 0 /\ task[t].status = "cancelled" /\ Recreate(t)
  <2>1. CASE Fallback({}) /\ UNCHANGED <<task, split>>
    <3>1. TaskType' /\ Calm /\ NewsType'
      BY <1>1, <2>1, AtRestStill
    <3>2. turn' = Idle /\ UNCHANGED <<focus, told>> /\ untold' = untold
      BY <2>1 DEF Fallback
    <3>3. FocusType'
      BY <1>1, <2>1, <3>2 DEF Types, FocusType
    <3> QED BY <1>1, <3>1, <3>2, <3>3, EndOfTurn
  <2>2. CASE ~(Fallback({}) /\ UNCHANGED <<task, split>>)
    <3>1. /\ task' = Append(task, [task[t] EXCEPT !.status = "created"])
          /\ split' = split \cup (IF focus.by # "turn" /\ Superseded(t) THEN {task[t].root} ELSE {})
          /\ Reply(<<Len(task')>>, <<Len(task')>>, "turn") /\ UNCHANGED untold
      BY <1>5, <2>2 DEF Recreate
    <3> QED BY <1>1, <1>5, <3>1, MadeAnew
  <2> QED BY <2>1, <2>2
<1> QED BY <1>2, <1>3, <1>4, <1>5 DEF HandleContinue

-----------------------------------------------------------------------------
(* A correction *)

LEMMA CorrectedType ==
  ASSUME NEW slots \in SUBSET Slot, NEW targets, NEW fix \in Corrections
  PROVE  Corrected(slots, targets, fix) \in SUBSET Slot
<1>1. fix.new \in Values
  BY DEF Values
<1>2. \A s \in slots : s \in Slot /\ [s EXCEPT !.value = fix.new] \in Slot
  BY <1>1 DEF Slot
<1> QED BY <1>2 DEF Corrected

LEMMA ClonableFacts ==
  ASSUME NEW b \in Seq(Nat)
  PROVE  Clonable(b) \in 0..Len(b)
<1> DEFINE S == {i \in DOMAIN b : \A j \in 1..i : ~task[b[j]].refused}
<1>1. PICK n \in Nat : n = Len(b) /\ DOMAIN b = 1..n
  OBVIOUS
<1>2. S \subseteq 1..n
  BY <1>1
<1> HIDE DEF S
<1> DEFINE I == 1..n
<1>3. IsFiniteSet(I) /\ Cardinality(I) = n /\ S \in SUBSET I
  BY <1>2, FS_Interval
<1> HIDE DEF I
<1>4. IsFiniteSet(S) /\ Cardinality(S) <= n
  BY <1>3, FS_Subset
<1>5. Cardinality(S) \in 0..n
  BY <1>4, FS_CardinalityType
<1> QED BY <1>1, <1>5 DEF Clonable, S

LEMMA ClonesFacts ==
  ASSUME TaskType, NEW b \in Seq(Nat), \A i \in 1..Len(b) : b[i] \in TaskId,
         NEW n \in 0..Len(b), NEW targets, NEW fix \in Corrections
  PROVE  /\ Clones(b, targets, fix, n) \in Seq(TaskRecord)
         /\ Len(Clones(b, targets, fix, n)) = n
         /\ \A i \in 1..n : /\ Clones(b, targets, fix, n)[i].root = task[b[i]].root
                            /\ Clones(b, targets, fix, n)[i].status = "created"
<1> DEFINE clone(i) == [task[b[i]] EXCEPT
                          !.status = "created",
                          !.slots = Corrected(@, TargetsAt(b, targets, i), fix)]
<1>1. ASSUME NEW i \in 1..n
      PROVE  clone(i) \in TaskRecord /\ clone(i).root = task[b[i]].root /\ clone(i).status = "created"
  <2>1. task[b[i]] \in TaskRecord
    BY LenFacts
  <2>2. Corrected(task[b[i]].slots, TargetsAt(b, targets, i), fix) \in SUBSET Slot
    BY <2>1, CorrectedType DEF TaskRecord
  <2>3. "created" \in Status
    BY StatusFacts
  <2> QED BY <2>1, <2>2, <2>3 DEF TaskRecord
<1>2. Clones(b, targets, fix, n) = [i \in 1..n |-> clone(i)]
  BY DEF Clones
<1> HIDE DEF clone
<1>3. n \in Nat
  OBVIOUS
<1> QED BY <1>1, <1>2, <1>3

\* The clones of a bundle, made while its tasks are still active.
LEMMA Cloned ==
  ASSUME IInv, turn = Idle, NEW b \in Seq(Nat), b # <<>>,
         \A i \in 1..Len(b) : b[i] \in TaskId /\ IsActive(b[i]),
         NEW new \in Seq(Nat), Len(new) = Len(b), \A i \in 1..Len(b) : new[i] = Len(task) + i,
         Grown(Len(b)), \A i \in 1..Len(b) : task'[Len(task) + i].root = task[b[i]].root,
         \A i \in 1..Len(b), j \in 1..Len(b) : j < i /\ b[i] = b[j] => task[b[i]].root \in split',
         NEW fix \in Corrections,
         turn' = [phase |-> "replacing", did |-> <<>>, made |-> {}, old |-> b, new |-> new,
                  at |-> 1, fix |-> fix],
         UNCHANGED <<focus, told, untold, news, wording>>
  PROVE  IInv'
<1>1. /\ Types /\ TaskType /\ OneCopy /\ Due = {} /\ Untold = {} /\ Len(task) \in Nat
      /\ Len(b) \in Nat \ {0} /\ TaskId = 1..Len(task) /\ TaskId' = 1..(Len(task) + Len(b))
      /\ Len(task') = Len(task) + Len(b) /\ split \subseteq split' /\ TaskType'
      /\ \A t \in TaskId : task'[t] = task[t]
  BY LenFacts, AtRest DEF IInv, Types, Grown, TaskId
<1>2. Due' = {b[i] : i \in 1..Len(b)}
  BY <1>1 DEF Due
<1>3. \A t \in TaskId' : t \in TaskId \/ \E i \in 1..Len(b) : t = Len(task) + i
  <2> SUFFICES ASSUME NEW t \in TaskId', t \notin TaskId
               PROVE  \E i \in 1..Len(b) : t = Len(task) + i
    OBVIOUS
  <2>1. t - Len(task) \in 1..Len(b) /\ t = Len(task) + (t - Len(task))
    BY <1>1
  <2> QED BY <2>1
\* Two tasks of a request are not both new, and the old one of them is due.
<1>4. ASSUME NEW t \in TaskId, NEW u \in TaskId, t # u, task[t].root = task[u].root,
             task[t].root \notin split', IsActive(t), IsActive(u)
      PROVE  FALSE
  BY <1>1, <1>4 DEF OneCopy
<1>5. ASSUME NEW i \in 1..Len(b), NEW u \in TaskId', u # Len(task) + i,
             task'[u].root = task'[Len(task) + i].root, task'[u].root \notin split', IsActive(u)'
      PROVE  u \in Due'
  <2>0. b[i] \in TaskId /\ IsActive(b[i]) /\ task'[u].root = task[b[i]].root
    BY <1>5
  <2>1. CASE u \in TaskId
    <3>1. IsActive(u) /\ task[u].root = task[b[i]].root /\ task[u].root \notin split'
      BY <1>1, <1>5, <2>0, <2>1 DEF IsActive
    <3>2. u = b[i]
      BY <1>4, <2>0, <2>1, <3>1
    <3> QED BY <1>2, <3>2
  <2>2. ASSUME NEW j \in 1..Len(b), u = Len(task) + j PROVE FALSE
    <3>1. i # j /\ b[j] \in TaskId /\ IsActive(b[j]) /\ task[b[j]].root = task[b[i]].root
          /\ task[b[j]].root \notin split'
      BY <1>5, <2>0, <2>2
    <3>2. b[i] = b[j]
      BY <1>4, <2>0, <3>1
    <3>3. i < j \/ j < i
      BY <3>1
    <3> QED BY <2>0, <3>1, <3>2, <3>3
  <2> QED BY <1>3, <2>1, <2>2
<1>6. OneCopy'
  <2> SUFFICES ASSUME NEW t \in TaskId', NEW u \in TaskId', t # u, task'[t].root = task'[u].root,
                      task'[t].root \notin split', IsActive(t)', IsActive(u)'
               PROVE  t \in Due' \/ u \in Due'
    BY DEF OneCopy
  <2>1. CASE t \in TaskId /\ u \in TaskId
    BY <1>1, <1>4, <2>1 DEF IsActive
  <2>2. ASSUME NEW i \in 1..Len(b), t = Len(task) + i PROVE u \in Due'
    BY <1>5, <2>2
  <2>3. ASSUME NEW i \in 1..Len(b), u = Len(task) + i PROVE t \in Due'
    BY <1>5, <2>3
  <2> QED BY <1>3, <2>1, <2>2, <2>3
<1>7. ASSUME NEW i \in 1..Len(b) PROVE Latest(new[i])'
  <2>1. PICK h : h = Len(task) + i
    OBVIOUS
  <2>2. Latest(h)'
    BY <1>5, <2>1 DEF Latest
  <2>3. h = turn'.new[i] /\ h = new[i]
    BY <2>1
  <2> QED BY <2>2, <2>3 DEF Latest
<1>8. TurnInv'
  <2>1. turn'.phase = "replacing" /\ turn'.new = new /\ turn'.at = 1
    OBVIOUS
  <2>2. new # <<>> /\ Len(new) = Len(b)
    BY <1>1
  <2> QED BY <1>7, <2>1, <2>2 DEF TurnInv, Latest
<1>9. FocusType'
  <2>1. Names(focus.ids, Len(task'))
    BY <1>1, NamesFacts DEF Types, FocusType
  <2> QED BY <1>1, <2>1 DEF Types, FocusType
<1>10. TurnType'
  <2>1. Names(b, Len(task')) /\ Names(new, Len(task'))
    <3>1. \A i \in 1..Len(b) : b[i] \in 1..Len(task') /\ new[i] \in 1..Len(task')
      BY <1>1
    <3> QED BY <3>1 DEF Names
  <2>2. Names(<<>>, Len(task'))
    BY <1>1, NamesFacts
  <2>3. <<>> \in Seq(Nat) /\ fix \in Fixes /\ "replacing" \in Phases
    BY DEF Fixes, Phases
  <2> QED BY <2>1, <2>2, <2>3 DEF TurnType
<1>11. FocusInv'
  BY DEF FocusInv, Replacing
<1>12. ToldInv'
  <2>1. Untold' = ToSet(new)
    BY DEF Untold, Replacing
  <2>2. ASSUME NEW t \in (Len(DraftTasks) + 1)..Len(task'), t \notin (Len(DraftTasks) + 1)..Len(task)
        PROVE  t \in ToSet(new)
    <3>1. t \in TaskId' /\ t \notin TaskId
      BY <1>1, <2>2
    <3>2. PICK i \in 1..Len(b) : t = Len(task) + i
      BY <1>3, <3>1
    <3>3. i \in DOMAIN new /\ new[i] = t
      BY <3>2
    <3> QED BY <3>3 DEF ToSet
  <2> QED BY <1>1, <2>1, <2>2 DEF IInv, ToldInv
<1>13. Types'
  BY <1>1, <1>9, <1>10 DEF Types, NewsType
<1> QED BY <1>6, <1>8, <1>11, <1>12, <1>13 DEF IInv

LEMMA CorrectionKeeps ==
  ASSUME IInv, NEW fix \in Corrections, HandleCorrection(fix)
  PROVE  IInv'
<1> DEFINE b == Bundle
           targets == SelectSlots(BundleSlots(b), fix)
           n == Clonable(b)
           clones == Clones(b, targets, fix, n)
           new == [i \in 1..n |-> Len(task) + i]
           roots == {task[b[i]].root : i \in 1..n}
           twice == {task[b[i]].root : i \in {j \in 1..n : \E k \in 1..(j - 1) : b[j] = b[k]}}
<1>1. /\ turn = Idle /\ Types /\ TaskType /\ OneCopy /\ Due = {} /\ Untold = {}
      /\ turn.phase \notin Replacing /\ Len(task) \in Nat /\ UNCHANGED <<news, wording>>
      /\ TaskId = 1..Len(task) /\ \A t \in TaskId : task[t].root \in TaskId
  BY LenFacts, AtRest DEF IInv, Types, TaskType, HandleCorrection, Takes
<1>2. \/ Reply(b, b, "turn") /\ UNCHANGED <<task, untold, split>>
      \/ /\ b # <<>> /\ task' = task \o clones
         /\ n < Len(b) => split' = split \cup roots /\ Fallback(ToSet(new))
         /\ ~(n < Len(b)) =>
              /\ split' = split \cup twice
              /\ turn' = [Idle EXCEPT !.phase = "replacing", !.old = b, !.new = new,
                                      !.at = 1, !.fix = fix]
              /\ UNCHANGED <<focus, told, untold>>
  BY DEF HandleCorrection
<1> HIDE DEF b
<1>3. /\ b \in Seq(Nat) /\ Names(b, Len(task)) /\ (b # <<>> => 1 \in 1..Len(b))
      /\ \A i \in 1..Len(b) : b[i] \in TaskId /\ IsActive(b[i])
  BY <1>1, BundleFacts DEF b
<1> HIDE DEF targets, n, clones, new, roots, twice
<1>4. CASE Reply(b, b, "turn") /\ UNCHANGED <<task, untold, split>>
  <2>1. TaskType' /\ Calm /\ NewsType'
    BY <1>1, <1>4, AtRestStill
  <2>2. b # <<>> => Latest(b[1])
    BY <1>1, <1>3, ActiveIsLatest
  <2> QED BY <1>1, <1>4, <1>3, <2>1, <2>2, ReplyEnds
<1>5. CASE ~(Reply(b, b, "turn") /\ UNCHANGED <<task, untold, split>>)
  <2>1. n \in 0..Len(b) /\ n \in Nat /\ Len(b) \in Nat
    BY <1>3, ClonableFacts DEF n
  <2>2. /\ clones \in Seq(TaskRecord) /\ Len(clones) = n
        /\ \A i \in 1..n : clones[i].root = task[b[i]].root
    <3>1. \A i \in 1..Len(b) : b[i] \in TaskId
      BY <1>3
    <3>2. TaskType /\ b \in Seq(Nat) /\ n \in 0..Len(b)
      BY <1>1, <1>3, <2>1
    <3> QED BY <3>1, <3>2, ClonesFacts, SMTT(30) DEF clones
  <2>3. new \in Seq(Nat) /\ Len(new) = n /\ \A i \in 1..n : new[i] = Len(task) + i
    <3>1. new \in [1..n -> Nat]
      BY <1>1, <2>1 DEF new
    <3> QED BY <2>1, <3>1 DEF new
  <2>4. b # <<>> /\ task' = task \o clones
    BY <1>2, <1>5
  <2>5. Grown(n) /\ \A i \in 1..n : task'[Len(task) + i].root = task[b[i]].root
    <3>1. ASSUME NEW i \in 1..n PROVE clones[i].root \in 1..Len(task) + n
      <4>0. i \in 1..Len(b)
        BY <2>1
      <4>1. b[i] \in TaskId /\ clones[i].root = task[b[i]].root
        BY <1>3, <2>2, <4>0
      <4>2. task[b[i]].root \in 1..Len(task)
        BY <1>1, <4>1
      <4> QED BY <1>1, <2>1, <4>1, <4>2
    <3>2. split \subseteq split'
      BY <1>2, <1>5
    <3>3. Grown(n) /\ \A i \in 1..n : task'[Len(task) + i] = clones[i]
      BY <1>1, <2>2, <2>4, <3>1, <3>2, Grows
    <3> QED BY <2>2, <3>3
  <2>6. CASE n < Len(b)
    <3>1. /\ split' = split \cup roots
          /\ untold' = untold \cup ToSet(new) /\ turn' = Idle /\ UNCHANGED <<focus, told>>
      BY <1>2, <1>5, <2>6 DEF Fallback
    <3>2. TurnType' /\ turn'.phase = "idle"
      <4>1. Len(task') \in Nat
        BY <1>1, <2>1, <2>5 DEF Grown
      <4> QED BY <3>1, <4>1, IdleType
    <3>3. ASSUME NEW t \in TaskId', t \notin TaskId
          PROVE  task'[t].root \in split' /\ t \in ToSet(new)
      <4>1. PICK i \in 1..n : t = Len(task) + i
        <5>1. t - Len(task) \in 1..n /\ t = Len(task) + (t - Len(task))
          BY <1>1, <2>1, <2>5, <3>3 DEF Grown, TaskId
        <5> QED BY <5>1
      <4>2. i \in DOMAIN new /\ new[i] = t
        BY <2>3, <4>1
      <4> QED BY <2>5, <3>1, <4>1, <4>2 DEF ToSet, roots
    <3>4. told \cup untold \cup Untold \cup (TaskId' \ TaskId) \subseteq told' \cup untold' \cup Untold'
      BY <1>1, <3>1, <3>3
    <3>5. turn'.phase \notin Replacing \cup {"stopping", "model", "sending", "pausing"}
      BY <3>2 DEF Replacing
    <3>6. \A t \in TaskId' : t \in TaskId \/ task'[t].root = t \/ task'[t].root \in split'
      BY <3>3
    <3>7. turn'.phase \in {"model", "sending", "pausing"} => turn'.made \subseteq ToSet(turn'.did)
      BY <3>5
    <3>8. turn'.phase \notin Replacing \cup {"stopping"}
      BY <3>5
    <3>9. UNCHANGED <<focus, news, wording>>
      BY <1>1, <3>1
    <3> QED BY <1>1, <2>1, <2>5, <3>2, <3>4, <3>6, <3>7, <3>8, <3>9, GrownStep
  <2>7. CASE ~(n < Len(b))
    <3>1. n = Len(b)
      BY <2>1, <2>7
    <3>2. turn' = [phase |-> "replacing", did |-> <<>>, made |-> {}, old |-> b, new |-> new,
                   at |-> 1, fix |-> fix]
      BY <1>2, <1>5, <2>7 DEF Idle
    <3>3. ASSUME NEW i \in 1..Len(b), NEW j \in 1..Len(b), j < i, b[i] = b[j]
          PROVE  task[b[i]].root \in split'
      <4>1. i \in 1..n /\ j \in 1..(i - 1) /\ b[i] = b[j]
        BY <1>3, <3>1, <3>3
      <4>2. i \in {m \in 1..n : \E k \in 1..(m - 1) : b[m] = b[k]}
        BY <4>1
      <4>3. task[b[i]].root \in twice
        BY <4>2 DEF twice
      <4> QED BY <1>2, <1>5, <2>7, <4>3
    <3>4. UNCHANGED <<focus, told, untold>>
      BY <1>2, <1>5, <2>7
    <3> QED BY <1>1, <1>3, <2>3, <2>4, <2>5, <3>1, <3>2, <3>3, <3>4, Cloned
  <2> QED BY <2>6, <2>7
<1> QED BY <1>4, <1>5

LEMMA ReplacingSteps ==
  ASSUME IInv
  PROVE  CancelReplaced \/ ReplacedSent => IInv'
<1>1. /\ Types /\ Len(task) \in Nat /\ TaskId = 1..Len(task)
      /\ turn \in [phase : Phases, did : Seq(Nat), made : SUBSET Nat, old : Seq(Nat),
                   new : Seq(Nat), at : Nat, fix : Fixes]
      /\ \A i \in 1..Len(turn.old) : turn.old[i] \in TaskId
  BY LenFacts DEF IInv, Types, TurnType, Names
<1>2. ASSUME NEW phase \in Replacing, NEW at \in Nat \ {0}, TaskType', Calm, NewsType',
             turn.phase \in Replacing, UNCHANGED <<focus, told, untold>>,
             turn' = [phase |-> phase, did |-> turn.did, made |-> turn.made, old |-> turn.old,
                      new |-> turn.new, at |-> at, fix |-> turn.fix],
             \A u \in TaskId : u \in Due /\ IsActive(u)' => u \in Due'
      PROVE  IInv'
  <2>1. FocusType' /\ TurnType'
    BY <1>1, <1>2 DEF Types, FocusType, TurnType, Calm, Phases, Replacing
  <2>2. Untold' = Untold /\ turn'.phase \in Replacing /\ turn'.phase \notin {"stopping", "model", "sending", "pausing"}
    BY <1>2 DEF Untold, Replacing
  <2> QED BY <1>2, <2>1, <2>2, CalmStep
<1>3. ASSUME CancelReplaced PROVE IInv'
  <2>1. /\ turn.phase = "replacing" /\ turn.at \in 1..Len(turn.old) /\ turn.at \in Nat \ {0}
        /\ turn.old[turn.at] \in TaskId
        /\ UNCHANGED <<focus, wording, told, untold, split>>
    BY <1>1, <1>3, SMTT(30) DEF CancelReplaced, IInv, TurnInv, Replacing
  <2>2. PICK t \in TaskId : t = turn.old[turn.at]
    BY <2>1
  <2>3. task' = [task EXCEPT ![t].status = "cancelled"] /\ news' \subseteq news
    BY <1>3, <2>2 DEF CancelReplaced
  <2>4. TaskType' /\ Calm /\ NewsType' /\ ~IsActive(t)'
    BY <1>1, <2>1, <2>3, CancelOne
  <2>5. CASE HasRun(t)
    <3>1. turn' = [phase |-> "replacing_send", did |-> turn.did, made |-> turn.made, old |-> turn.old,
                   new |-> turn.new, at |-> turn.at, fix |-> turn.fix]
      BY <1>1, <1>3, <2>2, <2>5 DEF CancelReplaced
    <3>2. \A u \in TaskId : u \in Due /\ IsActive(u)' => u \in Due'
      BY <2>1, <2>2, <2>4, <3>1 DEF Due
    <3>3. "replacing_send" \in Replacing /\ turn.phase \in Replacing
      BY <2>1 DEF Replacing
    <3> QED BY <1>2, <2>1, <2>4, <3>1, <3>2, <3>3
  <2>6. CASE ~HasRun(t)
    <3>1. turn' = [phase |-> "replacing", did |-> turn.did, made |-> turn.made, old |-> turn.old,
                   new |-> turn.new, at |-> turn.at + 1, fix |-> turn.fix]
      BY <1>1, <1>3, <2>1, <2>2, <2>6 DEF CancelReplaced
    <3>2. \A u \in TaskId : u \in Due /\ IsActive(u)' => u \in Due'
      BY <2>1, <2>2, <2>4, <3>1 DEF Due
    <3>3. "replacing" \in Replacing /\ turn.phase \in Replacing /\ turn.at + 1 \in Nat \ {0}
      BY <2>1 DEF Replacing
    <3> QED BY <1>2, <2>1, <2>4, <3>1, <3>2, <3>3
  <2> QED BY <2>5, <2>6
<1>4. ASSUME ReplacedSent PROVE IInv'
  <2>1. /\ turn.phase = "replacing_send" /\ UNCHANGED <<task, focus, wording, told, untold, split>>
        /\ news' \subseteq news
    BY <1>4 DEF ReplacedSent
  <2>2. TaskType' /\ Calm /\ NewsType'
    BY <1>1, <2>1 DEF Types, TaskType, TaskId, Calm, IsActive, NewsType
  <2>3. turn' = [phase |-> "replacing", did |-> turn.did, made |-> turn.made, old |-> turn.old,
                 new |-> turn.new, at |-> turn.at + 1, fix |-> turn.fix]
    BY <1>1, <1>4 DEF ReplacedSent
  <2>4. \A u \in TaskId : u \in Due => u \in Due'
    BY <1>1, <2>1, <2>3 DEF Due
  <2>5. "replacing" \in Replacing /\ turn.phase \in Replacing /\ turn.at + 1 \in Nat \ {0}
    BY <1>1, <2>1 DEF Replacing
  <2> QED BY <1>2, <2>1, <2>2, <2>3, <2>4, <2>5
<1> QED BY <1>3, <1>4

-----------------------------------------------------------------------------
(* The theorems *)

LEMMA InitInv ==
  ASSUME Init
  PROVE  IInv
<1>1. /\ DraftTasks \in Seq(SUBSET Slot) /\ Len(DraftTasks) \in Nat
      /\ DOMAIN DraftTasks = 1..Len(DraftTasks)
      /\ \A i \in 1..Len(DraftTasks) : DraftTasks[i] \in SUBSET Slot
  OBVIOUS
<1> DEFINE n == Len(DraftTasks)
<1>2. /\ task \in [1..n -> TaskRecord] /\ \A i \in 1..n : task[i].root = i
      /\ n \in Nat
  <2>1. PICK refused \in [1..n -> BOOLEAN] :
          task = [i \in 1..n |-> [status |-> "created", slots |-> DraftTasks[i], root |-> i,
                                 refused |-> refused[i]]]
    BY <1>1 DEF Init
  <2> QED BY <1>1, <2>1, StatusFacts DEF TaskRecord
<1> HIDE DEF n
<1>3. task \in Seq(TaskRecord) /\ Len(task) = n /\ TaskId = 1..n
  BY <1>2 DEF TaskId
<1>4. TaskType
  BY <1>2, <1>3 DEF TaskType
<1>5. Names(<<>>, Len(task)) /\ <<>> \in Seq(Nat)
  BY <1>2, <1>3, NamesFacts
<1>6. FocusType /\ NewsType
  BY <1>2, <1>3, <1>5 DEF Init, FocusType, NewsType
<1>7. TurnType
  BY <1>5 DEF Init, TurnType, Idle, Phases, Fixes
<1>8. OneCopy
  BY <1>2, <1>3 DEF OneCopy
<1>9. FocusInv /\ TurnInv
  BY DEF Init, FocusInv, TurnInv, Idle, Replacing
<1>10. ToldInv
  BY <1>2, <1>3 DEF ToldInv, n
<1> QED BY <1>4, <1>6, <1>7, <1>8, <1>9, <1>10 DEF IInv, Types

LEMMA StepInv ==
  ASSUME IInv, [Next]_vars
  PROVE  IInv'
<1>1. CASE StartTurn
  BY <1>1, CorrectionKeeps, ContinueKeeps, StopKeeps, WhatKeeps, AskKeeps DEF StartTurn
<1>2. CASE TurnStep
  BY <1>2, SentSteps, ReplacingSteps, ControlSentKeeps DEF TurnStep
<1>3. CASE ToolStep
  BY <1>3, ToolSteps, CreateKeeps DEF ToolStep
<1>4. CASE ClientAction
  <2>1. \A v \in References : Resolve(v) \subseteq TaskId
    BY DEF Resolve, Relevant
  <2> QED BY <1>4, <2>1, AsideSteps DEF ClientAction
<1>5. CASE \E t \in TaskId, s \in {"running"} \cup Outcomes : Executes(t, s)
  BY <1>5, AsideSteps
<1>6. CASE \E ts \in (SUBSET news) \ {{}} : StartWording(ts)
  BY <1>6, AsideSteps
<1>7. CASE \E key \in wording : Notify(key)
  BY <1>7, NotifyKeeps
<1>8. CASE UNCHANGED vars
  BY <1>8, AsideSteps
<1> QED BY <1>1, <1>2, <1>3, <1>4, <1>5, <1>6, <1>7, <1>8 DEF Next

\* The inductive invariant: types, which tasks of a request may be active, where
\* the focus is, what a correction has made and has yet to cancel
\* (_handle_message_request and all it calls).
THEOREM ConversationInvariant == Spec => []IInv
BY InitInv, StepInv, PTL DEF Spec

\* Between turns at most one task of a request is active, apart from the
\* requests in split: _recreate_task_from_cancelled and
\* _replace_bundle_for_correction supersede, they do not duplicate.
THEOREM OneLiveCopyHolds == Spec => []OneLiveCopy
<1>1. IInv => OneLiveCopy
  BY AtRest DEF IInv, OneCopy, OneLiveCopy, IsActive
<1> QED BY <1>1, ConversationInvariant, PTL

\* Every task a turn has made is named by an assistant entry once the turn is
\* over, unless the turn failed (_handle_message_request's fallback).
THEOREM CreatedIsToldHolds == Spec => []CreatedIsTold
<1>1. IInv => CreatedIsTold
  BY AtRest DEF IInv, ToldInv, CreatedIsTold
<1> QED BY <1>1, ConversationInvariant, PTL
=============================================================================
