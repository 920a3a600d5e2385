---------------------------- MODULE Conversation ----------------------------
(***************************************************************************)
(* The communication brain of one session: user messages are queued and    *)
(* answered one at a time, some of them without the language model (stop,  *)
(* continue, "what are you working on", corrections such as "to Rome").    *)
(* Those act on the focused tasks: the ones the latest assistant entry of  *)
(* the history names.  Meanwhile tasks run, users send task commands, and  *)
(* proactive notifications append entries of their own.                    *)
(*                                                                         *)
(* The brain suspends only while the model thinks and while the            *)
(* cancellation or the pause of a live run is sent to its node (phases     *)
(* "model", "sending", "pausing", "stopping", "replacing_send"); in phase  *)
(* "replacing" the code runs on, so nothing else takes a step.  A task's   *)
(* text is the set of its slots: the places a title or a goal mentions     *)
(* after "from" (origin) or after "to", "in" or "at" (destination).        *)
(***************************************************************************)
EXTENDS Naturals, Sequences, FiniteSets, SequencesExt

CONSTANTS
    Contents,      \* texts a new task may have: sets of slots
    Notes,         \* slots a note or a constraint may mention
    DraftTasks,    \* texts of the tasks made beforehand, by drafts or for threads
    Corrections,   \* correction messages: [old, group, new]
    Intents,       \* which other messages the user may send
    Outcomes,      \* how a run may end: "completed", "failed" or "waiting_user_input"
    Commands,      \* task commands users may send; pause stands for preempt too
    References,    \* places a command may refer to a task by
    MaxTasks,      \* bound: tasks of the session
    MaxMessages,   \* bound: user messages
    MaxWaiting,    \* bound: messages that wait at a time
    MaxTools,      \* bound: tool calls of one model turn (max_rounds)
    MaxMoves       \* bound: steps of executors and task commands or answers of users

ASSUME BoundAssumption ==
    /\ MaxTasks \in Nat /\ MaxMessages \in Nat /\ MaxWaiting \in Nat
    /\ MaxTools \in Nat /\ MaxMoves \in Nat

VARIABLES
    task,          \* the tasks in creation order: status, slots, root request
    focus,         \* ids and head of the latest entry that names tasks, and who wrote it
    inbox,         \* _message_queue
    turn,          \* the message being handled
    wording,       \* the tasks of the notification the model is wording
    news,          \* tasks with a pending notification candidate
    sent,          \* how many messages have been submitted
    answered,      \* how many have been answered
    moves,         \* how many steps executors and users have taken besides
    told,          \* tasks some assistant entry has named
    untold,        \* tasks a turn made before it failed
    split          \* roots of which a second copy was made knowingly or by a failure

vars == <<task, focus, inbox, turn, wording, news, sent, answered, moves, told, untold, split>>

None == "none"
Active == {"created", "queued", "running", "waiting_user_input", "paused"}
Terminal == {"completed", "cancelled", "failed"}
TaskId == 1..Len(task)

\* What the texts of tasks may mention.
Values == {s.value : s \in Notes \cup UNION (Contents \cup ToSet(DraftTasks))}
            \cup {fix.new : fix \in Corrections}
Slot == [field : {"title", "goal", "note"}, group : {"origin", "destination"}, value : Values]

ASSUME TextAssumption ==
    /\ Contents \subseteq SUBSET Slot /\ Notes \subseteq Slot
    /\ DraftTasks \in Seq(SUBSET Slot)
    /\ Outcomes \subseteq Active \cup Terminal
    /\ Commands \subseteq {"cancel", "pause", "resume", "retry"}

Idle == [phase |-> "idle", did |-> <<>>, made |-> {}, old |-> <<>>, new |-> <<>>,
         at |-> 0, fix |-> [old |-> None, group |-> None, new |-> None]]

\* Whether create_task takes the task's executor: a draft's it does, a thread's
\* only if the session has registered codex, and none at all only if the default
\* executor is a real one.
Init ==
    /\ \E refused \in [DOMAIN DraftTasks -> BOOLEAN] :
         task = [i \in DOMAIN DraftTasks |->
                   [status |-> "created", slots |-> DraftTasks[i], root |-> i,
                    refused |-> refused[i]]]
    /\ focus = [ids |-> <<>>, head |-> 0, by |-> "turn"]
    /\ inbox = <<>> /\ turn = Idle /\ wording = {} /\ news = {}
    /\ sent = 0 /\ answered = 0 /\ moves = 0
    /\ told = {} /\ untold = {} /\ split = {}

\* Nothing else runs while the brain does not suspend.
Suspended == turn.phase # "replacing"

----------------------------------------------------------------------------
(* Which task a reference means: TaskResolver.                             *)

\* _score_task_match: a place named in the title, the goal or the notes, as a
\* substring and as a token.
TextScore(t, v) ==
    (IF \E s \in task[t].slots : s.field = "title" /\ s.value = v THEN 70 + 18 ELSE 0)
    + (IF \E s \in task[t].slots : s.field = "goal" /\ s.value = v THEN 55 + 12 ELSE 0)
    + (IF \E s \in task[t].slots : s.field = "note" /\ s.value = v THEN 30 + 8 ELSE 0)

\* list_relevant: active and newer tasks score a little more.
Score(t, v) == TextScore(t, v) + t + (IF task[t].status \in Active THEN 8 ELSE 0)
Relevant(v) == {t \in TaskId : TextScore(t, v) > 0}

\* resolve: the tasks a reference resolves to; none if two come close.
Resolve(v) ==
    {t \in Relevant(v) : \A u \in Relevant(v) \ {t} : Score(t, v) >= Score(u, v) + 25}

----------------------------------------------------------------------------
(* What a correction changes.                                              *)

\* _extract_bundle_slots: the slots of the bundle's titles and goals, each at its
\* place in the bundle.
BundleSlots(bundle) ==
    UNION {{[at |-> i, field |-> s.field, group |-> s.group, value |-> s.value] :
              s \in {x \in task[bundle[i]].slots : x.field # "note"}} : i \in DOMAIN bundle}

\* _select_correction_slots; the empty set where the code returns None.
SelectSlots(slots, fix) ==
    LET matched == {s \in slots : /\ fix.old # None => s.value = fix.old
                                  /\ fix.group # None => s.group = fix.group}
    IN IF fix.old = None /\ fix.group = None
       THEN IF Cardinality(slots) = 1 THEN slots ELSE {}
       ELSE IF fix.group = None /\ Cardinality({s.group : s \in matched}) > 1
            THEN {} ELSE matched

\* The target slots of the task at place i of the bundle.
TargetsAt(bundle, targets, i) == {s \in targets : bundle[s.at] = bundle[i]}

\* _apply_correction_to_text, over all the texts of a task.
Corrected(slots, targets, fix) ==
    {IF \E x \in targets : x.group = s.group /\ x.value = s.value
     THEN [s EXCEPT !.value = fix.new] ELSE s : s \in slots}

\* _task_has_cued_value
HasValue(slots, group, v) == \E s \in slots : s.group = group /\ s.value = v

\* _bundle_correction_is_valid
CorrectionIsValid(old, new, targets, fix) ==
    /\ \A i \in DOMAIN old : task[old[i]].status = "cancelled"
    /\ \A i \in DOMAIN old : \A s \in TargetsAt(old, targets, i) :
         /\ HasValue(task[new[i]].slots, s.group, fix.new)
         /\ ~HasValue(task[new[i]].slots, s.group, s.value)

----------------------------------------------------------------------------
(* Replies and focus.                                                      *)

\* What latest_focused_task_id(s) returns once an entry names ids.
Named(ids, head, by) == [ids |-> ids, head |-> head, by |-> by]

\* _append_assistant_entry with focused ids that differ from the affected ones.
Entry(affected, ids, by) ==
    /\ focus' = IF ids = <<>> THEN focus ELSE Named(ids, ids[1], by)
    /\ told' = told \cup ToSet(affected)

\* _finalize_local_turn, or the end of a model turn, and what
\* _handle_message_request does after it: the message is answered.
Reply(affected, ids, by) ==
    /\ Entry(affected, ids, by)
    /\ answered' = answered + 1
    /\ turn' = Idle

\* _handle_message_request, when generate_reply raised: an entry that names no
\* task.
Fallback(made) ==
    /\ untold' = untold \cup made
    /\ answered' = answered + 1
    /\ turn' = Idle
    /\ UNCHANGED <<focus, told>>

\* _resolve_focused_bundle: all focused tasks are active, or there is none.
Bundle ==
    IF \A i \in DOMAIN focus.ids : task[focus.ids[i]].status \in Active
    THEN focus.ids ELSE <<>>

\* apply_command's cancellation sends to a node if the task has a live run.
HasRun(t) == task[t].status \in {"running", "waiting_user_input", "paused"}

\* What an accepted command makes of a task (apply_command).
CommandResult(c) ==
    CASE c = "cancel" -> "cancelled" [] c = "pause" -> "paused" [] OTHER -> "queued"

\* validate_task_command: a pause needs a task that has not started, a live run or
\* a known executor, not a task that goes on; a retry needs nothing.
Supported(t, c) ==
    CASE c = "pause" -> task[t].status \in {"created", "queued"} \/ HasRun(t) \/ ~task[t].refused
      [] c = "resume" -> task[t].status = "paused"
      [] OTHER -> TRUE

\* The root of an ended task that a command makes active again.
Woken(t, c) == IF task[t].status \in Terminal /\ c # "cancel" THEN {task[t].root} ELSE {}

\* submit_message: the message waits for its turn.
Submitted(m) == inbox' = Append(inbox, m) /\ sent' = sent + 1

\* _handle_send_message and the messages route, which start the loop if it is
\* not running.
SubmitMessage(m) ==
    /\ Suspended
    /\ sent < MaxMessages /\ Len(inbox) < MaxWaiting
    /\ Submitted(m)
    /\ UNCHANGED <<task, focus, turn, wording, news, answered, moves, told, untold, split>>

\* _communication_loop takes the next message and _handle_local_intent sorts it.
Takes(m) ==
    /\ turn = Idle
    /\ inbox # <<>>
    /\ Head(inbox) = m
    /\ inbox' = Tail(inbox)
    /\ UNCHANGED <<sent, moves, wording>>

----------------------------------------------------------------------------
(* The turns the brain handles by itself.                                  *)

\* _handle_stop_intent: the first task of the bundle, whatever its size.
HandleStop ==
    /\ Takes([kind |-> "stop"])
    /\ \/ /\ Bundle = <<>>
          /\ Reply(<<>>, <<>>, "turn")
          /\ UNCHANGED <<task, news>>
       \/ /\ Bundle # <<>>
          /\ task' = [task EXCEPT ![Bundle[1]].status = "cancelled"]
          /\ IF HasRun(Bundle[1])
             THEN /\ turn' = [Idle EXCEPT !.phase = "stopping", !.old = <<Bundle[1]>>]
                  /\ UNCHANGED <<news, focus, told, answered>>
             ELSE /\ news' = news \ {Bundle[1]}
                  /\ Reply(<<Bundle[1]>>, <<Bundle[1]>>, "turn")
    /\ UNCHANGED <<untold, split>>

\* The cancellation has been sent (an error of the send is swallowed).
StopSent ==
    /\ turn.phase = "stopping"
    /\ news' = news \ {turn.old[1]}
    /\ Reply(turn.old, turn.old, "turn")
    /\ UNCHANGED <<task, inbox, wording, sent, moves, untold, split>>

\* Some task other than t of the same request is still active.
Superseded(t) ==
    \E u \in TaskId \ {t} : task[u].root = task[t].root /\ task[u].status \in Active

\* _handle_continue_intent, when the focused task was cancelled:
\* _recreate_task_from_cancelled makes it anew.
Recreate(t) ==
    /\ \/ /\ task[t].refused
          /\ Fallback({})
          /\ UNCHANGED <<task, split>>
       \/ /\ ~task[t].refused
          /\ Len(task) < MaxTasks
          /\ task' = Append(task, [task[t] EXCEPT !.status = "created"])
          /\ split' = split \cup (IF focus.by # "turn" /\ Superseded(t)
                                  THEN {task[t].root} ELSE {})
          /\ Reply(<<Len(task')>>, <<Len(task')>>, "turn")
          /\ UNCHANGED untold

\* _handle_continue_intent
HandleContinue ==
    /\ Takes([kind |-> "continue"])
    /\ LET t == focus.head
       IN \/ /\ t = 0 \/ (t # 0 /\ task[t].status \in {"completed", "failed"})
             /\ Reply(<<>>, <<>>, "turn")
             /\ UNCHANGED <<task, untold, split>>
          \/ /\ t # 0 /\ task[t].status \in Active \ {"paused"}
             /\ Reply(<<t>>, <<t>>, "turn")
             /\ UNCHANGED <<task, untold, split>>
          \/ /\ t # 0 /\ task[t].status = "paused"
             /\ task' = [task EXCEPT ![t].status = "queued"]
             /\ Reply(<<t>>, <<t>>, "turn")
             /\ UNCHANGED <<untold, split>>
          \/ t # 0 /\ task[t].status = "cancelled" /\ Recreate(t)
    /\ UNCHANGED news

\* _handle_current_work_question: the newest active task gets the focus.
HandleCurrentWork ==
    /\ Takes([kind |-> "what"])
    /\ \/ /\ \A t \in TaskId : task[t].status \notin Active
          /\ Reply(<<>>, <<>>, "turn")
       \/ \E t \in TaskId :
            /\ task[t].status \in Active
            /\ \A u \in TaskId : u > t => task[u].status \notin Active
            /\ Reply(<<t>>, <<t>>, "turn")
    /\ UNCHANGED <<task, news, untold, split>>

\* Fault: the replaced bundle keeps the focus.
FocusReplaced(old, new) == old

\* Which tasks a correction leaves focused: new_task_ids.
FocusAfterCorrection(old, new) == new

\* Fault: a clarification after the replacement names the old tasks only.
NamesOld(old, new) == old

\* The affected_task_ids of a correction's reply.
NamesAfterCorrection(old, new) == old \o new

\* How many tasks of the bundle create_task clones before it refuses one.
Clonable(bundle) ==
    Cardinality({i \in DOMAIN bundle : \A j \in 1..i : ~task[bundle[j]].refused})

\* _clone_task_with_correction, for the first n tasks of the bundle.
Clones(bundle, targets, fix, n) ==
    [i \in 1..n |-> [task[bundle[i]] EXCEPT
                       !.status = "created",
                       !.slots = Corrected(@, TargetsAt(bundle, targets, i), fix)]]

\* _handle_correction_intent up to the first cancellation: all clones are made
\* before any task is cancelled; one that is refused fails the turn.
HandleCorrection(fix) ==
    /\ Takes([kind |-> "correct", fix |-> fix])
    /\ LET targets == SelectSlots(BundleSlots(Bundle), fix)
           n == Clonable(Bundle)
           clones == Clones(Bundle, targets, fix, n)
           new == [i \in 1..n |-> Len(task) + i]
           roots == {task[Bundle[i]].root : i \in 1..n}
       IN \/ /\ Bundle = <<>> \/ targets = {}
             /\ Reply(Bundle, Bundle, "turn")
             /\ UNCHANGED <<task, untold, split>>
          \/ /\ Bundle # <<>> /\ targets # {}
             /\ Len(task) + n <= MaxTasks
             /\ task' = task \o clones
             /\ IF n < Len(Bundle)
                THEN /\ split' = split \cup roots
                     /\ Fallback(ToSet(new))
                ELSE /\ split' = split \cup {task[Bundle[i]].root : i \in
                                  {j \in 1..n : \E k \in 1..(j - 1) : Bundle[j] = Bundle[k]}}
                     /\ turn' = [Idle EXCEPT !.phase = "replacing", !.old = Bundle, !.new = new,
                                             !.at = 1, !.fix = fix]
                     /\ UNCHANGED <<focus, told, answered, untold>>
    /\ UNCHANGED news

\* _replace_bundle_for_correction: the next old task is cancelled.
CancelReplaced ==
    /\ turn.phase = "replacing"
    /\ turn.at <= Len(turn.old)
    /\ LET t == turn.old[turn.at]
       IN /\ task' = [task EXCEPT ![t].status = "cancelled"]
          /\ IF HasRun(t)
             THEN turn' = [turn EXCEPT !.phase = "replacing_send"] /\ UNCHANGED news
             ELSE turn' = [turn EXCEPT !.at = @ + 1] /\ news' = news \ {t}
    /\ UNCHANGED <<focus, inbox, wording, sent, answered, moves, told, untold, split>>

\* The node has been sent the cancellation of an old task.
ReplacedSent ==
    /\ turn.phase = "replacing_send"
    /\ turn' = [turn EXCEPT !.phase = "replacing", !.at = @ + 1]
    /\ news' = news \ {turn.old[turn.at]}
    /\ UNCHANGED <<task, focus, inbox, wording, sent, answered, moves, told, untold, split>>

\* _handle_correction_intent after the replacement: acknowledged or, when the
\* check fails, answered with one more question; the new tasks run either way.
FinishCorrection ==
    /\ turn.phase = "replacing"
    /\ turn.at > Len(turn.old)
    /\ LET targets == SelectSlots(BundleSlots(turn.old), turn.fix)
       IN \/ /\ CorrectionIsValid(turn.old, turn.new, targets, turn.fix)
             /\ Reply(turn.old \o turn.new, FocusAfterCorrection(turn.old, turn.new), "turn")
          \/ /\ ~CorrectionIsValid(turn.old, turn.new, targets, turn.fix)
             /\ Reply(NamesAfterCorrection(turn.old, turn.new),
                      FocusAfterCorrection(turn.old, turn.new), "turn")
    /\ UNCHANGED <<task, inbox, wording, news, sent, moves, untold, split>>

----------------------------------------------------------------------------
(* The turns of the language model: generate_reply with model.respond.     *)

AskModel ==
    /\ Takes([kind |-> "ask"])
    /\ turn' = [Idle EXCEPT !.phase = "model"]
    /\ UNCHANGED <<task, focus, news, answered, told, untold, split>>

\* One tool call: its result names task t.
Calls(t, made) == turn' = [turn EXCEPT !.did = Append(@, t), !.made = @ \cup made]
MayCall == turn.phase = "model" /\ Len(turn.did) < MaxTools
ModelUnchanged ==
    UNCHANGED <<focus, inbox, wording, sent, answered, moves, told, untold, split>>

\* create_task
ModelCreates(slots) ==
    /\ MayCall
    /\ Len(task) < MaxTasks
    /\ task' = Append(task, [status |-> "created", slots |-> slots, root |-> Len(task) + 1,
                             refused |-> FALSE])
    /\ Calls(Len(task) + 1, {Len(task) + 1})
    /\ UNCHANGED news /\ ModelUnchanged

\* update_task may give the task another title or goal, and another executor or
\* none.
ModelUpdates(t, slots, refused) ==
    /\ MayCall
    /\ task' = [task EXCEPT ![t].slots = slots \cup {s \in @ : s.field = "note"},
                            ![t].refused = refused]
    /\ Calls(t, {})
    /\ UNCHANGED news /\ ModelUnchanged

\* add_task_note and add_constraint: a text that corrections rewrite but that
\* offers no slot to correct.
ModelNotes(t, s) ==
    /\ MayCall
    /\ task' = [task EXCEPT ![t].slots = @ \cup {s}]
    /\ Calls(t, {})
    /\ UNCHANGED news /\ ModelUnchanged

\* query_task_detail and query_task_summary only look, but their task is
\* affected like any other.
ModelReads(t) ==
    /\ MayCall
    /\ Calls(t, {})
    /\ UNCHANGED <<task, news>> /\ ModelUnchanged

\* resolve_interaction_request, for an executor that is sent a follow-up.
ModelAnswers(t) ==
    /\ MayCall
    /\ task[t].status = "waiting_user_input"
    /\ task' = [task EXCEPT ![t].status = "queued"]
    /\ news' = news \ {t}
    /\ Calls(t, {})
    /\ ModelUnchanged

\* control_task, which applies any command of a user's; the send to the node of a
\* live run suspends.
ModelControls(t, c) ==
    /\ MayCall
    /\ Supported(t, c)
    /\ task' = [task EXCEPT ![t].status = CommandResult(c)]
    /\ split' = split \cup Woken(t, c)
    /\ IF c \in {"cancel", "pause"} /\ HasRun(t)
       THEN /\ turn' = [turn EXCEPT !.phase = IF c = "cancel" THEN "sending" ELSE "pausing",
                                    !.did = Append(@, t)]
            /\ UNCHANGED news
       ELSE /\ Calls(t, {})
            /\ news' = IF c = "cancel" THEN news \ {t} ELSE news
    /\ UNCHANGED <<focus, inbox, wording, sent, answered, moves, told, untold>>

\* The node has been told; only a cancellation suppresses notifications.
ModelControlSent ==
    /\ turn.phase \in {"sending", "pausing"}
    /\ turn' = [turn EXCEPT !.phase = "model"]
    /\ news' = IF turn.phase = "sending" THEN news \ {Last(turn.did)} ELSE news
    /\ UNCHANGED task /\ ModelUnchanged

\* The reply names the task of every tool call, in order and repeated.
ModelReplies ==
    /\ turn.phase = "model"
    /\ Reply(turn.did, turn.did, "model")
    /\ UNCHANGED <<task, inbox, wording, news, sent, moves, untold, split>>

\* The model raised, or called tools for max_rounds without a reply.
ModelFails ==
    /\ turn.phase = "model"
    /\ Fallback(turn.made)
    /\ UNCHANGED <<task, inbox, wording, news, sent, moves, split>>

----------------------------------------------------------------------------
(* What goes on meanwhile.                                                 *)

\* The execution of a task: its runs start, end and ask (see TaskExecution).
Executes(t, status) ==
    /\ Suspended
    /\ moves < MaxMoves
    /\ \/ task[t].status \in {"created", "queued"} /\ status = "running"
       \/ task[t].status = "running" /\ status \in Outcomes
    /\ task' = [task EXCEPT ![t].status = status]
    /\ news' = IF status = "running" THEN news ELSE news \cup {t}
    /\ moves' = moves + 1
    /\ UNCHANGED <<focus, inbox, turn, wording, sent, answered, told, untold, split>>

\* _handle_resolve_interaction_request: the follow-up run is queued.
Answer(t) ==
    /\ Suspended
    /\ moves < MaxMoves
    /\ task[t].status = "waiting_user_input"
    /\ task' = [task EXCEPT ![t].status = "queued"]
    /\ news' = news \ {t}
    /\ moves' = moves + 1
    /\ UNCHANGED <<focus, inbox, turn, wording, sent, answered, told, untold, split>>

\* _handle_send_command and the commands route: the task by its id or by the
\* one task a reference means; a retry or a pause may wake a task that was replaced.
SendCommand(t, c) ==
    /\ Suspended
    /\ moves < MaxMoves
    /\ Supported(t, c)
    /\ task' = [task EXCEPT ![t].status = CommandResult(c)]
    /\ news' = IF c = "cancel" THEN news \ {t} ELSE news
    /\ split' = split \cup Woken(t, c)
    /\ moves' = moves + 1
    /\ UNCHANGED <<focus, inbox, turn, wording, sent, answered, told, untold>>

\* The pump starts to word a notification only while no turn is on or waiting.
StartWording(ts) ==
    /\ turn = Idle /\ inbox = <<>>
    /\ wording = {}
    /\ wording' = ts
    /\ news' = news \ ts
    /\ UNCHANGED <<task, focus, inbox, turn, sent, answered, moves, told, untold, split>>

\* emit_notification appends its entry whatever has happened meanwhile; the
\* key task is the entry's focused_task_id.
Notify(key) ==
    /\ Suspended
    /\ key \in wording
    /\ \E ids \in [1..Cardinality(wording) -> wording] :
         /\ \A i, j \in DOMAIN ids : i < j => ids[i] < ids[j]
         /\ focus' = Named(ids, key, "notice")
    /\ told' = told \cup wording
    /\ wording' = {}
    /\ UNCHANGED <<task, inbox, turn, news, sent, answered, moves, untold, split>>

----------------------------------------------------------------------------
\* _handle_local_intent, and the model if it returns None.
StartTurn ==
    \/ \E fix \in Corrections : HandleCorrection(fix)
    \/ HandleContinue \/ HandleStop \/ HandleCurrentWork \/ AskModel

TurnStep ==
    \/ StopSent \/ CancelReplaced \/ ReplacedSent \/ FinishCorrection
    \/ ModelControlSent \/ ModelReplies \/ ModelFails

\* The tools of build_default_tool_registry.
ToolStep ==
    \/ \E slots \in Contents : ModelCreates(slots)
    \/ \E t \in TaskId : \/ \E slots \in Contents, refused \in BOOLEAN :
                              ModelUpdates(t, slots, refused)
                         \/ \E s \in Notes : ModelNotes(t, s)
                         \/ \E c \in {"cancel", "pause", "resume", "retry"} :
                              ModelControls(t, c)
                         \/ ModelReads(t) \/ ModelAnswers(t)

\* _handle_client_action, for the actions of this component.
ClientAction ==
    \/ \E i \in Intents : SubmitMessage([kind |-> i])
    \/ \E fix \in Corrections : SubmitMessage([kind |-> "correct", fix |-> fix])
    \/ /\ moves < MaxMoves
       /\ \/ \E t \in TaskId : Answer(t) \/ \E c \in Commands : SendCommand(t, c)
          \/ \E v \in References : \E t \in Resolve(v), c \in Commands : SendCommand(t, c)

Next ==
    \/ StartTurn \/ TurnStep \/ ToolStep \/ ClientAction
    \/ \E t \in TaskId, s \in {"running"} \cup Outcomes : Executes(t, s)
    \/ \E ts \in (SUBSET news) \ {{}} : StartWording(ts)
    \/ \E key \in wording : Notify(key)

Spec == Init /\ [][Next]_vars

----------------------------------------------------------------------------
(* Properties.                                                             *)

TypeOK ==
    /\ \A t \in TaskId : task[t].status \in Active \cup Terminal /\ task[t].root \in TaskId
    /\ ToSet(focus.ids) \subseteq TaskId /\ focus.head \in {0} \cup TaskId
    /\ answered + Len(inbox) + (IF turn = Idle THEN 0 ELSE 1) = sent
    /\ wording \cup news \cup told \cup untold \subseteq TaskId
    /\ \A n \in ToSet(turn.old \o turn.new \o turn.did) : n \in TaskId

\* Between turns at most one task of a request is active, however stops,
\* continuations and corrections follow each other and whatever runs end
\* meanwhile: _recreate_task_from_cancelled and _replace_bundle_for_correction
\* supersede, they do not duplicate.  Excepted (split): a clone refused in the
\* middle of a bundle, a bundle that names a task twice, a retry or a pause of a
\* task that had ended, by a user or by the model's control_task, and a
\* continuation after a notification or a model turn put the focus back on a
\* superseded task.
OneLiveCopy ==
    turn = Idle =>
      \A t \in TaskId, u \in TaskId :
         (t # u /\ task[t].root = task[u].root /\ task[t].root \notin split)
           => ~(task[t].status \in Active /\ task[u].status \in Active)

\* Every task a turn has made is named by an assistant entry once the turn is
\* over, also when the correction check fails after the replacement; only a
\* turn that failed (_handle_message_request's fallback) leaves tasks untold.
CreatedIsTold ==
    turn = Idle => (Len(DraftTasks) + 1)..Len(task) \subseteq told \cup untold

=============================================================================
