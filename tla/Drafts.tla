------------------------------- MODULE Drafts -------------------------------
(***************************************************************************)
(* The voice draft of one runtime session: utterances arrive as durable    *)
(* ASR turns, typed messages, live partial and final transcripts; each is  *)
(* (for all but ASR turns) classified by a model and then folded into the  *)
(* active draft by another; the user sends, confirms or clears the draft   *)
(* from a client that sees it through SessionStream.                       *)
(*                                                                         *)
(* The two model calls are the only suspension points: between them the    *)
(* session object read before the call may be revised, sent or cleared by  *)
(* others.  send_draft, confirm_active_dispatch, clear and every publish   *)
(* run without suspending (the blackboard is in memory).  The text of a    *)
(* draft is the set of utterances the rewriter was given.                  *)
(***************************************************************************)
EXTENDS SessionStream, FiniteSets

CONSTANTS
    Text,        \* the utterances, as normalised texts
    Vague,       \* texts too short to be a goal (lint_task_spec: fewer than 8 characters)
    Stamp,       \* the timestamps of live transcripts; 0 stands for none
    Interval,    \* the cadence of the live classifier, in stamps
    Entry,       \* the entry points used: "append", "text", "partial", "final"
    Label,       \* the classifier's answers
    MaxCalls,    \* bound: utterances
    MaxClicks    \* bound: sends and clears from clients, and greetings they leave

Drafting == {"delegation", "draft_correction"}
Labels == Drafting \cup {"confirmation", "clear_draft", "task_control", "other"}
Live == {"partial", "final"}

ASSUME DraftsAssumption ==
    /\ Vague \subseteq Text
    /\ Stamp \subseteq Nat
    /\ Interval \in Nat
    /\ Entry \subseteq Live \cup {"append", "text"}
    /\ Label \subseteq Labels
    /\ MaxCalls \in Nat \ {0}
    /\ MaxClicks \in Nat

VARIABLES
    sess,        \* the DraftSession objects, oldest first
    active,      \* DraftSessionManager._active_session, 0 for none
    call,        \* the utterance handlers, in the order they started
    gen,         \* _live_generation
    partial,     \* the call that is _live_partial_task, 0 for none
    published,   \* _latest_published_live_text, as a set of at most one text
    heard,       \* _latest_live_transcript and _last_live_classifier_ms
    prompted,    \* the draft and revision of the last spoken confirmation
    said,        \* every confirmation prompt a final transcript was answered with
    bro,         \* the assigned persona: "idle" or "busy"
    tasks,       \* the tasks created by Send
    inbox,       \* each client's request on its way to the server
    clicks       \* how many requests clients have made, and greetings left

draftVars == <<sess, active, call, gen, partial, published, heard, prompted, said,
               bro, tasks, inbox, clicks>>
vars == <<draftVars, streamVars>>

NoAsk == [act |-> "none", view |-> NoView, via |-> "ws"]
FreshSession == [status |-> "empty", turns |-> {}, draft |-> {}, rev |-> 0, ts |-> 0,
                 label |-> "other", confirmed |-> FALSE, raced |-> FALSE]

TypeOK ==
    /\ sess \in Seq([status : {"empty", "ready", "sent", "cleared"}, turns : SUBSET Text,
                     draft : SUBSET Text, rev : Nat, ts : Nat, label : Labels,
                     confirmed : BOOLEAN, raced : BOOLEAN])
    /\ active \in 0 .. Len(sess)
    /\ call \in Seq([kind : Live \cup {"append", "text"}, text : Text, stamp : Nat, gen : Nat,
                     by : Client \cup {"http"}, stage : {"classify", "rewrite", "done"},
                     sid : 0 .. Len(sess), given : SUBSET Text, rev : Nat, label : Labels])
    /\ gen \in Nat /\ partial \in 0 .. Len(call)
    /\ published \in SUBSET Text
    /\ bro \in {"idle", "busy"}
    /\ pump \in {"off", "on", "cancelled"} /\ leaked \in BOOLEAN

Init ==
    /\ StreamInit
    /\ sess = <<>> /\ active = 0 /\ call = <<>>
    /\ gen = 0 /\ partial = 0 /\ published = {}
    /\ heard = [text |-> {}, ts |-> 0]
    /\ prompted = <<0, 0>> /\ said = <<>>
    /\ bro = "idle" /\ tasks = <<>>
    /\ inbox = [c \in Client |-> NoAsk] /\ clicks = 0

\* What a snapshot refers to, and what its dump shows.
Snap(sid, b) == [sid |-> sid, bro |-> b]
Dump(ref) ==
    IF ref.sid = 0 THEN [NoView EXCEPT !.bro = ref.bro]
    ELSE [sid |-> ref.sid, rev |-> sess[ref.sid].rev, draft |-> sess[ref.sid].draft,
          bro |-> ref.bro]

InFlight(k) == call[k].stage # "done"
Calls == {k \in DOMAIN call : InFlight(k)}

-----------------------------------------------------------------------------
\* The draft session manager

Closed == {"sent", "cleared"}
NeedsSession == active = 0 \/ (active # 0 /\ sess[active].status \in Closed)

\* append_asr_turn and update_live_draft take the active session, or make an
\* object that becomes the active one only when its rewrite is applied.
Target == IF NeedsSession THEN Len(sess) + 1 ELSE active
WithTarget == IF NeedsSession THEN Append(sess, FreshSession) ELSE sess

\* Fault: the rewriter is given the new turn only.
GivenLatest(s, t) == {t}

\* DraftRewriteInput: the previous draft, the durable turns and the new one.
Given(s, t) == s.draft \cup s.turns \cup {t}

\* build_dispatch_plan: a new plan for the session, not confirmed.
StagedPlan(s) == [s EXCEPT !.confirmed = FALSE]

\* _apply_draft_revision: the rewrite becomes the current draft, with a new
\* revision, a new dispatch plan (not confirmed) and a snapshot, whatever has
\* become of the session since the rewrite began.
Revised(s, given, stamp) ==
    [StagedPlan(s) EXCEPT !.status = "ready", !.draft = given, !.rev = @ + 1,
                          !.ts = IF stamp # 0 THEN stamp ELSE @]

\* mark_live_checkpoint: the final transcript's time, the same revision.
Checkpoint(s, stamp) == [s EXCEPT !.ts = IF stamp # 0 THEN stamp ELSE @]

\* lint_task_spec, through dispatch_gate: a goal must be long enough.
LintFails(s) == s.draft \subseteq Vague

\* dispatch_gate on the staged plan.
Gate(s) ==
    IF LintFails(s) THEN "ask_clarification"
    ELSE IF s.confirmed THEN "dispatch" ELSE "ask_confirmation"

-----------------------------------------------------------------------------
\* Confirmation and Send

\* Fault: the revision the request names is not compared.
AnyRevision(view) == view.sid \in {0, active}

\* confirm_active_dispatch and send_draft refuse a request that names another
\* draft session or revision than the active one; a spoken confirmation and a
\* request without ids name none.
Matches(view) == view.sid = 0 \/ (view.sid = active /\ view.rev = sess[active].rev)

Sendable(view) ==
    /\ active # 0
    /\ sess[active].draft # {}
    /\ Matches(view)
    /\ ~LintFails(sess[active])
    /\ bro = "idle"

\* The plan stays marked as confirmed when the gate or send_draft refuses it.
Refused(view) ==
    sess' = IF active # 0 /\ sess[active].draft # {} /\ Matches(view)
            THEN [sess EXCEPT ![active].confirmed = TRUE] ELSE sess

\* DraftSessionManager.mark_sent, with the plan confirmed before it.
MarkSent ==
    /\ sess' = [sess EXCEPT ![active].status = "sent", ![active].confirmed = TRUE]
    /\ active' = 0

\* send_draft: the bro becomes busy, mark_sent closes the draft session and
\* the queued task freezes the revision.
Sent(view) ==
    /\ bro' = "busy"
    /\ MarkSent
    /\ tasks' = Append(tasks, [sid |-> active, rev |-> sess[active].rev,
                               draft |-> sess[active].draft, asked |-> view])
    /\ BlackboardWrite
    /\ Publish(Snap(0, "busy"))

ConfirmActive(view) ==
    \/ Sendable(view) /\ Sent(view)
    \/ ~Sendable(view) /\ Refused(view) /\ UNCHANGED <<active, bro, tasks, queue, dirty>>

\* DraftSessionManager.clear.
Cleared ==
    /\ sess' = IF active = 0 THEN sess ELSE [sess EXCEPT ![active].status = "cleared"]
    /\ active' = 0

-----------------------------------------------------------------------------
\* Utterances

NewCall(kind, t, stamp, by, stage, sid, given, rev) ==
    [kind |-> kind, text |-> t, stamp |-> stamp, gen |-> 0, by |-> by, stage |-> stage,
     sid |-> sid, given |-> given, rev |-> rev, label |-> "other"]

\* A handler that has returned, or was cancelled.
Done == [kind |-> "text", text |-> CHOOSE t \in Text : TRUE, stamp |-> 0, gen |-> 0,
         by |-> "http", stage |-> "done", sid |-> 0, given |-> {}, rev |-> 0, label |-> "other"]

\* The socket's receive loop is inside a handler that waits for the rewriter.
SocketBusy(c) == \E k \in Calls : call[k].kind = "append" /\ call[k].by = c

\* append_asr_turn up to the rewriter.
AppendAsrTurn(t, by) ==
    /\ "append" \in Entry /\ Len(call) < MaxCalls
    /\ sess' = WithTarget
    /\ call' = Append(call, NewCall("append", t, 0, by, "rewrite", Target,
                                    Given(WithTarget[Target], t), WithTarget[Target].rev))
    /\ UNCHANGED <<active, gen, partial, published, heard, prompted, said, bro, tasks,
                   inbox, clicks, streamVars>>

HttpSubmitAsrTurn(t) == AppendAsrTurn(t, "http")
HandleSubmitAsrTurn(t, c) ==
    conn[c] = "on" /\ ~SocketBusy(c) /\ inbox[c].act = "none" /\ AppendAsrTurn(t, c)

\* handle_runtime_message for a typed message: classify first.
TextMessage(t) ==
    /\ "text" \in Entry /\ Len(call) < MaxCalls
    /\ call' = Append(call, NewCall("text", t, 0, "http", "classify", 0, {}, 0))
    /\ UNCHANGED <<sess, active, gen, partial, published, heard, prompted, said, bro, tasks,
                   inbox, clicks, streamVars>>

\* _live_classifier_due
LiveClassifierDue(t, stamp) ==
    /\ ~(heard.text = {t} /\ heard.ts # 0)
    /\ heard.ts # 0 /\ stamp # 0 => stamp >= heard.ts + Interval

\* _cancel_live_partial_task
CancelPartial ==
    IF partial # 0 THEN [call EXCEPT ![partial] = Done] ELSE call

\* A partial that is due becomes the live work; the previous one is cancelled.
SttPartial(t, stamp) ==
    /\ "partial" \in Entry /\ Len(call) < MaxCalls
    /\ LiveClassifierDue(t, stamp)
    /\ gen' = gen + 1
    /\ heard' = [text |-> {t}, ts |-> IF stamp # 0 THEN stamp ELSE heard.ts]
    /\ call' = Append(CancelPartial,
                      [NewCall("partial", t, stamp, "http", "classify", 0, {}, 0)
                          EXCEPT !.gen = gen + 1])
    /\ partial' = Len(call) + 1
    /\ UNCHANGED <<sess, active, published, prompted, said, bro, tasks, inbox, clicks,
                   streamVars>>

\* Fault: a correction is prompted for even when its revision was prompted before.
SpeaksAgain(s, sid, label) ==
    /\ Gate(s) = "ask_confirmation"
    /\ prompted[1] # sid \/ label = "draft_correction"

\* _should_speak_for_live_draft_decision, for a final transcript and a plan
\* that asks for confirmation.
Speaks(s, sid, label) ==
    /\ Gate(s) = "ask_confirmation"
    /\ \/ prompted[1] # sid
       \/ label = "draft_correction" /\ prompted[2] # s.rev

Prompt(kind, s, sid, label) ==
    IF kind = "final" /\ Speaks(s, sid, label)
    THEN /\ prompted' = <<sid, s.rev>>
         /\ said' = Append(said, <<sid, s.rev>>)
    ELSE UNCHANGED <<prompted, said>>

\* _reuse_matching_live_draft_for_final: the transcript was the last one
\* published, so the active draft is only checkpointed.
Reuses(t) == published = {t} /\ active # 0 /\ sess[active].draft # {}

SttFinalReused(t, stamp) ==
    /\ "final" \in Entry /\ Reuses(t) /\ Len(call) < MaxCalls /\ Room
    /\ gen' = gen + 1
    /\ sess' = [sess EXCEPT ![active] = Checkpoint(@, stamp)]
    /\ call' = Append(CancelPartial, Done)
    /\ partial' = 0
    /\ Prompt("final", sess[active], active, sess[active].label)
    /\ Publish(Snap(active, bro))
    /\ UNCHANGED <<active, published, heard, bro, tasks, inbox, clicks,
                   conn, greet, shown, pump, leaked, lapsed, dirty>>

SttFinal(t, stamp) ==
    /\ "final" \in Entry /\ ~Reuses(t) /\ Len(call) < MaxCalls
    /\ gen' = gen + 1
    /\ call' = Append(CancelPartial, [NewCall("final", t, stamp, "http", "classify", 0, {}, 0)
                                         EXCEPT !.gen = gen + 1])
    /\ partial' = 0
    /\ UNCHANGED <<sess, active, published, heard, prompted, said, bro, tasks, inbox, clicks,
                   streamVars>>

\* handle_agora_event and the typed transcript messages: every other kind of
\* voice event leaves the draft alone.
VoiceEvent(t, stamp) ==
    SttPartial(t, stamp) \/ SttFinalReused(t, stamp) \/ SttFinal(t, stamp)

-----------------------------------------------------------------------------
\* The classifier answers call k

\* A completion that cannot be parsed reads as uncertain, hence "other".
ClassifierAnswer == Label \cup {"other"}

Stale(k) == call[k].kind \in Live /\ call[k].gen # gen
Finish(k) == call' = [call EXCEPT ![k] = Done]
ReleasePartial(k) == partial' = IF partial = k THEN 0 ELSE partial

\* A partial only drafts, and not the text it drafted last.
NothingToDo(k, label) ==
    \/ Stale(k)
    \/ call[k].kind = "partial" /\ (label \notin Drafting \/ published = {call[k].text})
    \/ label = "other"

Ignored(k, label) ==
    /\ NothingToDo(k, label)
    /\ Finish(k) /\ ReleasePartial(k)
    /\ UNCHANGED <<sess, active, gen, published, heard, prompted, said, bro, tasks, inbox,
                   clicks, streamVars>>

Confirmed(k, label) ==
    /\ ~NothingToDo(k, label) /\ label = "confirmation" /\ Room
    /\ Finish(k) /\ ReleasePartial(k)
    /\ ConfirmActive(NoView)
    /\ UNCHANGED <<gen, published, heard, prompted, said, inbox, clicks,
                   conn, greet, shown, pump, leaked, lapsed>>

\* The clients are not told: only the caller's decision says draft.cleared.
ClearedByVoice(k, label) ==
    /\ ~NothingToDo(k, label) /\ label = "clear_draft"
    /\ Finish(k) /\ ReleasePartial(k)
    /\ Cleared
    /\ UNCHANGED <<gen, published, heard, prompted, said, bro, tasks, inbox, clicks, streamVars>>

\* stop_active_task_decision cancels the newest unfinished task; TaskExecution
\* models the command, and that it does not always free the bro.
StopsTask(k, label) ==
    /\ ~NothingToDo(k, label) /\ label = "task_control" /\ Room
    /\ Finish(k) /\ ReleasePartial(k)
    /\ bro' \in {bro, "idle"}
    /\ BlackboardWrite
    /\ Publish(Snap(active, bro'))
    /\ UNCHANGED <<sess, active, gen, published, heard, prompted, said, tasks, inbox, clicks,
                   conn, greet, shown, pump, leaked, lapsed>>

OldStamp(k) ==
    /\ call[k].kind \in Live /\ ~NeedsSession
    /\ call[k].stamp # 0 /\ sess[active].ts # 0 /\ call[k].stamp < sess[active].ts

\* update_live_draft returns the session as it is when the transcript is older
\* than the one it reflects; the caller publishes it all the same, stages a new
\* unconfirmed plan, and remembers the text as published.
TooOld(k, label) ==
    /\ ~NothingToDo(k, label) /\ label \in Drafting /\ OldStamp(k) /\ Room
    /\ Finish(k) /\ ReleasePartial(k)
    /\ sess' = [sess EXCEPT ![active] = StagedPlan(@)]
    /\ published' = {call[k].text}
    /\ Prompt(call[k].kind, StagedPlan(sess[active]), active, label)
    /\ Publish(Snap(active, bro))
    /\ UNCHANGED <<active, gen, heard, bro, tasks, inbox, clicks, conn, greet, shown, pump, leaked, lapsed,
                   dirty>>

StartsRewrite(k, label) ==
    /\ ~NothingToDo(k, label) /\ label \in Drafting /\ ~OldStamp(k)
    /\ sess' = WithTarget
    /\ call' = [call EXCEPT ![k].stage = "rewrite", ![k].sid = Target, ![k].label = label,
                            ![k].given = Given(WithTarget[Target], call[k].text),
                            ![k].rev = WithTarget[Target].rev]
    /\ UNCHANGED <<active, gen, partial, published, heard, prompted, said, bro, tasks, inbox,
                   clicks, streamVars>>

\* _process_live_transcript_work after the classifier, and the tail of
\* handle_runtime_message for typed messages.
Classified(k, label) ==
    /\ k \in Calls /\ call[k].stage = "classify"
    /\ \/ Ignored(k, label)
       \/ Confirmed(k, label)
       \/ ClearedByVoice(k, label)
       \/ StopsTask(k, label)
       \/ TooOld(k, label)
       \/ StartsRewrite(k, label)

-----------------------------------------------------------------------------
\* The rewriter answers call k

\* The durable turn is recorded only now, when its rewrite succeeded.
Recorded(s, k) ==
    IF call[k].kind \in Live THEN [s EXCEPT !.label = call[k].label]
    ELSE [s EXCEPT !.turns = @ \cup {call[k].text}]

\* History: the session was revised while the rewriter worked.
Overtaken(s, k) ==
    [s EXCEPT !.raced = IF sess[call[k].sid].rev = call[k].rev THEN @ ELSE TRUE]

\* The session object the call has held since it began becomes the active
\* draft, even if it was sent or cleared meanwhile, and is published.
Applied(k) ==
    LET sid == call[k].sid
        now == Overtaken(Revised(Recorded(sess[sid], k), call[k].given, call[k].stamp), k)
    IN /\ call[k].stage = "rewrite" /\ Room
       /\ sess' = [sess EXCEPT ![sid] = now]
       /\ active' = sid
       /\ Prompt(call[k].kind, now, sid, call[k].label)
       /\ Publish(Snap(sid, bro))
       /\ Finish(k) /\ ReleasePartial(k)
       /\ UNCHANGED <<gen, heard, bro, tasks, inbox, clicks, conn, greet, shown, pump, leaked, lapsed,
                      dirty>>

\* append_asr_turn returns to a socket or HTTP handler.
AppendDone(k) == call[k].kind = "append" /\ Applied(k) /\ UNCHANGED published

\* append_asr_turn returns to handle_runtime_message.
TextDone(k) == call[k].kind = "text" /\ Applied(k) /\ UNCHANGED published

\* update_live_draft returns: the text is remembered as published.
LiveDone(k) == call[k].kind \in Live /\ Applied(k) /\ published' = {call[k].text}

Failed(k) ==
    /\ Finish(k) /\ ReleasePartial(k)
    /\ UNCHANGED <<sess, active, gen, published, heard, prompted, said, bro, tasks, inbox,
                   clicks, streamVars>>

\* The classifier or the rewriter raises, is not configured or answers
\* nothing: the caller gets an error and the draft stays as it is.
AppendFails(k) == call[k].kind = "append" /\ Failed(k)
MessageFails(k) == call[k].kind \in {"text", "final"} /\ Failed(k)
PartialFails(k) == call[k].kind = "partial" /\ Failed(k)

-----------------------------------------------------------------------------
\* Clients

\* A click names the draft and the revision the client displays: a send, the
\* confirmation of the displayed plan (a plan belongs to one revision) or a
\* clear; "any" is a send without ids.
Click(c, act, via) ==
    /\ clicks < MaxClicks
    /\ inbox[c].act = "none" /\ conn[c] = "on" /\ shown[c].sid # 0
    /\ clicks' = clicks + 1
    /\ inbox' = [inbox EXCEPT ![c] = [act |-> act, via |-> via,
                                      view |-> IF act = "any" THEN NoView ELSE shown[c]]]
    /\ UNCHANGED <<sess, active, call, gen, partial, published, heard, prompted, said, bro,
                   tasks, streamVars>>

Handling(c, acts, via) ==
    /\ inbox[c].act \in acts /\ inbox[c].via = via
    /\ inbox' = [inbox EXCEPT ![c] = NoAsk]
    /\ Room

SendHandled(c) ==
    /\ ConfirmActive(inbox[c].view)
    /\ UNCHANGED <<call, gen, partial, published, heard, prompted, said, clicks,
                   conn, greet, shown, pump, leaked, lapsed>>

\* _handle_send_draft: a socket's requests wait for the handler before them.
HandleSendDraft(c) ==
    Handling(c, {"send", "any"}, "ws") /\ conn[c] = "on" /\ ~SocketBusy(c) /\ SendHandled(c)

\* The HTTP routes send_draft and confirm_dispatch_plan.
HttpSendDraft(c) == Handling(c, {"send", "any"}, "http") /\ SendHandled(c)

\* A clear that names another draft than the active one is refused.
ClearHandled(c) ==
    /\ \/ active \in {0, inbox[c].view.sid} /\ Cleared /\ Publish(Snap(0, bro))
       \/ active \notin {0, inbox[c].view.sid} /\ UNCHANGED <<sess, active, queue>>
    /\ UNCHANGED <<call, gen, partial, published, heard, prompted, said, bro, tasks, clicks,
                   conn, greet, shown, pump, leaked, lapsed, dirty>>

HandleClearDraft(c) ==
    Handling(c, {"clear"}, "ws") /\ conn[c] = "on" /\ ~SocketBusy(c) /\ ClearHandled(c)
HttpClearDraft(c) == Handling(c, {"clear"}, "http") /\ ClearHandled(c)

\* The execution loop finishes the bro's task (modelled in TaskExecution).
TaskFinishes ==
    /\ bro = "busy"
    /\ bro' = "idle"
    /\ BlackboardWrite
    /\ UNCHANGED <<sess, active, call, gen, partial, published, heard, prompted, said, tasks,
                   inbox, clicks, conn, queue, greet, shown, pump, leaked, lapsed>>

Connect(c) == Subscribe(c, Dump(Snap(active, bro))) /\ UNCHANGED draftVars
Greeting(c) == Greeted(c) /\ UNCHANGED draftVars
Receive(c) == Deliver(c, Dump(Head(queue[c]))) /\ UNCHANGED draftVars
\* The requests a closed socket had not handed over are lost with it.
Disconnect(c) ==
    /\ ~SocketBusy(c)
    /\ \/ Unsubscribe(c) /\ UNCHANGED clicks
       \/ GreetingFails(c) /\ clicks < MaxClicks /\ clicks' = clicks + 1
    /\ inbox' = [inbox EXCEPT ![c] = IF @.via = "ws" THEN NoAsk ELSE @]
    /\ UNCHANGED <<sess, active, call, gen, partial, published, heard, prompted, said, bro,
                   tasks>>
Pump == (PumpEnds \/ SnapshotLoop(Snap(active, bro))) /\ UNCHANGED draftVars

Next ==
    \/ \E t \in Text : \/ HttpSubmitAsrTurn(t)
                       \/ \E c \in Client : HandleSubmitAsrTurn(t, c)
                       \/ TextMessage(t)
    \/ \E t \in Text, stamp \in Stamp : VoiceEvent(t, stamp)
    \/ \E k \in Calls : \/ \E label \in ClassifierAnswer : Classified(k, label)
                        \/ AppendDone(k) \/ TextDone(k) \/ LiveDone(k)
                        \/ AppendFails(k) \/ MessageFails(k) \/ PartialFails(k)
    \/ \E c \in Client : \/ \E act \in {"send", "any", "clear"}, via \in {"ws", "http"} :
                               Click(c, act, via)
                         \/ HandleSendDraft(c) \/ HttpSendDraft(c)
                         \/ HandleClearDraft(c) \/ HttpClearDraft(c)
                         \/ Connect(c) \/ Greeting(c) \/ Receive(c) \/ Disconnect(c)
    \/ TaskFinishes
    \/ Pump

Spec == Init /\ [][Next]_vars

-----------------------------------------------------------------------------
\* Properties

\* A Send or a plan confirmation that names a revision freezes exactly the
\* text its client displayed: a draft revised in the meantime is refused, and
\* never an older or newer text converted into the task (send_draft).
ConfirmedIsSent ==
    \A i \in DOMAIN tasks : tasks[i].asked.sid # 0 =>
        /\ tasks[i].sid = tasks[i].asked.sid
        /\ tasks[i].draft = tasks[i].asked.draft

\* The durable turns listed with a draft are in its text: a turn whose rewrite
\* failed is not listed, and earlier turns survive the next rewrite, unless two
\* rewrites of one session overlapped (append_asr_turn).
TurnsAreInDraft ==
    \A i \in DOMAIN sess : ~sess[i].raced => sess[i].turns \subseteq sess[i].draft

\* A connected client that has drained its queue displays the active draft at
\* its current revision and, once the pump has caught up with the blackboard,
\* whether the bro works: nothing that changed between its initial snapshot and
\* the first event it was sent is missing.  A client that connected before a
\* cancelled pump ended is left without one, and may miss what the bro does.
ShownAtRest ==
    \A c \in Client : conn[c] = "on" /\ queue[c] = <<>> =>
        /\ active # 0 => shown[c] = [Dump(Snap(active, bro)) EXCEPT !.bro = shown[c].bro]
        /\ c \notin lapsed /\ ~dirty => shown[c].bro = bro

\* A final transcript asks for confirmation at most once per revision of a
\* draft (_should_speak_for_live_draft_decision).
PromptedOncePerRevision == Cardinality({said[i] : i \in DOMAIN said}) = Len(said)

=============================================================================
