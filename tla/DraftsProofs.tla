---------------------------- MODULE DraftsProofs ----------------------------
(***************************************************************************)
(* Proofs about Drafts, for any texts, clients and bounds: what is sent is *)
(* what its client saw, durable turns stay in the draft, a client that has *)
(* drained its queue shows the active draft, and a revision is prompted    *)
(* for once.                                                               *)
(***************************************************************************)
EXTENDS Drafts, FiniteSetTheorems, TLAPS

-----------------------------------------------------------------------------
(* Types *)

Bros == {"idle", "busy"}
Session ==
  [status : {"empty", "ready", "sent", "cleared"}, turns : SUBSET Text, draft : SUBSET Text,
   rev : Nat, ts : Nat, label : Labels, confirmed : BOOLEAN, raced : BOOLEAN]
Handler ==
  [kind : Live \cup {"append", "text"}, text : Text, stamp : Nat, gen : Nat,
   by : Client \cup {"http"}, stage : {"classify", "rewrite", "done"}, sid : Nat,
   given : SUBSET Text, rev : Nat, label : Labels]
View == [sid : Nat, rev : Nat, draft : SUBSET Text, bro : Bros]
Ref == [sid : Nat, bro : Bros]
Ask == [act : {"none", "send", "any", "clear"}, view : View, via : {"ws", "http"}]
SentTask == [sid : Nat, rev : Nat, draft : SUBSET Text, asked : View]

SessType == sess \in Seq(Session) /\ active \in 0..Len(sess)
CallType == call \in Seq(Handler) /\ partial \in 0..Len(call) /\ gen \in Nat /\ published \in SUBSET Text
StreamType ==
  /\ conn \in [Client -> {"off", "greeting", "on"}] /\ queue \in [Client -> Seq(Ref)]
  /\ greet \in [Client -> View] /\ shown \in [Client -> View]
  /\ pump \in {"off", "on", "cancelled"} /\ dirty \in BOOLEAN /\ bro \in Bros
ClickType == inbox \in [Client -> Ask] /\ tasks \in Seq(SentTask)
SaidType == said \in Seq(Nat \X Nat) /\ prompted \in Nat \X Nat

Types == SessType /\ CallType /\ StreamType /\ ClickType /\ SaidType

-----------------------------------------------------------------------------
(* The invariant *)

\* A view that names the present revision of a draft shows its text.
Known(v, s) ==
  v.sid # 0 =>
    /\ v.sid \in 1..Len(s) /\ v.rev <= s[v.sid].rev
    /\ v.rev = s[v.sid].rev => v.draft = s[v.sid].draft

ViewsInv ==
  /\ \A c \in Client : Known(shown[c], sess) /\ Known(greet[c], sess) /\ Known(inbox[c].view, sess)
  /\ \A c \in Client : \A i \in 1..Len(queue[c]) : queue[c][i].sid \in 0..Len(sess)

\* A rewrite that nobody overtook was given all that its draft holds.
Fresh(h, s) ==
  /\ h.sid \in 0..Len(s)
  /\ h.stage = "rewrite" =>
       /\ h.sid # 0 /\ h.rev <= s[h.sid].rev /\ h.text \in h.given
       /\ h.rev = s[h.sid].rev => s[h.sid].draft \cup s[h.sid].turns \subseteq h.given

CallsInv == \A k \in 1..Len(call) : Fresh(call[k], sess)

\* What was said before was about revisions that have been, and the last of
\* them if the active one is among them.
SaidSet == {said[i] : i \in DOMAIN said}
SaidInv ==
  /\ \A x \in SaidSet : x[1] \in 1..Len(sess) /\ x[2] <= sess[x[1]].rev
  /\ active # 0 /\ <<active, sess[active].rev>> \in SaidSet => prompted = <<active, sess[active].rev>>
  /\ IsFiniteSet(SaidSet) /\ Cardinality(SaidSet) = Len(said)

\* Once it has drained its queue, a client shows what the last event refers to;
\* v is what it shows, or is about to, without its queue.
UpToDate(c, v) ==
  /\ queue[c] = <<>> =>
       /\ active # 0 => v.sid = active /\ v.rev = sess[active].rev /\ v.draft = sess[active].draft
       /\ c \notin lapsed /\ ~dirty => v.bro = bro
  /\ queue[c] # <<>> =>
       /\ active # 0 => queue[c][Len(queue[c])].sid = active
       /\ c \notin lapsed /\ ~dirty => queue[c][Len(queue[c])].bro = bro
StreamInv ==
  /\ pump = "off" => Subscribers \subseteq lapsed
  /\ \A c \in Client : /\ conn[c] = "on" => UpToDate(c, shown[c])
                       /\ conn[c] = "greeting" => UpToDate(c, greet[c])

IInv == Types /\ ViewsInv /\ CallsInv /\ ConfirmedIsSent /\ TurnsAreInDraft /\ SaidInv /\ StreamInv

LEMMA IInvInit == Init => IInv
<1> SUFFICES ASSUME Init PROVE IInv
  OBVIOUS
<1> USE DEF Init, StreamInit
<1>1. NoView \in View /\ NoAsk \in Ask
  BY DEF NoView, View, NoAsk, Ask, Bros
<1>2. SessType /\ CallType
  BY DEF SessType, CallType
<1>3. StreamType
  <2>1. queue \in [Client -> Seq(Ref)]
    OBVIOUS
  <2>2. greet \in [Client -> View] /\ shown \in [Client -> View]
    BY <1>1
  <2>3. conn \in [Client -> {"off", "greeting", "on"}]
    OBVIOUS
  <2> QED BY <2>1, <2>2, <2>3 DEF StreamType, Bros
<1>4. ClickType
  BY <1>1 DEF ClickType
<1>5. SaidType
  BY DEF SaidType
<1>6. ViewsInv
  BY DEF ViewsInv, Known, NoView, NoAsk
<1>7. CallsInv /\ ConfirmedIsSent /\ TurnsAreInDraft
  BY DEF CallsInv, ConfirmedIsSent, TurnsAreInDraft
<1>8. SaidInv
  <2>1. SaidSet = {} /\ Len(said) = 0
    BY DEF SaidSet
  <2> QED BY <2>1, FS_EmptySet DEF SaidInv
<1>9. StreamInv
  BY DEF StreamInv, Subscribers
<1> QED BY <1>2, <1>3, <1>4, <1>5, <1>6, <1>7, <1>8, <1>9 DEF IInv, Types

-----------------------------------------------------------------------------
(* The steps, without what they leave to the variables of others *)

LEMMA NextCases ==
  ASSUME Next
  PROVE  \/ \E t \in Text, by \in Client \cup {"http"} : AppendAsrTurn(t, by)
         \/ \E t \in Text : TextMessage(t)
         \/ \E t \in Text, stamp \in Stamp : SttPartial(t, stamp) \/ SttFinalReused(t, stamp) \/ SttFinal(t, stamp)
         \/ \E k \in Calls, label \in Labels :
              \/ Ignored(k, label) \/ Confirmed(k, label) \/ ClearedByVoice(k, label)
              \/ StopsTask(k, label) \/ TooOld(k, label) \/ StartsRewrite(k, label)
         \/ \E k \in Calls : Applied(k) /\ (published' = published \/ published' = {call[k].text})
         \/ \E k \in Calls : Failed(k)
         \/ \E c \in Client : \/ \E act \in {"send", "any", "clear"}, via \in {"ws", "http"} : Click(c, act, via)
                              \/ /\ inbox' = [inbox EXCEPT ![c] = NoAsk]
                                 /\ SendHandled(c) \/ ClearHandled(c)
                              \/ Connect(c) \/ Greeting(c) \/ Receive(c) \/ Disconnect(c)
         \/ TaskFinishes \/ Pump
<1>1. ClassifierAnswer \subseteq Labels
  BY DraftsAssumption DEF DraftsAssumption, ClassifierAnswer, Labels, Drafting
<1>2. ASSUME NEW t \in Text, HttpSubmitAsrTurn(t) \/ \E c \in Client : HandleSubmitAsrTurn(t, c)
      PROVE  \E by \in Client \cup {"http"} : AppendAsrTurn(t, by)
  BY <1>2 DEF HttpSubmitAsrTurn, HandleSubmitAsrTurn
<1>3. ASSUME NEW k \in Calls, AppendDone(k) \/ TextDone(k) \/ LiveDone(k)
      PROVE  Applied(k) /\ (published' = published \/ published' = {call[k].text})
  BY <1>3 DEF AppendDone, TextDone, LiveDone
<1>4. ASSUME NEW k \in Calls, AppendFails(k) \/ MessageFails(k) \/ PartialFails(k) PROVE Failed(k)
  BY <1>4 DEF AppendFails, MessageFails, PartialFails
<1>5. ASSUME NEW c \in Client,
             HandleSendDraft(c) \/ HttpSendDraft(c) \/ HandleClearDraft(c) \/ HttpClearDraft(c)
      PROVE  inbox' = [inbox EXCEPT ![c] = NoAsk] /\ (SendHandled(c) \/ ClearHandled(c))
  BY <1>5, Zenon DEF HandleSendDraft, HttpSendDraft, HandleClearDraft, HttpClearDraft, Handling
<1> QED BY <1>1, <1>2, <1>3, <1>4, <1>5 DEF Next, VoiceEvent, Classified

-----------------------------------------------------------------------------
(* Draft sessions *)

\* Every session keeps its revision and text, new ones are empty.
Keeps ==
  /\ Len(sess) <= Len(sess')
  /\ \A i \in 1..Len(sess) : /\ sess'[i].rev = sess[i].rev /\ sess'[i].draft = sess[i].draft
                             /\ sess'[i].turns = sess[i].turns /\ sess'[i].raced = sess[i].raced
  /\ \A i \in 1..Len(sess') : i > Len(sess) => sess'[i] = FreshSession

LEMMA SessFacts == ASSUME SessType PROVE \A i \in 1..Len(sess) : sess[i] \in Session
BY DEF SessType

LEMMA KeepsSame == ASSUME SessType, sess' = sess PROVE Keeps
BY DEF SessType, Keeps

LEMMA KeepsOne ==
  ASSUME SessType, NEW i \in 1..Len(sess), NEW x \in Session, sess' = [sess EXCEPT ![i] = x],
         x.rev = sess[i].rev, x.draft = sess[i].draft, x.turns = sess[i].turns, x.raced = sess[i].raced
  PROVE  sess' \in Seq(Session) /\ Len(sess') = Len(sess) /\ Keeps
<1>1. sess \in Seq(Session)
  BY DEF SessType
<1>2. sess' \in Seq(Session) /\ Len(sess') = Len(sess)
  BY <1>1
<1>3. \A j \in 1..Len(sess) : sess'[j] = IF j = i THEN x ELSE sess[j]
  BY <1>1
<1> QED BY <1>1, <1>2, <1>3 DEF Keeps

\* The session an utterance is for.
LEMMA KeepsTarget ==
  ASSUME SessType, sess' = WithTarget
  PROVE  /\ sess' \in Seq(Session) /\ Keeps /\ Target \in 1..Len(sess')
         /\ WithTarget[Target] \in Session
<1>1. sess \in Seq(Session) /\ active \in 0..Len(sess)
  BY DEF SessType
<1>2. FreshSession \in Session
  BY DEF FreshSession, Session, Labels
<1>3. CASE NeedsSession
  <2>1. sess' = Append(sess, FreshSession) /\ Target = Len(sess) + 1 /\ WithTarget = Append(sess, FreshSession)
    BY <1>3 DEF WithTarget, Target
  <2>2. sess' \in Seq(Session) /\ Len(sess') = Len(sess) + 1 /\ Len(sess) \in Nat
    BY <1>1, <1>2, <2>1
  <2>3. sess'[Len(sess) + 1] = FreshSession /\ \A i \in 1..Len(sess) : sess'[i] = sess[i]
    BY <1>1, <1>2, <2>1
  <2>4. Keeps
    BY <2>2, <2>3 DEF Keeps
  <2> QED BY <1>2, <2>1, <2>2, <2>3, <2>4
<1>4. CASE ~NeedsSession
  <2>1. sess' = sess /\ Target = active /\ WithTarget = sess /\ active # 0
    BY <1>4 DEF WithTarget, Target, NeedsSession
  <2>2. active \in 1..Len(sess)
    BY <1>1, <2>1
  <2> QED BY <1>1, <2>1, <2>2, KeepsSame
<1> QED BY <1>3, <1>4

\* What a step other than the end of a rewrite does to the sessions.
Calm == sess' \in Seq(Session) /\ Keeps /\ active' \in {0, active}

LEMMA CalmSame == ASSUME SessType, UNCHANGED <<sess, active>> PROVE Calm
BY KeepsSame DEF Calm, SessType

\* A confirmation marks the plan, and sends it at most.
LEMMA CalmConfirm ==
  ASSUME SessType, NEW view, ConfirmActive(view)
  PROVE  Calm
<1>1. active \in 0..Len(sess) /\ \A i \in 1..Len(sess) : sess[i] \in Session
  BY SessFacts DEF SessType
<1>2. CASE UNCHANGED <<sess, active>>
  BY <1>2, CalmSame
<1>3. ASSUME active # 0, active' \in {0, active},
             sess' = [sess EXCEPT ![active].confirmed = TRUE]
      PROVE  Calm
  <2>1. active \in 1..Len(sess)
    BY <1>1, <1>3
  <2> DEFINE x == [sess[active] EXCEPT !.confirmed = TRUE]
  <2>2. x \in Session /\ x.rev = sess[active].rev /\ x.draft = sess[active].draft
        /\ x.turns = sess[active].turns /\ x.raced = sess[active].raced
    BY <1>1, <2>1 DEF Session
  <2>3. sess' = [sess EXCEPT ![active] = x]
    BY <1>3
  <2> HIDE DEF x
  <2> QED BY <1>3, <2>1, <2>2, <2>3, KeepsOne DEF Calm
<1>4. ASSUME active # 0, active' = 0,
             sess' = [sess EXCEPT ![active].status = "sent", ![active].confirmed = TRUE]
      PROVE  Calm
  <2>1. active \in 1..Len(sess)
    BY <1>1, <1>4
  <2> DEFINE x == [sess[active] EXCEPT !.status = "sent", !.confirmed = TRUE]
  <2>2. x \in Session /\ x.rev = sess[active].rev /\ x.draft = sess[active].draft
        /\ x.turns = sess[active].turns /\ x.raced = sess[active].raced
    BY <1>1, <2>1 DEF Session
  <2>3. sess' = [sess EXCEPT ![active] = x]
    BY <1>1, <1>4, <2>1 DEF SessType
  <2> HIDE DEF x
  <2> QED BY <1>4, <2>1, <2>2, <2>3, KeepsOne DEF Calm
<1>5. CASE Sendable(view) /\ Sent(view)
  BY <1>4, <1>5 DEF Sendable, Sent, MarkSent
<1>6. CASE Refused(view) /\ UNCHANGED active
  BY <1>2, <1>3, <1>6 DEF Refused
<1> QED BY <1>5, <1>6 DEF ConfirmActive

LEMMA CalmCleared ==
  ASSUME SessType, Cleared
  PROVE  Calm /\ active' = 0
<1>1. active \in 0..Len(sess) /\ \A i \in 1..Len(sess) : sess[i] \in Session
  BY SessFacts DEF SessType
<1>2. CASE active = 0
  BY <1>2, CalmSame DEF Cleared
<1>3. CASE active # 0
  <2>1. active \in 1..Len(sess)
    BY <1>1, <1>3
  <2> DEFINE x == [sess[active] EXCEPT !.status = "cleared"]
  <2>2. x \in Session /\ x.rev = sess[active].rev /\ x.draft = sess[active].draft
        /\ x.turns = sess[active].turns /\ x.raced = sess[active].raced
    BY <1>1, <2>1 DEF Session
  <2>3. sess' = [sess EXCEPT ![active] = x] /\ active' = 0
    BY <1>3 DEF Cleared
  <2> HIDE DEF x
  <2> QED BY <2>1, <2>2, <2>3, KeepsOne DEF Calm
<1> QED BY <1>2, <1>3

LEMMA CalmStep ==
  ASSUME SessType, CallType, Next
  PROVE  Calm \/ \E k \in Calls : Applied(k) /\ (published' = published \/ published' = {call[k].text})
<1>1. active \in 0..Len(sess) /\ \A i \in 1..Len(sess) : sess[i] \in Session
  BY SessFacts DEF SessType
<1>2. ASSUME sess' = WithTarget, active' = active PROVE Calm
  BY <1>2, KeepsTarget DEF Calm
<1>3. ASSUME NEW t \in Text, NEW stamp \in Stamp, SttFinalReused(t, stamp) PROVE Calm
  <2>1. active \in 1..Len(sess) /\ active' = active
    BY <1>1, <1>3 DEF SttFinalReused, Reuses
  <2> DEFINE x == Checkpoint(sess[active], stamp)
  <2>2. x \in Session /\ x.rev = sess[active].rev /\ x.draft = sess[active].draft
        /\ x.turns = sess[active].turns /\ x.raced = sess[active].raced
    BY <1>1, <2>1, DraftsAssumption DEF Session, Checkpoint, DraftsAssumption
  <2>3. sess' = [sess EXCEPT ![active] = x]
    BY <1>3 DEF SttFinalReused
  <2> HIDE DEF x
  <2> QED BY <2>1, <2>2, <2>3, KeepsOne DEF Calm
<1>4. ASSUME NEW k \in Calls, NEW label \in Labels, TooOld(k, label) PROVE Calm
  <2>1. active \in 1..Len(sess) /\ active' = active
    BY <1>1, <1>4 DEF TooOld, OldStamp, NeedsSession
  <2> DEFINE x == StagedPlan(sess[active])
  <2>2. x \in Session /\ x.rev = sess[active].rev /\ x.draft = sess[active].draft
        /\ x.turns = sess[active].turns /\ x.raced = sess[active].raced
    BY <1>1, <2>1 DEF Session, StagedPlan
  <2>3. sess' = [sess EXCEPT ![active] = x]
    BY <1>4 DEF TooOld
  <2> HIDE DEF x
  <2> QED BY <2>1, <2>2, <2>3, KeepsOne DEF Calm
<1>5. ASSUME NEW k \in Calls, NEW label \in Labels,
             \/ Ignored(k, label) \/ Confirmed(k, label) \/ ClearedByVoice(k, label)
             \/ StopsTask(k, label) \/ TooOld(k, label) \/ StartsRewrite(k, label)
      PROVE  Calm
  <2>1. CASE Ignored(k, label) \/ StopsTask(k, label)
    BY <2>1, CalmSame DEF Ignored, StopsTask
  <2>2. CASE Confirmed(k, label)
    BY <2>2, CalmConfirm DEF Confirmed
  <2>3. CASE ClearedByVoice(k, label)
    BY <2>3, CalmCleared DEF ClearedByVoice
  <2>4. CASE StartsRewrite(k, label)
    BY <1>2, <2>4 DEF StartsRewrite
  <2> QED BY <1>4, <1>5, <2>1, <2>2, <2>3, <2>4
<1>6. ASSUME NEW t \in Text, NEW by, AppendAsrTurn(t, by) PROVE Calm
  BY <1>2, <1>6 DEF AppendAsrTurn
<1>7. ASSUME \/ \E t \in Text : TextMessage(t)
             \/ \E t \in Text, stamp \in Stamp : SttPartial(t, stamp) \/ SttFinal(t, stamp)
             \/ \E k \in Calls : Failed(k)
             \/ TaskFinishes
      PROVE  Calm
  BY <1>7, CalmSame DEF TextMessage, SttPartial, SttFinal, Failed, TaskFinishes
<1>8. ASSUME NEW c \in Client, SendHandled(c) \/ ClearHandled(c) PROVE Calm
  BY <1>8, CalmSame, CalmConfirm, CalmCleared DEF SendHandled, ClearHandled
<1>9. ASSUME NEW c \in Client,
             \/ \E act \in {"send", "any", "clear"}, via \in {"ws", "http"} : Click(c, act, via)
             \/ Connect(c) \/ Greeting(c) \/ Receive(c) \/ Disconnect(c)
      PROVE  Calm
  <2>1. UNCHANGED <<sess, active>>
    BY <1>9, Zenon DEF Click, Connect, Greeting, Receive, Disconnect, draftVars
  <2> QED BY <2>1, CalmSame
<1>10. CASE Pump
  BY <1>10, CalmSame DEF Pump, draftVars
<1> QED BY <1>3, <1>5, <1>6, <1>7, <1>8, <1>9, <1>10, NextCases

\* What a rewrite makes of its session.
LEMMA RevisedFacts ==
  ASSUME NEW y \in Session, NEW g \in SUBSET Text, NEW stamp \in Nat
  PROVE  LET z == Revised(y, g, stamp) IN
         z \in Session /\ z.rev = y.rev + 1 /\ z.draft = g /\ z.turns = y.turns /\ z.raced = y.raced
<1> DEFINE p == StagedPlan(y)
           stamped == IF stamp # 0 THEN stamp ELSE p.ts
           z == Revised(y, g, stamp)
<1>1. p \in Session /\ p.rev = y.rev /\ p.turns = y.turns /\ p.raced = y.raced
  BY DEF StagedPlan, Session
<1>2. z = [p EXCEPT !.status = "ready", !.draft = g, !.rev = @ + 1,
                    !.ts = IF stamp # 0 THEN stamp ELSE @]
  BY Zenon DEF Revised
<1> HIDE DEF p, z
<1>3. z = [p EXCEPT !.status = "ready", !.draft = g, !.rev = p.rev + 1, !.ts = stamped]
  BY <1>1, <1>2 DEF Session
<1>4. stamped \in Nat /\ p.rev + 1 \in Nat
  BY <1>1 DEF Session
<1> DEFINE bumped == p.rev + 1
<1> HIDE DEF stamped, bumped
<1>5. z = [p EXCEPT !.status = "ready", !.draft = g, !.rev = bumped, !.ts = stamped]
  BY <1>3 DEF bumped
<1>6. bumped \in Nat /\ stamped \in Nat
  BY <1>4 DEF bumped
<1>7. z \in Session /\ z.rev = bumped /\ z.draft = g /\ z.turns = p.turns /\ z.raced = p.raced
  BY <1>1, <1>5, <1>6 DEF Session
<1> QED BY <1>1, <1>7 DEF z, bumped

LEMMA OvertakenFacts ==
  ASSUME NEW z \in Session, NEW k
  PROVE  LET x == Overtaken(z, k) IN
         /\ x \in Session /\ x.rev = z.rev /\ x.draft = z.draft /\ x.turns = z.turns
         /\ ~x.raced => ~z.raced /\ sess[call[k].sid].rev = call[k].rev
BY DEF Overtaken, Session

\* A rewrite ends: its session gets the text the rewriter was given, and is active.
LEMMA AppliedSess ==
  ASSUME SessType, CallType, CallsInv, NEW k \in Calls, Applied(k)
  PROVE  LET h == call[k] IN
         /\ h \in Handler /\ h.stage = "rewrite" /\ h.sid \in 1..Len(sess) /\ active' = h.sid
         /\ Fresh(h, sess) /\ sess' \in Seq(Session) /\ Len(sess') = Len(sess)
         /\ \A i \in 1..Len(sess) : i # h.sid => sess'[i] = sess[i]
         /\ sess'[h.sid].rev = sess[h.sid].rev + 1 /\ sess'[h.sid].draft = h.given
         /\ sess'[h.sid].turns \subseteq sess[h.sid].turns \cup {h.text}
         /\ ~sess'[h.sid].raced => ~sess[h.sid].raced /\ sess[h.sid].rev = h.rev
         /\ Publish(Snap(h.sid, bro)) /\ Prompt(h.kind, sess'[h.sid], h.sid, h.label)
<1>1. k \in 1..Len(call) /\ call[k] \in Handler
  BY DEF Calls, CallType
<1>2. call[k].stage = "rewrite"
  BY DEF Applied
<1>3. Fresh(call[k], sess) /\ call[k].sid \in 1..Len(sess)
  BY <1>1, <1>2 DEF CallsInv, Fresh
<1> DEFINE sid == call[k].sid
           h == call[k]
           y == Recorded(sess[sid], k)
           z == Revised(y, h.given, h.stamp)
           x == Overtaken(z, k)
<1>4. sess[sid] \in Session
  BY <1>3, SessFacts
<1>5. /\ y \in Session /\ y.rev = sess[sid].rev /\ y.raced = sess[sid].raced
      /\ y.turns \subseteq sess[sid].turns \cup {h.text}
  BY <1>1, <1>4 DEF Recorded, Session, Handler
<1>6. h.given \in SUBSET Text /\ h.stamp \in Nat
  BY <1>1 DEF Handler
<1>7. z \in Session /\ z.rev = y.rev + 1 /\ z.draft = h.given /\ z.turns = y.turns /\ z.raced = y.raced
  BY <1>5, <1>6, RevisedFacts
<1>8. /\ x \in Session /\ x.rev = sess[sid].rev + 1 /\ x.draft = h.given
      /\ x.turns \subseteq sess[sid].turns \cup {h.text}
      /\ ~x.raced => ~sess[sid].raced /\ sess[sid].rev = h.rev
  <2> HIDE DEF z
  <2>1. /\ x \in Session /\ x.rev = z.rev /\ x.draft = z.draft /\ x.turns = z.turns
        /\ ~x.raced => ~z.raced /\ sess[call[k].sid].rev = call[k].rev
    BY <1>7, OvertakenFacts
  <2> HIDE DEF x, y
  <2> QED BY <1>5, <1>7, <2>1
<1>9. /\ sess' = [sess EXCEPT ![sid] = x] /\ active' = sid
      /\ Publish(Snap(sid, bro)) /\ Prompt(call[k].kind, x, sid, call[k].label)
  BY DEF Applied
<1> HIDE DEF x, sid
<1>10. sess' \in Seq(Session) /\ Len(sess') = Len(sess) /\ sess'[sid] = x
       /\ \A i \in 1..Len(sess) : i # sid => sess'[i] = sess[i]
  BY <1>3, <1>8, <1>9 DEF SessType, sid
<1> QED BY <1>1, <1>2, <1>3, <1>8, <1>9, <1>10 DEF sid

\* Texts change with their revisions only.
Grows ==
  /\ Len(sess) <= Len(sess')
  /\ \A i \in 1..Len(sess) :
       /\ sess[i] \in Session /\ sess'[i] \in Session /\ sess[i].rev <= sess'[i].rev
       /\ sess'[i].rev = sess[i].rev => sess'[i].draft = sess[i].draft /\ sess'[i].turns = sess[i].turns

LEMMA SessStep ==
  ASSUME SessType, CallType, CallsInv, Next
  PROVE  SessType' /\ Grows
<1>0. sess \in Seq(Session) /\ active \in 0..Len(sess) /\ \A i \in 1..Len(sess) : sess[i] \in Session
  BY SessFacts DEF SessType
<1>1. CASE Calm
  <2>1. sess' \in Seq(Session) /\ Len(sess) <= Len(sess') /\ active' \in {0, active}
    BY <1>1 DEF Calm, Keeps
  <2>2. SessType'
    BY <1>0, <2>1 DEF SessType
  <2>3. \A i \in 1..Len(sess) : i \in 1..Len(sess') /\ sess'[i] \in Session
    BY <1>0, <2>1
  <2>4. \A i \in 1..Len(sess) : sess[i].rev \in Nat
    BY <1>0 DEF Session
  <2> QED BY <1>0, <1>1, <2>1, <2>2, <2>3, <2>4 DEF Calm, Keeps, Grows
<1>2. ASSUME NEW k \in Calls, Applied(k) PROVE SessType' /\ Grows
  <2> DEFINE sid == call[k].sid
  <2>1. /\ sid \in 1..Len(sess) /\ active' = sid /\ sess' \in Seq(Session) /\ Len(sess') = Len(sess)
        /\ \A i \in 1..Len(sess) : i # sid => sess'[i] = sess[i]
        /\ sess'[sid].rev = sess[sid].rev + 1
    BY <1>2, AppliedSess
  <2> HIDE DEF sid
  <2>2. SessType'
    BY <2>1 DEF SessType
  <2>3. \A i \in 1..Len(sess) : sess'[i] \in Session
    BY <2>1
  <2>4. \A i \in 1..Len(sess) : sess[i].rev \in Nat
    BY <1>0 DEF Session
  <2> QED BY <1>0, <2>1, <2>2, <2>3, <2>4 DEF Grows
<1> QED BY <1>1, <1>2, CalmStep

LEMMA StillKnown ==
  ASSUME SessType, Grows
  PROVE  \A v \in View : Known(v, sess) => Known(v, sess')
<1>1. Len(sess) \in Nat
  BY DEF SessType
<1>2. \A i \in 1..Len(sess) : sess[i].rev \in Nat /\ sess'[i].rev \in Nat
  BY DEF Grows, Session
<1> QED BY <1>1, <1>2 DEF Known, Grows, View

LEMMA StillFresh ==
  ASSUME SessType, Grows
  PROVE  \A h \in Handler : Fresh(h, sess) => Fresh(h, sess')
<1>1. Len(sess) \in Nat
  BY DEF SessType
<1>2. \A i \in 1..Len(sess) : sess[i].rev \in Nat /\ sess'[i].rev \in Nat
  BY DEF Grows, Session
<1> QED BY <1>1, <1>2, SMTT(30) DEF Fresh, Grows, Handler

-----------------------------------------------------------------------------
(* Utterance handlers *)

LEMMA CallFacts ==
  ASSUME CallType, NEW k \in Calls
  PROVE  k \in 1..Len(call) /\ call[k] \in Handler /\ call[k].text \in Text
<1>1. k \in 1..Len(call) /\ call[k] \in Handler
  BY DEF Calls, CallType
<1> QED BY <1>1 DEF Handler

Good(cs, s) == cs \in Seq(Handler) /\ \A k \in 1..Len(cs) : Fresh(cs[k], s)

LEMMA GoodAppend ==
  ASSUME NEW s, NEW cs, Good(cs, s), NEW h \in Handler, Fresh(h, s)
  PROVE  Good(Append(cs, h), s) /\ Len(Append(cs, h)) = Len(cs) + 1 /\ Len(cs) \in Nat
BY DEF Good

\* A handler that has not begun a rewrite has nothing to be fresh about.
LEMMA DoneFacts ==
  ASSUME NEW t \in Text, NEW s, Len(s) \in Nat
  PROVE  Done \in Handler /\ Fresh(Done, s)
<1>1. (CHOOSE u \in Text : TRUE) \in Text
  OBVIOUS
<1> QED BY <1>1 DEF Done, Handler, Fresh, Labels

LEMMA NewFacts ==
  ASSUME NEW t \in Text, NEW kind \in Live \cup {"text"}, NEW stamp \in Nat, NEW g \in Nat,
         NEW s, Len(s) \in Nat
  PROVE  LET h == NewCall(kind, t, stamp, "http", "classify", 0, {}, 0) IN
         /\ h \in Handler /\ Fresh(h, s)
         /\ [h EXCEPT !.gen = g] \in Handler /\ Fresh([h EXCEPT !.gen = g], s)
<1> DEFINE h == NewCall(kind, t, stamp, "http", "classify", 0, {}, 0)
<1>1. h \in Handler /\ h.sid = 0 /\ h.stage = "classify"
  BY DEF NewCall, Handler, Labels
<1> HIDE DEF h
<1>2. [h EXCEPT !.gen = g] \in Handler /\ [h EXCEPT !.gen = g].sid = 0 /\ [h EXCEPT !.gen = g].stage = "classify"
  BY <1>1 DEF Handler
<1>3. Fresh(h, s) /\ Fresh([h EXCEPT !.gen = g], s)
  BY <1>1, <1>2 DEF Fresh
<1> QED BY <1>1, <1>2, <1>3 DEF h

\* The handlers of before stand whatever becomes of the sessions.
LEMMA GoodStays ==
  ASSUME SessType, Grows, CallType, CallsInv
  PROVE  Good(call, sess) /\ Good(call, sess') /\ Len(sess') \in Nat
<1>1. \A k \in 1..Len(call) : call[k] \in Handler /\ Fresh(call[k], sess)
  BY DEF CallType, CallsInv
<1>2. Len(sess') \in Nat
  BY DEF SessType, Grows
<1> QED BY <1>1, <1>2, StillFresh DEF Good, CallType

LEMMA CancelPartialGood ==
  ASSUME SessType, SessType', Grows, CallType, CallsInv, NEW t \in Text
  PROVE  Good(CancelPartial, sess') /\ Len(CancelPartial) = Len(call)
<1>1. Good(call, sess') /\ Len(sess') \in Nat
  BY GoodStays DEF SessType
<1>2. Done \in Handler /\ Fresh(Done, sess')
  BY <1>1, DoneFacts
<1>3. CASE partial = 0
  BY <1>1, <1>3 DEF CancelPartial
<1>4. CASE partial # 0
  <2> DEFINE cs == [call EXCEPT ![partial] = Done]
  <2>1. partial \in 1..Len(call) /\ CancelPartial = cs
    BY <1>4 DEF CallType, CancelPartial
  <2>2. Good(cs, sess') /\ Len(cs) = Len(call)
    BY <1>1, <1>2, <2>1 DEF Good, CallType
  <2> HIDE DEF cs
  <2> QED BY <2>1, <2>2
<1> QED BY <1>3, <1>4

\* What a rewriter is given holds its draft as it is when it begins.
LEMMA RewriteFacts ==
  ASSUME SessType, sess' = WithTarget, NEW t \in Text, NEW h \in Handler, h.sid = Target, h.text = t,
         h.given = Given(WithTarget[Target], t), h.rev = WithTarget[Target].rev
  PROVE  Fresh(h, sess')
<1>1. Target \in 1..Len(sess') /\ sess'[Target] = WithTarget[Target] /\ sess'[Target] \in Session
  BY KeepsTarget
<1>2. sess'[Target].rev \in Nat /\ Len(sess') \in Nat
  BY <1>1, KeepsTarget DEF Session
<1> QED BY <1>1, <1>2 DEF Fresh, Given

LEMMA GoodCall ==
  ASSUME SessType, Grows, CallType, CallsInv, NEW k \in Calls, NEW h \in Handler, Fresh(h, sess'),
         call' = [call EXCEPT ![k] = h]
  PROVE  Good(call', sess') /\ Len(call') = Len(call)
<1>1. Good(call, sess') /\ k \in 1..Len(call)
  BY GoodStays DEF Calls, CallType
<1> QED BY <1>1 DEF Good, CallType

LEMMA FinishGood ==
  ASSUME SessType, Grows, CallType, CallsInv, NEW k \in Calls, Finish(k)
  PROVE  Good(call', sess') /\ Len(call') = Len(call)
<1>1. call[k].text \in Text /\ Len(sess') \in Nat
  BY GoodStays, CallFacts
<1>2. Done \in Handler /\ Fresh(Done, sess')
  BY <1>1, DoneFacts
<1> QED BY <1>2, GoodCall DEF Finish

LEMMA CallsStep ==
  ASSUME SessType, CallType, CallsInv, Next
  PROVE  CallType' /\ CallsInv'
<1>1. SessType' /\ Grows
  BY SessStep
<1>2. Good(call, sess) /\ Good(call, sess') /\ Len(sess') \in Nat
  BY <1>1, GoodStays
<1>3. call \in Seq(Handler) /\ partial \in 0..Len(call) /\ gen \in Nat /\ published \in SUBSET Text
  BY DEF CallType
<1>4. ASSUME Good(call', sess'), partial' \in 0..Len(call'), gen' \in Nat, published' \in SUBSET Text
      PROVE  CallType' /\ CallsInv'
  BY <1>4 DEF Good, CallType, CallsInv
<1>5. ASSUME UNCHANGED <<call, partial, gen, published>> PROVE CallType' /\ CallsInv'
  BY <1>2, <1>3, <1>4, <1>5
<1>6. ASSUME NEW k \in Calls, Finish(k), ReleasePartial(k), gen' = gen,
             published' = published \/ published' = {call[k].text}
      PROVE  CallType' /\ CallsInv'
  <2>1. Good(call', sess') /\ Len(call') = Len(call)
    BY <1>1, <1>6, FinishGood
  <2>2. partial' \in 0..Len(call')
    BY <1>3, <1>6, <2>1 DEF ReleasePartial
  <2>3. call[k].text \in Text
    BY CallFacts
  <2> QED BY <1>3, <1>4, <1>6, <2>1, <2>2, <2>3
<1>7. ASSUME NEW t \in Text, NEW by \in Client \cup {"http"}, AppendAsrTurn(t, by)
      PROVE  CallType' /\ CallsInv'
  <2> DEFINE h == NewCall("append", t, 0, by, "rewrite", Target, Given(WithTarget[Target], t),
                          WithTarget[Target].rev)
  <2>1. sess' = WithTarget /\ call' = Append(call, h) /\ UNCHANGED <<partial, gen, published>>
    BY <1>7 DEF AppendAsrTurn
  <2>2. WithTarget[Target] \in Session /\ Target \in Nat
    BY <2>1, KeepsTarget, <1>2
  <2>3. Given(WithTarget[Target], t) \in SUBSET Text /\ WithTarget[Target].rev \in Nat
    BY <2>2 DEF Given, Session
  <2>4. h \in Handler /\ h.sid = Target /\ h.text = t /\ h.given = Given(WithTarget[Target], t)
        /\ h.rev = WithTarget[Target].rev
    BY <2>2, <2>3 DEF NewCall, Handler, Labels
  <2> HIDE DEF h
  <2>5. Fresh(h, sess')
    BY <2>1, <2>4, RewriteFacts
  <2>6. Good(call', sess') /\ Len(call') = Len(call) + 1
    BY <1>2, <2>1, <2>4, <2>5, GoodAppend
  <2>7. Len(call) \in Nat
    BY <1>3
  <2> QED BY <1>3, <1>4, <2>1, <2>6, <2>7
<1>8. ASSUME NEW t \in Text, TextMessage(t) PROVE CallType' /\ CallsInv'
  <2> DEFINE h == NewCall("text", t, 0, "http", "classify", 0, {}, 0)
  <2>1. call' = Append(call, h) /\ UNCHANGED <<partial, gen, published>>
    BY <1>8 DEF TextMessage
  <2>2. h \in Handler /\ Fresh(h, sess')
    BY <1>2, NewFacts
  <2> HIDE DEF h
  <2>3. Good(call', sess') /\ Len(call') = Len(call) + 1
    BY <1>2, <2>1, <2>2, GoodAppend
  <2>4. Len(call) \in Nat
    BY <1>3
  <2> QED BY <1>3, <1>4, <2>1, <2>3, <2>4
<1>9. ASSUME NEW t \in Text, NEW h \in Handler, Fresh(h, sess'),
             call' = Append(CancelPartial, h), partial' \in {0, Len(call) + 1}, gen' = gen + 1, published' = published
      PROVE  CallType' /\ CallsInv'
  <2>1. Good(CancelPartial, sess') /\ Len(CancelPartial) = Len(call)
    BY <1>1, CancelPartialGood
  <2>2. Good(call', sess') /\ Len(call') = Len(call) + 1
    BY <1>9, <2>1, GoodAppend
  <2>3. Len(call) \in Nat
    BY <1>3
  <2> QED BY <1>3, <1>4, <1>9, <2>2, <2>3
<1>10. ASSUME NEW t \in Text, NEW stamp \in Stamp,
              SttPartial(t, stamp) \/ SttFinalReused(t, stamp) \/ SttFinal(t, stamp)
       PROVE  CallType' /\ CallsInv'
  <2>1. stamp \in Nat /\ gen + 1 \in Nat
    BY <1>3, DraftsAssumption DEF DraftsAssumption
  <2>2. CASE SttPartial(t, stamp)
    <3> DEFINE h == [NewCall("partial", t, stamp, "http", "classify", 0, {}, 0) EXCEPT !.gen = gen + 1]
    <3>1. h \in Handler /\ Fresh(h, sess')
      BY <1>2, <2>1, NewFacts DEF Live
    <3>2. call' = Append(CancelPartial, h) /\ partial' = Len(call) + 1 /\ gen' = gen + 1 /\ published' = published
      BY <2>2 DEF SttPartial
    <3> HIDE DEF h
    <3> QED BY <1>9, <3>1, <3>2
  <2>3. CASE SttFinal(t, stamp)
    <3> DEFINE h == [NewCall("final", t, stamp, "http", "classify", 0, {}, 0) EXCEPT !.gen = gen + 1]
    <3>1. h \in Handler /\ Fresh(h, sess')
      BY <1>2, <2>1, NewFacts DEF Live
    <3>2. call' = Append(CancelPartial, h) /\ partial' = 0 /\ gen' = gen + 1 /\ published' = published
      BY <2>3 DEF SttFinal
    <3> HIDE DEF h
    <3> QED BY <1>9, <3>1, <3>2
  <2>4. CASE SttFinalReused(t, stamp)
    <3>1. call' = Append(CancelPartial, Done) /\ partial' = 0 /\ gen' = gen + 1 /\ published' = published
      BY <2>4 DEF SttFinalReused
    <3>2. Done \in Handler /\ Fresh(Done, sess')
      BY <1>2, DoneFacts
    <3> QED BY <1>9, <3>1, <3>2
  <2> QED BY <1>10, <2>2, <2>3, <2>4
<1>11. ASSUME NEW k \in Calls, NEW label \in Labels,
              \/ Ignored(k, label) \/ Confirmed(k, label) \/ ClearedByVoice(k, label)
              \/ StopsTask(k, label) \/ TooOld(k, label)
       PROVE  CallType' /\ CallsInv'
  BY <1>6, <1>11 DEF Ignored, Confirmed, ClearedByVoice, StopsTask, TooOld
<1>12. ASSUME NEW k \in Calls, NEW label \in Labels, StartsRewrite(k, label)
       PROVE  CallType' /\ CallsInv'
  <2> DEFINE s == WithTarget[Target]
             h == [call[k] EXCEPT !.stage = "rewrite", !.sid = Target, !.label = label,
                                  !.given = Given(s, call[k].text), !.rev = s.rev]
  <2>1. k \in 1..Len(call) /\ call[k] \in Handler
    BY <1>3 DEF Calls
  <2>2. sess' = WithTarget /\ UNCHANGED <<partial, gen, published>>
    BY <1>12 DEF StartsRewrite
  <2>3. call' = [call EXCEPT ![k] = h]
    BY <1>3, <1>12, <2>1 DEF StartsRewrite
  <2>4. s \in Session /\ Target \in Nat
    BY <2>2, KeepsTarget, <1>2
  <2>5. Given(s, call[k].text) \in SUBSET Text /\ s.rev \in Nat
    BY <2>1, <2>4 DEF Given, Session, Handler
  <2> HIDE DEF s
  <2>6. h \in Handler /\ h.sid = Target /\ h.text = call[k].text /\ h.given = Given(s, call[k].text)
        /\ h.rev = s.rev /\ call[k].text \in Text
    BY <2>1, <2>4, <2>5 DEF Handler
  <2> HIDE DEF h
  <2>7. Fresh(h, sess')
    BY <2>2, <2>6, RewriteFacts DEF s
  <2>8. Good(call', sess') /\ Len(call') = Len(call)
    BY <1>1, <2>3, <2>6, <2>7, GoodCall
  <2> QED BY <1>3, <1>4, <2>2, <2>8
<1>13. ASSUME NEW k \in Calls,
              \/ Failed(k)
              \/ Applied(k) /\ (published' = published \/ published' = {call[k].text})
       PROVE  CallType' /\ CallsInv'
  BY <1>6, <1>13 DEF Failed, Applied
<1>14. ASSUME NEW c \in Client,
              \/ \E act \in {"send", "any", "clear"}, via \in {"ws", "http"} : Click(c, act, via)
              \/ SendHandled(c) \/ ClearHandled(c)
              \/ Connect(c) \/ Greeting(c) \/ Receive(c) \/ Disconnect(c)
       PROVE  UNCHANGED <<call, partial, gen, published>>
  BY <1>14, Zenon DEF Click, SendHandled, ClearHandled, Connect, Greeting, Receive, Disconnect, draftVars
<1>15. ASSUME TaskFinishes \/ Pump PROVE UNCHANGED <<call, partial, gen, published>>
  BY <1>15, Zenon DEF TaskFinishes, Pump, draftVars
<1> QED BY <1>5, <1>7, <1>8, <1>10, <1>11, <1>12, <1>13, <1>14, <1>15, NextCases

-----------------------------------------------------------------------------
(* The stream *)

LEMMA DumpFacts ==
  ASSUME SessType, NEW r \in Ref, r.sid \in 0..Len(sess)
  PROVE  LET v == Dump(r) IN
         /\ v \in View /\ Known(v, sess) /\ v.sid = r.sid /\ v.bro = r.bro
         /\ r.sid # 0 => v.rev = sess[r.sid].rev /\ v.draft = sess[r.sid].draft
<1>1. r.sid \in Nat /\ r.bro \in Bros
  BY DEF Ref
<1>2. CASE r.sid = 0
  BY <1>1, <1>2 DEF Dump, NoView, View, Known
<1>3. CASE r.sid # 0
  <2>1. r.sid \in 1..Len(sess)
    BY <1>1, <1>3
  <2>2. sess[r.sid] \in Session
    BY <2>1, SessFacts
  <2>3. sess[r.sid].rev \in Nat /\ sess[r.sid].draft \in SUBSET Text
    BY <2>2 DEF Session
  <2> QED BY <1>1, <1>3, <2>1, <2>3 DEF Dump, View, Known
<1> QED BY <1>2, <1>3

LEMMA SnapFacts ==
  ASSUME NEW i \in Nat, NEW b \in Bros
  PROVE  Snap(i, b) \in Ref /\ Snap(i, b).sid = i /\ Snap(i, b).bro = b
BY DEF Snap, Ref

\* What a step tells the clients: nothing they could miss, or how things are now.
Quiet == UNCHANGED <<streamVars, bro>> /\ Calm
Told == /\ Publish(Snap(active', bro')) /\ UNCHANGED <<conn, greet, shown, pump, leaked, lapsed>>
        /\ dirty' \in BOOLEAN /\ bro' \in Bros

LEMMA ConfirmTold ==
  ASSUME StreamType, NEW view, ConfirmActive(view), UNCHANGED <<conn, greet, shown, pump, leaked, lapsed>>
  PROVE  UNCHANGED <<streamVars, bro>> \/ Told
<1>1. CASE Sendable(view) /\ Sent(view)
  <2>1. active' = 0 /\ bro' = "busy" /\ Publish(Snap(0, "busy")) /\ dirty' = (pump # "off")
    BY <1>1 DEF Sent, MarkSent, BlackboardWrite
  <2> QED BY <2>1 DEF Told, Bros
<1>2. CASE UNCHANGED <<active, bro, tasks, queue, dirty>>
  BY <1>2 DEF streamVars
<1> QED BY <1>1, <1>2 DEF ConfirmActive

LEMMA StreamCases ==
  ASSUME Types, CallsInv, Next
  PROVE  \/ Quiet \/ Told \/ TaskFinishes \/ Pump
         \/ \E c \in Client : Connect(c) \/ Greeting(c) \/ Receive(c) \/ Disconnect(c)
<1>0. SessType /\ CallType /\ StreamType /\ dirty \in BOOLEAN /\ bro \in Bros
  BY DEF Types, StreamType
<1>1. ASSUME NEW k \in Calls, Applied(k) PROVE Told
  <2>1. active' = call[k].sid /\ Publish(Snap(call[k].sid, bro))
    BY <1>0, <1>1, AppliedSess
  <2>2. UNCHANGED <<bro, conn, greet, shown, pump, leaked, lapsed, dirty>>
    BY <1>1 DEF Applied
  <2> QED BY <1>0, <2>1, <2>2 DEF Told
<1>2. ASSUME \/ \E t \in Text, by \in Client \cup {"http"} : AppendAsrTurn(t, by)
             \/ \E t \in Text : TextMessage(t)
             \/ \E t \in Text, stamp \in Stamp : SttPartial(t, stamp) \/ SttFinal(t, stamp)
             \/ \E k \in Calls, label \in Labels :
                  Ignored(k, label) \/ ClearedByVoice(k, label) \/ StartsRewrite(k, label)
             \/ \E k \in Calls : Failed(k)
             \/ \E c \in Client, act \in {"send", "any", "clear"}, via \in {"ws", "http"} : Click(c, act, via)
      PROVE  UNCHANGED <<streamVars, bro>>
  BY <1>2, ZenonT(30) DEF AppendAsrTurn, TextMessage, SttPartial, SttFinal, Ignored, ClearedByVoice,
                     StartsRewrite, Failed, Click
<1>3. ASSUME NEW t \in Text, NEW stamp \in Stamp, SttFinalReused(t, stamp) PROVE Told
  BY <1>0, <1>3 DEF SttFinalReused, Told
<1>4. ASSUME NEW k \in Calls, NEW label \in Labels, StopsTask(k, label) PROVE Told
  <2>1. /\ bro' \in {bro, "idle"} /\ dirty' = (pump # "off") /\ Publish(Snap(active, bro'))
        /\ UNCHANGED <<active, conn, greet, shown, pump, leaked, lapsed>>
    BY <1>4 DEF StopsTask, BlackboardWrite
  <2> QED BY <1>0, <2>1 DEF Told, Bros
<1>5. ASSUME NEW k \in Calls, NEW label \in Labels, TooOld(k, label) PROVE Told
  BY <1>0, <1>5 DEF TooOld, Told
<1>6. ASSUME NEW k \in Calls, NEW label \in Labels, Confirmed(k, label)
      PROVE  UNCHANGED <<streamVars, bro>> \/ Told
  BY <1>0, <1>6, ConfirmTold DEF Confirmed
<1>7. ASSUME NEW c \in Client, SendHandled(c) PROVE UNCHANGED <<streamVars, bro>> \/ Told
  BY <1>0, <1>7, ConfirmTold DEF SendHandled
<1>8. ASSUME NEW c \in Client, ClearHandled(c) PROVE UNCHANGED <<streamVars, bro>> \/ Told
  <2>1. CASE Cleared /\ Publish(Snap(0, bro))
    BY <1>0, <1>8, <2>1 DEF ClearHandled, Cleared, Told
  <2>2. CASE UNCHANGED <<sess, active, queue>>
    BY <1>8, <2>2 DEF ClearHandled, streamVars
  <2> QED BY <1>8, <2>1, <2>2 DEF ClearHandled
<1>9. Calm \/ Told
  BY <1>0, <1>1, CalmStep
<1> QED BY <1>1, <1>2, <1>3, <1>4, <1>5, <1>6, <1>7, <1>8, <1>9, NextCases DEF Quiet

LEMMA PublishFacts ==
  ASSUME StreamType, NEW r \in Ref, Publish(r)
  PROVE  /\ queue' \in [Client -> Seq(Ref)]
         /\ \A c \in Client : conn[c] # "off" =>
              /\ Len(queue'[c]) = Len(queue[c]) + 1 /\ queue'[c] # <<>> /\ queue'[c][Len(queue'[c])] = r
              /\ \A i \in 1..Len(queue[c]) : queue'[c][i] = queue[c][i]
         /\ \A c \in Client : conn[c] = "off" => queue'[c] = queue[c]
<1>1. ASSUME NEW q \in Seq(Ref)
      PROVE  LET a == Append(q, r) IN
             /\ a \in Seq(Ref) /\ Len(a) = Len(q) + 1 /\ a # <<>> /\ a[Len(a)] = r
             /\ \A i \in 1..Len(q) : a[i] = q[i]
  OBVIOUS
<1>2. \A c \in Client : queue[c] \in Seq(Ref)
  BY DEF StreamType
<1>3. queue' = [c \in Client |-> IF conn[c] # "off" THEN Append(queue[c], r) ELSE queue[c]]
  BY DEF Publish, Subscribers
<1>4. \A c \in Client : conn[c] # "off" => queue'[c] = Append(queue[c], r)
  BY <1>3
<1>5. \A c \in Client : conn[c] = "off" => queue'[c] = queue[c]
  BY <1>3
<1>6. \A c \in Client : queue'[c] \in Seq(Ref)
  BY <1>1, <1>2, <1>4, <1>5
<1>7. queue' \in [Client -> Seq(Ref)]
  BY <1>3, <1>6
<1> QED BY <1>1, <1>2, <1>4, <1>5, <1>7

\* A queue without its first event.
LEMMA TailFacts ==
  ASSUME NEW q \in Seq(Ref), q # <<>>
  PROVE  /\ Head(q) \in Ref /\ Head(q) = q[1] /\ 1 \in 1..Len(q) /\ Tail(q) \in Seq(Ref)
         /\ Tail(q) = <<>> => Len(q) = 1
         /\ Tail(q) # <<>> => Tail(q)[Len(Tail(q))] = q[Len(q)]
         /\ \A i \in 1..Len(Tail(q)) : i + 1 \in 1..Len(q) /\ Tail(q)[i] = q[i + 1]
<1>1. Len(q) \in Nat /\ Len(q) >= 1
  OBVIOUS
<1>2. Head(q) = q[1] /\ Head(q) \in Ref /\ Tail(q) \in Seq(Ref) /\ Len(Tail(q)) = Len(q) - 1
  OBVIOUS
<1> DEFINE t == Tail(q)
<1>3. \A u \in Seq(Ref) : u = <<>> <=> Len(u) = 0
  OBVIOUS
<1>4. t = <<>> <=> Len(t) = 0
  <2>1. t \in Seq(Ref)
    BY <1>2
  <2> HIDE DEF t
  <2> QED BY <1>3, <2>1
<1>5. \A i \in 1..Len(Tail(q)) : i + 1 \in 1..Len(q) /\ Tail(q)[i] = q[i + 1]
  BY <1>1, <1>2
<1>6. ASSUME Tail(q) # <<>> PROVE Tail(q)[Len(Tail(q))] = q[Len(q)]
  <2>1. Len(Tail(q)) # 0
    BY <1>6, <1>4
  <2>2. Len(q) - 1 \in 1..Len(Tail(q)) /\ (Len(q) - 1) + 1 = Len(q)
    BY <1>1, <1>2, <2>1
  <2> QED BY <1>2, <1>5, <2>2
<1>7. ASSUME Tail(q) = <<>> PROVE Len(q) = 1
  <2>1. Len(t) = 0
    BY <1>7, <1>4, Zenon
  <2>2. Len(t) = Len(q) - 1
    BY <1>2
  <2> HIDE DEF t
  <2> QED BY <1>1, <2>1, <2>2
<1> QED BY <1>1, <1>2, <1>5, <1>6, <1>7

LEMMA ReceiveFacts ==
  ASSUME SessType, StreamType, ViewsInv, NEW c \in Client, Receive(c)
  PROVE  LET v == Dump(Head(queue[c])) IN
         /\ queue[c] # <<>> /\ conn[c] = "on" /\ queue[c] \in Seq(Ref)
         /\ Head(queue[c]) \in Ref /\ Head(queue[c]).sid \in 0..Len(sess)
         /\ v \in View /\ Known(v, sess) /\ shown' = [shown EXCEPT ![c] = v]
         /\ queue' = [queue EXCEPT ![c] = Tail(queue[c])]
         /\ UNCHANGED <<conn, greet, pump, dirty, lapsed>> /\ UNCHANGED draftVars
<1>1. /\ queue[c] # <<>> /\ conn[c] = "on" /\ shown' = [shown EXCEPT ![c] = Dump(Head(queue[c]))]
      /\ queue' = [queue EXCEPT ![c] = Tail(queue[c])]
      /\ UNCHANGED <<conn, greet, pump, dirty, lapsed>> /\ UNCHANGED draftVars
  BY DEF Receive, Deliver
<1>2. queue[c] \in Seq(Ref)
  BY DEF StreamType
<1>3. Head(queue[c]) \in Ref /\ Head(queue[c]) = queue[c][1] /\ 1 \in 1..Len(queue[c])
  BY <1>1, <1>2, TailFacts
<1>4. Head(queue[c]).sid \in 0..Len(sess)
  BY <1>3 DEF ViewsInv
<1>5. Dump(Head(queue[c])) \in View /\ Known(Dump(Head(queue[c])), sess)
  BY <1>3, <1>4, DumpFacts
<1> QED BY <1>1, <1>2, <1>3, <1>4, <1>5

LEMMA StreamTypeStep ==
  ASSUME Types, ViewsInv, CallsInv, Next
  PROVE  StreamType'
<1>0. SessType /\ StreamType
  BY DEF Types
<1>1. /\ conn \in [Client -> {"off", "greeting", "on"}] /\ queue \in [Client -> Seq(Ref)]
      /\ greet \in [Client -> View] /\ shown \in [Client -> View]
      /\ pump \in {"off", "on", "cancelled"} /\ dirty \in BOOLEAN /\ bro \in Bros
  BY <1>0 DEF StreamType
<1>2. SessType'
  BY SessStep DEF Types
<1>3. NoView \in View
  BY DEF NoView, View, Bros
<1>4. CASE Quiet
  <2>1. UNCHANGED <<conn, queue, greet, shown, pump, dirty, bro>>
    BY <1>4 DEF Quiet, streamVars
  <2> QED BY <1>1, <2>1 DEF StreamType
<1>5. CASE Told
  <2>1. active' \in Nat
    BY <1>2 DEF SessType
  <2>2. Snap(active', bro') \in Ref
    BY <1>5, <2>1 DEF Told, Snap, Ref
  <2>3. queue' \in [Client -> Seq(Ref)]
    BY <1>0, <1>5, <2>2, PublishFacts DEF Told
  <2> QED BY <1>1, <1>5, <2>3 DEF Told, StreamType
<1>6. CASE TaskFinishes
  <2>1. dirty' = (pump # "off") /\ bro' = "idle" /\ UNCHANGED <<conn, queue, greet, shown, pump>>
    BY <1>6 DEF TaskFinishes, BlackboardWrite
  <2> QED BY <1>1, <2>1 DEF StreamType, Bros
<1>7. CASE PumpEnds /\ UNCHANGED draftVars
  BY <1>1, <1>7 DEF PumpEnds, StreamType, draftVars
<1>8. CASE SnapshotLoop(Snap(active, bro)) /\ UNCHANGED draftVars
  <2>1. active \in Nat
    BY <1>0 DEF SessType
  <2>2. Snap(active, bro) \in Ref
    BY <1>1, <2>1, SnapFacts
  <2>3. queue' \in [Client -> Seq(Ref)]
    BY <1>0, <1>8, <2>2, PublishFacts DEF SnapshotLoop
  <2> QED BY <1>1, <1>8, <2>3 DEF SnapshotLoop, StreamType, draftVars
<1>9. ASSUME NEW c \in Client, Connect(c) PROVE StreamType'
  <2>1. active \in 0..Len(sess) /\ active \in Nat
    BY <1>0 DEF SessType
  <2>2. Dump(Snap(active, bro)) \in View
    BY <1>0, <1>1, <2>1, SnapFacts, DumpFacts
  <2>3. /\ conn' = [conn EXCEPT ![c] = "greeting"] /\ queue' = [queue EXCEPT ![c] = <<>>]
        /\ greet' = [greet EXCEPT ![c] = Dump(Snap(active, bro))]
        /\ pump' \in {pump, "on"} /\ UNCHANGED <<shown, dirty, bro>>
    BY <1>9 DEF Connect, Subscribe, draftVars
  <2>4. queue' \in [Client -> Seq(Ref)]
    BY <1>1, <2>3
  <2>5. greet' \in [Client -> View]
    BY <1>1, <2>2, <2>3
  <2>6. conn' \in [Client -> {"off", "greeting", "on"}]
    BY <1>1, <2>3
  <2> QED BY <1>1, <2>3, <2>4, <2>5, <2>6 DEF StreamType
<1>10. ASSUME NEW c \in Client, Greeting(c) PROVE StreamType'
  <2>1. /\ conn' = [conn EXCEPT ![c] = "on"] /\ shown' = [shown EXCEPT ![c] = greet[c]]
        /\ greet' = [greet EXCEPT ![c] = NoView] /\ UNCHANGED <<queue, pump, dirty, bro>>
    BY <1>10 DEF Greeting, Greeted, draftVars
  <2>2. shown' \in [Client -> View] /\ greet' \in [Client -> View]
    BY <1>1, <1>3, <2>1
  <2>3. conn' \in [Client -> {"off", "greeting", "on"}]
    BY <1>1, <2>1
  <2> QED BY <1>1, <2>1, <2>2, <2>3 DEF StreamType
<1>11. ASSUME NEW c \in Client, Receive(c) PROVE StreamType'
  <2> DEFINE v == Dump(Head(queue[c]))
  <2>1. /\ v \in View /\ shown' = [shown EXCEPT ![c] = v] /\ queue[c] \in Seq(Ref) /\ queue[c] # <<>>
        /\ queue' = [queue EXCEPT ![c] = Tail(queue[c])] /\ UNCHANGED <<conn, greet, pump, dirty>>
        /\ UNCHANGED draftVars
    BY <1>0, <1>11, ReceiveFacts
  <2> HIDE DEF v
  <2>2. shown' \in [Client -> View]
    BY <1>1, <2>1
  <2>3. Tail(queue[c]) \in Seq(Ref)
    BY <2>1, TailFacts
  <2>4. queue' \in [Client -> Seq(Ref)]
    BY <1>1, <2>1, <2>3
  <2> QED BY <1>1, <2>1, <2>2, <2>4 DEF StreamType, draftVars
<1>12. ASSUME NEW c \in Client, Disconnect(c) PROVE StreamType'
  <2>1. /\ conn' = [conn EXCEPT ![c] = "off"] /\ queue' = [queue EXCEPT ![c] = <<>>]
        /\ greet' = [greet EXCEPT ![c] = NoView] /\ shown' = [shown EXCEPT ![c] = NoView]
        /\ pump' \in {pump, "cancelled"} /\ UNCHANGED <<dirty, bro>>
    BY <1>12 DEF Disconnect, Unsubscribe, GreetingFails, Gone
  <2>2. shown' \in [Client -> View] /\ greet' \in [Client -> View]
    BY <1>1, <1>3, <2>1
  <2>3. queue' \in [Client -> Seq(Ref)]
    BY <1>1, <2>1
  <2>4. conn' \in [Client -> {"off", "greeting", "on"}]
    BY <1>1, <2>1
  <2> QED BY <1>1, <2>1, <2>2, <2>3, <2>4 DEF StreamType
<1> QED BY <1>4, <1>5, <1>6, <1>7, <1>8, <1>9, <1>10, <1>11, <1>12, StreamCases DEF Pump

-----------------------------------------------------------------------------
(* Requests and tasks *)

\* A request names what its client is shown, or nothing.
LEMMA RequestStep ==
  ASSUME Types, CallsInv, Next
  PROVE  /\ inbox' \in [Client -> Ask]
         /\ \A c \in Client : inbox'[c].view \in {inbox[c].view, shown[c], NoView}
<1>1. inbox \in [Client -> Ask] /\ shown \in [Client -> View] /\ NoView \in View /\ NoAsk \in Ask
  BY DEF Types, ClickType, StreamType, NoView, NoAsk, View, Ask, Bros
<1>2. ASSUME NEW c \in Client, NEW x \in Ask, x.view \in {inbox[c].view, shown[c], NoView},
             inbox' = [inbox EXCEPT ![c] = x]
      PROVE  /\ inbox' \in [Client -> Ask]
             /\ \A d \in Client : inbox'[d].view \in {inbox[d].view, shown[d], NoView}
  BY <1>1, <1>2
<1>3. NoAsk.view = NoView
  BY DEF NoAsk
<1>4. CASE inbox' = inbox
  BY <1>1, <1>4
<1>5. ASSUME NEW c \in Client, inbox' = [inbox EXCEPT ![c] = NoAsk]
      PROVE  /\ inbox' \in [Client -> Ask]
             /\ \A d \in Client : inbox'[d].view \in {inbox[d].view, shown[d], NoView}
  BY <1>1, <1>2, <1>3, <1>5
<1>6. ASSUME NEW c \in Client, NEW act \in {"send", "any", "clear"}, NEW via \in {"ws", "http"},
             Click(c, act, via)
      PROVE  /\ inbox' \in [Client -> Ask]
             /\ \A d \in Client : inbox'[d].view \in {inbox[d].view, shown[d], NoView}
  <2> DEFINE v == IF act = "any" THEN NoView ELSE shown[c]
             x == [act |-> act, via |-> via, view |-> v]
  <2>1. inbox' = [inbox EXCEPT ![c] = x]
    BY <1>6 DEF Click
  <2>2. v \in View /\ v \in {shown[c], NoView}
    BY <1>1
  <2> HIDE DEF v
  <2>3. x \in Ask /\ x.view = v
    BY <2>2 DEF Ask
  <2> HIDE DEF x
  <2> QED BY <1>2, <2>1, <2>2, <2>3
<1>7. ASSUME NEW c \in Client, Disconnect(c)
      PROVE  /\ inbox' \in [Client -> Ask]
             /\ \A d \in Client : inbox'[d].view \in {inbox[d].view, shown[d], NoView}
  <2> DEFINE x == IF inbox[c].via = "ws" THEN NoAsk ELSE inbox[c]
  <2>1. inbox' = [inbox EXCEPT ![c] = x]
    BY <1>1, <1>7 DEF Disconnect
  <2>2. x \in Ask /\ x.view \in {inbox[c].view, NoView}
    BY <1>1, <1>3
  <2> HIDE DEF x
  <2> QED BY <1>2, <2>1, <2>2
<1>8. ASSUME \/ \E t \in Text, by \in Client \cup {"http"} : AppendAsrTurn(t, by)
             \/ \E t \in Text : TextMessage(t)
             \/ \E t \in Text, stamp \in Stamp :
                  SttPartial(t, stamp) \/ SttFinalReused(t, stamp) \/ SttFinal(t, stamp)
      PROVE  inbox' = inbox
  BY <1>8, Zenon DEF AppendAsrTurn, TextMessage, SttPartial, SttFinalReused, SttFinal
<1>9. ASSUME NEW k \in Calls, NEW label \in Labels,
             \/ Ignored(k, label) \/ Confirmed(k, label) \/ ClearedByVoice(k, label)
             \/ StopsTask(k, label) \/ TooOld(k, label) \/ StartsRewrite(k, label)
      PROVE  inbox' = inbox
  BY <1>9, Zenon DEF Ignored, Confirmed, ClearedByVoice, StopsTask, TooOld, StartsRewrite
<1>10. ASSUME \/ \E k \in Calls : Applied(k) \/ Failed(k)
              \/ \E c \in Client : Connect(c) \/ Greeting(c) \/ Receive(c)
              \/ TaskFinishes \/ Pump
       PROVE  inbox' = inbox
  BY <1>10, Zenon DEF Applied, Failed, Connect, Greeting, Receive, TaskFinishes, Pump, draftVars
<1> QED BY <1>4, <1>5, <1>6, <1>7, <1>8, <1>9, <1>10, NextCases

\* The tasks grow by a Send of the active draft only, at the revision the
\* request names.
LEMMA TasksCases ==
  ASSUME Next
  PROVE  \/ tasks' = tasks
         \/ \E view \in {NoView} \cup {inbox[c].view : c \in Client} : Sendable(view) /\ Sent(view)
<1>1. ASSUME NEW view, ConfirmActive(view) PROVE tasks' = tasks \/ (Sendable(view) /\ Sent(view))
  BY <1>1 DEF ConfirmActive
<1>2. ASSUME NEW c \in Client, SendHandled(c)
      PROVE  tasks' = tasks \/ (Sendable(inbox[c].view) /\ Sent(inbox[c].view))
  BY <1>2 DEF SendHandled, ConfirmActive
<1>3. ASSUME NEW k \in Calls, NEW label \in Labels, Confirmed(k, label)
      PROVE  tasks' = tasks \/ (Sendable(NoView) /\ Sent(NoView))
  BY <1>1, <1>3 DEF Confirmed
<1>4. ASSUME \/ \E t \in Text, by \in Client \cup {"http"} : AppendAsrTurn(t, by)
             \/ \E t \in Text : TextMessage(t)
             \/ \E t \in Text, stamp \in Stamp :
                  SttPartial(t, stamp) \/ SttFinalReused(t, stamp) \/ SttFinal(t, stamp)
      PROVE  tasks' = tasks
  BY <1>4, Zenon DEF AppendAsrTurn, TextMessage, SttPartial, SttFinalReused, SttFinal
<1>5. ASSUME NEW k \in Calls, NEW label \in Labels,
             \/ Ignored(k, label) \/ ClearedByVoice(k, label)
             \/ StopsTask(k, label) \/ TooOld(k, label) \/ StartsRewrite(k, label)
      PROVE  tasks' = tasks
  BY <1>5, Zenon DEF Ignored, ClearedByVoice, StopsTask, TooOld, StartsRewrite
<1>6. ASSUME NEW c \in Client,
             \/ \E act \in {"send", "any", "clear"}, via \in {"ws", "http"} : Click(c, act, via)
             \/ ClearHandled(c)
      PROVE  tasks' = tasks
  BY <1>6, Zenon DEF Click, ClearHandled
<1>7. ASSUME \/ \E k \in Calls : Applied(k) \/ Failed(k)
             \/ \E c \in Client : Connect(c) \/ Greeting(c) \/ Receive(c) \/ Disconnect(c)
             \/ TaskFinishes \/ Pump
      PROVE  tasks' = tasks
  BY <1>7, Zenon DEF Applied, Failed, Connect, Greeting, Receive, Disconnect, TaskFinishes, Pump, draftVars
<1> QED BY <1>2, <1>3, <1>4, <1>5, <1>6, <1>7, NextCases

LEMMA TasksStep ==
  ASSUME Types, ViewsInv, CallsInv, ConfirmedIsSent, Next
  PROVE  ClickType' /\ ConfirmedIsSent'
<1>0. inbox' \in [Client -> Ask]
  BY RequestStep
<1>1. tasks \in Seq(SentTask) /\ inbox \in [Client -> Ask] /\ SessType
  BY DEF Types, ClickType
<1>2. CASE tasks' = tasks
  BY <1>0, <1>1, <1>2 DEF ClickType, ConfirmedIsSent
<1>3. ASSUME NEW view \in {NoView} \cup {inbox[c].view : c \in Client}, Sendable(view), Sent(view)
      PROVE  ClickType' /\ ConfirmedIsSent'
  <2>1. view \in View /\ Known(view, sess)
    <3>1. NoView \in View /\ Known(NoView, sess)
      BY DEF NoView, View, Bros, Known
    <3>2. \A c \in Client : inbox[c].view \in View /\ Known(inbox[c].view, sess)
      BY <1>1 DEF Ask, ViewsInv
    <3> QED BY <3>1, <3>2
  <2>2. active \in 1..Len(sess) /\ Matches(view)
    BY <1>1, <1>3 DEF Sendable, SessType
  <2>3. sess[active].rev \in Nat /\ sess[active].draft \in SUBSET Text /\ active \in Nat
    BY <1>1, <2>2, SessFacts DEF Session
  <2> DEFINE x == [sid |-> active, rev |-> sess[active].rev, draft |-> sess[active].draft, asked |-> view]
  <2>4. tasks' = Append(tasks, x)
    BY <1>3 DEF Sent
  <2>5. x \in SentTask /\ x.asked = view /\ x.sid = active /\ x.draft = sess[active].draft
    BY <2>1, <2>3 DEF SentTask
  <2>6. view.sid # 0 => active = view.sid /\ sess[active].draft = view.draft
    BY <2>1, <2>2 DEF Matches, Known
  <2> HIDE DEF x
  <2>7. tasks' \in Seq(SentTask) /\ Len(tasks') = Len(tasks) + 1 /\ tasks'[Len(tasks) + 1] = x
        /\ \A i \in 1..Len(tasks) : tasks'[i] = tasks[i]
    BY <1>1, <2>4, <2>5
  <2>8. DOMAIN tasks' = 1..(Len(tasks) + 1) /\ DOMAIN tasks = 1..Len(tasks) /\ Len(tasks) \in Nat
    BY <1>1, <2>7
  <2>9. \A i \in DOMAIN tasks' : tasks'[i].asked.sid # 0 =>
          tasks'[i].sid = tasks'[i].asked.sid /\ tasks'[i].draft = tasks'[i].asked.draft
    <3> TAKE i \in DOMAIN tasks'
    <3>1. CASE i \in DOMAIN tasks
      BY <2>7, <2>8, <3>1 DEF ConfirmedIsSent
    <3>2. CASE i = Len(tasks) + 1
      BY <2>5, <2>6, <2>7, <3>2
    <3> QED BY <2>8, <3>1, <3>2
  <2> QED BY <1>0, <2>7, <2>9 DEF ClickType, ConfirmedIsSent
<1> QED BY <1>2, <1>3, TasksCases

-----------------------------------------------------------------------------
(* Views, durable turns and prompts *)

LEMMA ViewsStep ==
  ASSUME Types, ViewsInv, CallsInv, Next
  PROVE  ViewsInv'
<1>0. SessType /\ StreamType /\ ClickType /\ SessType' /\ Grows
  BY SessStep DEF Types
<1>1. \A v \in View : Known(v, sess) => Known(v, sess')
  BY <1>0, StillKnown
<1>2. NoView \in View /\ Known(NoView, sess)
  BY DEF NoView, View, Bros, Known
<1>3. /\ \A c \in Client : shown[c] \in View /\ greet[c] \in View /\ inbox[c].view \in View
      /\ \A c \in Client : Known(shown[c], sess) /\ Known(greet[c], sess) /\ Known(inbox[c].view, sess)
  BY <1>0 DEF StreamType, ClickType, Ask, ViewsInv
<1>4. \A c \in Client : Known(inbox'[c].view, sess')
  BY <1>1, <1>2, <1>3, RequestStep
<1>5. /\ \A c \in Client : queue[c] \in Seq(Ref) /\ \A i \in 1..Len(queue[c]) : queue[c][i].sid \in 0..Len(sess)
      /\ Len(sess) <= Len(sess') /\ Len(sess) \in Nat /\ Len(sess') \in Nat
  BY <1>0 DEF StreamType, ViewsInv, SessType, Grows
<1>6. ASSUME \A c \in Client : shown'[c] \in {shown[c], greet[c], NoView} \/ Known(shown'[c], sess'),
             \A c \in Client : greet'[c] \in {greet[c], NoView} \/ Known(greet'[c], sess'),
             \A c \in Client : queue'[c] \in {queue[c], <<>>}
                               \/ \A i \in 1..Len(queue'[c]) : queue'[c][i].sid \in 0..Len(sess')
      PROVE  ViewsInv'
  <2>1. \A c \in Client : Known(shown'[c], sess') /\ Known(greet'[c], sess')
    BY <1>1, <1>2, <1>3, <1>6
  <2>2. ASSUME NEW c \in Client, NEW i \in 1..Len(queue'[c]) PROVE queue'[c][i].sid \in 0..Len(sess')
    <3>1. CASE queue'[c] = queue[c]
      BY <1>5, <2>2, <3>1
    <3>2. queue'[c] # <<>>
      BY <2>2
    <3> QED BY <1>6, <3>1, <3>2
  <2> QED BY <1>4, <2>1, <2>2 DEF ViewsInv
<1>7. ASSUME UNCHANGED <<shown, greet>>, NEW r \in Ref, r.sid \in 0..Len(sess'), Publish(r) PROVE ViewsInv'
  <2>1. ASSUME NEW c \in Client, conn[c] # "off", NEW i \in 1..Len(queue'[c])
        PROVE  queue'[c][i].sid \in 0..Len(sess')
    <3>1. /\ Len(queue'[c]) = Len(queue[c]) + 1 /\ queue'[c][Len(queue'[c])] = r
          /\ \A j \in 1..Len(queue[c]) : queue'[c][j] = queue[c][j]
      BY <1>0, <1>7, <2>1, PublishFacts
    <3>2. i \in 1..Len(queue[c]) \/ i = Len(queue'[c])
      BY <1>5, <2>1, <3>1
    <3>3. CASE i = Len(queue'[c])
      BY <1>7, <3>1, <3>3
    <3>4. CASE i \in 1..Len(queue[c])
      <4>1. queue'[c][i] = queue[c][i] /\ queue[c][i].sid \in 0..Len(sess)
        BY <1>5, <3>1, <3>4
      <4> QED BY <1>5, <4>1
    <3> QED BY <3>2, <3>3, <3>4
  <2>2. \A c \in Client : conn[c] = "off" => queue'[c] = queue[c]
    BY <1>0, <1>7, PublishFacts
  <2> QED BY <1>6, <1>7, <2>1, <2>2
<1>8. CASE Quiet \/ TaskFinishes
  BY <1>6, <1>8 DEF Quiet, TaskFinishes, streamVars
<1>9. CASE Told
  <2>1. active' \in 0..Len(sess') /\ active' \in Nat
    BY <1>0 DEF SessType
  <2>2. Snap(active', bro') \in Ref /\ Snap(active', bro').sid = active'
    BY <1>9, <2>1 DEF Told, Snap, Ref
  <2> QED BY <1>7, <1>9, <2>1, <2>2 DEF Told
<1>10. CASE Pump
  <2>1. active \in 0..Len(sess') /\ active \in Nat /\ bro \in Bros
    BY <1>0, <1>5 DEF SessType, StreamType
  <2>2. Snap(active, bro) \in Ref /\ Snap(active, bro).sid = active
    BY <2>1, SnapFacts
  <2>3. CASE PumpEnds
    BY <1>6, <2>3 DEF PumpEnds
  <2>4. CASE SnapshotLoop(Snap(active, bro))
    BY <1>7, <2>1, <2>2, <2>4 DEF SnapshotLoop
  <2> QED BY <1>10, <2>3, <2>4 DEF Pump
<1>11. ASSUME NEW c \in Client, Connect(c) PROVE ViewsInv'
  <2> DEFINE v == Dump(Snap(active, bro))
  <2>1. active \in 0..Len(sess) /\ active \in Nat /\ bro \in Bros
    BY <1>0 DEF SessType, StreamType
  <2>2. v \in View /\ Known(v, sess)
    BY <1>0, <2>1, SnapFacts, DumpFacts
  <2>3. greet' = [greet EXCEPT ![c] = v] /\ queue' = [queue EXCEPT ![c] = <<>>] /\ shown' = shown
    BY <1>11 DEF Connect, Subscribe
  <2> HIDE DEF v
  <2>4. Known(v, sess')
    BY <1>1, <2>2
  <2>5. \A d \in Client : greet'[d] \in {greet[d], NoView} \/ Known(greet'[d], sess')
    BY <1>0, <2>3, <2>4 DEF StreamType
  <2>6. \A d \in Client : queue'[d] \in {queue[d], <<>>}
    BY <1>0, <2>3 DEF StreamType
  <2> QED BY <1>6, <2>3, <2>5, <2>6
<1>12. ASSUME NEW c \in Client, Greeting(c) \/ Disconnect(c) PROVE ViewsInv'
  <2>1. /\ shown' \in {[shown EXCEPT ![c] = greet[c]], [shown EXCEPT ![c] = NoView]}
        /\ greet' = [greet EXCEPT ![c] = NoView]
        /\ queue' \in {queue, [queue EXCEPT ![c] = <<>>]}
    BY <1>12 DEF Greeting, Greeted, Disconnect, Unsubscribe, GreetingFails, Gone
  <2>2. \A d \in Client : shown'[d] \in {shown[d], greet[d], NoView}
    BY <1>0, <2>1 DEF StreamType
  <2>3. \A d \in Client : greet'[d] \in {greet[d], NoView}
    BY <1>0, <2>1 DEF StreamType
  <2>4. \A d \in Client : queue'[d] \in {queue[d], <<>>}
    BY <1>0, <2>1 DEF StreamType
  <2> QED BY <1>6, <2>2, <2>3, <2>4
<1>13. ASSUME NEW c \in Client, Receive(c) PROVE ViewsInv'
  <2> DEFINE v == Dump(Head(queue[c]))
  <2>1. /\ v \in View /\ Known(v, sess) /\ shown' = [shown EXCEPT ![c] = v] /\ queue[c] \in Seq(Ref)
        /\ queue[c] # <<>> /\ queue' = [queue EXCEPT ![c] = Tail(queue[c])] /\ greet' = greet
    BY <1>0, <1>13, ReceiveFacts
  <2> HIDE DEF v
  <2>2. \A d \in Client : shown'[d] \in {shown[d]} \/ Known(shown'[d], sess')
    BY <1>0, <1>1, <2>1 DEF StreamType
  <2>3. \A i \in 1..Len(Tail(queue[c])) : Tail(queue[c])[i].sid \in 0..Len(sess')
    <3>1. \A i \in 1..Len(Tail(queue[c])) : i + 1 \in 1..Len(queue[c]) /\ Tail(queue[c])[i] = queue[c][i + 1]
      BY <2>1, TailFacts
    <3>2. \A i \in 1..Len(queue[c]) : queue[c][i].sid \in 0..Len(sess')
      BY <1>5
    <3> QED BY <3>1, <3>2
  <2>4. \A d \in Client : queue'[d] = IF d = c THEN Tail(queue[c]) ELSE queue[d]
    BY <1>0, <2>1 DEF StreamType
  <2>5. \A d \in Client : queue'[d] \in {queue[d], <<>>}
                          \/ \A i \in 1..Len(queue'[d]) : queue'[d][i].sid \in 0..Len(sess')
    BY <2>3, <2>4
  <2> QED BY <1>6, <2>1, <2>2, <2>5
<1> QED BY <1>8, <1>9, <1>10, <1>11, <1>12, <1>13, StreamCases

LEMMA TurnsStep ==
  ASSUME SessType, CallType, CallsInv, TurnsAreInDraft, Next
  PROVE  TurnsAreInDraft'
<1>1. SessType'
  BY SessStep
<1>2. Len(sess) \in Nat /\ DOMAIN sess = 1..Len(sess) /\ DOMAIN sess' = 1..Len(sess')
      /\ Len(sess') \in Nat
  BY <1>1 DEF SessType
<1>3. CASE Calm
  <2>1. FreshSession.turns = {}
    BY DEF FreshSession
  <2> SUFFICES ASSUME NEW i \in 1..Len(sess'), ~sess'[i].raced
               PROVE  sess'[i].turns \subseteq sess'[i].draft
    BY <1>2 DEF TurnsAreInDraft
  <2>2. CASE i \in 1..Len(sess)
    BY <1>2, <1>3, <2>2 DEF Calm, Keeps, TurnsAreInDraft
  <2>3. CASE i > Len(sess)
    BY <1>3, <2>1, <2>3 DEF Calm, Keeps
  <2> QED BY <1>2, <2>2, <2>3
<1>4. ASSUME NEW k \in Calls, Applied(k) PROVE TurnsAreInDraft'
  <2> DEFINE h == call[k]
  <2>1. /\ h \in Handler /\ h.stage = "rewrite" /\ h.sid \in 1..Len(sess)
        /\ Fresh(h, sess) /\ Len(sess') = Len(sess)
        /\ \A i \in 1..Len(sess) : i # h.sid => sess'[i] = sess[i]
        /\ sess'[h.sid].draft = h.given
        /\ sess'[h.sid].turns \subseteq sess[h.sid].turns \cup {h.text}
        /\ ~sess'[h.sid].raced => ~sess[h.sid].raced /\ sess[h.sid].rev = h.rev
    BY <1>4, AppliedSess
  <2> HIDE DEF h
  <2>2. ~sess'[h.sid].raced => sess'[h.sid].turns \subseteq sess'[h.sid].draft
    BY <2>1 DEF Fresh
  <2> QED BY <1>2, <2>1, <2>2 DEF TurnsAreInDraft
<1> QED BY <1>3, <1>4, CalmStep

\* A step prompts for the active draft at its revision, and not for the one
\* it prompted for last.
Prompts(x) == prompted # x /\ prompted' = x /\ said' = Append(said, x)

LEMMA PromptCases ==
  ASSUME SaidType, NEW kind, NEW s, NEW sid, NEW label, Prompt(kind, s, sid, label)
  PROVE  UNCHANGED <<said, prompted>> \/ Prompts(<<sid, s.rev>>)
<1>1. CASE kind = "final" /\ Speaks(s, sid, label)
  <2>1. prompted' = <<sid, s.rev>> /\ said' = Append(said, <<sid, s.rev>>)
    BY <1>1 DEF Prompt
  <2>2. prompted[1] # sid \/ prompted[2] # s.rev
    BY <1>1 DEF Speaks
  <2>3. prompted # <<sid, s.rev>>
    BY <2>2 DEF SaidType
  <2> QED BY <2>1, <2>3 DEF Prompts
<1>2. CASE ~(kind = "final" /\ Speaks(s, sid, label))
  BY <1>2 DEF Prompt
<1> QED BY <1>1, <1>2

LEMMA SaidCases ==
  ASSUME Types, CallsInv, Next
  PROVE  \/ UNCHANGED <<said, prompted>>
         \/ active' # 0 /\ Prompts(<<active', sess'[active'].rev>>)
<1>0. SessType /\ CallType /\ SaidType
  BY DEF Types
<1>1. ASSUME NEW t \in Text, NEW stamp \in Stamp, SttFinalReused(t, stamp)
      PROVE  UNCHANGED <<said, prompted>> \/ (active' # 0 /\ Prompts(<<active', sess'[active'].rev>>))
  <2>1. /\ Prompt("final", sess[active], active, sess[active].label) /\ active # 0 /\ active' = active
        /\ sess' = [sess EXCEPT ![active] = Checkpoint(@, stamp)]
    BY <1>1 DEF SttFinalReused, Reuses
  <2>2. active \in 1..Len(sess) /\ sess[active] \in Session
    BY <1>0, <2>1, SessFacts DEF SessType
  <2>3. Checkpoint(sess[active], stamp).rev = sess[active].rev
    BY <2>2 DEF Checkpoint, Session
  <2> DEFINE x == Checkpoint(sess[active], stamp)
  <2>4. sess' = [sess EXCEPT ![active] = x] /\ x.rev = sess[active].rev
    BY <2>1, <2>3
  <2> HIDE DEF x
  <2>5. sess'[active'].rev = sess[active].rev
    BY <1>0, <2>1, <2>2, <2>4 DEF SessType
  <2>6. UNCHANGED <<said, prompted>> \/ Prompts(<<active, sess[active].rev>>)
    BY <1>0, <2>1, PromptCases
  <2> QED BY <2>1, <2>5, <2>6
<1>2. ASSUME NEW k \in Calls, NEW label \in Labels, TooOld(k, label)
      PROVE  UNCHANGED <<said, prompted>> \/ (active' # 0 /\ Prompts(<<active', sess'[active'].rev>>))
  <2>1. /\ Prompt(call[k].kind, StagedPlan(sess[active]), active, label) /\ active # 0 /\ active' = active
        /\ sess' = [sess EXCEPT ![active] = StagedPlan(@)]
    BY <1>2 DEF TooOld, OldStamp, NeedsSession
  <2>2. active \in 1..Len(sess) /\ sess[active] \in Session
    BY <1>0, <2>1, SessFacts DEF SessType
  <2> DEFINE x == StagedPlan(sess[active])
  <2>3. sess' = [sess EXCEPT ![active] = x]
    BY <2>1
  <2> HIDE DEF x
  <2>4. sess'[active'] = x
    BY <1>0, <2>1, <2>2, <2>3 DEF SessType
  <2>5. Prompt(call[k].kind, x, active, label)
    BY <2>1 DEF x
  <2>6. UNCHANGED <<said, prompted>> \/ Prompts(<<active, x.rev>>)
    BY <1>0, <2>5, PromptCases
  <2> QED BY <2>1, <2>4, <2>6
<1>3. ASSUME NEW k \in Calls, Applied(k)
      PROVE  UNCHANGED <<said, prompted>> \/ (active' # 0 /\ Prompts(<<active', sess'[active'].rev>>))
  <2> DEFINE h == call[k]
             x == sess'[h.sid]
  <2>1. h.sid \in 1..Len(sess) /\ active' = h.sid /\ Prompt(h.kind, sess'[h.sid], h.sid, h.label)
    BY <1>0, <1>3, AppliedSess
  <2>2. UNCHANGED <<said, prompted>> \/ Prompts(<<h.sid, sess'[h.sid].rev>>)
    <3>1. CASE h.kind = "final" /\ Speaks(sess'[h.sid], h.sid, h.label)
      <4>1. prompted' = <<h.sid, sess'[h.sid].rev>> /\ said' = Append(said, <<h.sid, sess'[h.sid].rev>>)
        BY <2>1, <3>1 DEF Prompt
      <4>2. prompted[1] # h.sid \/ prompted[2] # sess'[h.sid].rev
        BY <3>1 DEF Speaks
      <4>3. prompted # <<h.sid, sess'[h.sid].rev>>
        BY <1>0, <4>2 DEF SaidType
      <4> QED BY <4>1, <4>3 DEF Prompts
    <3>2. CASE ~(h.kind = "final" /\ Speaks(sess'[h.sid], h.sid, h.label))
      BY <2>1, <3>2 DEF Prompt
    <3> QED BY <3>1, <3>2
  <2>3. h.sid # 0
    BY <1>0, <2>1 DEF SessType
  <2> QED BY <2>1, <2>2, <2>3
<1>4. ASSUME \/ \E t \in Text, by \in Client \cup {"http"} : AppendAsrTurn(t, by)
             \/ \E t \in Text : TextMessage(t)
             \/ \E t \in Text, stamp \in Stamp : SttPartial(t, stamp) \/ SttFinal(t, stamp)
             \/ \E k \in Calls : Failed(k)
      PROVE  UNCHANGED <<said, prompted>>
  BY <1>4, Zenon DEF AppendAsrTurn, TextMessage, SttPartial, SttFinal, Failed
<1>5. ASSUME NEW k \in Calls, NEW label \in Labels,
             \/ Ignored(k, label) \/ Confirmed(k, label) \/ ClearedByVoice(k, label)
             \/ StopsTask(k, label) \/ StartsRewrite(k, label)
      PROVE  UNCHANGED <<said, prompted>>
  BY <1>5, Zenon DEF Ignored, Confirmed, ClearedByVoice, StopsTask, StartsRewrite
<1>6. ASSUME NEW c \in Client,
             \/ \E act \in {"send", "any", "clear"}, via \in {"ws", "http"} : Click(c, act, via)
             \/ SendHandled(c) \/ ClearHandled(c)
             \/ Connect(c) \/ Greeting(c) \/ Receive(c) \/ Disconnect(c)
      PROVE  UNCHANGED <<said, prompted>>
  BY <1>6, Zenon DEF Click, SendHandled, ClearHandled, Connect, Greeting, Receive, Disconnect, draftVars
<1>7. ASSUME TaskFinishes \/ Pump PROVE UNCHANGED <<said, prompted>>
  BY <1>7, Zenon DEF TaskFinishes, Pump, draftVars
<1> QED BY <1>1, <1>2, <1>3, <1>4, <1>5, <1>6, <1>7, NextCases

LEMMA SaidStep ==
  ASSUME Types, CallsInv, SaidInv, Next
  PROVE  SaidType' /\ SaidInv'
<1>0. /\ SessType /\ CallType /\ SaidType /\ SessType' /\ Grows
      /\ \A i \in 1..Len(sess) : sess[i].rev \in Nat /\ sess'[i].rev \in Nat
      /\ Len(sess) \in Nat /\ Len(sess') \in Nat /\ Len(sess) <= Len(sess')
  <2>1. SessType /\ CallType /\ SaidType /\ SessType' /\ Grows
    BY SessStep DEF Types
  <2>2. \A i \in 1..Len(sess) : sess[i] \in Session /\ sess'[i] \in Session
    BY <2>1 DEF Grows
  <2>3. \A i \in 1..Len(sess) : sess[i].rev \in Nat /\ sess'[i].rev \in Nat
    BY <2>2 DEF Session
  <2>4. Len(sess) \in Nat /\ Len(sess') \in Nat /\ Len(sess) <= Len(sess')
    BY <2>1 DEF SessType, Grows
  <2> QED BY <2>1, <2>3, <2>4
<1> DEFINE p == <<active', sess'[active'].rev>>
<1>1. said \in Seq(Nat \X Nat) /\ DOMAIN said = 1..Len(said) /\ Len(said) \in Nat
  BY <1>0 DEF SaidType
<1>2. \A x \in SaidSet : x \in Nat \X Nat /\ x[1] \in 1..Len(sess) /\ x[2] <= sess[x[1]].rev
  <2>1. \A i \in DOMAIN said : said[i] \in Nat \X Nat
    BY <1>1
  <2>2. \A x \in SaidSet : x \in Nat \X Nat
    BY <2>1 DEF SaidSet
  <2> QED BY <2>2 DEF SaidInv
<1>3. \A x \in SaidSet : x[1] \in 1..Len(sess') /\ x[2] <= sess'[x[1]].rev
  <2> TAKE x \in SaidSet
  <2>1. x[1] \in 1..Len(sess) /\ x[2] \in Nat /\ x[2] <= sess[x[1]].rev
    BY <1>2
  <2>2. sess[x[1]].rev <= sess'[x[1]].rev
    BY <1>0, <2>1 DEF Grows
  <2> QED BY <1>0, <2>1, <2>2
<1>4. ASSUME active' # 0, p \in SaidSet PROVE prompted = p
  <2>1. CASE Calm
    <3>1. active' = active /\ active \in 1..Len(sess)
      BY <1>0, <1>4, <2>1 DEF Calm, SessType
    <3>2. sess'[active].rev = sess[active].rev
      BY <2>1, <3>1 DEF Calm, Keeps
    <3> QED BY <1>4, <3>1, <3>2 DEF SaidInv
  <2>2. ASSUME NEW k \in Calls, Applied(k) PROVE FALSE
    <3>1. active' \in 1..Len(sess) /\ sess'[active'].rev = sess[active'].rev + 1
      BY <1>0, <2>2, AppliedSess
    <3>2. sess'[active'].rev <= sess[active'].rev
      BY <1>2, <1>4
    <3> QED BY <1>0, <3>1, <3>2
  <2> QED BY <1>0, <2>1, <2>2, CalmStep
<1>5. CASE UNCHANGED <<said, prompted>>
  <2>1. SaidSet' = SaidSet /\ SaidType'
    BY <1>0, <1>5 DEF SaidSet, SaidType
  <2>2. active' # 0 /\ p \in SaidSet' => prompted' = p
    BY <1>4, <1>5, <2>1
  <2> QED BY <1>3, <1>5, <2>1, <2>2 DEF SaidInv
<1>6. CASE active' # 0 /\ Prompts(p)
  <2>1. active' \in 1..Len(sess')
    BY <1>0, <1>6 DEF SessType
  <2>2. p \in Nat \X Nat /\ p[1] = active' /\ p[2] = sess'[active'].rev
    <3>1. sess'[active'] \in Session /\ active' \in Nat
      BY <1>0, <2>1 DEF SessType
    <3>2. sess'[active'].rev \in Nat
      BY <3>1 DEF Session
    <3> QED BY <3>1, <3>2
  <2>3. p \notin SaidSet
    BY <1>4, <1>6 DEF Prompts
  <2> HIDE DEF p
  <2>4. said' = Append(said, p) /\ prompted' = p
    BY <1>6 DEF Prompts
  <2>5. /\ said' \in Seq(Nat \X Nat) /\ Len(said') = Len(said) + 1 /\ DOMAIN said' = 1..(Len(said) + 1)
        /\ said'[Len(said) + 1] = p /\ \A i \in 1..Len(said) : said'[i] = said[i]
    BY <1>1, <2>2, <2>4
  <2>6. SaidSet' = SaidSet \cup {p}
    <3>1. SaidSet' = {said'[i] : i \in 1..(Len(said) + 1)}
      BY <2>5 DEF SaidSet
    <3>2. SaidSet = {said[i] : i \in 1..Len(said)}
      BY <1>1 DEF SaidSet
    <3>3. ASSUME NEW i \in 1..(Len(said) + 1) PROVE said'[i] \in SaidSet \cup {p}
      <4>1. CASE i \in 1..Len(said)
        BY <2>5, <3>2, <4>1
      <4>2. CASE i = Len(said) + 1
        BY <2>5, <4>2
      <4> QED BY <1>1, <3>3, <4>1, <4>2
    <3>4. ASSUME NEW i \in 1..Len(said) PROVE said[i] \in SaidSet'
      <4>1. i \in 1..(Len(said) + 1) /\ said'[i] = said[i]
        BY <1>1, <2>5, <3>4
      <4> QED BY <3>1, <4>1
    <3>5. p \in SaidSet'
      <4>1. Len(said) + 1 \in 1..(Len(said) + 1)
        BY <1>1
      <4> QED BY <2>5, <3>1, <4>1
    <3> QED BY <3>1, <3>2, <3>3, <3>4, <3>5
  <2>7. IsFiniteSet(SaidSet') /\ Cardinality(SaidSet') = Len(said')
    <3>1. IsFiniteSet(SaidSet) /\ Cardinality(SaidSet) = Len(said)
      BY DEF SaidInv
    <3>2. IsFiniteSet(SaidSet \cup {p}) /\ Cardinality(SaidSet \cup {p}) = Cardinality(SaidSet) + 1
      BY <2>3, <3>1, FS_AddElement
    <3> QED BY <2>5, <2>6, <3>1, <3>2
  <2>8. \A x \in SaidSet' : x[1] \in 1..Len(sess') /\ x[2] <= sess'[x[1]].rev
    <3>1. p[2] <= sess'[p[1]].rev /\ p[1] \in 1..Len(sess')
      BY <2>1, <2>2
    <3> QED BY <1>3, <2>6, <3>1
  <2>9. SaidType'
    BY <2>2, <2>4, <2>5 DEF SaidType
  <2>10. (active # 0 /\ <<active, sess[active].rev>> \in SaidSet => prompted = <<active, sess[active].rev>>)'
    BY <2>4 DEF p
  <2> QED BY <2>7, <2>8, <2>9, <2>10 DEF SaidInv
<1> QED BY <1>5, <1>6, SaidCases

-----------------------------------------------------------------------------
(* What clients show *)

LEMMA StreamStep ==
  ASSUME Types, ViewsInv, CallsInv, StreamInv, Next
  PROVE  StreamInv'
<1>0. SessType /\ CallType /\ StreamType /\ active \in 0..Len(sess) /\ Len(sess) \in Nat /\ active \in Nat
  BY DEF Types, SessType
<1>1. /\ conn \in [Client -> {"off", "greeting", "on"}] /\ queue \in [Client -> Seq(Ref)]
      /\ greet \in [Client -> View] /\ shown \in [Client -> View] /\ bro \in Bros
      /\ dirty \in BOOLEAN /\ pump \in {"off", "on", "cancelled"}
  BY <1>0 DEF StreamType
<1>2. /\ pump = "off" => \A c \in Client : conn[c] # "off" => c \in lapsed
      /\ \A c \in Client : conn[c] = "on" => UpToDate(c, shown[c])
      /\ \A c \in Client : conn[c] = "greeting" => UpToDate(c, greet[c])
  BY DEF StreamInv, Subscribers
<1>3. ASSUME pump' = "off" => \A c \in Client : conn'[c] # "off" => c \in lapsed',
             \A c \in Client : (conn[c] = "on" => UpToDate(c, shown[c]))'
                               /\ (conn[c] = "greeting" => UpToDate(c, greet[c]))'
      PROVE  StreamInv'
  BY <1>3 DEF StreamInv, Subscribers
<1>4. CASE Quiet
  <2>1. UNCHANGED <<conn, queue, greet, shown, pump, dirty, lapsed, bro>> /\ active' \in {0, active}
    BY <1>4 DEF Quiet, streamVars, Calm
  <2>2. active' # 0 => active' = active /\ sess'[active'].rev = sess[active].rev
                       /\ sess'[active'].draft = sess[active].draft
    BY <1>0, <1>4, <2>1 DEF Quiet, Calm, Keeps
  <2>3. ASSUME NEW c \in Client, conn[c] = "on" PROVE UpToDate(c, shown[c])'
    BY <1>2, <2>1, <2>2, <2>3 DEF UpToDate
  <2>4. ASSUME NEW c \in Client, conn[c] = "greeting" PROVE UpToDate(c, greet[c])'
    BY <1>2, <2>1, <2>2, <2>4 DEF UpToDate
  <2> QED BY <1>2, <1>3, <2>1, <2>3, <2>4
<1>5. ASSUME NEW r \in Ref, Publish(r), r.sid = active', r.bro = bro',
             UNCHANGED <<conn, greet, shown, pump, leaked, lapsed>>
      PROVE  StreamInv'
  <2>1. ASSUME NEW c \in Client, conn[c] # "off"
        PROVE  UpToDate(c, shown[c])' /\ UpToDate(c, greet[c])'
    <3>1. queue'[c] # <<>> /\ queue'[c][Len(queue'[c])] = r
      BY <1>0, <1>5, <2>1, PublishFacts
    <3> QED BY <1>5, <3>1 DEF UpToDate
  <2> QED BY <1>2, <1>3, <1>5, <2>1
<1>6. CASE Told
  <2>1. active' \in Nat /\ bro' \in Bros
    BY <1>6, SessStep DEF Told, Types, SessType
  <2>2. Snap(active', bro') \in Ref /\ Snap(active', bro').sid = active' /\ Snap(active', bro').bro = bro'
    BY <2>1 DEF Snap, Ref
  <2> QED BY <1>5, <1>6, <2>2 DEF Told
<1>7. CASE SnapshotLoop(Snap(active, bro)) /\ UNCHANGED draftVars
  <2>1. Snap(active, bro) \in Ref /\ Snap(active, bro).sid = active /\ Snap(active, bro).bro = bro
    BY <1>0, <1>1, SnapFacts
  <2> QED BY <1>5, <1>7, <2>1 DEF SnapshotLoop, draftVars
<1>8. CASE TaskFinishes
  <2>1. /\ dirty' = (pump # "off") /\ UNCHANGED <<conn, queue, greet, shown, pump, lapsed, active, sess>>
    BY <1>8 DEF TaskFinishes, BlackboardWrite
  <2>2. ASSUME NEW c \in Client, conn[c] # "off" PROVE ~(c \notin lapsed' /\ ~dirty')
    BY <1>2, <2>1, <2>2
  <2>3. ASSUME NEW c \in Client, conn[c] = "on" PROVE UpToDate(c, shown[c])'
    BY <1>2, <2>1, <2>2, <2>3 DEF UpToDate
  <2>4. ASSUME NEW c \in Client, conn[c] = "greeting" PROVE UpToDate(c, greet[c])'
    BY <1>2, <2>1, <2>2, <2>4 DEF UpToDate
  <2> QED BY <1>2, <1>3, <2>1, <2>3, <2>4
<1>9. CASE PumpEnds /\ UNCHANGED draftVars
  <2>1. /\ dirty' = FALSE /\ UNCHANGED <<conn, queue, greet, shown, active, sess, bro>>
        /\ \A c \in Client : conn[c] # "off" => c \in lapsed'
    BY <1>9 DEF PumpEnds, draftVars, Subscribers
  <2>2. ASSUME NEW c \in Client, conn[c] = "on" PROVE UpToDate(c, shown[c])'
    BY <1>2, <2>1, <2>2 DEF UpToDate
  <2>3. ASSUME NEW c \in Client, conn[c] = "greeting" PROVE UpToDate(c, greet[c])'
    BY <1>2, <2>1, <2>3 DEF UpToDate
  <2> QED BY <1>3, <2>1, <2>2, <2>3
\* A step of one client leaves the others as they are.
<1>10. ASSUME NEW c \in Client, UNCHANGED <<sess, active, bro, dirty>>,
              \A d \in Client \ {c} : /\ conn'[d] = conn[d] /\ queue'[d] = queue[d] /\ shown'[d] = shown[d]
                                     /\ greet'[d] = greet[d] /\ (d \in lapsed <=> d \in lapsed'),
              pump' = "off" => \A d \in Client : conn'[d] # "off" => d \in lapsed',
              (conn[c] = "on" => UpToDate(c, shown[c]))', (conn[c] = "greeting" => UpToDate(c, greet[c]))'
       PROVE  StreamInv'
  <2>1. ASSUME NEW d \in Client \ {c}, conn[d] = "on" PROVE UpToDate(d, shown[d])'
    BY <1>2, <1>10, <2>1 DEF UpToDate
  <2>2. ASSUME NEW d \in Client \ {c}, conn[d] = "greeting" PROVE UpToDate(d, greet[d])'
    BY <1>2, <1>10, <2>2 DEF UpToDate
  <2> QED BY <1>3, <1>10, <2>1, <2>2
<1>11. ASSUME NEW c \in Client, Connect(c) PROVE StreamInv'
  <2> DEFINE v == Dump(Snap(active, bro))
  <2>1. /\ conn' = [conn EXCEPT ![c] = "greeting"] /\ queue' = [queue EXCEPT ![c] = <<>>]
        /\ greet' = [greet EXCEPT ![c] = v] /\ pump' # "off"
        /\ UNCHANGED <<shown, dirty, lapsed, sess, active, bro>>
    BY <1>11 DEF Connect, Subscribe, draftVars
  <2>2. /\ v.sid = active /\ v.bro = bro
        /\ active # 0 => v.rev = sess[active].rev /\ v.draft = sess[active].draft
    BY <1>0, <1>1, SnapFacts, DumpFacts
  <2> HIDE DEF v
  <2>3. /\ conn'[c] = "greeting" /\ queue'[c] = <<>> /\ greet'[c] = v
        /\ \A d \in Client \ {c} : conn'[d] = conn[d] /\ queue'[d] = queue[d] /\ greet'[d] = greet[d]
    BY <1>1, <2>1
  <2>4. UpToDate(c, greet[c])'
    BY <2>1, <2>2, <2>3 DEF UpToDate
  <2> QED BY <1>10, <2>1, <2>3, <2>4
<1>12. ASSUME NEW c \in Client, Greeting(c) PROVE StreamInv'
  <2>1. /\ conn[c] = "greeting" /\ conn' = [conn EXCEPT ![c] = "on"] /\ shown' = [shown EXCEPT ![c] = greet[c]]
        /\ greet' = [greet EXCEPT ![c] = NoView]
        /\ UNCHANGED <<queue, pump, dirty, lapsed, sess, active, bro>>
    BY <1>12 DEF Greeting, Greeted, draftVars
  <2>2. /\ conn'[c] = "on" /\ shown'[c] = greet[c]
        /\ \A d \in Client \ {c} : conn'[d] = conn[d] /\ shown'[d] = shown[d] /\ greet'[d] = greet[d]
    BY <1>1, <2>1
  <2>3. UpToDate(c, shown[c])'
    BY <1>2, <2>1, <2>2 DEF UpToDate
  <2>4. pump' = "off" => \A d \in Client : conn'[d] # "off" => d \in lapsed'
    BY <1>2, <2>1, <2>2
  <2> QED BY <1>10, <2>1, <2>2, <2>3, <2>4
<1>13. ASSUME NEW c \in Client, Receive(c) PROVE StreamInv'
  <2> DEFINE q == queue[c]
             v == Dump(Head(q))
  <2>1. /\ conn[c] = "on" /\ q \in Seq(Ref) /\ q # <<>> /\ Head(q) \in Ref /\ Head(q).sid \in 0..Len(sess)
        /\ shown' = [shown EXCEPT ![c] = v] /\ queue' = [queue EXCEPT ![c] = Tail(q)]
        /\ UNCHANGED <<conn, greet, pump, dirty, lapsed, sess, active, bro>>
    BY <1>0, <1>13, ReceiveFacts DEF draftVars
  <2>2. /\ v.sid = Head(q).sid /\ v.bro = Head(q).bro
        /\ Head(q).sid # 0 => v.rev = sess[Head(q).sid].rev /\ v.draft = sess[Head(q).sid].draft
    BY <1>0, <2>1, DumpFacts
  <2>3. /\ Tail(q) = <<>> => q[Len(q)] = Head(q)
        /\ Tail(q) # <<>> => Tail(q)[Len(Tail(q))] = q[Len(q)]
    BY <2>1, TailFacts
  <2>4. /\ active # 0 => q[Len(q)].sid = active
        /\ c \notin lapsed /\ ~dirty => q[Len(q)].bro = bro
    BY <1>2, <2>1 DEF UpToDate
  <2> HIDE DEF v
  <2>5. /\ shown'[c] = v /\ queue'[c] = Tail(q)
        /\ \A d \in Client \ {c} : shown'[d] = shown[d] /\ queue'[d] = queue[d]
    BY <1>1, <2>1
  <2> HIDE DEF q
  <2>6. UpToDate(c, shown[c])'
    BY <2>1, <2>2, <2>3, <2>4, <2>5 DEF UpToDate
  <2>7. pump' = "off" => \A d \in Client : conn'[d] # "off" => d \in lapsed'
    BY <1>2, <2>1
  <2> QED BY <1>10, <2>1, <2>5, <2>6, <2>7
<1>14. ASSUME NEW c \in Client, Disconnect(c) PROVE StreamInv'
  <2>1. /\ conn' = [conn EXCEPT ![c] = "off"] /\ queue' = [queue EXCEPT ![c] = <<>>]
        /\ greet' = [greet EXCEPT ![c] = NoView] /\ shown' = [shown EXCEPT ![c] = NoView]
        /\ lapsed' = lapsed \ {c} /\ (pump' = "off" => pump = "off")
        /\ UNCHANGED <<dirty, sess, active, bro>>
    BY <1>14 DEF Disconnect, Unsubscribe, GreetingFails, Gone
  <2>2. /\ conn'[c] = "off"
        /\ \A d \in Client \ {c} : /\ conn'[d] = conn[d] /\ queue'[d] = queue[d] /\ shown'[d] = shown[d]
                                   /\ greet'[d] = greet[d] /\ (d \in lapsed <=> d \in lapsed')
    BY <1>1, <2>1
  <2>3. pump' = "off" => \A d \in Client : conn'[d] # "off" => d \in lapsed'
    BY <1>2, <2>1, <2>2
  <2> QED BY <1>10, <2>1, <2>2, <2>3
<1> QED BY <1>4, <1>6, <1>7, <1>8, <1>9, <1>11, <1>12, <1>13, <1>14, StreamCases DEF Pump

-----------------------------------------------------------------------------
(* The theorems *)

LEMMA IInvStep == IInv /\ [Next]_vars => IInv'
<1> SUFFICES ASSUME IInv, [Next]_vars PROVE IInv'
  OBVIOUS
<1>1. CASE Next
  <2>1. /\ Types /\ SessType /\ CallType /\ ViewsInv /\ CallsInv
        /\ ConfirmedIsSent /\ TurnsAreInDraft /\ SaidInv /\ StreamInv
    BY DEF IInv, Types
  <2>2. SessType' /\ CallType' /\ CallsInv'
    BY <1>1, <2>1, SessStep, CallsStep
  <2>3. StreamType' /\ StreamInv'
    BY <1>1, <2>1, StreamTypeStep, StreamStep
  <2>4. ClickType' /\ ConfirmedIsSent' /\ ViewsInv'
    BY <1>1, <2>1, TasksStep, ViewsStep
  <2>5. TurnsAreInDraft'
    BY <1>1, <2>1, TurnsStep
  <2>6. SaidType' /\ SaidInv'
    BY <1>1, <2>1, SaidStep
  <2> QED BY <2>2, <2>3, <2>4, <2>5, <2>6 DEF IInv, Types
<1>2. CASE UNCHANGED vars
  <2> USE <1>2 DEF vars, draftVars, streamVars
  <2>1. Types'
    BY DEF IInv, Types, SessType, CallType, StreamType, ClickType, SaidType
  <2>2. ViewsInv' /\ CallsInv'
    BY DEF IInv, ViewsInv, CallsInv
  <2>3. ConfirmedIsSent' /\ TurnsAreInDraft'
    BY DEF IInv, ConfirmedIsSent, TurnsAreInDraft
  <2>4. SaidInv'
    BY DEF IInv, SaidInv, SaidSet
  <2>5. StreamInv'
    BY DEF IInv, StreamInv, UpToDate, Subscribers
  <2> QED BY <2>1, <2>2, <2>3, <2>4, <2>5 DEF IInv
<1> QED BY <1>1, <1>2

LEMMA ShownFromIInv == IInv => ShownAtRest
<1> SUFFICES ASSUME IInv PROVE ShownAtRest
  OBVIOUS
<1>0. SessType /\ StreamType /\ StreamInv
  BY DEF IInv, Types
<1> SUFFICES ASSUME NEW c \in Client, conn[c] = "on", queue[c] = <<>>
             PROVE  /\ active # 0 => shown[c] = [Dump(Snap(active, bro)) EXCEPT !.bro = shown[c].bro]
                    /\ c \notin lapsed /\ ~dirty => shown[c].bro = bro
  BY DEF ShownAtRest
<1>1. UpToDate(c, shown[c]) /\ shown[c] \in View
  BY <1>0 DEF StreamInv, StreamType
<1>2. c \notin lapsed /\ ~dirty => shown[c].bro = bro
  BY <1>1 DEF UpToDate
<1>3. ASSUME active # 0 PROVE shown[c] = [Dump(Snap(active, bro)) EXCEPT !.bro = shown[c].bro]
  <2> DEFINE v == shown[c]
             w == Dump(Snap(active, bro))
  <2>1. w \in View /\ w.sid = active /\ w.rev = sess[active].rev /\ w.draft = sess[active].draft
    BY <1>0, <1>3, SnapFacts, DumpFacts, SMTT(30) DEF SessType, StreamType
  <2>2. v \in View /\ v.sid = active /\ v.rev = sess[active].rev /\ v.draft = sess[active].draft
    BY <1>1, <1>3 DEF UpToDate
  <2> HIDE DEF v, w
  <2>3. v = [w EXCEPT !.bro = v.bro]
    BY <2>1, <2>2 DEF View
  <2> QED BY <2>3 DEF v, w
<1> QED BY <1>2, <1>3

\* Whatever utterances, model answers, clicks and reconnections come, the
\* inductive invariant holds: what a client or a request names was a revision
\* of a draft, and has its text while it is the present one; a rewrite that was
\* not overtaken was given all of its draft; the events queued last tell how
\* things are (DraftSessionManager, RuntimeSession.send_draft, session_stream).
THEOREM DraftsInvariant == Spec => []IInv
BY IInvInit, IInvStep, PTL DEF Spec

\* A task sent by a request that names a draft revision holds exactly the text
\* its client was shown (RuntimeSession.send_draft, confirm_active_dispatch).
THEOREM SentAsShown == Spec => []ConfirmedIsSent
<1>1. IInv => ConfirmedIsSent
  BY DEF IInv
<1> QED BY <1>1, DraftsInvariant, PTL

\* The turns listed with a draft are in its text unless rewrites of the session
\* overlapped (DraftSessionManager.append_asr_turn).
THEOREM NoTurnLost == Spec => []TurnsAreInDraft
<1>1. IInv => TurnsAreInDraft
  BY DEF IInv
<1> QED BY <1>1, DraftsInvariant, PTL

\* A client that has drained its queue shows the active draft as it is
\* (session_stream, publish_snapshot, _snapshot_loop).
THEOREM ClientsCatchUp == Spec => []ShownAtRest
BY ShownFromIInv, DraftsInvariant, PTL

\* A final transcript asks for confirmation once per revision
\* (_should_speak_for_live_draft_decision).
THEOREM NoRepeatedPrompt == Spec => []PromptedOncePerRevision
<1>1. IInv => PromptedOncePerRevision
  BY DEF IInv, SaidInv, SaidSet, PromptedOncePerRevision
<1> QED BY <1>1, DraftsInvariant, PTL
=============================================================================
