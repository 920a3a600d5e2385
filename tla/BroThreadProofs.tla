--------------------------- MODULE BroThreadProofs ---------------------------
(***************************************************************************)
(* Proofs about what a client sees of a Bro's Codex thread.                *)
(*                                                                         *)
(* ThreadSubscriptions, for any calls, threads and bounds: a subscription  *)
(* that is given up has its stop on the way to the node behind everything  *)
(* that could set it up, the selected one is never stopped, and what the   *)
(* app server feeds agrees with what the node streams.                     *)
(*                                                                         *)
(* ThreadTimeline, for any turns, requests and items: the entries that the *)
(* two channels and the history pages leave are one per turn, none shows   *)
(* commentary as an answer, and a final answer is shown and stays shown.   *)
(***************************************************************************)
EXTENDS ThreadSubscriptions, ThreadTimeline, FiniteSetTheorems, SequenceTheorems,
        WellFoundedInduction, TLAPS

-----------------------------------------------------------------------------
(***************************************************************************)
(* ThreadSubscriptions                                                     *)
(***************************************************************************)

-----------------------------------------------------------------------------
(* The invariant *)

Request == {"sub", "unsub"} \X Subs
AppRequest == {"resume", "unsub"} \X Subs
CallRange == [pc : Pcs, op : {"subscribe", "unsubscribe"},
              thread : Threads \cup {AnyThread}, sub : 0..MaxSubs]
BgRange == {"none", "created", "waiting", "done"}
TaskRange == {"none", "created", "resuming", "streaming", "dead"}
SweepRange == [left : SUBSET Subs, now : 0..MaxSubs]

Types ==
  /\ selected \in 0..MaxSubs /\ made \in 0..MaxSubs
  /\ call \in [Calls -> CallRange]
  /\ bg \in [Subs -> BgRange]
  /\ conn \in BOOLEAN /\ link \in BOOLEAN /\ node \in {"ready", "cleaning", "away"}
  /\ down \in Seq(Request) /\ cmds \in Seq(Request) /\ rpc \in Seq(AppRequest)
  /\ ctx \subseteq Subs /\ since \subseteq Subs /\ task \in [Subs -> TaskRange] /\ sweep \in SweepRange

\* m is one of the messages of q.
Has(q, m) == \E i \in 1..Len(q) : q[i] = m

\* Every request of q to set s up is followed by one to stop it.
Followed(q, s) ==
  \A i \in 1..Len(q) : q[i] = <<"sub", s>> => \E j \in i + 1..Len(q) : q[j] = <<"unsub", s>>

\* The subscription of a call under way has been made.
Active == {"subscribing", "cleanup", "stopping"}
CallsAreMade == \A c \in Calls : call[c].pc \in Active => call[c].sub \in 1..made

\* A subscription whose stop is in the background or on its way was replaced
\* or given up.
BeingStopped(s) == bg[s] # "none" \/ Has(cmds, <<"unsub", s>>) \/ Has(down, <<"unsub", s>>)
StoppedIsPast == \A s \in Subs : BeingStopped(s) => s # selected /\ s <= made

\* A node that noticed the loss has the subscriptions it knew on its list, but
\* for those a command set up meanwhile.
WireInv ==
  /\ selected <= made
  /\ ~conn => ~link /\ since = {}
  /\ node # "ready" => ~link /\ down = <<>>
  /\ node = "cleaning" => ctx \ late \subseteq sweep.left
  /\ node = "away" => ctx \subseteq late /\ cmds = <<>>

\* The stop of s has yet to be sent, or the loss of the websocket will do.
StopDue(s) == bg[s] = "created" \/ ~link

\* The stop of a subscription that is not selected comes after whatever sets
\* it up at the node.
StopInv ==
  \A s \in Subs : s # selected /\ ~StopDue(s) =>
    /\ s \in ctx \ late => Has(cmds, <<"unsub", s>>) \/ Has(down, <<"unsub", s>>)
    /\ Followed(cmds, s) \/ Has(down, <<"unsub", s>>)
    /\ Followed(down, s)

\* The selected subscription is on its way to the node, or the node streams it
\* or is about to.
Served(s) ==
  \/ Has(cmds, <<"sub", s>>) \/ Has(down, <<"sub", s>>)
  \/ /\ s \in ctx
     /\ \/ task[s] \in {"created", "streaming"}
        \/ task[s] = "resuming" /\ Has(rpc, <<"resume", s>>)
ServedInv == link /\ selected \in since => Served(selected)

IInv == /\ Types /\ CallsAreMade /\ StoppedIsPast /\ WireInv
        /\ StopInv /\ ServedInv

USE SubscriptionAssumption DEF SubscriptionAssumption, None

-----------------------------------------------------------------------------
(* Facts about the messages of a sequence *)

LEMMA AppendHas ==
  ASSUME NEW S, NEW q \in Seq(S), NEW m \in S, NEW x
  PROVE  /\ Append(q, m) \in Seq(S)
         /\ Has(Append(q, m), x) <=> Has(q, x) \/ x = m
<1>1. /\ Append(q, m) \in Seq(S) /\ Len(Append(q, m)) = Len(q) + 1 /\ Len(q) \in Nat
      /\ \A i \in 1..Len(q) : Append(q, m)[i] = q[i]
      /\ Append(q, m)[Len(q) + 1] = m
  OBVIOUS
<1>2. Has(Append(q, m), x) => Has(q, x) \/ x = m
  <2>1. SUFFICES ASSUME NEW i \in 1..Len(q) + 1, Append(q, m)[i] = x
                 PROVE  Has(q, x) \/ x = m
    BY <1>1 DEF Has
  <2>2. i \in 1..Len(q) \/ i = Len(q) + 1
    BY <1>1
  <2> QED BY <1>1, <2>1, <2>2 DEF Has
<1>3. Has(q, x) => Has(Append(q, m), x)
  BY <1>1 DEF Has
<1>4. x = m => Has(Append(q, m), x)
  <2>1. Len(q) + 1 \in 1..Len(Append(q, m))
    BY <1>1
  <2> QED BY <1>1, <2>1 DEF Has
<1> QED BY <1>1, <1>2, <1>3, <1>4

LEMMA TailHas ==
  ASSUME NEW S, NEW q \in Seq(S), q # <<>>, NEW x
  PROVE  /\ Tail(q) \in Seq(S) /\ Head(q) \in S
         /\ Has(q, x) <=> Has(Tail(q), x) \/ x = Head(q)
<1>1. /\ Tail(q) \in Seq(S) /\ Len(Tail(q)) = Len(q) - 1 /\ Len(q) \in Nat \ {0}
      /\ Head(q) = q[1] /\ Head(q) \in S
      /\ \A i \in 1..Len(q) - 1 : Tail(q)[i] = q[i + 1]
  OBVIOUS
<1>2. Has(q, x) => Has(Tail(q), x) \/ x = Head(q)
  <2>1. SUFFICES ASSUME NEW i \in 1..Len(q), q[i] = x, i # 1
                 PROVE  Has(Tail(q), x)
    BY <1>1 DEF Has
  <2>2. i - 1 \in 1..Len(Tail(q)) /\ Tail(q)[i - 1] = q[i]
    BY <1>1, <2>1
  <2> QED BY <2>1, <2>2 DEF Has
<1>3. Has(Tail(q), x) => Has(q, x)
  <2>1. SUFFICES ASSUME NEW i \in 1..Len(q) - 1, Tail(q)[i] = x
                 PROVE  Has(q, x)
    BY <1>1 DEF Has
  <2>2. i + 1 \in 1..Len(q) /\ q[i + 1] = x
    BY <1>1, <2>1
  <2> QED BY <2>2 DEF Has
<1>4. x = Head(q) => Has(q, x)
  <2>1. 1 \in 1..Len(q)
    BY <1>1
  <2> QED BY <1>1, <2>1 DEF Has
<1> QED BY <1>1, <1>2, <1>3, <1>4

\* A stop at the end follows everything before it; any other message but the
\* request itself changes nothing.
LEMMA AppendFollowed ==
  ASSUME NEW S, NEW q \in Seq(S), NEW m \in S, NEW s
  PROVE  /\ m = <<"unsub", s>> => Followed(Append(q, m), s)
         /\ m # <<"sub", s>> /\ Followed(q, s) => Followed(Append(q, m), s)
<1>1. /\ Len(Append(q, m)) = Len(q) + 1 /\ Len(q) \in Nat
      /\ \A i \in 1..Len(q) : Append(q, m)[i] = q[i]
      /\ Append(q, m)[Len(q) + 1] = m
  OBVIOUS
<1>2. ASSUME m = <<"unsub", s>>, NEW i \in 1..Len(q) + 1, Append(q, m)[i] = <<"sub", s>>
      PROVE  \E j \in i + 1..Len(q) + 1 : Append(q, m)[j] = <<"unsub", s>>
  <2>1. i # Len(q) + 1
    BY <1>1, <1>2
  <2>2. Len(q) + 1 \in i + 1..Len(q) + 1
    BY <1>1, <2>1
  <2> QED BY <1>1, <1>2, <2>2
<1>3. ASSUME m # <<"sub", s>>, Followed(q, s), NEW i \in 1..Len(q) + 1,
             Append(q, m)[i] = <<"sub", s>>
      PROVE  \E j \in i + 1..Len(q) + 1 : Append(q, m)[j] = <<"unsub", s>>
  <2>9. i # Len(q) + 1
    BY <1>1, <1>3
  <2>1. i \in 1..Len(q) /\ q[i] = <<"sub", s>>
    BY <1>1, <1>3, <2>9
  <2>2. PICK j \in i + 1..Len(q) : q[j] = <<"unsub", s>>
    BY <1>3, <2>1 DEF Followed
  <2>3. /\ j \in 1..Len(q)
        /\ j \in i + 1..Len(q) + 1
    BY <1>1, <2>1, <2>2
  <2> QED BY <1>1, <2>2, <2>3
<1>4. m = <<"unsub", s>> => Followed(Append(q, m), s)
  BY <1>1, <1>2 DEF Followed
<1>5. m # <<"sub", s>> /\ Followed(q, s) => Followed(Append(q, m), s)
  <2> SUFFICES ASSUME m # <<"sub", s>>, Followed(q, s),
                      NEW i \in 1..Len(q) + 1, Append(q, m)[i] = <<"sub", s>>
               PROVE  \E j \in i + 1..Len(q) + 1 : Append(q, m)[j] = <<"unsub", s>>
    BY <1>1 DEF Followed
  <2> QED BY <1>3
<1> QED BY <1>4, <1>5

LEMMA TailFollowed ==
  ASSUME NEW S, NEW q \in Seq(S), q # <<>>, NEW s, Followed(q, s)
  PROVE  /\ Followed(Tail(q), s)
         /\ Head(q) = <<"sub", s>> => Has(Tail(q), <<"unsub", s>>)
<1>1. /\ Len(Tail(q)) = Len(q) - 1 /\ Len(q) \in Nat \ {0}
      /\ Head(q) = q[1]
      /\ \A i \in 1..Len(q) - 1 : Tail(q)[i] = q[i + 1]
  OBVIOUS
<1>2. ASSUME NEW i \in 1..Len(q), q[i] = <<"sub", s>>
      PROVE  \E j \in i..Len(q) - 1 : Tail(q)[j] = <<"unsub", s>>
  <2>1. PICK k \in i + 1..Len(q) : q[k] = <<"unsub", s>>
    BY <1>2 DEF Followed
  <2>2. k - 1 \in i..Len(q) - 1 /\ k - 1 \in 1..Len(q) - 1
    BY <1>1, <2>1
  <2>3. Tail(q)[k - 1] = <<"unsub", s>>
    BY <1>1, <2>1, <2>2
  <2> QED BY <2>2, <2>3
<1>3. Followed(Tail(q), s)
  <2>1. SUFFICES ASSUME NEW i \in 1..Len(q) - 1, Tail(q)[i] = <<"sub", s>>
                 PROVE  \E j \in i + 1..Len(q) - 1 : Tail(q)[j] = <<"unsub", s>>
    BY <1>1 DEF Followed
  <2>2. i + 1 \in 1..Len(q) /\ q[i + 1] = <<"sub", s>>
    BY <1>1, <2>1
  <2> QED BY <1>2, <2>2
<1>4. Head(q) = <<"sub", s>> => Has(Tail(q), <<"unsub", s>>)
  <2>1. 1 \in 1..Len(q)
    BY <1>1
  <2>2. q[1] = <<"sub", s>> => \E j \in 1..Len(q) - 1 : Tail(q)[j] = <<"unsub", s>>
    BY <1>2, <2>1
  <2> QED BY <1>1, <2>2 DEF Has
<1> QED BY <1>3, <1>4

LEMMA NothingQueued ==
  ASSUME NEW s, NEW x
  PROVE  ~Has(<<>>, x) /\ Followed(<<>>, s)
BY DEF Has, Followed

-----------------------------------------------------------------------------
(* Steps that neither select, send, nor change what the node knows *)

\* The calls under way after the step have their subscriptions from before it.
CallsGoOn ==
  /\ call' \in [Calls -> CallRange]
  /\ \A c \in Calls : call'[c].pc \in Active => call'[c].sub \in 1..made

\* One call moves on.
LEMMA CallMoves ==
  ASSUME IInv, NEW c \in Calls, NEW r \in CallRange, call' = [call EXCEPT ![c] = r],
         r.pc \in Active => r.sub \in 1..made
  PROVE  CallsGoOn
<1>1. call \in [Calls -> CallRange]
  BY DEF IInv, Types
<1>2. call' \in [Calls -> CallRange]
  BY <1>1
<1>3. ASSUME NEW d \in Calls, call'[d].pc \in Active PROVE call'[d].sub \in 1..made
  <2>1. CASE d = c
    BY <1>1, <1>3, <2>1
  <2>2. CASE d # c
    BY <1>1, <1>3, <2>2 DEF IInv, CallsAreMade
  <2> QED BY <2>1, <2>2
<1> QED BY <1>2, <1>3 DEF CallsGoOn

LEMMA CallRest ==
  ASSUME IInv, CallsGoOn,
         UNCHANGED <<selected, made, conn, link, node, down, cmds, ctx, since, late>>,
         bg' \in [Subs -> BgRange],
         \A s \in Subs : /\ bg'[s] = "none" <=> bg[s] = "none"
                         /\ bg'[s] = "created" <=> bg[s] = "created",
         task' \in [Subs -> TaskRange], rpc' \in Seq(AppRequest),
         sweep' \in SweepRange, sweep'.left = sweep.left,
         link /\ selected \in Subs /\ Served(selected) => Served(selected)'
  PROVE  IInv'
<1>1. Types'
  BY DEF IInv, Types, CallsGoOn
<1>2. CallsAreMade'
  BY DEF IInv, CallsAreMade, CallsGoOn
<1>3. StoppedIsPast'
  BY DEF IInv, StoppedIsPast, BeingStopped
<1>4. WireInv'
  BY DEF IInv, WireInv
<1>5. StopInv'
  BY DEF IInv, StopInv, StopDue
<1>6. ServedInv'
  <2> SUFFICES ASSUME link, selected \in since PROVE Served(selected)'
    BY DEF ServedInv
  <2>1. Served(selected)
    BY DEF IInv, ServedInv
  <2>2. selected \in Subs
    BY DEF IInv, Types
  <2> QED BY <2>1, <2>2
<1> QED BY <1>1, <1>2, <1>3, <1>4, <1>5, <1>6 DEF IInv

\* Calls that wait, return or end without a message.
LEMMA CallSteps ==
  ASSUME IInv, NEW c \in Calls,
         \/ \E t \in Threads : subscribe_bro_thread(c, t)
         \/ \E t \in Threads \cup {AnyThread} : unsubscribe_bro_thread(c, t)
         \/ AlreadySelected(c) \/ SubscribeReturns(c) \/ UnsubscribeReturns(c)
  PROVE  IInv'
<1>1. UNCHANGED <<selected, made, bg, conn, link, node, down, cmds, ctx, since, late, task, rpc,
                  sweep>>
  BY DEF subscribe_bro_thread, unsubscribe_bro_thread, AlreadySelected, SubscribeReturns,
         UnsubscribeReturns, serverVars, wireVars, nodeVars, appVars, history
<1>2. CallsGoOn
  <2>1. CASE \E t \in Threads : subscribe_bro_thread(c, t)
    BY <2>1 DEF subscribe_bro_thread, CallsGoOn, CallsAreMade, IInv, Types, CallRange, Pcs, Active
  <2>2. CASE \E t \in Threads \cup {AnyThread} : unsubscribe_bro_thread(c, t)
    BY <2>2 DEF unsubscribe_bro_thread, CallsGoOn, CallsAreMade, IInv, Types, CallRange, Pcs, Active
  <2>3. CASE \/ call' = [call EXCEPT ![c].pc = "done"]
             \/ call' = [call EXCEPT ![c].pc = "failed"]
    <3>1. PICK pc \in {"done", "failed"} : call' = [call EXCEPT ![c] = [@ EXCEPT !.pc = pc]]
      BY <2>3
    <3>2. call[c] \in CallRange
      BY DEF IInv, Types
    <3> DEFINE r == [call[c] EXCEPT !.pc = pc]
    <3>3. r \in CallRange /\ r.pc \notin Active
      BY <3>2 DEF CallRange, Pcs, Active
    <3> QED BY <3>1, <3>3, CallMoves
  <2> QED BY <2>1, <2>2, <2>3 DEF AlreadySelected, SubscribeReturns, UnsubscribeReturns, Finish
<1>3. Served(selected) => Served(selected)'
  BY <1>1 DEF Served
<1> QED BY <1>1, <1>2, <1>3, CallRest DEF IInv, Types

LEMMA BackgroundReturn ==
  ASSUME IInv, NEW s \in Subs, BackgroundReturns(s)
  PROVE  IInv'
<1>1. /\ UNCHANGED <<selected, made, conn, link, node, down, cmds, ctx, since, late, task, rpc,
                     sweep, call>>
      /\ bg[s] = "waiting" /\ bg' = [bg EXCEPT ![s] = "done"]
  BY DEF BackgroundReturns, callVars, wireVars, nodeVars, appVars, history
<1>2. CallsGoOn
  BY <1>1 DEF CallsGoOn, CallsAreMade, IInv, Types
<1>3. /\ bg' \in [Subs -> BgRange]
      /\ \A q \in Subs : /\ bg'[q] = "none" <=> bg[q] = "none"
                         /\ bg'[q] = "created" <=> bg[q] = "created"
  BY <1>1 DEF IInv, Types, BgRange
<1>4. Served(selected) => Served(selected)'
  BY <1>1 DEF Served
<1> QED BY <1>1, <1>2, <1>3, <1>4, CallRest DEF IInv, Types

\* Messages to the server that change no selection, and the end of a wait.
LEMMA ServerReads ==
  ASSUME IInv, publish_reply \/ ThreadEvent \/ CloserTimeout \/ UNCHANGED vars
  PROVE  IInv'
<1>1. UNCHANGED <<selected, made, bg, conn, link, node, down, cmds, ctx, since, late, task, rpc,
                  sweep, call>>
  BY DEF publish_reply, ThreadEvent, CloserTimeout, Received, vars, serverVars, callVars,
         wireVars, nodeVars, appVars, history
<1>2. CallsGoOn
  BY <1>1 DEF CallsGoOn, CallsAreMade, IInv, Types
<1>3. Served(selected) => Served(selected)'
  BY <1>1 DEF Served
<1> QED BY <1>1, <1>2, <1>3, CallRest DEF IInv, Types

\* A stop that goes on, and its answer, leave the list of the cleanup alone.
LEMMA StopGoesOn ==
  ASSUME IInv, (\E s \in Subs : unsubscribe_thread(s)) \/ AppUnsubscribes
  PROVE  IInv'
<1>1. UNCHANGED <<selected, made, bg, conn, link, node, down, cmds, ctx, since, late, task, call>>
  BY DEF unsubscribe_thread, AppUnsubscribes, serverVars, callVars, history
<1>2. CallsGoOn
  BY <1>1 DEF CallsGoOn, CallsAreMade, IInv, Types
<1>3. sweep' \in SweepRange /\ sweep'.left = sweep.left
  <2>1. sweep' = sweep \/ sweep' = [sweep EXCEPT !.now = None]
    BY DEF unsubscribe_thread, AppUnsubscribes, Stopped
  <2> QED BY <2>1 DEF IInv, Types, SweepRange
<1>4. /\ rpc' \in Seq(AppRequest)
      /\ \A s \in Subs : Has(rpc, <<"resume", s>>) => Has(rpc', <<"resume", s>>)
  <2>1. CASE \E s \in Subs : unsubscribe_thread(s)
    <3>1. PICK s \in Subs : rpc' = rpc \/ rpc' = Append(rpc, <<"unsub", s>>)
      BY <2>1 DEF unsubscribe_thread
    <3>2. <<"unsub", s>> \in AppRequest
      BY DEF AppRequest
    <3>3. rpc \in Seq(AppRequest)
      BY DEF IInv, Types
    <3>4. /\ Append(rpc, <<"unsub", s>>) \in Seq(AppRequest)
          /\ \A q \in Subs : Has(rpc, <<"resume", q>>)
                               => Has(Append(rpc, <<"unsub", s>>), <<"resume", q>>)
      BY <3>2, <3>3, AppendHas
    <3> QED BY <3>1, <3>3, <3>4
  <2>2. CASE AppUnsubscribes
    <3>1. rpc # <<>> /\ Head(rpc)[1] = "unsub" /\ rpc' = Tail(rpc) /\ rpc \in Seq(AppRequest)
      BY <2>2 DEF AppUnsubscribes, IInv, Types
    <3>2. /\ Tail(rpc) \in Seq(AppRequest)
          /\ \A q \in Subs : Has(rpc, <<"resume", q>>)
                               <=> Has(Tail(rpc), <<"resume", q>>) \/ <<"resume", q>> = Head(rpc)
      BY <3>1, TailHas
    <3> QED BY <3>1, <3>2
  <2> QED BY <2>1, <2>2
<1>5. selected \in Subs /\ Served(selected) => Served(selected)'
  BY <1>1, <1>4 DEF Served
<1> QED BY <1>1, <1>2, <1>3, <1>4, <1>5, CallRest DEF IInv, Types

LEMMA ResumeStart ==
  ASSUME IInv, NEW s \in Subs, ResumeStarts(s)
  PROVE  IInv'
<1>1. /\ UNCHANGED <<selected, made, bg, conn, link, node, down, cmds, ctx, since, late, sweep,
                     call>>
      /\ task[s] = "created"
      /\ task' = [task EXCEPT ![s] = "resuming"]
      /\ rpc' = Append(rpc, <<"resume", s>>)
  BY DEF ResumeStarts, serverVars, callVars, wireVars, history
<1>2. CallsGoOn
  BY <1>1 DEF CallsGoOn, CallsAreMade, IInv, Types
<1>3. rpc \in Seq(AppRequest) /\ <<"resume", s>> \in AppRequest
  BY DEF IInv, Types, AppRequest
<1>4. /\ rpc' \in Seq(AppRequest)
      /\ \A x : Has(rpc', x) <=> Has(rpc, x) \/ x = <<"resume", s>>
  BY <1>1, <1>3, AppendHas
<1>5. task' \in [Subs -> TaskRange]
  BY <1>1 DEF IInv, Types, TaskRange
<1>6. selected \in Subs /\ Served(selected) => Served(selected)'
  BY <1>1, <1>4 DEF Served, IInv, Types
<1> QED BY <1>1, <1>2, <1>4, <1>5, <1>6, CallRest DEF IInv, Types

\* An event ends streams only when the websocket is gone.
LEMMA AppEvents ==
  ASSUME IInv, NEW t \in Threads, NEW k \in {"event", "closed"}, AppEvent(t, k)
  PROVE  IInv'
<1>1. UNCHANGED <<selected, made, bg, conn, link, node, down, cmds, ctx, since, late, rpc, sweep,
                  call>>
  BY DEF AppEvent, serverVars, callVars, history
<1>2. CallsGoOn
  BY <1>1 DEF CallsGoOn, CallsAreMade, IInv, Types
<1>3. task' \in [Subs -> TaskRange] /\ (link => task' = task)
  BY DEF AppEvent, IInv, Types, TaskRange
<1>4. link /\ Served(selected) => Served(selected)'
  BY <1>1, <1>3 DEF Served
<1> QED BY <1>1, <1>2, <1>3, <1>4, CallRest DEF IInv, Types

-----------------------------------------------------------------------------
(* Selecting and giving up *)

\* A subscription that is selected no more has its stop sent, or the websocket
\* is gone: the end of a call, of a thread, or of a replaced subscription.
LEMMA GiveUp ==
  ASSUME IInv, NEW s \in 1..made, CallsGoOn,
         UNCHANGED <<made, conn, link, node, cmds, ctx, since, late, task, rpc, sweep>>,
         selected' \in {selected, None}, selected' # s,
         selected # s => selected' = selected,
         bg' \in [Subs -> BgRange],
         \A q \in Subs : q # s => bg'[q] = bg[q],
         IF CanSend THEN down' = Append(down, <<"unsub", s>>) ELSE down' = down
  PROVE  IInv'
<1> USE DEF IInv
<1>1. s \in Subs /\ <<"unsub", s>> \in Request /\ down \in Seq(Request)
  BY DEF Types, Subs, Request
<1>2. link => CanSend /\ node = "ready"
  BY DEF WireInv, Types, CanSend
<1>3. /\ Append(down, <<"unsub", s>>) \in Seq(Request)
      /\ \A x : Has(Append(down, <<"unsub", s>>), x) <=> Has(down, x) \/ x = <<"unsub", s>>
  <2> DEFINE m == <<"unsub", s>>
  <2>1. m \in Request /\ down \in Seq(Request)
    BY <1>1
  <2> HIDE DEF m
  <2>2. /\ Append(down, m) \in Seq(Request)
        /\ \A x : Has(Append(down, m), x) <=> Has(down, x) \/ x = m
    BY <2>1, AppendHas
  <2> QED BY <2>2 DEF m
<1>4. /\ down' \in Seq(Request)
      /\ \A x : Has(down, x) => Has(down', x)
      /\ \A x : Has(down', x) => Has(down, x) \/ x = <<"unsub", s>>
      /\ link => Has(down', <<"unsub", s>>)
  BY <1>1, <1>2, <1>3
<1>5. Types'
  BY <1>4 DEF Types, CallsGoOn
<1>6. CallsAreMade'
  BY DEF CallsAreMade, CallsGoOn
<1>7. StoppedIsPast'
  <2> SUFFICES ASSUME NEW q \in Subs, BeingStopped(q)'
               PROVE  q # selected' /\ q <= made
    BY DEF StoppedIsPast
  <2>1. CASE q = s
    BY <2>1 DEF Types
  <2>2. CASE q # s
    <3>1. BeingStopped(q)
      BY <1>4, <2>2 DEF BeingStopped
    <3> QED BY <2>2, <3>1 DEF StoppedIsPast, Subs
  <2> QED BY <2>1, <2>2
<1>8. WireInv'
  BY <1>2 DEF WireInv, Types, CanSend
<1>9. StopInv'
  <2> SUFFICES ASSUME NEW q \in Subs, q # selected', ~StopDue(q)'
               PROVE  /\ q \in ctx \ late => Has(cmds, <<"unsub", q>>) \/ Has(down', <<"unsub", q>>)
                      /\ Followed(cmds, q) \/ Has(down', <<"unsub", q>>)
                      /\ Followed(down', q)
    BY DEF StopInv
  <2>1. link /\ down' = Append(down, <<"unsub", s>>)
    BY <1>2 DEF StopDue
  <2>2. CASE q = s
    <3>1. Followed(down', q)
      BY <1>1, <2>1, <2>2, AppendFollowed
    <3> QED BY <1>4, <2>1, <2>2, <3>1
  <2>3. CASE q # s
    <3>1. q # selected /\ ~StopDue(q)
      BY <2>3 DEF StopDue, Subs
    <3>2. /\ q \in ctx \ late => Has(cmds, <<"unsub", q>>) \/ Has(down, <<"unsub", q>>)
          /\ Followed(cmds, q) \/ Has(down, <<"unsub", q>>)
          /\ Followed(down, q)
      BY <3>1 DEF StopInv
    <3>3. Followed(down', q)
      BY <1>1, <2>1, <3>2, AppendFollowed
    <3> QED BY <1>4, <3>2, <3>3
  <2> QED BY <2>2, <2>3
<1>10. ServedInv'
  <2>1. SUFFICES ASSUME link, selected' \in since PROVE ServedInv'
    BY DEF ServedInv
  <2>2. selected' = selected
    BY <2>1 DEF Types, Subs
  <2>3. Served(selected)
    BY <2>1, <2>2 DEF ServedInv
  <2>4. Served(selected)'
    BY <1>4, <2>2, <2>3 DEF Served
  <2> QED BY <2>4 DEF ServedInv
<1> QED BY <1>5, <1>6, <1>7, <1>8, <1>9, <1>10

LEMMA SubscribeGivesUpInv ==
  ASSUME IInv, NEW c \in Calls, SubscribeGivesUp(c)
  PROVE  IInv'
<1> DEFINE s == call[c].sub
<1>1. s \in 1..made /\ selected \in 0..MaxSubs
  BY DEF SubscribeGivesUp, IInv, CallsAreMade, Active, Types
<1>2. CallsGoOn
  <2>1. \/ call' = [call EXCEPT ![c].pc = "cleanup"]
        \/ call' = [call EXCEPT ![c].pc = "failed"]
    BY DEF SubscribeGivesUp, Finish
  <2>2. PICK pc \in {"cleanup", "failed"} : call' = [call EXCEPT ![c] = [@ EXCEPT !.pc = pc]]
    BY <2>1
  <2>3. call[c] \in CallRange
    BY DEF IInv, Types
  <2> DEFINE r == [call[c] EXCEPT !.pc = pc]
  <2>4. r \in CallRange /\ r.sub \in 1..made
    BY <1>1, <2>3 DEF CallRange, Pcs
  <2> QED BY <2>2, <2>4, CallMoves
<1>3. /\ UNCHANGED <<made, bg, conn, link, node, cmds, ctx, since, late, task, rpc, sweep>>
      /\ selected' = IF selected = s THEN None ELSE selected
      /\ IF CanSend THEN down' = Append(down, <<"unsub", s>>) ELSE down' = down
  BY DEF SubscribeGivesUp, nodeVars, appVars, history
<1>4. bg' \in [Subs -> BgRange]
  BY <1>3 DEF IInv, Types
<1> HIDE DEF s
<1> QED BY <1>1, <1>2, <1>3, <1>4, GiveUp

LEMMA StopSelectedInv ==
  ASSUME IInv, NEW c \in Calls, stop_selected(c)
  PROVE  IInv'
<1>1. /\ UNCHANGED <<made, bg, conn, link, node, cmds, ctx, since, late, task, rpc, sweep>>
      /\ call[c].pc = "queued"
  BY DEF stop_selected, nodeVars, appVars, history
<1>2. CASE selected = None \/ call[c].thread \notin {AnyThread, thread[selected]}
  <2>1. call' = [call EXCEPT ![c].pc = "done"] /\ UNCHANGED <<selected, down>>
    BY <1>2 DEF stop_selected, Finish
  <2>2. CallsGoOn
    <3> DEFINE d == [call[c] EXCEPT !.pc = "done"]
    <3>1. call[c] \in CallRange
      BY DEF IInv, Types
    <3>2. d \in CallRange /\ d.pc \notin Active
      BY <3>1 DEF CallRange, Pcs, Active
    <3>3. call' = [call EXCEPT ![c] = d]
      BY <2>1
    <3> QED BY <3>2, <3>3, CallMoves
  <2>3. Served(selected) => Served(selected)'
    BY <1>1, <2>1 DEF Served
  <2> QED BY <1>1, <2>1, <2>2, <2>3, CallRest DEF IInv, Types
<1>3. CASE ~(selected = None \/ call[c].thread \notin {AnyThread, thread[selected]})
  <2>1. selected \in 1..made /\ bg \in [Subs -> BgRange]
    BY <1>3 DEF IInv, Types, WireInv
  <2>2. /\ selected' = None
        /\ IF CanSend THEN down' = Append(down, <<"unsub", selected>>) ELSE down' = down
    BY <1>3 DEF stop_selected, Sending
\* The call that stops a subscription names it from now on.
  <2>3. CallsGoOn
    <3>1. \/ call' = [call EXCEPT ![c] = [@ EXCEPT !.pc = "stopping", !.sub = selected]]
          \/ call' = [call EXCEPT ![c] = [@ EXCEPT !.pc = "done"]]
      BY <1>3 DEF stop_selected, Finish
    <3>2. call[c] \in CallRange /\ selected \in 0..MaxSubs
      BY DEF IInv, Types
    <3> DEFINE r == [call[c] EXCEPT !.pc = "stopping", !.sub = selected]
               d == [call[c] EXCEPT !.pc = "done"]
    <3>3. r \in CallRange /\ r.sub \in 1..made
      BY <2>1, <3>2 DEF CallRange, Pcs
    <3>4. d \in CallRange /\ d.pc \notin Active
      BY <3>2 DEF CallRange, Pcs, Active
    <3> QED BY <3>1, <3>3, <3>4, CallMoves
  <2> DEFINE s == selected
  <2>4. s \in 1..made /\ selected' # s
    BY <2>1, <2>2
  <2> QED BY <1>1, <2>1, <2>2, <2>3, <2>4, GiveUp
<1> QED BY <1>2, <1>3

\* The new subscription is selected with its request on the way; the old one
\* has its stop in the background.
LEMMA Replace ==
  ASSUME IInv, NEW c \in Calls, replace_selected(c)
  PROVE  IInv'
<1> DEFINE n == made + 1
<1>1. /\ made \in 0..MaxSubs /\ selected \in 0..made /\ n \in Subs /\ made' = n
      /\ bg \in [Subs -> BgRange] /\ down \in Seq(Request) /\ call \in [Calls -> CallRange]
  BY DEF replace_selected, IInv, Types, WireInv, Subs
<1>2. UNCHANGED <<conn, link, node, cmds, ctx, late, task, rpc, sweep>>
  BY DEF replace_selected, nodeVars, appVars
<1>3. /\ bg' \in [Subs -> BgRange]
      /\ \A q \in Subs : q # selected => bg'[q] = bg[q]
      /\ \A q \in Subs : q = selected => bg'[q] = "created"
  BY <1>1 DEF replace_selected, StopInBackground, BgRange, Subs
<1>4. link => CanSend /\ node = "ready"
  BY DEF IInv, WireInv, Types, CanSend
<1>5. CASE CanSend
  <2> DEFINE m == <<"sub", n>>
  <2>1. /\ selected' = n /\ since' = since \cup {n}
        /\ down' = Append(down, m)
        /\ call' = [call EXCEPT ![c] = [@ EXCEPT !.pc = "subscribing", !.sub = n]]
    BY <1>5 DEF replace_selected, Sending
  <2>2. m \in Request
    BY <1>1 DEF Request
  <2>3. /\ down' \in Seq(Request)
        /\ \A x : Has(down', x) <=> Has(down, x) \/ x = m
    <3> HIDE DEF m
    <3> QED BY <1>1, <2>1, <2>2, AppendHas
  <2>4. call' \in [Calls -> CallRange] /\ CallsAreMade'
    <3> DEFINE r == [call[c] EXCEPT !.pc = "subscribing", !.sub = n]
    <3>1. r \in CallRange /\ r.sub \in 1..n
      <4>1. n \in 0..MaxSubs /\ n \in 1..n
        BY <1>1 DEF Subs
      <4>2. call[c] \in CallRange
        BY <1>1
      <4> HIDE DEF n
      <4>3. r \in CallRange /\ r.sub = n
        BY <4>1, <4>2 DEF CallRange, Pcs
      <4> QED BY <4>1, <4>3
    <3>2. call' = [call EXCEPT ![c] = r]
      BY <2>1
    <3> HIDE DEF r
    <3>3. call' \in [Calls -> CallRange]
      BY <1>1, <3>1, <3>2
    <3>4. ASSUME NEW d \in Calls, call'[d].pc \in Active PROVE call'[d].sub \in 1..n
      <4>1. CASE d = c
        BY <1>1, <3>1, <3>2, <4>1
      <4>2. CASE d # c
        <5>1. call[d].sub \in 1..made
          BY <1>1, <3>2, <3>4, <4>2 DEF IInv, CallsAreMade
        <5>2. call'[d] = call[d]
          BY <1>1, <3>2, <4>2
        <5> QED BY <1>1, <5>1, <5>2
      <4> QED BY <4>1, <4>2
    <3> QED BY <1>1, <3>3, <3>4 DEF CallsAreMade
  <2>5. Types'
    <3>1. selected' \in 0..MaxSubs /\ made' \in 0..MaxSubs /\ since' \subseteq Subs
      BY <1>1, <2>1 DEF IInv, Types, Subs
    <3>2. /\ conn' \in BOOLEAN /\ link' \in BOOLEAN /\ node' \in {"ready", "cleaning", "away"}
          /\ cmds' \in Seq(Request) /\ rpc' \in Seq(AppRequest)
          /\ ctx' \subseteq Subs /\ task' \in [Subs -> TaskRange] /\ sweep' \in SweepRange
      BY <1>2 DEF IInv, Types
    <3> QED BY <1>3, <2>3, <2>4, <3>1, <3>2 DEF Types
  <2>6. StoppedIsPast'
    <3> SUFFICES ASSUME NEW q \in Subs, BeingStopped(q)'
                 PROVE  q # selected' /\ q <= made'
      BY DEF StoppedIsPast
    <3>1. BeingStopped(q) \/ q = selected
      BY <1>2, <1>3, <2>3 DEF BeingStopped
    <3>2. q <= made
      BY <1>1, <3>1 DEF IInv, StoppedIsPast
    <3> QED BY <1>1, <2>1, <3>2 DEF Subs
  <2>7. WireInv'
    BY <1>1, <1>2, <1>4, <1>5, <2>1 DEF IInv, WireInv, CanSend
  <2>8. StopInv'
    <3> SUFFICES ASSUME NEW q \in Subs, q # selected', ~StopDue(q)'
                 PROVE  /\ q \in ctx \ late => Has(cmds, <<"unsub", q>>) \/ Has(down', <<"unsub", q>>)
                        /\ Followed(cmds, q) \/ Has(down', <<"unsub", q>>)
                        /\ Followed(down', q)
      BY <1>2 DEF StopInv
    <3>1. q # selected /\ ~StopDue(q)
      BY <1>2, <1>3 DEF StopDue
    <3>2. /\ q \in ctx \ late => Has(cmds, <<"unsub", q>>) \/ Has(down, <<"unsub", q>>)
          /\ Followed(cmds, q) \/ Has(down, <<"unsub", q>>)
          /\ Followed(down, q)
      BY <3>1 DEF IInv, StopInv
    <3>3. m # <<"sub", q>>
      BY <2>1
    <3>4. Followed(down', q)
      <4> HIDE DEF m
      <4> QED BY <1>1, <2>1, <2>2, <3>2, <3>3, AppendFollowed
    <3> QED BY <2>3, <3>2, <3>4
  <2>9. ServedInv'
    BY <2>1, <2>3 DEF ServedInv, Served
  <2> QED BY <2>4, <2>5, <2>6, <2>7, <2>8, <2>9 DEF IInv
<1>6. CASE ~CanSend
  <2>1. /\ selected' = None /\ UNCHANGED <<down, since>>
        /\ call' = [call EXCEPT ![c] = [@ EXCEPT !.pc = "failed"]]
    BY <1>6 DEF replace_selected, Finish
  <2>2. ~link
    BY <1>4, <1>6
  <2>3. CallsGoOn
    <3> DEFINE r == [call[c] EXCEPT !.pc = "failed"]
    <3>1. r \in CallRange /\ r.pc \notin Active
      BY <1>1 DEF CallRange, Pcs, Active
    <3> QED BY <2>1, <3>1, CallMoves
  <2>4. CallsAreMade'
    <3>1. ASSUME NEW d \in Calls, call'[d].pc \in Active PROVE call'[d].sub \in 1..n
      <4>1. call'[d].sub \in 1..made
        BY <2>3, <3>1 DEF CallsGoOn
      <4> QED BY <1>1, <4>1
    <3> QED BY <1>1, <3>1 DEF CallsAreMade
  <2>5. Types'
    <3>1. selected' \in 0..MaxSubs /\ made' \in 0..MaxSubs /\ call' \in [Calls -> CallRange]
      BY <1>1, <2>1, <2>3 DEF CallsGoOn, Subs
    <3>2. /\ conn' \in BOOLEAN /\ link' \in BOOLEAN /\ node' \in {"ready", "cleaning", "away"}
          /\ cmds' \in Seq(Request) /\ rpc' \in Seq(AppRequest)
          /\ ctx' \subseteq Subs /\ task' \in [Subs -> TaskRange] /\ sweep' \in SweepRange
      BY <1>2 DEF IInv, Types
    <3>3. down' \in Seq(Request) /\ since' \subseteq Subs
      BY <1>1, <1>2, <2>1 DEF IInv, Types
    <3> QED BY <1>3, <3>1, <3>2, <3>3 DEF Types
  <2>6. StoppedIsPast'
    <3> SUFFICES ASSUME NEW q \in Subs, BeingStopped(q)'
                 PROVE  q # selected' /\ q <= made'
      BY DEF StoppedIsPast
    <3>1. BeingStopped(q) \/ q = selected
      BY <1>2, <1>3, <2>1 DEF BeingStopped
    <3>2. q <= made
      BY <1>1, <3>1 DEF IInv, StoppedIsPast
    <3> QED BY <1>1, <2>1, <3>2 DEF Subs
  <2>7. WireInv'
    BY <1>1, <1>2, <2>1 DEF IInv, WireInv
  <2>8. StopInv' /\ ServedInv'
    BY <1>2, <2>2 DEF StopInv, StopDue, ServedInv
  <2> QED BY <2>4, <2>5, <2>6, <2>7, <2>8 DEF IInv
<1> QED BY <1>5, <1>6

LEMMA BackgroundSends ==
  ASSUME IInv, NEW s \in Subs, BackgroundUnsubscribe(s)
  PROVE  IInv'
<1>1. /\ UNCHANGED <<selected, made, call, conn, link, node, cmds, ctx, since, late, task, rpc,
                     sweep>>
      /\ bg[s] = "created"
      /\ IF CanSend THEN down' = Append(down, <<"unsub", s>>) ELSE down' = down
      /\ bg' = [bg EXCEPT ![s] = IF CanSend THEN "waiting" ELSE "done"]
  BY DEF BackgroundUnsubscribe, Sending, callVars, nodeVars, appVars, history
<1>2. s \in 1..made /\ s # selected
  <2>1. s # selected /\ s <= made /\ made \in 0..MaxSubs
    BY <1>1 DEF IInv, StoppedIsPast, BeingStopped, Types
  <2> QED BY <2>1 DEF Subs
<1>3. CallsGoOn
  BY <1>1 DEF CallsGoOn, CallsAreMade, IInv, Types
<1>4. /\ bg' \in [Subs -> BgRange]
      /\ \A q \in Subs : q # s => bg'[q] = bg[q]
  BY <1>1 DEF IInv, Types, BgRange
<1> QED BY <1>1, <1>2, <1>3, <1>4, GiveUp

-----------------------------------------------------------------------------
(* Messages to the server name subscriptions *)

WireAnswer == {"sub", "unsub", "event", "closed"} \X Subs
UpInv == up \in Seq(WireAnswer) /\ queue \subseteq Subs

\* The app server reports the end of the selected thread.
LEMMA Closed ==
  ASSUME IInv, UpInv, ThreadClosed
  PROVE  IInv'
<1>1. /\ UNCHANGED <<made, bg, call, conn, link, node, cmds, ctx, since, late, task, rpc, sweep>>
      /\ up # <<>>
  BY DEF ThreadClosed, Received, callVars, nodeVars, appVars, history
<1>2. CallsGoOn
  BY <1>1 DEF CallsGoOn, CallsAreMade, IInv, Types
<1>3. CASE Head(up)[2] = selected
  <2>1. Head(up) \in WireAnswer
    BY <1>1 DEF UpInv
  <2>2. selected \in 1..made /\ bg \in [Subs -> BgRange]
    BY <1>3, <2>1 DEF WireAnswer, Subs, IInv, Types, WireInv
  <2>3. /\ selected' = None
        /\ IF CanSend THEN down' = Append(down, <<"unsub", selected>>) ELSE down' = down
    BY <1>3 DEF ThreadClosed, Sending
  <2>4. selected' # selected
    BY <2>2, <2>3
  <2> QED BY <1>1, <1>2, <2>2, <2>3, <2>4, GiveUp
<1>4. CASE Head(up)[2] # selected
  <2>1. UNCHANGED <<selected, down>>
    BY <1>4 DEF ThreadClosed
  <2>2. Served(selected) => Served(selected)'
    BY <1>1, <2>1 DEF Served
  <2> QED BY <1>1, <1>2, <2>1, <2>2, CallRest DEF IInv, Types
<1> QED BY <1>3, <1>4


\* Every message to the server is built from a command, a stop or a stream of a
\* subscription, and only subscriptions are fed.
LEMMA UpTyped ==
  ASSUME IInv, UpInv, [Next]_vars
  PROVE  UpInv'
<1> USE DEF UpInv
<1>1. ASSUME NEW k \in {"sub", "unsub", "event", "closed"}, NEW s \in Subs, Reply(<<k, s>>)
      PROVE  up' \in Seq(WireAnswer)
  BY <1>1 DEF Reply, WireAnswer
<1>2. ASSUME NEW s \in Subs, Stopped(s) PROVE up' \in Seq(WireAnswer)
  BY <1>1, <1>2 DEF Stopped
<1>3. CASE NodeSubscribe \/ NodeUnsubscribe
  <2>1. /\ cmds # <<>> /\ cmds \in Seq(Request) /\ queue' = queue
        /\ up' = up \/ \E k \in {"sub", "unsub"} : Reply(<<k, Head(cmds)[2]>>)
    BY <1>3 DEF NodeSubscribe, NodeUnsubscribe, Command, IInv, Types, appVars
  <2>2. Head(cmds) \in Request
    BY <2>1
  <2>3. Head(cmds)[2] \in Subs
    BY <2>2 DEF Request
  <2> QED BY <1>1, <2>1, <2>3
<1>4. CASE \E s \in Subs : unsubscribe_thread(s)
  <2>1. PICK s \in Subs : unsubscribe_thread(s)
    BY <1>4
  <2>2. queue' \subseteq queue /\ (up' = up \/ Stopped(s))
    BY <2>1 DEF unsubscribe_thread
  <2> QED BY <1>2, <2>2
<1>5. CASE AppUnsubscribes
  <2>1. /\ rpc # <<>> /\ rpc \in Seq(AppRequest) /\ queue' = queue
        /\ up' = up \/ Stopped(Head(rpc)[2])
    BY <1>5 DEF AppUnsubscribes, IInv, Types
  <2>2. Head(rpc) \in AppRequest
    BY <2>1
  <2>3. Head(rpc)[2] \in Subs
    BY <2>2 DEF AppRequest
  <2> QED BY <1>2, <2>1, <2>3
<1>6. CASE \E t \in Threads, k \in {"event", "closed"} : AppEvent(t, k)
  <2>1. PICK t \in Threads, k \in {"event", "closed"} : AppEvent(t, k)
    BY <1>6
  <2> DEFINE fed == {s \in queue : thread[s] = t /\ task[s] = "streaming"}
  <2>2. queue' = queue
    BY <2>1 DEF AppEvent
  <2>3. CASE link
    <3>1. PICK seq \in [1..Cardinality(fed) -> fed] :
                 up' = up \o [i \in DOMAIN seq |-> <<k, seq[i]>>]
      BY <2>1, <2>3 DEF AppEvent
    <3>2. fed \subseteq Subs
      OBVIOUS
    <3>3. Cardinality(fed) \in Nat
      <4>1. IsFiniteSet(Subs)
        BY FS_Interval DEF Subs
      <4> QED BY <3>2, <4>1, FS_Subset, FS_CardinalityType
    <3> DEFINE n == Cardinality(fed)
               more == [i \in DOMAIN seq |-> <<k, seq[i]>>]
    <3>4. more \in [1..n -> WireAnswer]
      <4> HIDE DEF fed
      <4> QED BY <3>2 DEF WireAnswer
    <3>5. n \in Nat /\ up' = up \o more
      BY <3>1, <3>3
    <3> HIDE DEF n, more
    <3>6. more \in Seq(WireAnswer)
      BY <3>4, <3>5
    <3> QED BY <2>2, <3>5, <3>6
  <2>4. CASE ~link
    BY <2>1, <2>2, <2>4 DEF AppEvent
  <2> QED BY <2>3, <2>4
<1>7. CASE publish_reply \/ ThreadEvent \/ ThreadClosed
  <2>1. up # <<>> /\ up' = Tail(up) /\ queue' = queue
    BY <1>7 DEF publish_reply, ThreadEvent, ThreadClosed, Received, appVars
  <2> QED BY <2>1
<1>8. CASE disconnect \/ Reconnect
  <2>1. up' = <<>> /\ queue' = queue
    BY <1>8 DEF disconnect, Reconnect, appVars
  <2> QED BY <2>1
<1>9. CASE AppResumes
  <2>1. /\ rpc # <<>> /\ rpc \in Seq(AppRequest) /\ up' = up
        /\ queue' \subseteq queue \cup {Head(rpc)[2]}
    BY <1>9 DEF AppResumes, IInv, Types, wireVars
  <2>2. Head(rpc) \in AppRequest
    BY <2>1
  <2>3. Head(rpc)[2] \in Subs
    BY <2>2 DEF AppRequest
  <2> QED BY <2>1, <2>3
<1>10. ASSUME UNCHANGED <<up, queue>> PROVE UpInv'
  BY <1>10
<1>11. CASE \E c \in Calls :
              \/ \E t \in Threads : subscribe_bro_thread(c, t)
              \/ \E t \in Threads \cup {AnyThread} : unsubscribe_bro_thread(c, t)
              \/ AlreadySelected(c) \/ replace_selected(c) \/ SubscribeReturns(c)
              \/ SubscribeGivesUp(c) \/ stop_selected(c) \/ UnsubscribeReturns(c)
  BY <1>10, <1>11 DEF subscribe_bro_thread, unsubscribe_bro_thread, AlreadySelected,
     replace_selected, SubscribeReturns, SubscribeGivesUp, stop_selected, UnsubscribeReturns,
     wireVars, appVars
<1>12. CASE \E s \in Subs : \/ BackgroundUnsubscribe(s) \/ BackgroundReturns(s)
                            \/ ResumeStarts(s) \/ cancel_codex_thread_subscription(s)
  BY <1>10, <1>12 DEF BackgroundUnsubscribe, BackgroundReturns, ResumeStarts,
     cancel_codex_thread_subscription, wireVars, appVars
<1>13. CASE \/ CloserTimeout \/ Drop \/ NodeReceive \/ NodeLost \/ cancel_background_commands
            \/ UNCHANGED vars
  BY <1>10, <1>13 DEF CloserTimeout, Drop, NodeReceive, NodeLost, cancel_background_commands,
     wireVars, appVars, vars
<1> QED
  BY <1>3, <1>4, <1>5, <1>6, <1>7, <1>8, <1>9, <1>11, <1>12, <1>13 DEF Next

-----------------------------------------------------------------------------
(* The websocket and the node *)

\* While the websocket is gone nothing is due: what is left to check is where
\* messages and contexts may be.
LEMMA Unlinked ==
  ASSUME IInv, link' = FALSE, UNCHANGED <<selected, made, bg, call, rpc>>,
         task' \in [Subs -> TaskRange],
         conn' \in BOOLEAN, node' \in {"ready", "cleaning", "away"}, sweep' \in SweepRange,
         since' \in {since, {}}, ~conn' => since' = {},
         down' \in {down, <<>>}, cmds' \in {cmds, <<>>}, ctx' \subseteq ctx,
         node' # "ready" => down' = <<>>,
         node' = "cleaning" => ctx' \ late' \subseteq sweep'.left,
         node' = "away" => ctx' \subseteq late' /\ cmds' = <<>>
  PROVE  IInv'
<1>1. Types'
  <2>1. down' \in Seq(Request) /\ cmds' \in Seq(Request)
    <3>1. down \in Seq(Request) /\ cmds \in Seq(Request)
      BY DEF IInv, Types
    <3>2. <<>> \in Seq(Request)
      OBVIOUS
    <3> QED BY <3>1, <3>2
  <2> QED BY <2>1 DEF IInv, Types
<1>2. CallsAreMade'
  BY DEF IInv, CallsAreMade
<1>3. StoppedIsPast'
  <2>1. ASSUME NEW s \in Subs, BeingStopped(s)' PROVE BeingStopped(s)
    BY <2>1, NothingQueued DEF BeingStopped
  <2> QED BY <2>1 DEF IInv, StoppedIsPast
<1>4. WireInv' /\ StopInv' /\ ServedInv'
  BY DEF IInv, WireInv, StopInv, StopDue, ServedInv
<1> QED BY <1>1, <1>2, <1>3, <1>4 DEF IInv

LEMMA LossSteps ==
  ASSUME IInv,
         \/ Drop \/ disconnect \/ NodeLost \/ cancel_background_commands
         \/ \E s \in Subs : cancel_codex_thread_subscription(s)
  PROVE  IInv'
<1> USE DEF IInv, serverVars, callVars, wireVars, nodeVars, appVars, history
<1>1. CASE Drop
  BY <1>1, Unlinked DEF Drop, Types, WireInv
<1>2. CASE disconnect
  BY <1>2, Unlinked DEF disconnect, Types, WireInv
<1>3. CASE NodeLost
  <2>1. sweep' \in SweepRange /\ sweep'.left = ctx
    BY <1>3 DEF NodeLost, Types, SweepRange
  <2> QED BY <1>3, <2>1, Unlinked DEF NodeLost, Types, WireInv
<1>4. CASE cancel_background_commands
  <2>1. sweep' = sweep /\ sweep.left = {}
    BY <1>4 DEF cancel_background_commands
  <2> QED BY <1>4, <2>1, Unlinked DEF cancel_background_commands, Types, WireInv
<1>5. CASE \E s \in Subs : cancel_codex_thread_subscription(s)
  <2>1. PICK s \in Subs : cancel_codex_thread_subscription(s)
    BY <1>5
  <2>2. /\ node = "cleaning" /\ ctx' = ctx \ {s}
        /\ task' \in [Subs -> TaskRange]
    BY <2>1, SMTT(30) DEF cancel_codex_thread_subscription, Stop, Types, TaskRange
  <2>4. sweep' \in SweepRange /\ sweep'.left = sweep.left \ {s}
    <3>1. sweep.left \subseteq Subs
      BY DEF Types, SweepRange
    <3>2. s \in 0..MaxSubs /\ 0 \in 0..MaxSubs
      BY DEF Subs
    <3>3. PICK n \in {s, 0} : sweep' = [left |-> sweep.left \ {s}, now |-> n]
      BY <2>1 DEF cancel_codex_thread_subscription
    <3> QED BY <3>1, <3>2, <3>3 DEF SweepRange
  <2>3. UNCHANGED <<selected, made, bg, call, rpc, conn, link, node, down, cmds, since, late>>
    BY <2>1 DEF cancel_codex_thread_subscription
  <2> QED BY <2>2, <2>3, <2>4, Unlinked DEF Types, WireInv
<1> QED BY <1>1, <1>2, <1>3, <1>4, <1>5

\* A new websocket meets a node that has nothing left but what its cleanup
\* missed.
LEMMA Reconnects ==
  ASSUME IInv, Reconnect
  PROVE  IInv'
<1> USE DEF IInv
<1>1. /\ UNCHANGED <<selected, made, bg, call, cmds, ctx, since, late, task, rpc, sweep>>
      /\ ~conn /\ node = "away"
      /\ conn' = TRUE /\ link' = TRUE /\ node' = "ready" /\ down' = <<>>
  BY DEF Reconnect, serverVars, callVars, appVars, history
<1>2. since = {} /\ ctx \subseteq late /\ cmds = <<>> /\ ~link /\ down = <<>>
  BY <1>1 DEF WireInv
<1>3. Types'
  BY <1>1 DEF Types
<1>4. CallsAreMade'
  BY <1>1 DEF CallsAreMade
<1>5. StoppedIsPast'
  BY <1>1, <1>2 DEF StoppedIsPast, BeingStopped
<1>6. WireInv' /\ ServedInv'
  BY <1>1, <1>2 DEF WireInv, ServedInv
<1>7. StopInv'
  BY <1>1, <1>2, NothingQueued DEF StopInv
<1> QED BY <1>3, <1>4, <1>5, <1>6, <1>7

\* A message that was under way becomes the node's last command.
LEMMA Receives ==
  ASSUME IInv, NodeReceive
  PROVE  IInv'
<1> USE DEF IInv
<1>1. /\ UNCHANGED <<selected, made, bg, call, conn, link, node, ctx, since, late, task, rpc, sweep>>
      /\ node = "ready" /\ down # <<>> /\ down \in Seq(Request) /\ cmds \in Seq(Request)
      /\ cmds' = Append(cmds, Head(down)) /\ down' = Tail(down)
  BY DEF NodeReceive, serverVars, callVars, appVars, history, Types
<1>2. PICK m : m = Head(down) /\ m \in Request
  BY <1>1
<1>3. /\ cmds' \in Seq(Request) /\ down' \in Seq(Request)
      /\ \A x : Has(cmds', x) <=> Has(cmds, x) \/ x = m
      /\ \A x : Has(down, x) <=> Has(down', x) \/ x = m
  BY <1>1, <1>2, AppendHas, TailHas
<1>4. Types'
  BY <1>1, <1>3 DEF Types
<1>5. CallsAreMade'
  BY <1>1 DEF CallsAreMade
<1>6. StoppedIsPast'
  BY <1>1, <1>3 DEF StoppedIsPast, BeingStopped
<1>7. WireInv'
  BY <1>1 DEF WireInv
<1>8. StopInv'
  <2> SUFFICES ASSUME NEW q \in Subs, q # selected, ~StopDue(q)
               PROVE  /\ q \in ctx \ late => Has(cmds', <<"unsub", q>>) \/ Has(down', <<"unsub", q>>)
                      /\ Followed(cmds', q) \/ Has(down', <<"unsub", q>>)
                      /\ Followed(down', q)
    BY <1>1 DEF StopInv, StopDue
  <2>1. /\ q \in ctx \ late => Has(cmds, <<"unsub", q>>) \/ Has(down, <<"unsub", q>>)
        /\ Followed(cmds, q) \/ Has(down, <<"unsub", q>>)
        /\ Followed(down, q)
    BY DEF StopInv
  <2>2. /\ Followed(down', q)
        /\ m = <<"sub", q>> => Has(down', <<"unsub", q>>)
    BY <1>1, <1>2, <2>1, TailFollowed
  <2>3. CASE m = <<"unsub", q>>
    BY <1>1, <1>2, <1>3, <2>1, <2>2, <2>3, AppendFollowed
  <2>4. CASE m # <<"unsub", q>>
    <3>1. CASE Has(down', <<"unsub", q>>)
      BY <2>2, <3>1
    <3>2. CASE ~Has(down', <<"unsub", q>>)
      <4>1. ~Has(down, <<"unsub", q>>) /\ m # <<"sub", q>>
        BY <1>3, <2>2, <2>4, <3>2
      <4>2. Followed(cmds', q)
        BY <1>1, <1>2, <2>1, <4>1, AppendFollowed
      <4> QED BY <1>3, <2>1, <2>2, <4>1, <4>2
    <3> QED BY <3>1, <3>2
  <2> QED BY <2>3, <2>4
<1>9. ServedInv'
  BY <1>1, <1>3 DEF ServedInv, Served
<1> QED BY <1>4, <1>5, <1>6, <1>7, <1>8, <1>9

\* The first of the node's commands is carried out.
LEMMA NodeSubscribes ==
  ASSUME IInv, NodeSubscribe
  PROVE  IInv'
<1> USE DEF IInv
<1>1. PICK s : s = Head(cmds)[2]
  OBVIOUS
<1>2. /\ UNCHANGED <<selected, made, bg, call, conn, link, node, down, since, rpc, sweep>>
      /\ cmds # <<>> /\ cmds \in Seq(Request) /\ cmds' = Tail(cmds)
      /\ Head(cmds)[1] = "sub"
      /\ ctx' = ctx \cup {s} /\ task' = [task EXCEPT ![s] = "created"]
      /\ late' = IF node = "cleaning" THEN late \cup {s} ELSE late
  BY <1>1 DEF NodeSubscribe, Command, serverVars, callVars, appVars, Types
<1>3. Head(cmds) = <<"sub", s>> /\ s \in Subs
  <2>1. Head(cmds) \in Request
    BY <1>2
  <2> QED BY <1>1, <1>2, <2>1 DEF Request
<1>4. /\ cmds' \in Seq(Request)
      /\ \A x : Has(cmds, x) <=> Has(cmds', x) \/ x = <<"sub", s>>
  BY <1>2, <1>3, TailHas
<1>5. node # "away"
  BY <1>2 DEF WireInv
<1>6. Types'
  BY <1>2, <1>3, <1>4 DEF Types, TaskRange
<1>7. CallsAreMade'
  BY <1>2 DEF CallsAreMade
<1>8. StoppedIsPast'
  BY <1>2, <1>4 DEF StoppedIsPast, BeingStopped
<1>9. WireInv'
  BY <1>2, <1>5 DEF WireInv
<1>10. StopInv'
  <2> SUFFICES ASSUME NEW q \in Subs, q # selected, ~StopDue(q)
               PROVE  /\ q \in ctx' \ late' => Has(cmds', <<"unsub", q>>) \/ Has(down, <<"unsub", q>>)
                      /\ Followed(cmds', q) \/ Has(down, <<"unsub", q>>)
                      /\ Followed(down, q)
    BY <1>2 DEF StopInv, StopDue
  <2>1. /\ q \in ctx \ late => Has(cmds, <<"unsub", q>>) \/ Has(down, <<"unsub", q>>)
        /\ Followed(cmds, q) \/ Has(down, <<"unsub", q>>)
        /\ Followed(down, q)
    BY DEF StopInv
  <2>2. Followed(cmds, q) => /\ Followed(cmds', q)
                             /\ s = q => Has(cmds', <<"unsub", q>>)
    BY <1>2, <1>3, TailFollowed
  <2>3. late' = late
    BY <1>2, <1>5 DEF StopDue, WireInv
  <2>4. q \in ctx' \ late' => Has(cmds', <<"unsub", q>>) \/ Has(down, <<"unsub", q>>)
    <3>1. CASE q = s
      BY <2>1, <2>2, <3>1
    <3>2. CASE q # s
      BY <1>2, <1>4, <2>1, <2>3, <3>2
    <3> QED BY <3>1, <3>2
  <2> QED BY <2>1, <2>2, <2>4
<1>11. ServedInv'
  <2>1. SUFFICES ASSUME link, selected \in since PROVE Served(selected)'
    BY <1>2 DEF ServedInv
  <2>2. Served(selected)
    BY <2>1 DEF ServedInv
  <2> QED BY <1>2, <1>3, <1>4, <2>2 DEF Served, Types
<1> QED BY <1>6, <1>7, <1>8, <1>9, <1>10, <1>11

LEMMA NodeUnsubscribes ==
  ASSUME IInv, NodeUnsubscribe
  PROVE  IInv'
<1> USE DEF IInv
<1>1. PICK s : s = Head(cmds)[2]
  OBVIOUS
<1>2. /\ UNCHANGED <<selected, made, bg, call, conn, link, node, down, since, late, rpc, sweep>>
      /\ cmds # <<>> /\ cmds \in Seq(Request) /\ cmds' = Tail(cmds)
      /\ Head(cmds)[1] = "unsub"
      /\ IF s \in ctx THEN Stop(s) ELSE UNCHANGED <<ctx, task, stopping>>
  BY <1>1 DEF NodeUnsubscribe, Command, serverVars, callVars, appVars, history, Types
<1>3. Head(cmds) = <<"unsub", s>> /\ s \in Subs
  <2>1. Head(cmds) \in Request
    BY <1>2
  <2> QED BY <1>1, <1>2, <2>1 DEF Request
<1>4. /\ cmds' \in Seq(Request)
      /\ \A x : Has(cmds, x) <=> Has(cmds', x) \/ x = <<"unsub", s>>
  BY <1>2, <1>3, TailHas
<1>5. node # "away" /\ s # selected
  BY <1>2, <1>3, <1>4 DEF WireInv, StoppedIsPast, BeingStopped
<1>6. /\ ctx' = ctx \ {s} /\ task' \in [Subs -> TaskRange]
      /\ selected \in Subs => task'[selected] = task[selected]
  BY <1>2, <1>3, <1>5 DEF Stop, Types, TaskRange
<1>7. Types'
  BY <1>2, <1>4, <1>6 DEF Types
<1>8. CallsAreMade'
  BY <1>2 DEF CallsAreMade
<1>9. StoppedIsPast'
  BY <1>2, <1>4 DEF StoppedIsPast, BeingStopped
<1>10. WireInv'
  BY <1>2, <1>5, <1>6 DEF WireInv
<1>11. StopInv'
  <2> SUFFICES ASSUME NEW q \in Subs, q # selected, ~StopDue(q)
               PROVE  /\ q \in ctx' \ late => Has(cmds', <<"unsub", q>>) \/ Has(down, <<"unsub", q>>)
                      /\ Followed(cmds', q) \/ Has(down, <<"unsub", q>>)
                      /\ Followed(down, q)
    BY <1>2 DEF StopInv, StopDue
  <2>1. /\ q \in ctx \ late => Has(cmds, <<"unsub", q>>) \/ Has(down, <<"unsub", q>>)
        /\ Followed(cmds, q) \/ Has(down, <<"unsub", q>>)
        /\ Followed(down, q)
    BY DEF StopInv
  <2>2. Followed(cmds, q) => Followed(cmds', q)
    BY <1>2, TailFollowed
  <2> QED BY <1>4, <1>6, <2>1, <2>2
<1>12. ServedInv'
  <2>1. SUFFICES ASSUME link, selected \in since PROVE Served(selected)'
    BY <1>2 DEF ServedInv
  <2>2. Served(selected) /\ selected \in Subs
    BY <2>1 DEF ServedInv, Types
  <2> QED BY <1>2, <1>4, <1>5, <1>6, <2>2 DEF Served
<1> QED BY <1>7, <1>8, <1>9, <1>10, <1>11, <1>12

\* A thread that cannot be resumed is one the runtime never had streamed.
LEMMA Resumes ==
  ASSUME IInv, AppResumes
  PROVE  IInv'
<1> USE DEF IInv
<1>1. PICK s : s = Head(rpc)[2]
  OBVIOUS
<1>2. /\ UNCHANGED <<selected, made, bg, call, conn, link, node, down, cmds, late, sweep>>
      /\ rpc # <<>> /\ rpc \in Seq(AppRequest) /\ rpc' = Tail(rpc)
      /\ Head(rpc)[1] = "resume"
  BY DEF AppResumes, serverVars, callVars, wireVars, Types
<1>3. Head(rpc) = <<"resume", s>> /\ s \in Subs
  <2>1. Head(rpc) \in AppRequest
    BY <1>2
  <2> QED BY <1>1, <1>2, <2>1 DEF AppRequest
<1>4. /\ rpc' \in Seq(AppRequest)
      /\ \A x : Has(rpc, x) <=> Has(rpc', x) \/ x = <<"resume", s>>
  BY <1>2, <1>3, TailHas
<1>5. /\ task' \in [Subs -> TaskRange]
      /\ ctx' \subseteq ctx /\ since' \subseteq since
      /\ \/ /\ UNCHANGED <<ctx, since>>
            /\ \A q \in Subs : task'[q] = IF q = s /\ task[s] = "resuming" THEN "streaming"
                                          ELSE task[q]
         \/ /\ s \notin since' /\ ctx' \in {ctx, ctx \ {s}}
            /\ \A q \in Subs : q # s => task'[q] = task[q]
  BY <1>1, <1>3 DEF AppResumes, Types, TaskRange
<1>6. Types'
  BY <1>2, <1>4, <1>5 DEF Types
<1>7. CallsAreMade'
  BY <1>2 DEF CallsAreMade
<1>8. StoppedIsPast'
  BY <1>2 DEF StoppedIsPast, BeingStopped
<1>9. WireInv'
  BY <1>2, <1>5 DEF WireInv
<1>10. StopInv'
  BY <1>2, <1>5 DEF StopInv, StopDue
<1>11. ServedInv'
  <2>1. SUFFICES ASSUME link, selected \in since' PROVE Served(selected)'
    BY <1>2 DEF ServedInv
  <2>2. Served(selected) /\ selected \in Subs
    BY <1>5, <2>1 DEF ServedInv, Types
  <2>3. CASE selected = s
    BY <1>2, <1>5, <2>1, <2>2, <2>3 DEF Served
  <2>4. CASE selected # s
    BY <1>2, <1>4, <1>5, <2>2, <2>4 DEF Served
  <2> QED BY <2>3, <2>4
<1> QED BY <1>6, <1>7, <1>8, <1>9, <1>10, <1>11

-----------------------------------------------------------------------------
(* What the app server feeds *)

Once(q, m) == \A i, j \in 1..Len(q) : q[i] = m /\ q[j] = m => i = j

\* No request to stop subscription p's thread comes after one to resume s.
NotAfter(q, s, p) ==
  \A i \in 1..Len(q) : q[i] = <<"resume", s>> => \A j \in i + 1..Len(q) : q[j] # <<"unsub", p>>

StopRange == {"no", "cancelled", "asked"}
StreamTypes == thread \in [Subs -> Threads \cup {AnyThread}] /\ stopping \in [Subs -> StopRange]

\* The request that sets s up is still on its way, and only once.
Pending(s) == Has(down, <<"sub", s>>) \/ Has(cmds, <<"sub", s>>)
Single(s) == /\ Once(down, <<"sub", s>>) /\ Once(cmds, <<"sub", s>>)
             /\ ~(Has(down, <<"sub", s>>) /\ Has(cmds, <<"sub", s>>))

\* Until the request is carried out nothing at the node or before the app server
\* is about s.
NotSetUp(s) == /\ s \notin ctx /\ s \notin queue /\ stopping[s] # "cancelled"
                /\ ~Has(rpc, <<"resume", s>>) /\ ~Has(rpc, <<"unsub", s>>)
OnceInv ==
  \A s \in Subs : /\ Single(s)
                  /\ Pending(s) => s <= made
                  /\ Pending(s) \/ s > made => NotSetUp(s)

\* The queue of a subscription is there from the answer to its resume to the
\* stop that its context is taken away for.
StreamInv ==
  \A s \in Subs :
    /\ task[s] \in {"created", "resuming", "streaming"} => s \in ctx /\ stopping[s] # "cancelled"
    /\ task[s] \in {"created", "resuming"} => s \notin queue
    /\ task[s] = "created" => ~Has(rpc, <<"resume", s>>)
    /\ task[s] = "streaming" => s \in queue
    /\ s \in queue => s \in ctx \/ stopping[s] = "cancelled"

\* A stream's thread is fed and no request to stop it is before the app server,
\* or none after the request to resume it.
FedFor(s, p) ==
  /\ task[s] = "streaming" => thread[s] \in feed /\ ~Has(rpc, <<"unsub", p>>)
  /\ task[s] = "resuming" => NotAfter(rpc, s, p)
FedInv == \A s, p \in Subs : thread[s] = thread[p] /\ s \notin overrun => FedFor(s, p)

\* A thread that is fed has its queue, or the request to stop it on the way.
Wanted(t) == \E q \in Subs : thread[q] = t /\ (q \in queue \/ Has(rpc, <<"unsub", q>>))
LooseInv == \A t \in feed : t \in loose \/ Wanted(t)

FeedsInv == StreamTypes /\ OnceInv /\ StreamInv /\ FedInv /\ LooseInv

LEMMA AppendOnce ==
  ASSUME NEW S, NEW q \in Seq(S), NEW m \in S, NEW x, Once(q, x), m = x => ~Has(q, x)
  PROVE  Once(Append(q, m), x)
<1>1. /\ Len(Append(q, m)) = Len(q) + 1 /\ Len(q) \in Nat
      /\ \A i \in 1..Len(q) : Append(q, m)[i] = q[i]
      /\ Append(q, m)[Len(q) + 1] = m
  OBVIOUS
<1>2. SUFFICES ASSUME NEW i \in 1..Len(q) + 1, NEW j \in 1..Len(q) + 1,
                      Append(q, m)[i] = x, Append(q, m)[j] = x
               PROVE  i = j
  BY <1>1 DEF Once
<1>3. i \in 1..Len(q) \/ i = Len(q) + 1
  BY <1>1
<1>4. j \in 1..Len(q) \/ j = Len(q) + 1
  BY <1>1
<1>5. CASE i \in 1..Len(q) /\ j \in 1..Len(q)
  BY <1>1, <1>2, <1>5 DEF Once
<1>6. CASE m = x
  BY <1>1, <1>2, <1>3, <1>4, <1>6 DEF Has
<1> QED BY <1>1, <1>2, <1>3, <1>4, <1>5, <1>6

LEMMA TailOnce ==
  ASSUME NEW S, NEW q \in Seq(S), q # <<>>, NEW x, Once(q, x)
  PROVE  Once(Tail(q), x) /\ (Head(q) = x => ~Has(Tail(q), x))
<1>1. /\ Len(Tail(q)) = Len(q) - 1 /\ Len(q) \in Nat \ {0}
      /\ Head(q) = q[1]
      /\ \A i \in 1..Len(q) - 1 : Tail(q)[i] = q[i + 1]
  OBVIOUS
<1>2. ASSUME NEW i \in 1..Len(q) - 1, NEW j \in 1..Len(q) - 1, Tail(q)[i] = x, Tail(q)[j] = x
      PROVE  i = j
  <2>1. /\ i + 1 \in 1..Len(q) /\ j + 1 \in 1..Len(q)
        /\ q[i + 1] = x /\ q[j + 1] = x
    BY <1>1, <1>2
  <2>2. i + 1 = j + 1
    BY <2>1 DEF Once
  <2> QED BY <1>1, <2>2
<1>3. ASSUME Head(q) = x, NEW i \in 1..Len(q) - 1, Tail(q)[i] = x PROVE FALSE
  <2>1. 1 \in 1..Len(q) /\ i + 1 \in 1..Len(q) /\ q[1] = x /\ q[i + 1] = x
    BY <1>1, <1>3
  <2>2. 1 = i + 1
    BY <2>1 DEF Once
  <2> QED BY <1>1, <2>2
<1>4. Once(Tail(q), x)
  BY <1>1, <1>2 DEF Once
<1>5. Head(q) = x => ~Has(Tail(q), x)
  BY <1>1, <1>3 DEF Has
<1> QED BY <1>4, <1>5

LEMMA AppendNotAfter ==
  ASSUME NEW S, NEW q \in Seq(S), NEW m \in S, NEW s, NEW p
  PROVE  /\ m # <<"unsub", p>> /\ NotAfter(q, s, p) => NotAfter(Append(q, m), s, p)
         /\ ~Has(q, <<"resume", s>>) => NotAfter(Append(q, m), s, p)
<1>1. /\ Len(Append(q, m)) = Len(q) + 1 /\ Len(q) \in Nat
      /\ \A i \in 1..Len(q) : Append(q, m)[i] = q[i]
      /\ Append(q, m)[Len(q) + 1] = m
  OBVIOUS
<1>2. ASSUME m # <<"unsub", p>>, NotAfter(q, s, p), NEW i \in 1..Len(q) + 1,
             Append(q, m)[i] = <<"resume", s>>, NEW j \in i + 1..Len(q) + 1
      PROVE  Append(q, m)[j] # <<"unsub", p>>
  <2>1. CASE j = Len(q) + 1
    BY <1>1, <1>2, <2>1
  <2>2. CASE j # Len(q) + 1
    <3>1. i \in 1..Len(q) /\ j \in i + 1..Len(q) /\ j \in 1..Len(q)
      BY <1>1, <1>2, <2>2
    <3>2. q[i] = <<"resume", s>>
      BY <1>1, <1>2, <3>1
    <3>3. q[j] # <<"unsub", p>>
      BY <1>2, <3>1, <3>2 DEF NotAfter
    <3> QED BY <1>1, <3>1, <3>3
  <2> QED BY <2>1, <2>2
<1>3. ASSUME ~Has(q, <<"resume", s>>), NEW i \in 1..Len(q) + 1,
             Append(q, m)[i] = <<"resume", s>>, NEW j \in i + 1..Len(q) + 1
      PROVE  FALSE
  <2>1. i \in 1..Len(q)
    BY <1>1, <1>3
  <2>2. q[i] = <<"resume", s>>
    BY <1>1, <1>3, <2>1
  <2> QED BY <1>3, <2>1, <2>2 DEF Has
<1>4. m # <<"unsub", p>> /\ NotAfter(q, s, p) => NotAfter(Append(q, m), s, p)
  BY <1>1, <1>2 DEF NotAfter
<1>5. ~Has(q, <<"resume", s>>) => NotAfter(Append(q, m), s, p)
  BY <1>1, <1>3 DEF NotAfter
<1> QED BY <1>4, <1>5

LEMMA TailNotAfter ==
  ASSUME NEW S, NEW q \in Seq(S), q # <<>>, NEW s, NEW p, NotAfter(q, s, p)
  PROVE  /\ NotAfter(Tail(q), s, p)
         /\ Head(q) = <<"resume", s>> => ~Has(Tail(q), <<"unsub", p>>)
<1>1. /\ Len(Tail(q)) = Len(q) - 1 /\ Len(q) \in Nat \ {0}
      /\ Head(q) = q[1]
      /\ \A i \in 1..Len(q) - 1 : Tail(q)[i] = q[i + 1]
  OBVIOUS
<1>2. ASSUME NEW i \in 1..Len(q), q[i] = <<"resume", s>>, NEW j \in i..Len(q) - 1
      PROVE  Tail(q)[j] # <<"unsub", p>>
  <2>1. j + 1 \in i + 1..Len(q) /\ j \in 1..Len(q) - 1
    BY <1>1, <1>2
  <2>2. q[j + 1] # <<"unsub", p>>
    BY <1>2, <2>1 DEF NotAfter
  <2> QED BY <1>1, <2>1, <2>2
<1>3. NotAfter(Tail(q), s, p)
  <2>1. SUFFICES ASSUME NEW i \in 1..Len(q) - 1, Tail(q)[i] = <<"resume", s>>,
                        NEW j \in i + 1..Len(q) - 1
                 PROVE  Tail(q)[j] # <<"unsub", p>>
    BY <1>1 DEF NotAfter
  <2>2. i + 1 \in 1..Len(q) /\ q[i + 1] = <<"resume", s>>
    BY <1>1, <2>1
  <2> QED BY <1>2, <2>1, <2>2
<1>4. Head(q) = <<"resume", s>> => ~Has(Tail(q), <<"unsub", p>>)
  <2>1. 1 \in 1..Len(q)
    BY <1>1
  <2>2. q[1] = <<"resume", s>> => \A j \in 1..Len(q) - 1 : Tail(q)[j] # <<"unsub", p>>
    BY <1>2, <2>1
  <2> QED BY <1>1, <2>2 DEF Has
<1> QED BY <1>3, <1>4

\* Messages between the runtime and the node, ends of streams, and stops cut
\* short while they wait for the app server.
LEMMA FeedRest ==
  ASSUME FeedsInv,
         UNCHANGED <<made, thread, ctx, queue, rpc, feed, overrun, loose>>,
         stopping' \in [Subs -> StopRange],
         \A s \in Subs : stopping'[s] = "cancelled" <=> stopping[s] = "cancelled",
         \A s \in Subs : task'[s] \in {task[s], "dead"},
         \A s \in Subs : Single(s)' /\ (Pending(s)' => Pending(s))
  PROVE  FeedsInv'
<1>1. StreamTypes'
  BY DEF FeedsInv, StreamTypes
<1>2. OnceInv'
  <2> SUFFICES ASSUME NEW s \in Subs
               PROVE  /\ Pending(s)' => s <= made
                      /\ Pending(s)' \/ s > made => NotSetUp(s)'
    BY DEF OnceInv
  <2>1. /\ Pending(s) => s <= made
        /\ Pending(s) \/ s > made => NotSetUp(s)
    BY DEF FeedsInv, OnceInv
  <2>2. NotSetUp(s) => NotSetUp(s)'
    BY DEF NotSetUp
  <2> QED BY <2>1, <2>2
<1>3. StreamInv'
  <2> SUFFICES ASSUME NEW s \in Subs
        PROVE /\ task'[s] \in {"created", "resuming", "streaming"}
                   => s \in ctx /\ stopping'[s] # "cancelled"
              /\ task'[s] \in {"created", "resuming"} => s \notin queue
              /\ task'[s] = "created" => ~Has(rpc, <<"resume", s>>)
              /\ task'[s] = "streaming" => s \in queue
              /\ s \in queue => s \in ctx \/ stopping'[s] = "cancelled"
    BY DEF StreamInv
  <2> QED BY DEF FeedsInv, StreamInv
<1>4. FedInv'
  <2> SUFFICES ASSUME NEW s \in Subs, NEW p \in Subs, thread[s] = thread[p], s \notin overrun
               PROVE  FedFor(s, p)'
    BY DEF FedInv
  <2>1. FedFor(s, p)
    BY DEF FeedsInv, FedInv
  <2> QED BY <2>1 DEF FedFor
<1>5. LooseInv'
  BY DEF FeedsInv, LooseInv, Wanted
<1> QED BY <1>1, <1>2, <1>3, <1>4, <1>5 DEF FeedsInv

\* Of the messages to the node, nothing new sets a subscription up.
LEMMA FeedUntouched ==
  ASSUME IInv, FeedsInv,
         UNCHANGED <<made, thread, cmds, ctx, task, stopping, queue, rpc, feed, overrun, loose>>,
         down' = down \/ \E q \in Subs : down' = Append(down, <<"unsub", q>>)
  PROVE  FeedsInv'
<1>1. down \in Seq(Request)
  BY DEF IInv, Types
<1>2. ASSUME NEW s \in Subs PROVE Single(s)' /\ (Pending(s)' => Pending(s))
  <2>0. Single(s)
    BY DEF FeedsInv, OnceInv
  <2>1. CASE down' = down
    BY <2>0, <2>1 DEF Single, Pending
  <2>2. CASE \E q \in Subs : down' = Append(down, <<"unsub", q>>)
    <3>0. PICK q \in Subs : down' = Append(down, <<"unsub", q>>)
      BY <2>2
    <3>9. <<"unsub", q>> \in Request /\ <<"unsub", q>> # <<"sub", s>>
      BY DEF Request
    <3>1. PICK m : m \in Request /\ down' = Append(down, m) /\ m # <<"sub", s>>
      BY <3>0, <3>9
    <3>2. Has(down', <<"sub", s>>) <=> Has(down, <<"sub", s>>)
      BY <1>1, <3>1, AppendHas
    <3>3. Once(down, <<"sub", s>>)
      BY <2>0 DEF Single
    <3>4. Once(down', <<"sub", s>>)
      <4>1. <<"sub", s>> = m => ~Has(down, <<"sub", s>>)
        BY <3>1
      <4> QED BY <1>1, <3>1, <3>3, <4>1, AppendOnce
    <3> QED BY <2>0, <3>2, <3>4 DEF Single, Pending
  <2> QED BY <2>1, <2>2
<1>3. StreamTypes
  BY DEF FeedsInv
<1> QED BY <1>2, <1>3, FeedRest DEF StreamTypes

\* Steps of the runtime that make no subscription.
LEMMA RuntimeFeeds ==
  ASSUME IInv, UpInv, FeedsInv,
         \/ \E c \in Calls : \/ \E t \in Threads : subscribe_bro_thread(c, t)
                             \/ \E t \in Threads \cup {AnyThread} : unsubscribe_bro_thread(c, t)
                             \/ AlreadySelected(c) \/ SubscribeReturns(c) \/ SubscribeGivesUp(c)
                             \/ stop_selected(c) \/ UnsubscribeReturns(c)
         \/ \E s \in Subs : BackgroundUnsubscribe(s) \/ BackgroundReturns(s)
         \/ publish_reply \/ ThreadEvent \/ ThreadClosed \/ CloserTimeout
         \/ Drop \/ disconnect \/ UNCHANGED vars
  PROVE  FeedsInv'
<1>1. UNCHANGED <<made, thread, cmds, ctx, task, stopping, queue, rpc, feed, overrun, loose>>
  BY DEF subscribe_bro_thread, unsubscribe_bro_thread, AlreadySelected, SubscribeReturns,
         SubscribeGivesUp, stop_selected, UnsubscribeReturns, BackgroundUnsubscribe,
         BackgroundReturns, publish_reply, ThreadEvent, ThreadClosed, CloserTimeout, Drop,
         disconnect, vars, serverVars, nodeVars, appVars, history, appHistory
<1>2. CASE \E c \in Calls : SubscribeGivesUp(c)
  <2>1. PICK c \in Calls : SubscribeGivesUp(c)
    BY <1>2
  <2>2. call[c].sub \in 1..made /\ made \in 0..MaxSubs
    BY <2>1 DEF SubscribeGivesUp, IInv, CallsAreMade, Active, Types
  <2>3. call[c].sub \in Subs
    BY <2>2 DEF Subs
  <2>4. down' = down \/ down' = Append(down, <<"unsub", call[c].sub>>)
    BY <2>1 DEF SubscribeGivesUp
  <2> QED BY <1>1, <2>3, <2>4, FeedUntouched
<1>3. CASE \E c \in Calls : stop_selected(c)
  <2>1. PICK c \in Calls : stop_selected(c)
    BY <1>3
  <2>2. down' = down \/ (selected # None /\ down' = Append(down, <<"unsub", selected>>))
    BY <2>1 DEF stop_selected, Sending
  <2>3. selected # None => selected \in Subs
    BY DEF IInv, Types, Subs
  <2> QED BY <1>1, <2>2, <2>3, FeedUntouched
<1>4. CASE \E s \in Subs : BackgroundUnsubscribe(s)
  <2>1. \E s \in Subs : down' = down \/ down' = Append(down, <<"unsub", s>>)
    BY <1>4 DEF BackgroundUnsubscribe, Sending
  <2> QED BY <1>1, <2>1, FeedUntouched
<1>5. CASE ThreadClosed
  <2>1. up # <<>> /\ up \in Seq(WireAnswer)
    BY <1>5 DEF ThreadClosed, Received, UpInv
  <2>2. Head(up) \in WireAnswer
    BY <2>1
  <2>3. Head(up)[2] \in Subs
    BY <2>2 DEF WireAnswer
  <2>4. down' = down \/ down' = Append(down, <<"unsub", Head(up)[2]>>)
    BY <1>5 DEF ThreadClosed, Sending
  <2> QED BY <1>1, <2>3, <2>4, FeedUntouched
<1>6. CASE down' = down
  BY <1>1, <1>6, FeedUntouched
<1>7. CASE \/ \E c \in Calls : \/ \E t \in Threads : subscribe_bro_thread(c, t)
                               \/ \E t \in Threads \cup {AnyThread} : unsubscribe_bro_thread(c, t)
                               \/ AlreadySelected(c) \/ SubscribeReturns(c) \/ UnsubscribeReturns(c)
           \/ \E s \in Subs : BackgroundReturns(s)
           \/ publish_reply \/ ThreadEvent \/ CloserTimeout
           \/ Drop \/ disconnect \/ UNCHANGED vars
  BY <1>6, <1>7 DEF subscribe_bro_thread, unsubscribe_bro_thread, AlreadySelected,
     SubscribeReturns, UnsubscribeReturns, BackgroundReturns, publish_reply, ThreadEvent,
     CloserTimeout, Drop, disconnect, vars, wireVars
<1> QED BY <1>2, <1>3, <1>4, <1>5, <1>7

\* The new subscription is untouched: its only request is on its way.
LEMMA ReplaceFeeds ==
  ASSUME IInv, FeedsInv, NEW c \in Calls, replace_selected(c)
  PROVE  FeedsInv'
<1> USE DEF FeedsInv
<1>1. PICK n : n = made + 1
  OBVIOUS
<1>2. /\ UNCHANGED <<cmds, ctx, task, stopping, queue, rpc, feed, overrun, loose>>
      /\ made' = n /\ thread' = [thread EXCEPT ![n] = call[c].thread]
      /\ down' = down \/ down' = Append(down, <<"sub", n>>)
      /\ made < MaxSubs
  BY <1>1 DEF replace_selected, Sending, nodeVars, appVars, appHistory
<1>3. /\ n \in Subs /\ down \in Seq(Request) /\ made \in Nat
      /\ call[c].thread \in Threads \cup {AnyThread}
  BY <1>1, <1>2 DEF IInv, Types, Subs, CallRange
<1>4. NotSetUp(n) /\ ~Pending(n)
  BY <1>1, <1>3 DEF OnceInv
<1>5. StreamTypes'
  BY <1>2, <1>3 DEF StreamTypes
<1>6. ASSUME NEW s \in Subs
      PROVE  Single(s)' /\ (Pending(s)' => Pending(s) \/ s = n)
  <2>1. CASE down' = down
    BY <1>2, <2>1 DEF OnceInv, Single, Pending
  <2>2. CASE down' = Append(down, <<"sub", n>>)
    <3>0. <<"sub", n>> \in Request
      BY <1>3 DEF Request
    <3>1. PICK m : m = <<"sub", n>> /\ m \in Request
      BY <3>0
    <3>2. down' = Append(down, m) /\ (m = <<"sub", s>> <=> s = n)
      BY <2>2, <3>1
    <3>3. Has(down', <<"sub", s>>) <=> Has(down, <<"sub", s>>) \/ s = n
      BY <1>3, <3>1, <3>2, AppendHas
    <3>4. Once(down, <<"sub", s>>) /\ (s = n => ~Has(down, <<"sub", s>>))
      BY <1>4 DEF OnceInv, Single, Pending
    <3>5. Once(down', <<"sub", s>>)
      BY <1>3, <3>1, <3>2, <3>4, AppendOnce
    <3> QED BY <1>2, <1>4, <3>3, <3>5 DEF OnceInv, Single, Pending
  <2> QED BY <1>2, <2>1, <2>2
<1>7. OnceInv'
  <2> SUFFICES ASSUME NEW s \in Subs
               PROVE  /\ Pending(s)' => s <= n
                      /\ Pending(s)' \/ s > n => NotSetUp(s)'
    BY <1>2, <1>6 DEF OnceInv
  <2>1. Pending(s)' => Pending(s) \/ s = n
    BY <1>6
  <2>2. /\ Pending(s) => s <= made
        /\ Pending(s) \/ s > made => NotSetUp(s)
    BY DEF OnceInv
  <2>3. s \in Nat
    BY DEF Subs
  <2>4. NotSetUp(s)' <=> NotSetUp(s)
    BY <1>2 DEF NotSetUp
  <2> QED BY <1>1, <1>3, <1>4, <2>1, <2>2, <2>3, <2>4
<1>8. StreamInv'
  BY <1>2 DEF StreamInv
<1>9. FedInv'
  <2> SUFFICES ASSUME NEW s \in Subs, NEW p \in Subs, thread'[s] = thread'[p], s \notin overrun
               PROVE  FedFor(s, p)'
    BY <1>2 DEF FedInv
  <2>1. CASE s = n
    BY <1>2, <1>4, <2>1 DEF FedFor, NotSetUp, StreamInv
  <2>2. CASE s # n /\ p = n
    <3>1. ~Has(rpc, <<"unsub", p>>)
      BY <1>4, <2>2 DEF NotSetUp
    <3>2. NotAfter(rpc, s, p)
      <4>1. ASSUME NEW i \in 1..Len(rpc), NEW j \in i + 1..Len(rpc), rpc[j] = <<"unsub", p>>
            PROVE  FALSE
        <5>1. Len(rpc) \in Nat
          BY DEF IInv, Types
        <5>2. j \in 1..Len(rpc)
          BY <5>1
        <5> QED BY <3>1, <4>1, <5>2 DEF Has
      <4> QED BY <4>1 DEF NotAfter
    <3>3. thread'[s] = thread[s] /\ FedFor(s, s)
      BY <1>2, <2>2 DEF FedInv, StreamTypes
    <3> QED BY <1>2, <3>1, <3>2, <3>3 DEF FedFor
  <2>3. CASE s # n /\ p # n
    <3>1. thread'[s] = thread[s] /\ thread'[p] = thread[p]
      BY <1>2, <2>3 DEF StreamTypes
    <3>2. FedFor(s, p)
      BY <3>1 DEF FedInv
    <3> QED BY <1>2, <3>1, <3>2 DEF FedFor
  <2> QED BY <2>1, <2>2, <2>3
<1>10. LooseInv'
  <2> SUFFICES ASSUME NEW t \in feed, t \notin loose PROVE Wanted(t)'
    BY <1>2 DEF LooseInv
  <2>1. PICK q \in Subs : thread[q] = t /\ (q \in queue \/ Has(rpc, <<"unsub", q>>))
    BY DEF LooseInv, Wanted
  <2>2. q # n
    BY <1>4, <2>1 DEF NotSetUp
  <2>3. thread'[q] = t
    BY <1>2, <2>1, <2>2 DEF StreamTypes
  <2> QED BY <1>2, <2>1, <2>3 DEF Wanted
<1> QED BY <1>5, <1>7, <1>8, <1>9, <1>10

\* Messages reach the node, or are dropped with the websocket.
LEMMA WireFeeds ==
  ASSUME IInv, FeedsInv, NodeReceive \/ Reconnect \/ NodeLost \/ cancel_background_commands
  PROVE  FeedsInv'
<1>1. /\ UNCHANGED <<made, thread, ctx, task, queue, rpc, feed, overrun, loose>>
      /\ down \in Seq(Request) /\ cmds \in Seq(Request)
      /\ StreamTypes
  BY DEF NodeReceive, Reconnect, NodeLost, cancel_background_commands, serverVars, appVars,
         wireVars, history, appHistory, IInv, Types, FeedsInv
<1>2. /\ stopping' \in [Subs -> StopRange]
      /\ \A s \in Subs : stopping'[s] = "cancelled" <=> stopping[s] = "cancelled"
  <2>1. CASE cancel_background_commands
    BY <2>1, <1>1 DEF cancel_background_commands, StopRange, StreamTypes
  <2>2. CASE stopping' = stopping
    BY <2>2, <1>1 DEF StreamTypes
  <2> QED BY <2>1, <2>2 DEF NodeReceive, Reconnect, NodeLost
<1>3. \A s \in Subs : Single(s)
  BY DEF FeedsInv, OnceInv
<1>4. ASSUME NEW s \in Subs, NodeReceive PROVE Single(s)' /\ (Pending(s)' => Pending(s))
  <2>1. /\ down # <<>> /\ cmds' = Append(cmds, Head(down)) /\ down' = Tail(down)
    BY <1>4 DEF NodeReceive
  <2>2. PICK m : m = Head(down) /\ m \in Request
    BY <1>1, <2>1
  <2>3. /\ Has(cmds', <<"sub", s>>) <=> Has(cmds, <<"sub", s>>) \/ <<"sub", s>> = m
        /\ Has(down, <<"sub", s>>) <=> Has(down', <<"sub", s>>) \/ <<"sub", s>> = m
    <3>1. cmds' = Append(cmds, m)
      BY <2>1, <2>2
    <3>2. Has(cmds', <<"sub", s>>) <=> Has(cmds, <<"sub", s>>) \/ <<"sub", s>> = m
      BY <1>1, <2>2, <3>1, AppendHas
    <3>3. Has(down, <<"sub", s>>) <=> Has(down', <<"sub", s>>) \/ <<"sub", s>> = m
      BY <1>1, <2>1, <2>2, TailHas
    <3> QED BY <3>2, <3>3
  <2>4. /\ Once(down, <<"sub", s>>) /\ Once(cmds, <<"sub", s>>)
        /\ ~(Has(down, <<"sub", s>>) /\ Has(cmds, <<"sub", s>>))
    BY <1>3 DEF Single
  <2>5. /\ Once(down', <<"sub", s>>)
        /\ m = <<"sub", s>> => ~Has(down', <<"sub", s>>)
    BY <1>1, <2>1, <2>2, <2>4, TailOnce
  <2>6. m = <<"sub", s>> => ~Has(cmds, <<"sub", s>>)
    BY <2>3, <2>4
  <2>7. Once(cmds', <<"sub", s>>)
    BY <1>1, <2>1, <2>2, <2>4, <2>6, AppendOnce
  <2> QED BY <2>3, <2>4, <2>5, <2>6, <2>7 DEF Single, Pending
<1>5. ASSUME NEW s \in Subs, down' \in {down, <<>>}, cmds' \in {cmds, <<>>}
      PROVE  Single(s)' /\ (Pending(s)' => Pending(s))
  <2>1. Once(<<>>, <<"sub", s>>) /\ ~Has(<<>>, <<"sub", s>>)
    BY DEF Once, Has
  <2> QED BY <1>3, <1>5, <2>1 DEF Single, Pending
<1>6. ASSUME NEW s \in Subs PROVE Single(s)' /\ (Pending(s)' => Pending(s))
  BY <1>4, <1>5 DEF Reconnect, NodeLost, cancel_background_commands, wireVars
<1> QED BY <1>1, <1>2, <1>6, FeedRest

\* The request for s is carried out, and is on its way no more.
LEMMA SubscribeFeeds ==
  ASSUME IInv, FeedsInv, NodeSubscribe
  PROVE  FeedsInv'
<1> USE DEF FeedsInv
<1>1. PICK s : s = Head(cmds)[2]
  OBVIOUS
<1>2. /\ UNCHANGED <<made, thread, down, stopping, queue, rpc, feed, overrun, loose>>
      /\ cmds # <<>> /\ cmds \in Seq(Request) /\ cmds' = Tail(cmds)
      /\ Head(cmds)[1] = "sub"
      /\ ctx' = ctx \cup {s} /\ task' = [task EXCEPT ![s] = "created"]
  BY <1>1 DEF NodeSubscribe, Command, serverVars, appVars, appHistory, IInv, Types
<1>3. Head(cmds) = <<"sub", s>> /\ s \in Subs
  <2>1. Head(cmds) \in Request
    BY <1>2
  <2> QED BY <1>1, <1>2, <2>1 DEF Request
<1>4. \A x : Has(cmds, x) <=> Has(cmds', x) \/ x = <<"sub", s>>
  BY <1>2, <1>3, TailHas
<1>5. Pending(s) /\ NotSetUp(s) /\ s <= made
  BY <1>3, <1>4 DEF OnceInv, Pending
<1>6. ASSUME NEW q \in Subs
      PROVE  Single(q)' /\ (Pending(q)' => Pending(q) /\ q # s)
  <2>1. /\ Once(down, <<"sub", q>>) /\ Once(cmds, <<"sub", q>>)
        /\ ~(Has(down, <<"sub", q>>) /\ Has(cmds, <<"sub", q>>))
    BY DEF OnceInv, Single
  <2>2. Once(cmds', <<"sub", q>>) /\ (q = s => ~Has(cmds', <<"sub", q>>))
    BY <1>2, <1>3, <2>1, TailOnce
  <2> QED BY <1>2, <1>3, <1>4, <2>1, <2>2 DEF Single, Pending
<1>7. StreamTypes'
  BY <1>2 DEF StreamTypes
<1>8. OnceInv'
  <2> SUFFICES ASSUME NEW q \in Subs
               PROVE  /\ Pending(q)' => q <= made
                      /\ Pending(q)' \/ q > made => NotSetUp(q)'
    BY <1>2, <1>6 DEF OnceInv
  <2>1. /\ Pending(q) => q <= made
        /\ Pending(q) \/ q > made => NotSetUp(q)
    BY DEF OnceInv
  <2>2. q > made => q # s
    BY <1>3, <1>5 DEF Subs, IInv, Types
  <2>3. q # s /\ NotSetUp(q) => NotSetUp(q)'
    BY <1>2 DEF NotSetUp
  <2> QED BY <1>6, <2>1, <2>2, <2>3
<1>9. StreamInv'
  <2> SUFFICES ASSUME NEW q \in Subs
        PROVE /\ task'[q] \in {"created", "resuming", "streaming"}
                   => q \in ctx' /\ stopping[q] # "cancelled"
              /\ task'[q] \in {"created", "resuming"} => q \notin queue
              /\ task'[q] = "created" => ~Has(rpc, <<"resume", q>>)
              /\ task'[q] = "streaming" => q \in queue
              /\ q \in queue => q \in ctx' \/ stopping[q] = "cancelled"
    BY <1>2 DEF StreamInv
  <2>1. CASE q = s
    BY <1>2, <1>3, <1>5, <2>1 DEF NotSetUp, IInv, Types
  <2>2. CASE q # s
    BY <1>2, <1>3, <2>2 DEF StreamInv, IInv, Types
  <2> QED BY <2>1, <2>2
<1>10. FedInv'
  <2> SUFFICES ASSUME NEW q \in Subs, NEW p \in Subs, thread[q] = thread[p], q \notin overrun
               PROVE  FedFor(q, p)'
    BY <1>2 DEF FedInv
  <2>1. task'[q] = IF q = s THEN "created" ELSE task[q]
    BY <1>2, <1>3 DEF IInv, Types
  <2>2. FedFor(q, p)
    BY DEF FedInv
  <2> QED BY <1>2, <2>1, <2>2 DEF FedFor
<1>11. LooseInv'
  BY <1>2 DEF LooseInv, Wanted
<1> QED BY <1>7, <1>8, <1>9, <1>10, <1>11

\* A subscription whose context goes has its task cancelled with it.
LEMMA StopFeeds ==
  ASSUME IInv, FeedsInv, NEW s \in Subs,
         UNCHANGED <<made, thread, down, queue, rpc, feed, overrun, loose>>,
         IF s \in ctx THEN Stop(s) ELSE UNCHANGED <<ctx, task, stopping>>,
         \A q \in Subs : Single(q)' /\ (Pending(q)' => Pending(q))
  PROVE  FeedsInv'
<1> USE DEF FeedsInv
<1>1. CASE s \notin ctx
  BY <1>1, FeedRest DEF StreamTypes
<1>2. CASE s \in ctx
  <2>1. /\ ctx' = ctx \ {s}
        /\ \A q \in Subs : task'[q] = IF q = s THEN "none" ELSE task[q]
        /\ \A q \in Subs : stopping'[q] = IF q = s THEN "cancelled" ELSE stopping[q]
    BY <1>2 DEF Stop, IInv, Types, StreamTypes
  <2>2. StreamTypes'
    BY <1>2 DEF Stop, StreamTypes, StopRange
  <2>3. OnceInv'
    <3> SUFFICES ASSUME NEW q \in Subs
                 PROVE  /\ Pending(q)' => q <= made
                        /\ Pending(q)' \/ q > made => NotSetUp(q)'
      BY DEF OnceInv
    <3>1. /\ Pending(q) => q <= made
          /\ Pending(q) \/ q > made => NotSetUp(q)
      BY DEF OnceInv
    <3>2. NotSetUp(q) => NotSetUp(q)'
      BY <1>2, <2>1 DEF NotSetUp
    <3> QED BY <3>1, <3>2
  <2>4. StreamInv'
    <3> SUFFICES ASSUME NEW q \in Subs
          PROVE /\ task'[q] \in {"created", "resuming", "streaming"}
                     => q \in ctx' /\ stopping'[q] # "cancelled"
                /\ task'[q] \in {"created", "resuming"} => q \notin queue
                /\ task'[q] = "created" => ~Has(rpc, <<"resume", q>>)
                /\ task'[q] = "streaming" => q \in queue
                /\ q \in queue => q \in ctx' \/ stopping'[q] = "cancelled"
      BY DEF StreamInv
    <3>1. CASE q = s
      BY <2>1, <3>1
    <3>2. CASE q # s
      BY <2>1, <3>2 DEF StreamInv
    <3> QED BY <3>1, <3>2
  <2>5. FedInv'
    <3> SUFFICES ASSUME NEW q \in Subs, NEW p \in Subs, thread[q] = thread[p], q \notin overrun
                 PROVE  FedFor(q, p)'
      BY DEF FedInv
    <3>1. FedFor(q, p)
      BY DEF FedInv
    <3> QED BY <2>1, <3>1 DEF FedFor
  <2>6. LooseInv'
    BY DEF LooseInv, Wanted
  <2> QED BY <2>2, <2>3, <2>4, <2>5, <2>6
<1> QED BY <1>1, <1>2

LEMMA StopsFeed ==
  ASSUME IInv, FeedsInv,
         NodeUnsubscribe \/ \E s \in Subs : cancel_codex_thread_subscription(s)
  PROVE  FeedsInv'
<1>1. CASE NodeUnsubscribe
  <2>1. PICK s : s = Head(cmds)[2]
    OBVIOUS
  <2>2. /\ UNCHANGED <<made, thread, down, queue, rpc, feed, overrun, loose>>
        /\ cmds # <<>> /\ cmds \in Seq(Request) /\ cmds' = Tail(cmds)
        /\ Head(cmds)[1] = "unsub"
        /\ IF s \in ctx THEN Stop(s) ELSE UNCHANGED <<ctx, task, stopping>>
    BY <1>1, <2>1 DEF NodeUnsubscribe, Command, serverVars, appVars, history, appHistory, IInv, Types
  <2>3. s \in Subs
    <3>1. Head(cmds) \in Request
      BY <2>2
    <3> QED BY <2>1, <3>1 DEF Request
  <2>4. ASSUME NEW q \in Subs PROVE Single(q)' /\ (Pending(q)' => Pending(q))
    <3>1. Single(q)
      BY DEF FeedsInv, OnceInv
    <3>2. Once(cmds', <<"sub", q>>)
      BY <2>2, <3>1, TailOnce DEF Single
    <3>3. Has(cmds', <<"sub", q>>) => Has(cmds, <<"sub", q>>)
      BY <2>2, TailHas
    <3> QED BY <2>2, <3>1, <3>2, <3>3 DEF Single, Pending
  <2> QED BY <2>2, <2>3, <2>4, StopFeeds
<1>2. CASE \E s \in Subs : cancel_codex_thread_subscription(s)
  <2>1. PICK s \in Subs : cancel_codex_thread_subscription(s)
    BY <1>2
  <2>2. /\ UNCHANGED <<made, thread, down, cmds, queue, rpc, feed, overrun, loose>>
        /\ IF s \in ctx THEN Stop(s) ELSE UNCHANGED <<ctx, task, stopping>>
    BY <2>1 DEF cancel_codex_thread_subscription, serverVars, wireVars, appVars, history, appHistory
  <2>3. ASSUME NEW q \in Subs PROVE Single(q)' /\ (Pending(q)' => Pending(q))
    BY <2>2 DEF FeedsInv, OnceInv, Single, Pending
  <2> QED BY <2>2, <2>3, StopFeeds
<1> QED BY <1>1, <1>2

\* unsubscribe_thread asks for a thread that no queue is left of; a subscription
\* of it that is being resumed is overrun.
LEMMA AskedFeeds ==
  ASSUME IInv, UpInv, FeedsInv, NEW s \in Subs, unsubscribe_thread(s)
  PROVE  FeedsInv'
<1> USE DEF FeedsInv
<1>0. <<"unsub", s>> \in AppRequest
  BY DEF AppRequest
<1>1. PICK m : m = <<"unsub", s>> /\ m \in AppRequest
  BY <1>0
<1>2. /\ UNCHANGED <<made, thread, down, cmds, ctx, task, feed, loose>>
      /\ stopping[s] = "cancelled" /\ queue' = queue \ {s}
      /\ \/ /\ s \in queue /\ ~StillInterested(s)
            /\ rpc' = Append(rpc, m) /\ stopping' = [stopping EXCEPT ![s] = "asked"]
            /\ overrun' = overrun \cup Resuming(s)
         \/ /\ ~(s \in queue /\ ~StillInterested(s))
            /\ UNCHANGED <<rpc, overrun>> /\ stopping' = [stopping EXCEPT ![s] = "no"]
  BY <1>1 DEF unsubscribe_thread, serverVars
<1>3. rpc \in Seq(AppRequest)
  BY DEF IInv, Types
<1>4. /\ \A q \in Subs : Has(rpc', <<"resume", q>>) <=> Has(rpc, <<"resume", q>>)
      /\ \A q \in Subs : Has(rpc', <<"unsub", q>>) => Has(rpc, <<"unsub", q>>) \/ q = s
      /\ \A q \in Subs : Has(rpc, <<"unsub", q>>) => Has(rpc', <<"unsub", q>>)
      /\ rpc' # rpc => Has(rpc', <<"unsub", s>>)
  <2>1. CASE rpc' = Append(rpc, m)
    <3>1. \A x : Has(rpc', x) <=> Has(rpc, x) \/ x = m
      BY <1>1, <1>3, <2>1, AppendHas
    <3> QED BY <1>1, <3>1
  <2> QED BY <1>2, <2>1
<1>5. \A q \in Subs : /\ q # s => stopping'[q] = stopping[q]
                      /\ stopping'[q] = "cancelled" => stopping[q] = "cancelled"
                      /\ stopping'[s] # "cancelled"
  BY <1>2 DEF StreamTypes
<1>6. StreamTypes'
  BY <1>2 DEF StreamTypes, StopRange
<1>7. ~Pending(s) /\ s <= made /\ task[s] \notin {"created", "resuming", "streaming"}
  <2>1. ~NotSetUp(s)
    BY <1>2 DEF NotSetUp
  <2>2. ~Pending(s) /\ ~(s > made)
    BY <2>1 DEF OnceInv
  <2>3. task[s] \notin {"created", "resuming", "streaming"}
    BY <1>2 DEF StreamInv
  <2>4. s \in Nat /\ made \in Nat
    BY DEF Subs, IInv, Types
  <2> QED BY <2>2, <2>3, <2>4
<1>8. OnceInv'
  <2> SUFFICES ASSUME NEW q \in Subs
               PROVE  /\ Single(q)' /\ (Pending(q)' => q <= made)
                      /\ Pending(q)' \/ q > made => NotSetUp(q)'
    BY <1>2 DEF OnceInv
  <2>1. /\ Single(q) /\ (Pending(q) => q <= made)
        /\ Pending(q) \/ q > made => NotSetUp(q) /\ q # s
    BY <1>7 DEF OnceInv, Subs, IInv, Types
  <2>2. (Single(q)' <=> Single(q)) /\ (Pending(q)' <=> Pending(q))
    BY <1>2 DEF Single, Pending
  <2>3. q # s /\ NotSetUp(q) => NotSetUp(q)'
    BY <1>2, <1>4, <1>5 DEF NotSetUp
  <2> QED BY <2>1, <2>2, <2>3
<1>9. StreamInv'
  <2> SUFFICES ASSUME NEW q \in Subs
        PROVE /\ task[q] \in {"created", "resuming", "streaming"}
                   => q \in ctx /\ stopping'[q] # "cancelled"
              /\ task[q] \in {"created", "resuming"} => q \notin queue'
              /\ task[q] = "created" => ~Has(rpc', <<"resume", q>>)
              /\ task[q] = "streaming" => q \in queue'
              /\ q \in queue' => q \in ctx \/ stopping'[q] = "cancelled"
    BY <1>2 DEF StreamInv
  <2>1. CASE q = s
    BY <1>2, <1>7, <2>1
  <2>2. CASE q # s
    BY <1>2, <1>4, <1>5, <2>2 DEF StreamInv
  <2> QED BY <2>1, <2>2
<1>10. FedInv'
  <2> SUFFICES ASSUME NEW q \in Subs, NEW p \in Subs, thread[q] = thread[p], q \notin overrun'
               PROVE  FedFor(q, p)'
    BY <1>2 DEF FedInv
  <2>1. FedFor(q, p)
    BY <1>2 DEF FedInv
  <2>2. CASE rpc' = rpc
    BY <1>2, <2>1, <2>2 DEF FedFor
  <2>3. CASE rpc' # rpc
    <3>1. /\ s \in queue /\ ~StillInterested(s) /\ rpc' = Append(rpc, m)
          /\ overrun' = overrun \cup Resuming(s)
      BY <1>2, <2>3
    <3>2. ASSUME task[q] = "streaming"
          PROVE  thread[q] \in feed /\ ~Has(rpc', <<"unsub", p>>)
      <4>1. q \in queue /\ q # s
        BY <1>7, <3>2 DEF StreamInv
      <4>2. p # s
        BY <3>1, <4>1 DEF StillInterested
      <4> QED BY <1>4, <2>1, <3>2, <4>2 DEF FedFor
    <3>3. ASSUME task[q] = "resuming"
          PROVE  NotAfter(rpc', q, p)
      <4>1. p # s
        BY <3>1, <3>3 DEF Resuming
      <4>2. m # <<"unsub", p>> /\ NotAfter(rpc, q, p)
        BY <1>1, <2>1, <3>3, <4>1 DEF FedFor
      <4> QED BY <1>1, <1>3, <3>1, <4>2, AppendNotAfter
    <3> QED BY <1>2, <3>2, <3>3 DEF FedFor
  <2> QED BY <2>2, <2>3
<1>11. LooseInv'
  <2> SUFFICES ASSUME NEW t \in feed, t \notin loose PROVE Wanted(t)'
    BY <1>2 DEF LooseInv
  <2>1. PICK q \in Subs : thread[q] = t /\ (q \in queue \/ Has(rpc, <<"unsub", q>>))
    BY DEF LooseInv, Wanted
  <2>2. CASE q # s \/ Has(rpc, <<"unsub", q>>)
    BY <1>2, <1>4, <2>1, <2>2 DEF Wanted
  <2>3. CASE q = s /\ q \in queue /\ ~StillInterested(s)
    <3>1. rpc' = Append(rpc, m)
      BY <1>2, <2>3
    <3>2. Has(rpc', <<"unsub", s>>)
      BY <1>1, <1>3, <3>1, AppendHas
    <3> QED BY <1>2, <2>1, <2>3, <3>2 DEF Wanted
  <2>4. CASE q = s /\ StillInterested(s)
    <3>1. PICK p \in queue \ {s} : thread[p] = thread[s]
      BY <2>4 DEF StillInterested
    <3>2. p \in Subs /\ p \in queue'
      BY <1>2, <3>1 DEF Wanted, UpInv
    <3> QED BY <1>2, <2>1, <2>4, <3>1, <3>2 DEF Wanted
  <2> QED BY <2>1, <2>2, <2>3, <2>4
<1> QED BY <1>6, <1>8, <1>9, <1>10, <1>11

LEMMA ResumeStartFeeds ==
  ASSUME IInv, FeedsInv, NEW s \in Subs, ResumeStarts(s)
  PROVE  FeedsInv'
<1> USE DEF FeedsInv
<1>0. <<"resume", s>> \in AppRequest
  BY DEF AppRequest
<1>1. PICK m : m = <<"resume", s>> /\ m \in AppRequest
  BY <1>0
<1>2. /\ UNCHANGED <<made, thread, down, cmds, ctx, stopping, queue, feed, overrun, loose>>
      /\ task[s] = "created" /\ rpc' = Append(rpc, m)
      /\ \A q \in Subs : task'[q] = IF q = s THEN "resuming" ELSE task[q]
  BY <1>1 DEF ResumeStarts, serverVars, wireVars, history, appHistory, IInv, Types
<1>3. rpc \in Seq(AppRequest)
  BY DEF IInv, Types
<1>4. /\ \A q \in Subs : Has(rpc', <<"resume", q>>) <=> Has(rpc, <<"resume", q>>) \/ q = s
      /\ \A q \in Subs : Has(rpc', <<"unsub", q>>) <=> Has(rpc, <<"unsub", q>>)
  <2>1. \A x : Has(rpc', x) <=> Has(rpc, x) \/ x = m
    BY <1>1, <1>2, <1>3, AppendHas
  <2> QED BY <1>1, <2>1
<1>5. s \in ctx /\ s \notin queue /\ stopping[s] # "cancelled" /\ ~Has(rpc, <<"resume", s>>)
  BY <1>2 DEF StreamInv
<1>6. StreamTypes'
  BY <1>2 DEF StreamTypes
<1>7. OnceInv'
  <2> SUFFICES ASSUME NEW q \in Subs
               PROVE  /\ Single(q)' /\ (Pending(q)' => q <= made)
                      /\ Pending(q)' \/ q > made => NotSetUp(q)'
    BY <1>2 DEF OnceInv
  <2>1. /\ Single(q) /\ (Pending(q) => q <= made)
        /\ Pending(q) \/ q > made => NotSetUp(q)
    BY DEF OnceInv
  <2>2. (Single(q)' <=> Single(q)) /\ (Pending(q)' <=> Pending(q))
    BY <1>2 DEF Single, Pending
  <2>3. NotSetUp(q) => NotSetUp(q)'
    BY <1>2, <1>4, <1>5 DEF NotSetUp
  <2> QED BY <2>1, <2>2, <2>3
<1>8. StreamInv'
  <2> SUFFICES ASSUME NEW q \in Subs
        PROVE /\ task'[q] \in {"created", "resuming", "streaming"}
                   => q \in ctx /\ stopping[q] # "cancelled"
              /\ task'[q] \in {"created", "resuming"} => q \notin queue
              /\ task'[q] = "created" => ~Has(rpc', <<"resume", q>>)
              /\ task'[q] = "streaming" => q \in queue
              /\ q \in queue => q \in ctx \/ stopping[q] = "cancelled"
    BY <1>2 DEF StreamInv
  <2>1. CASE q = s
    BY <1>2, <1>5, <2>1
  <2>2. CASE q # s
    BY <1>2, <1>4, <2>2 DEF StreamInv
  <2> QED BY <2>1, <2>2
<1>9. FedInv'
  <2> SUFFICES ASSUME NEW q \in Subs, NEW p \in Subs, thread[q] = thread[p], q \notin overrun
               PROVE  FedFor(q, p)'
    BY <1>2 DEF FedInv
  <2>1. FedFor(q, p)
    BY DEF FedInv
  <2>2. m # <<"unsub", p>>
    BY <1>1
  <2>3. NotAfter(rpc, q, p) \/ q = s => NotAfter(rpc', q, p)
    BY <1>1, <1>2, <1>3, <1>5, <2>2, AppendNotAfter
  <2> QED BY <1>2, <1>4, <2>1, <2>3 DEF FedFor
<1>10. LooseInv'
  BY <1>2, <1>4 DEF LooseInv, Wanted
<1> QED BY <1>6, <1>7, <1>8, <1>9, <1>10

\* The app server answers: no request that is left stops what it now feeds.
LEMMA ResumesFeed ==
  ASSUME IInv, FeedsInv, AppResumes
  PROVE  FeedsInv'
<1> USE DEF FeedsInv
<1>1. PICK s : s = Head(rpc)[2]
  OBVIOUS
<1>2. /\ UNCHANGED <<made, thread, down, cmds, stopping, overrun>>
      /\ rpc # <<>> /\ rpc \in Seq(AppRequest) /\ rpc' = Tail(rpc)
      /\ Head(rpc)[1] = "resume"
  BY DEF AppResumes, serverVars, wireVars, IInv, Types
<1>3. Head(rpc) = <<"resume", s>> /\ s \in Subs
  <2>1. Head(rpc) \in AppRequest
    BY <1>2
  <2> QED BY <1>1, <1>2, <2>1 DEF AppRequest
<1>4. /\ \A x : Has(rpc, x) <=> Has(rpc', x) \/ x = <<"resume", s>>
      /\ \A q \in Subs : Has(rpc', <<"unsub", q>>) <=> Has(rpc, <<"unsub", q>>)
  <2>1. \A x : Has(rpc, x) <=> Has(rpc', x) \/ x = <<"resume", s>>
    BY <1>2, <1>3, TailHas
  <2> QED BY <2>1
\* What the answer does to the resumed subscription.
<1>5. \/ /\ task[s] = "resuming" /\ feed' = feed \cup {thread[s]} /\ queue' = queue \cup {s}
         /\ UNCHANGED <<ctx, loose>>
         /\ \A q \in Subs : task'[q] = IF q = s THEN "streaming" ELSE task[q]
      \/ /\ task[s] # "resuming" /\ feed' = feed \cup {thread[s]}
         /\ loose' = loose \cup {thread[s]} /\ UNCHANGED <<ctx, queue, task>>
      \/ /\ task[s] = "resuming" /\ ctx' = ctx \ {s} /\ UNCHANGED <<feed, queue, loose>>
         /\ \A q \in Subs : task'[q] = IF q = s THEN "none" ELSE task[q]
      \/ /\ task[s] # "resuming" /\ UNCHANGED <<ctx, feed, queue, loose>>
         /\ \A q \in Subs : task'[q] = task[q]
  BY <1>1, <1>3 DEF AppResumes, IInv, Types
<1>6. /\ \A q \in Subs : task'[q] \in {"created", "resuming"} => task'[q] = task[q] /\ q \in ctx'
      /\ \A q \in Subs : task'[q] = "streaming"
           => q \in queue' /\ q \in ctx' /\ (task[q] = "streaming" \/ (q = s /\ task[q] = "resuming"))
      /\ \A q \in Subs : q \in queue' => q \in queue \/ task'[q] = "streaming"
      /\ \A q \in Subs : q \in queue' => q \in ctx' \/ stopping[q] = "cancelled"
      /\ ctx' \subseteq ctx /\ queue \subseteq queue' /\ feed \subseteq feed'
      /\ \A q \in Subs : task'[q] = "streaming" /\ task[q] # "streaming" => thread[q] \in feed'
  <2>1. \A q \in Subs :
          /\ task[q] \in {"created", "resuming", "streaming"} => q \in ctx
          /\ task[q] \in {"created", "resuming"} => q \notin queue
          /\ task[q] = "streaming" => q \in queue
          /\ q \in queue => q \in ctx \/ stopping[q] = "cancelled"
    BY DEF StreamInv
  <2>2. CASE task[s] = "resuming" /\ feed' = feed \cup {thread[s]}
    BY <1>3, <1>5, <2>1, <2>2
  <2>3. CASE task[s] # "resuming"
    BY <1>3, <1>5, <2>1, <2>3
  <2>4. CASE task[s] = "resuming" /\ ctx' = ctx \ {s}
    BY <1>3, <1>5, <2>1, <2>4
  <2> QED BY <1>5, <2>2, <2>3, <2>4
<1>7. StreamTypes'
  BY <1>2 DEF StreamTypes
<1>8. OnceInv'
  <2> SUFFICES ASSUME NEW q \in Subs
               PROVE  /\ Single(q)' /\ (Pending(q)' => q <= made)
                      /\ Pending(q)' \/ q > made => NotSetUp(q)'
    BY <1>2 DEF OnceInv
  <2>1. /\ Single(q) /\ (Pending(q) => q <= made)
        /\ Pending(q) \/ q > made => NotSetUp(q)
    BY DEF OnceInv
  <2>2. (Single(q)' <=> Single(q)) /\ (Pending(q)' <=> Pending(q))
    BY <1>2 DEF Single, Pending
  <2>3. NotSetUp(q) => NotSetUp(q)'
    BY <1>2, <1>4, <1>6 DEF NotSetUp
  <2> QED BY <2>1, <2>2, <2>3
<1>9. StreamInv'
  <2> SUFFICES ASSUME NEW q \in Subs
        PROVE /\ task'[q] \in {"created", "resuming", "streaming"}
                   => q \in ctx' /\ stopping[q] # "cancelled"
              /\ task'[q] \in {"created", "resuming"} => q \notin queue'
              /\ task'[q] = "created" => ~Has(rpc', <<"resume", q>>)
              /\ task'[q] = "streaming" => q \in queue'
              /\ q \in queue' => q \in ctx' \/ stopping[q] = "cancelled"
    BY <1>2 DEF StreamInv
  <2>1. /\ task[q] \in {"created", "resuming", "streaming"} => stopping[q] # "cancelled"
        /\ task[q] \in {"created", "resuming"} => q \notin queue
        /\ task[q] = "created" => ~Has(rpc, <<"resume", q>>)
    BY DEF StreamInv
  <2> QED BY <1>4, <1>6, <2>1
<1>10. FedInv'
  <2> SUFFICES ASSUME NEW q \in Subs, NEW p \in Subs, thread[q] = thread[p], q \notin overrun
               PROVE  FedFor(q, p)'
    BY <1>2 DEF FedInv
  <2>1. FedFor(q, p)
    BY DEF FedInv
  <2>2. NotAfter(rpc, q, p)
          => NotAfter(rpc', q, p) /\ (q = s => ~Has(rpc', <<"unsub", p>>))
    BY <1>2, <1>3, TailNotAfter
  <2>3. task'[q] = "streaming" => thread[q] \in feed' /\ ~Has(rpc', <<"unsub", p>>)
    BY <1>4, <1>6, <2>1, <2>2 DEF FedFor
  <2>4. task'[q] = "resuming" => NotAfter(rpc', q, p)
    BY <1>6, <2>1, <2>2 DEF FedFor
  <2> QED BY <1>2, <2>3, <2>4 DEF FedFor
<1>11. LooseInv'
  <2> SUFFICES ASSUME NEW t \in feed', t \notin loose' PROVE Wanted(t)'
    BY DEF LooseInv
  <2>1. CASE t \in feed /\ t \notin loose
    <3>1. PICK q \in Subs : thread[q] = t /\ (q \in queue \/ Has(rpc, <<"unsub", q>>))
      BY <2>1 DEF LooseInv, Wanted
    <3> QED BY <1>2, <1>4, <1>6, <3>1 DEF Wanted
  <2>2. CASE ~(t \in feed /\ t \notin loose)
    <3>1. t = thread[s] /\ s \in queue'
      BY <1>5, <2>2
    <3> QED BY <1>2, <1>3, <3>1 DEF Wanted
  <2> QED BY <2>1, <2>2
<1> QED BY <1>7, <1>8, <1>9, <1>10, <1>11

LEMMA UnsubscribesFeed ==
  ASSUME IInv, FeedsInv, AppUnsubscribes
  PROVE  FeedsInv'
<1> USE DEF FeedsInv
<1>1. PICK s : s = Head(rpc)[2]
  OBVIOUS
<1>2. /\ UNCHANGED <<made, thread, down, cmds, ctx, task, queue, overrun>>
      /\ rpc # <<>> /\ rpc \in Seq(AppRequest) /\ rpc' = Tail(rpc)
      /\ Head(rpc)[1] = "unsub"
      /\ feed' = feed \ {thread[s]} /\ loose' = loose \ {thread[s]}
      /\ stopping' = [stopping EXCEPT ![s] = IF @ = "asked" THEN "no" ELSE @]
  BY <1>1 DEF AppUnsubscribes, serverVars, IInv, Types
<1>3. Head(rpc) = <<"unsub", s>> /\ s \in Subs
  <2>1. Head(rpc) \in AppRequest
    BY <1>2
  <2> QED BY <1>1, <1>2, <2>1 DEF AppRequest
<1>4. \A x : Has(rpc, x) <=> Has(rpc', x) \/ x = <<"unsub", s>>
  BY <1>2, <1>3, TailHas
<1>5. /\ StreamTypes'
      /\ \A q \in Subs : stopping'[q] = "cancelled" <=> stopping[q] = "cancelled"
  BY <1>2, <1>3 DEF StreamTypes, StopRange
<1>6. OnceInv'
  <2> SUFFICES ASSUME NEW q \in Subs
               PROVE  /\ Single(q)' /\ (Pending(q)' => q <= made)
                      /\ Pending(q)' \/ q > made => NotSetUp(q)'
    BY <1>2 DEF OnceInv
  <2>1. /\ Single(q) /\ (Pending(q) => q <= made)
        /\ Pending(q) \/ q > made => NotSetUp(q)
    BY DEF OnceInv
  <2>2. (Single(q)' <=> Single(q)) /\ (Pending(q)' <=> Pending(q))
    BY <1>2 DEF Single, Pending
  <2>3. NotSetUp(q) => NotSetUp(q)'
    BY <1>2, <1>4, <1>5 DEF NotSetUp
  <2> QED BY <2>1, <2>2, <2>3
<1>7. StreamInv'
  BY <1>2, <1>4, <1>5 DEF StreamInv
<1>8. FedInv'
  <2> SUFFICES ASSUME NEW q \in Subs, NEW p \in Subs, thread[q] = thread[p], q \notin overrun
               PROVE  FedFor(q, p)'
    BY <1>2 DEF FedInv
  <2>1. FedFor(q, p)
    BY DEF FedInv
  <2>2. task[q] = "streaming" => thread[q] # thread[s]
    <3>1. ASSUME task[q] = "streaming", thread[q] = thread[s] PROVE FALSE
      <4>1. FedFor(q, s)
        BY <1>3, <3>1 DEF FedInv
      <4>2. Has(rpc, <<"unsub", s>>)
        BY <1>4
      <4> QED BY <3>1, <4>1, <4>2 DEF FedFor
    <3> QED BY <3>1
  <2>3. NotAfter(rpc, q, p) => NotAfter(rpc', q, p)
    BY <1>2, TailNotAfter
  <2> QED BY <1>2, <1>4, <2>1, <2>2, <2>3 DEF FedFor
<1>9. LooseInv'
  <2> SUFFICES ASSUME NEW t \in feed', t \notin loose' PROVE Wanted(t)'
    BY DEF LooseInv
  <2>1. t \in feed /\ t \notin loose /\ t # thread[s]
    BY <1>2
  <2>2. PICK q \in Subs : thread[q] = t /\ (q \in queue \/ Has(rpc, <<"unsub", q>>))
    BY <2>1 DEF LooseInv, Wanted
  <2> QED BY <1>2, <1>4, <2>1, <2>2 DEF Wanted
<1> QED BY <1>5, <1>6, <1>7, <1>8, <1>9

\* An event ends streams only when the websocket is gone.
LEMMA EventFeeds ==
  ASSUME IInv, FeedsInv, NEW t \in Threads, NEW k \in {"event", "closed"}, AppEvent(t, k)
  PROVE  FeedsInv'
<1>1. /\ UNCHANGED <<made, thread, down, cmds, ctx, stopping, queue, rpc, feed, overrun, loose>>
      /\ \A s \in Subs : task'[s] \in {task[s], "dead"}
  BY DEF AppEvent, serverVars, history, appHistory
<1>2. ASSUME NEW s \in Subs PROVE Single(s)' /\ (Pending(s)' => Pending(s))
  BY <1>1 DEF FeedsInv, OnceInv, Single, Pending
<1> QED BY <1>1, <1>2, FeedRest DEF FeedsInv, StreamTypes

LEMMA NextFeeds ==
  ASSUME IInv, UpInv, FeedsInv, [Next]_vars
  PROVE  FeedsInv'
<1>1. CASE \/ \E c \in Calls : \/ \E t \in Threads : subscribe_bro_thread(c, t)
                               \/ \E t \in Threads \cup {AnyThread} : unsubscribe_bro_thread(c, t)
                               \/ AlreadySelected(c) \/ SubscribeReturns(c) \/ SubscribeGivesUp(c)
                               \/ stop_selected(c) \/ UnsubscribeReturns(c)
           \/ \E s \in Subs : BackgroundUnsubscribe(s) \/ BackgroundReturns(s)
           \/ publish_reply \/ ThreadEvent \/ ThreadClosed \/ CloserTimeout
           \/ Drop \/ disconnect \/ UNCHANGED vars
  BY <1>1, RuntimeFeeds
<1>2. CASE \E c \in Calls : replace_selected(c)
  BY <1>2, ReplaceFeeds
<1>3. CASE NodeReceive \/ Reconnect \/ NodeLost \/ cancel_background_commands
  BY <1>3, WireFeeds
<1>4. CASE NodeSubscribe
  BY <1>4, SubscribeFeeds
<1>5. CASE NodeUnsubscribe \/ \E s \in Subs : cancel_codex_thread_subscription(s)
  BY <1>5, StopsFeed
<1>6. CASE \E s \in Subs : unsubscribe_thread(s)
  BY <1>6, AskedFeeds
<1>7. CASE \E s \in Subs : ResumeStarts(s)
  BY <1>7, ResumeStartFeeds
<1>8. CASE AppResumes
  BY <1>8, ResumesFeed
<1>9. CASE AppUnsubscribes
  BY <1>9, UnsubscribesFeed
<1>10. CASE \E t \in Threads, k \in {"event", "closed"} : AppEvent(t, k)
  BY <1>10, EventFeeds
<1> QED
  BY <1>1, <1>2, <1>3, <1>4, <1>5, <1>6, <1>7, <1>8, <1>9, <1>10 DEF Next

LEMMA InitFeeds == Init => FeedsInv
<1> SUFFICES ASSUME Init PROVE FeedsInv
  OBVIOUS
<1> USE DEF Init
<1>1. StreamTypes
  BY DEF StreamTypes, StopRange
<1>2. \A x : ~Has(<<>>, x) /\ Once(<<>>, x)
  BY DEF Has, Once
<1>3. OnceInv
  BY <1>2 DEF OnceInv, Single, Pending, NotSetUp
<1>4. StreamInv /\ FedInv /\ LooseInv
  BY DEF StreamInv, FedInv, FedFor, LooseInv
<1> QED BY <1>1, <1>3, <1>4 DEF FeedsInv

-----------------------------------------------------------------------------
(* The theorems *)

LEMMA InitIInv == Init => IInv /\ UpInv
<1> SUFFICES ASSUME Init PROVE IInv /\ UpInv
  OBVIOUS
<1> USE DEF Init
<1>1. Types
  <2>1. /\ selected \in 0..MaxSubs /\ made \in 0..MaxSubs
        /\ call \in [Calls -> CallRange]
    BY DEF CallRange, Pcs
  <2>2. down \in Seq(Request) /\ cmds \in Seq(Request) /\ rpc \in Seq(AppRequest)
    <3>1. <<>> \in Seq(Request) /\ <<>> \in Seq(AppRequest)
      OBVIOUS
    <3> QED BY <3>1
  <2>3. /\ bg \in [Subs -> BgRange] /\ task \in [Subs -> TaskRange]
        /\ sweep \in SweepRange
    BY DEF BgRange, TaskRange, SweepRange
  <2> QED BY <2>1, <2>2, <2>3 DEF Types
<1>2. CallsAreMade
  BY DEF CallsAreMade, Active
<1>3. StoppedIsPast
  BY NothingQueued DEF StoppedIsPast, BeingStopped
<1>4. WireInv
  BY DEF WireInv
<1>5. StopInv
  BY NothingQueued DEF StopInv
<1>6. ServedInv
  BY DEF ServedInv
<1>7. UpInv
  BY DEF UpInv
<1> QED BY <1>1, <1>2, <1>3, <1>4, <1>5, <1>6, <1>7 DEF IInv

LEMMA NextIInv ==
  ASSUME IInv, UpInv, [Next]_vars
  PROVE  IInv'
<1>1. CASE \E c \in Calls : \/ \E t \in Threads : subscribe_bro_thread(c, t)
                            \/ \E t \in Threads \cup {AnyThread} : unsubscribe_bro_thread(c, t)
                            \/ AlreadySelected(c) \/ SubscribeReturns(c) \/ UnsubscribeReturns(c)
  BY <1>1, CallSteps
<1>2. CASE \E c \in Calls : replace_selected(c)
  BY <1>2, Replace
<1>3. CASE \E c \in Calls : SubscribeGivesUp(c)
  BY <1>3, SubscribeGivesUpInv
<1>4. CASE \E c \in Calls : stop_selected(c)
  BY <1>4, StopSelectedInv
<1>5. CASE \E s \in Subs : BackgroundUnsubscribe(s)
  BY <1>5, BackgroundSends
<1>6. CASE \E s \in Subs : BackgroundReturns(s)
  BY <1>6, BackgroundReturn
<1>7. CASE \E s \in Subs : ResumeStarts(s)
  BY <1>7, ResumeStart
<1>8. CASE (\E s \in Subs : unsubscribe_thread(s)) \/ AppUnsubscribes
  BY <1>8, StopGoesOn
<1>9. CASE publish_reply \/ ThreadEvent \/ CloserTimeout \/ UNCHANGED vars
  BY <1>9, ServerReads
<1>10. CASE ThreadClosed
  BY <1>10, Closed
<1>11. CASE \/ Drop \/ disconnect \/ NodeLost \/ cancel_background_commands
            \/ \E s \in Subs : cancel_codex_thread_subscription(s)
  BY <1>11, LossSteps
<1>12. CASE Reconnect
  BY <1>12, Reconnects
<1>13. CASE NodeReceive
  BY <1>13, Receives
<1>14. CASE NodeSubscribe
  BY <1>14, NodeSubscribes
<1>15. CASE NodeUnsubscribe
  BY <1>15, NodeUnsubscribes
<1>16. CASE AppResumes
  BY <1>16, Resumes
<1>17. CASE \E t \in Threads, k \in {"event", "closed"} : AppEvent(t, k)
  BY <1>17, AppEvents
<1> QED
  BY <1>1, <1>2, <1>3, <1>4, <1>5, <1>6, <1>7, <1>8, <1>9, <1>10, <1>11, <1>12, <1>13, <1>14,
     <1>15, <1>16, <1>17 DEF Next

\* Whatever was replaced, given up, timed out or cut off, the stop of every
\* subscription that is not selected is still to be sent, or is on its way
\* behind whatever could set it up at the node, or the loss of the websocket
\* ends it; and the selected one is on its way or served.  What the app server
\* feeds has its queue at the node, or the request to stop it on the way.
THEOREM SubscriptionsInvariant == Spec => [](IInv /\ UpInv /\ FeedsInv)
<1>1. Init => IInv /\ UpInv /\ FeedsInv
  BY InitIInv, InitFeeds
<1>2. IInv /\ UpInv /\ FeedsInv /\ [Next]_vars => (IInv /\ UpInv /\ FeedsInv)'
  BY NextIInv, UpTyped, NextFeeds
<1> QED BY <1>1, <1>2, PTL DEF Spec

\* unsubscribe_codex_thread, unsubscribe_thread and the node's cleanup: once
\* nothing is under way, the node streams for the selected subscription and for
\* no other, those apart that a command set up during the cleanup after a lost
\* websocket, and the app server feeds only threads the node has a subscription
\* of, those apart that were resumed after their subscription was cancelled.
THEOREM NoStrayStreams == Spec => []NoStrayStream
<1>1. IInv /\ UpInv /\ FeedsInv => NoStrayStream
  <2> SUFFICES ASSUME IInv, UpInv, FeedsInv, Quiet PROVE NoStrayStream
    BY DEF NoStrayStream
  <2>0. cmds = <<>> /\ down = <<>> /\ rpc = <<>>
    BY DEF Quiet
  <2>1. ASSUME NEW s \in ctx \ late, s # selected PROVE FALSE
    <3>1. s \in Subs
      BY <2>1 DEF IInv, Types
    <3>2. ~StopDue(s)
      BY <3>1 DEF Quiet, StopDue
    <3>3. Has(cmds, <<"unsub", s>>) \/ Has(down, <<"unsub", s>>)
      BY <2>1, <3>1, <3>2 DEF IInv, StopInv
    <3> QED BY <2>0, <3>3, NothingQueued
  <2>2. ASSUME NEW t \in feed \ loose PROVE \E s \in ctx : thread[s] = t
    <3>1. PICK q \in Subs : thread[q] = t /\ (q \in queue \/ Has(rpc, <<"unsub", q>>))
      BY <2>2 DEF FeedsInv, LooseInv, Wanted
    <3>2. q \in queue
      BY <2>0, <3>1, NothingQueued
    <3>3. stopping[q] = "no"
      BY DEF Quiet
    <3>4. q \in ctx
      BY <3>2, <3>3 DEF FeedsInv, StreamInv
    <3> QED BY <3>1, <3>4
  <2> QED BY <2>1, <2>2 DEF NoStrayStream
<1> QED BY <1>1, SubscriptionsInvariant, PTL

\* _resume_and_stream_codex_thread and unsubscribe_thread: a subscription made
\* over the present websocket and resumed by the app server is streamed for as
\* long as it is selected, by the node and, unless another's stop of the thread
\* followed its resume, by the app server.
THEOREM SelectedIsServed == Spec => []SelectedIsStreamed
<1>1. IInv /\ UpInv /\ FeedsInv => SelectedIsStreamed
  <2> SUFFICES ASSUME IInv, FeedsInv, Quiet, selected \in since
               PROVE  /\ selected \in ctx /\ task[selected] = "streaming"
                      /\ selected \in queue
                      /\ selected \notin overrun => thread[selected] \in feed
    BY DEF SelectedIsStreamed
  <2>1. selected \in Subs /\ Served(selected)
    BY DEF IInv, Types, ServedInv, Quiet
  <2>2. cmds = <<>> /\ down = <<>> /\ rpc = <<>> /\ task[selected] # "created"
    BY <2>1 DEF Quiet
  <2>3. selected \in ctx /\ task[selected] = "streaming"
    BY <2>1, <2>2, NothingQueued DEF Served
  <2>4. selected \in queue
    BY <2>1, <2>3 DEF FeedsInv, StreamInv
  <2>5. selected \notin overrun => thread[selected] \in feed
    BY <2>1, <2>3 DEF FeedsInv, FedInv, FedFor
  <2> QED BY <2>3, <2>4, <2>5
<1> QED BY <1>1, SubscriptionsInvariant, PTL

-----------------------------------------------------------------------------
(***************************************************************************)
(* ThreadTimeline                                                          *)
(***************************************************************************)

-----------------------------------------------------------------------------
(* What the timeline is made of.                                           *)

MaybeRequest == Requests \cup {Nil}
MaybeTurn    == Turns \cup {Nil}
Texts        == {"commentary", "partial", "final", "generic", "error"}
FinalAnswer  == Answer("final", "completed")
Answers      == {NoAnswer} \cup [text : Texts, st : {"running", "completed", "failed"}]
Ids          == ({"outbound", "answer"} \X Requests) \cup ({"codex"} \X Turns)

TimelineTurn ==
  [id : Ids, client : MaybeRequest, exec : MaybeTurn, user : BOOLEAN, asst : Answers,
   status : {"running", "completed", "failed"},
   src : {"turn_event", "thread_event", "native_history", "answer"}, plan : BOOLEAN]

Message == [q : Requests,
            type : {"progress", "plan", "proposal", "blocked", "completed", "failed"},
            text : {"commentary", "plan", "question", "sent", "final", "generic", "error"},
            exec : MaybeTurn]

RawEvent == [x : Turns, i : Nat, kind : Kinds \cup {"turn"},
                 ev : {"start", "delta", "done", "end"}]

CodexTurn == [q : MaybeRequest, script : Seq(Kinds), pos : Nat \ {0}, stage : Nat \ {0},
              st : {"idle", "running", "waiting", "completed", "failed"}]

HistoryRecord ==
  [x : Turns, user : BOOLEAN, asst : {NoAnswer, Answer("partial", "completed"), FinalAnswer},
   plan : BOOLEAN, agent : BOOLEAN, status : {"running", "completed", "failed"},
   phases : SUBSET (Turns \X Nat \X Kinds)]

TimelineTypes ==
  /\ req \in [Requests -> [st : {"none", "pending", "accepted", "running", "completed", "failed"},
                           exec : MaybeTurn, plan : BOOLEAN]]
  /\ starter \in [Requests -> {"idle", "sending", "broken", "returned"}]
  /\ cx \in [Turns -> CodexTurn]
  /\ stream \in [Turns -> [open : BOOLEAN, last : {Nil, "commentary", "final"}]]
  /\ sub \in BOOLEAN /\ phase \subseteq Turns \X Nat \X Kinds
  /\ page \in [at : {"none", "asked", "read"}, turns : Seq(HistoryRecord)]
  /\ cmd \subseteq Requests
  /\ missed \subseteq Turns /\ told \in [Turns -> BOOLEAN] /\ stale \subseteq Turns

-----------------------------------------------------------------------------
(* What can be said of a turn or request once and for all.                 *)

\* Turn x has begun; it has passed its final answer; it will never get there;
\* request q will never have a turn.
Begun(x) == cx[x].st # "idle"

FinalPassed(x) ==
  \E i \in 1..Len(cx[x].script) : i < cx[x].pos /\ cx[x].script[i] = "final"

Broken(x) ==
  cx[x].st = "failed" \/ (cx[x].st = "waiting" /\ ~stream[x].open)

Dead(q) ==
  starter[q] # "idle" /\ q \notin cmd /\ \A x \in Turns : cx[x].q # q

CodexOK ==
  \A x \in Turns :
    /\ ~Begun(x) => cx[x].q = Nil /\ cx[x].script = <<>>
    /\ Begun(x)  => /\ cx[x].script \in Scripts[x]
                    /\ cx[x].pos <= Len(cx[x].script) + 1
                    /\ cx[x].pos <= Len(cx[x].script) => cx[x].stage <= Len(Stages(Kind(x)))
    /\ cx[x].st = "waiting"   => cx[x].pos > 1 /\ cx[x].script[cx[x].pos - 1] = "blocked"
    /\ cx[x].st = "completed" => Over(x)
    /\ \A y \in Turns : y < x /\ Begun(x) => Begun(y)

StreamOK ==
  \A x \in Turns : stream[x].open =>
    /\ cx[x].st \in {"running", "waiting"} /\ cx[x].q \in Requests
    /\ stream[x].last = "final" <=> FinalPassed(x)

\* A request has at most one turn, and none before its command is taken.
RequestsOK ==
  /\ \A q \in cmd : starter[q] # "idle" /\ \A x \in Turns : cx[x].q # q
  /\ \A x \in Turns : cx[x].q # Nil =>
        /\ starter[cx[x].q] # "idle"
        /\ \A y \in Turns : cx[y].q = cx[x].q => y = x
  /\ \A q \in Requests : req[q].exec # Nil => cx[req[q].exec].q = q

\* Channel A: what it says of a turn is true of it for good.
GoodMessage ==
  {m \in Message :
     /\ m.exec # Nil => cx[m.exec].q = m.q
     /\ m.exec = Nil => m.type = "failed" /\ Dead(m.q)
     /\ m.type = "completed" => /\ cx[m.exec].st = "completed"
                                /\ m.text \in {"commentary", "generic", "final"}
                                /\ m.text = "final" <=> FinalPassed(m.exec)
     /\ m.type = "failed" => m.text = "error" /\ (m.exec # Nil => Broken(m.exec))}

\* Channel B: likewise, and an item is announced with the kind it has.
GoodEvent ==
  {e \in RawEvent :
     /\ e.kind = "turn" <=> e.ev = "end"
     /\ e.ev = "end" => cx[e.x].st \in {"completed", "failed"}
     /\ e.kind # "turn" => e.i \in 1..Len(cx[e.x].script) /\ cx[e.x].script[e.i] = e.kind
     /\ e.kind = "final" /\ e.ev = "done" => FinalPassed(e.x)}

PhasesOK ==
  \A x \in Turns, i \in Nat, k \in Kinds :
    <<x, i, k>> \in phase => i \in 1..Len(cx[x].script) /\ cx[x].script[i] = k

\* An entry of the timeline.  A client id without an executor turn belongs to
\* a request that never gets one.
GoodTurn ==
  {t \in TimelineTurn :
     /\ t.id[1] = "codex"    => t.exec = t.id[2]
     /\ t.id[1] = "outbound" => t.client = t.id[2]
     /\ t.id[1] = "answer"   => t.client = Nil /\ t.exec = Nil
     /\ t.client # Nil =>
          IF t.exec = Nil THEN t.id = <<"outbound", t.client>> /\ Dead(t.client)
                          ELSE cx[t.exec].q = t.client
     /\ t.status = "failed" /\ t.exec # Nil => Broken(t.exec)
     /\ t.asst.text = "final" =>
          t.asst = FinalAnswer /\ t.exec # Nil /\ FinalPassed(t.exec)
     /\ t.asst.text = "commentary" =>
          t.exec \in missed \/ (t.status # "running" /\ t.asst.st # "running")}

\* No two entries have the same turn id, or the same executor turn.
Apart(ts) ==
  \A i, j \in 1..Len(ts) : i # j =>
    ts[i].id # ts[j].id /\ (ts[i].exec # Nil => ts[i].exec # ts[j].exec)

GoodPage ==
  \A x \in 1..Len(page.turns) :
    LET h == page.turns[x] IN
    /\ h.x = x /\ Begun(x)
    /\ h.status # "running" => cx[x].st = h.status /\ (FinalPassed(x) => h.asst = FinalAnswer)
    /\ h.asst = FinalAnswer => FinalPassed(x)
    /\ \A y \in Turns, i \in Nat, k \in Kinds :
         <<y, i, k>> \in h.phases => i \in 1..Len(cx[y].script) /\ cx[y].script[i] = k

\* Channel B says nothing of a turn after its end.
EndIsLast ==
  \A j, k \in 1..Len(chanB) :
    j < k /\ chanB[j].x = chanB[k].x => chanB[j].ev # "end"

\* The start of the commentary item i of turn x is before position n of
\* channel B, or has been read.
Started(x, i, n) ==
  \/ <<x, i, "commentary">> \in phase
  \/ \E k \in 1..Len(chanB) :
        k < n /\ chanB[k] = [x |-> x, i |-> i, kind |-> "commentary", ev |-> "start"]

CommentaryStarts ==
  /\ \A j \in 1..Len(chanB) :
       chanB[j].kind = "commentary" /\ chanB[j].ev = "delta" /\ chanB[j].x \notin missed =>
         Started(chanB[j].x, chanB[j].i, j)
  /\ \A x \in Turns :
       Begun(x) /\ x \notin missed /\ ~Over(x) /\ Kind(x) = "commentary" /\ cx[x].stage > 1 =>
         Started(x, cx[x].pos, Len(chanB) + 1)

\* Turn x is shown with its final answer.
ShowsAnswer(ts, x) ==
  \E i \in 1..Len(ts) :
    ts[i].exec = x /\ ts[i].status = "completed" /\ ts[i].asst = FinalAnswer

FinalComes(x) ==
  \E j \in 1..Len(chanB) : chanB[j].x = x /\ chanB[j].kind = "final" /\ chanB[j].ev = "done"

\* Channel B has shown the final answer, or will; the report of a failure may
\* replace it.
HeardIsShown ==
  \A x \in Turns :
    /\ x \notin missed /\ x \notin stale
    /\ FinalPassed(x) /\ cx[x].st # "failed" /\ ~FinalComes(x)
    => ShowsAnswer(turns, x)

ToldIsShown ==
  \A x \in Turns : told[x] =>
    /\ cx[x].st = "completed" \/ Broken(x)
    /\ x \notin stale /\ FinalPassed(x) /\ cx[x].st # "failed" => ShowsAnswer(turns, x)

\* The inductive invariant of the timeline.
TimelineInv ==
  /\ TimelineTypes
  /\ CodexOK /\ StreamOK /\ RequestsOK
  /\ chanA \in Seq(GoodMessage) /\ chanB \in Seq(GoodEvent)
  /\ PhasesOK
  /\ turns \in Seq(GoodTurn) /\ Apart(turns)
  /\ GoodPage
  /\ EndIsLast /\ CommentaryStarts
  /\ ~sub => chanB = <<>>
  /\ HeardIsShown /\ ToldIsShown
-----------------------------------------------------------------------------
(* Induction and iteration.  The least number that has not a property      *)
(* replaces the induction theorems, which take the property as a           *)
(* parameter.                                                              *)

\* A non-empty set of numbers has a least one.
LEMMA Least ==
  ASSUME NEW T \in SUBSET Nat, T # {}
  PROVE  \E m \in T : \A k \in T : m <= k
<1>1. PICK m \in T : \A k \in T : ~(<<k, m>> \in OpToRel(<, Nat))
  BY NatLessThanWellFounded, WFMin, Zenon
<1>2. \A k \in T : ~(<<k, m>> \in {ss \in Nat \X Nat : ss[1] < ss[2]})
  BY <1>1, Zenon DEF OpToRel
<1>3. m \in Nat
  BY <1>1
<1>4. ASSUME NEW k \in T PROVE m <= k
  <2>1. k \in Nat
    OBVIOUS
  <2>2. <<k, m>> \in Nat \X Nat
    BY <1>3, <2>1
  <2>3. <<k, m>>[1] = k /\ <<k, m>>[2] = m
    OBVIOUS
  <2>4. ~(k < m)
    BY <1>2, <2>2, <2>3
  <2> QED BY <1>3, <2>1, <2>4
<1> QED BY <1>1, <1>4

\* A set that holds 0 and is closed under successor holds every number up to n.
LEMMA Climb ==
  ASSUME NEW n \in Nat, NEW P, 0 \in P, \A i \in 0..n : i < n /\ i \in P => i + 1 \in P
  PROVE  \A i \in 0..n : i \in P
<1> DEFINE Bad == {i \in 0..n : i \notin P}
<1>1. SUFFICES ASSUME Bad # {} PROVE FALSE
  BY <1>1
<1>2. Bad \in SUBSET Nat
  OBVIOUS
<1>3. PICK m \in Bad : \A k \in Bad : m <= k
  BY <1>1, <1>2, Least
<1>4. m \in 0..n /\ m # 0 /\ m \notin P
  BY <1>3
<1>5. m - 1 \in 0..n /\ m - 1 < n /\ m - 1 \notin Bad
  BY <1>3, <1>4
<1>6. (m - 1) + 1 = m
  BY <1>4
<1> QED BY <1>4, <1>5, <1>6

\* What is reached from s by n steps, step i + 1 being F[i + 1, .].
Reaches(f, n, F, S, s) ==
  f \in [0..n -> S] /\ f[0] = s /\ \A i \in 0..n : i < n => f[i + 1] = F[<<i + 1, f[i]>>]

\* Such a function exists.
LEMMA ReachesExists ==
  ASSUME NEW S, NEW s \in S, NEW F \in [Nat \X S -> S], NEW n \in Nat
  PROVE  \E f : Reaches(f, n, F, S, s)
<1> DEFINE P == {k \in Nat : \E f : Reaches(f, k, F, S, s)}
<1>1. 0 \in P
  <2>1. Reaches([i \in 0..0 |-> s], 0, F, S, s)
    BY DEF Reaches
  <2> QED BY <2>1
<1>2. ASSUME NEW k \in 0..n, k < n, k \in P PROVE k + 1 \in P
  <2>1. PICK f : Reaches(f, k, F, S, s)
    BY <1>2
  <2>2. f \in [0..k -> S] /\ f[0] = s /\ \A i \in 0..k : i < k => f[i + 1] = F[<<i + 1, f[i]>>]
    BY <2>1 DEF Reaches
  <2>3. k \in Nat /\ k + 1 \in Nat
    OBVIOUS
  <2>4. F[<<k + 1, f[k]>>] \in S
    <3>1. f[k] \in S
      BY <2>2, <2>3
    <3> QED BY <2>3, <3>1
  <2> DEFINE g == [i \in 0..(k + 1) |-> IF i = k + 1 THEN F[<<k + 1, f[k]>>] ELSE f[i]]
  <2>5. \A i \in 0..k : g[i] = f[i]
    BY <2>3
  <2>6. g[k + 1] = F[<<k + 1, f[k]>>]
    BY <2>3
  <2>7. g \in [0..(k + 1) -> S]
    <3>1. \A i \in 0..(k + 1) : i # k + 1 => i \in 0..k
      BY <2>3
    <3>2. \A i \in 0..(k + 1) : (IF i = k + 1 THEN F[<<k + 1, f[k]>>] ELSE f[i]) \in S
      BY <2>2, <2>4, <3>1
    <3> QED BY <3>2
  <2>8. g[0] = s
    BY <2>2, <2>3, <2>5
  <2>9. ASSUME NEW i \in 0..(k + 1), i < k + 1 PROVE g[i + 1] = F[<<i + 1, g[i]>>]
    <3> HIDE DEF g
    <3>1. i \in 0..k /\ g[i] = f[i]
      BY <2>3, <2>5, <2>9
    <3>2. CASE i = k
      BY <2>6, <3>1, <3>2
    <3>3. CASE i # k
      <4>1. i < k /\ i + 1 \in 0..k
        BY <2>3, <3>1, <3>3
      <4> QED BY <2>2, <2>5, <3>1, <4>1
    <3> QED BY <3>2, <3>3
  <2> HIDE DEF g
  <2>10. Reaches(g, k + 1, F, S, s)
    BY <2>7, <2>8, <2>9 DEF Reaches
  <2> QED BY <2>3, <2>10
<1> HIDE DEF P
<1>3. \A k \in 0..n : k \in P
  BY <1>1, <1>2, Climb
<1>4. n \in P
  BY <1>3
<1> QED BY <1>4 DEF P

-----------------------------------------------------------------------------
(* Answers and merging.                                                    *)

\* An answer is told from its absence by its text, and by its status.
LEMMA AnswerFacts ==
  ASSUME NEW a \in Answers
  PROVE  /\ a.text \in Texts \cup {Nil}
         /\ a.st \in {Nil, "running", "completed", "failed"}
         /\ a = NoAnswer <=> a.text = Nil
         /\ a = NoAnswer <=> a.st = Nil
         /\ a # NoAnswer => a.text \in Texts /\ a.st \in {"running", "completed", "failed"}
<1>1. CASE a = NoAnswer
  BY <1>1, NilAssumption DEF NoAnswer, Texts
<1>2. CASE a \in [text : Texts, st : {"running", "completed", "failed"}]
  <2>1. a.text \in Texts /\ a.st \in {"running", "completed", "failed"}
    BY <1>2
  <2>2. a.text # Nil /\ a.st # Nil
    BY <2>1, NilAssumption DEF Texts
  <2>3. a # NoAnswer
    BY <2>2 DEF NoAnswer
  <2> QED BY <2>1, <2>2, <2>3
<1> QED BY <1>1, <1>2 DEF Answers

LEMMA FinalAnswerFacts ==
  /\ FinalAnswer \in Answers /\ FinalAnswer # NoAnswer /\ NoAnswer \in Answers
  /\ FinalAnswer.text = "final" /\ FinalAnswer.st = "completed"
  /\ NoAnswer.text = Nil /\ NoAnswer.st = Nil
BY NilAssumption DEF FinalAnswer, Answer, Answers, NoAnswer, Texts

\* The fields of an entry have their types.
LEMMA TurnFields ==
  ASSUME NEW t \in TimelineTurn
  PROVE  /\ t.id \in Ids /\ t.client \in MaybeRequest /\ t.exec \in MaybeTurn
         /\ t.user \in BOOLEAN /\ t.asst \in Answers /\ t.plan \in BOOLEAN
         /\ t.status \in {"running", "completed", "failed"}
         /\ t.src \in {"turn_event", "thread_event", "native_history", "answer"}
BY DEF TimelineTurn

LEMMA OrFacts ==
  /\ \A a, b : Or(a, b) \in {a, b}
  /\ \A b : Or(Nil, b) = b
  /\ \A a, b : a # Nil => Or(a, b) = a
BY DEF Or

LEMMA MergedAnswerIs ==
  ASSUME NEW old \in TimelineTurn, NEW new \in TimelineTurn
  PROVE  /\ MergedAnswer(old, new) \in {old.asst, new.asst}
         /\ MergedAnswer(old, new) \in Answers
         /\ new.asst = NoAnswer => MergedAnswer(old, new) = old.asst
         /\ ExistingSettled(old) /\ new.asst.st = "running" => MergedAnswer(old, new) = old.asst
         /\ new.asst.st \in {"completed", "failed"} => MergedAnswer(old, new) = new.asst
<1>1. old.asst \in Answers /\ new.asst \in Answers
  BY TurnFields
<1>2. new.asst.st \in {"completed", "failed"} => new.asst # NoAnswer
  BY NilAssumption DEF NoAnswer
<1> QED BY <1>1, <1>2 DEF MergedAnswer, Streaming

\* What becomes of an entry's status.
LEMMA MergedStatusIs ==
  ASSUME NEW old \in TimelineTurn, NEW new \in TimelineTurn
  PROVE  /\ MergedStatus(old, new) \in {"running", "completed", "failed"}
         /\ ExistingSettled(old) => MergedStatus(old, new) = old.status
         /\ old.status = "completed" /\ MergedAnswer(old, new).st # "running" =>
              MergedStatus(old, new) = "completed"
         /\ (/\ old.status = "running" /\ new.status = "completed"
             /\ MergedAnswer(old, new) # NoAnswer /\ MergedAnswer(old, new).st # "running")
              => MergedStatus(old, new) = "completed"
         /\ old.status = "running" /\ new.status = "failed" => MergedStatus(old, new) = "failed"
         /\ MergedStatus(old, new) = "failed" => old.status = "failed" \/ new.status = "failed"
<1>1. old.status \in {"running", "completed", "failed"} /\ new.status \in {"running", "completed", "failed"}
  BY TurnFields
<1>2. CASE old.status # "running"
  <2>1. MergedStatus(old, new) = IF /\ ~ExistingSettled(old)
                                    /\ old.status \notin {"failed", "cancelled"}
                                    /\ MergedAnswer(old, new).st \in Streaming
                                 THEN "running" ELSE old.status
    BY <1>1, <1>2 DEF MergedStatus
  <2> QED BY <1>1, <1>2, <2>1 DEF ExistingSettled, Streaming
<1>3. CASE old.status = "running"
  <2>1. MergedStatus(old, new) =
          LET status == IF new.status = "completed" /\ MergedAnswer(old, new) = NoAnswer
                        THEN "running" ELSE new.status
          IN  IF /\ ~ExistingSettled(old)
                 /\ status \notin {"failed", "cancelled"}
                 /\ MergedAnswer(old, new).st \in Streaming
              THEN "running" ELSE status
    BY <1>1, <1>3 DEF MergedStatus
  <2>2. ~ExistingSettled(old)
    BY <1>3 DEF ExistingSettled
  <2> QED BY <1>1, <1>3, <2>1, <2>2 DEF Streaming
<1> QED BY <1>2, <1>3

LEMMA MergeFields ==
  ASSUME NEW old, NEW new
  PROVE  LET r == _merge_timeline_turn(old, new) IN
         /\ r.id = old.id /\ r.client = Or(old.client, new.client) /\ r.exec = Or(old.exec, new.exec)
         /\ r.asst = MergedAnswer(old, new) /\ r.status = MergedStatus(old, new)
BY DEF _merge_timeline_turn, Turn

LEMMA MergeType ==
  ASSUME NEW old \in TimelineTurn, NEW new \in TimelineTurn
  PROVE  _merge_timeline_turn(old, new) \in TimelineTurn
<1>1. Or(old.client, new.client) \in MaybeRequest /\ Or(old.exec, new.exec) \in MaybeTurn
  BY TurnFields, OrFacts
<1>2. (old.user \/ new.user) \in BOOLEAN /\ (old.plan \/ new.plan) \in BOOLEAN
  BY TurnFields
<1>3. MergedAnswer(old, new) \in Answers /\ MergedStatus(old, new) \in {"running", "completed", "failed"}
  BY MergedAnswerIs, MergedStatusIs
<1>4. old.id \in Ids /\ new.src \in {"turn_event", "thread_event", "native_history", "answer"}
  BY TurnFields
<1> QED BY <1>1, <1>2, <1>3, <1>4 DEF _merge_timeline_turn, Turn, TimelineTurn

-----------------------------------------------------------------------------
(* Inserting an entry.                                                     *)

\* An entry joins one that is the same turn, and is appended otherwise.
LEMMA UpsertCases ==
  ASSUME NEW ts, Len(ts) \in Nat, NEW new
  PROVE  \/ /\ \A i \in 1..Len(ts) : ~SameTurn(ts[i], new)
            /\ upsert(ts, new) = Append(ts, new)
         \/ \E i \in 1..Len(ts) :
              /\ SameTurn(ts[i], new)
              /\ upsert(ts, new) = [ts EXCEPT ![i] = _merge_timeline_turn(ts[i], new)]
<1> DEFINE same == {i \in 1..Len(ts) : SameTurn(ts[i], new)}
           k == CHOOSE k \in same : \A m \in same : k <= m
<1>1. CASE same = {}
  BY <1>1 DEF upsert
<1>2. CASE same # {}
  <2>1. same \in SUBSET Nat
    OBVIOUS
  <2>2. \E j \in same : \A m \in same : j <= m
    BY <1>2, <2>1, Least
  <2>3. k \in same
    BY <2>2
  <2>4. upsert(ts, new) = [ts EXCEPT ![k] = _merge_timeline_turn(ts[k], new)]
    BY <1>2 DEF upsert
  <2> HIDE DEF k
  <2> QED BY <2>3, <2>4
<1> QED BY <1>1, <1>2

LEMMA UpsertType ==
  ASSUME NEW ts \in Seq(TimelineTurn), NEW new \in TimelineTurn
  PROVE  upsert(ts, new) \in Seq(TimelineTurn)
<1>1. Len(ts) \in Nat
  OBVIOUS
<1>2. CASE upsert(ts, new) = Append(ts, new)
  BY <1>2
<1>3. ASSUME NEW i \in 1..Len(ts), upsert(ts, new) = [ts EXCEPT ![i] = _merge_timeline_turn(ts[i], new)]
      PROVE  upsert(ts, new) \in Seq(TimelineTurn)
  <2>1. _merge_timeline_turn(ts[i], new) \in TimelineTurn
    BY MergeType
  <2> QED BY <1>3, <2>1, ExceptSeq
<1> QED BY <1>1, <1>2, <1>3, UpsertCases

-----------------------------------------------------------------------------
(* What merging keeps, in a state of the invariant.                        *)

\* A turn that waits for an answer nobody will deliver has not passed its final
\* answer: nothing is asked after it.
LEMMA BrokenNeverFinal ==
  ASSUME TimelineTypes, CodexOK, NEW x \in Turns, Broken(x), cx[x].st # "failed"
  PROVE  ~FinalPassed(x)
<1>1. CASE cx[x].st = "waiting"
  <2> DEFINE s == cx[x].script
             p == cx[x].pos
  <2>1. s \in Seq(Kinds) /\ p \in Nat /\ p > 1 /\ s[p - 1] = "blocked" /\ s \in Scripts[x]
        /\ p <= Len(s) + 1
    BY <1>1 DEF CodexOK, TimelineTypes, CodexTurn, Begun
  <2>2. p - 1 \in DOMAIN s
    BY <2>1
  <2>3. SUFFICES ASSUME NEW i \in 1..Len(s), i < p, s[i] = "final" PROVE FALSE
    BY DEF FinalPassed
  <2> HIDE DEF s, p
  <2>4. i \in DOMAIN s /\ i # p - 1
    BY <2>1, <2>3
  <2>5. i < p - 1
    BY <2>1, <2>3, <2>4
  <2>6. s[p - 1] \in {"user", "plan"}
    BY <2>1, <2>2, <2>3, <2>4, <2>5, ScriptsAssumption
  <2> QED BY <2>1, <2>6
<1> QED BY <1>1 DEF Broken

LEMMA IdFacts ==
  ASSUME NEW i \in Ids
  PROVE  \/ i[1] = "codex" /\ i[2] \in Turns
         \/ i[1] \in {"outbound", "answer"} /\ i[2] \in Requests
BY DEF Ids

\* Entries that are the same turn have the same executor turn already.
LEMMA SameTurnSameExec ==
  ASSUME TimelineTypes, RequestsOK, NEW old \in GoodTurn, NEW new \in GoodTurn, SameTurn(old, new)
  PROVE  old.exec = new.exec
<1>1. old \in TimelineTurn /\ new \in TimelineTurn
  BY DEF GoodTurn
<1>2. old.id \in Ids /\ old.exec \in MaybeTurn /\ new.exec \in MaybeTurn
  BY <1>1, TurnFields
<1>3. CASE old.id # new.id
  BY <1>3 DEF SameTurn
<1>4. CASE old.id = new.id /\ old.id[1] = "codex"
  BY <1>4 DEF GoodTurn
<1>5. CASE old.id = new.id /\ old.id[1] = "answer"
  BY <1>5 DEF GoodTurn
<1>6. CASE old.id = new.id /\ old.id[1] = "outbound"
  <2>1. PICK q \in Requests : old.client = q /\ new.client = q
    BY <1>2, <1>6, IdFacts DEF GoodTurn
  <2>2. q # Nil
    BY NilAssumption
  <2>3. /\ old.exec = Nil => Dead(q)
        /\ old.exec # Nil => old.exec \in Turns /\ cx[old.exec].q = q
    BY <1>2, <2>1, <2>2 DEF GoodTurn, MaybeTurn
  <2>4. /\ new.exec = Nil => Dead(q)
        /\ new.exec # Nil => new.exec \in Turns /\ cx[new.exec].q = q
    BY <1>2, <2>1, <2>2 DEF GoodTurn, MaybeTurn
  <2> QED BY <2>2, <2>3, <2>4 DEF Dead, RequestsOK
<1> QED BY <1>2, <1>3, <1>4, <1>5, <1>6, IdFacts

\* Merging them says nothing that neither said.
LEMMA JoinGood ==
  ASSUME TimelineTypes, RequestsOK, NEW old \in GoodTurn, NEW new \in GoodTurn, SameTurn(old, new)
  PROVE  LET r == _merge_timeline_turn(old, new) IN
         r \in GoodTurn /\ r.id = old.id /\ r.exec = old.exec
<1> DEFINE r == _merge_timeline_turn(old, new)
<1>1. old \in TimelineTurn /\ new \in TimelineTurn
  BY DEF GoodTurn
<1>2. old.exec = new.exec
  BY SameTurnSameExec
<1>3. /\ r.id = old.id /\ r.client = Or(old.client, new.client) /\ r.exec = old.exec
      /\ r.asst = MergedAnswer(old, new) /\ r.status = MergedStatus(old, new)
  BY <1>2, MergeFields, OrFacts
<1>4. r \in TimelineTurn
  BY <1>1, MergeType
<1> HIDE DEF r
<1>5. old.status \in {"running", "completed", "failed"} /\ new.status \in {"running", "completed", "failed"}
      /\ old.exec \in MaybeTurn /\ old.id \in Ids
  BY <1>1, TurnFields
<1>6. r.client \in {old.client, new.client} /\ (old.client # Nil => r.client = old.client)
  BY <1>3, OrFacts
<1>7. r.id[1] = "codex" => r.exec = r.id[2]
  BY <1>3 DEF GoodTurn
<1>8. r.id[1] = "outbound" => r.client = r.id[2]
  <2>1. old.id[1] = "outbound" => old.id[2] # Nil
    BY <1>5, IdFacts, NilAssumption
  <2> QED BY <1>3, <1>6, <2>1 DEF GoodTurn
<1>9. r.id[1] = "answer" => r.client = Nil /\ r.exec = Nil
  <2>1. SUFFICES ASSUME old.id[1] = "answer" PROVE r.client = Nil /\ r.exec = Nil
    BY <1>3
  <2>2. old.client = Nil /\ old.exec = Nil
    BY <2>1 DEF GoodTurn
  <2>3. new.id = old.id
    BY <1>2, <2>2 DEF SameTurn
  <2>4. new.client = Nil
    BY <2>1, <2>3 DEF GoodTurn
  <2> QED BY <1>3, <1>6, <2>2, <2>4
<1>10. r.client # Nil =>
         IF r.exec = Nil THEN r.id = <<"outbound", r.client>> /\ Dead(r.client)
                         ELSE cx[r.exec].q = r.client
  <2>1. CASE r.client = old.client
    BY <1>3, <2>1 DEF GoodTurn
  <2>2. CASE old.client = Nil /\ r.client = new.client /\ r.client # Nil
    <3>1. CASE r.exec = Nil
      <4>1. new.id = <<"outbound", new.client>>
        BY <1>2, <1>3, <2>2, <3>1 DEF GoodTurn
      <4>2. old.id = new.id
        BY <1>2, <1>3, <3>1 DEF SameTurn
      <4>3. old.client = new.client
        BY <4>1, <4>2 DEF GoodTurn
      <4> QED BY <2>2, <4>3
    <3>2. CASE r.exec # Nil
      BY <1>2, <1>3, <2>2, <3>2 DEF GoodTurn
    <3> QED BY <3>1, <3>2
  <2> QED BY <1>6, <2>1, <2>2
<1>11. r.status = "failed" /\ r.exec # Nil => Broken(r.exec)
  <2>1. r.status = "failed" => old.status = "failed" \/ new.status = "failed"
    BY <1>1, <1>3, MergedStatusIs
  <2> QED BY <1>2, <1>3, <2>1 DEF GoodTurn
<1>12. r.asst \in {old.asst, new.asst}
  BY <1>1, <1>3, MergedAnswerIs
<1>13. r.asst.text = "final" => r.asst = FinalAnswer /\ r.exec # Nil /\ FinalPassed(r.exec)
  BY <1>2, <1>3, <1>12 DEF GoodTurn
<1>14. r.asst.text = "commentary" =>
         r.exec \in missed \/ (r.status # "running" /\ r.asst.st # "running")
  <2>1. SUFFICES ASSUME r.asst.text = "commentary", r.exec \notin missed
                 PROVE  r.status # "running" /\ r.asst.st # "running"
    OBVIOUS
  <2>2. r.asst # NoAnswer
    BY <2>1, FinalAnswerFacts, NilAssumption
  <2>3. CASE r.asst = old.asst
    <3>1. old.status # "running" /\ old.asst.st # "running"
      BY <1>3, <2>1, <2>3 DEF GoodTurn
    <3>2. ExistingSettled(old)
      BY <1>5, <2>2, <2>3, <3>1 DEF ExistingSettled, Streaming
    <3> QED BY <1>1, <1>3, <2>3, <3>1, <3>2, MergedStatusIs
  <2>4. CASE r.asst = new.asst
    <3>1. new.status # "running" /\ new.asst.st # "running"
      BY <1>2, <1>3, <2>1, <2>4 DEF GoodTurn
    <3>2. CASE old.status = "running"
      BY <1>1, <1>3, <1>5, <2>2, <2>4, <3>1, <3>2, MergedStatusIs
    <3>3. CASE old.status = "completed"
      BY <1>1, <1>3, <2>4, <3>1, <3>3, MergedStatusIs
    <3>4. CASE old.status = "failed"
      BY <1>1, <1>3, <2>4, <3>1, <3>4, MergedStatusIs DEF ExistingSettled
    <3> QED BY <1>5, <3>2, <3>3, <3>4
  <2> QED BY <1>12, <2>3, <2>4
<1>15. r \in GoodTurn
  BY <1>4, <1>7, <1>8, <1>9, <1>10, <1>11, <1>13, <1>14 DEF GoodTurn
<1> QED BY <1>3, <1>15 DEF r

\* Inserting a good entry leaves good entries, and the turns apart.
LEMMA InsertGood ==
  ASSUME TimelineTypes, RequestsOK,
         NEW ts \in Seq(GoodTurn), Apart(ts), NEW new \in GoodTurn
  PROVE  upsert(ts, new) \in Seq(GoodTurn) /\ Apart(upsert(ts, new))
<1>1. Len(ts) \in Nat /\ \A i \in 1..Len(ts) : ts[i] \in GoodTurn
  OBVIOUS
<1>2. CASE /\ \A i \in 1..Len(ts) : ~SameTurn(ts[i], new)
           /\ upsert(ts, new) = Append(ts, new)
  <2>1. upsert(ts, new) \in Seq(GoodTurn)
    BY <1>2
  <2> DEFINE us == Append(ts, new)
  <2>2. Len(us) = Len(ts) + 1 /\ us[Len(ts) + 1] = new /\ \A i \in 1..Len(ts) : us[i] = ts[i]
    OBVIOUS
  <2> HIDE DEF us
  <2>3. ASSUME NEW i \in 1..Len(us), NEW j \in 1..Len(us), i # j
        PROVE  us[i].id # us[j].id /\ (us[i].exec # Nil => us[i].exec # us[j].exec)
    <3>1. CASE i \in 1..Len(ts) /\ j \in 1..Len(ts)
      BY <2>2, <2>3, <3>1 DEF Apart
    <3>2. CASE i \in 1..Len(ts) /\ j = Len(ts) + 1
      BY <1>2, <2>2, <3>2 DEF SameTurn
    <3>3. CASE i = Len(ts) + 1 /\ j \in 1..Len(ts)
      BY <1>2, <2>2, <3>3 DEF SameTurn
    <3> QED BY <1>1, <2>2, <2>3, <3>1, <3>2, <3>3
  <2>4. Apart(us)
    BY <2>3 DEF Apart
  <2> QED BY <1>2, <2>1, <2>4 DEF us
<1>3. ASSUME NEW k \in 1..Len(ts), SameTurn(ts[k], new),
             upsert(ts, new) = [ts EXCEPT ![k] = _merge_timeline_turn(ts[k], new)]
      PROVE  upsert(ts, new) \in Seq(GoodTurn) /\ Apart(upsert(ts, new))
  <2>1. PICK r : /\ r = _merge_timeline_turn(ts[k], new)
                 /\ r \in GoodTurn /\ r.id = ts[k].id /\ r.exec = ts[k].exec
    BY <1>1, <1>3, JoinGood
  <2>2. PICK us : us = [ts EXCEPT ![k] = r]
    OBVIOUS
  <2>3. us \in Seq(GoodTurn) /\ Len(us) = Len(ts)
    BY <2>1, <2>2, ExceptSeq
  <2>4. \A i \in 1..Len(ts) : us[i] = IF i = k THEN r ELSE ts[i]
    BY <1>1, <2>2
  <2>5. \A i \in 1..Len(ts) : us[i].id = ts[i].id /\ us[i].exec = ts[i].exec
    BY <2>1, <2>4
  <2>6. Apart(us)
    BY <2>3, <2>5 DEF Apart
  <2> QED BY <1>3, <2>1, <2>2, <2>3, <2>6
<1> QED BY <1>1, <1>2, <1>3, UpsertCases

\* A record of turn x that cannot withdraw its final answer.
Harmless(t, x) ==
  t.exec # x \/ t.asst = NoAnswer \/ t.asst.st = "running" \/ t.asst = FinalAnswer

\* A record of turn x that brings it.
Brings(t, x) == t.exec = x /\ t.status = "completed" /\ t.asst = FinalAnswer

LEMMA JoinKeeps ==
  ASSUME NEW x, NEW old \in TimelineTurn, NEW new \in TimelineTurn, old.exec = new.exec,
         Brings(old, x), Harmless(new, x)
  PROVE  LET r == _merge_timeline_turn(old, new) IN Brings(r, x)
<1>1. ExistingSettled(old)
  BY FinalAnswerFacts DEF Brings, ExistingSettled, Streaming
<1>2. MergedAnswer(old, new) = FinalAnswer
  BY <1>1, MergedAnswerIs, FinalAnswerFacts DEF Brings, Harmless
<1>3. MergedStatus(old, new) = "completed"
  BY <1>1, MergedStatusIs DEF Brings
<1>4. Or(old.exec, new.exec) = x
  BY OrFacts DEF Brings
<1> QED BY <1>2, <1>3, <1>4, MergeFields DEF Brings

\* A settled turn stays settled.
LEMMA InsertKeeps ==
  ASSUME TimelineTypes, RequestsOK,
         NEW ts \in Seq(GoodTurn), NEW new \in GoodTurn, NEW x,
         ShowsAnswer(ts, x), Harmless(new, x)
  PROVE  ShowsAnswer(upsert(ts, new), x)
<1>1. Len(ts) \in Nat /\ \A i \in 1..Len(ts) : ts[i] \in GoodTurn
  OBVIOUS
<1>2. PICK n \in 1..Len(ts) : Brings(ts[n], x)
  BY DEF ShowsAnswer, Brings
<1>3. CASE upsert(ts, new) = Append(ts, new)
  <2>1. Append(ts, new)[n] = ts[n] /\ n \in 1..Len(Append(ts, new))
    BY <1>1
  <2> QED BY <1>2, <1>3, <2>1 DEF ShowsAnswer, Brings
<1>4. ASSUME NEW k \in 1..Len(ts), SameTurn(ts[k], new),
             upsert(ts, new) = [ts EXCEPT ![k] = _merge_timeline_turn(ts[k], new)]
      PROVE  ShowsAnswer(upsert(ts, new), x)
  <2>1. PICK r : r = _merge_timeline_turn(ts[k], new)
    OBVIOUS
  <2>2. PICK us : us = [ts EXCEPT ![k] = r]
    OBVIOUS
  <2>3. Len(us) = Len(ts) /\ us[k] = r /\ \A i \in 1..Len(ts) : i # k => us[i] = ts[i]
    BY <1>1, <2>2
  <2>4. CASE n # k
    BY <1>2, <2>3, <2>4, <1>4, <2>1, <2>2 DEF ShowsAnswer, Brings
  <2>5. CASE n = k
    <3>1. ts[k] \in GoodTurn /\ ts[k] \in TimelineTurn /\ new \in TimelineTurn
      BY <1>1 DEF GoodTurn
    <3>2. ts[k].exec = new.exec
      BY <1>4, <3>1, SameTurnSameExec
    <3>3. Brings(r, x)
      BY <1>2, <2>1, <2>5, <3>1, <3>2, JoinKeeps
    <3> QED BY <1>4, <2>1, <2>2, <2>3, <3>3 DEF ShowsAnswer, Brings
  <2> QED BY <2>4, <2>5
<1> QED BY <1>1, <1>3, <1>4, UpsertCases

\* A record that brings the final answer shows it, whatever was there, of a turn
\* that has not failed.
LEMMA InsertShows ==
  ASSUME TimelineTypes, CodexOK, RequestsOK,
         NEW ts \in Seq(GoodTurn), NEW new \in GoodTurn, NEW x \in Turns, Brings(new, x),
         cx[x].st # "failed"
  PROVE  ShowsAnswer(upsert(ts, new), x)
<1>1. Len(ts) \in Nat /\ \A i \in 1..Len(ts) : ts[i] \in GoodTurn
  OBVIOUS
<1>2. x # Nil
  BY NilAssumption
<1>3. CASE upsert(ts, new) = Append(ts, new)
  <2>1. Append(ts, new)[Len(ts) + 1] = new /\ Len(ts) + 1 \in 1..Len(Append(ts, new))
    BY <1>1
  <2> QED BY <1>3, <2>1 DEF ShowsAnswer, Brings
<1>4. ASSUME NEW k \in 1..Len(ts), SameTurn(ts[k], new),
             upsert(ts, new) = [ts EXCEPT ![k] = _merge_timeline_turn(ts[k], new)]
      PROVE  ShowsAnswer(upsert(ts, new), x)
  <2>1. PICK old : old = ts[k]
    OBVIOUS
  <2>2. old \in GoodTurn /\ old \in TimelineTurn /\ new \in TimelineTurn
    BY <1>1, <2>1 DEF GoodTurn
  <2>3. old.exec = x
    BY <1>4, <2>1, <2>2, SameTurnSameExec DEF Brings
  <2>4. FinalPassed(x)
    BY FinalAnswerFacts DEF Brings, GoodTurn
  <2>5. old.status # "failed"
    BY <1>2, <2>2, <2>3, <2>4, BrokenNeverFinal DEF GoodTurn
  <2>6. old.status \in {"running", "completed"}
    BY <2>2, <2>5, TurnFields
  <2>7. MergedAnswer(old, new) = FinalAnswer
    BY <2>2, MergedAnswerIs, FinalAnswerFacts DEF Brings
  <2>8. MergedStatus(old, new) = "completed"
    BY <2>2, <2>6, <2>7, MergedStatusIs, FinalAnswerFacts DEF Brings
  <2>9. PICK r : r = _merge_timeline_turn(old, new)
    OBVIOUS
  <2>10. Brings(r, x)
    BY <1>2, <2>3, <2>7, <2>8, <2>9, MergeFields, OrFacts DEF Brings
  <2>11. PICK us : us = [ts EXCEPT ![k] = r]
    OBVIOUS
  <2>12. Len(us) = Len(ts) /\ us[k] = r
    BY <1>1, <2>11
  <2> QED BY <1>4, <2>1, <2>9, <2>10, <2>11, <2>12 DEF ShowsAnswer, Brings
<1> QED BY <1>1, <1>3, <1>4, UpsertCases

-----------------------------------------------------------------------------
(* Folding a list of entries in.                                           *)

LEMMA MergedSteps ==
  ASSUME NEW ts \in Seq(TimelineTurn), NEW news \in Seq(TimelineTurn)
  PROVE  \E after \in [0..Len(news) -> Seq(TimelineTurn)] :
           /\ after[0] = ts
           /\ \A i \in 0..Len(news) : i < Len(news) => after[i + 1] = upsert(after[i], news[i + 1])
           /\ Merged(ts, news) = after[Len(news)]
<1> DEFINE n == Len(news)
           S == Seq(TimelineTurn)
           F == [p \in Nat \X S |-> IF p[1] \in 1..n THEN upsert(p[2], news[p[1]]) ELSE p[2]]
<1>1. n \in Nat /\ \A i \in 1..n : news[i] \in TimelineTurn
  OBVIOUS
<1>2. F \in [Nat \X S -> S]
  <2>1. ASSUME NEW p \in Nat \X S
        PROVE  (IF p[1] \in 1..n THEN upsert(p[2], news[p[1]]) ELSE p[2]) \in S
    <3>1. p[2] \in S
      OBVIOUS
    <3>2. p[1] \in 1..n => upsert(p[2], news[p[1]]) \in S
      BY <1>1, <3>1, UpsertType
    <3> QED BY <3>1, <3>2
  <2> QED BY <2>1
<1>3. PICK g : Reaches(g, n, F, S, ts)
  BY <1>1, <1>2, ReachesExists
<1>4. /\ g \in [0..n -> S] /\ g[0] = ts
      /\ \A i \in 0..n : i < n => g[i + 1] = upsert(g[i], news[i + 1])
  <2>1. g \in [0..n -> S] /\ g[0] = ts /\ \A i \in 0..n : i < n => g[i + 1] = F[<<i + 1, g[i]>>]
    BY <1>3 DEF Reaches
  <2>2. ASSUME NEW i \in 0..n, i < n PROVE g[i + 1] = upsert(g[i], news[i + 1])
    <3>1. <<i + 1, g[i]>> \in Nat \X S /\ i + 1 \in 1..n
      <4>1. i + 1 \in Nat /\ i + 1 \in 1..n
        BY <1>1, <2>2
      <4>2. g[i] \in S
        BY <2>1
      <4> HIDE DEF S
      <4> QED BY <4>1, <4>2
    <3>2. F[<<i + 1, g[i]>>] = upsert(g[i], news[i + 1])
      BY <3>1
    <3> QED BY <2>1, <2>2, <3>2
  <2> QED BY <2>1, <2>2
<1>5. g = [i \in 0..n |-> IF i = 0 THEN ts ELSE upsert(g[i - 1], news[i])]
  <2>1. ASSUME NEW i \in 0..n PROVE g[i] = IF i = 0 THEN ts ELSE upsert(g[i - 1], news[i])
    <3>1. CASE i = 0
      BY <1>4, <3>1
    <3>2. CASE i # 0
      <4>1. i - 1 \in 0..n /\ i - 1 < n /\ (i - 1) + 1 = i
        BY <1>1, <3>2
      <4> QED BY <1>4, <3>2, <4>1
    <3> QED BY <3>1, <3>2
  <2> QED BY <1>4, <2>1
<1> DEFINE after == CHOOSE a : a = [i \in 0..n |-> IF i = 0 THEN ts ELSE upsert(a[i - 1], news[i])]
<1>6. after = [i \in 0..n |-> IF i = 0 THEN ts ELSE upsert(after[i - 1], news[i])]
  BY <1>5
<1>7. Merged(ts, news) = after[n]
  BY DEF Merged
<1> HIDE DEF after
<1>8. after[0] = ts
  BY <1>1, <1>6
<1>9. ASSUME NEW i \in 0..n, i < n PROVE after[i + 1] = upsert(after[i], news[i + 1])
  <2>1. i + 1 \in 0..n /\ i + 1 # 0 /\ (i + 1) - 1 = i
    BY <1>1, <1>9
  <2> QED BY <1>6, <2>1
<1>10. \A i \in 0..n : after[i] = g[i]
  <2> DEFINE P == {i \in 0..n : after[i] = g[i]}
  <2>1. 0 \in P
    BY <1>1, <1>4, <1>8
  <2>2. ASSUME NEW i \in 0..n, i < n, i \in P PROVE i + 1 \in P
    <3>1. i + 1 \in 0..n
      BY <1>1, <2>2
    <3> QED BY <1>4, <1>9, <2>2, <3>1
  <2> HIDE DEF P
  <2>3. \A i \in 0..n : i \in P
    BY <1>1, <2>1, <2>2, Climb
  <2> QED BY <2>3 DEF P
<1>11. after \in [0..n -> S]
  <2>1. after = [i \in 0..n |-> after[i]]
    BY <1>6
  <2> QED BY <1>4, <1>10, <2>1
<1> QED BY <1>7, <1>8, <1>9, <1>11

\* Merging good entries in leaves good entries; a turn's final answer is shown
\* afterwards if it was before, or comes with one of the entries while the turn
\* has not failed, and none of them withdraws it.
LEMMA MergeAllGood ==
  ASSUME TimelineTypes, CodexOK, RequestsOK,
         NEW ts \in Seq(GoodTurn), Apart(ts), NEW news \in Seq(GoodTurn)
  PROVE  /\ Merged(ts, news) \in Seq(GoodTurn) /\ Apart(Merged(ts, news))
         /\ \A x \in Turns :
              /\ \A i \in 1..Len(news) : Harmless(news[i], x)
              /\ \/ ShowsAnswer(ts, x)
                 \/ cx[x].st # "failed" /\ \E i \in 1..Len(news) : Brings(news[i], x)
              => ShowsAnswer(Merged(ts, news), x)
<1> DEFINE n == Len(news)
<1>1. GoodTurn \subseteq TimelineTurn
  BY DEF GoodTurn
<1>2. ts \in Seq(TimelineTurn) /\ news \in Seq(TimelineTurn)
  BY <1>1, SeqMonotonic
<1>3. n \in Nat /\ \A i \in 1..n : news[i] \in GoodTurn
  OBVIOUS
<1>4. PICK after \in [0..n -> Seq(TimelineTurn)] :
           /\ after[0] = ts
           /\ \A i \in 0..n : i < n => after[i + 1] = upsert(after[i], news[i + 1])
           /\ Merged(ts, news) = after[n]
  BY <1>2, MergedSteps
<1>5. \A i \in 0..n : after[i] \in Seq(GoodTurn) /\ Apart(after[i])
  <2> DEFINE P == {i \in 0..n : after[i] \in Seq(GoodTurn) /\ Apart(after[i])}
  <2>1. 0 \in P
    BY <1>3, <1>4
  <2>2. ASSUME NEW i \in 0..n, i < n, i \in P PROVE i + 1 \in P
    <3>1. i + 1 \in 1..n /\ i + 1 \in 0..n
      BY <1>3, <2>2
    <3>2. upsert(after[i], news[i + 1]) \in Seq(GoodTurn) /\ Apart(upsert(after[i], news[i + 1]))
      BY <1>3, <2>2, <3>1, InsertGood
    <3> QED BY <1>4, <2>2, <3>1, <3>2
  <2> HIDE DEF P
  <2>3. \A i \in 0..n : i \in P
    BY <1>3, <2>1, <2>2, Climb
  <2> QED BY <2>3 DEF P
<1>6. ASSUME NEW x \in Turns, \A i \in 1..n : Harmless(news[i], x), NEW k \in 0..n, ShowsAnswer(after[k], x)
      PROVE  ShowsAnswer(after[n], x)
  <2> DEFINE P == {i \in 0..n : k <= i => ShowsAnswer(after[i], x)}
  <2>1. 0 \in P
    BY <1>3, <1>6
  <2>2. ASSUME NEW i \in 0..n, i < n, i \in P PROVE i + 1 \in P
    <3>1. i + 1 \in 1..n /\ i + 1 \in 0..n
      BY <1>3, <2>2
    <3>2. CASE k <= i
      <4>1. ShowsAnswer(upsert(after[i], news[i + 1]), x)
        BY <1>3, <1>5, <1>6, <2>2, <3>1, <3>2, InsertKeeps
      <4> QED BY <1>4, <2>2, <3>1, <4>1
    <3>3. CASE ~(k <= i)
      <4>1. k <= i + 1 => k = i + 1
        BY <3>3
      <4> QED BY <1>6, <3>1, <4>1
    <3> QED BY <3>2, <3>3
  <2> HIDE DEF P
  <2>3. \A i \in 0..n : i \in P
    BY <1>3, <2>1, <2>2, Climb
  <2>4. n \in P /\ k <= n
    BY <1>3, <2>3
  <2> QED BY <2>4 DEF P
<1>7. ASSUME NEW x \in Turns, \A i \in 1..n : Harmless(news[i], x),
             ShowsAnswer(ts, x) \/ (cx[x].st # "failed" /\ \E i \in 1..n : Brings(news[i], x))
      PROVE  ShowsAnswer(Merged(ts, news), x)
  <2>1. CASE ShowsAnswer(ts, x)
    BY <1>3, <1>4, <1>6, <1>7, <2>1
  <2>2. ASSUME NEW i \in 1..n, Brings(news[i], x), cx[x].st # "failed"
        PROVE  ShowsAnswer(Merged(ts, news), x)
    <3>1. i - 1 \in 0..n /\ i - 1 < n /\ (i - 1) + 1 = i /\ i \in 0..n
      BY <1>3
    <3>2. after[i] = upsert(after[i - 1], news[i])
      BY <1>4, <3>1
    <3>3. after[i - 1] \in Seq(GoodTurn) /\ news[i] \in GoodTurn
      BY <1>3, <1>5, <3>1
    <3>4. ShowsAnswer(upsert(after[i - 1], news[i]), x)
      BY <2>2, <3>3, InsertShows
    <3>5. ShowsAnswer(after[i], x)
      BY <3>2, <3>4
    <3> QED BY <1>4, <1>6, <1>7, <3>1, <3>5
  <2> QED BY <1>7, <2>1, <2>2
<1>8. Merged(ts, news) \in Seq(GoodTurn) /\ Apart(Merged(ts, news))
  BY <1>3, <1>4, <1>5
<1> QED BY <1>7, <1>8

-----------------------------------------------------------------------------
(* What clients are sent.                                                  *)

\* No two entries have the same client id.
LEMMA ClientsApart ==
  ASSUME TimelineTypes, RequestsOK, turns \in Seq(GoodTurn), Apart(turns),
         NEW i \in 1..Len(turns), NEW j \in 1..Len(turns), i # j, turns[i].client # Nil
  PROVE  turns[j].client # turns[i].client
<1>1. SUFFICES ASSUME turns[j].client = turns[i].client PROVE FALSE
  OBVIOUS
<1> DEFINE s == turns[i]
           t == turns[j]
<1>2. s \in GoodTurn /\ t \in GoodTurn /\ s \in TimelineTurn /\ t \in TimelineTurn
  BY DEF GoodTurn
<1>3. s.id # t.id /\ (s.exec # Nil => s.exec # t.exec)
  BY DEF Apart
<1>4. s.client # Nil /\ t.client = s.client
  BY <1>1
<1> HIDE DEF s, t
<1>5. s.exec \in MaybeTurn /\ t.exec \in MaybeTurn
  BY <1>2, TurnFields
<1>6. CASE s.exec = Nil /\ t.exec = Nil
  BY <1>2, <1>3, <1>4, <1>6 DEF GoodTurn
<1>7. CASE s.exec = Nil /\ t.exec # Nil
  <2>1. Dead(s.client) /\ cx[t.exec].q = s.client /\ t.exec \in Turns
    BY <1>2, <1>4, <1>5, <1>7 DEF GoodTurn, MaybeTurn
  <2> QED BY <2>1 DEF Dead
<1>8. CASE s.exec # Nil /\ t.exec = Nil
  <2>1. Dead(s.client) /\ cx[s.exec].q = s.client /\ s.exec \in Turns
    BY <1>2, <1>4, <1>5, <1>8 DEF GoodTurn, MaybeTurn
  <2> QED BY <2>1 DEF Dead
<1>9. CASE s.exec # Nil /\ t.exec # Nil
  <2>1. cx[s.exec].q = s.client /\ s.exec \in Turns /\ cx[t.exec].q = s.client /\ t.exec \in Turns
    BY <1>2, <1>4, <1>5, <1>9 DEF GoodTurn, MaybeTurn
  <2> QED BY <1>3, <1>4, <1>9, <2>1 DEF RequestsOK
<1> QED BY <1>6, <1>7, <1>8, <1>9

\* No entry joins another one on its way to the clients: they are sent the
\* timeline as it is.
LEMMA ProjectionIsTurns ==
  ASSUME TimelineTypes, RequestsOK, turns \in Seq(GoodTurn), Apart(turns)
  PROVE  Projection = turns
<1> DEFINE n == Len(turns)
           pre(i) == SubSeq(turns, 1, i)
<1>1. n \in Nat /\ \A i \in 1..n : turns[i] \in GoodTurn
  OBVIOUS
<1>2. \A i \in 0..n : Len(pre(i)) = i /\ \A j \in 1..i : pre(i)[j] = turns[j]
  BY <1>1
<1>3. ASSUME NEW i \in 1..n PROVE ProjectOne(pre(i - 1), turns[i]) = pre(i)
  <2>1. i - 1 \in 0..n /\ 1..(i - 1) = {j \in 1..n : j < i}
    BY <1>1
  <2>2. Len(pre(i - 1)) = i - 1 /\ \A j \in 1..(i - 1) : pre(i - 1)[j] = turns[j]
    BY <1>2, <2>1
  <2>3. pre(i) = Append(pre(i - 1), turns[i])
    BY <1>1, <2>1
  <2> HIDE DEF pre
  <2>4. {j \in 1..Len(pre(i - 1)) : turns[i].client # Nil /\ pre(i - 1)[j].client = turns[i].client} = {}
    <3>1. ASSUME NEW j \in 1..(i - 1), turns[i].client # Nil, turns[j].client = turns[i].client PROVE FALSE
      <4>1. j \in 1..n /\ i # j
        BY <2>1
      <4> QED BY <3>1, <4>1, ClientsApart
    <3> QED BY <2>2, <3>1
  <2>5. {j \in 1..Len(pre(i - 1)) : turns[i].exec # Nil /\ pre(i - 1)[j].exec = turns[i].exec} = {}
    <3>1. ASSUME NEW j \in 1..(i - 1), turns[i].exec # Nil, turns[j].exec = turns[i].exec PROVE FALSE
      <4>1. j \in 1..n /\ i # j
        BY <2>1
      <4> QED BY <3>1, <4>1 DEF Apart
    <3> QED BY <2>2, <3>1
  <2> QED BY <2>3, <2>4, <2>5 DEF ProjectOne
<1>4. pre(0) = <<>> /\ pre(n) = turns
  BY <1>1
<1> HIDE DEF pre
<1> DEFINE g == [i \in 0..n |-> pre(i)]
<1>5. g = [i \in 0..n |-> IF i = 0 THEN <<>> ELSE ProjectOne(g[i - 1], turns[i])]
  <2>1. ASSUME NEW i \in 0..n PROVE pre(i) = IF i = 0 THEN <<>> ELSE ProjectOne(g[i - 1], turns[i])
    <3>1. CASE i = 0
      BY <1>4, <3>1
    <3>2. CASE i # 0
      <4>1. i \in 1..n /\ i - 1 \in 0..n
        BY <1>1, <3>2
      <4>2. g[i - 1] = pre(i - 1)
        BY <4>1
      <4> QED BY <1>3, <3>2, <4>1, <4>2
    <3> QED BY <3>1, <3>2
  <2> QED BY <2>1
<1> HIDE DEF g
<1> DEFINE out == CHOOSE o : o = [i \in 0..n |-> IF i = 0 THEN <<>> ELSE ProjectOne(o[i - 1], turns[i])]
<1>6. out = [i \in 0..n |-> IF i = 0 THEN <<>> ELSE ProjectOne(out[i - 1], turns[i])]
  BY <1>5
<1>7. Projection = out[n]
  BY DEF Projection
<1> HIDE DEF out
<1> DEFINE P == {i \in 0..n : out[i] = pre(i)}
<1>8. 0 \in P
  <2>1. 0 \in 0..n
    BY <1>1
  <2> QED BY <1>4, <1>6, <2>1
<1>9. ASSUME NEW i \in 0..n, i < n, i \in P PROVE i + 1 \in P
  <2>1. i + 1 \in 1..n /\ i + 1 \in 0..n /\ i + 1 # 0 /\ (i + 1) - 1 = i
    BY <1>1, <1>9
  <2>2. out[i + 1] = ProjectOne(out[i], turns[i + 1])
    BY <1>6, <2>1
  <2>3. out[i] = pre(i) /\ ProjectOne(pre(i), turns[i + 1]) = pre(i + 1)
    BY <1>3, <1>9, <2>1
  <2> QED BY <2>1, <2>2, <2>3
<1> HIDE DEF P
<1>10. n \in P
  <2>1. \A i \in 0..n : i \in P
    BY <1>1, <1>8, <1>9, Climb
  <2> QED BY <1>1, <2>1
<1> QED BY <1>4, <1>7, <1>10 DEF P

LEMMA BubblesAreTurns ==
  ASSUME TimelineTypes, RequestsOK, turns \in Seq(GoodTurn), Apart(turns)
  PROVE  Bubbles = {turns[i] : i \in 1..Len(turns)}
BY ProjectionIsTurns DEF Bubbles

\* Settled, said of the timeline itself.
LEMMA SettledIsShown ==
  ASSUME TimelineTypes, RequestsOK, turns \in Seq(GoodTurn), Apart(turns), NEW x
  PROVE  Settled(x) <=> ShowsAnswer(turns, x)
<1>1. Settled(x) <=> \E i \in 1..Len(turns) :
         turns[i].exec = x /\ turns[i].status = "completed" /\ turns[i].asst.text = "final"
  BY BubblesAreTurns DEF Settled
<1>2. \A i \in 1..Len(turns) : turns[i].asst.text = "final" <=> turns[i].asst = FinalAnswer
  BY FinalAnswerFacts DEF GoodTurn
<1> QED BY <1>1, <1>2 DEF ShowsAnswer

-----------------------------------------------------------------------------
(* What a history page is turned into.                                     *)

\* An entry made of record j of the page hs: with what the record shows, or
\* for its user message alone.
Records(t, hs, j) ==
  /\ t.id = <<"codex", j>> /\ t.client = Nil /\ t.exec = j
  /\ \/ t.asst = hs[j].asst /\ t.status = hs[j].status
     \/ t.asst = NoAnswer /\ t.status = "completed"

Recorded(hs) == {t \in TimelineTurn : \E j \in 1..Len(hs) : Records(t, hs, j)}

Covers(out, hs, j) ==
  \E k \in 1..Len(out) :
    out[k].exec = j /\ out[k].asst = hs[j].asst /\ out[k].status = hs[j].status

Folded(hs) == [out : Seq(Recorded(hs)), pend : (1..Len(hs)) \cup {Nil}]

LEMMA UserOnlyRecorded ==
  ASSUME NEW hs \in Seq(HistoryRecord), \A i \in 1..Len(hs) : hs[i].x = i,
         NEW p \in (1..Len(hs)) \cup {Nil}
  PROVE  UserOnly(p) \in Seq(Recorded(hs))
<1>1. CASE p = Nil
  BY <1>1 DEF UserOnly
<1>2. CASE p # Nil
  <2>1. p \in 1..Len(hs) /\ p \in Turns
    <3>1. p \in 1..Len(hs)
      BY <1>2
    <3>2. hs[p] \in HistoryRecord /\ hs[p].x = p
      BY <3>1
    <3> QED BY <3>1, <3>2 DEF HistoryRecord
  <2> DEFINE t == HistoryTurn(p, TRUE, NoAnswer, "completed", FALSE)
  <2>2. t \in TimelineTurn
    BY <2>1 DEF HistoryTurn, Turn, TimelineTurn, Ids, MaybeRequest, MaybeTurn, Answers
  <2>3. Records(t, hs, p)
    BY DEF HistoryTurn, Turn, Records
  <2> HIDE DEF t
  <2>4. t \in Recorded(hs)
    BY <2>1, <2>2, <2>3 DEF Recorded
  <2>5. UserOnly(p) = <<t>>
    BY <1>2 DEF UserOnly, t
  <2> QED BY <2>4, <2>5
<1> QED BY <1>1, <1>2

LEMMA ConcatCovers ==
  ASSUME NEW R, NEW out \in Seq(R), NEW x \in Seq(R), NEW hs, NEW j, Covers(out, hs, j)
  PROVE  Covers(out \o x, hs, j)
<1>1. PICK k \in 1..Len(out) :
         out[k].exec = j /\ out[k].asst = hs[j].asst /\ out[k].status = hs[j].status
  BY DEF Covers
<1>2. Len(out \o x) = Len(out) + Len(x) /\ Len(out) \in Nat /\ Len(x) \in Nat /\ (out \o x)[k] = out[k]
  OBVIOUS
<1>3. k \in 1..Len(out \o x)
  BY <1>2
<1> QED BY <1>1, <1>2, <1>3 DEF Covers

\* One record more.
LEMMA FromHistoryStep ==
  ASSUME NEW hs \in Seq(HistoryRecord), \A i \in 1..Len(hs) : hs[i].x = i,
         NEW i \in 1..Len(hs), NEW acc \in Folded(hs)
  PROVE  LET b == FromHistory(acc, hs[i]) IN
         /\ b \in Folded(hs)
         /\ \A j : Covers(acc.out, hs, j) => Covers(b.out, hs, j)
         /\ hs[i].asst # NoAnswer => Covers(b.out, hs, i)
<1> DEFINE R == Recorded(hs)
           b == FromHistory(acc, hs[i])
<1>1. PICK h : h = hs[i]
  OBVIOUS
<1>2. h \in HistoryRecord /\ h.x = i /\ i \in Turns
  <2>1. h \in HistoryRecord /\ h.x = i
    BY <1>1
  <2> QED BY <2>1 DEF HistoryRecord
<1>3. acc.out \in Seq(R) /\ acc.pend \in (1..Len(hs)) \cup {Nil}
  BY DEF Folded
<1>4. UserOnly(acc.pend) \in Seq(R)
  BY <1>3, UserOnlyRecorded
<1> DEFINE paired == (h.asst # NoAnswer \/ h.plan) /\ ~h.user /\ acc.pend # Nil
           t == HistoryTurn(h.x, h.user \/ paired, h.asst, h.status, h.plan)
<1>5. t \in R
  <2>1. h.asst \in Answers
    BY <1>2, FinalAnswerFacts DEF HistoryRecord, Answers, Answer, Texts, FinalAnswer
  <2>2. (h.user \/ paired) \in BOOLEAN /\ h.plan \in BOOLEAN /\ h.status \in {"running", "completed", "failed"}
    BY <1>2 DEF HistoryRecord
  <2>3. t \in TimelineTurn
    BY <1>2, <2>1, <2>2 DEF HistoryTurn, Turn, TimelineTurn, Ids, MaybeRequest, MaybeTurn
  <2>4. Records(t, hs, i)
    BY <1>1, <1>2 DEF HistoryTurn, Turn, Records
  <2> HIDE DEF t
  <2> QED BY <2>3, <2>4 DEF Recorded
<1>6. t.exec = i /\ t.asst = h.asst /\ t.status = h.status
  BY <1>2 DEF HistoryTurn, Turn
<1>7. \/ b = acc /\ h.asst = NoAnswer
      \/ b = [out |-> acc.out \o UserOnly(acc.pend), pend |-> i] /\ h.asst = NoAnswer
      \/ \E x \in {<<>>, UserOnly(acc.pend)}, p \in {Nil, acc.pend} :
            b = [out |-> Append(acc.out \o x, t), pend |-> p]
  BY <1>1, <1>2 DEF FromHistory
<1> HIDE DEF b, t
<1>8. CASE b = acc /\ h.asst = NoAnswer
  BY <1>1, <1>8 DEF b
<1>9. CASE b = [out |-> acc.out \o UserOnly(acc.pend), pend |-> i] /\ h.asst = NoAnswer
  <2>1. b.out = acc.out \o UserOnly(acc.pend) /\ b.pend = i
    BY <1>9
  <2>2. b.out \in Seq(R)
    BY <1>3, <1>4, <2>1
  <2>3. b \in Folded(hs)
    BY <1>9, <2>1, <2>2 DEF Folded
  <2>4. \A j : Covers(acc.out, hs, j) => Covers(b.out, hs, j)
    BY <1>3, <1>4, <2>1, ConcatCovers
  <2> QED BY <1>1, <1>9, <2>3, <2>4 DEF b
<1>10. ASSUME NEW x \in {<<>>, UserOnly(acc.pend)}, NEW p \in {Nil, acc.pend},
              b = [out |-> Append(acc.out \o x, t), pend |-> p]
       PROVE  /\ b \in Folded(hs)
              /\ \A j : Covers(acc.out, hs, j) => Covers(b.out, hs, j)
              /\ hs[i].asst # NoAnswer => Covers(b.out, hs, i)
  <2>1. x \in Seq(R)
    <3>1. <<>> \in Seq(R)
      OBVIOUS
    <3>2. x = <<>> \/ x = UserOnly(acc.pend)
      OBVIOUS
    <3> HIDE DEF R
    <3> QED BY <1>4, <3>1, <3>2
  <2>2. acc.out \o x \in Seq(R) /\ <<t>> \in Seq(R)
    BY <1>3, <1>5, <2>1
  <2> DEFINE o == acc.out \o x
  <2>3. o \in Seq(R)
    BY <2>2
  <2>4. \A j : Covers(acc.out, hs, j) => Covers(o, hs, j)
    BY <1>3, <2>1, ConcatCovers
  <2>5. b.out = Append(o, t) /\ b.pend = p
    BY <1>10
  <2> HIDE DEF o, R
  <2>6. Append(o, t) \in Seq(R) /\ Len(Append(o, t)) = Len(o) + 1
        /\ Append(o, t)[Len(o) + 1] = t /\ Len(o) \in Nat
    BY <1>5, <2>3
  <2>7. Append(o, t) = o \o <<t>>
    BY <1>5, <2>3, AppendIsConcat
  <2>8. b \in Folded(hs)
    <3>1. b.out \in Seq(R) /\ b.pend \in (1..Len(hs)) \cup {Nil}
      BY <1>3, <2>5, <2>6
    <3> QED BY <1>10, <2>5, <3>1 DEF Folded, R
  <2>9. \A j : Covers(o, hs, j) => Covers(b.out, hs, j)
    <3>1. ASSUME NEW j, Covers(o, hs, j) PROVE Covers(o \o <<t>>, hs, j)
      BY <2>2, <2>3, <3>1, ConcatCovers
    <3> QED BY <2>5, <2>7, <3>1
  <2>10. Covers(b.out, hs, i)
    <3>1. Len(o) + 1 \in 1..Len(b.out) /\ b.out[Len(o) + 1] = t
      BY <2>5, <2>6
    <3> QED BY <1>1, <1>6, <3>1 DEF Covers
  <2> QED BY <2>8, <2>4, <2>9, <2>10
<1> QED BY <1>7, <1>8, <1>9, <1>10 DEF b

\* Every entry comes from a record of the page, and every answer of the page
\* is in an entry, with its status.
LEMMA HistoryEntries ==
  ASSUME NEW hs \in Seq(HistoryRecord), \A i \in 1..Len(hs) : hs[i].x = i
  PROVE  LET out == _timeline_turns_from_codex_thread(hs) IN
         /\ out \in Seq(Recorded(hs))
         /\ \A j \in 1..Len(hs) : hs[j].asst # NoAnswer => Covers(out, hs, j)
<1> DEFINE n == Len(hs)
           S == Folded(hs)
           s == [out |-> <<>>, pend |-> Nil]
           F == [p \in Nat \X S |-> IF p[1] \in 1..n THEN FromHistory(p[2], hs[p[1]]) ELSE p[2]]
<1>1. n \in Nat /\ s \in S
  BY DEF Folded
<1>2. F \in [Nat \X S -> S]
  <2>1. ASSUME NEW p \in Nat \X S
        PROVE  (IF p[1] \in 1..n THEN FromHistory(p[2], hs[p[1]]) ELSE p[2]) \in S
    <3>1. p[2] \in S
      OBVIOUS
    <3>2. p[1] \in 1..n => FromHistory(p[2], hs[p[1]]) \in S
      BY <3>1, FromHistoryStep
    <3> QED BY <3>1, <3>2
  <2> QED BY <2>1
<1>3. PICK g : Reaches(g, n, F, S, s)
  BY <1>1, <1>2, ReachesExists
<1>4. /\ g \in [0..n -> S] /\ g[0] = s
      /\ \A i \in 0..n : i < n => g[i + 1] = FromHistory(g[i], hs[i + 1])
  <2>1. g \in [0..n -> S] /\ g[0] = s /\ \A i \in 0..n : i < n => g[i + 1] = F[<<i + 1, g[i]>>]
    BY <1>3 DEF Reaches
  <2>2. ASSUME NEW i \in 0..n, i < n PROVE g[i + 1] = FromHistory(g[i], hs[i + 1])
    <3>1. i + 1 \in Nat /\ i + 1 \in 1..n
      BY <1>1, <2>2
    <3>2. <<i + 1, g[i]>> \in Nat \X S
      <4>1. g[i] \in S
        BY <2>1
      <4> HIDE DEF S
      <4> QED BY <3>1, <4>1
    <3>3. F[<<i + 1, g[i]>>] = FromHistory(g[i], hs[i + 1])
      BY <3>1, <3>2
    <3> QED BY <2>1, <2>2, <3>3
  <2> QED BY <2>1, <2>2
<1> HIDE DEF S, s, F
<1>5. g = [i \in 0..n |-> IF i = 0 THEN s ELSE FromHistory(g[i - 1], hs[i])]
  <2>1. ASSUME NEW i \in 0..n PROVE g[i] = IF i = 0 THEN s ELSE FromHistory(g[i - 1], hs[i])
    <3>1. CASE i = 0
      BY <1>4, <3>1
    <3>2. CASE i # 0
      <4>1. i - 1 \in 0..n /\ i - 1 < n /\ (i - 1) + 1 = i
        BY <1>1, <3>2
      <4> QED BY <1>4, <3>2, <4>1
    <3> QED BY <3>1, <3>2
  <2> QED BY <1>4, <2>1
<1> DEFINE acc == CHOOSE a : a = [i \in 0..n |-> IF i = 0 THEN [out |-> <<>>, pend |-> Nil]
                                                 ELSE FromHistory(a[i - 1], hs[i])]
<1>6. acc = [i \in 0..n |-> IF i = 0 THEN s ELSE FromHistory(acc[i - 1], hs[i])]
  BY <1>5 DEF s
<1>7. _timeline_turns_from_codex_thread(hs) = acc[n].out \o UserOnly(acc[n].pend)
  BY DEF _timeline_turns_from_codex_thread
<1> HIDE DEF acc
<1> DEFINE P == {i \in 0..n : /\ acc[i] \in S
                              /\ \A j \in 1..i : hs[j].asst # NoAnswer => Covers(acc[i].out, hs, j)}
<1>8. 0 \in P
  <2>1. acc[0] = s
    BY <1>1, <1>6
  <2>2. 1..0 = {}
    OBVIOUS
  <2> QED BY <1>1, <2>1, <2>2
<1>9. ASSUME NEW i \in 0..n, i < n, i \in P PROVE i + 1 \in P
  <2>1. i + 1 \in 1..n /\ i + 1 \in 0..n /\ i + 1 # 0 /\ (i + 1) - 1 = i
    BY <1>1, <1>9
  <2>2. acc[i + 1] = FromHistory(acc[i], hs[i + 1])
    BY <1>6, <2>1
  <2>3. /\ acc[i + 1] \in S
        /\ \A j : Covers(acc[i].out, hs, j) => Covers(acc[i + 1].out, hs, j)
        /\ hs[i + 1].asst # NoAnswer => Covers(acc[i + 1].out, hs, i + 1)
    BY <1>9, <2>1, <2>2, FromHistoryStep DEF S
  <2>4. ASSUME NEW j \in 1..(i + 1), hs[j].asst # NoAnswer PROVE Covers(acc[i + 1].out, hs, j)
    <3>1. CASE j = i + 1
      BY <2>3, <2>4, <3>1
    <3>2. CASE j # i + 1
      <4>1. j \in 1..i
        BY <2>1, <2>4, <3>2
      <4> QED BY <1>9, <2>3, <2>4, <4>1
    <3> QED BY <3>1, <3>2
  <2> QED BY <2>1, <2>3, <2>4
<1> HIDE DEF P
<1>10. n \in P
  <2>1. \A i \in 0..n : i \in P
    BY <1>1, <1>8, <1>9, Climb
  <2> QED BY <1>1, <2>1
<1>11. acc[n].out \in Seq(Recorded(hs)) /\ UserOnly(acc[n].pend) \in Seq(Recorded(hs))
  <2>1. acc[n].out \in Seq(Recorded(hs)) /\ acc[n].pend \in (1..Len(hs)) \cup {Nil}
    BY <1>10 DEF P, S, Folded
  <2> QED BY <2>1, UserOnlyRecorded
<1>12. \A j \in 1..n : hs[j].asst # NoAnswer => Covers(acc[n].out \o UserOnly(acc[n].pend), hs, j)
  BY <1>10, <1>11, ConcatCovers DEF P
<1> QED BY <1>7, <1>11, <1>12

-----------------------------------------------------------------------------
(* A history page, merged.                                                 *)

LEMMA RecordedGood ==
  ASSUME TimelineTypes, CodexOK, GoodPage, page.turns \in Seq(HistoryRecord)
  PROVE  Recorded(page.turns) \subseteq GoodTurn
<1> DEFINE hs == page.turns
<1>1. SUFFICES ASSUME NEW t \in TimelineTurn, NEW j \in 1..Len(hs), Records(t, hs, j)
               PROVE  t \in GoodTurn
  BY DEF Recorded
<1>2. PICK h : h = hs[j]
  OBVIOUS
<1>3. h \in HistoryRecord /\ h.x = j
  BY <1>2 DEF GoodPage
<1>4. /\ h.status = "failed" => cx[j].st = "failed"
      /\ h.asst = FinalAnswer => FinalPassed(j)
  BY <1>2 DEF GoodPage
<1>5. j \in Turns /\ j # Nil
  BY <1>3, NilAssumption DEF HistoryRecord
<1>6. /\ t.id = <<"codex", j>> /\ t.client = Nil /\ t.exec = j
      /\ t.asst \in {h.asst, NoAnswer} /\ (t.status = "failed" => h.status = "failed")
  BY <1>1, <1>2 DEF Records
<1>7. t.id[1] = "codex" /\ t.id[2] = j
  BY <1>6
<1>8. t.status = "failed" => Broken(t.exec)
  BY <1>4, <1>6 DEF Broken
<1>9. t.asst \in {NoAnswer, Answer("partial", "completed"), FinalAnswer}
  BY <1>3, <1>6 DEF HistoryRecord
<1>10. t.asst.text # "commentary" /\ (t.asst.text = "final" => t.asst = FinalAnswer)
  BY <1>9, FinalAnswerFacts, NilAssumption DEF Answer
<1>11. t.asst.text = "final" => t.asst = FinalAnswer /\ t.exec # Nil /\ FinalPassed(t.exec)
  BY <1>4, <1>5, <1>6, <1>10, FinalAnswerFacts
<1> QED BY <1>6, <1>7, <1>8, <1>10, <1>11 DEF GoodTurn

\* The page keeps what it does not overtake, and brings the answers of the
\* turns it shows completed.
LEMMA PageMerge ==
  ASSUME TimelineTypes, CodexOK, RequestsOK, GoodPage, page.at = "read",
         turns \in Seq(GoodTurn), Apart(turns)
  PROVE  LET us == Merged(turns, _timeline_turns_from_codex_thread(page.turns)) IN
         /\ us \in Seq(GoodTurn) /\ Apart(us)
         /\ \A x \in Turns :
              /\ FinalPassed(x) /\ ~Overtakes(x)
              /\ ShowsAnswer(turns, x) \/ (cx[x].st # "failed" /\ x \in DOMAIN page.turns)
              => ShowsAnswer(us, x)
<1> DEFINE hs == page.turns
           news == _timeline_turns_from_codex_thread(hs)
<1>1. hs \in Seq(HistoryRecord) /\ Len(hs) \in Nat /\ DOMAIN hs = 1..Len(hs)
  BY DEF TimelineTypes
<1>2. \A i \in 1..Len(hs) : hs[i].x = i
  BY DEF GoodPage
<1>3. news \in Seq(Recorded(hs)) /\ \A j \in 1..Len(hs) : hs[j].asst # NoAnswer => Covers(news, hs, j)
  BY <1>1, <1>2, HistoryEntries
<1>4. Recorded(hs) \subseteq GoodTurn
  BY <1>1, RecordedGood
<1> HIDE DEF news
<1>5. news \in Seq(GoodTurn) /\ \A i \in 1..Len(news) : news[i] \in Recorded(hs)
  BY <1>3, <1>4, SeqMonotonic
<1>6. ASSUME NEW x \in Turns, FinalPassed(x), ~Overtakes(x), x \in 1..Len(hs)
      PROVE  hs[x].status = cx[x].st /\ hs[x].asst = FinalAnswer
  <2>1. hs[x].status # "running"
    BY <1>1, <1>6 DEF Overtakes
  <2> QED BY <1>6, <2>1 DEF GoodPage
<1>7. ASSUME NEW x \in Turns, FinalPassed(x), ~Overtakes(x), NEW i \in 1..Len(news)
      PROVE  Harmless(news[i], x)
  <2>1. PICK j \in 1..Len(hs) : Records(news[i], hs, j)
    BY <1>5, <1>7 DEF Recorded
  <2>2. CASE j = x
    BY <1>6, <1>7, <2>1, <2>2 DEF Records, Harmless
  <2>3. CASE j # x
    BY <2>1, <2>3 DEF Records, Harmless
  <2> QED BY <2>2, <2>3
<1>8. ASSUME NEW x \in Turns, FinalPassed(x), ~Overtakes(x), x \in DOMAIN hs, cx[x].st # "failed"
      PROVE  \E i \in 1..Len(news) : Brings(news[i], x)
  <2>1. x \in 1..Len(hs)
    BY <1>1, <1>8
  <2>2. hs[x].status = "completed" /\ hs[x].asst = FinalAnswer
    <3>1. hs[x].status = cx[x].st /\ hs[x].asst = FinalAnswer
      BY <1>6, <1>8, <2>1
    <3>2. hs[x] \in HistoryRecord /\ hs[x].status # "running"
      BY <1>1, <1>8, <2>1 DEF Overtakes
    <3> QED BY <1>8, <3>1, <3>2 DEF HistoryRecord
  <2>3. Covers(news, hs, x)
    BY <1>3, <2>1, <2>2, FinalAnswerFacts
  <2> QED BY <2>2, <2>3 DEF Covers, Brings
<1>9. \A x \in Turns :
        /\ FinalPassed(x) /\ ~Overtakes(x)
        /\ ShowsAnswer(turns, x) \/ (cx[x].st # "failed" /\ x \in DOMAIN hs)
        => ShowsAnswer(Merged(turns, news), x)
  BY <1>5, <1>7, <1>8, MergeAllGood
<1>10. Merged(turns, news) \in Seq(GoodTurn) /\ Apart(Merged(turns, news))
  BY <1>5, MergeAllGood
<1> QED BY <1>9, <1>10 DEF news

LEMMA ShownHasPassed ==
  ASSUME turns \in Seq(GoodTurn), NEW x, ShowsAnswer(turns, x)
  PROVE  FinalPassed(x)
BY FinalAnswerFacts DEF ShowsAnswer, GoodTurn

-----------------------------------------------------------------------------
(* What a step leaves true.                                                *)

\* Turns only go on, what is over stays as it is, and no event that was
\* missed is heard later.
Grows ==
  /\ \A x \in Turns :
       /\ Begun(x) => Begun(x)' /\ cx'[x].q = cx[x].q /\ cx'[x].script = cx[x].script
       /\ FinalPassed(x) => FinalPassed(x)'
       /\ Broken(x) => Broken(x)'
       /\ cx[x].st \in {"completed", "failed"} => cx'[x] = cx[x]
  /\ \A q \in Requests : Dead(q) => Dead(q)'
  /\ missed \subseteq missed'

LEMMA TurnsOfCodex ==
  ASSUME TimelineTypes, CodexOK, NEW x \in Turns
  PROVE  /\ cx[x].q # Nil => Begun(x)
         /\ \A i \in 1..Len(cx[x].script) : Begun(x)
         /\ cx[x] \in CodexTurn /\ cx[x].script \in Seq(Kinds) /\ Len(cx[x].script) \in Nat
         /\ cx[x].pos \in Nat \ {0}
<1>1. cx[x] \in CodexTurn
  BY DEF TimelineTypes
<1>2. cx[x].script \in Seq(Kinds) /\ cx[x].pos \in Nat \ {0}
  BY <1>1 DEF CodexTurn
<1>3. ~Begun(x) => cx[x].q = Nil /\ Len(cx[x].script) = 0
  BY DEF CodexOK
<1> QED BY <1>1, <1>2, <1>3

LEMMA MessagesStay ==
  ASSUME TimelineTypes, CodexOK, Grows
  PROVE  GoodMessage \subseteq GoodMessage'
<1>1. SUFFICES ASSUME NEW m \in GoodMessage PROVE m \in GoodMessage'
  OBVIOUS
<1>2. m \in Message /\ m.exec \in MaybeTurn /\ m.q \in Requests /\ m.q # Nil
  BY NilAssumption DEF GoodMessage, Message
<1>3. m.exec # Nil => m.exec \in Turns /\ cx'[m.exec].q = m.q
  <2>1. m.exec # Nil => m.exec \in Turns /\ cx[m.exec].q = m.q
    BY <1>2 DEF GoodMessage, MaybeTurn
  <2> QED BY <1>2, <2>1, TurnsOfCodex DEF Grows
<1>4. m.exec = Nil => m.type = "failed" /\ Dead(m.q)'
  BY <1>2 DEF GoodMessage, Grows
<1>5. m.type = "completed" => /\ cx'[m.exec].st = "completed"
                              /\ m.text \in {"commentary", "generic", "final"}
                              /\ m.text = "final" <=> FinalPassed(m.exec)'
  <2>1. SUFFICES ASSUME m.type = "completed"
                 PROVE  /\ cx'[m.exec].st = "completed"
                        /\ m.text \in {"commentary", "generic", "final"}
                        /\ m.text = "final" <=> FinalPassed(m.exec)'
    OBVIOUS
  <2>2. m.exec \in Turns
    BY <1>2, <2>1 DEF GoodMessage, MaybeTurn
  <2>3. cx[m.exec].st = "completed" /\ (m.text = "final" <=> FinalPassed(m.exec))
        /\ m.text \in {"commentary", "generic", "final"}
    BY <2>1 DEF GoodMessage
  <2>4. cx'[m.exec] = cx[m.exec]
    BY <2>2, <2>3 DEF Grows
  <2>5. FinalPassed(m.exec)' <=> FinalPassed(m.exec)
    BY <2>4 DEF FinalPassed
  <2> QED BY <2>3, <2>4, <2>5
<1>6. m.type = "failed" => m.text = "error" /\ (m.exec # Nil => Broken(m.exec)')
  BY <1>3 DEF GoodMessage, Grows
<1> QED BY <1>2, <1>3, <1>4, <1>5, <1>6 DEF GoodMessage

LEMMA EventsStay ==
  ASSUME TimelineTypes, CodexOK, Grows
  PROVE  GoodEvent \subseteq GoodEvent'
<1>1. SUFFICES ASSUME NEW e \in GoodEvent PROVE e \in GoodEvent'
  OBVIOUS
<1>2. e \in RawEvent /\ e.x \in Turns
  BY DEF GoodEvent, RawEvent
<1>3. e.ev = "end" => cx'[e.x].st \in {"completed", "failed"}
  BY <1>2 DEF GoodEvent, Grows
<1>4. e.kind # "turn" => e.i \in 1..Len(cx'[e.x].script) /\ cx'[e.x].script[e.i] = e.kind
  <2>1. e.kind # "turn" => e.i \in 1..Len(cx[e.x].script) /\ cx[e.x].script[e.i] = e.kind
    BY DEF GoodEvent
  <2>2. e.kind # "turn" => Begun(e.x)
    BY <1>2, <2>1, TurnsOfCodex
  <2> QED BY <1>2, <2>1, <2>2 DEF Grows
<1>5. e.kind = "final" /\ e.ev = "done" => FinalPassed(e.x)'
  BY <1>2 DEF GoodEvent, Grows
<1>6. e.kind = "turn" <=> e.ev = "end"
  BY DEF GoodEvent
<1> QED BY <1>2, <1>3, <1>4, <1>5, <1>6 DEF GoodEvent

LEMMA EntriesStay ==
  ASSUME TimelineTypes, CodexOK, Grows
  PROVE  GoodTurn \subseteq GoodTurn'
<1>1. SUFFICES ASSUME NEW t \in GoodTurn PROVE t \in GoodTurn'
  OBVIOUS
<1>2. t \in TimelineTurn /\ t.exec \in MaybeTurn /\ t.client \in MaybeRequest
  BY TurnFields DEF GoodTurn
<1>3. t.exec # Nil => t.exec \in Turns
  BY <1>2 DEF MaybeTurn
<1>4. t.client # Nil => t.client \in Requests
  BY <1>2 DEF MaybeRequest
<1>5. t.client # Nil =>
         IF t.exec = Nil THEN t.id = <<"outbound", t.client>> /\ Dead(t.client)'
                         ELSE cx'[t.exec].q = t.client
  <2>1. CASE t.exec = Nil
    BY <1>4, <2>1 DEF GoodTurn, Grows
  <2>2. CASE t.exec # Nil /\ t.client # Nil
    <3>1. cx[t.exec].q = t.client
      BY <2>2 DEF GoodTurn
    <3>2. Begun(t.exec)
      BY <1>3, <2>2, <3>1, TurnsOfCodex
    <3> QED BY <1>3, <2>2, <3>1, <3>2 DEF Grows
  <2> QED BY <2>1, <2>2
<1>6. t.status = "failed" /\ t.exec # Nil => Broken(t.exec)'
  BY <1>3 DEF GoodTurn, Grows
<1>7. t.asst.text = "final" =>
        t.asst = FinalAnswer /\ t.exec # Nil /\ FinalPassed(t.exec)'
  BY <1>3 DEF GoodTurn, Grows
<1>8. t.asst.text = "commentary" =>
        t.exec \in missed' \/ (t.status # "running" /\ t.asst.st # "running")
  BY DEF GoodTurn, Grows
<1>9. /\ t.id[1] = "codex"    => t.exec = t.id[2]
      /\ t.id[1] = "outbound" => t.client = t.id[2]
      /\ t.id[1] = "answer"   => t.client = Nil /\ t.exec = Nil
  BY DEF GoodTurn
<1> QED BY <1>2, <1>5, <1>6, <1>7, <1>8, <1>9 DEF GoodTurn

\* The parts of the invariant whose own variables a step leaves alone.
LEMMA Untouched ==
  ASSUME TimelineInv, Grows
  PROVE  /\ chanA \in Seq(GoodMessage') /\ chanB \in Seq(GoodEvent') /\ turns \in Seq(GoodTurn')
         /\ phase' = phase => PhasesOK'
         /\ page' = page => GoodPage'
         /\ chanB' = chanB => EndIsLast'
         /\ cx' = cx /\ chanB' = chanB /\ phase \subseteq phase' => CommentaryStarts'
         /\ (\A x \in Turns : FinalPassed(x)' => FinalPassed(x)) /\ chanB' = chanB
              /\ turns' = turns /\ stale' = stale => HeardIsShown'
         /\ (\A x \in Turns : told[x] /\ FinalPassed(x)' => FinalPassed(x))
              /\ turns' = turns /\ stale' = stale /\ told' = told => ToldIsShown'
<1>1. TimelineTypes /\ CodexOK
  BY DEF TimelineInv
<1>2. chanA \in Seq(GoodMessage') /\ chanB \in Seq(GoodEvent') /\ turns \in Seq(GoodTurn')
  <2>1. chanA \in Seq(GoodMessage) /\ chanB \in Seq(GoodEvent) /\ turns \in Seq(GoodTurn)
    BY DEF TimelineInv
  <2>2. Seq(GoodMessage) \subseteq Seq(GoodMessage')
    BY <1>1, MessagesStay, SeqMonotonic
  <2>3. Seq(GoodEvent) \subseteq Seq(GoodEvent')
    BY <1>1, EventsStay, SeqMonotonic
  <2>4. Seq(GoodTurn) \subseteq Seq(GoodTurn')
    BY <1>1, EntriesStay, SeqMonotonic
  <2> QED BY <2>1, <2>2, <2>3, <2>4
<1>3. ASSUME NEW x \in Turns, NEW i \in 1..Len(cx[x].script)
      PROVE  cx'[x].script = cx[x].script
  BY <1>1, TurnsOfCodex DEF Grows
<1>4. phase' = phase => PhasesOK'
  <2>1. PhasesOK
    BY DEF TimelineInv
  <2> QED BY <1>3, <2>1 DEF PhasesOK
<1>5. page' = page => GoodPage'
  <2>1. SUFFICES ASSUME page' = page PROVE GoodPage'
    OBVIOUS
  <2>2. GoodPage
    BY DEF TimelineInv
  <2>3. ASSUME NEW x \in 1..Len(page.turns)
        PROVE  LET h == page.turns[x] IN
               /\ h.x = x /\ Begun(x)'
               /\ h.status # "running" =>
                    cx'[x].st = h.status /\ (FinalPassed(x)' => h.asst = FinalAnswer)
               /\ h.asst = FinalAnswer => FinalPassed(x)'
               /\ \A y \in Turns, i \in Nat, k \in Kinds :
                    <<y, i, k>> \in h.phases => i \in 1..Len(cx'[y].script) /\ cx'[y].script[i] = k
    <3>1. PICK h : h = page.turns[x]
      OBVIOUS
    <3>2. x \in Turns
      <4>1. h \in HistoryRecord /\ h.x = x
        BY <1>1, <2>2, <3>1 DEF TimelineTypes, GoodPage
      <4> QED BY <4>1 DEF HistoryRecord
    <3>3. h.x = x /\ Begun(x)'
      BY <2>2, <3>1, <3>2 DEF GoodPage, Grows
    <3>4. h.status # "running" =>
            cx'[x].st = h.status /\ (FinalPassed(x)' => h.asst = FinalAnswer)
      <4>1. SUFFICES ASSUME h.status # "running"
                     PROVE  cx'[x].st = h.status /\ (FinalPassed(x)' => h.asst = FinalAnswer)
        OBVIOUS
      <4>2. cx[x].st = h.status /\ (FinalPassed(x) => h.asst = FinalAnswer)
        BY <2>2, <3>1, <4>1 DEF GoodPage
      <4>3. h.status \in {"completed", "failed"}
        <5>1. h \in HistoryRecord
          BY <1>1, <3>1 DEF TimelineTypes
        <5> QED BY <4>1, <5>1 DEF HistoryRecord
      <4>4. cx'[x] = cx[x]
        BY <3>2, <4>2, <4>3 DEF Grows
      <4>5. FinalPassed(x)' <=> FinalPassed(x)
        BY <4>4 DEF FinalPassed
      <4> QED BY <4>2, <4>4, <4>5
    <3>6. h.asst = FinalAnswer => FinalPassed(x)'
      BY <2>2, <3>1, <3>2 DEF GoodPage, Grows
    <3>7. ASSUME NEW y \in Turns, NEW i \in Nat, NEW k \in Kinds, <<y, i, k>> \in h.phases
          PROVE  i \in 1..Len(cx'[y].script) /\ cx'[y].script[i] = k
      <4>1. i \in 1..Len(cx[y].script) /\ cx[y].script[i] = k
        BY <2>2, <3>1, <3>7 DEF GoodPage
      <4> QED BY <1>3, <4>1
    <3> QED BY <3>1, <3>3, <3>4, <3>6, <3>7
  <2> QED BY <2>1, <2>3, SMTT(20) DEF GoodPage
<1>6. chanB' = chanB => EndIsLast'
  BY DEF TimelineInv, EndIsLast
<1>7. cx' = cx /\ chanB' = chanB /\ phase \subseteq phase' => CommentaryStarts'
  <2>1. SUFFICES ASSUME cx' = cx, chanB' = chanB, phase \subseteq phase' PROVE CommentaryStarts'
    OBVIOUS
  <2>2. CommentaryStarts /\ missed \subseteq missed'
    BY DEF TimelineInv, Grows
  <2>3. \A x, i, n : Started(x, i, n) => Started(x, i, n)'
    BY <2>1 DEF Started
  <2> QED BY <2>1, <2>2, <2>3 DEF CommentaryStarts, Begun, Over, Kind
<1>8. (\A x \in Turns : FinalPassed(x)' => FinalPassed(x)) /\ chanB' = chanB
        /\ turns' = turns /\ stale' = stale => HeardIsShown'
  BY DEF TimelineInv, HeardIsShown, Grows, FinalComes, ShowsAnswer
<1>9. (\A x \in Turns : told[x] /\ FinalPassed(x)' => FinalPassed(x))
        /\ turns' = turns /\ stale' = stale /\ told' = told => ToldIsShown'
  <2>1. ToldIsShown
    BY DEF TimelineInv
  <2> QED BY <2>1 DEF ToldIsShown, Grows, ShowsAnswer
<1> QED BY <1>2, <1>4, <1>5, <1>6, <1>7, <1>8, <1>9

-----------------------------------------------------------------------------
(* The steps, one lemma each.  First those under which no turn moves.      *)

LEMMA CalmGrows ==
  ASSUME TimelineInv, cx' = cx, \A x \in Turns : stream'[x].open => stream[x].open,
         \A q \in Requests : Dead(q) => Dead(q)', missed \subseteq missed'
  PROVE  /\ Grows /\ CodexOK'
         /\ \A x \in Turns : FinalPassed(x)' => FinalPassed(x)
<1>1. \A x \in Turns : (FinalPassed(x)' <=> FinalPassed(x)) /\ (Begun(x)' <=> Begun(x))
  BY DEF FinalPassed, Begun
<1>2. CodexOK'
  <2>1. CodexOK
    BY DEF TimelineInv
  <2> QED BY <1>1, <2>1 DEF CodexOK, Kind, Over
<1>3. \A x \in Turns : Broken(x) => Broken(x)'
  BY DEF Broken
<1> QED BY <1>1, <1>2, <1>3 DEF Grows

\* A request is started: it has no turn yet.
LEMMA StartTurnInv ==
  ASSUME TimelineInv, NEW q \in Requests, NEW planMode \in BOOLEAN, start_turn(q, planMode),
         UNCHANGED <<cx, stream, chanA, chanB, sub, phase, turns, page, missed, told, stale>>
  PROVE  TimelineInv'
<1>1. /\ starter[q] = "idle" /\ starter' = [starter EXCEPT ![q] = "sending"]
      /\ req' = [req EXCEPT ![q] = [st |-> "pending", exec |-> Nil, plan |-> planMode]]
      /\ cmd' = cmd \cup {q}
  BY DEF start_turn
<1>2. TimelineTypes /\ RequestsOK /\ StreamOK
  BY DEF TimelineInv
<1>3. TimelineTypes'
  <2>1. req' \in [Requests -> [st : {"none", "pending", "accepted", "running", "completed", "failed"},
                               exec : MaybeTurn, plan : BOOLEAN]]
    BY <1>1, <1>2 DEF TimelineTypes, MaybeTurn
  <2>2. starter' \in [Requests -> {"idle", "sending", "broken", "returned"}] /\ cmd' \subseteq Requests
    BY <1>1, <1>2 DEF TimelineTypes
  <2> QED BY <1>2, <2>1, <2>2 DEF TimelineTypes
<1>4. /\ starter'[q] = "sending"
      /\ \A p \in Requests : p # q => starter'[p] = starter[p] /\ req'[p] = req[p]
      /\ req'[q].exec = Nil
  BY <1>1, <1>2 DEF TimelineTypes
<1>5. \A x \in Turns : cx[x].q # q
  BY <1>1, <1>2, NilAssumption DEF RequestsOK
<1>6. \A p \in Requests : Dead(p) => Dead(p)'
  BY <1>1, <1>4 DEF Dead
<1>7. Grows /\ CodexOK' /\ \A x \in Turns : FinalPassed(x)' => FinalPassed(x)
  BY <1>6, CalmGrows
<1>8. RequestsOK'
  <2>1. \A p \in cmd' : starter'[p] # "idle" /\ \A x \in Turns : cx'[x].q # p
    BY <1>1, <1>2, <1>4, <1>5 DEF RequestsOK, TimelineTypes
  <2>2. \A x \in Turns : cx'[x].q # Nil => starter'[cx'[x].q] # "idle"
    <3>1. ASSUME NEW x \in Turns, cx[x].q # Nil PROVE starter'[cx[x].q] # "idle"
      <4>1. cx[x].q \in Requests
        BY <1>2, <3>1, TurnsOfCodex DEF TimelineTypes, CodexTurn, MaybeRequest
      <4> QED BY <1>2, <1>4, <1>5, <3>1, <4>1 DEF RequestsOK
    <3> QED BY <3>1
  <2>3. \A p \in Requests : req'[p].exec # Nil => cx'[req'[p].exec].q = p
    BY <1>2, <1>4 DEF RequestsOK
  <2>4. \A x \in Turns : cx'[x].q # Nil => \A y \in Turns : cx'[y].q = cx'[x].q => y = x
    BY <1>2 DEF RequestsOK
  <2> QED BY <2>1, <2>2, <2>3, <2>4 DEF RequestsOK
<1>9. StreamOK'
  BY <1>2 DEF StreamOK, FinalPassed
<1> QED BY <1>3, <1>7, <1>8, <1>9, Untouched DEF TimelineInv

LEMMA StartReturnsInv ==
  ASSUME TimelineInv, NEW q \in Requests, StartReturns(q)
  PROVE  TimelineInv'
<1>1. /\ starter[q] # "idle" /\ starter' = [starter EXCEPT ![q] = "returned"]
      /\ \E st \in {"accepted", "failed"} : req' = [req EXCEPT ![q].st = st, ![q].exec = Nil]
      /\ UNCHANGED <<cx, stream, chanA, chanB, sub, phase, turns, page, cmd, missed, told, stale>>
  BY DEF StartReturns
<1>2. TimelineTypes /\ RequestsOK /\ StreamOK
  BY DEF TimelineInv
<1>3. TimelineTypes'
  <2>1. req' \in [Requests -> [st : {"none", "pending", "accepted", "running", "completed", "failed"},
                               exec : MaybeTurn, plan : BOOLEAN]]
    <3>1. PICK st \in {"accepted", "failed"} : req' = [req EXCEPT ![q].st = st, ![q].exec = Nil]
      BY <1>1
    <3> DEFINE R == [st : {"none", "pending", "accepted", "running", "completed", "failed"},
                     exec : MaybeTurn, plan : BOOLEAN]
               r == [[req[q] EXCEPT !.st = st] EXCEPT !.exec = Nil]
    <3>2. req \in [Requests -> R]
      BY <1>2 DEF TimelineTypes
    <3>3. req' = [req EXCEPT ![q] = r]
      BY <3>1, <3>2
    <3>4. r \in R
      BY <3>2 DEF MaybeTurn
    <3> HIDE DEF r, R
    <3>5. req' \in [Requests -> R]
      BY <3>2, <3>3, <3>4
    <3> QED BY <3>5 DEF R
  <2>2. starter' \in [Requests -> {"idle", "sending", "broken", "returned"}]
    BY <1>1, <1>2 DEF TimelineTypes
  <2> QED BY <1>1, <1>2, <2>1, <2>2 DEF TimelineTypes
<1>4. /\ starter'[q] = "returned"
      /\ \A p \in Requests : p # q => starter'[p] = starter[p] /\ req'[p] = req[p]
      /\ req'[q].exec = Nil
  BY <1>1, <1>2 DEF TimelineTypes
<1>5. \A p \in Requests : starter[p] # "idle" => starter'[p] # "idle"
  BY <1>1, <1>4
<1>6. \A p \in Requests : Dead(p) => Dead(p)'
  BY <1>1, <1>5 DEF Dead
<1>7. Grows /\ CodexOK' /\ \A x \in Turns : FinalPassed(x)' => FinalPassed(x)
  BY <1>1, <1>6, CalmGrows
<1>8. RequestsOK'
  <2>1. \A p \in cmd' : starter'[p] # "idle" /\ \A x \in Turns : cx'[x].q # p
    BY <1>1, <1>2, <1>5 DEF RequestsOK, TimelineTypes
  <2>2. \A x \in Turns : cx[x].q # Nil => cx[x].q \in Requests
    BY <1>2 DEF TimelineTypes, CodexTurn, MaybeRequest
  <2>3. \A x \in Turns : cx[x].q # Nil =>
          starter'[cx[x].q] # "idle" /\ \A y \in Turns : cx[y].q = cx[x].q => y = x
    BY <1>2, <1>5, <2>2 DEF RequestsOK
  <2>4. \A p \in Requests : req'[p].exec # Nil => cx[req'[p].exec].q = p
    BY <1>2, <1>4 DEF RequestsOK
  <2> QED BY <1>1, <2>1, <2>3, <2>4 DEF RequestsOK
<1>9. StreamOK'
  BY <1>1, <1>2 DEF StreamOK, FinalPassed
<1> QED BY <1>1, <1>3, <1>7, <1>8, <1>9, Untouched DEF TimelineInv

\* The request will have no turn, and the message that says so has none.
LEMMA TurnNotStartedInv ==
  ASSUME TimelineInv, NEW q \in Requests, TurnNotStarted(q)
  PROVE  TimelineInv'
<1>1. /\ q \in cmd /\ cmd' = cmd \ {q} /\ chanA' = Append(chanA, MsgA(q, "failed", "error", Nil))
      /\ UNCHANGED <<req, starter, cx, stream, chanB, sub, phase, turns, page, missed, told, stale>>
  BY DEF TurnNotStarted
<1>2. TimelineTypes /\ RequestsOK /\ StreamOK
  BY DEF TimelineInv
<1>3. TimelineTypes'
  BY <1>1, <1>2 DEF TimelineTypes
<1>4. \A p \in Requests : Dead(p) => Dead(p)'
  BY <1>1 DEF Dead
<1>5. Grows /\ CodexOK' /\ \A x \in Turns : FinalPassed(x)' => FinalPassed(x)
  BY <1>1, <1>4, CalmGrows
<1>6. RequestsOK'
  BY <1>1, <1>2 DEF RequestsOK
<1>7. StreamOK'
  BY <1>1, <1>2 DEF StreamOK, FinalPassed
<1>8. chanA' \in Seq(GoodMessage')
  <2>1. Dead(q)'
    BY <1>1, <1>2 DEF Dead, RequestsOK
  <2> DEFINE m == MsgA(q, "failed", "error", Nil)
  <2>2. m \in Message /\ m.q = q /\ m.exec = Nil /\ m.type = "failed" /\ m.text = "error"
    BY DEF MsgA, Message, MaybeTurn
  <2> HIDE DEF m
  <2>3. m \in GoodMessage'
    BY <2>1, <2>2 DEF GoodMessage
  <2>4. chanA \in Seq(GoodMessage')
    BY <1>5, Untouched
  <2> QED BY <1>1, <2>3, <2>4, AppendProperties DEF m
<1> QED BY <1>1, <1>3, <1>5, <1>6, <1>7, <1>8, Untouched DEF TimelineInv

\* The turn that waits is given up: it stays where it is.
LEMMA BlockedTimesOutInv ==
  ASSUME TimelineInv, NEW x \in Turns, BlockedTimesOut(x)
  PROVE  TimelineInv'
<1>1. /\ cx[x].st = "waiting" /\ stream[x].open
      /\ stream' = [stream EXCEPT ![x].open = FALSE]
      /\ chanA' = Append(chanA, MsgA(cx[x].q, "failed", "error", x))
      /\ UNCHANGED <<req, starter, cx, chanB, sub, phase, turns, page, cmd, missed, told, stale>>
  BY DEF BlockedTimesOut, Waiting
<1>2. TimelineTypes /\ RequestsOK /\ StreamOK
  BY DEF TimelineInv
<1>3. TimelineTypes'
  <2>1. stream' \in [Turns -> [open : BOOLEAN, last : {Nil, "commentary", "final"}]]
    BY <1>1, <1>2 DEF TimelineTypes
  <2> QED BY <1>1, <1>2, <2>1 DEF TimelineTypes
<1>4. /\ \A y \in Turns : stream'[y].open => stream[y].open /\ stream'[y].last = stream[y].last
      /\ ~stream'[x].open
  BY <1>1, <1>2 DEF TimelineTypes
<1>5. \A p \in Requests : Dead(p) => Dead(p)'
  BY <1>1 DEF Dead
<1>6. Grows /\ CodexOK' /\ \A y \in Turns : FinalPassed(y)' => FinalPassed(y)
  BY <1>1, <1>4, <1>5, CalmGrows
<1>7. RequestsOK'
  BY <1>1, <1>2 DEF RequestsOK
<1>8. StreamOK'
  <2>1. \A y \in Turns : FinalPassed(y)' <=> FinalPassed(y)
    BY <1>6 DEF Grows
  <2> QED BY <1>1, <1>2, <1>4, <2>1 DEF StreamOK
<1>9. chanA' \in Seq(GoodMessage')
  <2>1. cx'[x].q = cx[x].q /\ cx[x].q \in Requests /\ Broken(x)' /\ x # Nil
    BY <1>1, <1>2, <1>4, NilAssumption DEF StreamOK, Broken
  <2> DEFINE m == MsgA(cx[x].q, "failed", "error", x)
  <2>2. m \in Message /\ m.q = cx[x].q /\ m.exec = x /\ m.type = "failed" /\ m.text = "error"
    BY <2>1 DEF MsgA, Message, MaybeTurn
  <2> HIDE DEF m
  <2>3. m \in GoodMessage'
    BY <2>1, <2>2 DEF GoodMessage
  <2>4. chanA \in Seq(GoodMessage')
    BY <1>6, Untouched
  <2> QED BY <1>1, <2>3, <2>4, AppendProperties DEF m
<1> QED BY <1>1, <1>3, <1>6, <1>7, <1>8, <1>9, Untouched DEF TimelineInv

-----------------------------------------------------------------------------
(* A turn begins.                                                          *)

\* The events of an item are at least one.
LEMMA StagesFacts ==
  ASSUME NEW k \in Kinds
  PROVE  /\ Len(Stages(k)) \in Nat \ {0}
         /\ \A i \in 1..Len(Stages(k)) :
              /\ Stages(k)[i] \in {"start", "delta", "done", "ask"}
              /\ k # "blocked" => Stages(k)[i] \in {"start", "delta", "done"}
              /\ k \in {"commentary", "final"} =>
                   /\ Stages(k)[i] = "start" <=> i = 1
                   /\ Stages(k)[i] = "done" <=> i = Len(Stages(k))
<1>1. CASE k = "user"
  <2>1. Stages(k) = <<"done">>
    BY <1>1 DEF Stages
  <2> QED BY <1>1, <2>1
<1>2. CASE k \in {"commentary", "final"}
  <2>1. Stages(k) = <<"start", "delta", "done">>
    BY <1>2 DEF Stages
  <2> QED BY <1>2, <2>1
<1>3. CASE k = "plan"
  <2>1. Stages(k) = <<"delta", "done">>
    BY <1>3 DEF Stages
  <2> QED BY <1>3, <2>1
<1>4. CASE k = "blocked"
  <2>1. Stages(k) = <<"ask">>
    BY <1>4 DEF Stages
  <2> QED BY <1>4, <2>1
<1> QED BY <1>1, <1>2, <1>3, <1>4 DEF Kinds

LEMMA BeginsGrows ==
  ASSUME TimelineInv, NEW x \in Turns, NEW q \in MaybeRequest, NEW s \in Scripts[x], Begins(x, q, s),
         \A y \in Turns : y # x => stream'[y] = stream[y],
         \A p \in Requests : Dead(p) => Dead(p)', missed' = missed
  PROVE  /\ Grows /\ CodexOK' /\ cx' \in [Turns -> CodexTurn]
         /\ \A y \in Turns : FinalPassed(y)' <=> FinalPassed(y)
         /\ chanB' = chanB /\ phase' = phase => CommentaryStarts'
         /\ cx[x].st = "idle" /\ cx'[x].q = q /\ cx'[x].st = "running"
         /\ \A y \in Turns : y # x => cx'[y] = cx[y]
<1>1. TimelineTypes /\ CodexOK /\ CommentaryStarts
  BY DEF TimelineInv
<1>2. /\ cx[x].st = "idle" /\ \A y \in Turns : y < x => cx[y].st # "idle"
      /\ cx' = [cx EXCEPT ![x] = [q |-> q, script |-> s, pos |-> 1, stage |-> 1, st |-> "running"]]
  BY DEF Begins
<1>3. s \in Seq(Kinds) /\ Len(s) \in Nat
  BY ScriptsAssumption
<1>4. cx' \in [Turns -> CodexTurn]
  <2>1. [q |-> q, script |-> s, pos |-> 1, stage |-> 1, st |-> "running"] \in CodexTurn
    BY <1>3 DEF CodexTurn
  <2> QED BY <1>1, <1>2, <2>1 DEF TimelineTypes
<1>5. /\ cx'[x] = [q |-> q, script |-> s, pos |-> 1, stage |-> 1, st |-> "running"]
      /\ \A y \in Turns : y # x => cx'[y] = cx[y]
  BY <1>1, <1>2 DEF TimelineTypes
<1>6. cx'[x].q = q /\ cx'[x].script = s /\ cx'[x].pos = 1 /\ cx'[x].stage = 1 /\ cx'[x].st = "running"
  BY <1>5
<1>7. Len(cx[x].script) = 0
  BY <1>1, <1>2 DEF CodexOK, Begun
<1>8. ~FinalPassed(x) /\ ~FinalPassed(x)' /\ ~Begun(x) /\ ~Broken(x)
  BY <1>2, <1>3, <1>6, <1>7 DEF FinalPassed, Begun, Broken
<1>9. \A y \in Turns : y # x => (FinalPassed(y)' <=> FinalPassed(y)) /\ (Begun(y)' <=> Begun(y))
                                 /\ (Broken(y)' <=> Broken(y))
  BY <1>5 DEF FinalPassed, Begun, Broken
<1>10. Grows
  <2>1. ASSUME NEW y \in Turns
        PROVE  /\ Begun(y) => Begun(y)' /\ cx'[y].q = cx[y].q /\ cx'[y].script = cx[y].script
               /\ FinalPassed(y) => FinalPassed(y)'
               /\ Broken(y) => Broken(y)'
               /\ cx[y].st \in {"completed", "failed"} => cx'[y] = cx[y]
    BY <1>2, <1>5, <1>8, <1>9
  <2> QED BY <2>1 DEF Grows
<1>11. CodexOK'
  <2>1. ASSUME NEW y \in Turns, y # x
        PROVE  /\ ~Begun(y)' => cx'[y].q = Nil /\ cx'[y].script = <<>>
               /\ Begun(y)'  => /\ cx'[y].script \in Scripts[y]
                                /\ cx'[y].pos <= Len(cx'[y].script) + 1
                                /\ cx'[y].pos <= Len(cx'[y].script) => cx'[y].stage <= Len(Stages(Kind(y)'))
               /\ cx'[y].st = "waiting" => cx'[y].pos > 1 /\ cx'[y].script[cx'[y].pos - 1] = "blocked"
               /\ cx'[y].st = "completed" => Over(y)'
    BY <1>1, <1>5, <1>9, <2>1 DEF CodexOK, Kind, Over
  <2>2. /\ Begun(x)'
        /\ cx'[x].pos <= Len(cx'[x].script) => cx'[x].stage <= Len(Stages(Kind(x)'))
    <3>1. Len(s) >= 1 => s[1] \in Kinds
      BY <1>3
    <3>2. Len(s) >= 1 => Len(Stages(s[1])) >= 1
      BY <3>1, StagesFacts
    <3> QED BY <1>3, <1>6, <3>2 DEF Begun, Kind
  <2>3. ASSUME NEW y \in Turns, NEW z \in Turns, z < y, Begun(y)' PROVE Begun(z)'
    <3>1. CASE z = x
      BY <2>2, <3>1
    <3>2. CASE z # x /\ y = x
      <4>1. cx[z].st # "idle"
        BY <1>2, <2>3, <3>2
      <4> QED BY <1>5, <3>2, <4>1 DEF Begun
    <3>3. CASE z # x /\ y # x
      BY <1>1, <1>9, <2>3, <3>3 DEF CodexOK
    <3> QED BY <3>1, <3>2, <3>3
  <2>4. cx'[x].script \in Scripts[x] /\ cx'[x].pos <= Len(cx'[x].script) + 1
    BY <1>3, <1>6
  <2> QED BY <1>6, <2>1, <2>2, <2>3, <2>4 DEF CodexOK
<1>12. chanB' = chanB /\ phase' = phase => CommentaryStarts'
  <2>1. SUFFICES ASSUME chanB' = chanB, phase' = phase PROVE CommentaryStarts'
    OBVIOUS
  <2>2. \A y, i, n : Started(y, i, n)' <=> Started(y, i, n)
    BY <2>1 DEF Started
  <2>3. \A j \in 1..Len(chanB') :
          chanB'[j].kind = "commentary" /\ chanB'[j].ev = "delta" /\ chanB'[j].x \notin missed' =>
            Started(chanB[j].x, chanB[j].i, j)'
    BY <1>1, <2>1, <2>2 DEF CommentaryStarts
  <2>4. ASSUME NEW y \in Turns, Begun(y)', y \notin missed', ~Over(y)', Kind(y)' = "commentary", cx'[y].stage > 1
        PROVE  \/ <<y, cx'[y].pos, "commentary">> \in phase'
               \/ \E k \in 1..Len(chanB') :
                     /\ k < Len(chanB') + 1
                     /\ chanB'[k] = [x |-> y, i |-> cx'[y].pos, kind |-> "commentary", ev |-> "start"]
    <3>1. y # x
      BY <1>6, <2>4
    <3>2. Begun(y) /\ ~Over(y) /\ Kind(y) = "commentary" /\ cx[y].stage > 1 /\ cx'[y].pos = cx[y].pos
      BY <1>5, <1>9, <2>4, <3>1 DEF Over, Kind
    <3>3. Started(y, cx[y].pos, Len(chanB) + 1)
      BY <1>1, <2>4, <3>2 DEF CommentaryStarts
    <3> QED BY <2>1, <3>2, <3>3 DEF Started
  <2> QED BY <2>1, <2>3, <2>4 DEF CommentaryStarts, Started
<1> QED BY <1>2, <1>4, <1>5, <1>6, <1>8, <1>9, <1>10, <1>11, <1>12

LEMMA ForeignTurnInv ==
  ASSUME TimelineInv, NEW x \in Turns, NEW s \in Scripts[x], ForeignTurn(x, s)
  PROVE  TimelineInv'
<1>1. /\ Begins(x, Nil, s)
      /\ UNCHANGED <<req, starter, stream, chanA, chanB, sub, phase, turns, page, cmd, missed, told, stale>>
  BY DEF ForeignTurn
<1>2. TimelineTypes /\ RequestsOK /\ StreamOK
  BY DEF TimelineInv
<1>3. Nil \in MaybeRequest
  BY DEF MaybeRequest
<1>4. /\ cx[x].st = "idle" /\ cx'[x].q = Nil
      /\ \A y \in Turns : y # x => cx'[y] = cx[y]
  <2>1. cx' = [cx EXCEPT ![x] = [q |-> Nil, script |-> s, pos |-> 1, stage |-> 1, st |-> "running"]]
        /\ cx[x].st = "idle"
    BY <1>1 DEF Begins
  <2> QED BY <1>2, <2>1 DEF TimelineTypes
<1>5. cx[x].q = Nil
  BY <1>4 DEF TimelineInv, CodexOK, Begun
<1>6. \A p \in Requests : Dead(p) => Dead(p)'
  BY <1>1, <1>4, NilAssumption DEF Dead
<1>7. /\ Grows /\ CodexOK' /\ cx' \in [Turns -> CodexTurn] /\ CommentaryStarts'
      /\ \A y \in Turns : FinalPassed(y)' <=> FinalPassed(y)
  BY <1>1, <1>3, <1>6, BeginsGrows
<1>8. TimelineTypes'
  BY <1>1, <1>2, <1>7 DEF TimelineTypes
<1>9. \A y \in Turns : cx'[y].q = cx[y].q
  BY <1>4, <1>5
<1>10. RequestsOK'
  <2>1. \A p \in Requests : req[p].exec # Nil => req[p].exec \in Turns
    BY <1>2 DEF TimelineTypes, MaybeTurn
  <2> QED BY <1>1, <1>2, <1>9, <2>1 DEF RequestsOK
<1>11. StreamOK'
  BY <1>1, <1>2, <1>4, <1>7 DEF StreamOK
<1> QED BY <1>1, <1>7, <1>8, <1>10, <1>11, Untouched DEF TimelineInv

\* The turn of a request: its command was on the way, so it has no other.
LEMMA StartTurnRequestInv ==
  ASSUME TimelineInv, NEW q \in Requests, NEW x \in Turns, NEW s \in Scripts[x], start_turn_request(q, x, s)
  PROVE  TimelineInv'
<1>1. /\ q \in cmd /\ Begins(x, q, s) /\ cmd' = cmd \ {q}
      /\ stream' = [stream EXCEPT ![x] = [open |-> TRUE, last |-> Nil]]
      /\ chanA' = Append(chanA, MsgA(q, "progress", "sent", x))
      /\ UNCHANGED <<req, starter, chanB, sub, phase, turns, page, missed, told, stale>>
  BY DEF start_turn_request
<1>2. TimelineTypes /\ RequestsOK /\ StreamOK /\ CodexOK
  BY DEF TimelineInv
<1>3. q \in MaybeRequest /\ q # Nil /\ x # Nil
  BY NilAssumption DEF MaybeRequest
<1>4. stream'[x].open /\ stream'[x].last = Nil /\ \A y \in Turns : y # x => stream'[y] = stream[y]
  BY <1>1, <1>2 DEF TimelineTypes
<1>5. starter[q] # "idle" /\ \A y \in Turns : cx[y].q # q
  BY <1>1, <1>2 DEF RequestsOK
<1>6. \A p \in Requests : Dead(p) => Dead(p)'
  <2>1. /\ cx' = [cx EXCEPT ![x] = [q |-> q, script |-> s, pos |-> 1, stage |-> 1, st |-> "running"]]
    BY <1>1 DEF Begins
  <2>2. \A y \in Turns : cx'[y].q \in {cx[y].q, q}
    BY <1>2, <2>1 DEF TimelineTypes
  <2> QED BY <1>1, <2>2 DEF Dead
<1>7. /\ Grows /\ CodexOK' /\ cx' \in [Turns -> CodexTurn] /\ CommentaryStarts'
      /\ \A y \in Turns : FinalPassed(y)' <=> FinalPassed(y)
      /\ cx[x].st = "idle" /\ cx'[x].q = q /\ cx'[x].st = "running"
      /\ \A y \in Turns : y # x => cx'[y] = cx[y]
  BY <1>1, <1>3, <1>4, <1>6, BeginsGrows
<1>8. TimelineTypes'
  <2>1. stream' \in [Turns -> [open : BOOLEAN, last : {Nil, "commentary", "final"}]]
    BY <1>1, <1>2 DEF TimelineTypes
  <2> QED BY <1>1, <1>2, <1>7, <2>1 DEF TimelineTypes
<1>9. cx[x].q = Nil /\ ~FinalPassed(x)
  BY <1>2, <1>7 DEF CodexOK, Begun, FinalPassed
<1>10. RequestsOK'
  <2>1. \A p \in Requests : req[p].exec # Nil => req[p].exec # x /\ req[p].exec \in Turns
    BY <1>2, <1>9, NilAssumption DEF RequestsOK, TimelineTypes, MaybeTurn
  <2>2. \A p \in Requests : req'[p].exec # Nil => cx'[req'[p].exec].q = p
    BY <1>1, <1>2, <1>7, <2>1 DEF RequestsOK
  <2>3. \A p \in cmd' : starter'[p] # "idle" /\ \A y \in Turns : cx'[y].q # p
    BY <1>1, <1>2, <1>7 DEF RequestsOK
  <2>4. ASSUME NEW y \in Turns, cx'[y].q # Nil
        PROVE  starter'[cx'[y].q] # "idle" /\ \A z \in Turns : cx'[z].q = cx'[y].q => z = y
    BY <1>1, <1>2, <1>5, <1>7, <2>4 DEF RequestsOK
  <2> QED BY <2>2, <2>3, <2>4 DEF RequestsOK
<1>11. StreamOK'
  <2>1. ASSUME NEW y \in Turns, stream'[y].open
        PROVE  /\ cx'[y].st \in {"running", "waiting"} /\ cx'[y].q \in Requests
               /\ stream'[y].last = "final" <=> FinalPassed(y)'
    <3>1. CASE y = x
      BY <1>4, <1>7, <1>9, <3>1, NilAssumption
    <3>2. CASE y # x
      BY <1>2, <1>4, <1>7, <2>1, <3>2 DEF StreamOK
    <3> QED BY <3>1, <3>2
  <2> QED BY <2>1 DEF StreamOK
<1>12. chanA' \in Seq(GoodMessage')
  <2> DEFINE m == MsgA(q, "progress", "sent", x)
  <2>1. m \in Message /\ m.q = q /\ m.exec = x /\ m.type = "progress"
    BY DEF MsgA, Message, MaybeTurn
  <2> HIDE DEF m
  <2>2. m \in GoodMessage'
    BY <1>3, <1>7, <2>1 DEF GoodMessage
  <2>3. chanA \in Seq(GoodMessage')
    BY <1>7, Untouched
  <2> QED BY <1>1, <2>2, <2>3, AppendProperties DEF m
<1> QED BY <1>1, <1>7, <1>8, <1>10, <1>11, <1>12, Untouched DEF TimelineInv

-----------------------------------------------------------------------------
(* An answer, the subscription and the connection.                         *)

\* The answer to a question is an entry of its own; the turn goes on.
LEMMA RespondInv ==
  ASSUME TimelineInv, NEW q \in Requests, resolve_interaction_request(q)
  PROVE  TimelineInv' /\ \A y \in Turns : ShowsAnswer(turns, y) => ShowsAnswer(turns', y)
<1>1. /\ turns' = upsert(turns, Turn(<<"answer", q>>, Nil, Nil, TRUE, NoAnswer, "completed", "answer", FALSE))
      /\ cx' = [x \in Turns |-> IF x \in AskedBy(q) /\ stream[x].open
                                THEN [cx[x] EXCEPT !.st = "running"] ELSE cx[x]]
      /\ UNCHANGED <<req, starter, stream, chanA, chanB, sub, phase, page, cmd, missed, told, stale>>
  BY DEF resolve_interaction_request
<1>2. /\ TimelineTypes /\ RequestsOK /\ StreamOK /\ CodexOK /\ CommentaryStarts /\ HeardIsShown /\ ToldIsShown
      /\ turns \in Seq(GoodTurn) /\ Apart(turns)
  BY DEF TimelineInv
<1>3. ASSUME NEW x \in Turns
      PROVE  /\ cx'[x] \in CodexTurn
             /\ cx'[x].q = cx[x].q /\ cx'[x].script = cx[x].script
             /\ cx'[x].pos = cx[x].pos /\ cx'[x].stage = cx[x].stage
             /\ \/ cx'[x].st = cx[x].st
                \/ cx[x].st = "waiting" /\ cx'[x].st = "running" /\ stream[x].open
             /\ cx[x].st # "waiting" => cx'[x] = cx[x]
  <2>1. cx[x] \in CodexTurn
    BY <1>2 DEF TimelineTypes
  <2> QED BY <1>1, <2>1 DEF CodexTurn, AskedBy, Waiting
<1>4. \A x \in Turns : /\ FinalPassed(x)' <=> FinalPassed(x)
                       /\ Begun(x)' <=> Begun(x)
                       /\ Over(x)' <=> Over(x)
                       /\ Kind(x)' = Kind(x)
                       /\ Broken(x) => Broken(x)'
  BY <1>1, <1>3 DEF FinalPassed, Begun, Over, Kind, Broken
<1>5. \A p \in Requests : Dead(p) => Dead(p)'
  BY <1>1, <1>3 DEF Dead
<1>6. Grows
  BY <1>1, <1>3, <1>4, <1>5 DEF Grows
<1>7. CodexOK'
  BY <1>2, <1>3, <1>4 DEF CodexOK
<1>8. TimelineTypes'
  <2>1. cx' \in [Turns -> CodexTurn]
    BY <1>1, <1>3
  <2> QED BY <1>1, <1>2, <2>1 DEF TimelineTypes
<1>9. StreamOK'
  BY <1>1, <1>2, <1>3, <1>4 DEF StreamOK
<1>10. RequestsOK'
  <2>1. \A p \in Requests : req[p].exec # Nil => req[p].exec \in Turns
    BY <1>2 DEF TimelineTypes, MaybeTurn
  <2> QED BY <1>1, <1>2, <1>3, <2>1 DEF RequestsOK
<1>11. CommentaryStarts'
  <2>1. \A x, i, n : Started(x, i, n)' <=> Started(x, i, n)
    BY <1>1 DEF Started
  <2>2. \A j \in 1..Len(chanB') :
          chanB'[j].kind = "commentary" /\ chanB'[j].ev = "delta" /\ chanB'[j].x \notin missed' =>
            Started(chanB[j].x, chanB[j].i, j)'
    BY <1>1, <1>2, <2>1 DEF CommentaryStarts
  <2>3. ASSUME NEW x \in Turns, Begun(x)', x \notin missed', ~Over(x)', Kind(x)' = "commentary", cx'[x].stage > 1
        PROVE  Started(x, cx[x].pos, Len(chanB) + 1)
    BY <1>1, <1>2, <1>3, <1>4, <2>3 DEF CommentaryStarts
  <2>4. ASSUME NEW x \in Turns, Begun(x)', x \notin missed', ~Over(x)', Kind(x)' = "commentary", cx'[x].stage > 1
        PROVE  \/ <<x, cx'[x].pos, "commentary">> \in phase'
               \/ \E k \in 1..Len(chanB') :
                     /\ k < Len(chanB') + 1
                     /\ chanB'[k] = [x |-> x, i |-> cx'[x].pos, kind |-> "commentary", ev |-> "start"]
    BY <1>1, <1>3, <2>3, <2>4 DEF Started
  <2> QED BY <1>1, <2>2, <2>4 DEF CommentaryStarts, Started
<1>12. PICK t : t = Turn(<<"answer", q>>, Nil, Nil, TRUE, NoAnswer, "completed", "answer", FALSE)
  OBVIOUS
<1>13. t \in GoodTurn
  <2>1. t \in TimelineTurn
    BY <1>12, FinalAnswerFacts DEF Turn, TimelineTurn, Ids, MaybeRequest, MaybeTurn
  <2>2. /\ t.id = <<"answer", q>> /\ t.client = Nil /\ t.exec = Nil /\ t.status = "completed"
        /\ t.asst.text = Nil
    BY <1>12, FinalAnswerFacts DEF Turn
  <2> QED BY <2>1, <2>2, NilAssumption DEF GoodTurn
<1>14. \A x : Harmless(t, x)
  BY <1>12 DEF Harmless, Turn
<1>15. turns' \in Seq(GoodTurn) /\ Apart(turns')
  BY <1>1, <1>2, <1>12, <1>13, InsertGood
<1>16. \A x : ShowsAnswer(turns, x) => ShowsAnswer(turns', x)
  BY <1>1, <1>2, <1>12, <1>13, <1>14, InsertKeeps
<1>17. turns' \in Seq(GoodTurn')
  BY <1>2, <1>6, <1>15, EntriesStay, SeqMonotonic
<1>18. HeardIsShown'
  <2>1. \A x : FinalComes(x)' <=> FinalComes(x)
    BY <1>1 DEF FinalComes
  <2>2. \A x \in Turns : cx'[x].st # "failed" => cx[x].st # "failed"
    BY <1>6 DEF Grows
  <2> QED BY <1>1, <1>2, <1>4, <1>16, <2>1, <2>2 DEF HeardIsShown
<1>19. ToldIsShown'
  <2>1. \A x \in Turns : told[x] => cx'[x].st = "completed" \/ Broken(x)'
    BY <1>2, <1>3, <1>4 DEF ToldIsShown
  <2>2. \A x \in Turns : cx'[x].st # "failed" => cx[x].st # "failed"
    BY <1>6 DEF Grows
  <2> QED BY <1>1, <1>2, <1>4, <1>16, <2>1, <2>2 DEF ToldIsShown
<1> QED BY <1>1, <1>6, <1>7, <1>8, <1>9, <1>10, <1>11, <1>15, <1>16, <1>17, <1>18, <1>19, Untouched DEF TimelineInv

\* A page that has not been read is empty.
LEMMA EmptyPages ==
  /\ NoPage \in [at : {"none", "asked", "read"}, turns : Seq(HistoryRecord)]
  /\ [at |-> "asked", turns |-> <<>>] \in [at : {"none", "asked", "read"}, turns : Seq(HistoryRecord)]
<1>1. PICK H : H = Seq(HistoryRecord)
  OBVIOUS
<1>2. <<>> \in Seq(HistoryRecord)
  OBVIOUS
<1>3. <<>> \in H
  BY <1>1, <1>2
<1>4. /\ [at |-> "none", turns |-> <<>>] \in [at : {"none", "asked", "read"}, turns : H]
      /\ [at |-> "asked", turns |-> <<>>] \in [at : {"none", "asked", "read"}, turns : H]
  BY <1>3
<1> QED BY <1>1, <1>4 DEF NoPage

\* Steps that only ask for something, or mark the thread as streamed.
LEMMA AskingInv ==
  ASSUME TimelineInv, sub' \in BOOLEAN, ~sub' => chanB' = <<>>,
         \/ page' = page \/ page' = NoPage \/ page' = [at |-> "asked", turns |-> <<>>],
         UNCHANGED <<req, starter, cx, stream, chanA, chanB, phase, turns, cmd, missed, told, stale>>
  PROVE  TimelineInv'
<1>1. TimelineTypes /\ RequestsOK /\ StreamOK
  BY DEF TimelineInv
<1>2. TimelineTypes'
  <2>1. page \in [at : {"none", "asked", "read"}, turns : Seq(HistoryRecord)]
    BY <1>1 DEF TimelineTypes
  <2>2. page' \in [at : {"none", "asked", "read"}, turns : Seq(HistoryRecord)]
    BY <2>1, EmptyPages
  <2> QED BY <1>1, <2>2 DEF TimelineTypes
<1>3. \A p \in Requests : Dead(p) => Dead(p)'
  BY DEF Dead
<1>4. Grows /\ CodexOK' /\ \A y \in Turns : FinalPassed(y)' => FinalPassed(y)
  BY <1>3, CalmGrows
<1>5. RequestsOK'
  BY <1>1 DEF RequestsOK
<1>6. StreamOK'
  BY <1>1 DEF StreamOK, FinalPassed
<1>7. GoodPage'
  <2>1. CASE page' = page
    BY <1>4, <2>1, Untouched
  <2>2. CASE page' # page
    <3>1. Len(page'.turns) = 0
      BY <2>2 DEF NoPage
    <3> QED BY <3>1 DEF GoodPage
  <2> QED BY <2>1, <2>2
<1>8. Apart(turns)'
  BY DEF TimelineInv, Apart
<1> QED BY <1>2, <1>4, <1>5, <1>6, <1>7, <1>8, Untouched DEF TimelineInv

\* What was on channel B is lost: its turns have an event that is missed.
LEMMA LostInv ==
  ASSUME TimelineInv, missed' = Unheard, chanB' = <<>>, sub' = FALSE,
         UNCHANGED <<req, cx, phase, turns, told, stale>>,
         chanA' \in {chanA, <<>>}, page' \in {page, NoPage}, cmd' \in {cmd, {}},
         stream' \in {stream, [x \in Turns |-> [stream[x] EXCEPT !.open = FALSE]]},
         starter' \in {starter, [q \in Requests |->
                         IF starter[q] = "sending" /\ q \in cmd THEN "broken" ELSE starter[q]]}
  PROVE  TimelineInv'
<1>1. TimelineTypes /\ RequestsOK /\ StreamOK /\ HeardIsShown /\ chanB \in Seq(GoodEvent)
  BY DEF TimelineInv
<1>2. /\ \A q \in Requests : starter[q] # "idle" => starter'[q] # "idle"
      /\ starter' \in [Requests -> {"idle", "sending", "broken", "returned"}]
  BY <1>1 DEF TimelineTypes
<1>3. /\ \A x \in Turns : stream'[x].open => stream[x].open /\ stream'[x] = stream[x]
      /\ stream' \in [Turns -> [open : BOOLEAN, last : {Nil, "commentary", "final"}]]
  <2>1. CASE stream' = stream
    BY <1>1, <2>1 DEF TimelineTypes
  <2>2. CASE stream' = [x \in Turns |-> [stream[x] EXCEPT !.open = FALSE]]
    <3>1. PICK R : R = [open : BOOLEAN, last : {Nil, "commentary", "final"}]
      OBVIOUS
    <3>2. ASSUME NEW x \in Turns
          PROVE  /\ [stream[x] EXCEPT !.open = FALSE] \in R
                 /\ [stream[x] EXCEPT !.open = FALSE].open = FALSE
      <4>1. stream[x] \in [open : BOOLEAN, last : {Nil, "commentary", "final"}]
        BY <1>1 DEF TimelineTypes
      <4> QED BY <3>1, <4>1
    <3>3. /\ stream' \in [Turns -> R]
          /\ \A x \in Turns : stream'[x].open = FALSE
      BY <2>2, <3>2
    <3> QED BY <3>1, <3>3
  <2> QED BY <2>1, <2>2
<1>4. missed \subseteq missed' /\ missed' \subseteq Turns
  <2>1. \A i \in DOMAIN chanB : chanB[i].x \in Turns
    BY <1>1 DEF GoodEvent, RawEvent
  <2> QED BY <1>1, <2>1 DEF Unheard, TimelineTypes
<1>5. TimelineTypes'
  <2>1. page \in [at : {"none", "asked", "read"}, turns : Seq(HistoryRecord)]
    BY <1>1 DEF TimelineTypes
  <2>2. page' \in [at : {"none", "asked", "read"}, turns : Seq(HistoryRecord)]
    BY <2>1, EmptyPages
  <2> QED BY <1>1, <1>2, <1>3, <1>4, <2>2 DEF TimelineTypes
<1>6. \A p \in Requests : Dead(p) => Dead(p)'
  BY <1>2 DEF Dead
<1>7. Grows /\ CodexOK' /\ \A y \in Turns : FinalPassed(y)' => FinalPassed(y)
  BY <1>3, <1>4, <1>6, CalmGrows
<1>8. RequestsOK'
  <2>1. \A x \in Turns : cx[x].q # Nil => cx[x].q \in Requests
    BY <1>1 DEF TimelineTypes, CodexTurn, MaybeRequest
  <2>2. \A p \in cmd' : starter'[p] # "idle" /\ \A x \in Turns : cx'[x].q # p
    BY <1>1, <1>2 DEF RequestsOK, TimelineTypes
  <2>3. \A x \in Turns : cx[x].q # Nil =>
          starter'[cx[x].q] # "idle" /\ \A y \in Turns : cx[y].q = cx[x].q => y = x
    BY <1>1, <1>2, <2>1 DEF RequestsOK
  <2>4. \A p \in Requests : req[p].exec # Nil => cx[req[p].exec].q = p
    BY <1>1 DEF RequestsOK
  <2> QED BY <2>2, <2>3, <2>4 DEF RequestsOK
<1>9. StreamOK'
  <2>1. \A y \in Turns : FinalPassed(y)' <=> FinalPassed(y)
    BY <1>7 DEF Grows
  <2> QED BY <1>1, <1>3, <2>1 DEF StreamOK
<1>10. GoodPage'
  <2>1. CASE page' = page
    BY <1>7, <2>1, Untouched
  <2>2. CASE page' # page
    <3>1. Len(page'.turns) = 0
      BY <2>2 DEF NoPage
    <3> QED BY <3>1 DEF GoodPage
  <2> QED BY <2>1, <2>2
<1>11. chanA' \in Seq(GoodMessage') /\ chanB' \in Seq(GoodEvent') /\ Len(chanB') = 0
  <2>1. <<>> \in Seq(GoodMessage') /\ <<>> \in Seq(GoodEvent')
    OBVIOUS
  <2> QED BY <1>7, <2>1, Untouched
<1>12. EndIsLast'
  BY <1>11 DEF EndIsLast
<1>13. CommentaryStarts'
  <2>1. CommentaryStarts
    BY DEF TimelineInv
  <2>2. ASSUME NEW x \in Turns, Begun(x), x \notin missed', ~Over(x), Kind(x) = "commentary", cx[x].stage > 1
        PROVE  <<x, cx[x].pos, "commentary">> \in phase
    <3>1. Started(x, cx[x].pos, Len(chanB) + 1)
      BY <1>4, <2>1, <2>2 DEF CommentaryStarts
    <3>2. \A k \in 1..Len(chanB) : chanB[k].x # x
      BY <1>1, <2>2 DEF Unheard
    <3>3. \A k \in 1..Len(chanB) :
            chanB[k] # [x |-> x, i |-> cx[x].pos, kind |-> "commentary", ev |-> "start"]
      BY <3>2
    <3> QED BY <3>1, <3>3 DEF Started
  <2> QED BY <1>11, <2>2 DEF CommentaryStarts, Started, Begun, Over, Kind
<1>14. HeardIsShown'
  <2>1. ASSUME NEW x \in Turns, x \notin missed', x \notin stale, FinalPassed(x)', cx'[x].st # "failed"
        PROVE  ShowsAnswer(turns, x)
    <3>1. \A j \in 1..Len(chanB) : chanB[j].x # x
      BY <1>1, <2>1 DEF Unheard
    <3>2. ~FinalComes(x)
      BY <3>1 DEF FinalComes
    <3> QED BY <1>1, <1>4, <1>7, <2>1, <3>2 DEF HeardIsShown
  <2> QED BY <2>1 DEF HeardIsShown
<1>15. Apart(turns)'
  BY DEF TimelineInv, Apart
<1> QED BY <1>5, <1>7, <1>8, <1>9, <1>10, <1>11, <1>12, <1>13, <1>14, <1>15, Untouched DEF TimelineInv

LEMMA DeselectInv ==
  ASSUME TimelineInv, Deselect
  PROVE  TimelineInv'
BY LostInv DEF Deselect

LEMMA ConnectionLostInv ==
  ASSUME TimelineInv, ConnectionLost
  PROVE  TimelineInv'
BY LostInv DEF ConnectionLost

LEMMA SelectInv ==
  ASSUME TimelineInv, Select \/ Reconnected \/ list_bro_timeline_page
  PROVE  TimelineInv'
<1>1. ~sub => chanB = <<>>
  BY DEF TimelineInv
<1>2. sub \in BOOLEAN
  BY DEF TimelineInv, TimelineTypes
<1>3. CASE Select
  BY <1>1, <1>3, AskingInv DEF Select
<1>4. CASE Reconnected
  BY <1>1, <1>2, <1>4, AskingInv DEF Reconnected
<1>5. CASE list_bro_timeline_page
  BY <1>1, <1>2, <1>5, AskingInv DEF list_bro_timeline_page
<1> QED BY <1>3, <1>4, <1>5

LEMMA TimelineStutters ==
  ASSUME TimelineInv, UNCHANGED timelineVars
  PROVE  TimelineInv'
<1>1. (~sub => chanB = <<>>) /\ sub \in BOOLEAN
  BY DEF TimelineInv, TimelineTypes
<1> QED BY <1>1, AskingInv DEF timelineVars

LEMMA TimelineBegins ==
  ASSUME TimelineInit
  PROVE  TimelineInv
<1>1. TimelineTypes
  <2>1. <<>> \in Seq(Kinds)
    OBVIOUS
  <2>2. [q |-> Nil, script |-> <<>>, pos |-> 1, stage |-> 1, st |-> "idle"] \in CodexTurn
    BY <2>1 DEF CodexTurn, MaybeRequest
  <2>3. cx \in [Turns -> CodexTurn]
    BY <2>2 DEF TimelineInit
  <2>4. req \in [Requests -> [st : {"none", "pending", "accepted", "running", "completed", "failed"},
                              exec : MaybeTurn, plan : BOOLEAN]]
    BY DEF TimelineInit, MaybeTurn
  <2>5. stream \in [Turns -> [open : BOOLEAN, last : {Nil, "commentary", "final"}]]
    BY DEF TimelineInit
  <2> QED BY <2>3, <2>4, <2>5, EmptyPages DEF TimelineInit, TimelineTypes
<1>2. /\ \A x \in Turns : cx[x].st = "idle" /\ cx[x].q = Nil /\ cx[x].script = <<>> /\ Len(cx[x].script) = 0
      /\ \A x \in Turns : ~stream[x].open
      /\ Len(chanB) = 0 /\ Len(turns) = 0 /\ Len(page.turns) = 0
  BY DEF TimelineInit, NoPage
<1>3. \A x \in Turns : ~FinalPassed(x) /\ ~Begun(x)
  BY <1>2 DEF FinalPassed, Begun
<1>4. CodexOK
  BY <1>2, <1>3 DEF CodexOK
<1>5. StreamOK /\ RequestsOK
  BY <1>2 DEF StreamOK, RequestsOK, TimelineInit
<1>6. chanA \in Seq(GoodMessage) /\ chanB \in Seq(GoodEvent) /\ turns \in Seq(GoodTurn)
  <2>1. <<>> \in Seq(GoodMessage) /\ <<>> \in Seq(GoodEvent) /\ <<>> \in Seq(GoodTurn)
    OBVIOUS
  <2> QED BY <2>1 DEF TimelineInit
<1>7. PhasesOK /\ Apart(turns) /\ GoodPage /\ EndIsLast
  BY <1>2 DEF PhasesOK, Apart, GoodPage, EndIsLast, TimelineInit
<1>8. CommentaryStarts
  BY <1>2, <1>3 DEF CommentaryStarts
<1>9. HeardIsShown /\ ToldIsShown
  BY <1>3 DEF HeardIsShown, ToldIsShown, TimelineInit
<1> QED BY <1>1, <1>4, <1>5, <1>6, <1>7, <1>8, <1>9 DEF TimelineInv, TimelineInit
-----------------------------------------------------------------------------
(* Channel A.                                                              *)

\* The record a message adds says only what the message may say.  Only the report
\* that a turn failed withdraws the final answer of that turn.
LEMMA TurnOfEventFacts ==
  ASSUME TimelineTypes, CodexOK, NEW m \in GoodMessage
  PROVE  LET t == TurnOfEvent(m, m.exec) IN
         /\ t \in GoodTurn /\ t.exec = m.exec
         /\ t.asst = NoAnswer <=> m.type \notin {"completed", "failed"}
         /\ m.type = "completed" => /\ m.exec \in Turns /\ cx[m.exec].st = "completed"
                                    /\ FinalPassed(m.exec) => Brings(t, m.exec)
         /\ m.type = "failed" => (m.exec # Nil => Broken(m.exec))
         /\ \A x \in Turns :
              FinalPassed(x) /\ ~(m.type = "failed" /\ m.exec = x /\ cx[x].st = "failed") => Harmless(t, x)
<1>1. m \in Message /\ m.q \in Requests /\ m.exec \in MaybeTurn /\ m.q # Nil
  BY NilAssumption DEF GoodMessage, Message
<1>2. /\ m.exec # Nil => cx[m.exec].q = m.q /\ m.exec \in Turns
      /\ m.exec = Nil => m.type = "failed" /\ Dead(m.q)
  BY <1>1 DEF GoodMessage, MaybeTurn
<1>3. m.type = "completed" => /\ m.exec \in Turns /\ cx[m.exec].st = "completed"
                              /\ m.text \in {"commentary", "generic", "final"}
                              /\ m.text = "final" <=> FinalPassed(m.exec)
  BY <1>2 DEF GoodMessage
<1>4. m.type = "failed" => m.text = "error" /\ (m.exec # Nil => Broken(m.exec))
  BY <1>2 DEF GoodMessage
<1>5. PICK st : st = EventStatus(m.type)
  OBVIOUS
<1>6. PICK a : a = IF st = "running" THEN NoAnswer ELSE Answer(m.text, st)
  OBVIOUS
<1>7. PICK t : t = TurnOfEvent(m, m.exec)
  OBVIOUS
<1>8. /\ t.id = <<"outbound", m.q>> /\ t.client = m.q /\ t.exec = m.exec
      /\ t.asst = a /\ t.status = st
  BY <1>5, <1>6, <1>7 DEF TurnOfEvent, Turn
<1>9. /\ st \in {"running", "completed", "failed"}
      /\ st = "running" <=> m.type \notin {"completed", "failed"}
      /\ st # "running" => st = m.type
  BY <1>5 DEF EventStatus
<1>10. /\ a \in Answers
       /\ a = NoAnswer <=> st = "running"
       /\ st # "running" => a = Answer(m.text, st) /\ a.text = m.text /\ a.st = st
  <2>1. st # "running" => m.text \in Texts
    BY <1>3, <1>4, <1>9 DEF Texts
  <2> QED BY <1>6, <1>9, <2>1, NilAssumption DEF Answers, Answer, NoAnswer, Texts
<1>11. t \in TimelineTurn
  <2>1. <<"outbound", m.q>> \in Ids /\ m.q \in MaybeRequest
    BY <1>1 DEF Ids, MaybeRequest
  <2> QED BY <1>1, <1>5, <1>6, <1>7, <1>9, <1>10, <2>1 DEF TurnOfEvent, Turn, TimelineTurn
<1>12. t.asst.text = "final" => t.asst = FinalAnswer /\ m.exec # Nil /\ FinalPassed(m.exec)
  <2>1. SUFFICES ASSUME a.text = "final" PROVE a = FinalAnswer /\ m.exec # Nil /\ FinalPassed(m.exec)
    BY <1>8
  <2>2. st # "running"
    BY <1>10, <2>1, FinalAnswerFacts, NilAssumption
  <2>3. m.type = "completed" /\ st = "completed"
    BY <1>4, <1>9, <1>10, <2>1, <2>2
  <2> QED BY <1>3, <1>10, <2>1, <2>2, <2>3, NilAssumption DEF FinalAnswer
<1>13. t.asst.text = "commentary" => t.status # "running" /\ t.asst.st # "running"
  BY <1>8, <1>9, <1>10, FinalAnswerFacts, NilAssumption
<1>14. t \in GoodTurn
  BY <1>1, <1>2, <1>4, <1>8, <1>9, <1>11, <1>12, <1>13 DEF GoodTurn
<1>15. m.type = "completed" /\ FinalPassed(m.exec) => Brings(t, m.exec)
  BY <1>3, <1>8, <1>9, <1>10 DEF Brings, FinalAnswer
<1>16. ASSUME NEW x \in Turns, FinalPassed(x), ~(m.type = "failed" /\ m.exec = x /\ cx[x].st = "failed")
       PROVE  Harmless(t, x)
  <2>1. x # Nil
    BY NilAssumption
  <2>2. m.type = "failed" => m.exec # x
    BY <1>4, <1>16, <2>1, BrokenNeverFinal
  <2> QED BY <1>8, <1>9, <1>10, <1>15, <1>16, <2>2, NilAssumption DEF Harmless, Brings
<1> QED BY <1>3, <1>4, <1>7, <1>8, <1>9, <1>10, <1>14, <1>15, <1>16

LEMMA HandleTurnEventInv ==
  ASSUME TimelineInv, handle_codex_turn_event
  PROVE  TimelineInv' /\ \A y \in Turns : ShowsAnswer(turns, y) /\ ~FailureNext(y) => ShowsAnswer(turns', y)
<1>1. PICK m : m = Head(chanA)
  OBVIOUS
<1>2. PICK x : x = Or(m.exec, req[m.q].exec)
  OBVIOUS
<1>3. /\ chanA # <<>> /\ chanA' = Tail(chanA)
      /\ req' = [req EXCEPT ![m.q].st = EventStatus(m.type), ![m.q].exec = x]
      /\ turns' = upsert(turns, TurnOfEvent(m, x))
      /\ told' = IF m.type \in {"completed", "failed"} /\ x # Nil
                 THEN [told EXCEPT ![x] = TRUE] ELSE told
      /\ stale' = IF m.type \in {"completed", "failed"} THEN stale \ {x} ELSE stale
      /\ UNCHANGED <<starter, cx, stream, chanB, sub, phase, page, cmd, missed>>
  BY <1>1, <1>2 DEF handle_codex_turn_event
<1>4. /\ TimelineTypes /\ CodexOK /\ RequestsOK /\ StreamOK /\ HeardIsShown /\ ToldIsShown
      /\ chanA \in Seq(GoodMessage) /\ turns \in Seq(GoodTurn) /\ Apart(turns)
  BY DEF TimelineInv
<1>5. m \in GoodMessage /\ Tail(chanA) \in Seq(GoodMessage)
  BY <1>1, <1>3, <1>4, HeadTailProperties
<1>6. m.q \in Requests /\ m.exec \in MaybeTurn
  BY <1>5 DEF GoodMessage, Message
<1>7. x = m.exec /\ (x # Nil => x \in Turns /\ cx[x].q = m.q)
  <2>1. CASE m.exec # Nil
    BY <1>2, <1>5, <1>6, <2>1, OrFacts DEF GoodMessage, MaybeTurn
  <2>2. CASE m.exec = Nil
    <3>1. x = req[m.q].exec /\ Dead(m.q)
      BY <1>2, <1>5, <2>2, OrFacts DEF GoodMessage
    <3>2. x # Nil => cx[x].q = m.q /\ x \in Turns
      BY <1>4, <1>6, <3>1 DEF RequestsOK, TimelineTypes, MaybeTurn
    <3> QED BY <2>2, <3>1, <3>2 DEF Dead
  <2> QED BY <2>1, <2>2
<1>8. PICK t : t = TurnOfEvent(m, x)
  OBVIOUS
<1>9. /\ t \in GoodTurn /\ t.exec = x
      /\ m.type = "completed" => x \in Turns /\ cx[x].st = "completed" /\ (FinalPassed(x) => Brings(t, x))
      /\ m.type = "failed" => (x # Nil => Broken(x))
      /\ \A y \in Turns :
           FinalPassed(y) /\ ~(m.type = "failed" /\ x = y /\ cx[y].st = "failed") => Harmless(t, y)
  BY <1>4, <1>5, <1>7, <1>8, TurnOfEventFacts
<1>10. turns' \in Seq(GoodTurn) /\ Apart(turns')
  BY <1>3, <1>4, <1>8, <1>9, InsertGood
<1>11. \A y \in Turns :
         ShowsAnswer(turns, y) /\ (cx[y].st # "failed" \/ ~FailureNext(y)) => ShowsAnswer(turns', y)
  <2>1. ASSUME NEW y \in Turns, ShowsAnswer(turns, y), cx[y].st # "failed" \/ ~FailureNext(y)
        PROVE  ShowsAnswer(turns', y)
    <3>1. FinalPassed(y)
      BY <1>4, <2>1, ShownHasPassed
    <3>2. m.type = "failed" /\ x = y => FailureNext(y)
      BY <1>1, <1>2, <1>3 DEF FailureNext
    <3>3. Harmless(t, y)
      BY <1>9, <2>1, <3>1, <3>2
    <3> QED BY <1>3, <1>4, <1>8, <1>9, <2>1, <3>3, InsertKeeps
  <2> QED BY <2>1
<1>12. /\ m.type \in {"completed", "failed"} /\ x # Nil /\ FinalPassed(x) /\ cx[x].st # "failed"
       => ShowsAnswer(turns', x)
  <2>1. SUFFICES ASSUME m.type \in {"completed", "failed"}, x # Nil, FinalPassed(x), cx[x].st # "failed"
                 PROVE  ShowsAnswer(turns', x)
    OBVIOUS
  <2>2. x \in Turns
    BY <1>7, <2>1
  <2>3. m.type = "completed"
    BY <1>4, <1>9, <2>1, <2>2, BrokenNeverFinal
  <2> QED BY <1>3, <1>4, <1>8, <1>9, <2>1, <2>2, <2>3, InsertShows
<1>13. \A p \in Requests : Dead(p) => Dead(p)'
  BY <1>3 DEF Dead
<1>14. Grows /\ CodexOK' /\ \A y \in Turns : FinalPassed(y)' => FinalPassed(y)
  BY <1>3, <1>13, CalmGrows
<1>15. TimelineTypes'
  <2>1. req' \in [Requests -> [st : {"none", "pending", "accepted", "running", "completed", "failed"},
                               exec : MaybeTurn, plan : BOOLEAN]]
    <3>1. PICK R : R = [st : {"none", "pending", "accepted", "running", "completed", "failed"},
                        exec : MaybeTurn, plan : BOOLEAN]
      OBVIOUS
    <3>2. req \in [Requests -> R]
      BY <1>4, <3>1 DEF TimelineTypes
    <3>3. PICK r : r = [[req[m.q] EXCEPT !.st = EventStatus(m.type)] EXCEPT !.exec = x]
      OBVIOUS
    <3>4. r \in R
      <4>1. EventStatus(m.type) \in {"running", "completed", "failed"}
        BY DEF EventStatus
      <4>2. req[m.q] \in R /\ x \in MaybeTurn
        BY <1>6, <1>7, <3>2
      <4> QED BY <3>1, <3>3, <4>1, <4>2
    <3>5. req' = [req EXCEPT ![m.q] = r]
      BY <1>3, <1>6, <3>2, <3>3
    <3> QED BY <3>1, <3>2, <3>4, <3>5
  <2>2. told' \in [Turns -> BOOLEAN] /\ stale' \subseteq Turns
    BY <1>3, <1>4, <1>7 DEF TimelineTypes
  <2> QED BY <1>3, <1>4, <2>1, <2>2 DEF TimelineTypes
<1>16. RequestsOK'
  <2>1. \A p \in Requests : p # m.q => req'[p] = req[p]
    BY <1>3, <1>4 DEF TimelineTypes
  <2>2. req'[m.q].exec = x
    BY <1>3, <1>4, <1>6 DEF TimelineTypes
  <2>3. \A p \in Requests : req'[p].exec # Nil => cx[req'[p].exec].q = p
    BY <1>4, <1>7, <2>1, <2>2 DEF RequestsOK
  <2> QED BY <1>3, <1>4, <2>3 DEF RequestsOK
<1>17. StreamOK'
  BY <1>3, <1>4 DEF StreamOK, FinalPassed
<1>18. turns' \in Seq(GoodTurn') /\ chanA' \in Seq(GoodMessage')
  BY <1>3, <1>4, <1>5, <1>10, <1>14, EntriesStay, MessagesStay, SeqMonotonic
<1>19. HeardIsShown'
  <2>1. ASSUME NEW y \in Turns, y \notin missed, y \notin stale', FinalPassed(y), cx[y].st # "failed",
               ~FinalComes(y)
        PROVE  ShowsAnswer(turns', y)
    <3>1. CASE y \notin stale
      BY <1>4, <1>11, <2>1, <3>1 DEF HeardIsShown
    <3>2. CASE y \in stale
      <4>1. y = x /\ m.type \in {"completed", "failed"}
        BY <1>3, <2>1, <3>2
      <4>2. x # Nil
        BY <4>1, NilAssumption
      <4> QED BY <1>12, <2>1, <4>1, <4>2
    <3> QED BY <3>1, <3>2
  <2> QED BY <1>3, <1>14, <2>1 DEF HeardIsShown, FinalComes
<1>20. ToldIsShown'
  <2>1. ASSUME NEW y \in Turns, told'[y]
        PROVE  cx[y].st = "completed" \/ Broken(y)
    <3>1. CASE told[y]
      BY <1>4, <3>1 DEF ToldIsShown
    <3>2. CASE ~told[y]
      <4>1. y = x /\ x # Nil /\ m.type \in {"completed", "failed"}
        BY <1>3, <1>4, <2>1, <3>2 DEF TimelineTypes
      <4> QED BY <1>9, <4>1
    <3> QED BY <3>1, <3>2
  <2>2. ASSUME NEW y \in Turns, told'[y], y \notin stale', FinalPassed(y), cx[y].st # "failed"
        PROVE  ShowsAnswer(turns', y)
    <3>1. CASE told[y] /\ y \notin stale
      BY <1>4, <1>11, <2>2, <3>1 DEF ToldIsShown
    <3>2. CASE ~told[y] \/ y \in stale
      <4>1. y = x /\ m.type \in {"completed", "failed"}
        BY <1>3, <1>4, <2>2, <3>2 DEF TimelineTypes
      <4>2. x # Nil
        BY <4>1, NilAssumption
      <4> QED BY <1>12, <2>2, <4>1, <4>2
    <3> QED BY <3>1, <3>2
  <2>3. \A y \in Turns : Broken(y)' <=> Broken(y)
    BY <1>3 DEF Broken
  <2> QED BY <1>3, <1>14, <2>1, <2>2, <2>3 DEF ToldIsShown
<1> QED BY <1>3, <1>10, <1>11, <1>14, <1>15, <1>16, <1>17, <1>18, <1>19, <1>20, Untouched DEF TimelineInv

-----------------------------------------------------------------------------
(* Pages.                                                                  *)

\* Turns begin in order: those that have begun are the first ones.
LEMMA BegunAreFirst ==
  ASSUME CodexOK
  PROVE  LET B == {y \in Turns : cx[y].st # "idle"} IN
         Cardinality(B) \in Nat /\ B = 1..Cardinality(B)
<1>1. PICK B : B = {y \in Turns : cx[y].st # "idle"}
  OBVIOUS
<1>2. PICK T : T = {k \in Nat : k + 1 \notin B}
  OBVIOUS
<1>3. MaxTurns \in Nat /\ B \subseteq 1..MaxTurns
  BY <1>1, ScriptsAssumption DEF Turns
<1>4. MaxTurns \in T
  BY <1>2, <1>3
<1>5. T \in SUBSET Nat
  BY <1>2
<1>6. PICK m \in T : \A k \in T : m <= k
  BY <1>4, <1>5, Least
<1>7. m \in Nat /\ m + 1 \notin B
  BY <1>2, <1>6
<1>8. ASSUME NEW y \in 1..m PROVE y \in B
  <2>1. y - 1 \in Nat /\ y - 1 < m
    BY <1>7
  <2>2. y - 1 \notin T
    BY <1>6, <1>7, <2>1
  <2> QED BY <1>2, <2>1, <2>2
<1>9. ASSUME NEW y \in B PROVE y \in 1..m
  <2>1. SUFFICES ASSUME y > m PROVE FALSE
    BY <1>3, <1>7
  <2>2. y \in 1..MaxTurns /\ y # m + 1
    BY <1>3, <1>7
  <2>3. m + 1 < y /\ m + 1 \in Turns
    BY <1>3, <1>7, <2>1, <2>2 DEF Turns
  <2>4. Begun(y) /\ y \in Turns
    BY <1>1 DEF Begun
  <2>5. Begun(m + 1)
    BY <2>3, <2>4 DEF CodexOK
  <2> QED BY <1>1, <1>7, <2>3, <2>5 DEF Begun
<1>10. B = 1..m
  BY <1>8, <1>9
<1>11. Cardinality(1..m) = m
  BY <1>7, FS_Interval
<1> QED BY <1>1, <1>7, <1>10, <1>11

\* After the final answer nothing but plans and user messages comes.
LEMMA AfterFinal ==
  ASSUME TimelineTypes, CodexOK, NEW x \in Turns, FinalPassed(x), ~Over(x)
  PROVE  Kind(x) \in {"user", "plan"}
<1>1. PICK i \in 1..Len(cx[x].script) : i < cx[x].pos /\ cx[x].script[i] = "final"
  BY DEF FinalPassed
<1>2. cx[x].script \in Scripts[x] /\ cx[x].script \in Seq(Kinds) /\ cx[x].pos \in Nat \ {0}
      /\ Len(cx[x].script) \in Nat
  BY <1>1, TurnsOfCodex DEF CodexOK
<1>3. cx[x].pos \in DOMAIN cx[x].script /\ i \in DOMAIN cx[x].script
  BY <1>1, <1>2 DEF Over
<1> QED BY <1>1, <1>2, <1>3, ScriptsAssumption DEF Kind

\* What history shows of a turn that has begun.
LEMMA HistoryOfFacts ==
  ASSUME TimelineTypes, CodexOK, NEW x \in Turns, Begun(x)
  PROVE  LET h == HistoryOf(x) IN
         /\ h \in HistoryRecord /\ h.x = x
         /\ h.status # "running" => cx[x].st = h.status /\ (FinalPassed(x) => h.asst = FinalAnswer)
         /\ h.asst = FinalAnswer => FinalPassed(x)
         /\ \A y \in Turns, i \in Nat, k \in Kinds :
              <<y, i, k>> \in h.phases => i \in 1..Len(cx[y].script) /\ cx[y].script[i] = k
<1>1. /\ cx[x] \in CodexTurn /\ cx[x].script \in Seq(Kinds) /\ Len(cx[x].script) \in Nat
      /\ cx[x].pos \in Nat /\ cx[x].st \in {"running", "waiting", "completed", "failed"}
      /\ cx[x].st = "completed" => cx[x].pos > Len(cx[x].script)
  BY TurnsOfCodex DEF Begun, CodexTurn, CodexOK, Over
<1>2. ASSUME NEW kind
      PROVE  Shown(x, kind) = {i \in 1..Len(cx[x].script) :
               (i < cx[x].pos \/ (i = cx[x].pos /\ cx[x].stage > 1)) /\ cx[x].script[i] = kind}
  BY DEF Shown, Seen
<1>3. PICK F : F = Shown(x, "final")
  OBVIOUS
<1>4. PICK M : M = Shown(x, "commentary") \cup Shown(x, "final")
  OBVIOUS
<1>5. F \subseteq 1..Len(cx[x].script) /\ M \subseteq 1..Len(cx[x].script)
  BY <1>2, <1>3, <1>4
<1>6. PICK a : a = IF F = {} THEN NoAnswer
                   ELSE Answer(IF cx[x].pos \in F THEN "partial" ELSE "final", "completed")
  OBVIOUS
<1>7. PICK ph : ph = {<<x, i, cx[x].script[i]>> : i \in M}
  OBVIOUS
<1>8. PICK h : h = HistoryOf(x)
  OBVIOUS
<1>9. /\ h = [x |-> x, user |-> Shown(x, "user") # {}, asst |-> a, plan |-> Shown(x, "plan") # {},
              agent |-> M # {}, status |-> IF cx[x].st = "waiting" THEN "running" ELSE cx[x].st,
              phases |-> ph]
  BY <1>3, <1>4, <1>6, <1>7, <1>8 DEF HistoryOf
<1>10. /\ a \in {NoAnswer, Answer("partial", "completed"), FinalAnswer}
       /\ a = FinalAnswer <=> F # {} /\ cx[x].pos \notin F
  BY <1>6, FinalAnswerFacts DEF FinalAnswer, Answer
<1>11. ph \subseteq Turns \X Nat \X Kinds
  <2>1. ASSUME NEW i \in M PROVE <<x, i, cx[x].script[i]>> \in Turns \X Nat \X Kinds
    <3>1. i \in 1..Len(cx[x].script) /\ i \in Nat
      BY <1>1, <1>5
    <3>2. cx[x].script[i] \in Kinds
      BY <1>1, <3>1
    <3> QED BY <3>1, <3>2
  <2> QED BY <1>7, <2>1
<1>12. h \in HistoryRecord
  BY <1>1, <1>9, <1>10, <1>11 DEF HistoryRecord
<1>13. F # {} /\ cx[x].pos \notin F => FinalPassed(x)
  BY <1>2, <1>3 DEF FinalPassed
<1>14. FinalPassed(x) => F # {}
  BY <1>2, <1>3 DEF FinalPassed
<1>15. h.status # "running" => cx[x].st = h.status
  BY <1>1, <1>9
<1>16. FinalPassed(x) => cx[x].pos \notin F
  <2>1. SUFFICES ASSUME FinalPassed(x), cx[x].pos \in F PROVE FALSE
    OBVIOUS
  <2>2. cx[x].script[cx[x].pos] = "final" /\ cx[x].pos \in 1..Len(cx[x].script)
    BY <1>2, <1>3, <2>1
  <2>3. ~Over(x) /\ Kind(x) = "final"
    BY <1>1, <2>2 DEF Over, Kind
  <2> QED BY <2>1, <2>3, AfterFinal
<1>17. ASSUME NEW y \in Turns, NEW i \in Nat, NEW k \in Kinds, <<y, i, k>> \in ph
       PROVE  i \in 1..Len(cx[y].script) /\ cx[y].script[i] = k
  BY <1>5, <1>7, <1>17
<1> QED BY <1>8, <1>9, <1>10, <1>12, <1>13, <1>14, <1>15, <1>16, <1>17

LEMMA PageReadInv ==
  ASSUME TimelineInv, PageRead
  PROVE  TimelineInv'
<1>1. /\ page' = [at |-> "read", turns |-> History]
      /\ UNCHANGED <<req, starter, cx, stream, chanA, chanB, sub, phase, turns, cmd, missed, told, stale>>
  BY DEF PageRead
<1>2. TimelineTypes /\ RequestsOK /\ StreamOK /\ CodexOK
  BY DEF TimelineInv
<1>3. PICK n : n = Cardinality({y \in Turns : cx[y].st # "idle"})
  OBVIOUS
<1>4. n \in Nat /\ \A x \in 1..n : x \in Turns /\ Begun(x)
  BY <1>2, <1>3, BegunAreFirst DEF Begun
<1>5. PICK H : H = History
  OBVIOUS
<1>6. H = [x \in 1..n |-> HistoryOf(x)]
  BY <1>3, <1>5 DEF History
<1>7. H \in Seq(HistoryRecord) /\ Len(H) = n /\ \A x \in 1..n : H[x] = HistoryOf(x)
  <2>1. \A x \in 1..n : HistoryOf(x) \in HistoryRecord
    BY <1>2, <1>4, HistoryOfFacts
  <2> QED BY <1>4, <1>6, <2>1
<1>8. TimelineTypes'
  <2>1. PICK S : S = Seq(HistoryRecord)
    OBVIOUS
  <2>2. [at |-> "read", turns |-> H] \in [at : {"none", "asked", "read"}, turns : S]
    BY <1>7, <2>1
  <2>3. page' \in [at : {"none", "asked", "read"}, turns : Seq(HistoryRecord)]
    BY <1>1, <1>5, <2>1, <2>2
  <2> QED BY <1>1, <1>2, <2>3 DEF TimelineTypes
<1>9. \A p \in Requests : Dead(p) => Dead(p)'
  BY <1>1 DEF Dead
<1>10. Grows /\ CodexOK' /\ \A y \in Turns : FinalPassed(y)' => FinalPassed(y)
  BY <1>1, <1>9, CalmGrows
<1>11. RequestsOK'
  BY <1>1, <1>2 DEF RequestsOK
<1>12. StreamOK'
  BY <1>1, <1>2 DEF StreamOK, FinalPassed
<1>13. GoodPage'
  <2>1. page'.turns = H
    BY <1>1, <1>5
  <2>2. ASSUME NEW x \in 1..Len(H)
        PROVE  LET h == H[x] IN
               /\ h.x = x /\ Begun(x)
               /\ h.status # "running" => cx[x].st = h.status /\ (FinalPassed(x) => h.asst = FinalAnswer)
               /\ h.asst = FinalAnswer => FinalPassed(x)
               /\ \A y \in Turns, i \in Nat, k \in Kinds :
                    <<y, i, k>> \in h.phases => i \in 1..Len(cx[y].script) /\ cx[y].script[i] = k
    <3>1. x \in Turns /\ Begun(x) /\ H[x] = HistoryOf(x)
      BY <1>4, <1>7
    <3> QED BY <1>2, <3>1, HistoryOfFacts
  <2>3. \A x : (FinalPassed(x)' <=> FinalPassed(x)) /\ (Begun(x)' <=> Begun(x))
    BY <1>1 DEF FinalPassed, Begun
  <2> QED BY <1>1, <2>1, <2>2, <2>3 DEF GoodPage
<1>14. Apart(turns)'
  BY <1>1 DEF TimelineInv, Apart
<1>15. (~sub => chanB = <<>>)'
  BY <1>1 DEF TimelineInv
<1> QED BY <1>1, <1>8, <1>10, <1>11, <1>12, <1>13, <1>14, <1>15, Untouched DEF TimelineInv

LEMMA PageArrivesInv ==
  ASSUME TimelineInv, PageArrives
  PROVE  TimelineInv'
<1>1. /\ page.at = "read" /\ page' = NoPage
      /\ phase' = phase \cup UNION {page.turns[i].phases : i \in DOMAIN page.turns}
      /\ turns' = Merged(turns, _timeline_turns_from_codex_thread(page.turns))
      /\ told' = [x \in Turns |-> told[x] \/ (x \in DOMAIN page.turns /\ ~Overtakes(x))]
      /\ stale' = {x \in Turns : Overtakes(x) \/ (x \in stale /\ x \notin DOMAIN page.turns)}
      /\ UNCHANGED <<req, starter, cx, stream, chanA, chanB, sub, cmd, missed>>
  BY DEF PageArrives
<1>2. /\ TimelineTypes /\ CodexOK /\ RequestsOK /\ StreamOK /\ GoodPage /\ PhasesOK /\ HeardIsShown /\ ToldIsShown
      /\ turns \in Seq(GoodTurn) /\ Apart(turns)
  BY DEF TimelineInv
<1>3. page.turns \in Seq(HistoryRecord) /\ DOMAIN page.turns = 1..Len(page.turns)
  BY <1>2 DEF TimelineTypes
<1>4. /\ turns' \in Seq(GoodTurn) /\ Apart(turns')
      /\ \A x \in Turns :
           /\ FinalPassed(x) /\ ~Overtakes(x)
           /\ ShowsAnswer(turns, x) \/ (cx[x].st # "failed" /\ x \in DOMAIN page.turns)
           => ShowsAnswer(turns', x)
  BY <1>1, <1>2, PageMerge
<1>5. \A p \in Requests : Dead(p) => Dead(p)'
  BY <1>1 DEF Dead
<1>6. Grows /\ CodexOK' /\ \A y \in Turns : FinalPassed(y)' => FinalPassed(y)
  BY <1>1, <1>5, CalmGrows
<1>7. \A i \in DOMAIN page.turns : page.turns[i].phases \subseteq Turns \X Nat \X Kinds
  <2>1. \A i \in DOMAIN page.turns : page.turns[i] \in HistoryRecord
    BY <1>3
  <2>2. \A h \in HistoryRecord : h.phases \subseteq Turns \X Nat \X Kinds
    BY DEF HistoryRecord
  <2> QED BY <2>1, <2>2
<1>8. TimelineTypes'
  <2>1. phase' \subseteq Turns \X Nat \X Kinds
    BY <1>1, <1>2, <1>7 DEF TimelineTypes
  <2>2. told' \in [Turns -> BOOLEAN] /\ stale' \subseteq Turns
    <3>1. \A x \in Turns : (told[x] \/ (x \in DOMAIN page.turns /\ ~Overtakes(x))) \in BOOLEAN
      OBVIOUS
    <3> QED BY <1>1, <3>1
  <2>3. page' \in [at : {"none", "asked", "read"}, turns : Seq(HistoryRecord)]
    BY <1>1, EmptyPages
  <2> QED BY <1>1, <1>2, <2>1, <2>2, <2>3 DEF TimelineTypes
<1>9. RequestsOK'
  BY <1>1, <1>2 DEF RequestsOK
<1>10. StreamOK'
  BY <1>1, <1>2 DEF StreamOK, FinalPassed
<1>11. PhasesOK'
  <2>1. ASSUME NEW x \in Turns, NEW i \in Nat, NEW k \in Kinds, <<x, i, k>> \in phase'
        PROVE  i \in 1..Len(cx[x].script) /\ cx[x].script[i] = k
    <3>1. CASE <<x, i, k>> \in phase
      BY <1>2, <3>1 DEF PhasesOK
    <3>2. CASE <<x, i, k>> \notin phase
      <4>1. PICK j \in DOMAIN page.turns : <<x, i, k>> \in page.turns[j].phases
        BY <1>1, <2>1, <3>2
      <4> QED BY <1>2, <1>3, <4>1 DEF GoodPage
    <3> QED BY <3>1, <3>2
  <2> QED BY <1>1, <2>1 DEF PhasesOK
<1>12. GoodPage'
  <2>1. Len(page'.turns) = 0
    BY <1>1 DEF NoPage
  <2> QED BY <2>1 DEF GoodPage
<1>13. turns' \in Seq(GoodTurn')
  BY <1>2, <1>4, <1>6, EntriesStay, SeqMonotonic
<1>14. HeardIsShown'
  <2>1. ASSUME NEW x \in Turns, x \notin missed, x \notin stale', FinalPassed(x), cx[x].st # "failed",
               ~FinalComes(x)
        PROVE  ShowsAnswer(turns', x)
    <3>1. ~Overtakes(x) /\ (x \in stale => x \in DOMAIN page.turns)
      BY <1>1, <2>1
    <3> QED BY <1>2, <1>4, <2>1, <3>1 DEF HeardIsShown
  <2> QED BY <1>1, <1>6, <2>1 DEF HeardIsShown, FinalComes
<1>15. ToldIsShown'
  <2>1. ASSUME NEW x \in Turns, told'[x]
        PROVE  cx[x].st = "completed" \/ Broken(x)
    <3>1. CASE told[x]
      BY <1>2, <3>1 DEF ToldIsShown
    <3>2. CASE ~told[x]
      <4>1. x \in 1..Len(page.turns) /\ ~Overtakes(x)
        BY <1>1, <1>3, <2>1, <3>2
      <4>2. page.turns[x].status # "running" /\ page.turns[x] \in HistoryRecord
        BY <1>1, <1>3, <4>1 DEF Overtakes
      <4>3. page.turns[x].status \in {"completed", "failed"}
        BY <4>2 DEF HistoryRecord
      <4> QED BY <1>2, <4>1, <4>3 DEF GoodPage, Broken
    <3> QED BY <3>1, <3>2
  <2>2. ASSUME NEW x \in Turns, told'[x], x \notin stale', FinalPassed(x), cx[x].st # "failed"
        PROVE  ShowsAnswer(turns', x)
    <3>1. ~Overtakes(x) /\ (x \in stale => x \in DOMAIN page.turns)
      BY <1>1, <2>2
    <3>2. told[x] \/ x \in DOMAIN page.turns
      BY <1>1, <2>2
    <3> QED BY <1>2, <1>4, <2>2, <3>1, <3>2 DEF ToldIsShown
  <2>3. \A x \in Turns : Broken(x)' <=> Broken(x)
    BY <1>1 DEF Broken
  <2> QED BY <1>1, <1>6, <2>1, <2>2, <2>3 DEF ToldIsShown
<1>16. CommentaryStarts'
  BY <1>1, <1>6, Untouched
<1>17. (~sub => chanB = <<>>)'
  BY <1>1 DEF TimelineInv
<1> QED BY <1>1, <1>4, <1>6, <1>8, <1>9, <1>10, <1>11, <1>12, <1>13, <1>14, <1>15, <1>16, <1>17, Untouched DEF TimelineInv
-----------------------------------------------------------------------------
(* A turn goes on: AppStep.                                                *)

\* The three ways a turn goes on: it ends, with the event that says so; it
\* announces more of the item it is at; or the last of it, and goes to the
\* next item.
Ends(x, st, c, d, e) ==
  /\ Over(x) \/ st = "failed"
  /\ e.x = x /\ e.i = 0 /\ e.kind = "turn" /\ e.ev = "end"
  /\ d.pos = c.pos /\ d.stage = c.stage /\ d.st = st

Announces(x, c, e) ==
  /\ ~Over(x) /\ c.pos \in 1..Len(c.script) /\ Kind(x) \in Kinds
  /\ c.stage \in 1..Len(Stages(Kind(x)))
  /\ e = [x |-> x, i |-> c.pos, kind |-> Kind(x), ev |-> Stages(Kind(x))[c.stage]]

GoesOn(x, c, d) ==
  c.stage < Len(Stages(Kind(x))) /\ d.pos = c.pos /\ d.stage = c.stage + 1 /\ d.st = "running"

GoesToNext(x, c, d) ==
  /\ c.stage = Len(Stages(Kind(x))) /\ d.pos = c.pos + 1 /\ d.stage = 1
  /\ d.st = IF Kind(x) = "blocked" THEN "waiting" ELSE "running"

LEMMA AdvanceCases ==
  ASSUME TimelineTypes, CodexOK, NEW x \in Turns, NEW st \in {"completed", "failed"},
         cx[x].st = "running"
  PROVE  LET c == cx[x]
             d == Advance(cx[x], st)
             e == Event(x, st)
         IN  /\ d \in CodexTurn /\ d.q = c.q /\ d.script = c.script
             /\ \/ Ends(x, st, c, d, e)
                \/ Announces(x, c, e) /\ (GoesOn(x, c, d) \/ GoesToNext(x, c, d))
<1>1. PICK c : c = cx[x]
  OBVIOUS
<1>2. PICK d : d = Advance(cx[x], st)
  OBVIOUS
<1>3. PICK e : e = Event(x, st)
  OBVIOUS
<1>4. /\ c \in CodexTurn /\ c.script \in Seq(Kinds) /\ Len(c.script) \in Nat /\ c.pos \in Nat \ {0}
      /\ c.stage \in Nat \ {0} /\ c.st = "running"
      /\ c.pos <= Len(c.script) => c.stage <= Len(Stages(Kind(x)))
  BY <1>1, TurnsOfCodex DEF CodexOK, Begun, CodexTurn
<1>5. /\ Over(x) <=> c.pos > Len(c.script)
      /\ Kind(x) = c.script[c.pos]
  BY <1>1 DEF Over, Kind
<1>6. CASE Over(x) \/ st = "failed"
  <2>1. d = [c EXCEPT !.st = st]
    BY <1>1, <1>2, <1>5, <1>6 DEF Advance
  <2>2. e = [x |-> x, i |-> 0, kind |-> "turn", ev |-> "end"]
    BY <1>3, <1>6 DEF Event
  <2>3. d \in CodexTurn /\ d.q = c.q /\ d.script = c.script /\ d.pos = c.pos /\ d.stage = c.stage /\ d.st = st
    BY <1>4, <2>1 DEF CodexTurn
  <2>4. Ends(x, st, c, d, e)
    BY <1>6, <2>2, <2>3 DEF Ends
  <2> QED BY <1>1, <1>2, <1>3, <2>3, <2>4
<1>7. CASE ~Over(x) /\ st # "failed"
  <2>1. c.pos \in 1..Len(c.script) /\ Kind(x) \in Kinds
    BY <1>4, <1>5, <1>7
  <2>2. Len(Stages(Kind(x))) \in Nat \ {0}
    BY <2>1, StagesFacts
  <2>3. c.stage \in 1..Len(Stages(Kind(x)))
    BY <1>4, <2>1, <2>2
  <2>4. Announces(x, c, e)
    BY <1>1, <1>3, <1>7, <2>1, <2>3 DEF Event, Announces
  <2>5. CASE c.stage < Len(Stages(Kind(x)))
    <3>1. d = [c EXCEPT !.stage = @ + 1]
      BY <1>1, <1>2, <1>5, <1>7, <2>5 DEF Advance
    <3>2. d \in CodexTurn /\ d.q = c.q /\ d.script = c.script /\ GoesOn(x, c, d)
      BY <1>4, <2>5, <3>1 DEF CodexTurn, GoesOn
    <3> QED BY <1>1, <1>2, <1>3, <2>4, <3>2
  <2>6. CASE c.stage = Len(Stages(Kind(x)))
    <3>1. PICK w : w = IF Kind(x) = "blocked" THEN "waiting" ELSE "running"
      OBVIOUS
    <3>2. ~(c.stage < Len(Stages(Kind(x))))
      BY <2>2, <2>6
    <3>3. d = [c EXCEPT !.pos = @ + 1, !.stage = 1,
                        !.st = IF c.script[c.pos] = "blocked" THEN "waiting" ELSE @]
      BY <1>1, <1>2, <1>5, <1>7, <3>2 DEF Advance
    <3>4. d = [q |-> c.q, script |-> c.script, pos |-> c.pos + 1, stage |-> 1, st |-> w]
      BY <1>4, <1>5, <3>1, <3>3 DEF CodexTurn
    <3>5. d \in CodexTurn /\ d.q = c.q /\ d.script = c.script
      BY <1>4, <3>1, <3>4 DEF CodexTurn
    <3>6. GoesToNext(x, c, d)
      BY <2>6, <3>1, <3>4 DEF GoesToNext
    <3> QED BY <1>1, <1>2, <1>3, <2>4, <3>5, <3>6
  <2> QED BY <2>2, <2>3, <2>5, <2>6
<1> QED BY <1>6, <1>7

\* What the step does to the turn, and the event that tells.
LEMMA AppStepGrows ==
  ASSUME TimelineInv, NEW x \in Turns, NEW st \in {"completed", "failed"}, AppStep(x, st)
  PROVE  LET e == Event(x, st) IN
         /\ Grows /\ CodexOK' /\ cx' \in [Turns -> CodexTurn]
         /\ cx[x].st = "running" /\ cx'[x] = Advance(cx[x], st)
         /\ \A y \in Turns : cx'[y].q = cx[y].q /\ (y # x => cx'[y] = cx[y])
         /\ \A y \in Turns : y # x => (FinalPassed(y)' <=> FinalPassed(y))
         /\ FinalPassed(x)' <=> FinalPassed(x) \/ (e.kind = "final" /\ e.ev = "done")
         /\ e.x = x /\ (e.kind # "blocked" => e \in GoodEvent')
         /\ e.kind # "turn" => cx'[x].st \in {"running", "waiting"}
         /\ e.kind = "turn" => cx'[x].st = st
<1>1. PICK c : c = cx[x]
  OBVIOUS
<1>2. PICK d : d = Advance(cx[x], st)
  OBVIOUS
<1>3. PICK e : e = Event(x, st)
  OBVIOUS
<1>4. /\ cx[x].st = "running"
      /\ cx' = [cx EXCEPT ![x] = Advance(@, st)]
      /\ missed' = missed \/ missed' = missed \cup {x}
      /\ UNCHANGED <<req, starter, cmd>>
      /\ IF stream[x].open
         THEN stream' = [stream EXCEPT ![x] = StreamAfter(Event(x, st), @)]
         ELSE stream' = stream
  BY DEF AppStep
<1>5. TimelineTypes /\ CodexOK
  BY DEF TimelineInv
<1>6. /\ d \in CodexTurn /\ d.q = c.q /\ d.script = c.script
      /\ \/ Ends(x, st, c, d, e)
         \/ Announces(x, c, e) /\ (GoesOn(x, c, d) \/ GoesToNext(x, c, d))
  BY <1>1, <1>2, <1>3, <1>4, <1>5, AdvanceCases
<1>7. cx' = [cx EXCEPT ![x] = d]
  BY <1>2, <1>4
<1>8. /\ cx' \in [Turns -> CodexTurn] /\ cx'[x] = d
      /\ \A y \in Turns : y # x => cx'[y] = cx[y]
  BY <1>5, <1>6, <1>7 DEF TimelineTypes
<1>9. \A y \in Turns : cx'[y].q = cx[y].q /\ cx'[y].script = cx[y].script
  BY <1>1, <1>6, <1>8
<1>10. /\ c \in CodexTurn /\ c.script \in Seq(Kinds) /\ Len(c.script) \in Nat /\ c.pos \in Nat \ {0}
       /\ c.script \in Scripts[x] /\ c.pos <= Len(c.script) + 1 /\ Begun(x)
  BY <1>1, <1>4, <1>5, TurnsOfCodex DEF CodexOK, Begun
<1>11. /\ e.x = x
       /\ e.kind = "turn" => Ends(x, st, c, d, e)
       /\ e.kind # "turn" => Announces(x, c, e) /\ (GoesOn(x, c, d) \/ GoesToNext(x, c, d))
  BY <1>6 DEF Ends, Announces, Kinds
<1>12. e.kind # "turn" => /\ e.kind = Kind(x) /\ e.i = c.pos /\ e.ev = Stages(Kind(x))[c.stage]
                          /\ Kind(x) = c.script[c.pos]
  BY <1>1, <1>11 DEF Announces, Kind
<1>13. d.st \in {"running", "waiting", "completed", "failed"} /\ d.pos \in {c.pos, c.pos + 1}
  BY <1>6 DEF Ends, GoesOn, GoesToNext
<1>14. d.pos = c.pos + 1 => Announces(x, c, e) /\ GoesToNext(x, c, d)
  BY <1>6, <1>10 DEF Ends, GoesOn
<1>15. FinalPassed(x)' <=> FinalPassed(x) \/ (e.kind = "final" /\ e.ev = "done")
  <2>1. FinalPassed(x)' <=> \E i \in 1..Len(c.script) : i < d.pos /\ c.script[i] = "final"
    BY <1>6, <1>8 DEF FinalPassed
  <2>2. FinalPassed(x) <=> \E i \in 1..Len(c.script) : i < c.pos /\ c.script[i] = "final"
    BY <1>1 DEF FinalPassed
  <2>3. ASSUME Announces(x, c, e), GoesOn(x, c, d)
        PROVE  ~(e.kind = "final" /\ e.ev = "done") /\ d.pos = c.pos
    <3>1. e.kind = Kind(x) /\ e.ev = Stages(Kind(x))[c.stage] /\ c.stage \in 1..Len(Stages(Kind(x)))
      BY <2>3 DEF Announces
    <3>2. Kind(x) = "final" => (Stages(Kind(x))[c.stage] = "done" <=> c.stage = Len(Stages(Kind(x))))
      BY <2>3, <3>1, StagesFacts DEF Announces
    <3>3. c.stage # Len(Stages(Kind(x))) /\ d.pos = c.pos
      BY <2>3, <3>1 DEF GoesOn
    <3> QED BY <3>1, <3>2, <3>3
  <2>4. ASSUME Announces(x, c, e), GoesToNext(x, c, d)
        PROVE  /\ (e.kind = "final" /\ e.ev = "done") <=> c.script[c.pos] = "final"
               /\ d.pos = c.pos + 1 /\ c.pos \in 1..Len(c.script)
    <3>1. e.kind = Kind(x) /\ e.ev = Stages(Kind(x))[c.stage] /\ c.stage \in 1..Len(Stages(Kind(x)))
      BY <2>4 DEF Announces
    <3>2. Kind(x) = "final" => (Stages(Kind(x))[c.stage] = "done" <=> c.stage = Len(Stages(Kind(x))))
      BY <2>4, <3>1, StagesFacts DEF Announces
    <3>3. c.stage = Len(Stages(Kind(x))) /\ d.pos = c.pos + 1
      BY <2>4 DEF GoesToNext
    <3>4. Kind(x) = c.script[c.pos]
      BY <1>1 DEF Kind
    <3>5. c.pos \in 1..Len(c.script)
      BY <2>4 DEF Announces
    <3> QED BY <3>1, <3>2, <3>3, <3>4, <3>5
  <2>5. CASE Ends(x, st, c, d, e)
    <3>1. d.pos = c.pos /\ e.kind = "turn"
      BY <2>5 DEF Ends
    <3> QED BY <2>1, <2>2, <3>1
  <2>6. CASE Announces(x, c, e) /\ GoesOn(x, c, d)
    BY <2>1, <2>2, <2>3, <2>6
  <2>7. CASE Announces(x, c, e) /\ GoesToNext(x, c, d)
    <3>1. \A i \in 1..Len(c.script) : i < c.pos + 1 <=> i < c.pos \/ i = c.pos
      BY <1>10
    <3> QED BY <2>1, <2>2, <2>4, <2>7, <3>1
  <2> QED BY <1>6, <2>5, <2>6, <2>7
<1>16. \A y \in Turns : y # x => (FinalPassed(y)' <=> FinalPassed(y)) /\ (Begun(y)' <=> Begun(y))
                                  /\ (Over(y)' <=> Over(y)) /\ Kind(y)' = Kind(y)
  BY <1>8 DEF FinalPassed, Begun, Over, Kind
<1>17. Begun(x)' /\ ~Broken(x)
  BY <1>4, <1>8, <1>13 DEF Begun, Broken
<1>18. \A y \in Turns : y # x => (Broken(y) => Broken(y)')
  <2>1. \A y \in Turns : y # x => stream'[y] = stream[y]
    BY <1>4, <1>5 DEF TimelineTypes
  <2> QED BY <1>8, <2>1 DEF Broken
<1>19. Grows
  <2>1. ASSUME NEW y \in Turns
        PROVE  /\ Begun(y) => Begun(y)' /\ cx'[y].q = cx[y].q /\ cx'[y].script = cx[y].script
               /\ FinalPassed(y) => FinalPassed(y)'
               /\ Broken(y) => Broken(y)'
               /\ cx[y].st \in {"completed", "failed"} => cx'[y] = cx[y]
    BY <1>4, <1>8, <1>9, <1>15, <1>16, <1>17, <1>18
  <2>2. \A q \in Requests : Dead(q) => Dead(q)'
    BY <1>4, <1>9 DEF Dead
  <2> QED BY <1>4, <2>1, <2>2 DEF Grows
<1>20. CodexOK'
  <2>1. ASSUME NEW y \in Turns, y # x
        PROVE  /\ ~Begun(y)' => cx'[y].q = Nil /\ cx'[y].script = <<>>
               /\ Begun(y)'  => /\ cx'[y].script \in Scripts[y]
                                /\ cx'[y].pos <= Len(cx'[y].script) + 1
                                /\ cx'[y].pos <= Len(cx'[y].script) => cx'[y].stage <= Len(Stages(Kind(y)'))
               /\ cx'[y].st = "waiting" => cx'[y].pos > 1 /\ cx'[y].script[cx'[y].pos - 1] = "blocked"
               /\ cx'[y].st = "completed" => Over(y)'
    BY <1>5, <1>8, <1>16, <2>1 DEF CodexOK
  <2>2. Over(x)' <=> d.pos > Len(c.script)
    BY <1>6, <1>8 DEF Over
  <2>3. Over(x) <=> c.pos > Len(c.script)
    BY <1>1 DEF Over
  <2>4. Kind(x)' = c.script[d.pos] /\ Kind(x) = c.script[c.pos]
    BY <1>1, <1>6, <1>8 DEF Kind
  <2>5. d.pos <= Len(c.script) + 1
    <3>1. d.pos = c.pos + 1 => c.pos <= Len(c.script)
      BY <1>10, <1>14 DEF Announces
    <3> QED BY <1>10, <1>13, <3>1
  <2>6. d.pos <= Len(c.script) => d.stage <= Len(Stages(Kind(x)'))
    <3>1. SUFFICES ASSUME d.pos <= Len(c.script) PROVE d.stage <= Len(Stages(Kind(x)'))
      OBVIOUS
    <3>2. CASE Ends(x, st, c, d, e)
      BY <1>1, <1>5, <1>10, <2>4, <3>1, <3>2 DEF Ends, CodexOK
    <3>3. CASE GoesOn(x, c, d) /\ Announces(x, c, e)
      BY <2>4, <3>3 DEF GoesOn, Announces
    <3>4. CASE GoesToNext(x, c, d)
      <4>1. d.pos \in 1..Len(c.script)
        BY <1>10, <1>13, <3>1
      <4>2. c.script[d.pos] \in Kinds
        BY <1>10, <4>1
      <4>3. Len(Stages(c.script[d.pos])) \in Nat \ {0}
        BY <4>2, StagesFacts
      <4> QED BY <2>4, <3>4, <4>3 DEF GoesToNext
    <3> QED BY <1>6, <3>2, <3>3, <3>4
  <2>7. d.st = "waiting" => d.pos > 1 /\ c.script[d.pos - 1] = "blocked"
    <3>1. SUFFICES ASSUME d.st = "waiting" PROVE d.pos > 1 /\ c.script[d.pos - 1] = "blocked"
      OBVIOUS
    <3>2. GoesToNext(x, c, d)
      BY <1>6, <3>1 DEF Ends, GoesOn
    <3> QED BY <1>10, <2>4, <3>1, <3>2 DEF GoesToNext
  <2>8. d.st = "completed" => Over(x)'
    <3>1. SUFFICES ASSUME d.st = "completed" PROVE Over(x)'
      OBVIOUS
    <3>2. Ends(x, st, c, d, e)
      BY <1>6, <3>1 DEF GoesOn, GoesToNext
    <3> QED BY <2>2, <2>3, <3>1, <3>2 DEF Ends
  <2>10. ASSUME NEW y \in Turns, NEW z \in Turns, z < y, Begun(y)' PROVE Begun(z)'
    BY <1>5, <1>10, <1>16, <1>17, <2>10 DEF CodexOK
  <2> QED BY <1>6, <1>8, <1>10, <1>17, <2>1, <2>5, <2>6, <2>7, <2>8, <2>10 DEF CodexOK
<1>21. e.kind # "blocked" => e \in GoodEvent'
  <2>1. CASE e.kind = "turn"
    <3>1. Ends(x, st, c, d, e) /\ e = [x |-> x, i |-> 0, kind |-> "turn", ev |-> "end"]
      BY <1>3, <1>11, <2>1 DEF Ends, Event
    <3>2. e \in RawEvent
      BY <3>1 DEF RawEvent
    <3>3. e.x = x /\ e.ev = "end" /\ cx'[x].st = st
      BY <1>8, <3>1 DEF Ends
    <3> QED BY <2>1, <3>2, <3>3 DEF GoodEvent
  <2>3. CASE e.kind # "turn" /\ e.kind # "blocked"
    <3>1. Announces(x, c, e)
      BY <1>11, <2>3
    <3>2. e.ev \in {"start", "delta", "done"}
      BY <2>3, <3>1, StagesFacts DEF Announces
    <3>3. e \in RawEvent
      BY <1>10, <3>1, <3>2 DEF Announces, RawEvent
    <3>4. e.i \in 1..Len(cx'[x].script) /\ cx'[x].script[e.i] = e.kind
      BY <1>6, <1>8, <1>12, <2>3, <3>1 DEF Announces
    <3> QED BY <1>11, <1>15, <2>3, <3>2, <3>3, <3>4 DEF GoodEvent
  <2> QED BY <2>1, <2>3
<1>22. e.kind # "turn" => cx'[x].st \in {"running", "waiting"}
  BY <1>8, <1>11 DEF GoesOn, GoesToNext
<1>23. e.kind = "turn" => cx'[x].st = st
  BY <1>8, <1>11 DEF Ends
<1> QED BY <1>2, <1>3, <1>4, <1>8, <1>9, <1>11, <1>15, <1>16, <1>19, <1>20, <1>21, <1>22, <1>23

\* What the step sends on channel A says what has become of the turn.
LEMMA AnswersToGood ==
  ASSUME TimelineInv, NEW x \in Turns, NEW st \in {"completed", "failed"}, AppStep(x, st),
         stream[x].open, NEW ms \in AnswersTo(Event(x, st), st)
  PROVE  ms \in Seq(GoodMessage')
<1>1. PICK e : e = Event(x, st)
  OBVIOUS
<1>2. PICK q : q = cx[x].q
  OBVIOUS
<1>3. PICK G : G = GoodMessage'
  OBVIOUS
<1>4. /\ e.x = x /\ cx'[x].q = q
      /\ FinalPassed(x)' <=> FinalPassed(x) \/ (e.kind = "final" /\ e.ev = "done")
      /\ e.kind = "turn" => cx'[x].st = st
  BY <1>1, <1>2, AppStepGrows
<1>5. q \in Requests /\ x # Nil /\ x \in MaybeTurn /\ stream[x].last \in {Nil, "commentary", "final"}
      /\ (stream[x].last = "final" <=> FinalPassed(x))
  BY <1>2, NilAssumption DEF TimelineInv, StreamOK, TimelineTypes, MaybeTurn
<1>6. ASSUME NEW type \in {"progress", "plan", "proposal", "blocked"},
             NEW text \in {"commentary", "plan", "question"}
      PROVE  MsgA(q, type, text, x) \in G
  <2>1. PICK m : m = MsgA(q, type, text, x)
    OBVIOUS
  <2>2. m \in Message /\ m.q = q /\ m.exec = x /\ m.type = type
    BY <1>5, <2>1 DEF MsgA, Message
  <2> QED BY <1>3, <1>4, <1>5, <2>1, <2>2 DEF GoodMessage
<1>7. <<>> \in Seq(G) /\ \A m \in G : <<m>> \in Seq(G)
  OBVIOUS
<1>8. e.kind = "turn" /\ st = "completed" =>
        MsgA(q, "completed", Or(stream[x].last, "generic"), x) \in G
  <2>1. SUFFICES ASSUME e.kind = "turn", st = "completed"
                 PROVE  MsgA(q, "completed", Or(stream[x].last, "generic"), x) \in G
    OBVIOUS
  <2>2. PICK text : text = Or(stream[x].last, "generic")
    OBVIOUS
  <2>3. text \in {"commentary", "generic", "final"} /\ (text = "final" <=> FinalPassed(x)')
    BY <1>4, <1>5, <2>1, <2>2, NilAssumption DEF Or
  <2>4. PICK m : m = MsgA(q, "completed", text, x)
    OBVIOUS
  <2>5. m \in Message /\ m.q = q /\ m.exec = x /\ m.type = "completed" /\ m.text = text
    BY <1>5, <2>3, <2>4 DEF MsgA, Message
  <2> QED BY <1>3, <1>4, <1>5, <2>1, <2>2, <2>3, <2>4, <2>5 DEF GoodMessage
<1>9. e.kind = "turn" /\ st = "failed" => MsgA(q, "failed", "error", x) \in G
  <2>1. PICK m : m = MsgA(q, "failed", "error", x)
    OBVIOUS
  <2>2. m \in Message /\ m.q = q /\ m.exec = x /\ m.type = "failed" /\ m.text = "error"
    BY <1>5, <2>1 DEF MsgA, Message
  <2> QED BY <1>3, <1>4, <1>5, <2>1, <2>2 DEF GoodMessage, Broken
<1>10. ms \in Seq(G)
  <2>1. ms \in AnswersTo(e, st)
    BY <1>1
  <2>2. PICK progress, plan, proposal, blocked :
          /\ progress = MsgA(q, "progress", "commentary", x) /\ plan = MsgA(q, "plan", "plan", x)
          /\ proposal = MsgA(q, "proposal", "plan", x) /\ blocked = MsgA(q, "blocked", "question", x)
    OBVIOUS
  <2>3. progress \in G /\ plan \in G /\ proposal \in G /\ blocked \in G
    BY <1>6, <2>2
  <2>4. /\ <<progress>> \in Seq(G) /\ <<plan>> \in Seq(G) /\ <<proposal>> \in Seq(G) /\ <<blocked>> \in Seq(G)
    BY <1>7, <2>3
  <2>5. <<plan>> \o <<proposal>> \in Seq(G) /\ <<plan>> \o <<>> \in Seq(G)
    BY <1>7, <2>4, ConcatProperties
  <2>6. CASE e.kind = "commentary" \/ e.kind = "blocked"
    <3>1. ms = <<>> \/ ms = <<progress>> \/ ms = <<blocked>>
      BY <1>2, <1>4, <2>1, <2>2, <2>6 DEF AnswersTo
    <3> QED BY <1>7, <2>4, <3>1
  <2>7. CASE e.kind = "plan"
    <3>1. ms = <<>> \/ ms = <<plan>> \/ ms = <<plan>> \o <<proposal>> \/ ms = <<plan>> \o <<>>
      BY <1>2, <1>4, <2>1, <2>2, <2>7 DEF AnswersTo
    <3> QED BY <1>7, <2>4, <2>5, <3>1
  <2>8. CASE e.kind = "turn" /\ st = "completed"
    <3>1. ms = <<MsgA(q, "completed", Or(stream[x].last, "generic"), x)>>
      BY <1>2, <1>4, <2>1, <2>8 DEF AnswersTo
    <3> QED BY <1>7, <1>8, <2>8, <3>1
  <2>9. CASE e.kind = "turn" /\ st = "failed"
    <3>1. ms = <<MsgA(q, "failed", "error", x)>>
      BY <1>2, <1>4, <2>1, <2>9 DEF AnswersTo
    <3> QED BY <1>7, <1>9, <2>9, <3>1
  <2>10. CASE e.kind \notin {"commentary", "blocked", "plan", "turn"}
    <3>1. ms = <<>>
      BY <2>1, <2>10 DEF AnswersTo
    <3> QED BY <1>7, <3>1
  <2>11. st \in {"completed", "failed"}
    OBVIOUS
  <2> QED BY <2>6, <2>7, <2>8, <2>9, <2>10, <2>11
<1> QED BY <1>3, <1>10

\* The order of channel B is kept, and an item's start precedes its deltas.
LEMMA AppStepOrder ==
  ASSUME TimelineInv, NEW x \in Turns, NEW st \in {"completed", "failed"}, AppStep(x, st)
  PROVE  EndIsLast' /\ CommentaryStarts'
<1>1. PICK c : c = cx[x]
  OBVIOUS
<1>2. PICK d : d = Advance(cx[x], st)
  OBVIOUS
<1>3. PICK e : e = Event(x, st)
  OBVIOUS
<1>4. /\ TimelineTypes /\ CodexOK /\ chanB \in Seq(GoodEvent) /\ EndIsLast /\ CommentaryStarts
  BY DEF TimelineInv
<1>5. /\ Grows /\ cx[x].st = "running" /\ cx'[x] = d /\ e.x = x
      /\ \A y \in Turns : y # x => cx'[y] = cx[y]
  BY <1>2, <1>3, AppStepGrows
<1>6. /\ d.script = c.script
      /\ \/ Ends(x, st, c, d, e)
         \/ Announces(x, c, e) /\ (GoesOn(x, c, d) \/ GoesToNext(x, c, d))
  BY <1>1, <1>2, <1>3, <1>4, <1>5, AdvanceCases
<1>7. /\ phase' = phase /\ sub' = sub
      /\ \/ chanB' = Append(chanB, e) /\ missed' = missed /\ e.kind # "blocked"
         \/ chanB' = chanB /\ missed' = missed \cup {x}
         \/ chanB' = chanB /\ missed' = missed /\ e.kind = "blocked"
  BY <1>3 DEF AppStep
<1>8. /\ Len(chanB) \in Nat /\ Len(chanB') \in Nat /\ Len(chanB) <= Len(chanB')
      /\ \A j \in 1..Len(chanB) : j \in 1..Len(chanB') /\ chanB'[j] = chanB[j]
      /\ \A j \in 1..Len(chanB') : j \notin 1..Len(chanB) =>
            j = Len(chanB) + 1 /\ chanB'[j] = e /\ missed' = missed /\ e.kind # "blocked"
      /\ x \notin missed' /\ e.kind # "blocked" =>
            Len(chanB) + 1 \in 1..Len(chanB') /\ chanB'[Len(chanB) + 1] = e
  BY <1>4, <1>7, AppendProperties
<1>9. \A j \in 1..Len(chanB) : chanB[j].x = x => chanB[j].ev # "end"
  BY <1>4, <1>5 DEF GoodEvent
<1>10. EndIsLast'
  BY <1>4, <1>5, <1>8, <1>9 DEF EndIsLast
<1>11. \A y, i, n : n \in Nat /\ Started(y, i, n) =>
         \/ <<y, i, "commentary">> \in phase'
         \/ \E k \in 1..Len(chanB') :
              k < n /\ chanB'[k] = [x |-> y, i |-> i, kind |-> "commentary", ev |-> "start"]
  BY <1>7, <1>8 DEF Started
<1>12. missed \subseteq missed'
  BY <1>7
<1>13. ASSUME Announces(x, c, e), Kind(x) = "commentary", c.stage > 1, x \notin missed
       PROVE  Started(x, c.pos, Len(chanB) + 1)
  BY <1>1, <1>4, <1>5, <1>13 DEF CommentaryStarts, Announces, Begun
<1>14. ASSUME NEW j \in 1..Len(chanB'), chanB'[j].kind = "commentary", chanB'[j].ev = "delta",
              chanB'[j].x \notin missed'
       PROVE  \/ <<chanB'[j].x, chanB'[j].i, "commentary">> \in phase'
              \/ \E k \in 1..Len(chanB') :
                   /\ k < j
                   /\ chanB'[k] = [x |-> chanB'[j].x, i |-> chanB'[j].i, kind |-> "commentary", ev |-> "start"]
  <2>1. CASE j \in 1..Len(chanB)
    <3>1. Started(chanB[j].x, chanB[j].i, j)
      BY <1>4, <1>8, <1>12, <1>14, <2>1 DEF CommentaryStarts
    <3>2. j \in Nat /\ chanB'[j] = chanB[j]
      BY <1>8, <2>1
    <3>3. PICK y, i : y = chanB[j].x /\ i = chanB[j].i
      OBVIOUS
    <3>4. \/ <<y, i, "commentary">> \in phase'
          \/ \E k \in 1..Len(chanB') :
               k < j /\ chanB'[k] = [x |-> y, i |-> i, kind |-> "commentary", ev |-> "start"]
      BY <1>11, <3>1, <3>2, <3>3
    <3> QED BY <3>2, <3>3, <3>4
  <2>2. CASE j \notin 1..Len(chanB)
    <3>1. j = Len(chanB) + 1 /\ chanB'[j] = e /\ e.kind = "commentary" /\ e.ev = "delta" /\ x \notin missed
      BY <1>5, <1>8, <1>14, <2>2
    <3>2. Announces(x, c, e)
      BY <1>6, <3>1 DEF Ends
    <3>3. e.i = c.pos /\ Kind(x) = "commentary" /\ e.ev = Stages(Kind(x))[c.stage]
          /\ c.stage \in 1..Len(Stages(Kind(x)))
      BY <3>1, <3>2 DEF Announces
    <3>4. c.stage # 1
      BY <3>1, <3>2, <3>3, StagesFacts DEF Announces
    <3>5. c.stage > 1
      BY <3>2, <3>3, <3>4, StagesFacts DEF Announces
    <3>6. Started(x, c.pos, Len(chanB) + 1)
      BY <1>13, <3>1, <3>2, <3>3, <3>5
    <3>7. j \in Nat
      BY <1>8
    <3> QED BY <1>5, <1>11, <3>1, <3>3, <3>6, <3>7
  <2> QED BY <2>1, <2>2
<1>15. ASSUME NEW y \in Turns, Begun(y)', y \notin missed', ~Over(y)', Kind(y)' = "commentary", cx'[y].stage > 1
       PROVE  \/ <<y, cx'[y].pos, "commentary">> \in phase'
              \/ \E k \in 1..Len(chanB') :
                   /\ k < Len(chanB') + 1
                   /\ chanB'[k] = [x |-> y, i |-> cx'[y].pos, kind |-> "commentary", ev |-> "start"]
  <2>1. \A i : Started(y, i, Len(chanB) + 1) =>
          \/ <<y, i, "commentary">> \in phase'
          \/ \E k \in 1..Len(chanB') :
               /\ k < Len(chanB') + 1
               /\ chanB'[k] = [x |-> y, i |-> i, kind |-> "commentary", ev |-> "start"]
    BY <1>7, <1>8 DEF Started
  <2>2. CASE y # x
    <3>1. Begun(y) /\ ~Over(y) /\ Kind(y) = "commentary" /\ cx[y].stage > 1 /\ cx'[y].pos = cx[y].pos
      BY <1>5, <1>15, <2>2 DEF Begun, Over, Kind
    <3>2. Started(y, cx[y].pos, Len(chanB) + 1)
      BY <1>4, <1>12, <1>15, <3>1 DEF CommentaryStarts
    <3> QED BY <2>1, <3>1, <3>2
  <2>3. CASE y = x
    <3>1. ~(d.pos > Len(c.script)) /\ c.script[d.pos] = "commentary" /\ d.stage > 1 /\ x \notin missed
      BY <1>5, <1>6, <1>12, <1>15, <2>3 DEF Over, Kind
    <3>2. d.pos = c.pos
      BY <1>6, <3>1 DEF Ends, GoesOn, GoesToNext
    <3>3. ~Over(x) /\ Kind(x) = "commentary" /\ Begun(x)
      BY <1>1, <1>5, <3>1, <3>2 DEF Over, Kind, Begun
    <3>4. CASE c.stage > 1
      <4>1. Started(x, c.pos, Len(chanB) + 1)
        BY <1>1, <1>4, <3>1, <3>3, <3>4 DEF CommentaryStarts
      <4> QED BY <1>5, <2>1, <2>3, <3>2, <4>1
    <3>5. CASE ~(c.stage > 1)
      <4>1. Announces(x, c, e)
        BY <1>6, <3>1, <3>5 DEF Ends
      <4>2. c.stage = 1 /\ Stages("commentary")[1] = "start"
        BY <3>3, <3>5, <4>1, StagesFacts DEF Announces
      <4>3. e = [x |-> x, i |-> c.pos, kind |-> "commentary", ev |-> "start"]
        BY <3>3, <4>1, <4>2 DEF Announces
      <4>4. Len(chanB) + 1 \in 1..Len(chanB') /\ chanB'[Len(chanB) + 1] = e
        BY <1>8, <1>15, <2>3, <4>3
      <4>5. Len(chanB) + 1 < Len(chanB') + 1
        BY <1>8, <4>4
      <4> QED BY <1>5, <2>3, <3>2, <4>3, <4>4, <4>5
    <3> QED BY <3>4, <3>5
  <2> QED BY <2>2, <2>3
<1>16. CommentaryStarts'
  BY <1>14, <1>15 DEF CommentaryStarts, Started
<1> QED BY <1>10, <1>16

LEMMA AppStepInv ==
  ASSUME TimelineInv, NEW x \in Turns, NEW st \in {"completed", "failed"}, AppStep(x, st)
  PROVE  TimelineInv'
<1>1. PICK e : e = Event(x, st)
  OBVIOUS
<1>2. /\ IF stream[x].open
         THEN /\ \E ms \in AnswersTo(e, st) : chanA' = chanA \o ms
              /\ stream' = [stream EXCEPT ![x] = StreamAfter(e, stream[x])]
         ELSE UNCHANGED <<chanA, stream>>
      /\ \/ chanB' = Append(chanB, e) /\ missed' = missed /\ e.kind # "blocked" /\ sub
         \/ chanB' = chanB /\ missed' = missed \cup {x}
         \/ chanB' = chanB /\ missed' = missed /\ e.kind = "blocked"
      /\ UNCHANGED <<req, starter, sub, phase, turns, page, cmd, told, stale>>
  BY <1>1 DEF AppStep
<1>3. /\ TimelineTypes /\ CodexOK /\ RequestsOK /\ StreamOK /\ HeardIsShown /\ ToldIsShown
      /\ chanB \in Seq(GoodEvent)
  BY DEF TimelineInv
<1>4. /\ Grows /\ CodexOK' /\ cx' \in [Turns -> CodexTurn]
      /\ cx[x].st = "running"
      /\ \A y \in Turns : cx'[y].q = cx[y].q /\ (y # x => cx'[y] = cx[y])
      /\ \A y \in Turns : y # x => (FinalPassed(y)' <=> FinalPassed(y))
      /\ FinalPassed(x)' <=> FinalPassed(x) \/ (e.kind = "final" /\ e.ev = "done")
      /\ e.x = x /\ (e.kind # "blocked" => e \in GoodEvent')
      /\ e.kind # "turn" => cx'[x].st \in {"running", "waiting"}
      /\ e.kind = "turn" => cx'[x].st = st
  BY <1>1, AppStepGrows
<1>5. PICK s : s = StreamAfter(e, stream[x])
  OBVIOUS
<1>6. /\ s \in [open : BOOLEAN, last : {Nil, "commentary", "final"}]
      /\ s.open => stream[x].open /\ e.kind # "turn"
      /\ s.last = IF e.ev = "done" /\ e.kind \in {"commentary", "final"} THEN e.kind ELSE stream[x].last
  <2>1. stream[x].open \in BOOLEAN /\ stream[x].last \in {Nil, "commentary", "final"}
    BY <1>3 DEF TimelineTypes
  <2>2. /\ s.open = (/\ stream[x].open
                     /\ e.kind # "turn"
                     /\ ~(e.kind = "plan" /\ e.ev = "done" /\ req[cx[e.x].q].plan))
        /\ s.last = IF e.ev = "done" /\ e.kind \in {"commentary", "final"} THEN e.kind ELSE stream[x].last
    BY <1>5 DEF StreamAfter
  <2>3. s = [open |-> s.open, last |-> s.last]
    BY <1>5 DEF StreamAfter
  <2>4. s.open \in BOOLEAN /\ s.last \in {Nil, "commentary", "final"}
    BY <2>1, <2>2
  <2> QED BY <2>2, <2>3, <2>4
<1>7. /\ stream' \in [Turns -> [open : BOOLEAN, last : {Nil, "commentary", "final"}]]
      /\ \A y \in Turns : y # x => stream'[y] = stream[y]
      /\ stream'[x].open => stream[x].open /\ stream'[x] = s
  <2>1. PICK R : R = [open : BOOLEAN, last : {Nil, "commentary", "final"}]
    OBVIOUS
  <2>2. stream \in [Turns -> R] /\ s \in R
    BY <1>3, <1>6, <2>1 DEF TimelineTypes
  <2>3. CASE stream[x].open
    <3>1. stream' = [stream EXCEPT ![x] = s]
      BY <1>2, <1>5, <2>3
    <3>2. stream' \in [Turns -> R] /\ stream'[x] = s /\ \A y \in Turns : y # x => stream'[y] = stream[y]
      BY <2>2, <3>1
    <3> QED BY <2>1, <2>3, <3>2
  <2>4. CASE ~stream[x].open
    <3>1. stream' = stream
      BY <1>2, <2>4
    <3> QED BY <2>1, <2>2, <2>4, <3>1
  <2> QED BY <2>3, <2>4
<1>8. TimelineTypes'
  <2>1. missed' \subseteq Turns
    BY <1>2, <1>3 DEF TimelineTypes
  <2> QED BY <1>2, <1>3, <1>4, <1>7, <2>1 DEF TimelineTypes
<1>9. StreamOK'
  <2>1. ASSUME NEW y \in Turns, stream'[y].open
        PROVE  /\ cx'[y].st \in {"running", "waiting"} /\ cx'[y].q \in Requests
               /\ stream'[y].last = "final" <=> FinalPassed(y)'
    <3>1. CASE y # x
      BY <1>3, <1>4, <1>7, <2>1, <3>1 DEF StreamOK
    <3>2. CASE y = x
      <4>1. stream[x].open /\ stream'[x].last = s.last /\ e.kind # "turn"
        BY <1>6, <1>7, <2>1, <3>2
      <4>2. cx'[x].st \in {"running", "waiting"} /\ cx'[x].q \in Requests
        BY <1>3, <1>4, <4>1 DEF StreamOK
      <4>3. stream[x].last = "final" <=> FinalPassed(x)
        BY <1>3, <4>1 DEF StreamOK
      <4>4. e.kind = "commentary" => ~FinalPassed(x)
        <5>1. e.kind # "turn" => ~Over(x) /\ e.kind = Kind(x)
          BY <1>1 DEF Event
        <5> QED BY <1>3, <4>1, <5>1, AfterFinal
      <4>5. s.last = "final" <=> FinalPassed(x)'
        BY <1>4, <1>6, <4>3, <4>4
      <4> QED BY <3>2, <4>1, <4>2, <4>5
    <3> QED BY <3>1, <3>2
  <2> QED BY <2>1 DEF StreamOK
<1>10. RequestsOK'
  <2>1. \A p \in Requests : req[p].exec # Nil => req[p].exec \in Turns
    BY <1>3 DEF TimelineTypes, MaybeTurn
  <2> QED BY <1>2, <1>3, <1>4, <2>1 DEF RequestsOK
<1>11. chanA' \in Seq(GoodMessage')
  <2>1. chanA \in Seq(GoodMessage')
    BY <1>4, Untouched
  <2>2. CASE stream[x].open
    <3>1. PICK ms \in AnswersTo(e, st) : chanA' = chanA \o ms
      BY <1>2, <2>2
    <3>2. ms \in Seq(GoodMessage')
      BY <1>1, <2>2, <3>1, AnswersToGood
    <3> QED BY <2>1, <3>1, <3>2, ConcatProperties
  <2>3. CASE ~stream[x].open
    BY <1>2, <2>1, <2>3
  <2> QED BY <2>2, <2>3
<1>12. chanB' \in Seq(GoodEvent')
  <2>1. chanB \in Seq(GoodEvent')
    BY <1>4, Untouched
  <2> QED BY <1>2, <1>4, <2>1, AppendProperties
<1>13. EndIsLast' /\ CommentaryStarts'
  BY AppStepOrder
<1>14. Len(chanB) \in Nat /\ \A y : FinalComes(y) => FinalComes(y)'
  <2>1. /\ Len(chanB) \in Nat
        /\ \A j \in 1..Len(chanB) : j \in 1..Len(chanB') /\ chanB'[j] = chanB[j]
    BY <1>2, <1>3, AppendProperties
  <2> QED BY <2>1 DEF FinalComes
<1>15. HeardIsShown'
  <2>1. ASSUME NEW y \in Turns, y \notin missed', y \notin stale, FinalPassed(y)', cx'[y].st # "failed",
               ~FinalComes(y)'
        PROVE  ShowsAnswer(turns, y)
    <3>1. FinalPassed(y)
      <4>1. SUFFICES ASSUME ~FinalPassed(y) PROVE FALSE
        OBVIOUS
      <4>2. y = x /\ e.kind = "final" /\ e.ev = "done"
        BY <1>4, <2>1, <4>1
      <4>3. chanB' = Append(chanB, e)
        BY <1>2, <2>1, <4>2
      <4>4. Len(chanB') = Len(chanB) + 1 /\ chanB'[Len(chanB) + 1] = e
        BY <1>3, <4>3, AppendProperties
      <4>5. Len(chanB) + 1 \in 1..Len(chanB')
        BY <1>14, <4>4
      <4>6. FinalComes(y)'
        BY <1>4, <4>2, <4>4, <4>5 DEF FinalComes
      <4> QED BY <2>1, <4>6
    <3>2. y \notin missed /\ ~FinalComes(y)
      BY <1>2, <1>14, <2>1
    <3>3. cx[y].st # "failed"
      BY <1>4, <2>1
    <3> QED BY <1>3, <2>1, <3>1, <3>2, <3>3 DEF HeardIsShown
  <2> QED BY <1>2, <2>1 DEF HeardIsShown
<1>16. ToldIsShown'
  <2>1. ~told[x]
    BY <1>3, <1>4 DEF ToldIsShown, Broken
  <2>2. \A y \in Turns : told[y] /\ FinalPassed(y)' => FinalPassed(y)
    BY <1>4, <2>1
  <2> QED BY <1>2, <1>4, <2>2, Untouched
<1>17. Apart(turns)' /\ (~sub => chanB = <<>>)'
  <2>1. Apart(turns) /\ (~sub => chanB = <<>>)
    BY DEF TimelineInv
  <2>2. ~sub => chanB' = chanB
    BY <1>2
  <2>3. Apart(turns)'
    BY <1>2, <2>1 DEF Apart
  <2> QED BY <1>2, <2>1, <2>2, <2>3
<1> QED BY <1>2, <1>4, <1>8, <1>9, <1>10, <1>11, <1>12, <1>13, <1>15, <1>16, <1>17, Untouched DEF TimelineInv
-----------------------------------------------------------------------------
(* Channel B is read.                                                      *)

\* The entry an event makes.
LEMMA EventTurnGood ==
  ASSUME NEW x \in Turns, NEW user \in BOOLEAN, NEW asst \in Answers,
         NEW status \in {"running", "completed"}, NEW plan \in BOOLEAN,
         asst.text = "final" => asst = FinalAnswer /\ FinalPassed(x),
         asst.text = "commentary" => x \in missed
  PROVE  LET t == EventTurn(x, user, asst, status, plan) IN
         /\ t \in GoodTurn
         /\ t.exec = x /\ t.asst = asst /\ t.status = status
<1>1. PICK t : t = EventTurn(x, user, asst, status, plan)
  OBVIOUS
<1>2. /\ t.id = <<"codex", x>> /\ t.client = Nil /\ t.exec = x /\ t.asst = asst /\ t.status = status
  BY <1>1 DEF EventTurn, Turn
<1>3. t \in TimelineTurn
  <2>1. <<"codex", x>> \in Ids /\ Nil \in MaybeRequest /\ x \in MaybeTurn
    BY DEF Ids, MaybeRequest, MaybeTurn
  <2> QED BY <1>1, <2>1 DEF EventTurn, Turn, TimelineTurn
<1>4. x # Nil
  BY NilAssumption
<1>5. t \in GoodTurn
  BY <1>2, <1>3, <1>4 DEF GoodTurn
<1> QED BY <1>1, <1>2, <1>5

\* The last of the numbers up to n that are in P.
LEMMA Greatest ==
  ASSUME NEW n \in Nat, NEW P \in SUBSET (1..n), P # {}
  PROVE  \E i \in P : \A m \in P : m <= i
<1>1. PICK T : T = {n - k : k \in P}
  OBVIOUS
<1>2. T \in SUBSET Nat /\ T # {}
  <2>1. \A k \in P : n - k \in Nat
    OBVIOUS
  <2>2. \A y \in T : y \in Nat
    BY <1>1, <2>1
  <2>3. PICK k \in P : TRUE
    OBVIOUS
  <2>4. n - k \in T
    BY <1>1, <2>3
  <2> QED BY <2>2, <2>4
<1>3. PICK m \in T : \A k \in T : m <= k
  BY <1>2, Least
<1>4. PICK i \in P : m = n - i
  BY <1>1, <1>3
<1>5. \A k \in P : k \in Nat /\ n - k \in T
  BY <1>1
<1> QED BY <1>3, <1>4, <1>5

\* Taking entry i out of the timeline.
LEMMA RemoveAtFacts ==
  ASSUME NEW S, NEW s \in Seq(S), NEW i \in 1..Len(s)
  PROVE  /\ RemoveAt(s, i) \in Seq(S)
         /\ Len(RemoveAt(s, i)) = Len(s) - 1
         /\ \A j \in 1..(Len(s) - 1) : RemoveAt(s, i)[j] = IF j < i THEN s[j] ELSE s[j + 1]
<1>1. Len(s) \in Nat /\ i \in Nat /\ 1 <= i /\ i <= Len(s)
  OBVIOUS
<1>2. PICK a : a = SubSeq(s, 1, i - 1)
  OBVIOUS
<1>3. PICK b : b = SubSeq(s, i + 1, Len(s))
  OBVIOUS
<1>4. a \in Seq(S) /\ Len(a) = i - 1 /\ \A j \in 1..(i - 1) : a[j] = s[j]
  <2>1. i - 1 \in Int /\ \A j \in 1..(i - 1) : s[j] \in S
    BY <1>1
  <2> QED BY <1>1, <1>2, <2>1, SubSeqProperties
<1>5. b \in Seq(S) /\ Len(b) = Len(s) - i /\ \A j \in 1..(Len(s) - i) : b[j] = s[i + j]
  <2>1. i + 1 \in Int /\ Len(s) \in Int /\ \A j \in (i + 1)..Len(s) : s[j] \in S
    BY <1>1
  <2> QED BY <1>1, <1>3, <2>1, SubSeqProperties
<1>6. /\ a \o b \in Seq(S) /\ Len(a \o b) = Len(s) - 1
      /\ \A j \in 1..(Len(s) - 1) : (a \o b)[j] = IF j <= i - 1 THEN a[j] ELSE b[j - (i - 1)]
  <2>1. /\ a \o b \in Seq(S) /\ Len(a \o b) = Len(a) + Len(b)
        /\ \A j \in 1..(Len(a) + Len(b)) : (a \o b)[j] = IF j <= Len(a) THEN a[j] ELSE b[j - Len(a)]
    <3>1. a \in Seq(S) /\ b \in Seq(S)
      BY <1>4, <1>5
    <3> QED BY <3>1, ConcatProperties, Zenon
  <2>2. Len(a) = i - 1 /\ Len(b) = Len(s) - i /\ Len(a) + Len(b) = Len(s) - 1
    BY <1>1, <1>4, <1>5
  <2> QED BY <2>1, <2>2
<1>7. \A j \in 1..(Len(s) - 1) : (a \o b)[j] = IF j < i THEN s[j] ELSE s[j + 1]
  <2>1. ASSUME NEW j \in 1..(Len(s) - 1), j < i PROVE (a \o b)[j] = s[j]
    BY <1>1, <1>4, <1>6, <2>1
  <2>2. ASSUME NEW j \in 1..(Len(s) - 1), ~(j < i) PROVE (a \o b)[j] = s[j + 1]
    <3>1. j - (i - 1) \in 1..(Len(s) - i) /\ i + (j - (i - 1)) = j + 1 /\ ~(j <= i - 1)
      BY <1>1, <2>2
    <3> QED BY <1>5, <1>6, <3>1
  <2> QED BY <2>1, <2>2
<1> QED BY <1>2, <1>3, <1>6, <1>7 DEF RemoveAt

\* An entry without an answer that is taken out takes no final answer with it.
LEMMA RemoveGood ==
  ASSUME NEW ts \in Seq(GoodTurn), Apart(ts), NEW i \in 1..Len(ts), ts[i].asst = NoAnswer
  PROVE  LET us == RemoveAt(ts, i) IN
         us \in Seq(GoodTurn) /\ Apart(us) /\ \A x : ShowsAnswer(ts, x) => ShowsAnswer(us, x)
<1>1. PICK us : us = RemoveAt(ts, i)
  OBVIOUS
<1>2. /\ us \in Seq(GoodTurn) /\ Len(us) = Len(ts) - 1 /\ Len(ts) \in Nat
      /\ \A j \in 1..(Len(ts) - 1) : us[j] = IF j < i THEN ts[j] ELSE ts[j + 1]
  <2>1. Len(ts) \in Nat
    OBVIOUS
  <2> QED BY <1>1, <2>1, RemoveAtFacts
<1>3. Apart(us)
  <2>1. ASSUME NEW j \in 1..Len(us), NEW k \in 1..Len(us), j # k
        PROVE  us[j].id # us[k].id /\ (us[j].exec # Nil => us[j].exec # us[k].exec)
    <3>1. PICK a, b : a = (IF j < i THEN j ELSE j + 1) /\ b = (IF k < i THEN k ELSE k + 1)
      OBVIOUS
    <3>2. a \in 1..Len(ts) /\ b \in 1..Len(ts) /\ a # b /\ us[j] = ts[a] /\ us[k] = ts[b]
      BY <1>2, <2>1, <3>1
    <3> QED BY <3>2 DEF Apart
  <2> QED BY <2>1 DEF Apart
<1>4. ASSUME NEW x, ShowsAnswer(ts, x) PROVE ShowsAnswer(us, x)
  <2>1. PICK j \in 1..Len(ts) : ts[j].exec = x /\ ts[j].status = "completed" /\ ts[j].asst = FinalAnswer
    BY <1>4 DEF ShowsAnswer
  <2>2. j # i
    BY <2>1, FinalAnswerFacts
  <2>3. PICK k : k = IF j < i THEN j ELSE j - 1
    OBVIOUS
  <2>4. k \in 1..Len(us) /\ us[k] = ts[j]
    BY <1>2, <2>2, <2>3
  <2> QED BY <2>1, <2>4 DEF ShowsAnswer
<1> QED BY <1>1, <1>2, <1>3, <1>4

\* turn/completed settles what has not settled, and nothing else.
LEMMA SettleGood ==
  ASSUME NEW x \in Turns, turns \in Seq(GoodTurn), Apart(turns)
  PROVE  /\ settle(x) \in Seq(GoodTurn) /\ Apart(settle(x))
         /\ \A y : ShowsAnswer(turns, y) => ShowsAnswer(settle(x), y)
<1>1. PICK us : us = settle(x)
  OBVIOUS
<1>2. Len(turns) \in Nat /\ DOMAIN turns = 1..Len(turns) /\ \A i \in 1..Len(turns) : turns[i] \in GoodTurn
  OBVIOUS
<1>3. ASSUME NEW i \in 1..Len(turns)
      PROVE  /\ us[i] \in GoodTurn
             /\ us[i].id = turns[i].id /\ us[i].exec = turns[i].exec
             /\ turns[i].status = "completed" => us[i] = turns[i]
  <2>1. PICK t : t = turns[i]
    OBVIOUS
  <2>2. PICK a : a = [t.asst EXCEPT !.st = IF @ \in Streaming THEN "completed" ELSE @]
    OBVIOUS
  <2>3. PICK r : r = [[t EXCEPT !.status = "completed"] EXCEPT !.asst = a]
    OBVIOUS
  <2>4. t \in GoodTurn /\ t \in TimelineTurn
    BY <1>2, <2>1 DEF GoodTurn
  <2>5. us[i] = IF t.exec = x /\ t.status \notin Terminal THEN r ELSE t
    BY <1>1, <1>2, <2>1, <2>2, <2>3 DEF settle
  <2>6. a \in Answers /\ a.text = t.asst.text /\ a.st # "running" /\ (t.asst.st # "running" => a = t.asst)
    <3>1. t.asst \in Answers
      BY <2>4, TurnFields
    <3>2. CASE t.asst = NoAnswer
      <4>1. t.asst.st = Nil /\ t.asst = [text |-> Nil, st |-> Nil] /\ t.asst.st \notin Streaming
        BY <3>2, NilAssumption DEF NoAnswer, Streaming
      <4>2. a = t.asst
        BY <2>2, <4>1
      <4> QED BY <3>1, <4>1, <4>2, NilAssumption
    <3>3. CASE t.asst # NoAnswer
      <4>1. t.asst \in [text : Texts, st : {"running", "completed", "failed"}]
        BY <3>1, <3>3 DEF Answers
      <4>2. a = [text |-> t.asst.text, st |-> IF t.asst.st = "running" THEN "completed" ELSE t.asst.st]
        BY <2>2, <4>1 DEF Streaming
      <4> QED BY <4>1, <4>2 DEF Answers
    <3> QED BY <3>2, <3>3
  <2>7. r \in TimelineTurn /\ r.id = t.id /\ r.client = t.client /\ r.exec = t.exec
        /\ r.asst = a /\ r.status = "completed"
    BY <2>3, <2>4, <2>6 DEF TimelineTurn
  <2>8. t.asst.text = "final" => a = FinalAnswer
    BY <2>4, <2>6, FinalAnswerFacts DEF GoodTurn
  <2>9. r \in GoodTurn
    BY <2>4, <2>6, <2>7, <2>8 DEF GoodTurn
  <2> QED BY <2>1, <2>4, <2>5, <2>7, <2>9 DEF Terminal
<1>4. us \in Seq(GoodTurn) /\ Len(us) = Len(turns)
  <2>1. us = [i \in 1..Len(turns) |-> us[i]]
    BY <1>1, <1>2 DEF settle
  <2>2. \A i \in 1..Len(turns) : us[i] \in GoodTurn
    BY <1>3
  <2>3. us \in [1..Len(turns) -> GoodTurn]
    BY <2>1, <2>2
  <2> QED BY <1>2, <2>3
<1>5. Apart(us)
  BY <1>3, <1>4 DEF Apart
<1>6. \A y : ShowsAnswer(turns, y) => ShowsAnswer(us, y)
  BY <1>3, <1>4 DEF ShowsAnswer
<1> QED BY <1>1, <1>4, <1>5, <1>6

\* Whatever an event does to the timeline, final answers stay, and the event
\* that completes one shows it.
LEMMA AppliedGood ==
  ASSUME TimelineInv, chanB # <<>>, NEW us \in Applied(Head(chanB))
  PROVE  /\ us \in Seq(GoodTurn) /\ Apart(us)
         /\ \A y : ShowsAnswer(turns, y) => ShowsAnswer(us, y)
         /\ /\ Head(chanB).kind = "final" /\ Head(chanB).ev = "done"
            /\ cx[Head(chanB).x].st # "failed"
            => ShowsAnswer(us, Head(chanB).x)
<1>1. PICK e : e = Head(chanB)
  OBVIOUS
<1>2. PICK x : x = e.x
  OBVIOUS
<1>3. /\ TimelineTypes /\ CodexOK /\ RequestsOK /\ PhasesOK /\ CommentaryStarts
      /\ turns \in Seq(GoodTurn) /\ Apart(turns) /\ chanB \in Seq(GoodEvent)
  BY DEF TimelineInv
<1>4. /\ e \in GoodEvent /\ e \in RawEvent /\ Len(chanB) \in Nat /\ 1 \in 1..Len(chanB) /\ chanB[1] = e
      /\ x \in Turns
  <2>1. e \in GoodEvent
    BY <1>1, <1>3, HeadTailProperties
  <2>2. Len(chanB) \in Nat /\ 1 \in 1..Len(chanB) /\ chanB[1] = e
    BY <1>1, <1>3
  <2> QED BY <1>2, <2>1, <2>2 DEF GoodEvent, RawEvent
<1>5. PICK commentary : commentary = IsCommentary(e.x, e.i, PhasesAfter(e))
  OBVIOUS
<1>6. e.kind = "final" => ~commentary
  <2>1. SUFFICES ASSUME e.kind = "final", <<e.x, e.i, "commentary">> \in PhasesAfter(e) PROVE FALSE
    BY <1>5 DEF IsCommentary
  <2>2. <<e.x, e.i, "commentary">> \in phase
    BY <2>1 DEF PhasesAfter
  <2>3. e.i \in 1..Len(cx[x].script) /\ cx[x].script[e.i] = "final" /\ e.i \in Nat
    BY <1>2, <1>4, <2>1 DEF GoodEvent, RawEvent
  <2>4. cx[x].script[e.i] = "commentary"
    BY <1>2, <1>3, <1>4, <2>2, <2>3 DEF PhasesOK, Kinds
  <2> QED BY <2>3, <2>4
<1>7. e.kind = "commentary" /\ e.ev \in {"start", "done"} => commentary
  BY <1>5 DEF IsCommentary, PhasesAfter
<1>8. e.kind = "commentary" /\ e.ev = "delta" /\ ~commentary => x \in missed
  <2>1. SUFFICES ASSUME e.kind = "commentary", e.ev = "delta", ~commentary, x \notin missed PROVE FALSE
    OBVIOUS
  <2>2. Started(x, e.i, 1)
    BY <1>2, <1>3, <1>4, <2>1 DEF CommentaryStarts
  <2>3. <<x, e.i, "commentary">> \in phase
    BY <1>4, <2>2 DEF Started
  <2> QED BY <1>2, <1>5, <2>1, <2>3 DEF IsCommentary, PhasesAfter
<1>9. ASSUME NEW user \in BOOLEAN, NEW asst \in Answers, NEW status \in {"running", "completed"}, NEW plan \in BOOLEAN,
             asst = NoAnswer \/ asst.st = "running" \/ asst = FinalAnswer,
             asst.text = "final" => asst = FinalAnswer /\ FinalPassed(x),
             asst.text = "commentary" => x \in missed,
             NEW ts \in Seq(GoodTurn), Apart(ts), \A y : ShowsAnswer(turns, y) => ShowsAnswer(ts, y)
      PROVE  LET vs == upsert(ts, EventTurn(x, user, asst, status, plan)) IN
             /\ vs \in Seq(GoodTurn) /\ Apart(vs)
             /\ \A y : ShowsAnswer(turns, y) => ShowsAnswer(vs, y)
             /\ asst = FinalAnswer /\ status = "completed" /\ cx[x].st # "failed" => ShowsAnswer(vs, x)
  <2>1. PICK t : t = EventTurn(x, user, asst, status, plan)
    OBVIOUS
  <2>2. t \in GoodTurn /\ t.exec = x /\ t.asst = asst /\ t.status = status
    BY <1>4, <1>9, <2>1, EventTurnGood
  <2>3. \A y : Harmless(t, y)
    BY <1>9, <2>2 DEF Harmless
  <2>4. upsert(ts, t) \in Seq(GoodTurn) /\ Apart(upsert(ts, t))
    BY <1>3, <1>9, <2>2, InsertGood
  <2>5. \A y : ShowsAnswer(turns, y) => ShowsAnswer(upsert(ts, t), y)
    BY <1>3, <1>9, <2>2, <2>3, InsertKeeps
  <2>6. asst = FinalAnswer /\ status = "completed" /\ cx[x].st # "failed" => ShowsAnswer(upsert(ts, t), x)
    BY <1>3, <1>4, <1>9, <2>2, InsertShows DEF Brings
  <2> QED BY <2>1, <2>4, <2>5, <2>6
<1>10. ASSUME NEW user \in BOOLEAN, NEW status \in {"running", "completed"}, NEW plan \in BOOLEAN,
              NEW ts \in Seq(GoodTurn), Apart(ts), \A y : ShowsAnswer(turns, y) => ShowsAnswer(ts, y)
       PROVE  LET vs == upsert(ts, EventTurn(x, user, NoAnswer, status, plan)) IN
              vs \in Seq(GoodTurn) /\ Apart(vs) /\ \A y : ShowsAnswer(turns, y) => ShowsAnswer(vs, y)
  <2>1. NoAnswer \in Answers /\ NoAnswer.text # "final" /\ NoAnswer.text # "commentary"
    BY FinalAnswerFacts, NilAssumption
  <2> QED BY <1>9, <1>10, <2>1
<1>11. us \in Applied(e)
  BY <1>1
<1>12. CASE e.ev = "end"
  <2>1. us = settle(x) /\ e.kind # "final"
    BY <1>2, <1>4, <1>11, <1>12 DEF Applied, GoodEvent
  <2> QED BY <1>1, <1>3, <1>4, <2>1, SettleGood
<1>13. CASE e.ev # "end" /\ e.kind = "user"
  <2>1. us = upsert(turns, EventTurn(x, TRUE, NoAnswer, "running", FALSE))
    BY <1>2, <1>11, <1>13 DEF Applied
  <2> QED BY <1>1, <1>3, <1>10, <1>13, <2>1
<1>14. CASE e.kind = "plan" /\ e.ev = "done"
  <2>1. us = apply_plan(x)
    BY <1>2, <1>11, <1>14 DEF Applied
  <2>2. CASE PendingUser(x) = {}
    <3>1. us = upsert(turns, EventTurn(x, FALSE, NoAnswer, "completed", TRUE))
      BY <2>1, <2>2 DEF apply_plan
    <3> QED BY <1>1, <1>3, <1>10, <1>14, <3>1
  <2>3. CASE PendingUser(x) # {}
    <3>1. PICK P : P = PendingUser(x)
      OBVIOUS
    <3>2. P \in SUBSET (1..Len(turns)) /\ Len(turns) \in Nat /\ \A k \in P : turns[k].asst = NoAnswer
      BY <1>3, <3>1 DEF PendingUser
    <3>3. \E k \in P : \A m \in P : m <= k
      BY <2>3, <3>1, <3>2, Greatest
    <3>4. PICK i : i = CHOOSE k \in P : \A m \in P : m <= k
      OBVIOUS
    <3>5. i \in P
      BY <3>3, <3>4
    <3>6. us = upsert(RemoveAt(turns, i), EventTurn(x, TRUE, NoAnswer, "completed", TRUE))
      BY <2>1, <2>3, <3>1, <3>4 DEF apply_plan
    <3>7. PICK ts : ts = RemoveAt(turns, i)
      OBVIOUS
    <3>8. ts \in Seq(GoodTurn) /\ Apart(ts) /\ \A y : ShowsAnswer(turns, y) => ShowsAnswer(ts, y)
      BY <1>3, <3>2, <3>5, <3>7, RemoveGood
    <3> QED BY <1>1, <1>10, <1>14, <3>6, <3>7, <3>8
  <2> QED BY <2>2, <2>3
<1>15. CASE e.kind = "plan" /\ e.ev = "delta"
  <2>1. us = turns \/ us = upsert(turns, EventTurn(x, FALSE, NoAnswer, "running", TRUE))
    BY <1>2, <1>11, <1>15 DEF Applied
  <2> QED BY <1>1, <1>3, <1>10, <1>15, <2>1
<1>16. CASE e.ev # "end" /\ e.kind \in {"commentary", "final"} /\ commentary
  <2>1. us = upsert(turns, EventTurn(x, FALSE, NoAnswer, "running", FALSE))
    BY <1>2, <1>5, <1>11, <1>16 DEF Applied, keep_live
  <2>2. e.kind # "final"
    BY <1>6, <1>16
  <2> QED BY <1>1, <1>3, <1>10, <2>1, <2>2
<1>17. CASE e.kind \in {"commentary", "final"} /\ ~commentary /\ e.ev = "delta"
  <2>1. PICK a : a = Answer(IF e.kind = "final" THEN "partial" ELSE "commentary", "running")
    OBVIOUS
  <2>2. us = upsert(turns, EventTurn(x, FALSE, a, "running", FALSE))
    BY <1>2, <1>5, <1>11, <1>17, <2>1 DEF Applied
  <2>3. /\ a \in Answers /\ a.st = "running"
        /\ a.text \in {"partial", "commentary"}
        /\ a.text = "commentary" => e.kind = "commentary"
    BY <1>17, <2>1 DEF Answer, Answers, Texts
  <2> QED BY <1>1, <1>3, <1>8, <1>9, <1>17, <2>2, <2>3
<1>18. CASE e.kind \in {"commentary", "final"} /\ ~commentary /\ e.ev = "done"
  <2>1. us = upsert(turns, EventTurn(x, FALSE, FinalAnswer, "completed", FALSE))
    BY <1>2, <1>5, <1>11, <1>18 DEF Applied, FinalAnswer
  <2>2. e.kind = "final" /\ FinalPassed(x)
    BY <1>2, <1>4, <1>7, <1>18 DEF GoodEvent
  <2> QED BY <1>1, <1>2, <1>3, <1>9, <2>1, <2>2, FinalAnswerFacts
<1>19. CASE \/ e.kind = "plan" /\ e.ev = "start"
            \/ e.kind = "blocked" /\ e.ev # "end"
            \/ e.kind \in {"commentary", "final"} /\ ~commentary /\ e.ev = "start"
  <2>1. us = turns
    BY <1>5, <1>11, <1>19 DEF Applied
  <2> QED BY <1>1, <1>3, <1>19, <2>1
<1>20. /\ e.ev \in {"start", "delta", "done", "end"} /\ e.kind \in Kinds \cup {"turn"}
       /\ e.kind = "turn" <=> e.ev = "end"
  BY <1>4 DEF RawEvent, GoodEvent
<1> QED BY <1>12, <1>13, <1>14, <1>15, <1>16, <1>17, <1>18, <1>19, <1>20 DEF Kinds

LEMMA ApplyEventInv ==
  ASSUME TimelineInv, apply_codex_thread_timeline_event
  PROVE  TimelineInv' /\ \A y \in Turns : ShowsAnswer(turns, y) => ShowsAnswer(turns', y)
<1>1. PICK e : e = Head(chanB)
  OBVIOUS
<1>2. PICK x : x = e.x
  OBVIOUS
<1>3. /\ chanB # <<>> /\ chanB' = Tail(chanB)
      /\ phase' = PhasesAfter(e)
      /\ turns' \in Applied(e)
      /\ told' = IF e.ev = "end" /\ x \notin missed THEN [told EXCEPT ![x] = TRUE] ELSE told
      /\ stale' = IF e.kind = "final" /\ e.ev = "done" THEN stale \ {x} ELSE stale
      /\ UNCHANGED <<req, starter, cx, stream, chanA, sub, page, cmd, missed>>
  BY <1>1, <1>2 DEF apply_codex_thread_timeline_event
<1>4. /\ TimelineTypes /\ CodexOK /\ RequestsOK /\ StreamOK /\ PhasesOK /\ CommentaryStarts /\ EndIsLast
      /\ HeardIsShown /\ ToldIsShown /\ turns \in Seq(GoodTurn) /\ chanB \in Seq(GoodEvent)
  BY DEF TimelineInv
<1>5. /\ Len(chanB) \in Nat /\ 1 \in 1..Len(chanB) /\ chanB[1] = e
      /\ e \in GoodEvent /\ chanB' \in Seq(GoodEvent) /\ Len(chanB') = Len(chanB) - 1
      /\ \A j \in 1..Len(chanB') : j + 1 \in 1..Len(chanB) /\ chanB'[j] = chanB[j + 1]
  <2>1. e \in GoodEvent /\ chanB' \in Seq(GoodEvent) /\ Len(chanB') = Len(chanB) - 1
        /\ \A j \in 1..Len(chanB') : chanB'[j] = chanB[j + 1]
    BY <1>1, <1>3, <1>4, HeadTailProperties
  <2>2. Len(chanB) \in Nat /\ 1 \in 1..Len(chanB) /\ chanB[1] = e
    BY <1>1, <1>3, <1>4
  <2> QED BY <2>1, <2>2
<1>6. e \in RawEvent /\ x \in Turns /\ e.i \in Nat
  BY <1>2, <1>5 DEF GoodEvent, RawEvent
<1>7. \A j \in 1..Len(chanB) : j # 1 => j - 1 \in 1..Len(chanB') /\ chanB'[j - 1] = chanB[j]
  BY <1>5
<1>8. /\ turns' \in Seq(GoodTurn) /\ Apart(turns')
      /\ \A y : ShowsAnswer(turns, y) => ShowsAnswer(turns', y)
      /\ e.kind = "final" /\ e.ev = "done" /\ cx[x].st # "failed" => ShowsAnswer(turns', x)
  BY <1>1, <1>2, <1>3, AppliedGood
<1>9. \A p \in Requests : Dead(p) => Dead(p)'
  BY <1>3 DEF Dead
<1>10. Grows /\ CodexOK' /\ \A y \in Turns : FinalPassed(y)' => FinalPassed(y)
  BY <1>3, <1>9, CalmGrows
<1>11. phase \subseteq phase' /\ phase' \subseteq phase \cup {<<x, e.i, e.kind>>}
       /\ (phase' # phase => e.kind \in {"commentary", "final"})
       /\ (e.kind = "commentary" /\ e.ev = "start" => <<x, e.i, "commentary">> \in phase')
  BY <1>2, <1>3 DEF PhasesAfter
<1>12. TimelineTypes'
  <2>1. phase' \subseteq Turns \X Nat \X Kinds
    <3>1. e.kind \in {"commentary", "final"} => <<x, e.i, e.kind>> \in Turns \X Nat \X Kinds
      BY <1>6 DEF Kinds
    <3> QED BY <1>4, <1>11, <3>1 DEF TimelineTypes
  <2>2. told' \in [Turns -> BOOLEAN] /\ stale' \subseteq Turns
    BY <1>3, <1>4 DEF TimelineTypes
  <2> QED BY <1>3, <1>4, <2>1, <2>2 DEF TimelineTypes
<1>13. RequestsOK'
  BY <1>3, <1>4 DEF RequestsOK
<1>14. StreamOK'
  BY <1>3, <1>4 DEF StreamOK, FinalPassed
<1>15. PhasesOK'
  <2>1. ASSUME NEW y \in Turns, NEW i \in Nat, NEW k \in Kinds, <<y, i, k>> \in phase'
        PROVE  i \in 1..Len(cx[y].script) /\ cx[y].script[i] = k
    <3>1. CASE <<y, i, k>> \in phase
      BY <1>4, <3>1 DEF PhasesOK
    <3>2. CASE <<y, i, k>> \notin phase
      <4>1. y = x /\ i = e.i /\ k = e.kind /\ e.kind \in {"commentary", "final"}
        BY <1>11, <2>1, <3>2
      <4> QED BY <1>2, <1>5, <4>1 DEF GoodEvent
    <3> QED BY <3>1, <3>2
  <2> QED BY <1>3, <2>1 DEF PhasesOK
<1>16. turns' \in Seq(GoodTurn') /\ chanB' \in Seq(GoodEvent')
  BY <1>4, <1>5, <1>8, <1>10, EntriesStay, EventsStay, SeqMonotonic
<1>17. EndIsLast'
  <2>1. ASSUME NEW j \in 1..Len(chanB'), NEW k \in 1..Len(chanB'), j < k, chanB'[j].x = chanB'[k].x
        PROVE  chanB'[j].ev # "end"
    <3>1. j + 1 \in 1..Len(chanB) /\ k + 1 \in 1..Len(chanB) /\ j + 1 < k + 1
          /\ chanB'[j] = chanB[j + 1] /\ chanB'[k] = chanB[k + 1]
      BY <1>5, <2>1
    <3> QED BY <1>4, <2>1, <3>1 DEF EndIsLast
  <2> QED BY <2>1 DEF EndIsLast
<1>18. ASSUME NEW y, NEW i, NEW n \in Nat, Started(y, i, n + 1)
       PROVE  \/ <<y, i, "commentary">> \in phase'
              \/ \E k \in 1..Len(chanB') :
                   k < n /\ chanB'[k] = [x |-> y, i |-> i, kind |-> "commentary", ev |-> "start"]
  <2>1. CASE <<y, i, "commentary">> \in phase
    BY <1>11, <2>1
  <2>2. CASE <<y, i, "commentary">> \notin phase
    <3>1. PICK k \in 1..Len(chanB) :
            k < n + 1 /\ chanB[k] = [x |-> y, i |-> i, kind |-> "commentary", ev |-> "start"]
      BY <1>18, <2>2 DEF Started
    <3>2. CASE k = 1
      <4>1. e.x = y /\ e.i = i /\ e.kind = "commentary" /\ e.ev = "start"
        BY <1>5, <3>1, <3>2
      <4> QED BY <1>2, <1>11, <4>1
    <3>3. CASE k # 1
      <4>1. k - 1 \in 1..Len(chanB') /\ k - 1 < n /\ chanB'[k - 1] = chanB[k]
        BY <1>7, <3>1, <3>3
      <4> QED BY <3>1, <4>1
    <3> QED BY <3>2, <3>3
  <2> QED BY <2>1, <2>2
<1>19. CommentaryStarts'
  <2>1. ASSUME NEW j \in 1..Len(chanB'), chanB'[j].kind = "commentary", chanB'[j].ev = "delta",
               chanB'[j].x \notin missed
        PROVE  \/ <<chanB'[j].x, chanB'[j].i, "commentary">> \in phase'
               \/ \E k \in 1..Len(chanB') :
                    /\ k < j
                    /\ chanB'[k] = [x |-> chanB'[j].x, i |-> chanB'[j].i, kind |-> "commentary", ev |-> "start"]
    <3>1. j + 1 \in 1..Len(chanB) /\ chanB'[j] = chanB[j + 1] /\ j \in Nat
      BY <1>5
    <3>2. Started(chanB[j + 1].x, chanB[j + 1].i, j + 1)
      BY <1>4, <2>1, <3>1 DEF CommentaryStarts
    <3> QED BY <1>18, <3>1, <3>2
  <2>2. ASSUME NEW y \in Turns, Begun(y), y \notin missed, ~Over(y), Kind(y) = "commentary", cx[y].stage > 1
        PROVE  \/ <<y, cx[y].pos, "commentary">> \in phase'
               \/ \E k \in 1..Len(chanB') :
                    /\ k < Len(chanB') + 1
                    /\ chanB'[k] = [x |-> y, i |-> cx[y].pos, kind |-> "commentary", ev |-> "start"]
    <3>1. Len(chanB) + 1 = (Len(chanB') + 1) + 1 /\ Len(chanB') + 1 \in Nat
      BY <1>5
    <3>2. Started(y, cx[y].pos, Len(chanB) + 1)
      BY <1>4, <2>2 DEF CommentaryStarts
    <3> QED BY <1>18, <3>1, <3>2
  <2>3. \A y : (Begun(y)' <=> Begun(y)) /\ (Over(y)' <=> Over(y)) /\ Kind(y)' = Kind(y)
    BY <1>3 DEF Begun, Over, Kind
  <2> QED BY <1>3, <2>1, <2>2, <2>3 DEF CommentaryStarts, Started
<1>20. ASSUME NEW y \in Turns, FinalComes(y), ~FinalComes(y)'
       PROVE  y = x /\ e.kind = "final" /\ e.ev = "done"
  <2>1. PICK j \in 1..Len(chanB) : chanB[j].x = y /\ chanB[j].kind = "final" /\ chanB[j].ev = "done"
    BY <1>20 DEF FinalComes
  <2>2. j = 1
    <3>1. SUFFICES ASSUME j # 1 PROVE FALSE
      OBVIOUS
    <3>2. j - 1 \in 1..Len(chanB') /\ chanB'[j - 1] = chanB[j]
      BY <1>7, <3>1
    <3> QED BY <1>20, <2>1, <3>2 DEF FinalComes
  <2> QED BY <1>2, <1>5, <2>1, <2>2
<1>21. ASSUME NEW y \in Turns, y \notin missed, y \notin stale', FinalPassed(y), cx[y].st # "failed",
              ~FinalComes(y)'
       PROVE  ShowsAnswer(turns', y)
  <2>1. CASE y = x /\ e.kind = "final" /\ e.ev = "done"
    BY <1>8, <1>21, <2>1
  <2>2. CASE ~(y = x /\ e.kind = "final" /\ e.ev = "done")
    <3>1. y \notin stale /\ ~FinalComes(y)
      BY <1>3, <1>20, <1>21, <2>2
    <3> QED BY <1>4, <1>8, <1>21, <3>1 DEF HeardIsShown
  <2> QED BY <2>1, <2>2
<1>22. HeardIsShown'
  BY <1>3, <1>10, <1>21 DEF HeardIsShown
<1>23. ToldIsShown'
  <2>1. ASSUME NEW y \in Turns, told'[y]
        PROVE  told[y] \/ (y = x /\ e.ev = "end" /\ y \notin missed)
    BY <1>3, <1>4, <2>1 DEF TimelineTypes
  <2>2. e.ev = "end" => cx[x].st \in {"completed", "failed"}
    BY <1>2, <1>5 DEF GoodEvent
  <2>3. ASSUME NEW y \in Turns, told'[y]
        PROVE  cx[y].st = "completed" \/ Broken(y)
    BY <1>4, <2>1, <2>2, <2>3 DEF ToldIsShown, Broken
  <2>4. ASSUME NEW y \in Turns, told'[y], y \notin stale', FinalPassed(y), cx[y].st # "failed"
        PROVE  ShowsAnswer(turns', y)
    <3>1. CASE y = x /\ e.kind = "final" /\ e.ev = "done"
      BY <1>8, <2>4, <3>1
    <3>2. CASE ~(y = x /\ e.kind = "final" /\ e.ev = "done") /\ told[y]
      <4>1. y \notin stale
        BY <1>3, <2>4, <3>2
      <4> QED BY <1>4, <1>8, <2>4, <3>2, <4>1 DEF ToldIsShown
    <3>3. CASE y = x /\ e.ev = "end" /\ y \notin missed
      <4>1. ~FinalComes(y)'
        <5>1. ASSUME NEW j \in 1..Len(chanB') PROVE chanB'[j].x # x
          <6>1. j + 1 \in 1..Len(chanB) /\ 1 < j + 1 /\ chanB'[j] = chanB[j + 1]
            BY <1>5
          <6> QED BY <1>2, <1>4, <1>5, <3>3, <6>1 DEF EndIsLast
        <5> QED BY <3>3, <5>1 DEF FinalComes
      <4> QED BY <1>21, <2>4, <3>3, <4>1
    <3> QED BY <2>1, <2>4, <3>1, <3>2, <3>3
  <2>5. \A y : Broken(y)' <=> Broken(y)
    BY <1>3 DEF Broken
  <2> QED BY <1>3, <1>10, <2>3, <2>4, <2>5 DEF ToldIsShown
<1>24. (~sub => chanB = <<>>)'
  BY <1>3 DEF TimelineInv
<1> QED BY <1>3, <1>8, <1>10, <1>12, <1>13, <1>14, <1>15, <1>16, <1>17, <1>19, <1>22, <1>23, <1>24, Untouched DEF TimelineInv
-----------------------------------------------------------------------------
(* The invariant, and what follows from it.                                *)

LEMMA TimelineStep ==
  ASSUME TimelineInv, [TimelineNext]_timelineVars
  PROVE  TimelineInv'
<1>1. ASSUME NEW q \in Requests, submit_text_instruction(q) PROVE TimelineInv'
  <2>1. PICK planMode \in BOOLEAN : start_turn(q, planMode)
    BY <1>1 DEF submit_text_instruction
  <2>2. UNCHANGED <<cx, stream, chanA, chanB, sub, phase, turns, page, missed, told, stale>>
    BY <1>1 DEF submit_text_instruction
  <2> QED BY <2>1, <2>2, StartTurnInv
<1>2. ASSUME NEW q \in Requests, NEW q2 \in Requests, NEW action \in {"approve", "revise"},
             spawn_outbound_follow_up(q, q2, action)
      PROVE  TimelineInv'
  <2>1. PICK planMode \in BOOLEAN : planMode = (action # "approve")
    OBVIOUS
  <2>2. start_turn(q2, planMode)
    BY <1>2, <2>1 DEF spawn_outbound_follow_up
  <2>3. UNCHANGED <<cx, stream, chanA, chanB, sub, phase, turns, page, missed, told, stale>>
    BY <1>2 DEF spawn_outbound_follow_up
  <2> QED BY <2>2, <2>3, StartTurnInv
<1>3. ASSUME NEW q \in Requests,
             StartReturns(q) \/ TurnNotStarted(q) \/ resolve_interaction_request(q)
      PROVE  TimelineInv'
  BY <1>3, StartReturnsInv, TurnNotStartedInv, RespondInv
<1>4. ASSUME NEW q \in Requests, NEW x \in Turns, NEW s \in Scripts[x], start_turn_request(q, x, s)
      PROVE  TimelineInv'
  BY <1>4, StartTurnRequestInv
<1>5. ASSUME NEW x \in Turns, NEW st \in {"completed", "failed"}, AppStep(x, st)
      PROVE  TimelineInv'
  BY <1>5, AppStepInv
<1>6. ASSUME NEW x \in Turns, NEW s \in Scripts[x], ForeignTurn(x, s)
      PROVE  TimelineInv'
  BY <1>6, ForeignTurnInv
<1>7. ASSUME NEW x \in Turns, BlockedTimesOut(x)
      PROVE  TimelineInv'
  BY <1>7, BlockedTimesOutInv
<1>8. CASE handle_codex_turn_event \/ apply_codex_thread_timeline_event
  BY <1>8, HandleTurnEventInv, ApplyEventInv
<1>9. CASE PageRead \/ PageArrives
  BY <1>9, PageReadInv, PageArrivesInv
<1>10. CASE list_bro_timeline_page \/ Select \/ Reconnected
  BY <1>10, SelectInv
<1>11. CASE Deselect \/ ConnectionLost
  BY <1>11, DeselectInv, ConnectionLostInv
<1>12. CASE UNCHANGED timelineVars
  BY <1>12, TimelineStutters
<1> QED BY <1>1, <1>2, <1>3, <1>4, <1>5, <1>6, <1>7, <1>8, <1>9, <1>10, <1>11, <1>12 DEF TimelineNext

\* In every state that the channels, the pages and the answers can lead to, the
\* timeline is what the turns have come to: its entries are of different turns,
\* each says what is true of its turn for good, and a turn whose end has been
\* told is shown with its final answer.
THEOREM TimelineInvariant == TimelineSpec => []TimelineInv
<1>1. TimelineInit => TimelineInv
  BY TimelineBegins
<1>2. TimelineInv /\ [TimelineNext]_timelineVars => TimelineInv'
  BY TimelineStep
<1> QED BY <1>1, <1>2, PTL DEF TimelineSpec

\* An entry with a turn's client id is that turn's.
LEMMA ClientIsOfTurn ==
  ASSUME TimelineTypes, RequestsOK, NEW x \in Turns, NEW t \in GoodTurn,
         cx[x].q # Nil, t.client = cx[x].q
  PROVE  t.exec = x
<1>1. t.exec \in MaybeTurn
  BY TurnFields DEF GoodTurn
<1>2. CASE t.exec = Nil
  <2>1. Dead(t.client)
    BY <1>2 DEF GoodTurn
  <2> QED BY <2>1 DEF Dead
<1>3. CASE t.exec # Nil
  <2>1. t.exec \in Turns /\ cx[t.exec].q = cx[x].q
    BY <1>1, <1>3 DEF GoodTurn, MaybeTurn
  <2> QED BY <2>1 DEF RequestsOK
<1> QED BY <1>2, <1>3

\* upsert_bro_thread_executor_turn and _build_bro_timeline_projection, which
\* match entries by turn id, executor turn and client id, send clients at most
\* one bubble for a Codex turn and the request that started it, for any number
\* of turns and requests and whatever the order of the channels and pages.
THEOREM TimelineOneBubble == TimelineSpec => []OneBubblePerTurn
<1>1. ASSUME TimelineInv PROVE OneBubblePerTurn
  <2>1. TimelineTypes /\ RequestsOK /\ turns \in Seq(GoodTurn) /\ Apart(turns)
    BY <1>1 DEF TimelineInv
  <2>2. Projection = turns
    BY <2>1, ProjectionIsTurns
  <2>3. DOMAIN turns = 1..Len(turns) /\ \A i \in 1..Len(turns) : turns[i] \in GoodTurn
    BY <2>1
  <2>4. SUFFICES ASSUME NEW x \in Turns
                 PROVE  Cardinality({i \in DOMAIN turns :
                          turns[i].exec = x \/ (cx[x].q # Nil /\ turns[i].client = cx[x].q)}) <= 1
    BY <2>2 DEF OneBubblePerTurn
  <2>5. PICK I : I = {i \in DOMAIN turns :
                        turns[i].exec = x \/ (cx[x].q # Nil /\ turns[i].client = cx[x].q)}
    OBVIOUS
  <2>6. \A i \in I : i \in 1..Len(turns) /\ turns[i].exec = x
    BY <2>1, <2>3, <2>5, ClientIsOfTurn
  <2>7. x # Nil
    BY NilAssumption
  <2>8. \A i, j \in I : i = j
    BY <2>1, <2>6, <2>7 DEF Apart
  <2>9. CASE I = {}
    <3>1. Cardinality({}) = 0
      BY FS_EmptySet
    <3>2. Cardinality(I) = 0
      BY <2>9, <3>1
    <3> QED BY <2>5, <3>2
  <2>10. CASE I # {}
    <3>1. PICK i \in I : I = {i}
      BY <2>8, <2>10
    <3>2. Cardinality({i}) = 1
      BY FS_Singleton
    <3> QED BY <2>5, <3>1, <3>2
  <2> QED BY <2>9, <2>10
<1> QED BY <1>1, TimelineInvariant, PTL

\* apply_codex_thread_timeline_event knows the phase of an item from its start:
\* of a turn that runs, and of which channel B has carried every event, no
\* commentary is in the answer, with any number of turns and any items.
THEOREM TimelineCommentary == TimelineSpec => []CommentaryIsNoAnswer
<1>1. ASSUME TimelineInv PROVE CommentaryIsNoAnswer
  <2>1. TimelineTypes /\ RequestsOK /\ turns \in Seq(GoodTurn) /\ Apart(turns)
    BY <1>1 DEF TimelineInv
  <2>2. \A b \in Bubbles : b \in GoodTurn
    BY <2>1, BubblesAreTurns
  <2> QED BY <2>2 DEF CommentaryIsNoAnswer, GoodTurn
<1> QED BY <1>1, TimelineInvariant, PTL

\* Whatever the order in which the two channels and the pages were merged: at
\* rest a turn whose end some source has delivered shows its final answer.
THEOREM TimelineAnswer == TimelineSpec => []AnswerAtRest
<1>1. ASSUME TimelineInv PROVE AnswerAtRest
  <2>1. TimelineTypes /\ CodexOK /\ RequestsOK /\ ToldIsShown /\ turns \in Seq(GoodTurn) /\ Apart(turns)
    BY <1>1 DEF TimelineInv
  <2>2. SUFFICES ASSUME NEW x \in Turns, told[x], x \notin stale, cx[x].st = "completed",
                        "final" \in Range(cx[x].script)
                 PROVE  \E b \in Bubbles :
                          b.exec = x /\ b.status = "completed" /\ b.asst = Answer("final", "completed")
    BY DEF AnswerAtRest
  <2>3. FinalPassed(x)
    <3>1. /\ cx[x].script \in Seq(Kinds) /\ Len(cx[x].script) \in Nat /\ cx[x].pos \in Nat
          /\ cx[x].pos > Len(cx[x].script)
      BY <2>1, <2>2, TurnsOfCodex DEF CodexOK, Over
    <3>2. PICK i \in 1..Len(cx[x].script) : cx[x].script[i] = "final"
      BY <2>2, <3>1 DEF Range
    <3> QED BY <3>1, <3>2 DEF FinalPassed
  <2>4. ShowsAnswer(turns, x)
    BY <2>1, <2>2, <2>3 DEF ToldIsShown
  <2> QED BY <2>1, <2>4, BubblesAreTurns DEF ShowsAnswer, FinalAnswer
<1> QED BY <1>1, TimelineInvariant, PTL

\* Settled, in terms of the entries.
SettledInTurns == \A x \in Turns : Settled(x) <=> ShowsAnswer(turns, x)

LEMMA ShownStays ==
  ASSUME TimelineInv, [TimelineNext]_timelineVars, NEW x \in Turns, ShowsAnswer(turns, x),
         ~(page' # page /\ Overtakes(x)), ~(FailureNext(x) /\ chanA' = Tail(chanA))
  PROVE  ShowsAnswer(turns', x)
<1>1. CASE turns' = turns
  BY <1>1
<1>2. ASSUME NEW q \in Requests, resolve_interaction_request(q) PROVE ShowsAnswer(turns', x)
  BY <1>2, RespondInv
<1>3. CASE handle_codex_turn_event
  <2>1. ~FailureNext(x)
    BY <1>3 DEF handle_codex_turn_event
  <2> QED BY <1>3, <2>1, HandleTurnEventInv
<1>4. CASE apply_codex_thread_timeline_event
  BY <1>4, ApplyEventInv
<1>5. CASE PageArrives
  <2>1. /\ page.at = "read" /\ page' = NoPage
        /\ turns' = Merged(turns, _timeline_turns_from_codex_thread(page.turns))
    BY <1>5 DEF PageArrives
  <2>2. ~Overtakes(x)
    BY <2>1 DEF NoPage
  <2>3. TimelineTypes /\ CodexOK /\ RequestsOK /\ GoodPage /\ turns \in Seq(GoodTurn) /\ Apart(turns)
    BY DEF TimelineInv
  <2>4. FinalPassed(x)
    BY <2>3, ShownHasPassed
  <2> QED BY <2>1, <2>2, <2>3, <2>4, PageMerge
<1>6. \/ turns' = turns
      \/ \E q \in Requests : resolve_interaction_request(q)
      \/ handle_codex_turn_event \/ apply_codex_thread_timeline_event \/ PageArrives
  BY DEF TimelineNext, timelineVars, submit_text_instruction, StartReturns, TurnNotStarted, start_turn_request,
         spawn_outbound_follow_up, AppStep, ForeignTurn, BlockedTimesOut, list_bro_timeline_page,
         PageRead, Select, Deselect, ConnectionLost, Reconnected
<1> QED BY <1>1, <1>2, <1>3, <1>4, <1>5, <1>6

\* _merge_timeline_turn and settle_selected_thread_turn leave a turn settled
\* that shows its final answer, under every step but the merge of a page that
\* was read while the turn was in flight, and of the app-server's own report
\* that the turn failed after that answer.
THEOREM TimelineSettled == TimelineSpec => SettledStays
<1>1. ASSUME TimelineInv PROVE SettledInTurns
  BY <1>1, SettledIsShown DEF TimelineInv, SettledInTurns
<1>2. ASSUME TimelineInv, SettledInTurns, SettledInTurns', [TimelineNext]_timelineVars
      PROVE  [\A x \in Turns :
                /\ Settled(x)
                /\ ~(page' # page /\ Overtakes(x))
                /\ ~(FailureNext(x) /\ chanA' = Tail(chanA))
                => Settled(x)']_timelineVars
  <2>1. ASSUME NEW x \in Turns, Settled(x), ~(page' # page /\ Overtakes(x)),
               ~(FailureNext(x) /\ chanA' = Tail(chanA))
        PROVE  Settled(x)'
    <3>1. ShowsAnswer(turns, x)
      BY <1>2, <2>1 DEF SettledInTurns
    <3>2. ShowsAnswer(turns', x)
      BY <1>2, <2>1, <3>1, ShownStays
    <3> QED BY <1>2, <3>2 DEF SettledInTurns
  <2> QED BY <2>1
<1>3. SettledStays <=> [][\A x \in Turns :
                            /\ Settled(x)
                            /\ ~(page' # page /\ Overtakes(x))
                            /\ ~(FailureNext(x) /\ chanA' = Tail(chanA))
                            => Settled(x)']_timelineVars
  BY DEF SettledStays
<1> QED BY <1>1, <1>2, <1>3, TimelineInvariant, PTL DEF TimelineSpec

==============================================================================
