------------------------- MODULE ThreadSubscriptions -------------------------
(***************************************************************************)
(* The live view of one Bro's selected Codex thread: the session runtime   *)
(* keeps at most one subscription per Bro, the executor node streams the   *)
(* thread's events for it, and the Codex app server feeds the node the     *)
(* events of the threads it has resumed.  Selecting another thread stops   *)
(* the old subscription in the background; every request may time out, and *)
(* the websocket between runtime and node may be lost at any moment.       *)
(***************************************************************************)
EXTENDS Naturals, Sequences, FiniteSets

CONSTANTS Calls,      \* HTTP requests that subscribe or unsubscribe the Bro
          Threads,    \* Codex threads the Bro can show
          MaxSubs,    \* bound: subscriptions made
          MaxDrops,   \* bound: losses of the websocket
          MaxEvents   \* bound: events of the app server

Subs == 1..MaxSubs
None == 0
Nobody == "nobody"
AnyThread == "any"

ASSUME SubscriptionAssumption ==
  /\ Nobody \notin Calls /\ AnyThread \notin Threads
  /\ MaxSubs \in Nat /\ MaxDrops \in Nat /\ MaxEvents \in Nat

VARIABLES
  selected,  \* selected_codex_thread_subscriptions of the Bro, or None
  made,      \* subscriptions made so far; the next one's id is made + 1
  thread,    \* the thread of each subscription
  lock,      \* subscribe_bro_thread_locks: the call that holds it, or Nobody
  call,      \* per call: [pc, thread, sub]
  bg,        \* per subscription: its background unsubscription
  closer,    \* the subscription the control loop itself is stopping, or None
  open,      \* unanswered requests of the node manager: <<kind, sub>>
  answers,   \* answered requests whose waiter has not run yet
  conn,      \* the node is registered with the runtime
  link,      \* the websocket is open
  drops, down, up,
  node,      \* "ready", "cleaning" or "away"
  cmds,      \* the node's background commands that have not begun
  ctx,       \* _codex_thread_subscriptions: the subscriptions with a context
  task,      \* per subscription: its resume-and-stream task
  stopping,  \* per subscription: how far its stop on the node has come
  sweep,     \* the cleanup after a lost websocket: [left, now]
  queue,     \* _thread_subscription_queues: the subscriptions that are fed
  rpc,       \* requests to the app server not yet answered
  feed,      \* app server: the threads it sends events of
  events,    \* events sent so far
  since,     \* history: subscriptions made over the present websocket and resumed well
  late,      \* history: subscriptions whose context appeared during a cleanup
  overrun,   \* history: subscriptions whose resume another's unsubscription follows
  loose      \* history: threads resumed for a subscription cancelled meanwhile

callVars == <<lock, call>>
reqVars == <<open, answers>>
wireVars == <<conn, link, drops, down, up>>
nodeVars == <<node, cmds, ctx, task, stopping, sweep>>
appHistory == <<overrun, loose>>
history == <<since, late, appHistory>>
appVars == <<queue, rpc, feed, events>>
serverVars == <<selected, made, thread, bg, closer>>
vars == <<serverVars, callVars, reqVars, wireVars, nodeVars, appVars, history>>

Pcs == {"idle", "queued", "subscribing", "cleanup", "stopping", "done", "failed"}

TypeOK ==
  /\ selected \in 0..MaxSubs /\ made \in 0..MaxSubs
  /\ thread \in [Subs -> Threads \cup {AnyThread}]
  /\ lock \in Calls \cup {Nobody}
  /\ call \in [Calls -> [pc : Pcs, op : {"subscribe", "unsubscribe"},
                         thread : Threads \cup {AnyThread}, sub : 0..MaxSubs]]
  /\ bg \in [Subs -> {"none", "created", "waiting", "done"}] /\ closer \in 0..MaxSubs
  /\ open \subseteq {"sub", "unsub"} \X Subs /\ answers \subseteq {"sub", "unsub"} \X Subs
  /\ conn \in BOOLEAN /\ link \in BOOLEAN /\ drops \in 0..MaxDrops
  /\ node \in {"ready", "cleaning", "away"}
  /\ ctx \subseteq Subs /\ queue \subseteq Subs /\ late \subseteq Subs
  /\ stopping \in [Subs -> {"no", "cancelled", "asked"}]
  /\ sweep \in [left : SUBSET Subs, now : 0..MaxSubs]
  /\ task \in [Subs -> {"none", "created", "resuming", "streaming", "dead"}]
  /\ feed \subseteq Threads /\ events \in 0..MaxEvents /\ since \subseteq Subs
  /\ overrun \subseteq Subs /\ loose \subseteq Threads

Init ==
  /\ selected = None /\ made = 0 /\ thread = [s \in Subs |-> AnyThread]
  /\ lock = Nobody
  /\ call = [c \in Calls |-> [pc |-> "idle", op |-> "subscribe", thread |-> AnyThread, sub |-> None]]
  /\ bg = [s \in Subs |-> "none"] /\ closer = None /\ open = {} /\ answers = {}
  /\ conn = TRUE /\ link = TRUE /\ drops = 0 /\ down = <<>> /\ up = <<>>
  /\ node = "ready" /\ cmds = <<>> /\ ctx = {} /\ task = [s \in Subs |-> "none"] /\ stopping = [s \in Subs |-> "no"]
  /\ sweep = [left |-> {}, now |-> None]
  /\ queue = {} /\ rpc = <<>> /\ feed = {} /\ events = 0 /\ since = {} /\ late = {}
  /\ overrun = {} /\ loose = {}
-----------------------------------------------------------------------------
(* The session runtime                                                     *)

\* A request over the node manager.  Sent: its future waits; otherwise the
\* caller hears at once that the node is unavailable.
CanSend == conn /\ link
Sending(k, s) == /\ down' = Append(down, <<k, s>>)
                 /\ open' = open \cup {<<k, s>>}

\* subscribe_bro_thread and unsubscribe_bro_thread up to the Bro's lock.
subscribe_bro_thread(c, t) ==
  /\ call[c].pc = "idle" /\ conn
  /\ call' = [call EXCEPT ![c] = [pc |-> "queued", op |-> "subscribe", thread |-> t, sub |-> None]]
  /\ UNCHANGED <<serverVars, lock, reqVars, wireVars, nodeVars, appVars, history>>

unsubscribe_bro_thread(c, t) ==
  /\ call[c].pc = "idle"
  /\ call' = [call EXCEPT ![c] = [pc |-> "queued", op |-> "unsubscribe", thread |-> t, sub |-> None]]
  /\ UNCHANGED <<serverVars, lock, reqVars, wireVars, nodeVars, appVars, history>>

Finish(c, pc) == /\ call' = [call EXCEPT ![c].pc = pc]
                 /\ lock' = Nobody

\* The subscription popped by a stop with wait=False is ended by a task of
\* its own.
StopInBackground == bg' = IF selected = None THEN bg ELSE [bg EXCEPT ![selected] = "created"]

Shows(t) == selected # None /\ thread[selected] = t

\* _subscribe_bro_thread_locked when the thread is already selected.
AlreadySelected(c) ==
  /\ lock = Nobody /\ call[c].pc = "queued" /\ call[c].op = "subscribe"
  /\ Shows(call[c].thread)
  /\ Finish(c, "done")
  /\ UNCHANGED <<serverVars, reqVars, wireVars, nodeVars, appVars, history>>

\* replace_selected_codex_thread_subscription up to the node's answer: the new
\* subscription is stored before it is requested.
replace_selected(c) ==
  /\ lock = Nobody /\ call[c].pc = "queued" /\ call[c].op = "subscribe"
  /\ ~Shows(call[c].thread)
  /\ made < MaxSubs
  /\ StopInBackground
  /\ made' = made + 1
  /\ thread' = [thread EXCEPT ![made + 1] = call[c].thread]
  /\ IF CanSend
     THEN /\ selected' = made + 1
          /\ Sending("sub", made + 1)
          /\ call' = [call EXCEPT ![c].pc = "subscribing", ![c].sub = made + 1]
          /\ lock' = c
          /\ since' = since \cup {made + 1}
     ELSE /\ selected' = None
          /\ Finish(c, "failed")
          /\ UNCHANGED <<open, down, since>>
  /\ UNCHANGED <<closer, answers, conn, link, drops, up, nodeVars, appVars, late, appHistory>>

SubscribeReturns(c) ==
  LET q == <<"sub", call[c].sub>> IN
  /\ call[c].pc = "subscribing" /\ q \in answers
  /\ answers' = answers \ {q}
  /\ Finish(c, "done")
  /\ UNCHANGED <<serverVars, open, wireVars, nodeVars, appVars, history>>

\* Fault: a subscription that was not confirmed is left to the node.
SubscribeGivesUpQuietly(c) ==
  LET s == call[c].sub IN
  /\ call[c].pc = "subscribing" /\ <<"sub", s>> \in open
  /\ selected' = IF selected = s THEN None ELSE selected
  /\ open' = open \ {<<"sub", s>>} /\ Finish(c, "failed") /\ UNCHANGED down
  /\ UNCHANGED <<made, thread, bg, closer, answers, conn, link, drops, up, nodeVars, appVars, history>>

\* The request times out, or the HTTP caller goes away: the subscription is
\* taken back, if it is still the selected one, and the node is told to stop.
SubscribeGivesUp(c) ==
  LET s == call[c].sub IN
  /\ call[c].pc = "subscribing" /\ <<"sub", s>> \in open
  /\ selected' = IF selected = s THEN None ELSE selected
  /\ IF CanSend
     THEN /\ down' = Append(down, <<"unsub", s>>)
          /\ open' = (open \ {<<"sub", s>>}) \cup {<<"unsub", s>>}
          /\ call' = [call EXCEPT ![c].pc = "cleanup"]
          /\ UNCHANGED lock
     ELSE open' = open \ {<<"sub", s>>} /\ Finish(c, "failed") /\ UNCHANGED down
  /\ UNCHANGED <<made, thread, bg, closer, answers, conn, link, drops, up, nodeVars, appVars, history>>

\* unsubscribe_bro_thread under the lock, up to the node's answer.
stop_selected(c) ==
  LET s == selected IN
  /\ lock = Nobody /\ call[c].pc = "queued" /\ call[c].op = "unsubscribe"
  /\ IF s = None \/ call[c].thread \notin {AnyThread, thread[s]}
     THEN Finish(c, "done") /\ UNCHANGED <<selected, down, open>>
     ELSE /\ selected' = None
          /\ IF CanSend
             THEN /\ Sending("unsub", s)
                  /\ call' = [call EXCEPT ![c].pc = "stopping", ![c].sub = s]
                  /\ lock' = c
             ELSE Finish(c, "done") /\ UNCHANGED <<down, open>>
  /\ UNCHANGED <<made, thread, bg, closer, answers, conn, link, drops, up, nodeVars, appVars, history>>

\* An unsubscription ends with the node's answer or at its timeout.
Ended(s) == /\ <<"unsub", s>> \in open \cup answers
            /\ open' = open \ {<<"unsub", s>>}
            /\ answers' = answers \ {<<"unsub", s>>}

UnsubscribeReturns(c) ==
  /\ call[c].pc \in {"cleanup", "stopping"}
  /\ Ended(call[c].sub)
  /\ Finish(c, IF call[c].pc = "cleanup" THEN "failed" ELSE "done")
  /\ UNCHANGED <<serverVars, wireVars, nodeVars, appVars, history>>

\* The task made by stop_selected_codex_thread_subscription(wait=False).
BackgroundUnsubscribe(s) ==
  /\ bg[s] = "created"
  /\ IF CanSend THEN Sending("unsub", s) ELSE UNCHANGED <<open, down>>
  /\ bg' = [bg EXCEPT ![s] = IF CanSend THEN "waiting" ELSE "done"]
  /\ UNCHANGED <<selected, made, thread, closer, callVars, answers, conn, link, drops, up, nodeVars, appVars, history>>

BackgroundReturns(s) ==
  /\ bg[s] = "waiting"
  /\ Ended(s)
  /\ bg' = [bg EXCEPT ![s] = "done"]
  /\ UNCHANGED <<selected, made, thread, closer, callVars, wireVars, nodeVars, appVars, history>>
-----------------------------------------------------------------------------
(* The control loop in the runtime: one message at a time, in order.       *)

Received(k) == closer = None /\ conn /\ up # <<>> /\ Head(up)[1] = k /\ up' = Tail(up)

\* publish_codex_thread_subscribed and _unsubscribed: an answer nobody waits
\* for any more is refused.
publish_reply ==
  /\ \E k \in {"sub", "unsub"} :
       /\ Received(k)
       /\ LET q == <<k, Head(up)[2]>> IN
            /\ answers' = IF q \in open THEN answers \cup {q} ELSE answers
            /\ open' = open \ {q}
  /\ UNCHANGED <<serverVars, callVars, conn, link, drops, down, nodeVars, appVars, history>>

\* handle_codex_thread_event: events of any other subscription are dropped.
ThreadEvent ==
  /\ Received("event")
  /\ UNCHANGED <<serverVars, callVars, reqVars, conn, link, drops, down, nodeVars, appVars, history>>

\* thread/closed: the control loop awaits the unsubscription, whose answer
\* only the control loop can receive.
ThreadClosed ==
  /\ Received("closed")
  /\ IF Head(up)[2] = selected
     THEN /\ selected' = None
          /\ IF CanSend THEN Sending("unsub", selected) /\ closer' = selected
                        ELSE UNCHANGED <<down, open, closer>>
     ELSE UNCHANGED <<selected, closer, down, open>>
  /\ UNCHANGED <<made, thread, bg, callVars, answers, conn, link, drops, nodeVars, appVars, history>>

\* wait_for's two seconds are over.
CloserTimeout ==
  /\ closer # None
  /\ Ended(closer)
  /\ closer' = None
  /\ UNCHANGED <<selected, made, thread, bg, callVars, wireVars, nodeVars, appVars, history>>

\* The websocket is lost, the runtime notices, and the node comes back once
\* both sides have.
Drop ==
  /\ link /\ drops < MaxDrops
  /\ link' = FALSE /\ drops' = drops + 1
  /\ UNCHANGED <<serverVars, callVars, reqVars, conn, down, up, nodeVars, appVars, history>>

disconnect ==
  /\ conn /\ ~link /\ closer = None
  /\ conn' = FALSE /\ up' = <<>> /\ since' = {}
  /\ UNCHANGED <<serverVars, callVars, reqVars, link, drops, down, nodeVars, appVars, late, appHistory>>

Reconnect ==
  /\ ~conn /\ ~link /\ node = "away"
  /\ conn' = TRUE /\ link' = TRUE /\ down' = <<>> /\ up' = <<>> /\ node' = "ready"
  /\ UNCHANGED <<serverVars, callVars, reqVars, drops, cmds, ctx, task, stopping, sweep, appVars, history>>
-----------------------------------------------------------------------------
(* The node                                                                *)

Reply(m) == up' = IF link THEN Append(up, m) ELSE up

\* _handle_message: both commands become background tasks.
NodeReceive ==
  /\ node = "ready" /\ down # <<>>
  /\ cmds' = Append(cmds, Head(down)) /\ down' = Tail(down)
  /\ UNCHANGED <<serverVars, callVars, reqVars, conn, link, drops, up, node, ctx, task, stopping, sweep, appVars, history>>

Command(k) == cmds # <<>> /\ Head(cmds)[1] = k /\ cmds' = Tail(cmds)

\* _subscribe_codex_thread: the context is there before anything is awaited,
\* and the answer does not wait for the thread to be resumed.
NodeSubscribe ==
  /\ Command("sub")
  /\ LET s == Head(cmds)[2] IN
       /\ ctx' = ctx \cup {s}
       /\ task' = [task EXCEPT ![s] = "created"]
       /\ late' = IF node = "cleaning" THEN late \cup {s} ELSE late
       /\ Reply(<<"sub", s>>)
  /\ UNCHANGED <<serverVars, callVars, reqVars, conn, link, drops, down, node, stopping, sweep, appVars, since, appHistory>>

\* _stop_codex_thread_subscription: the context goes at once and its task is
\* cancelled; the stop goes on when the task has ended.
Stop(s) ==
  /\ ctx' = ctx \ {s} /\ stopping' = [stopping EXCEPT ![s] = "cancelled"]
  /\ task' = [task EXCEPT ![s] = "none"]

\* The end of a stop: the command answers, the cleanup takes the next one.
Stopped(s) ==
  /\ IF sweep.now = s THEN sweep' = [sweep EXCEPT !.now = None] /\ UNCHANGED up
                      ELSE Reply(<<"unsub", s>>) /\ UNCHANGED sweep

\* _unsubscribe_codex_thread: a subscription the node does not know is
\* answered at once.
NodeUnsubscribe ==
  /\ Command("unsub")
  /\ LET s == Head(cmds)[2] IN
       IF s \in ctx THEN Stop(s) /\ UNCHANGED up
                    ELSE Reply(<<"unsub", s>>) /\ UNCHANGED <<ctx, task, stopping>>
  /\ UNCHANGED <<serverVars, callVars, reqVars, conn, link, drops, down, node, sweep, appVars, history>>

\* Fault: the app server is asked to stop whoever else is fed from the thread.
NobodyElse(s) == FALSE

\* unsubscribe_thread: the app server is asked to stop only if no other
\* subscription of the node is fed from the thread.
StillInterested(s) == \E q \in queue \ {s} : thread[q] = thread[s]

\* The subscriptions of the thread whose resume request is before the app server
\* already: they have no queue yet, and what is asked now comes after it.
Resuming(s) == {q \in Subs : task[q] = "resuming" /\ thread[q] = thread[s]}

\* A session that was opened has its queue; without one there is nothing to
\* close.
unsubscribe_thread(s) ==
  /\ stopping[s] = "cancelled"
  /\ queue' = queue \ {s}
  /\ IF s \in queue /\ ~StillInterested(s)
     THEN /\ rpc' = Append(rpc, <<"unsub", s>>)
          /\ stopping' = [stopping EXCEPT ![s] = "asked"]
          /\ overrun' = overrun \cup Resuming(s)
          /\ UNCHANGED <<up, sweep>>
     ELSE /\ stopping' = [stopping EXCEPT ![s] = "no"]
          /\ Stopped(s) /\ UNCHANGED <<rpc, overrun>>
  /\ UNCHANGED <<serverVars, callVars, reqVars, conn, link, drops, down, node, cmds, ctx, task, feed, events, since, late, loose>>

\* _resume_and_stream_codex_thread: thread/resume goes to the app server.
ResumeStarts(s) ==
  /\ task[s] = "created"
  /\ task' = [task EXCEPT ![s] = "resuming"]
  /\ rpc' = Append(rpc, <<"resume", s>>)
  /\ UNCHANGED <<serverVars, callVars, reqVars, wireVars, node, cmds, ctx, stopping, sweep, queue, feed, events, history>>

\* run_forever's except clause: the subscriptions there are when the loss is
\* noticed are stopped in turn, then what is left of the commands is dropped.
NodeLost ==
  /\ node = "ready" /\ ~link
  /\ node' = "cleaning" /\ down' = <<>> /\ sweep' = [left |-> ctx, now |-> None]
  /\ UNCHANGED <<serverVars, callVars, reqVars, conn, link, drops, up, cmds, ctx, task, stopping, appVars, history>>

cancel_codex_thread_subscription(s) ==
  /\ node = "cleaning" /\ sweep.now = None /\ s \in sweep.left
  /\ IF s \in ctx THEN Stop(s) ELSE UNCHANGED <<ctx, task, stopping>>
  /\ sweep' = [left |-> sweep.left \ {s}, now |-> IF s \in ctx THEN s ELSE None]
  /\ UNCHANGED <<serverVars, callVars, reqVars, wireVars, node, cmds, appVars, history>>

\* _cancel_background_commands: a stop that waits for its stream's end swallows
\* the cancellation and is awaited; one that waits for the app server is cut short.
cancel_background_commands ==
  /\ node = "cleaning" /\ sweep = [left |-> {}, now |-> None]
  /\ \A s \in Subs : stopping[s] # "cancelled"
  /\ node' = "away" /\ cmds' = <<>> /\ stopping' = [s \in Subs |-> "no"]
  /\ UNCHANGED <<serverVars, callVars, reqVars, wireVars, ctx, task, sweep, appVars, history>>
-----------------------------------------------------------------------------
(* The Codex app server, external: it answers in order, and sends events   *)
(* of the threads its one connection has resumed.                          *)

AppResumes ==
  /\ rpc # <<>> /\ Head(rpc)[1] = "resume" /\ rpc' = Tail(rpc)
  /\ LET s == Head(rpc)[2] IN
       \/ /\ feed' = feed \cup {thread[s]}
          /\ IF task[s] = "resuming"
             THEN /\ task' = [task EXCEPT ![s] = "streaming"]
                  /\ queue' = queue \cup {s} /\ UNCHANGED loose
             ELSE loose' = loose \cup {thread[s]} /\ UNCHANGED <<task, queue>>
          /\ UNCHANGED <<ctx, since>>
       \/ /\ task' = [task EXCEPT ![s] = IF @ = "resuming" THEN "none" ELSE @]
          /\ ctx' = IF task[s] = "resuming" THEN ctx \ {s} ELSE ctx
          /\ since' = since \ {s}
          /\ UNCHANGED <<feed, queue, loose>>
  /\ UNCHANGED <<serverVars, callVars, reqVars, wireVars, node, cmds, stopping, sweep, events, late, overrun>>

AppUnsubscribes ==
  /\ rpc # <<>> /\ Head(rpc)[1] = "unsub" /\ rpc' = Tail(rpc)
  /\ LET s == Head(rpc)[2] IN
       /\ feed' = feed \ {thread[s]} /\ loose' = loose \ {thread[s]}
       /\ stopping' = [stopping EXCEPT ![s] = IF @ = "asked" THEN "no" ELSE @]
       /\ IF stopping[s] = "asked" THEN Stopped(s) ELSE UNCHANGED <<up, sweep>>
  /\ UNCHANGED <<serverVars, callVars, reqVars, conn, link, drops, down, node, cmds, ctx, task, queue, events, since, late, overrun>>

\* An event reaches every queue of its thread; a stream whose websocket is
\* gone ends with the first event it cannot send.
AppEvent(t, k) ==
  LET fed == {s \in queue : thread[s] = t /\ task[s] = "streaming"} IN
  /\ t \in feed /\ events < MaxEvents
  /\ events' = events + 1
  /\ IF link
     THEN /\ \E seq \in [1..Cardinality(fed) -> fed] :
               /\ \A i, j \in DOMAIN seq : seq[i] = seq[j] => i = j
               /\ up' = up \o [i \in DOMAIN seq |-> <<k, seq[i]>>]
          /\ UNCHANGED task
     ELSE /\ task' = [s \in Subs |-> IF s \in fed THEN "dead" ELSE task[s]]
          /\ UNCHANGED up
  /\ UNCHANGED <<serverVars, callVars, reqVars, conn, link, drops, down, node, cmds, ctx, stopping, sweep, queue, rpc, feed, history>>
-----------------------------------------------------------------------------
Next ==
  \/ \E c \in Calls : \/ \E t \in Threads : subscribe_bro_thread(c, t)
                      \/ \E t \in Threads \cup {AnyThread} : unsubscribe_bro_thread(c, t)
                      \/ AlreadySelected(c) \/ replace_selected(c) \/ SubscribeReturns(c)
                      \/ SubscribeGivesUp(c) \/ stop_selected(c) \/ UnsubscribeReturns(c)
  \/ \E s \in Subs : \/ BackgroundUnsubscribe(s) \/ BackgroundReturns(s)
                     \/ unsubscribe_thread(s)
                     \/ ResumeStarts(s) \/ cancel_codex_thread_subscription(s)
  \/ publish_reply \/ ThreadEvent \/ ThreadClosed \/ CloserTimeout
  \/ Drop \/ disconnect \/ Reconnect
  \/ NodeReceive \/ NodeSubscribe \/ NodeUnsubscribe \/ NodeLost \/ cancel_background_commands
  \/ AppResumes \/ AppUnsubscribes
  \/ \E t \in Threads, k \in {"event", "closed"} : AppEvent(t, k)

Spec == Init /\ [][Next]_vars
-----------------------------------------------------------------------------
\* Nothing is under way between the runtime and the node.
Quiet ==
  /\ conn /\ link /\ node = "ready" /\ closer = None
  /\ down = <<>> /\ up = <<>> /\ cmds = <<>> /\ rpc = <<>>
  /\ \A c \in Calls : call[c].pc \in {"idle", "queued", "done", "failed"}
  /\ \A s \in Subs : bg[s] \in {"none", "done"} /\ task[s] # "created" /\ stopping[s] = "no"

\* Once everything has come to rest, the node streams for the selected
\* subscription and for no other, and the app server feeds it no thread that
\* nobody is subscribed to: no replaced, timed-out or abandoned subscription is
\* left running.  Two exceptions: a subscription that a command set up while the
\* node was cleaning up after a lost websocket, which the cleanup's list of
\* subscriptions misses (late); and a thread that was resumed after its
\* subscription was cancelled: with no session the node never asks the app
\* server to stop it, which goes on sending its events to nobody (loose).
NoStrayStream ==
  Quiet => /\ ctx \ late \subseteq {selected}
           /\ feed \ loose \subseteq {thread[s] : s \in ctx}

\* A subscription made over the present websocket and resumed by the app
\* server is streamed for as long as it is selected, by the node and by the app
\* server, whatever was stopped, timed out or answered late around it.  One
\* exception (overrun): unsubscribe_thread does not see that another
\* subscription of the thread is being resumed, so that the request to stop the
\* thread comes after that resume, and the selected subscription hears nothing.
SelectedIsStreamed ==
  Quiet /\ selected \in since =>
    /\ selected \in ctx /\ task[selected] = "streaming"
    /\ selected \in queue
    /\ selected \notin overrun => thread[selected] \in feed

=============================================================================
