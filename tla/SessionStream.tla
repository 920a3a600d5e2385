--------------------------- MODULE SessionStream ---------------------------
(***************************************************************************)
(* The websocket stream of one runtime session: each connected client has  *)
(* an unbounded event queue that the runtime broadcasts into, an initial   *)
(* snapshot sent before the queue is drained, and a snapshot pump that     *)
(* publishes after blackboard writes while anybody is subscribed.          *)
(*                                                                         *)
(* Building a snapshot and putting it in a queue never suspend, so one     *)
(* step broadcasts.  A queued snapshot holds references: what the client   *)
(* sees is the state of the object when the sender task dumps it, which is *)
(* why Deliver takes the view dumped then.                                 *)
(***************************************************************************)
EXTENDS Naturals, Sequences

CONSTANTS
    Client,      \* the web clients of the session
    MaxLag       \* bound: snapshots waiting in one client's queue

ASSUME LagAssumption == MaxLag \in Nat \ {0}

VARIABLES
    conn,        \* each client's socket: "off", "greeting" or "on"
    queue,       \* snapshots (references) waiting for each client
    greet,       \* the dumped initial snapshot a greeting client is being sent
    shown,       \* the snapshot each client displays
    pump,        \* the snapshot task: "off", "on" or "cancelled" but not ended
    dirty,       \* the pump's blackboard queue holds a write
    leaked,      \* some queue was never unsubscribed
    lapsed       \* history: clients that were connected when a cancelled pump ended

streamVars == <<conn, queue, greet, shown, pump, dirty, leaked, lapsed>>

NoView == [sid |-> 0, rev |-> 0, draft |-> {}, bro |-> "idle"]

\* Fault: a client is subscribed only once its initial snapshot has been sent.
GreetedSubscribers == {c \in Client : conn[c] = "on"}

\* Each subscriber has a queue from before its initial snapshot is taken.
Subscribers == {c \in Client : conn[c] # "off"}

StreamInit ==
    /\ conn = [c \in Client |-> "off"]
    /\ queue = [c \in Client |-> <<>>]
    /\ greet = [c \in Client |-> NoView]
    /\ shown = [c \in Client |-> NoView]
    /\ pump = "off"
    /\ dirty = FALSE
    /\ leaked = FALSE
    /\ lapsed = {}

\* publish_snapshot: every subscriber's queue gets the snapshot event.
Publish(ref) ==
    queue' = [c \in Client |-> IF c \in Subscribers THEN Append(queue[c], ref) ELSE queue[c]]

\* The bound on the backlog: nothing broadcasts into a full queue.
Room == \A c \in Client : Len(queue[c]) < MaxLag

\* A blackboard write reaches the pump if it has subscribed to the blackboard.
BlackboardWrite == dirty' = (pump # "off")

\* session_stream: the queue is subscribed before the initial snapshot is
\* taken; _ensure_snapshot_pump starts a pump only if the old task has ended.
Subscribe(c, view) ==
    /\ conn[c] = "off"
    /\ conn' = [conn EXCEPT ![c] = "greeting"]
    /\ queue' = [queue EXCEPT ![c] = <<>>]
    /\ greet' = [greet EXCEPT ![c] = view]
    /\ pump' = IF pump = "off" THEN "on" ELSE pump
    /\ UNCHANGED <<shown, dirty, leaked, lapsed>>

\* The initial snapshot went out; _send_events starts draining the queue.
Greeted(c) ==
    /\ conn[c] = "greeting"
    /\ conn' = [conn EXCEPT ![c] = "on"]
    /\ shown' = [shown EXCEPT ![c] = greet[c]]
    /\ greet' = [greet EXCEPT ![c] = NoView]
    /\ UNCHANGED <<queue, pump, dirty, leaked, lapsed>>

\* _send_events sends the next event, of which view is the dump.
Deliver(c, view) ==
    /\ conn[c] = "on"
    /\ queue[c] # <<>>
    /\ shown' = [shown EXCEPT ![c] = view]
    /\ queue' = [queue EXCEPT ![c] = Tail(@)]
    /\ UNCHANGED <<conn, greet, pump, dirty, leaked, lapsed>>

\* The client is gone, and with it its queue of events and what it displayed.
Gone(c) ==
    /\ conn' = [conn EXCEPT ![c] = "off"]
    /\ queue' = [queue EXCEPT ![c] = <<>>]
    /\ greet' = [greet EXCEPT ![c] = NoView]
    /\ shown' = [shown EXCEPT ![c] = NoView]
    /\ lapsed' = lapsed \ {c}
    /\ UNCHANGED dirty

\* The socket closes: the sender is cancelled, the queue unsubscribed, and
\* with the last subscriber the pump is cancelled.
Unsubscribe(c) ==
    /\ conn[c] = "on"
    /\ Gone(c)
    /\ pump' = IF Subscribers = {c} /\ ~leaked /\ pump = "on" THEN "cancelled" ELSE pump
    /\ UNCHANGED leaked

\* The initial snapshot cannot be sent, which raises outside of the try clause:
\* the queue stays subscribed for ever, and the pump is never cancelled again.
GreetingFails(c) ==
    /\ conn[c] = "greeting"
    /\ Gone(c)
    /\ leaked' = TRUE
    /\ UNCHANGED pump

\* The cancelled pump runs its finally clause.  No pump is started for those
\* who connected since it was cancelled.
PumpEnds ==
    /\ pump = "cancelled"
    /\ pump' = "off"
    /\ dirty' = FALSE
    /\ lapsed' = lapsed \cup Subscribers
    /\ UNCHANGED <<conn, queue, greet, shown, leaked>>

\* _snapshot_loop drains its blackboard queue and publishes one snapshot.
SnapshotLoop(ref) ==
    /\ pump = "on"
    /\ dirty
    /\ Room
    /\ dirty' = FALSE
    /\ Publish(ref)
    /\ UNCHANGED <<conn, greet, shown, pump, leaked, lapsed>>
=============================================================================
