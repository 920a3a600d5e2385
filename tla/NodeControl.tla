----------------------------- MODULE NodeControl -----------------------------
(***************************************************************************)
(* The control channel between the runtime and one executor node: its      *)
(* credentials in the node registry, the websocket registered for it, and  *)
(* the questions the runtime puts to it over that websocket (thread lists, *)
(* thread turns, thread reads, transcriptions and workspace files).        *)
(*                                                                         *)
(* An action is the code between two points where it really suspends.      *)
(* registry.py holds an asyncio lock but awaits nothing under it, and so   *)
(* verifying a token and storing the connection are one step; closing a    *)
(* websocket suspends, and so revoking credentials takes two.              *)
(***************************************************************************)
EXTENDS Naturals, Sequences

CONSTANTS Requests,    \* the questions asked, each with an id of its own
          Kind,        \* what each asks: "list", "turns", "read", "transcribe", "file"
          Chunks,      \* the number of blocks of the workspace file
          MaxTokens,   \* bound: credentials issued
          MaxSockets   \* bound: websockets the node opens

Kinds == {"list", "turns", "read", "transcribe", "file"}
Sockets == 1..MaxSockets
Tokens == 1..MaxTokens
None == 0

ASSUME NodeControlAssumption ==
  /\ Kind \in [Requests -> Kinds]
  /\ Chunks \in Nat /\ MaxTokens \in Nat \ {0} /\ MaxSockets \in Nat

VARIABLES
  token,     \* registry: the token now valid, None once the node is deleted
  issued,    \* tokens issued so far
  conn,      \* _connections_by_node: the registered websocket, or None
  admin,     \* the rotation or deletion under way: [op, ws]
  pending,   \* the request ids in the manager's maps of futures and streams
  future,    \* per request: "none", "waiting", "answered", "failed", "cancelled"
  stream,    \* per file request: the messages queued for its reader
  got,       \* per file request: the blocks handed to the HTTP response
  caller,    \* per request: where its caller stands
  opened,    \* websockets the node has opened
  wsOpen,    \* the websockets that are open
  wsToken,   \* the token each websocket registered with
  serving,   \* the websockets whose control loop runs in the server
  down, up,  \* per websocket: messages to the node, and from it
  nodeWs,    \* the websocket the node uses, or None
  tasks,     \* the node's commands in progress: [req, ws, sent]
  inline,    \* the request the node's receive loop itself is working on
  served     \* history: requests the node began to serve

serverVars == <<token, issued, conn, admin>>
callVars == <<pending, future, stream, got, caller>>
wireVars == <<opened, wsOpen, wsToken, serving, down, up>>
nodeVars == <<nodeWs, tasks, inline, served>>
vars == <<serverVars, callVars, wireVars, nodeVars>>

Idle == [op |-> "idle", ws |-> None]
NoRequest == "none"
Eof == Chunks + 1     \* the message that ends a file, and the one that refuses it
Denied == 0
Files == {r \in Requests : Kind[r] = "file"}

TypeOK ==
  /\ token \in 0..MaxTokens /\ issued \in Tokens /\ conn \in 0..MaxSockets
  /\ admin \in [op : {"idle", "rotate", "delete"}, ws : 0..MaxSockets]
  /\ pending \subseteq Requests
  /\ future \in [Requests -> {"none", "waiting", "answered", "failed", "cancelled"}]
  /\ caller \in [Requests -> {"idle", "waiting", "ok", "error", "timeout", "cancelled"}]
  /\ stream \in [Requests -> Seq(Denied..Eof)]
  /\ got \in [Requests -> Seq(1..Chunks)]
  /\ opened \in 0..MaxSockets /\ wsOpen \subseteq Sockets /\ serving \subseteq Sockets
  /\ wsToken \in [Sockets -> 0..MaxTokens]
  /\ nodeWs \in 0..MaxSockets
  /\ \A t \in tasks : t.req \in Requests /\ t.ws \in Sockets /\ t.sent \in 0..Chunks
  /\ inline \in Requests \cup {NoRequest}
  /\ served \subseteq Requests

Init ==
  /\ token = 1 /\ issued = 1 /\ conn = None /\ admin = Idle
  /\ pending = {} /\ future = [r \in Requests |-> "none"]
  /\ stream = [r \in Requests |-> <<>>] /\ got = [r \in Requests |-> <<>>]
  /\ caller = [r \in Requests |-> "idle"]
  /\ opened = 0 /\ wsOpen = {} /\ wsToken = [w \in Sockets |-> None] /\ serving = {}
  /\ down = [w \in Sockets |-> <<>>] /\ up = [w \in Sockets |-> <<>>]
  /\ nodeWs = None /\ tasks = {} /\ inline = NoRequest /\ served = {}
-----------------------------------------------------------------------------
(* The connection                                                          *)

\* run_forever: the node opens a websocket and registers with the token its
\* settings hold, which need not be the one now valid.
Dial(k) ==
  /\ nodeWs = None /\ opened < MaxSockets
  /\ k \in 1..issued
  /\ opened' = opened + 1
  /\ wsOpen' = wsOpen \cup {opened + 1}
  /\ wsToken' = [wsToken EXCEPT ![opened + 1] = k]
  /\ up' = [up EXCEPT ![opened + 1] = <<[kind |-> "register"]>>]
  /\ nodeWs' = opened + 1
  /\ UNCHANGED <<serverVars, callVars, serving, down, tasks, inline, served>>

\* ExecutorNodeRegistry.verify_credentials: the hash of the presented token is
\* compared with the record's; a deleted node has no record.
verify_credentials(w) == token # None /\ wsToken[w] = token

\* The websocket registered is the one whose token the registry verified.
register_connection(w) ==
  /\ w \in wsOpen /\ up[w] # <<>> /\ Head(up[w]).kind = "register"
  /\ up' = [up EXCEPT ![w] = Tail(@)]
  /\ IF verify_credentials(w) /\ conn = None
     THEN conn' = w /\ serving' = serving \cup {w} /\ UNCHANGED wsOpen
     ELSE wsOpen' = wsOpen \ {w} /\ UNCHANGED <<conn, serving>>
  /\ UNCHANGED <<token, issued, admin, callVars, opened, wsToken, down, nodeVars>>

\* The network or either side closes the websocket; what is in flight may
\* still be read by whichever side has not noticed.
Drop(w) ==
  /\ w \in wsOpen
  /\ wsOpen' = wsOpen \ {w}
  /\ UNCHANGED <<serverVars, callVars, opened, wsToken, serving, down, up, nodeVars>>

\* disconnect: only the connection that holds this websocket is forgotten.
Disconnected(w) == IF conn = w THEN None ELSE conn

\* Fault: the end of a connection forgets the questions put over it.
ControlEndsForgetsQuestions(w) ==
  /\ w \in serving \ wsOpen
  /\ serving' = serving \ {w}
  /\ conn' = Disconnected(w)
  /\ pending' = {}
  /\ up' = [up EXCEPT ![w] = <<>>]
  /\ UNCHANGED <<token, issued, admin, future, stream, got, caller, opened, wsOpen, wsToken,
                 down, nodeVars>>

\* The control loop of a closed websocket ends in its finally clause.
executor_control_ends(w) ==
  /\ w \in serving \ wsOpen
  /\ serving' = serving \ {w}
  /\ conn' = Disconnected(w)
  /\ up' = [up EXCEPT ![w] = <<>>]
  /\ UNCHANGED <<token, issued, admin, callVars, opened, wsOpen, wsToken, down, nodeVars>>

\* run_forever's except clause: every command in progress is cancelled before
\* the node dials again.
NodeLost ==
  /\ nodeWs # None /\ nodeWs \notin wsOpen
  /\ nodeWs' = None /\ tasks' = {} /\ inline' = NoRequest
  /\ down' = [down EXCEPT ![nodeWs] = <<>>]
  /\ UNCHANGED <<serverVars, callVars, opened, wsOpen, wsToken, serving, up, served>>
-----------------------------------------------------------------------------
(* The registry                                                            *)

\* ExecutorNodeRegistry.rotate_credentials: a token never issued before.
rotate_credentials == issued' = issued + 1 /\ token' = issued + 1

rotate_node_credentials ==
  /\ admin = Idle /\ token # None /\ issued < MaxTokens
  /\ rotate_credentials
  /\ admin' = IF conn = None THEN Idle ELSE [op |-> "rotate", ws |-> conn]
  /\ wsOpen' = wsOpen \ {conn}
  /\ UNCHANGED <<conn, callVars, opened, wsToken, serving, down, up, nodeVars>>

delete_node ==
  /\ admin = Idle /\ token # None
  /\ IF conn = None
     THEN token' = None /\ UNCHANGED <<admin, wsOpen>>
     ELSE admin' = [op |-> "delete", ws |-> conn] /\ wsOpen' = wsOpen \ {conn} /\ UNCHANGED token
  /\ UNCHANGED <<issued, conn, callVars, opened, wsToken, serving, down, up, nodeVars>>

\* websocket.close() has returned.
RevocationEnds ==
  /\ admin # Idle
  /\ conn' = Disconnected(admin.ws)
  /\ token' = IF admin.op = "delete" THEN None ELSE token
  /\ admin' = Idle
  /\ UNCHANGED <<issued, callVars, wireVars, nodeVars>>
-----------------------------------------------------------------------------
(* The questions                                                           *)

Settle(r, o) == caller' = [caller EXCEPT ![r] = o]

\* A future is made and stored before the command is sent; a send that raises
\* takes it out again.  Without a connection the caller gets an error, or for
\* a list an empty page.
request(r) ==
  /\ caller[r] = "idle"
  /\ \/ /\ conn = None \/ conn \notin wsOpen
        /\ Settle(r, "error")
        /\ UNCHANGED <<pending, future, down>>
     \/ /\ conn \in wsOpen
        /\ pending' = pending \cup {r}
        /\ future' = [future EXCEPT ![r] = "waiting"]
        /\ down' = [down EXCEPT ![conn] = Append(@, r)]
        /\ Settle(r, "waiting")
  /\ UNCHANGED <<serverVars, stream, got, opened, wsOpen, wsToken, serving, up, nodeVars>>

\* Fault: a timed-out question is put again under the same id.
RequestTimeoutAsksAgain(r) ==
  /\ caller[r] = "waiting" /\ future[r] = "waiting" /\ stream[r] = <<>>
  /\ future' = [future EXCEPT ![r] = "none"]
  /\ pending' = pending \ {r}
  /\ Settle(r, "idle")
  /\ UNCHANGED <<serverVars, stream, got, wireVars, nodeVars>>

\* wait_for gives up: the entry goes with the future.
RequestTimeout(r) ==
  /\ caller[r] = "waiting" /\ future[r] = "waiting" /\ stream[r] = <<>>
  /\ future' = [future EXCEPT ![r] = "cancelled"]
  /\ pending' = pending \ {r}
  /\ Settle(r, "timeout")
  /\ UNCHANGED <<serverVars, stream, got, wireVars, nodeVars>>

\* The HTTP caller goes away.  `except Exception` does not see a cancellation,
\* so a list, turns, read or transcription keeps its entry; the file reader's
\* finally clause removes it.
RequestCancelled(r) ==
  /\ caller[r] = "waiting"
  /\ future' = [future EXCEPT ![r] = IF @ = "waiting" THEN "cancelled" ELSE @]
  /\ pending' = IF Kind[r] = "file" THEN pending \ {r} ELSE pending
  /\ Settle(r, "cancelled")
  /\ UNCHANGED <<serverVars, stream, got, wireVars, nodeVars>>

\* The waiting caller resumes with what the future holds.
RequestReturns(r) ==
  /\ caller[r] = "waiting" /\ future[r] \in {"answered", "failed"}
  /\ Settle(r, IF future[r] = "answered" THEN "ok" ELSE "error")
  /\ UNCHANGED <<serverVars, pending, future, stream, got, wireVars, nodeVars>>

\* _handle_control_message: the control loop takes the next message, one at a
\* time and in the order they were sent.
Arrives(w, kinds) ==
  /\ w \in serving /\ up[w] # <<>> /\ Head(up[w]).kind \in kinds
  /\ up' = [up EXCEPT ![w] = Tail(@)]

\* publish_codex_threads_listed and its four siblings: the entry is popped,
\* and a future that is already done is left alone.
publish_answer(w) ==
  /\ Arrives(w, {"answered", "failed"})
  /\ LET r == Head(up[w]).req IN
       /\ pending' = pending \ {r}
       /\ future' = IF r \in pending /\ future[r] = "waiting"
                    THEN [future EXCEPT ![r] = Head(up[w]).kind] ELSE future
  /\ UNCHANGED <<serverVars, stream, got, caller, opened, wsOpen, wsToken, serving, down, nodeVars>>

\* _publish_workspace_file: a block for a reader that left is dropped.
publish_workspace_file(w) ==
  /\ Arrives(w, {"file"})
  /\ LET r == Head(up[w]).req IN
       stream' = IF r \in pending THEN [stream EXCEPT ![r] = Append(@, Head(up[w]).data)] ELSE stream
  /\ UNCHANGED <<serverVars, pending, future, got, caller, opened, wsOpen, wsToken, serving,
                 down, nodeVars>>

\* read_workspace_file's loop takes the next message of its queue.
ReadNext(r) ==
  /\ r \in Files /\ caller[r] = "waiting" /\ stream[r] # <<>>
  /\ stream' = [stream EXCEPT ![r] = Tail(@)]
  /\ LET m == Head(stream[r]) IN
       IF m \in 1..Chunks
       THEN got' = [got EXCEPT ![r] = Append(@, m)] /\ UNCHANGED <<pending, future, caller>>
       ELSE /\ pending' = pending \ {r}
            /\ future' = [future EXCEPT ![r] = "cancelled"]
            /\ Settle(r, IF m = Eof THEN "ok" ELSE "error")
            /\ UNCHANGED got
  /\ UNCHANGED <<serverVars, wireVars, nodeVars>>
-----------------------------------------------------------------------------
(* The node                                                                *)

\* _handle_message: a transcription is awaited in the receive loop, every
\* other question becomes a background command.
NodeReceive ==
  /\ nodeWs # None /\ inline = NoRequest /\ down[nodeWs] # <<>>
  /\ LET r == Head(down[nodeWs]) IN
       /\ served' = served \cup {r}
       /\ tasks' = tasks \cup {[req |-> r, ws |-> nodeWs, sent |-> 0]}
       /\ inline' = IF Kind[r] = "transcribe" THEN r ELSE NoRequest
  /\ down' = [down EXCEPT ![nodeWs] = Tail(@)]
  /\ UNCHANGED <<serverVars, callVars, opened, wsOpen, wsToken, serving, up, nodeWs>>

Send(t, m) == up' = IF t.ws \in wsOpen THEN [up EXCEPT ![t.ws] = Append(@, m)] ELSE up

Finished(t) == /\ tasks' = tasks \ {t}
               /\ inline' = IF inline = t.req THEN NoRequest ELSE inline

NodeFrame == UNCHANGED <<serverVars, callVars, opened, wsOpen, wsToken, serving, down, nodeWs, served>>

\* _list_codex_threads, _list_codex_thread_turns, _read_codex_thread,
\* _transcribe_audio_instruction: the executor's answer, or its failure.
NodeAnswer(t) ==
  /\ t \in tasks /\ Kind[t.req] # "file"
  /\ \E k \in {"answered", "failed"} : Send(t, [kind |-> k, req |-> t.req])
  /\ Finished(t)
  /\ NodeFrame

FileMessage(t, d) == [kind |-> "file", req |-> t.req, data |-> d]

\* _read_workspace_file sends a block.
NodeSendChunk(t) ==
  /\ t \in tasks /\ Kind[t.req] = "file" /\ t.sent < Chunks /\ t.ws \in wsOpen
  /\ Send(t, FileMessage(t, t.sent + 1))
  /\ tasks' = (tasks \ {t}) \cup {[t EXCEPT !.sent = @ + 1]}
  /\ UNCHANGED inline
  /\ NodeFrame

\* Fault: the file may be refused after some of its blocks went out as an
\* ordinary end of file.
NodeEndFileEarly(t) ==
  /\ t \in tasks /\ Kind[t.req] = "file"
  /\ Send(t, FileMessage(t, Eof))
  /\ Finished(t)
  /\ NodeFrame

\* The end of the file, or its refusal, which comes before any block.
NodeEndFile(t) ==
  /\ t \in tasks /\ Kind[t.req] = "file"
  /\ \/ t.sent = Chunks /\ Send(t, FileMessage(t, Eof))
     \/ t.sent = 0 /\ Send(t, FileMessage(t, Denied))
     \/ UNCHANGED up    \* a read or a send raised: the command ends unheard
  /\ Finished(t)
  /\ NodeFrame

-----------------------------------------------------------------------------
Next ==
  \/ \E k \in Tokens : Dial(k)
  \/ \E w \in Sockets : \/ register_connection(w) \/ Drop(w) \/ executor_control_ends(w)
                        \/ publish_answer(w) \/ publish_workspace_file(w)
  \/ NodeLost \/ rotate_node_credentials \/ delete_node \/ RevocationEnds \/ NodeReceive
  \/ \E r \in Requests : \/ request(r) \/ RequestTimeout(r) \/ RequestCancelled(r)
                         \/ RequestReturns(r) \/ ReadNext(r)
  \/ \E t \in tasks : NodeAnswer(t) \/ NodeSendChunk(t) \/ NodeEndFile(t)

Spec == Init /\ [][Next]_vars
-----------------------------------------------------------------------------
\* A caller that waits can still be reached: its entry is in the manager's map
\* and its future is open, until the answer is on it.  Losing the entry (to a
\* late answer of another request, or to a disconnect) would leave the caller
\* to its timeout although the node answered.
WaitersAreReachable ==
  \A r \in Requests : caller[r] = "waiting" /\ future[r] = "waiting" => r \in pending

\* A download that ends well handed out the whole file, block by block and in
\* order, and one still running or broken off handed out a prefix: the server
\* does not look at the sequence number in a block.
DownloadsAreWhole ==
  \A r \in Files : /\ got[r] = [i \in 1..Len(got[r]) |-> i]
                   /\ caller[r] = "ok" => Len(got[r]) = Chunks

\* The manager keeps the promise of RequestReply, whatever the network does.
RR == INSTANCE RequestReply WITH
        asked <- {r \in Requests : future[r] # "none"},
        outcome <- [r \in Requests |-> CASE caller[r] \in {"idle", "waiting"} -> "none"
                                         [] caller[r] = "ok" -> "answered"
                                         [] OTHER -> "given_up"]
KeepsPromise == RR!Spec
=============================================================================
