------------------------- MODULE NodeControlProofs -------------------------
(***************************************************************************)
(* Proofs about NodeControl, for any questions, file size, tokens and      *)
(* websockets: waiting callers stay reachable, downloads are whole, and    *)
(* the node manager implements RequestReply.                               *)
(***************************************************************************)
EXTENDS NodeControl, TLAPS

USE NodeControlAssumption DEF NodeControlAssumption

-----------------------------------------------------------------------------
(* The messages and the invariant *)

Registering == [kind : {"register"}]
Answers == [kind : {"answered", "failed"}, req : Requests \ Files]
FileMessages == [kind : {"file"}, req : Files, data : Denied..Eof]
Message == Registering \cup Answers \cup FileMessages
Command == [req : Requests, ws : Sockets, sent : 0..Chunks]

WireType ==
  /\ down \in [Sockets -> Seq(Requests)]
  /\ up \in [Sockets -> Seq(Message)]
  /\ tasks \subseteq Command

\* A caller has a future from the moment it asks; the reader of a file is in the
\* manager's map only while it waits, and hears from its queue, not its future.
CallInv ==
  \A r \in Requests :
    /\ caller[r] = "idle" => future[r] = "none" /\ r \notin pending
    /\ caller[r] = "waiting" => future[r] \in {"waiting", "answered", "failed"}
    /\ r \in Files => /\ r \in pending => caller[r] = "waiting"
                      /\ future[r] \notin {"answered", "failed"}

\* A question is on its way to the node at most once, and then not yet served.
DownInv ==
  \A w \in Sockets : \A i \in 1..Len(down[w]) :
    /\ down[w][i] \notin served
    /\ future[down[w][i]] # "none"
    /\ \A v \in Sockets : \A j \in 1..Len(down[v]) : down[w][i] = down[v][j] => w = v /\ i = j

\* Whatever tells of a question comes from the node that served it.
ServedInv ==
  /\ \A r \in served : future[r] # "none"
  /\ \A r \in Requests : future[r] \in {"answered", "failed"} => r \in served
  /\ \A r \in Requests : stream[r] # <<>> \/ got[r] # <<>> => r \in served
  /\ \A t \in tasks : t.req \in served
  /\ \A w \in Sockets : \A i \in 1..Len(up[w]) :
       up[w][i].kind # "register" => up[w][i].req \in served

OneTask == \A t, u \in tasks : t.req = u.req => t = u

\* m is a block of the file asked for by r, or the end of that file.
IsBlock(m, r) == m.kind = "file" /\ m.req = r /\ m.data # Denied

\* The blocks of a file travel over one websocket.
OneSocket ==
  \A w \in Sockets : \A i \in 1..Len(up[w]) : \A r \in Files : IsBlock(up[w][i], r) =>
    /\ \A v \in Sockets : \A j \in 1..Len(up[v]) : IsBlock(up[v][j], r) => v = w
    /\ \A t \in tasks : t.req = r => t.ws = w

\* How much of the file has reached its reader's queue; Clean while the reader
\* is there and has not been refused.
Position(r) == Len(got[r]) + Len(stream[r])
Clean(r) == r \in pending /\ \A k \in 1..Len(stream[r]) : stream[r][k] # Denied

\* The queue of a reader goes on where the reader stands.
StreamOrder(r) ==
  r \in pending => \A k \in 1..Len(stream[r]) :
    (\A m \in 1..k : stream[r][m] # Denied) => stream[r][k] = Len(got[r]) + k

\* The blocks under way follow the queue, in order and without a gap.
UpOrder(r) ==
  Clean(r) => \A w \in Sockets : \A i \in 1..Len(up[w]) : IsBlock(up[w][i], r) =>
    /\ up[w][i].data > Position(r)
    /\ \A j \in 1..i - 1 : IsBlock(up[w][j], r) => up[w][j].data < up[w][i].data
    /\ \/ up[w][i].data = Position(r) + 1
       \/ \E j \in 1..i - 1 : IsBlock(up[w][j], r) /\ up[w][j].data = up[w][i].data - 1

\* The node has sent what is in the queue or under way.
TaskOrder(r) ==
  Clean(r) => \A t \in tasks : t.req = r /\ t.ws \in wsOpen =>
    /\ \A i \in 1..Len(up[t.ws]) : IsBlock(up[t.ws][i], r) => up[t.ws][i].data <= t.sent
    /\ \/ t.sent = Position(r)
       \/ \E i \in 1..Len(up[t.ws]) : IsBlock(up[t.ws][i], r) /\ up[t.ws][i].data = t.sent

OrderInv == \A r \in Files : StreamOrder(r) /\ UpOrder(r) /\ TaskOrder(r)

\* A node that has no websocket has no command in progress.
NodeInv == nodeWs = None => tasks = {}

PlaceInv == DownInv /\ ServedInv /\ OneTask /\ OneSocket /\ NodeInv

IInv == /\ TypeOK /\ WireType
        /\ CallInv /\ WaitersAreReachable /\ PlaceInv
        /\ OrderInv /\ DownloadsAreWhole

-----------------------------------------------------------------------------
(* Facts about sequences and messages *)

LEMMA TailFacts ==
  ASSUME NEW S, NEW s \in Seq(S), s # <<>>
  PROVE  /\ Tail(s) \in Seq(S) /\ Len(Tail(s)) = Len(s) - 1
         /\ Len(s) \in Nat \ {0}
         /\ Head(s) = s[1] /\ s[1] \in S
         /\ \A i \in 1..Len(s) - 1 : Tail(s)[i] = s[i + 1]
OBVIOUS

LEMMA AppendFacts ==
  ASSUME NEW S, NEW s \in Seq(S), NEW x \in S
  PROVE  /\ Append(s, x) \in Seq(S) /\ Len(Append(s, x)) = Len(s) + 1
         /\ Len(s) \in Nat
         /\ \A i \in 1..Len(s) : Append(s, x)[i] = s[i]
         /\ Append(s, x)[Len(s) + 1] = x
OBVIOUS

LEMMA EmptySeq == ASSUME NEW S PROVE <<>> \in Seq(S) /\ Len(<<>>) = 0
OBVIOUS

LEMMA MessageFacts ==
  ASSUME NEW m \in Message
  PROVE  /\ m.kind \in {"register", "answered", "failed", "file"}
         /\ m.kind # "register" => m.req \in Requests
         /\ m.kind \in {"answered", "failed"} => m.req \notin Files
         /\ m.kind = "file" => m.req \in Files /\ m.data \in Denied..Eof
BY DEF Message, Registering, Answers, FileMessages, Files

LEMMA UpFacts ==
  ASSUME WireType, NEW w \in Sockets
  PROVE  /\ up[w] \in Seq(Message) /\ Len(up[w]) \in Nat
         /\ \A i \in 1..Len(up[w]) : up[w][i] \in Message
BY DEF WireType

\* The first message of a channel is read.
LEMMA UpTail ==
  ASSUME WireType, NEW w \in Sockets, up[w] # <<>>, up' = [up EXCEPT ![w] = Tail(@)]
  PROVE  /\ up' \in [Sockets -> Seq(Message)]
         /\ Len(up[w]) \in Nat \ {0} /\ Head(up[w]) = up[w][1] /\ up[w][1] \in Message
         /\ Len(up'[w]) = Len(up[w]) - 1
         /\ \A i \in 1..Len(up'[w]) : up'[w][i] = up[w][i + 1]
         /\ \A v \in Sockets \ {w} : up'[v] = up[v]
<1>1. up[w] \in Seq(Message)
  BY UpFacts
<1>2. up'[w] = Tail(up[w]) /\ \A v \in Sockets \ {w} : up'[v] = up[v]
  BY DEF WireType
<1>3. Tail(up[w]) \in Seq(Message)
  BY <1>1, TailFacts
<1> HIDE DEF Message
<1>4. up' \in [Sockets -> Seq(Message)]
  BY <1>3 DEF WireType
<1> QED BY <1>1, <1>2, <1>4, TailFacts

\* A message is sent.
LEMMA UpAppend ==
  ASSUME WireType, NEW w \in Sockets, NEW m \in Message, up' = [up EXCEPT ![w] = Append(@, m)]
  PROVE  /\ up' \in [Sockets -> Seq(Message)]
         /\ Len(up[w]) \in Nat
         /\ Len(up'[w]) = Len(up[w]) + 1
         /\ \A i \in 1..Len(up[w]) : up'[w][i] = up[w][i]
         /\ up'[w][Len(up[w]) + 1] = m
         /\ \A v \in Sockets \ {w} : up'[v] = up[v]
<1>1. up[w] \in Seq(Message)
  BY UpFacts
<1>2. up'[w] = Append(up[w], m) /\ \A v \in Sockets \ {w} : up'[v] = up[v]
  BY DEF WireType
<1>3. Append(up[w], m) \in Seq(Message)
  BY <1>1, AppendFacts
<1>4. up' \in [Sockets -> Seq(Message)]
  BY <1>3 DEF WireType
<1> QED BY <1>1, <1>2, <1>4, AppendFacts

-----------------------------------------------------------------------------
(* Types *)

LEMMA SocketFacts == Sockets \subseteq Nat \ {0} /\ None \notin Sockets
BY DEF Sockets, None

LEMMA TypeInit == Init => TypeOK /\ WireType
BY EmptySeq DEF Init, TypeOK, WireType, Tokens, Idle, None, NoRequest, Sockets, Denied

LEMMA TypeConnection ==
  ASSUME TypeOK, WireType
  PROVE  /\ \A k \in Tokens : Dial(k) => TypeOK' /\ WireType'
         /\ \A w \in Sockets : register_connection(w) \/ Drop(w) \/ executor_control_ends(w)
              => TypeOK' /\ WireType'
         /\ NodeLost => TypeOK' /\ WireType'
<1>1. ASSUME NEW k \in Tokens, Dial(k) PROVE TypeOK' /\ WireType'
  <2> DEFINE m == [kind |-> "register"]
  <2>1. m \in Message
    BY DEF Message, Registering
  <2>2. opened + 1 \in Sockets
    BY <1>1 DEF Dial, TypeOK, Sockets
  <2>3. <<m>> \in Seq(Message)
    <3> HIDE DEF m, Message
    <3> QED BY <2>1
  <2>4. up' = [up EXCEPT ![opened + 1] = <<m>>]
    BY <1>1 DEF Dial
  <2> HIDE DEF m, Message
  <2>5. up' \in [Sockets -> Seq(Message)]
    BY <2>2, <2>3, <2>4 DEF WireType
  <2>6. WireType'
    BY <1>1, <2>5 DEF WireType, Dial
  <2>7. TypeOK'
    <3>1. wsToken' \in [Sockets -> 0..MaxTokens]
      BY <1>1, <2>2 DEF Dial, TypeOK, Tokens
    <3> QED BY <1>1, <2>2, <3>1 DEF Dial, TypeOK, Sockets, serverVars, callVars
  <2> QED BY <2>6, <2>7
<1>2. ASSUME NEW w \in Sockets, register_connection(w) PROVE TypeOK' /\ WireType'
  <2>1. up' \in [Sockets -> Seq(Message)]
    BY <1>2, UpTail DEF register_connection
  <2>2. WireType'
    BY <1>2, <2>1 DEF register_connection, WireType, nodeVars
  <2>3. conn' \in 0..MaxSockets /\ serving' \subseteq Sockets /\ wsOpen' \subseteq Sockets
    <3>1. \/ conn' = w /\ serving' = serving \cup {w} /\ wsOpen' = wsOpen
          \/ conn' = conn /\ serving' = serving /\ wsOpen' = wsOpen \ {w}
      BY <1>2, Zenon DEF register_connection
    <3>2. conn' \in 0..MaxSockets
      BY <3>1 DEF TypeOK, Sockets
    <3> QED BY <3>1, <3>2 DEF TypeOK
  <2>4. TypeOK'
    BY <1>2, <2>3 DEF register_connection, TypeOK, callVars, nodeVars
  <2> QED BY <2>2, <2>4
<1>3. ASSUME NEW w \in Sockets, Drop(w) PROVE TypeOK' /\ WireType'
  BY <1>3 DEF Drop, TypeOK, WireType, serverVars, callVars, nodeVars
<1>4. ASSUME NEW w \in Sockets, executor_control_ends(w) PROVE TypeOK' /\ WireType'
  <2>1. up' \in [Sockets -> Seq(Message)]
    BY <1>4, EmptySeq DEF executor_control_ends, WireType
  <2>2. WireType'
    BY <1>4, <2>1 DEF executor_control_ends, WireType, nodeVars
  <2>3. TypeOK'
    BY <1>4 DEF executor_control_ends, TypeOK, Disconnected, None, callVars, nodeVars
  <2> QED BY <2>2, <2>3
<1>5. ASSUME NodeLost PROVE TypeOK' /\ WireType'
  <2>1. down' \in [Sockets -> Seq(Requests)] /\ tasks' = {}
    BY <1>5, EmptySeq DEF NodeLost, WireType
  <2>2. WireType'
    BY <1>5, <2>1 DEF NodeLost, WireType
  <2>3. TypeOK'
    BY <1>5 DEF NodeLost, TypeOK, None, serverVars, callVars
  <2> QED BY <2>2, <2>3
<1> QED BY <1>1, <1>2, <1>3, <1>4, <1>5

LEMMA TypeRegistry ==
  ASSUME TypeOK, WireType, rotate_node_credentials \/ delete_node \/ RevocationEnds
  PROVE  TypeOK' /\ WireType'
<1>1. CASE rotate_node_credentials
  <2>1. wsOpen' \subseteq Sockets /\ UNCHANGED <<conn, callVars, opened, wsToken, serving, down, up, nodeVars>>
    BY <1>1 DEF rotate_node_credentials, TypeOK
  <2>2. token' \in 0..MaxTokens /\ issued' \in Tokens
    BY <1>1 DEF rotate_node_credentials, rotate_credentials, TypeOK, Tokens
  <2>3. admin' \in [op : {"idle", "rotate", "delete"}, ws : 0..MaxSockets]
    BY <1>1 DEF rotate_node_credentials, TypeOK, Idle, None
  <2> QED BY <2>1, <2>2, <2>3 DEF TypeOK, WireType, callVars, nodeVars
<1>2. CASE delete_node
  <2>1. wsOpen' \subseteq Sockets /\ token' \in 0..MaxTokens
    BY <1>2 DEF delete_node, TypeOK, None
  <2>2. admin' \in [op : {"idle", "rotate", "delete"}, ws : 0..MaxSockets]
    BY <1>2 DEF delete_node, TypeOK
  <2> QED BY <1>2, <2>1, <2>2 DEF delete_node, TypeOK, WireType, callVars, nodeVars
<1>3. CASE RevocationEnds
  <2>1. conn' \in 0..MaxSockets /\ token' \in 0..MaxTokens
    BY <1>3 DEF RevocationEnds, Disconnected, TypeOK, None
  <2>2. admin' \in [op : {"idle", "rotate", "delete"}, ws : 0..MaxSockets]
    BY <1>3 DEF RevocationEnds, Idle, None
  <2> QED BY <1>3, <2>1, <2>2 DEF RevocationEnds, TypeOK, WireType, callVars, wireVars, nodeVars
<1> QED BY <1>1, <1>2, <1>3

\* What a question put over the registered websocket changes.
LEMMA RequestSent ==
  ASSUME TypeOK, WireType, NEW r \in Requests, request(r)
  PROVE  \/ caller' = [caller EXCEPT ![r] = "error"] /\ UNCHANGED <<pending, future, down>>
         \/ /\ conn \in Sockets /\ pending' = pending \cup {r}
            /\ future' = [future EXCEPT ![r] = "waiting"]
            /\ caller' = [caller EXCEPT ![r] = "waiting"]
            /\ down' \in [Sockets -> Seq(Requests)]
            /\ Len(down[conn]) \in Nat /\ Len(down'[conn]) = Len(down[conn]) + 1
            /\ \A i \in 1..Len(down[conn]) : down'[conn][i] = down[conn][i]
            /\ down'[conn][Len(down[conn]) + 1] = r
            /\ \A v \in Sockets \ {conn} : down'[v] = down[v]
<1>1. CASE caller' = [caller EXCEPT ![r] = "error"] /\ UNCHANGED <<pending, future, down>>
  BY <1>1
<1>2. CASE /\ conn \in wsOpen /\ pending' = pending \cup {r}
           /\ future' = [future EXCEPT ![r] = "waiting"]
           /\ down' = [down EXCEPT ![conn] = Append(@, r)]
           /\ caller' = [caller EXCEPT ![r] = "waiting"]
  <2>1. conn \in Sockets /\ down[conn] \in Seq(Requests)
    BY <1>2 DEF TypeOK, WireType
  <2>2. down'[conn] = Append(down[conn], r) /\ \A v \in Sockets \ {conn} : down'[v] = down[v]
    BY <1>2, <2>1 DEF WireType
  <2>3. Append(down[conn], r) \in Seq(Requests)
    BY <2>1, AppendFacts
  <2>4. down' \in [Sockets -> Seq(Requests)]
    BY <1>2, <2>1, <2>3 DEF WireType
  <2> QED BY <1>2, <2>1, <2>2, <2>4, AppendFacts
<1> QED BY <1>1, <1>2 DEF request, Settle

LEMMA TypeQuestions ==
  ASSUME TypeOK, WireType, NEW r \in Requests,
         request(r) \/ RequestTimeout(r) \/ RequestCancelled(r) \/ RequestReturns(r)
  PROVE  TypeOK' /\ WireType'
<1>1. CASE request(r)
  <2>0. pending' = pending \/ pending' = pending \cup {r}
    BY <1>1, RequestSent
  <2>1. down' \in [Sockets -> Seq(Requests)] /\ pending' \subseteq Requests
    <3>1. down' \in [Sockets -> Seq(Requests)]
      BY <1>1, RequestSent DEF WireType
    <3> QED BY <3>1, <2>0 DEF TypeOK
  <2>2. /\ future' \in [Requests -> {"none", "waiting", "answered", "failed", "cancelled"}]
        /\ caller' \in [Requests -> {"idle", "waiting", "ok", "error", "timeout", "cancelled"}]
    BY <1>1, RequestSent DEF TypeOK
  <2> QED BY <1>1, <2>1, <2>2 DEF request, TypeOK, WireType, serverVars, nodeVars
<1>2. CASE RequestTimeout(r)
  BY <1>2 DEF RequestTimeout, Settle, TypeOK, WireType, serverVars, wireVars, nodeVars
<1>3. CASE RequestCancelled(r)
  <2>1. /\ future' \in [Requests -> {"none", "waiting", "answered", "failed", "cancelled"}]
        /\ caller' \in [Requests -> {"idle", "waiting", "ok", "error", "timeout", "cancelled"}]
        /\ pending' \subseteq Requests
    BY <1>3 DEF RequestCancelled, Settle, TypeOK
  <2> QED BY <1>3, <2>1 DEF RequestCancelled, TypeOK, WireType, serverVars, wireVars, nodeVars
<1>4. CASE RequestReturns(r)
  BY <1>4 DEF RequestReturns, Settle, TypeOK, WireType, serverVars, wireVars, nodeVars
<1> QED BY <1>1, <1>2, <1>3, <1>4

LEMMA TypeArrivals ==
  ASSUME TypeOK, WireType, NEW w \in Sockets, publish_answer(w) \/ publish_workspace_file(w)
  PROVE  TypeOK' /\ WireType'
<1>1. /\ up' \in [Sockets -> Seq(Message)] /\ Head(up[w]) \in Message
  BY UpTail, Zenon DEF publish_answer, publish_workspace_file, Arrives
<1>2. CASE publish_answer(w)
  <2> DEFINE r == Head(up[w]).req  k == Head(up[w]).kind
  <2>1. r \in Requests /\ k \in {"answered", "failed"}
    BY <1>1, <1>2, MessageFacts DEF publish_answer, Arrives
  <2>2. pending' \subseteq Requests
    BY <1>2 DEF publish_answer, TypeOK
  <2>3. future' = [future EXCEPT ![r] = k] \/ future' = future
    BY <1>2, Zenon DEF publish_answer
  <2> HIDE DEF r, k
  <2>4. future' \in [Requests -> {"none", "waiting", "answered", "failed", "cancelled"}]
    BY <2>1, <2>3 DEF TypeOK
  <2> QED BY <1>1, <1>2, <2>2, <2>4 DEF publish_answer, TypeOK, WireType, serverVars, nodeVars
<1>3. CASE publish_workspace_file(w)
  <2> DEFINE r == Head(up[w]).req  d == Head(up[w]).data
  <2>1. r \in Files /\ d \in Denied..Eof
    BY <1>1, <1>3, MessageFacts DEF publish_workspace_file, Arrives
  <2>2. stream' = [stream EXCEPT ![r] = Append(@, d)] \/ stream' = stream
    BY <1>3, Zenon DEF publish_workspace_file
  <2> HIDE DEF r, d
  <2>3. r \in Requests /\ stream[r] \in Seq(Denied..Eof)
    BY <2>1 DEF TypeOK, Files
  <2>4. Append(stream[r], d) \in Seq(Denied..Eof)
    BY <2>1, <2>3, AppendFacts
  <2>5. stream' \in [Requests -> Seq(Denied..Eof)]
    BY <2>2, <2>3, <2>4 DEF TypeOK
  <2> QED BY <1>1, <1>3, <2>5 DEF publish_workspace_file, TypeOK, WireType, serverVars, nodeVars
<1> QED BY <1>2, <1>3

\* What a reader's step changes.
LEMMA ReadFacts ==
  ASSUME TypeOK, NEW r \in Requests, ReadNext(r)
  PROVE  /\ stream[r] # <<>> /\ caller[r] = "waiting" /\ r \in Files
         /\ Len(stream[r]) \in Nat \ {0} /\ stream[r][1] \in Denied..Eof
         /\ stream' \in [Requests -> Seq(Denied..Eof)]
         /\ Len(stream'[r]) = Len(stream[r]) - 1
         /\ \A i \in 1..Len(stream[r]) - 1 : stream'[r][i] = stream[r][i + 1]
         /\ \A q \in Requests \ {r} : stream'[q] = stream[q]
         /\ got' \in [Requests -> Seq(1..Chunks)] /\ Len(got[r]) \in Nat
         /\ \A q \in Requests \ {r} : got'[q] = got[q]
         /\ \/ /\ stream[r][1] \in 1..Chunks /\ UNCHANGED <<pending, future, caller>>
               /\ Len(got'[r]) = Len(got[r]) + 1
               /\ \A i \in 1..Len(got[r]) : got'[r][i] = got[r][i]
               /\ got'[r][Len(got[r]) + 1] = stream[r][1]
            \/ /\ stream[r][1] \notin 1..Chunks /\ UNCHANGED got
               /\ pending' = pending \ {r}
               /\ future' = [future EXCEPT ![r] = "cancelled"]
               /\ caller' = [caller EXCEPT ![r] = IF stream[r][1] = Eof THEN "ok" ELSE "error"]
<1> DEFINE m == Head(stream[r])
<1>1. stream[r] # <<>> /\ caller[r] = "waiting" /\ r \in Files
  BY DEF ReadNext
<1>2. stream[r] \in Seq(Denied..Eof) /\ got[r] \in Seq(1..Chunks)
  BY DEF TypeOK
<1>3. stream' = [stream EXCEPT ![r] = Tail(@)]
  BY DEF ReadNext
<1>4. /\ Len(stream[r]) \in Nat \ {0} /\ stream[r][1] \in Denied..Eof
      /\ m = stream[r][1] /\ Tail(stream[r]) \in Seq(Denied..Eof)
      /\ Len(Tail(stream[r])) = Len(stream[r]) - 1
      /\ \A i \in 1..Len(stream[r]) - 1 : Tail(stream[r])[i] = stream[r][i + 1]
  BY <1>1, <1>2, TailFacts
<1>5. stream'[r] = Tail(stream[r]) /\ \A q \in Requests \ {r} : stream'[q] = stream[q]
  BY <1>3 DEF TypeOK
<1>6. stream' \in [Requests -> Seq(Denied..Eof)]
  BY <1>3, <1>4 DEF TypeOK
<1>7. CASE m \in 1..Chunks
  <2>1. got' = [got EXCEPT ![r] = Append(@, m)] /\ UNCHANGED <<pending, future, caller>>
    BY <1>7 DEF ReadNext
  <2> HIDE DEF m
  <2>2. got'[r] = Append(got[r], m) /\ \A q \in Requests \ {r} : got'[q] = got[q]
    BY <2>1 DEF TypeOK
  <2>3. Append(got[r], m) \in Seq(1..Chunks)
    BY <1>2, <1>7, AppendFacts
  <2>4. got' \in [Requests -> Seq(1..Chunks)]
    BY <2>1, <2>3 DEF TypeOK
  <2> QED BY <1>1, <1>2, <1>4, <1>5, <1>6, <1>7, <2>1, <2>2, <2>4, AppendFacts
<1>8. CASE m \notin 1..Chunks
  <2>1. /\ UNCHANGED got /\ pending' = pending \ {r}
        /\ future' = [future EXCEPT ![r] = "cancelled"]
        /\ caller' = [caller EXCEPT ![r] = IF m = Eof THEN "ok" ELSE "error"]
    BY <1>8 DEF ReadNext, Settle
  <2> HIDE DEF m
  <2>2. Len(got[r]) \in Nat /\ got' \in [Requests -> Seq(1..Chunks)]
    BY <1>2, <2>1 DEF TypeOK
  <2> QED BY <1>1, <1>4, <1>5, <1>6, <1>8, <2>1, <2>2
<1> QED BY <1>7, <1>8

LEMMA TypeReader ==
  ASSUME TypeOK, WireType, NEW r \in Requests, ReadNext(r)
  PROVE  TypeOK' /\ WireType'
<1>1. stream' \in [Requests -> Seq(Denied..Eof)] /\ got' \in [Requests -> Seq(1..Chunks)]
  BY ReadFacts
<1>2. /\ future' \in [Requests -> {"none", "waiting", "answered", "failed", "cancelled"}]
      /\ caller' \in [Requests -> {"idle", "waiting", "ok", "error", "timeout", "cancelled"}]
      /\ pending' \subseteq Requests
  <2> DEFINE o == IF stream[r][1] = Eof THEN "ok" ELSE "error"
  <2>1. o \in {"ok", "error"}
    OBVIOUS
  <2>2. \/ UNCHANGED <<pending, future, caller>>
        \/ /\ pending' = pending \ {r} /\ future' = [future EXCEPT ![r] = "cancelled"]
           /\ caller' = [caller EXCEPT ![r] = o]
    BY ReadFacts, Zenon
  <2> HIDE DEF o
  <2>3. CASE UNCHANGED <<pending, future, caller>>
    BY <2>3 DEF TypeOK
  <2>4. CASE /\ pending' = pending \ {r} /\ future' = [future EXCEPT ![r] = "cancelled"]
             /\ caller' = [caller EXCEPT ![r] = o]
    BY <2>1, <2>4 DEF TypeOK
  <2> QED BY <2>2, <2>3, <2>4
<1> QED BY <1>1, <1>2 DEF ReadNext, TypeOK, WireType, serverVars, wireVars, nodeVars

\* What the node's receive loop changes.
LEMMA ReceiveFacts ==
  ASSUME TypeOK, WireType, NodeReceive
  PROVE  /\ nodeWs \in Sockets
         /\ Len(down[nodeWs]) \in Nat \ {0} /\ down[nodeWs][1] \in Requests
         /\ down' \in [Sockets -> Seq(Requests)]
         /\ Len(down'[nodeWs]) = Len(down[nodeWs]) - 1
         /\ \A i \in 1..Len(down[nodeWs]) - 1 : down'[nodeWs][i] = down[nodeWs][i + 1]
         /\ \A v \in Sockets \ {nodeWs} : down'[v] = down[v]
         /\ served' = served \cup {down[nodeWs][1]}
         /\ tasks' = tasks \cup {[req |-> down[nodeWs][1], ws |-> nodeWs, sent |-> 0]}
         /\ inline' \in {down[nodeWs][1], NoRequest}
<1>1. nodeWs \in Sockets /\ down[nodeWs] # <<>> /\ down' = [down EXCEPT ![nodeWs] = Tail(@)]
  BY DEF NodeReceive, TypeOK, Sockets, None
<1>2. down[nodeWs] \in Seq(Requests)
  BY <1>1 DEF WireType
<1>3. down'[nodeWs] = Tail(down[nodeWs]) /\ \A v \in Sockets \ {nodeWs} : down'[v] = down[v]
  BY <1>1 DEF WireType
<1>4. Tail(down[nodeWs]) \in Seq(Requests) /\ Head(down[nodeWs]) = down[nodeWs][1]
  BY <1>1, <1>2, TailFacts
<1>5. down' \in [Sockets -> Seq(Requests)]
  BY <1>1, <1>4 DEF WireType
<1>6. /\ served' = served \cup {down[nodeWs][1]}
      /\ tasks' = tasks \cup {[req |-> down[nodeWs][1], ws |-> nodeWs, sent |-> 0]}
      /\ inline' \in {down[nodeWs][1], NoRequest}
  <2> DEFINE r == Head(down[nodeWs])
  <2>1. /\ served' = served \cup {r} /\ tasks' = tasks \cup {[req |-> r, ws |-> nodeWs, sent |-> 0]}
        /\ inline' = IF Kind[r] = "transcribe" THEN r ELSE NoRequest
    BY DEF NodeReceive
  <2>2. r = down[nodeWs][1]
    BY <1>4
  <2> HIDE DEF r
  <2> QED BY <2>1, <2>2
<1> QED BY <1>1, <1>2, <1>3, <1>5, <1>6, TailFacts

LEMMA TypeReceive ==
  ASSUME TypeOK, WireType, NodeReceive
  PROVE  TypeOK' /\ WireType'
<1>1. [req |-> down[nodeWs][1], ws |-> nodeWs, sent |-> 0] \in Command
  BY ReceiveFacts DEF Command
<1>2. tasks' \subseteq Command
  BY <1>1, ReceiveFacts DEF WireType
<1>3. \A t \in tasks' : t.req \in Requests /\ t.ws \in Sockets /\ t.sent \in 0..Chunks
  BY <1>2 DEF Command
<1>4. served' \subseteq Requests /\ inline' \in Requests \cup {NoRequest}
  BY ReceiveFacts DEF TypeOK
<1>5. down' \in [Sockets -> Seq(Requests)]
  BY ReceiveFacts
<1>6. WireType'
  BY <1>2, <1>5 DEF NodeReceive, WireType
<1>7. TypeOK'
  BY <1>3, <1>4 DEF NodeReceive, TypeOK, serverVars, callVars
<1> QED BY <1>6, <1>7

\* What the node sends: nothing, or one message over the command's websocket.
Sends(t, m) == t.ws \in wsOpen /\ m \in Message /\ up' = [up EXCEPT ![t.ws] = Append(@, m)]

LEMMA SendFacts ==
  ASSUME TypeOK, WireType, NEW t \in tasks,
         NodeAnswer(t) \/ NodeSendChunk(t) \/ NodeEndFile(t)
  PROVE  /\ t \in Command
         /\ NodeAnswer(t) =>
              /\ \/ up' = up
                 \/ \E m \in Answers : m.req = t.req /\ Sends(t, m)
              /\ tasks' = tasks \ {t} /\ Kind[t.req] # "file"
         /\ NodeSendChunk(t) =>
              /\ Sends(t, FileMessage(t, t.sent + 1)) /\ t.sent < Chunks
              /\ tasks' = (tasks \ {t}) \cup {[t EXCEPT !.sent = @ + 1]} /\ t.req \in Files
         /\ NodeEndFile(t) =>
              /\ \/ up' = up
                 \/ t.sent = Chunks /\ Sends(t, FileMessage(t, Eof))
                 \/ t.sent = 0 /\ Sends(t, FileMessage(t, Denied))
              /\ tasks' = tasks \ {t} /\ t.req \in Files
<1>1. t \in Command /\ t.req \in Requests /\ t.sent \in 0..Chunks
  BY DEF WireType, Command
<1>2. ASSUME NEW d \in Denied..Eof, t.req \in Files PROVE FileMessage(t, d) \in Message
  BY <1>2 DEF FileMessage, Message, FileMessages
<1>3. ASSUME NodeAnswer(t)
      PROVE  /\ \/ up' = up
                \/ \E m \in Answers : m.req = t.req /\ Sends(t, m)
             /\ tasks' = tasks \ {t} /\ Kind[t.req] # "file"
  <2>1. t.req \notin Files /\ Kind[t.req] # "file" /\ tasks' = tasks \ {t}
    BY <1>3 DEF NodeAnswer, Files, Finished
  <2>2. PICK k \in {"answered", "failed"} : Send(t, [kind |-> k, req |-> t.req])
    BY <1>3 DEF NodeAnswer
  <2> DEFINE m == [kind |-> k, req |-> t.req]
  <2>3. m \in Answers /\ m.req = t.req
    BY <1>1, <2>1 DEF Answers
  <2>4. m \in Message
    BY <2>3 DEF Message
  <2>5. Send(t, m)
    BY <2>2
  <2> HIDE DEF m
  <2> QED BY <2>1, <2>3, <2>4, <2>5 DEF Send, Sends
<1>4. ASSUME NodeSendChunk(t)
      PROVE  /\ Sends(t, FileMessage(t, t.sent + 1)) /\ t.sent < Chunks
             /\ tasks' = (tasks \ {t}) \cup {[t EXCEPT !.sent = @ + 1]} /\ t.req \in Files
  <2>1. t.req \in Files /\ t.sent + 1 \in Denied..Eof
    BY <1>1, <1>4 DEF NodeSendChunk, Files, Denied, Eof
  <2>2. FileMessage(t, t.sent + 1) \in Message
    BY <1>2, <2>1
  <2> QED BY <1>4, <2>1, <2>2 DEF NodeSendChunk, Send, Sends
<1>5. ASSUME NodeEndFile(t)
      PROVE  /\ \/ up' = up
                \/ t.sent = Chunks /\ Sends(t, FileMessage(t, Eof))
                \/ t.sent = 0 /\ Sends(t, FileMessage(t, Denied))
             /\ tasks' = tasks \ {t} /\ t.req \in Files
  <2>1. t.req \in Files /\ tasks' = tasks \ {t}
    BY <1>1, <1>5 DEF NodeEndFile, Files, Finished
  <2>2. Denied \in Denied..Eof /\ Eof \in Denied..Eof
    BY DEF Denied, Eof
  <2>3. FileMessage(t, Eof) \in Message /\ FileMessage(t, Denied) \in Message
    BY <1>2, <2>1, <2>2
  <2> QED BY <1>5, <2>1, <2>3 DEF NodeEndFile, Send, Sends
<1> QED BY <1>1, <1>3, <1>4, <1>5

LEMMA TypeCommands ==
  ASSUME TypeOK, WireType, NEW t \in tasks,
         NodeAnswer(t) \/ NodeSendChunk(t) \/ NodeEndFile(t)
  PROVE  TypeOK' /\ WireType'
<1>1. t \in Command /\ t.ws \in Sockets
  BY SendFacts DEF Command
<1>2. up' = up \/ \E m \in Message : up' = [up EXCEPT ![t.ws] = Append(@, m)]
  <2>1. Answers \subseteq Message
    BY DEF Message
  <2> QED BY <2>1, SendFacts, Zenon DEF Sends
<1>3. up' \in [Sockets -> Seq(Message)]
  BY <1>1, <1>2, UpAppend DEF WireType
<1>4. tasks' \subseteq Command
  <2>1. CASE tasks' = tasks \ {t}
    BY <2>1 DEF WireType
  <2>2. CASE t.sent < Chunks /\ tasks' = (tasks \ {t}) \cup {[t EXCEPT !.sent = @ + 1]}
    <3>1. [t EXCEPT !.sent = @ + 1] \in Command
      BY <1>1, <2>2 DEF Command
    <3> QED BY <2>2, <3>1 DEF WireType
  <2> QED BY <2>1, <2>2, SendFacts
<1>5. \A u \in tasks' : u.req \in Requests /\ u.ws \in Sockets /\ u.sent \in 0..Chunks
  BY <1>4 DEF Command
<1>6. NodeFrame /\ inline' \in {inline, NoRequest}
  BY DEF NodeAnswer, NodeSendChunk, NodeEndFile, Finished
<1>7. WireType'
  BY <1>3, <1>4, <1>6 DEF NodeFrame, WireType
<1>8. TypeOK'
  BY <1>5, <1>6 DEF NodeFrame, TypeOK, serverVars, callVars
<1> QED BY <1>7, <1>8

LEMMA TypeStep == TypeOK /\ WireType /\ [Next]_vars => TypeOK' /\ WireType'
<1> SUFFICES ASSUME TypeOK, WireType, [Next]_vars PROVE TypeOK' /\ WireType'
  OBVIOUS
<1>1. CASE UNCHANGED vars
  BY <1>1 DEF vars, serverVars, callVars, wireVars, nodeVars, TypeOK, WireType
<1>2. CASE Next
  BY <1>2, TypeConnection, TypeRegistry, TypeQuestions, TypeArrivals, TypeReader, TypeReceive,
     TypeCommands DEF Next
<1> QED BY <1>1, <1>2

-----------------------------------------------------------------------------
(* Callers *)

\* The steps that move neither a caller nor its future.
CallFrame == UNCHANGED <<pending, future, caller>>

LEMMA CallStep ==
  ASSUME TypeOK, WireType, CallInv, WaitersAreReachable, Next
  PROVE  CallInv' /\ WaitersAreReachable'
<1>1. CASE CallFrame
  BY <1>1 DEF CallFrame, CallInv, WaitersAreReachable
<1>2. ASSUME NEW r \in Requests, request(r) PROVE CallInv' /\ WaitersAreReachable'
  <2>1. caller[r] = "idle"
    BY <1>2 DEF request
  <2>2. CASE caller' = [caller EXCEPT ![r] = "error"] /\ UNCHANGED <<pending, future, down>>
    BY <2>1, <2>2 DEF CallInv, WaitersAreReachable, TypeOK
  <2>3. CASE /\ pending' = pending \cup {r}
             /\ future' = [future EXCEPT ![r] = "waiting"]
             /\ caller' = [caller EXCEPT ![r] = "waiting"]
    BY <2>1, <2>3 DEF CallInv, WaitersAreReachable, TypeOK
  <2> QED BY <1>2, <2>2, <2>3, RequestSent
<1>3. ASSUME NEW r \in Requests, RequestTimeout(r) PROVE CallInv' /\ WaitersAreReachable'
  BY <1>3 DEF RequestTimeout, Settle, CallInv, WaitersAreReachable, TypeOK
<1>4. ASSUME NEW r \in Requests, RequestCancelled(r) PROVE CallInv' /\ WaitersAreReachable'
  <2>1. /\ caller[r] = "waiting" /\ caller' = [caller EXCEPT ![r] = "cancelled"]
        /\ r \in Files => pending' = pending \ {r}
        /\ r \notin Files => pending' = pending
    BY <1>4 DEF RequestCancelled, Settle, Files
  <2>2. /\ \A q \in Requests \ {r} : future'[q] = future[q] /\ caller'[q] = caller[q]
        /\ caller'[r] = "cancelled" /\ future'[r] \in {"cancelled", future[r]}
    BY <1>4, <2>1 DEF RequestCancelled, TypeOK
  <2>3. \A q \in Requests \ {r} : q \in pending' <=> q \in pending
    BY <2>1
  <2> QED BY <2>1, <2>2, <2>3 DEF CallInv, WaitersAreReachable
<1>5. ASSUME NEW r \in Requests, RequestReturns(r) PROVE CallInv' /\ WaitersAreReachable'
  <2>1. /\ caller[r] = "waiting" /\ future[r] # "none" /\ UNCHANGED <<pending, future>>
        /\ future[r] # "waiting"
        /\ \A q \in Requests \ {r} : caller'[q] = caller[q]
        /\ caller'[r] \in {"ok", "error"}
    BY <1>5 DEF RequestReturns, Settle, TypeOK
  <2>2. r \notin Files
    BY <1>5 DEF RequestReturns, CallInv
  <2> QED BY <2>1, <2>2 DEF CallInv, WaitersAreReachable
<1>6. ASSUME NEW w \in Sockets, publish_answer(w) PROVE CallInv' /\ WaitersAreReachable'
  <2> DEFINE r == Head(up[w]).req  k == Head(up[w]).kind
  <2>1. r \in Requests \ Files /\ k \in {"answered", "failed"}
    BY <1>6, UpTail, MessageFacts DEF publish_answer, Arrives
  <2>2. /\ pending' = pending \ {r} /\ caller' = caller
        /\ future' = IF r \in pending /\ future[r] = "waiting"
                     THEN [future EXCEPT ![r] = k] ELSE future
    BY <1>6, Zenon DEF publish_answer
  <2> HIDE DEF r, k
  <2>3. /\ \A q \in Requests \ {r} : future'[q] = future[q]
        /\ r \in pending /\ future[r] = "waiting" => future'[r] = k
        /\ ~(r \in pending /\ future[r] = "waiting") => future'[r] = future[r]
    BY <2>1, <2>2 DEF TypeOK
  <2> QED BY <2>1, <2>2, <2>3 DEF CallInv, WaitersAreReachable
<1>7. ASSUME NEW r \in Requests, ReadNext(r) PROVE CallInv' /\ WaitersAreReachable'
  <2>1. CASE CallFrame
    BY <1>1, <2>1
  <2>2. CASE /\ pending' = pending \ {r} /\ r \in Files
             /\ future' = [future EXCEPT ![r] = "cancelled"]
             /\ caller' = [caller EXCEPT ![r] = IF stream[r][1] = Eof THEN "ok" ELSE "error"]
    BY <2>2 DEF CallInv, WaitersAreReachable, TypeOK
  <2> QED BY <1>7, <2>1, <2>2, ReadFacts DEF CallFrame
<1>8. ASSUME NEW k \in Tokens, Dial(k) PROVE CallFrame
  BY <1>8 DEF Dial, CallFrame, callVars
<1>9. ASSUME NEW w \in Sockets,
             register_connection(w) \/ Drop(w) \/ executor_control_ends(w)
               \/ publish_workspace_file(w)
      PROVE CallFrame
  BY <1>9, Zenon DEF register_connection, Drop, executor_control_ends, publish_workspace_file, callVars, CallFrame
<1>10. NodeLost \/ rotate_node_credentials \/ delete_node \/ RevocationEnds \/ NodeReceive => CallFrame
  BY Zenon DEF NodeLost, rotate_node_credentials, delete_node, RevocationEnds, NodeReceive, callVars, CallFrame
<1>11. ASSUME NEW t \in tasks, NodeAnswer(t) \/ NodeSendChunk(t) \/ NodeEndFile(t) PROVE CallFrame
  BY <1>11, Zenon DEF NodeAnswer, NodeSendChunk, NodeEndFile, NodeFrame, callVars, CallFrame
<1> QED BY <1>1, <1>2, <1>3, <1>4, <1>5, <1>6, <1>7, <1>8, <1>9, <1>10, <1>11 DEF Next

-----------------------------------------------------------------------------
(* Where a question and what the node says of it are *)

\* A future, once made, is never forgotten, and is answered only for a served
\* question.
FuturesKept ==
  \A r \in Requests : /\ future[r] # "none" => future'[r] # "none"
                      /\ future'[r] \in {"answered", "failed"} => r \in served

LEMMA FutureStep ==
  ASSUME TypeOK, WireType, CallInv, ServedInv, Next
  PROVE  FuturesKept
<1>1. CASE UNCHANGED future
  BY <1>1 DEF FuturesKept, ServedInv
<1>2. ASSUME NEW r \in Requests,
             request(r) \/ RequestTimeout(r) \/ RequestCancelled(r) \/ RequestReturns(r)
      PROVE  FuturesKept
  <2>1. \A q \in Requests \ {r} : future'[q] = future[q]
    BY <1>2, RequestSent, SMTT(30) DEF RequestTimeout, RequestCancelled, RequestReturns, TypeOK
  <2>2. future'[r] \in {future[r], "waiting", "cancelled"}
    BY <1>2, RequestSent DEF RequestTimeout, RequestCancelled, RequestReturns, TypeOK
  <2> QED BY <2>1, <2>2 DEF FuturesKept, ServedInv
<1>3. ASSUME NEW r \in Requests, ReadNext(r) PROVE FuturesKept
  <2>1. future' = future \/ future' = [future EXCEPT ![r] = "cancelled"]
    BY <1>3, ReadFacts
  <2> QED BY <2>1 DEF FuturesKept, ServedInv, TypeOK
<1>4. ASSUME NEW w \in Sockets, publish_answer(w) PROVE FuturesKept
  <2> DEFINE r == Head(up[w]).req  k == Head(up[w]).kind
  <2>1. /\ r \in Requests /\ k \in {"answered", "failed"} /\ r \in served
    <3>1. up[w] # <<>> /\ k \in {"answered", "failed"} /\ up' = [up EXCEPT ![w] = Tail(@)]
      BY <1>4 DEF publish_answer, Arrives
    <3>0. Len(up[w]) \in Nat \ {0} /\ Head(up[w]) = up[w][1] /\ up[w][1] \in Message
      BY <3>1, UpTail
    <3>2. Head(up[w]) = up[w][1] /\ up[w][1] \in Message /\ 1 \in 1..Len(up[w])
      BY <3>0
    <3>3. up[w][1].kind # "register" => up[w][1].req \in served
      BY <3>2 DEF ServedInv
    <3> QED BY <3>1, <3>2, <3>3, MessageFacts
  <2>2. future' = [future EXCEPT ![r] = k] \/ future' = future
    BY <1>4, Zenon DEF publish_answer
  <2> HIDE DEF r, k
  <2> QED BY <2>1, <2>2 DEF FuturesKept, ServedInv, TypeOK
<1>5. ASSUME NEW k \in Tokens, Dial(k) PROVE UNCHANGED future
  BY <1>5 DEF Dial, callVars
<1>6. ASSUME NEW w \in Sockets,
             register_connection(w) \/ Drop(w) \/ executor_control_ends(w)
               \/ publish_workspace_file(w)
      PROVE UNCHANGED future
  BY <1>6, Zenon DEF register_connection, Drop, executor_control_ends, publish_workspace_file, callVars
<1>7. NodeLost \/ rotate_node_credentials \/ delete_node \/ RevocationEnds \/ NodeReceive => UNCHANGED future
  BY Zenon DEF NodeLost, rotate_node_credentials, delete_node, RevocationEnds, NodeReceive, callVars
<1>8. ASSUME NEW t \in tasks, NodeAnswer(t) \/ NodeSendChunk(t) \/ NodeEndFile(t) PROVE UNCHANGED future
  BY <1>8, Zenon DEF NodeAnswer, NodeSendChunk, NodeEndFile, NodeFrame, callVars
<1> QED BY <1>1, <1>2, <1>3, <1>4, <1>5, <1>6, <1>7, <1>8 DEF Next

LEMMA DownStep ==
  ASSUME TypeOK, WireType, CallInv, DownInv, ServedInv, FuturesKept, Next
  PROVE  DownInv'
<1>0. \A w \in Sockets : /\ Len(down[w]) \in Nat
                         /\ \A i \in 1..Len(down[w]) : down[w][i] \in Requests
  BY DEF WireType
<1>1. CASE UNCHANGED <<down, served>>
  BY <1>0, <1>1 DEF DownInv, FuturesKept
<1>2. ASSUME NEW r \in Requests, request(r) PROVE DownInv'
  <2>1. UNCHANGED served /\ future[r] = "none"
    BY <1>2 DEF request, nodeVars, CallInv
  <2>2. CASE UNCHANGED down
    BY <1>1, <2>1, <2>2
  <2>3. CASE /\ conn \in Sockets
             /\ future' = [future EXCEPT ![r] = "waiting"]
             /\ Len(down[conn]) \in Nat /\ Len(down'[conn]) = Len(down[conn]) + 1
             /\ \A i \in 1..Len(down[conn]) : down'[conn][i] = down[conn][i]
             /\ down'[conn][Len(down[conn]) + 1] = r
             /\ \A v \in Sockets \ {conn} : down'[v] = down[v]
    <3>1. r \notin served /\ future'[r] # "none"
      BY <2>1, <2>3 DEF ServedInv, TypeOK
    <3>2. \A w \in Sockets : \A i \in 1..Len(down[w]) : down[w][i] # r
      BY <2>1 DEF DownInv
    <3>3. ASSUME NEW w \in Sockets, NEW i \in 1..Len(down'[w])
          PROVE  \/ w = conn /\ i = Len(down[conn]) + 1 /\ down'[w][i] = r
                 \/ i \in 1..Len(down[w]) /\ down'[w][i] = down[w][i]
      BY <1>0, <2>3
    <3>4. ASSUME NEW w \in Sockets, NEW i \in 1..Len(down'[w])
          PROVE  down'[w][i] \notin served' /\ future'[down'[w][i]] # "none"
      BY <1>0, <2>1, <3>1, <3>3 DEF DownInv, FuturesKept
    <3>5. ASSUME NEW w \in Sockets, NEW i \in 1..Len(down'[w]),
                 NEW v \in Sockets, NEW j \in 1..Len(down'[v]), down'[w][i] = down'[v][j]
          PROVE  w = v /\ i = j
      <4>1. CASE down'[w][i] = r
        <5>1. w = conn /\ i = Len(down[conn]) + 1
          BY <3>2, <3>3, <4>1
        <5>2. down'[v][j] = r
          BY <3>5, <4>1
        <5>3. v = conn /\ j = Len(down[conn]) + 1
          BY <3>2, <3>3, <5>2
        <5> QED BY <5>1, <5>3
      <4>2. CASE down'[w][i] # r
        BY <3>3, <3>5, <4>2 DEF DownInv
      <4> QED BY <4>1, <4>2
    <3> QED BY <3>4, <3>5 DEF DownInv
  <2> QED BY <1>2, <2>2, <2>3, RequestSent
<1>3. ASSUME NodeReceive PROVE DownInv'
  <2> DEFINE n == nodeWs
  <2>1. /\ n \in Sockets /\ Len(down[n]) \in Nat \ {0} /\ served' = served \cup {down[n][1]}
        /\ Len(down'[n]) = Len(down[n]) - 1
        /\ \A i \in 1..Len(down[n]) - 1 : down'[n][i] = down[n][i + 1]
        /\ \A v \in Sockets \ {n} : down'[v] = down[v]
    BY <1>3, ReceiveFacts
  <2> HIDE DEF n
  <2> DEFINE At(w, i) == IF w = n THEN i + 1 ELSE i
  <2>2. ASSUME NEW w \in Sockets, NEW i \in 1..Len(down'[w])
        PROVE  /\ At(w, i) \in 1..Len(down[w]) /\ down'[w][i] = down[w][At(w, i)]
               /\ ~(w = n /\ At(w, i) = 1)
    BY <1>0, <2>1
  <2> HIDE DEF At
  <2>3. ASSUME NEW w \in Sockets, NEW i \in 1..Len(down'[w])
        PROVE  down'[w][i] \notin served' /\ future'[down'[w][i]] # "none"
    <3>0. 1 \in 1..Len(down[n])
      BY <2>1
    <3>1. down[w][At(w, i)] # down[n][1]
      BY <2>1, <2>2, <3>0 DEF DownInv
    <3>2. /\ down[w][At(w, i)] \in Requests /\ down[w][At(w, i)] \notin served
          /\ future[down[w][At(w, i)]] # "none"
      BY <1>0, <2>2 DEF DownInv
    <3> QED BY <2>1, <2>2, <3>1, <3>2 DEF FuturesKept
  <2>4. ASSUME NEW w \in Sockets, NEW i \in 1..Len(down'[w]),
               NEW v \in Sockets, NEW j \in 1..Len(down'[v]), down'[w][i] = down'[v][j]
        PROVE  w = v /\ i = j
    <3>1. w = v /\ At(w, i) = At(v, j)
      <4>1. /\ At(w, i) \in 1..Len(down[w]) /\ At(v, j) \in 1..Len(down[v])
            /\ down[w][At(w, i)] = down[v][At(v, j)]
        BY <2>2, <2>4
      <4>2. \A x \in 1..Len(down[w]), y \in 1..Len(down[v]) : down[w][x] = down[v][y] => w = v /\ x = y
        BY DEF DownInv
      <4> QED BY <4>1, <4>2
    <3> QED BY <1>0, <2>1, <3>1 DEF At
  <2> QED BY <2>3, <2>4 DEF DownInv
<1>4. ASSUME NodeLost PROVE DownInv'
  <2>1. UNCHANGED served /\ \A w \in Sockets : down'[w] = down[w] \/ Len(down'[w]) = 0
    BY <1>4, EmptySeq DEF NodeLost, WireType
  <2> QED BY <1>0, <2>1 DEF DownInv, FuturesKept
<1>5. ASSUME NEW k \in Tokens, Dial(k) PROVE UNCHANGED <<down, served>>
  BY <1>5 DEF Dial
<1>6. ASSUME NEW w \in Sockets,
             register_connection(w) \/ Drop(w) \/ executor_control_ends(w)
               \/ publish_answer(w) \/ publish_workspace_file(w)
      PROVE UNCHANGED <<down, served>>
  BY <1>6, Zenon DEF register_connection, Drop, executor_control_ends, publish_answer,
     publish_workspace_file, nodeVars
<1>7. rotate_node_credentials \/ delete_node \/ RevocationEnds => UNCHANGED <<down, served>>
  BY Zenon DEF rotate_node_credentials, delete_node, RevocationEnds, wireVars, nodeVars
<1>8. ASSUME NEW r \in Requests,
             RequestTimeout(r) \/ RequestCancelled(r) \/ RequestReturns(r) \/ ReadNext(r)
      PROVE UNCHANGED <<down, served>>
  BY <1>8, Zenon DEF RequestTimeout, RequestCancelled, RequestReturns, ReadNext, wireVars, nodeVars
<1>9. ASSUME NEW t \in tasks, NodeAnswer(t) \/ NodeSendChunk(t) \/ NodeEndFile(t)
      PROVE UNCHANGED <<down, served>>
  BY <1>9, Zenon DEF NodeAnswer, NodeSendChunk, NodeEndFile, NodeFrame
<1> QED BY <1>1, <1>2, <1>3, <1>4, <1>5, <1>6, <1>7, <1>8, <1>9 DEF Next

\* Every message from the node was there before, registers a websocket, or
\* is sent by a command in progress.
UpOrigin ==
  \A w \in Sockets : \A i \in 1..Len(up'[w]) :
    \/ up'[w][i].kind = "register"
    \/ \E j \in 1..Len(up[w]) : up'[w][i] = up[w][j]
    \/ \E t \in tasks : t.ws = w /\ up'[w][i].req = t.req

LEMMA UpStep ==
  ASSUME TypeOK, WireType, Next
  PROVE  UpOrigin
<1>0. \A w \in Sockets : Len(up[w]) \in Nat
  BY UpFacts
<1>1. CASE UNCHANGED up
  BY <1>1 DEF UpOrigin
<1>2. ASSUME NEW w \in Sockets, up[w] # <<>>, up' = [up EXCEPT ![w] = Tail(@)] PROVE UpOrigin
  <2>1. /\ Len(up[w]) \in Nat \ {0} /\ Len(up'[w]) = Len(up[w]) - 1
        /\ \A i \in 1..Len(up'[w]) : up'[w][i] = up[w][i + 1]
        /\ \A v \in Sockets \ {w} : up'[v] = up[v]
    BY <1>2, UpTail
  <2>2. \A i \in 1..Len(up'[w]) : i + 1 \in 1..Len(up[w])
    BY <2>1
  <2> QED BY <2>1, <2>2 DEF UpOrigin
<1>3. ASSUME NEW t \in tasks, NEW m \in Message, m.req = t.req, Sends(t, m) PROVE UpOrigin
  <2>1. t.ws \in Sockets
    BY DEF TypeOK
  <2>2. /\ Len(up[t.ws]) \in Nat
        /\ Len(up'[t.ws]) = Len(up[t.ws]) + 1
        /\ \A i \in 1..Len(up[t.ws]) : up'[t.ws][i] = up[t.ws][i]
        /\ up'[t.ws][Len(up[t.ws]) + 1] = m
        /\ \A v \in Sockets \ {t.ws} : up'[v] = up[v]
    BY <1>3, <2>1, UpAppend DEF Sends
  <2>3. ASSUME NEW i \in 1..Len(up'[t.ws])
        PROVE  i \in 1..Len(up[t.ws]) \/ i = Len(up[t.ws]) + 1
    BY <2>2
  <2> QED BY <1>3, <2>2, <2>3 DEF UpOrigin
<1>4. ASSUME NEW k \in Tokens, Dial(k) PROVE UpOrigin
  <2> DEFINE o == opened + 1  m == [kind |-> "register"]
  <2>1. o \in Sockets /\ up' = [up EXCEPT ![o] = <<m>>]
    BY <1>4 DEF Dial, TypeOK, Sockets
  <2>2. m.kind = "register"
    OBVIOUS
  <2> HIDE DEF o, m
  <2>3. up'[o] = <<m>> /\ \A v \in Sockets \ {o} : up'[v] = up[v]
    BY <2>1 DEF WireType
  <2>4. Len(up'[o]) = 1 /\ up'[o][1] = m
    BY <2>3
  <2>5. \A i \in 1..Len(up'[o]) : i = 1
    BY <2>4
  <2> QED BY <2>2, <2>3, <2>4, <2>5 DEF UpOrigin
<1>5. ASSUME NEW w \in Sockets, executor_control_ends(w) PROVE UpOrigin
  <2>1. \A v \in Sockets : up'[v] = up[v] \/ Len(up'[v]) = 0
    BY <1>5, EmptySeq DEF executor_control_ends, WireType
  <2> QED BY <1>0, <2>1 DEF UpOrigin
<1>6. ASSUME NEW w \in Sockets,
             register_connection(w) \/ publish_answer(w) \/ publish_workspace_file(w)
      PROVE UpOrigin
  BY <1>2, <1>6, Zenon DEF register_connection, publish_answer, publish_workspace_file, Arrives
<1>7. ASSUME NEW t \in tasks, NodeAnswer(t) \/ NodeSendChunk(t) \/ NodeEndFile(t) PROVE UpOrigin
  <2>1. \A d : FileMessage(t, d).req = t.req
    BY DEF FileMessage
  <2>2. up' = up \/ \E m \in Message : m.req = t.req /\ Sends(t, m)
    <3>1. Answers \subseteq Message
      BY DEF Message
    <3>2. CASE NodeAnswer(t)
      BY <3>1, <3>2, SendFacts, Zenon
    <3>3. CASE NodeSendChunk(t)
      <4>1. Sends(t, FileMessage(t, t.sent + 1))
        BY <3>3, SendFacts, Zenon
      <4> QED BY <2>1, <4>1, Zenon DEF Sends
    <3>4. CASE NodeEndFile(t)
      <4>1. up' = up \/ \E d \in {Eof, Denied} : Sends(t, FileMessage(t, d))
        BY <3>4, SendFacts, Zenon
      <4> QED BY <2>1, <4>1, Zenon DEF Sends
    <3> QED BY <1>7, <3>2, <3>3, <3>4
  <2> QED BY <1>1, <1>3, <2>2
<1>8. ASSUME NEW w \in Sockets, Drop(w) PROVE UNCHANGED up
  BY <1>8 DEF Drop
<1>9. NodeLost \/ rotate_node_credentials \/ delete_node \/ RevocationEnds \/ NodeReceive => UNCHANGED up
  BY Zenon DEF NodeLost, rotate_node_credentials, delete_node, RevocationEnds, NodeReceive, wireVars
<1>10. ASSUME NEW r \in Requests, request(r) \/ RequestTimeout(r) \/ RequestCancelled(r)
                                    \/ RequestReturns(r) \/ ReadNext(r)
       PROVE UNCHANGED up
  BY <1>10, Zenon DEF request, RequestTimeout, RequestCancelled, RequestReturns, ReadNext, wireVars
<1> QED BY <1>1, <1>4, <1>5, <1>6, <1>7, <1>8, <1>9, <1>10 DEF Next

\* A command in progress goes on, or is for the question just received, which
\* the node had not served.
TaskOrigin ==
  /\ served \subseteq served'
  /\ \A u \in tasks' : \/ \E t \in tasks : t.req = u.req /\ t.ws = u.ws
                       \/ u.req \in served' \ served

LEMMA TaskStep ==
  ASSUME TypeOK, WireType, DownInv, ServedInv, OneTask, NodeInv, Next
  PROVE  TaskOrigin /\ OneTask' /\ NodeInv'
<1>1. CASE tasks' \subseteq tasks /\ nodeWs' = nodeWs /\ served' = served
  BY <1>1 DEF TaskOrigin, OneTask, NodeInv
<1>2. ASSUME NodeReceive PROVE TaskOrigin /\ OneTask' /\ NodeInv'
  <2> DEFINE r == down[nodeWs][1]  n == [req |-> r, ws |-> nodeWs, sent |-> 0]
  <2>1. /\ nodeWs \in Sockets /\ Len(down[nodeWs]) \in Nat \ {0}
        /\ served' = served \cup {r} /\ tasks' = tasks \cup {n}
    BY <1>2, ReceiveFacts
  <2>2. 1 \in 1..Len(down[nodeWs])
    BY <2>1
  <2>3. r \notin served
    BY <2>1, <2>2 DEF DownInv
  <2>4. n.req = r
    OBVIOUS
  <2> HIDE DEF r, n
  <2>5. TaskOrigin
    BY <2>1, <2>3, <2>4 DEF TaskOrigin
  <2>6. OneTask'
    BY <2>1, <2>3, <2>4 DEF OneTask, ServedInv
  <2>7. NodeInv'
    BY <1>2 DEF NodeReceive, NodeInv
  <2> QED BY <2>5, <2>6, <2>7
<1>3. ASSUME NEW t \in tasks, NodeAnswer(t) \/ NodeSendChunk(t) \/ NodeEndFile(t)
      PROVE TaskOrigin /\ OneTask' /\ NodeInv'
  <2>1. UNCHANGED <<nodeWs, served>>
    BY <1>3, Zenon DEF NodeAnswer, NodeSendChunk, NodeEndFile, NodeFrame
  <2>2. CASE tasks' = tasks \ {t}
    BY <1>1, <2>1, <2>2
  <2>3. CASE tasks' = (tasks \ {t}) \cup {[t EXCEPT !.sent = @ + 1]}
    <3> DEFINE u == [t EXCEPT !.sent = @ + 1]
    <3>1. u.req = t.req /\ u.ws = t.ws
      BY DEF WireType, Command
    <3>2. tasks' = (tasks \ {t}) \cup {u}
      BY <2>3
    <3> HIDE DEF u
    <3>3. TaskOrigin /\ OneTask'
      BY <2>1, <3>1, <3>2 DEF TaskOrigin, OneTask
    <3>4. NodeInv'
      BY <2>1 DEF NodeInv
    <3> QED BY <3>3, <3>4
  <2> QED BY <1>3, <2>2, <2>3, SendFacts
<1>4. ASSUME NEW k \in Tokens, Dial(k) PROVE TaskOrigin /\ OneTask' /\ NodeInv'
  <2>1. UNCHANGED <<tasks, served>> /\ nodeWs' = opened + 1 /\ opened \in Nat
    BY <1>4 DEF Dial, TypeOK
  <2> QED BY <2>1 DEF TaskOrigin, OneTask, NodeInv, None
<1>5. ASSUME NodeLost PROVE TaskOrigin /\ OneTask' /\ NodeInv'
  <2>1. tasks' = {} /\ served' = served
    BY <1>5 DEF NodeLost
  <2> QED BY <2>1 DEF TaskOrigin, OneTask, NodeInv
<1>6. ASSUME NEW w \in Sockets,
             register_connection(w) \/ Drop(w) \/ executor_control_ends(w)
               \/ publish_answer(w) \/ publish_workspace_file(w)
      PROVE UNCHANGED nodeVars
  BY <1>6, Zenon DEF register_connection, Drop, executor_control_ends, publish_answer, publish_workspace_file
<1>7. rotate_node_credentials \/ delete_node \/ RevocationEnds => UNCHANGED nodeVars
  BY Zenon DEF rotate_node_credentials, delete_node, RevocationEnds
<1>8. ASSUME NEW r \in Requests, request(r) \/ RequestTimeout(r) \/ RequestCancelled(r)
                                   \/ RequestReturns(r) \/ ReadNext(r)
      PROVE UNCHANGED nodeVars
  BY <1>8, Zenon DEF request, RequestTimeout, RequestCancelled, RequestReturns, ReadNext
<1>9. UNCHANGED nodeVars => tasks' \subseteq tasks /\ nodeWs' = nodeWs /\ served' = served
  BY DEF nodeVars
<1> QED BY <1>1, <1>2, <1>3, <1>4, <1>5, <1>6, <1>7, <1>8, <1>9 DEF Next

\* What the server's loop takes from a channel.
LEMMA ArrivalFacts ==
  ASSUME WireType, ServedInv, NEW w \in Sockets, NEW K, Arrives(w, K), "register" \notin K
  PROVE  /\ up' \in [Sockets -> Seq(Message)]
         /\ Len(up[w]) \in Nat \ {0} /\ Head(up[w]) = up[w][1] /\ up[w][1] \in Message
         /\ Len(up'[w]) = Len(up[w]) - 1
         /\ \A i \in 1..Len(up'[w]) : up'[w][i] = up[w][i + 1]
         /\ \A v \in Sockets \ {w} : up'[v] = up[v]
         /\ up[w][1].kind \in K /\ up[w][1].req \in served
<1>1. /\ up' \in [Sockets -> Seq(Message)]
      /\ Len(up[w]) \in Nat \ {0} /\ Head(up[w]) = up[w][1] /\ up[w][1] \in Message
      /\ Len(up'[w]) = Len(up[w]) - 1
      /\ \A i \in 1..Len(up'[w]) : up'[w][i] = up[w][i + 1]
      /\ \A v \in Sockets \ {w} : up'[v] = up[v]
  BY UpTail DEF Arrives
<1>2. 1 \in 1..Len(up[w])
  BY <1>1
<1>3. up[w][1].kind \in K
  BY <1>1 DEF Arrives
<1>4. up[w][1].req \in served
  BY <1>2, <1>3 DEF ServedInv
<1> QED BY <1>1, <1>3, <1>4

\* What a block adds to its reader's queue.
LEMMA BlockFacts ==
  ASSUME TypeOK, WireType, ServedInv, NEW w \in Sockets, publish_workspace_file(w)
  PROVE  /\ up[w][1].kind = "file" /\ up[w][1].req \in Files /\ up[w][1].data \in Denied..Eof
         /\ up[w][1].req \in served
         /\ \A q \in Requests \ {up[w][1].req} : stream'[q] = stream[q]
         /\ up[w][1].req \notin pending => stream' = stream
         /\ up[w][1].req \in pending =>
              stream'[up[w][1].req] = Append(stream[up[w][1].req], up[w][1].data)
         /\ UNCHANGED <<pending, got, tasks, wsOpen>>
<1> DEFINE r == up[w][1].req  d == up[w][1].data
<1>1. Arrives(w, {"file"})
  BY DEF publish_workspace_file
<1>2. /\ Head(up[w]) = up[w][1] /\ up[w][1] \in Message /\ up[w][1].kind = "file" /\ r \in served
  BY <1>1, ArrivalFacts
<1>3. r \in Files /\ d \in Denied..Eof
  BY <1>2, MessageFacts
<1>4. /\ stream' = IF r \in pending THEN [stream EXCEPT ![r] = Append(@, d)] ELSE stream
      /\ UNCHANGED <<pending, got, tasks, wsOpen>>
  BY <1>2 DEF publish_workspace_file, nodeVars
<1>5. up[w][1].kind = "file"
  BY <1>2
<1>6. r \in served
  BY <1>2
<1> HIDE DEF r, d
<1>7. r \in Requests
  BY <1>3 DEF Files
<1>8. /\ \A q \in Requests \ {r} : stream'[q] = stream[q]
      /\ r \notin pending => stream' = stream
      /\ r \in pending => stream'[r] = Append(stream[r], d)
  BY <1>4, <1>7 DEF TypeOK
<1> QED BY <1>3, <1>4, <1>5, <1>6, <1>8 DEF r, d

LEMMA ServedStep ==
  ASSUME TypeOK, WireType, CallInv, ServedInv, DownInv, FuturesKept, UpOrigin, TaskOrigin, Next
  PROVE  ServedInv'
<1>1. \A r \in served' : future'[r] # "none"
  <2>1. CASE UNCHANGED served
    BY <2>1 DEF ServedInv, FuturesKept, TypeOK
  <2>2. CASE NodeReceive
    <3>1. /\ nodeWs \in Sockets /\ Len(down[nodeWs]) \in Nat \ {0}
          /\ served' = served \cup {down[nodeWs][1]} /\ down[nodeWs][1] \in Requests
      BY <2>2, ReceiveFacts
    <3>2. 1 \in 1..Len(down[nodeWs])
      BY <3>1
    <3>3. future[down[nodeWs][1]] # "none"
      BY <3>1, <3>2 DEF DownInv
    <3> QED BY <3>1, <3>3 DEF ServedInv, FuturesKept, TypeOK
  <2>3. ASSUME NEW k \in Tokens, Dial(k) PROVE UNCHANGED served
    BY <2>3 DEF Dial
  <2>4. ASSUME NEW w \in Sockets,
               register_connection(w) \/ Drop(w) \/ executor_control_ends(w)
                 \/ publish_answer(w) \/ publish_workspace_file(w)
        PROVE UNCHANGED served
    BY <2>4, Zenon DEF register_connection, Drop, executor_control_ends, publish_answer,
       publish_workspace_file, nodeVars
  <2>5. NodeLost \/ rotate_node_credentials \/ delete_node \/ RevocationEnds => UNCHANGED served
    BY Zenon DEF NodeLost, rotate_node_credentials, delete_node, RevocationEnds, nodeVars
  <2>6. ASSUME NEW r \in Requests, request(r) \/ RequestTimeout(r) \/ RequestCancelled(r)
                                     \/ RequestReturns(r) \/ ReadNext(r)
        PROVE UNCHANGED served
    BY <2>6, Zenon DEF request, RequestTimeout, RequestCancelled, RequestReturns, ReadNext, nodeVars
  <2>7. ASSUME NEW t \in tasks, NodeAnswer(t) \/ NodeSendChunk(t) \/ NodeEndFile(t) PROVE UNCHANGED served
    BY <2>7, Zenon DEF NodeAnswer, NodeSendChunk, NodeEndFile, NodeFrame
  <2> QED BY <2>1, <2>2, <2>3, <2>4, <2>5, <2>6, <2>7 DEF Next
<1>2. \A r \in Requests : future'[r] \in {"answered", "failed"} => r \in served'
  BY DEF FuturesKept, TaskOrigin
<1>3. \A r \in Requests : stream'[r] # <<>> \/ got'[r] # <<>> => r \in served'
  <2>0. CASE UNCHANGED <<stream, got>>
    BY <2>0 DEF ServedInv, TaskOrigin
  <2>1. ASSUME NEW w \in Sockets, publish_workspace_file(w)
        PROVE \A r \in Requests : stream'[r] # <<>> \/ got'[r] # <<>> => r \in served'
    BY <2>1, BlockFacts DEF ServedInv, TaskOrigin
  <2>2. ASSUME NEW q \in Requests, ReadNext(q)
        PROVE \A r \in Requests : stream'[r] # <<>> \/ got'[r] # <<>> => r \in served'
    <3>1. /\ stream[q] # <<>>
          /\ \A r \in Requests \ {q} : stream'[r] = stream[r] /\ got'[r] = got[r]
      BY <2>2, ReadFacts
    <3> QED BY <3>1 DEF ServedInv, TaskOrigin
  <2>3. ASSUME NEW k \in Tokens, Dial(k) PROVE UNCHANGED <<stream, got>>
    BY <2>3 DEF Dial, callVars
  <2>4. ASSUME NEW w \in Sockets,
               register_connection(w) \/ Drop(w) \/ executor_control_ends(w) \/ publish_answer(w)
        PROVE UNCHANGED <<stream, got>>
    BY <2>4, Zenon DEF register_connection, Drop, executor_control_ends, publish_answer, callVars
  <2>5. NodeLost \/ rotate_node_credentials \/ delete_node \/ RevocationEnds \/ NodeReceive
          => UNCHANGED <<stream, got>>
    BY Zenon DEF NodeLost, rotate_node_credentials, delete_node, RevocationEnds, NodeReceive, callVars
  <2>6. ASSUME NEW r \in Requests,
               request(r) \/ RequestTimeout(r) \/ RequestCancelled(r) \/ RequestReturns(r)
        PROVE UNCHANGED <<stream, got>>
    BY <2>6, Zenon DEF request, RequestTimeout, RequestCancelled, RequestReturns
  <2>7. ASSUME NEW t \in tasks, NodeAnswer(t) \/ NodeSendChunk(t) \/ NodeEndFile(t)
        PROVE UNCHANGED <<stream, got>>
    BY <2>7, Zenon DEF NodeAnswer, NodeSendChunk, NodeEndFile, NodeFrame, callVars
  <2> QED BY <2>0, <2>1, <2>2, <2>3, <2>4, <2>5, <2>6, <2>7 DEF Next
<1>4. \A t \in tasks' : t.req \in served'
  BY DEF TaskOrigin, ServedInv
<1>5. \A w \in Sockets : \A i \in 1..Len(up'[w]) :
        up'[w][i].kind # "register" => up'[w][i].req \in served'
  BY DEF UpOrigin, TaskOrigin, ServedInv
<1> QED BY <1>1, <1>2, <1>3, <1>4, <1>5 DEF ServedInv

LEMMA SocketStep ==
  ASSUME TypeOK, WireType, ServedInv, OneTask, OneSocket, UpOrigin, TaskOrigin
  PROVE  OneSocket'
\* A block of r is over w, where what is left of r's blocks was or its command runs.
<1>1. ASSUME NEW w \in Sockets, NEW i \in 1..Len(up'[w]), NEW r \in Files, IsBlock(up'[w][i], r)
      PROVE  \/ \E j \in 1..Len(up[w]) : IsBlock(up[w][j], r)
             \/ \E t \in tasks : t.ws = w /\ t.req = r
  BY <1>1 DEF UpOrigin, IsBlock
<1>2. ASSUME NEW w \in Sockets, NEW v \in Sockets, NEW r \in Files,
             \/ \E j \in 1..Len(up[w]) : IsBlock(up[w][j], r)
             \/ \E t \in tasks : t.ws = w /\ t.req = r,
             \/ \E j \in 1..Len(up[v]) : IsBlock(up[v][j], r)
             \/ \E t \in tasks : t.ws = v /\ t.req = r
      PROVE  w = v
  BY <1>2 DEF OneSocket, OneTask
<1>3. ASSUME NEW w \in Sockets, NEW r \in Files,
             \/ \E j \in 1..Len(up[w]) : IsBlock(up[w][j], r)
             \/ \E t \in tasks : t.ws = w /\ t.req = r
      PROVE  r \in served
  BY <1>3 DEF ServedInv, IsBlock
<1>4. ASSUME NEW w \in Sockets, NEW i \in 1..Len(up'[w]), NEW r \in Files, IsBlock(up'[w][i], r),
             NEW u \in tasks', u.req = r
      PROVE  u.ws = w
  <2>1. r \in served
    BY <1>1, <1>3, <1>4
  <2>2. PICK t \in tasks : t.req = r /\ t.ws = u.ws
    BY <1>4, <2>1 DEF TaskOrigin
  <2>3. t.ws \in Sockets
    BY DEF TypeOK
  <2> QED BY <1>1, <1>2, <1>4, <2>2, <2>3
<1> QED BY <1>1, <1>2, <1>4 DEF OneSocket

LEMMA PlaceStep ==
  ASSUME TypeOK, WireType, CallInv, PlaceInv, Next
  PROVE  PlaceInv'
BY FutureStep, DownStep, UpStep, TaskStep, ServedStep, SocketStep DEF PlaceInv

-----------------------------------------------------------------------------
(* The order of a file's blocks *)

Order(r) == StreamOrder(r) /\ UpOrder(r) /\ TaskOrder(r)

\* The reader of r's file and its queue stay as they are; r's commands may end.
QuietFor(r) ==
  /\ got'[r] = got[r] /\ stream'[r] = stream[r] /\ (r \in pending' => r \in pending)
  /\ \A t \in tasks' : t.req = r => t \in tasks
  /\ wsOpen' \subseteq wsOpen

LEMMA QuietFacts ==
  ASSUME NEW r \in Files, QuietFor(r), Order(r)
  PROVE  /\ StreamOrder(r)' /\ (Clean(r)' => Clean(r)) /\ Position(r)' = Position(r)
BY DEF QuietFor, Order, StreamOrder, Clean, Position

\* What UpOrder says of the block after place i.
LEMMA NextBlock ==
  ASSUME NEW r \in Files, UpOrder(r), Clean(r), NEW v \in Sockets, NEW i \in Nat,
         i + 1 \in 1..Len(up[v]), IsBlock(up[v][i + 1], r)
  PROVE  /\ up[v][i + 1].data > Position(r)
         /\ \A j \in 1..i : IsBlock(up[v][j], r) => up[v][j].data < up[v][i + 1].data
         /\ \/ up[v][i + 1].data = Position(r) + 1
            \/ \E j \in 1..i : IsBlock(up[v][j], r) /\ up[v][j].data = up[v][i + 1].data - 1
<1> DEFINE k == i + 1
<1>1. k - 1 = i /\ k \in 1..Len(up[v]) /\ IsBlock(up[v][k], r)
  OBVIOUS
<1> HIDE DEF k
<1>2. /\ up[v][k].data > Position(r)
      /\ \A j \in 1..k - 1 : IsBlock(up[v][j], r) => up[v][j].data < up[v][k].data
      /\ \/ up[v][k].data = Position(r) + 1
         \/ \E j \in 1..k - 1 : IsBlock(up[v][j], r) /\ up[v][j].data = up[v][k].data - 1
  BY <1>1 DEF UpOrder
<1>3. 1..k - 1 = 1..i
  BY <1>1
<1> QED BY <1>2, <1>3 DEF k

LEMMA OrderKept ==
  ASSUME NEW r \in Files, Order(r), QuietFor(r), UNCHANGED up
  PROVE  Order(r)'
<1>1. UpOrder(r)'
  BY QuietFacts DEF Order, UpOrder
<1>2. TaskOrder(r)'
  BY QuietFacts DEF Order, TaskOrder, QuietFor
<1> QED BY <1>1, <1>2, QuietFacts DEF Order

\* One channel loses what it held.
LEMMA OrderCleared ==
  ASSUME NEW r \in Files, Order(r), QuietFor(r), NEW w \in Sockets,
         \A i \in 1..Len(up'[w]) : ~IsBlock(up'[w][i], r),
         \A v \in Sockets \ {w} : up'[v] = up[v],
         \A t \in tasks' : t.ws \in Sockets /\ ~(t.ws = w /\ w \in wsOpen')
  PROVE  Order(r)'
<1>1. UpOrder(r)'
  <2>1. UpOrder(r) /\ (Clean(r)' => Clean(r)) /\ Position(r)' = Position(r)
    BY QuietFacts DEF Order
  <2>2. ASSUME Clean(r)', NEW v \in Sockets, NEW i \in 1..Len(up'[v]), IsBlock(up'[v][i], r)
        PROVE  /\ up'[v][i].data > Position(r)
               /\ \A j \in 1..i - 1 : IsBlock(up'[v][j], r) => up'[v][j].data < up'[v][i].data
               /\ \/ up'[v][i].data = Position(r) + 1
                  \/ \E j \in 1..i - 1 :
                       IsBlock(up'[v][j], r) /\ up'[v][j].data = up'[v][i].data - 1
    <3>1. up'[v] = up[v]
      BY <2>2
    <3>2. Clean(r) /\ i \in 1..Len(up[v]) /\ IsBlock(up[v][i], r)
      BY <2>1, <2>2, <3>1
    <3>3. /\ up[v][i].data > Position(r)
          /\ \A j \in 1..i - 1 : IsBlock(up[v][j], r) => up[v][j].data < up[v][i].data
          /\ \/ up[v][i].data = Position(r) + 1
             \/ \E j \in 1..i - 1 : IsBlock(up[v][j], r) /\ up[v][j].data = up[v][i].data - 1
      BY <2>1, <3>2 DEF UpOrder
    <3> QED BY <3>1, <3>3
  <2> QED BY <2>1, <2>2 DEF UpOrder
<1>2. TaskOrder(r)'
  BY QuietFacts DEF Order, TaskOrder, QuietFor
<1> QED BY <1>1, <1>2, QuietFacts DEF Order

\* One channel loses its first message, which is no block of r.
LEMMA OrderPassed ==
  ASSUME TypeOK, WireType, TypeOK',
         NEW r \in Files, Order(r), QuietFor(r), NEW w \in Sockets,
         Len(up[w]) \in Nat \ {0}, ~IsBlock(up[w][1], r),
         Len(up'[w]) = Len(up[w]) - 1,
         \A i \in 1..Len(up'[w]) : up'[w][i] = up[w][i + 1],
         \A v \in Sockets \ {w} : up'[v] = up[v]
  PROVE  Order(r)'
<1>1. \A i \in 2..Len(up[w]) : i - 1 \in 1..Len(up'[w]) /\ up'[w][i - 1] = up[w][i]
  BY Z3
<1>2. \A i \in 1..Len(up[w]) : IsBlock(up[w][i], r) => i \in 2..Len(up[w])
  OBVIOUS
<1>3. ASSUME Clean(r)', NEW v \in Sockets, NEW i \in 1..Len(up'[v]), IsBlock(up'[v][i], r)
      PROVE  /\ up'[v][i].data > Position(r)
             /\ \A j \in 1..i - 1 : IsBlock(up'[v][j], r) => up'[v][j].data < up'[v][i].data
             /\ \/ up'[v][i].data = Position(r) + 1
                \/ \E j \in 1..i - 1 : IsBlock(up'[v][j], r) /\ up'[v][j].data = up'[v][i].data - 1
  <2>1. UpOrder(r) /\ Clean(r)
    BY <1>3, QuietFacts DEF Order
  <2>2. CASE v # w
    <3>1. up'[v] = up[v] /\ i \in 1..Len(up[v]) /\ IsBlock(up[v][i], r)
      BY <1>3, <2>2
    <3>2. /\ up[v][i].data > Position(r)
          /\ \A j \in 1..i - 1 : IsBlock(up[v][j], r) => up[v][j].data < up[v][i].data
          /\ \/ up[v][i].data = Position(r) + 1
             \/ \E j \in 1..i - 1 : IsBlock(up[v][j], r) /\ up[v][j].data = up[v][i].data - 1
      BY <2>1, <3>1 DEF UpOrder
    <3> QED BY <3>1, <3>2
  <2>3. CASE v = w
    <3>1. i + 1 \in 1..Len(up[w]) /\ up'[w][i] = up[w][i + 1] /\ IsBlock(up[w][i + 1], r)
      BY <1>3, <2>3
    <3>2. /\ up[w][i + 1].data > Position(r)
          /\ \A j \in 1..i : IsBlock(up[w][j], r) => up[w][j].data < up[w][i + 1].data
          /\ \/ up[w][i + 1].data = Position(r) + 1
             \/ \E j \in 1..i : IsBlock(up[w][j], r) /\ up[w][j].data = up[w][i + 1].data - 1
      <4>1. i \in Nat
        OBVIOUS
      <4> QED BY <2>1, <3>1, <4>1, NextBlock, Zenon
    <3>3. \A j \in 1..i - 1 : up'[w][j] = up[w][j + 1] /\ j + 1 \in 1..i
      BY <2>3
    <3>4. ASSUME NEW j \in 1..i, IsBlock(up[w][j], r)
          PROVE  j - 1 \in 1..i - 1 /\ up'[w][j - 1] = up[w][j]
      <4>1. j \in 2..Len(up[w])
        BY <3>1, <3>4
      <4> QED BY <1>1, <4>1
    <3>5. up'[w][i].data > Position(r)
      BY <3>1, <3>2
    <3>6. ASSUME NEW j \in 1..i - 1, IsBlock(up'[w][j], r) PROVE up'[w][j].data < up'[w][i].data
      <4>1. up'[w][j] = up[w][j + 1] /\ j + 1 \in 1..i /\ IsBlock(up[w][j + 1], r)
        BY <3>3, <3>6
      <4> QED BY <3>1, <3>2, <4>1
    <3>7. \/ up'[w][i].data = Position(r) + 1
          \/ \E j \in 1..i - 1 : IsBlock(up'[w][j], r) /\ up'[w][j].data = up'[w][i].data - 1
      <4>1. CASE up[w][i + 1].data = Position(r) + 1
        BY <3>1, <4>1
      <4>2. ASSUME NEW j \in 1..i, IsBlock(up[w][j], r), up[w][j].data = up[w][i + 1].data - 1
            PROVE  /\ j - 1 \in 1..i - 1 /\ IsBlock(up'[w][j - 1], r)
                   /\ up'[w][j - 1].data = up'[w][i].data - 1
        BY <3>1, <3>4, <4>2
      <4> QED BY <3>2, <4>1, <4>2
    <3> QED BY <2>3, <3>5, <3>6, <3>7
  <2> QED BY <2>2, <2>3
<1>4. ASSUME Clean(r)', NEW t \in tasks', t.req = r, t.ws \in wsOpen'
      PROVE  /\ \A i \in 1..Len(up'[t.ws]) : IsBlock(up'[t.ws][i], r) => up'[t.ws][i].data <= t.sent
             /\ \/ t.sent = Position(r)
                \/ \E i \in 1..Len(up'[t.ws]) : IsBlock(up'[t.ws][i], r) /\ up'[t.ws][i].data = t.sent
  <2>1. /\ \A i \in 1..Len(up[t.ws]) : IsBlock(up[t.ws][i], r) => up[t.ws][i].data <= t.sent
        /\ \/ t.sent = Position(r)
           \/ \E i \in 1..Len(up[t.ws]) : IsBlock(up[t.ws][i], r) /\ up[t.ws][i].data = t.sent
    BY <1>4, QuietFacts DEF Order, TaskOrder, QuietFor
  <2>2. CASE t.ws # w
    <3>1. t.ws \in Sockets
      BY DEF TypeOK
    <3> QED BY <2>1, <2>2, <3>1
  <2>3. CASE t.ws = w
    <3>1. \A i \in 1..Len(up'[w]) : i + 1 \in 1..Len(up[w]) /\ up'[w][i] = up[w][i + 1]
      OBVIOUS
    <3>2. \A i \in 1..Len(up'[w]) : IsBlock(up'[w][i], r) => up'[w][i].data <= t.sent
      BY <2>1, <2>3, <3>1
    <3>3. ASSUME NEW i \in 1..Len(up[w]), IsBlock(up[w][i], r), up[w][i].data = t.sent
          PROVE  \E j \in 1..Len(up'[w]) : IsBlock(up'[w][j], r) /\ up'[w][j].data = t.sent
      <4>1. i - 1 \in 1..Len(up'[w]) /\ up'[w][i - 1] = up[w][i]
        BY <1>1, <1>2, <3>3
      <4> QED BY <3>3, <4>1
    <3> QED BY <2>1, <2>3, <3>2, <3>3
  <2> QED BY <2>2, <2>3
<1>5. UpOrder(r)'
  BY <1>3, QuietFacts DEF UpOrder
<1>6. TaskOrder(r)'
  BY <1>4, QuietFacts DEF TaskOrder
<1> QED BY <1>5, <1>6, QuietFacts DEF Order

\* One channel gets a message more: the channel before it stands as it was.
Appended(w) ==
  /\ Len(up[w]) \in Nat /\ Len(up'[w]) = Len(up[w]) + 1
  /\ \A i \in 1..Len(up[w]) : up'[w][i] = up[w][i]
  /\ \A v \in Sockets \ {w} : up'[v] = up[v]

LEMMA AppendedFacts ==
  ASSUME NEW w \in Sockets, Appended(w)
  PROVE  \A v \in Sockets : \A i \in 1..Len(up'[v]) :
           \/ i \in 1..Len(up[v]) /\ up'[v][i] = up[v][i]
              /\ \A j \in 1..i - 1 : up'[v][j] = up[v][j]
           \/ v = w /\ i = Len(up[w]) + 1
<1> SUFFICES ASSUME NEW v \in Sockets, NEW i \in 1..Len(up'[v])
             PROVE  \/ i \in 1..Len(up[v]) /\ up'[v][i] = up[v][i]
                       /\ \A j \in 1..i - 1 : up'[v][j] = up[v][j]
                    \/ v = w /\ i = Len(up[w]) + 1
  OBVIOUS
<1>1. CASE v # w
  <2>1. up'[v] = up[v]
    BY <1>1 DEF Appended
  <2> QED BY <2>1
<1>2. CASE v = w
  BY <1>2 DEF Appended
<1> QED BY <1>1, <1>2

\* A block under way that was under way before still has its place.
LEMMA OldBlock ==
  ASSUME NEW r \in Files, UpOrder(r), Clean(r), NEW v \in Sockets,
         NEW i \in 1..Len(up[v]), up'[v][i] = up[v][i],
         \A j \in 1..i - 1 : up'[v][j] = up[v][j], IsBlock(up'[v][i], r)
  PROVE  /\ up'[v][i].data > Position(r)
         /\ \A j \in 1..i - 1 : IsBlock(up'[v][j], r) => up'[v][j].data < up'[v][i].data
         /\ \/ up'[v][i].data = Position(r) + 1
            \/ \E j \in 1..i - 1 : IsBlock(up'[v][j], r) /\ up'[v][j].data = up'[v][i].data - 1
<1>1. /\ up[v][i].data > Position(r)
      /\ \A j \in 1..i - 1 : IsBlock(up[v][j], r) => up[v][j].data < up[v][i].data
      /\ \/ up[v][i].data = Position(r) + 1
         \/ \E j \in 1..i - 1 : IsBlock(up[v][j], r) /\ up[v][j].data = up[v][i].data - 1
  BY DEF UpOrder
<1> QED BY <1>1

\* The message sent is no block of r.
LEMMA OrderOtherSent ==
  ASSUME TypeOK', NEW r \in Files, Order(r), QuietFor(r), NEW w \in Sockets, Appended(w),
         ~IsBlock(up'[w][Len(up[w]) + 1], r)
  PROVE  Order(r)'
<1>1. ASSUME Clean(r)', NEW v \in Sockets, NEW i \in 1..Len(up'[v]), IsBlock(up'[v][i], r)
      PROVE  /\ up'[v][i].data > Position(r)
             /\ \A j \in 1..i - 1 : IsBlock(up'[v][j], r) => up'[v][j].data < up'[v][i].data
             /\ \/ up'[v][i].data = Position(r) + 1
                \/ \E j \in 1..i - 1 : IsBlock(up'[v][j], r) /\ up'[v][j].data = up'[v][i].data - 1
  <2>1. UpOrder(r) /\ Clean(r)
    BY <1>1, QuietFacts DEF Order
  <2>2. /\ i \in 1..Len(up[v]) /\ up'[v][i] = up[v][i]
        /\ \A j \in 1..i - 1 : up'[v][j] = up[v][j]
    BY <1>1, AppendedFacts
  <2> QED BY <1>1, <2>1, <2>2, OldBlock
<1>2. ASSUME Clean(r)', NEW t \in tasks', t.req = r, t.ws \in wsOpen'
      PROVE  /\ \A i \in 1..Len(up'[t.ws]) : IsBlock(up'[t.ws][i], r) => up'[t.ws][i].data <= t.sent
             /\ \/ t.sent = Position(r)
                \/ \E i \in 1..Len(up'[t.ws]) : IsBlock(up'[t.ws][i], r) /\ up'[t.ws][i].data = t.sent
  <2>1. /\ \A i \in 1..Len(up[t.ws]) : IsBlock(up[t.ws][i], r) => up[t.ws][i].data <= t.sent
        /\ \/ t.sent = Position(r)
           \/ \E i \in 1..Len(up[t.ws]) : IsBlock(up[t.ws][i], r) /\ up[t.ws][i].data = t.sent
    BY <1>2, QuietFacts DEF Order, TaskOrder, QuietFor
  <2>2. t.ws \in Sockets
    BY DEF TypeOK
  <2>3. \A i \in 1..Len(up'[t.ws]) : IsBlock(up'[t.ws][i], r) => up'[t.ws][i].data <= t.sent
    BY <2>1, <2>2, AppendedFacts
  <2>4. \A i \in 1..Len(up[t.ws]) : i \in 1..Len(up'[t.ws]) /\ up'[t.ws][i] = up[t.ws][i]
    BY <2>2 DEF Appended
  <2> QED BY <2>1, <2>3, <2>4
<1>3. UpOrder(r)'
  BY <1>1, QuietFacts DEF UpOrder
<1>4. TaskOrder(r)'
  BY <1>2, QuietFacts DEF TaskOrder
<1> QED BY <1>3, <1>4, QuietFacts DEF Order

LEMMA PositionType ==
  ASSUME TypeOK, NEW r \in Files
  PROVE  /\ got[r] \in Seq(1..Chunks) /\ stream[r] \in Seq(Denied..Eof)
         /\ Len(got[r]) \in Nat /\ Len(stream[r]) \in Nat /\ Position(r) \in Nat
<1>1. got[r] \in Seq(1..Chunks) /\ stream[r] \in Seq(Denied..Eof)
  BY DEF TypeOK, Files
<1>2. Len(got[r]) \in Nat /\ Len(stream[r]) \in Nat
  BY <1>1
<1>3. \A a, b \in Nat : a + b \in Nat
  OBVIOUS
<1> QED BY <1>1, <1>2, <1>3 DEF Position

\* The command of r sends the block after those it sent.
LEMMA OrderBlockSent ==
  ASSUME TypeOK, WireType, TypeOK', NEW r \in Files, Order(r),
         got'[r] = got[r], stream'[r] = stream[r], pending' = pending, wsOpen' = wsOpen,
         NEW t \in tasks, t.req = r, t.ws \in wsOpen, Appended(t.ws),
         IsBlock(up'[t.ws][Len(up[t.ws]) + 1], r),
         up'[t.ws][Len(up[t.ws]) + 1].data = t.sent + 1,
         \A u \in tasks' : u.req = r => u.ws = t.ws /\ u.sent = t.sent + 1
  PROVE  Order(r)'
<1> DEFINE w == t.ws  n == Len(up[w]) + 1
<1>0. w \in Sockets /\ t.sent \in Nat /\ Position(r) \in Nat /\ n \in Nat
  <2>0. t.ws \in Sockets /\ t.sent \in 0..Chunks
    BY DEF TypeOK
  <2>1. w \in Sockets /\ t.sent \in Nat /\ n \in Nat
    BY <2>0 DEF Appended
  <2> QED BY <2>1, PositionType
<1>1. StreamOrder(r)' /\ (Clean(r)' <=> Clean(r)) /\ Position(r)' = Position(r)
  BY DEF Order, StreamOrder, Clean, Position
<1>2. ASSUME Clean(r)
      PROVE  /\ \A i \in 1..Len(up[w]) : IsBlock(up[w][i], r) =>
                  up[w][i].data <= t.sent /\ up[w][i].data > Position(r)
             /\ \/ t.sent = Position(r)
                \/ \E i \in 1..Len(up[w]) : IsBlock(up[w][i], r) /\ up[w][i].data = t.sent
  BY <1>0, <1>2 DEF Order, UpOrder, TaskOrder
<1>3. \A i \in 1..Len(up[w]) : IsBlock(up[w][i], r) => up[w][i].data \in Nat
  <2>1. ASSUME NEW i \in 1..Len(up[w]), IsBlock(up[w][i], r) PROVE up[w][i].data \in Nat
    <3>1. up[w][i] \in Message /\ up[w][i].kind = "file"
      BY <1>0, <2>1, UpFacts DEF IsBlock
    <3>2. up[w][i].data \in Denied..Eof
      BY <3>1, MessageFacts
    <3> QED BY <3>2 DEF Denied, Eof
  <2> QED BY <2>1
<1>4. \A i \in 1..Len(up[w]) : i \in 1..n - 1 /\ i \in 1..Len(up'[w]) /\ up'[w][i] = up[w][i]
  BY <1>0 DEF Appended
<1>5. n \in 1..Len(up'[w]) /\ IsBlock(up'[w][n], r) /\ up'[w][n].data = t.sent + 1
  BY DEF Appended
<1>6. ASSUME Clean(r), NEW v \in Sockets, NEW i \in 1..Len(up'[v]), IsBlock(up'[v][i], r)
      PROVE  /\ up'[v][i].data > Position(r)
             /\ \A j \in 1..i - 1 : IsBlock(up'[v][j], r) => up'[v][j].data < up'[v][i].data
             /\ \/ up'[v][i].data = Position(r) + 1
                \/ \E j \in 1..i - 1 : IsBlock(up'[v][j], r) /\ up'[v][j].data = up'[v][i].data - 1
  <2>1. CASE /\ i \in 1..Len(up[v]) /\ up'[v][i] = up[v][i]
             /\ \A j \in 1..i - 1 : up'[v][j] = up[v][j]
    BY <1>6, <2>1, OldBlock DEF Order
  <2>2. CASE v = w /\ i = n
    <3>1. \A j \in 1..n - 1 : j \in 1..Len(up[w]) /\ up'[w][j] = up[w][j]
      BY <1>0 DEF Appended
    <3>2. t.sent >= Position(r)
      BY <1>0, <1>2, <1>3, <1>6
    <3>3. \A j \in 1..n - 1 : IsBlock(up'[w][j], r) => up'[w][j].data < t.sent + 1
      <4> SUFFICES ASSUME NEW j \in 1..n - 1, IsBlock(up'[w][j], r)
                   PROVE  up'[w][j].data < t.sent + 1
        OBVIOUS
      <4>1. j \in 1..Len(up[w]) /\ up'[w][j] = up[w][j]
        BY <3>1
      <4>2. up[w][j].data <= t.sent /\ up[w][j].data \in Nat
        BY <1>2, <1>3, <1>6, <4>1
      <4> QED BY <1>0, <4>1, <4>2
    <3>4. \/ t.sent + 1 = Position(r) + 1
          \/ \E j \in 1..n - 1 : IsBlock(up'[w][j], r) /\ up'[w][j].data = t.sent
      BY <1>2, <1>4, <1>6
    <3> HIDE DEF w, n
    <3> QED BY <1>0, <1>5, <2>2, <3>2, <3>3, <3>4
  <2> QED BY <1>0, <2>1, <2>2, AppendedFacts
<1>7. UpOrder(r)'
  BY <1>1, <1>6 DEF UpOrder
<1>8. ASSUME Clean(r), NEW i \in 1..Len(up'[w]), IsBlock(up'[w][i], r)
      PROVE  up'[w][i].data <= t.sent + 1
  <2>1. CASE i = n
    BY <1>0, <1>5, <2>1
  <2>2. CASE i \in 1..Len(up[w]) /\ up'[w][i] = up[w][i]
    BY <1>0, <1>2, <1>3, <1>8, <2>2
  <2> QED BY <1>0, <2>1, <2>2, AppendedFacts
<1>9. TaskOrder(r)'
  BY <1>1, <1>5, <1>8 DEF TaskOrder
<1> QED BY <1>1, <1>7, <1>9 DEF Order

LEMMA BlockData ==
  ASSUME WireType, NEW r \in Files, NEW w \in Sockets, NEW i \in 1..Len(up[w]), IsBlock(up[w][i], r)
  PROVE  up[w][i].data \in Nat
<1>1. up[w][i] \in Message /\ up[w][i].kind = "file"
  BY UpFacts DEF IsBlock
<1>2. up[w][i].data \in Denied..Eof
  BY <1>1, MessageFacts
<1> QED BY <1>2 DEF Denied, Eof

\* A block of r joins the queue of its reader, if the reader is still there.
LEMMA OrderBlockQueued ==
  ASSUME TypeOK, WireType, TypeOK', ServedInv, OneSocket, NEW w \in Sockets,
         publish_workspace_file(w), NEW r \in Files, up[w][1].req = r, Order(r)
  PROVE  Order(r)'
<1> DEFINE d == up[w][1].data
<1>1. CASE r \notin pending
  <2>1. r \notin pending'
    BY <1>1, BlockFacts
  <2> QED BY <2>1 DEF Order, StreamOrder, UpOrder, TaskOrder, Clean
<1>2. CASE r \in pending
  <2>1. /\ d \in Denied..Eof /\ stream'[r] = Append(stream[r], d)
        /\ UNCHANGED <<pending, got, tasks, wsOpen>> /\ up[w][1].kind = "file"
    BY <1>2, BlockFacts
  <2>2. /\ Len(up[w]) \in Nat \ {0} /\ Len(up'[w]) = Len(up[w]) - 1
        /\ \A i \in 1..Len(up'[w]) : up'[w][i] = up[w][i + 1]
        /\ \A v \in Sockets \ {w} : up'[v] = up[v]
    BY ArrivalFacts DEF publish_workspace_file
  <2>3. 1 \in 1..Len(up[w])
    BY <2>2
  <2>4. d # Denied => IsBlock(up[w][1], r)
    BY <2>1 DEF IsBlock
  <2>5. /\ Len(stream'[r]) = Len(stream[r]) + 1
        /\ \A k \in 1..Len(stream[r]) : stream'[r][k] = stream[r][k]
        /\ stream'[r][Len(stream[r]) + 1] = d
    BY <2>1, PositionType, AppendFacts
  <2>6. Len(got[r]) \in Nat /\ Len(stream[r]) \in Nat /\ Position(r) \in Nat
    BY PositionType
  <2>7. Position(r)' = Position(r) + 1
    <3>1. Position(r)' = Len(got[r]) + (Len(stream[r]) + 1)
      BY <2>1, <2>5 DEF Position
    <3>2. \A a, b \in Nat : a + (b + 1) = (a + b) + 1
      OBVIOUS
    <3> QED BY <2>6, <3>1, <3>2 DEF Position
  <2>8. ASSUME Clean(r), d # Denied PROVE d = Position(r) + 1
    <3>1. ~\E j \in 1..1 - 1 : TRUE
      OBVIOUS
    <3> QED BY <2>3, <2>4, <2>8, <3>1 DEF Order, UpOrder
  <2>9. ASSUME NEW k \in 1..Len(stream'[r]), \A m \in 1..k : stream'[r][m] # Denied
        PROVE  stream'[r][k] = Len(got[r]) + k
    <3>1. CASE k \in 1..Len(stream[r])
      <4>1. \A m \in 1..k : stream[r][m] # Denied
        BY <2>5, <2>6, <2>9, <3>1, SMTT(30)
      <4> QED BY <1>2, <2>5, <3>1, <4>1 DEF Order, StreamOrder
    <3>2. CASE k = Len(stream[r]) + 1
      <4>1. \A m \in 1..Len(stream[r]) : stream[r][m] # Denied
        BY <2>5, <2>6, <2>9, <3>2
      <4>2. d # Denied
        BY <2>5, <2>6, <2>9, <3>2
      <4>3. d = Position(r) + 1
        BY <1>2, <2>8, <4>1, <4>2 DEF Clean
      <4>4. \A a, b \in Nat : a + (b + 1) = (a + b) + 1
        OBVIOUS
      <4>5. d = Len(got[r]) + (Len(stream[r]) + 1)
        BY <2>6, <4>3, <4>4 DEF Position
      <4> QED BY <2>5, <3>2, <4>5
    <3> QED BY <2>5, <2>6, <3>1, <3>2
  <2>10. StreamOrder(r)'
    BY <2>1, <2>9 DEF StreamOrder
  <2>11. ASSUME Clean(r)' PROVE Clean(r) /\ d # Denied /\ d = Position(r) + 1
    <3>1. Len(stream[r]) + 1 \in 1..Len(stream'[r])
      BY <2>5, <2>6
    <3>2. \A k \in 1..Len(stream[r]) : k \in 1..Len(stream'[r])
      BY <2>5, <2>6
    <3> QED BY <2>1, <2>5, <2>8, <2>11, <3>1, <3>2 DEF Clean
  <2>12. ASSUME Clean(r)', NEW v \in Sockets, NEW i \in 1..Len(up'[v]), IsBlock(up'[v][i], r)
         PROVE  /\ up'[v][i].data > Position(r) + 1
                /\ \A j \in 1..i - 1 : IsBlock(up'[v][j], r) => up'[v][j].data < up'[v][i].data
                /\ \/ up'[v][i].data = Position(r) + 2
                   \/ \E j \in 1..i - 1 : IsBlock(up'[v][j], r) /\ up'[v][j].data = up'[v][i].data - 1
    <3>1. Clean(r) /\ IsBlock(up[w][1], r) /\ d = Position(r) + 1
      BY <2>4, <2>11, <2>12
    <3>2. v = w
      <4>1. CASE v # w
        BY <2>2, <2>3, <2>12, <3>1, <4>1 DEF OneSocket
      <4> QED BY <4>1
    <3>3. i + 1 \in 1..Len(up[w]) /\ up'[w][i] = up[w][i + 1] /\ IsBlock(up[w][i + 1], r)
      BY <2>2, <2>12, <3>2
    <3>4. /\ \A j \in 1..i : IsBlock(up[w][j], r) => up[w][j].data < up[w][i + 1].data
          /\ \/ up[w][i + 1].data = Position(r) + 1
             \/ \E j \in 1..i : IsBlock(up[w][j], r) /\ up[w][j].data = up[w][i + 1].data - 1
      BY <3>1, <3>3, NextBlock DEF Order
    <3>5. up[w][i + 1].data \in Nat
      BY <3>3, BlockData
    <3>6. up[w][i + 1].data > Position(r) + 1
      <4>1. 1 \in 1..i
        OBVIOUS
      <4> QED BY <3>1, <3>4, <4>1
    <3>7. \A j \in 1..i - 1 : up'[w][j] = up[w][j + 1] /\ j + 1 \in 1..i
      BY <2>2, <3>2
    <3>8. ASSUME NEW j \in 2..i PROVE j - 1 \in 1..i - 1 /\ up'[w][j - 1] = up[w][j]
      <4>1. j - 1 \in 1..i - 1 /\ (j - 1) + 1 = j
        BY <3>8
      <4> QED BY <3>7, <4>1
    <3>9. \/ up[w][i + 1].data = Position(r) + 2
          \/ \E j \in 2..i : IsBlock(up[w][j], r) /\ up[w][j].data = up[w][i + 1].data - 1
      <4>1. PICK j \in 1..i : IsBlock(up[w][j], r) /\ up[w][j].data = up[w][i + 1].data - 1
        BY <2>6, <3>4, <3>5, <3>6
      <4>2. j = 1 => up[w][i + 1].data = Position(r) + 2
        BY <2>6, <3>1, <3>5, <4>1, SMTT(30)
      <4>3. j = 1 \/ j \in 2..i
        OBVIOUS
      <4> QED BY <4>1, <4>2, <4>3
    <3> HIDE DEF d
    <3> QED BY <3>2, <3>3, <3>4, <3>6, <3>7, <3>8, <3>9
  <2>13. ASSUME Clean(r)', NEW t \in tasks', t.req = r, t.ws \in wsOpen'
         PROVE  /\ \A i \in 1..Len(up'[t.ws]) : IsBlock(up'[t.ws][i], r) => up'[t.ws][i].data <= t.sent
                /\ \/ t.sent = Position(r) + 1
                   \/ \E i \in 1..Len(up'[t.ws]) : IsBlock(up'[t.ws][i], r) /\ up'[t.ws][i].data = t.sent
    <3>1. Clean(r) /\ IsBlock(up[w][1], r) /\ d = Position(r) + 1
      BY <2>4, <2>11, <2>13
    <3>2. t \in tasks /\ t.ws = w /\ t.ws \in wsOpen /\ t.sent \in Nat
      <4>1. t \in tasks /\ t.ws \in wsOpen
        BY <2>1, <2>13
      <4>2. t.sent \in 0..Chunks
        BY <4>1 DEF TypeOK
      <4>3. t.ws = w
        BY <2>3, <2>13, <3>1, <4>1 DEF OneSocket
      <4> QED BY <4>1, <4>2, <4>3
    <3>3. /\ \A i \in 1..Len(up[w]) : IsBlock(up[w][i], r) => up[w][i].data <= t.sent
          /\ \/ t.sent = Position(r)
             \/ \E i \in 1..Len(up[w]) : IsBlock(up[w][i], r) /\ up[w][i].data = t.sent
      BY <2>13, <3>1, <3>2 DEF Order, TaskOrder
    <3>4. t.sent # Position(r)
      BY <2>3, <2>6, <3>1, <3>2, <3>3
    <3>5. \A i \in 1..Len(up'[w]) : i + 1 \in 1..Len(up[w]) /\ up'[w][i] = up[w][i + 1]
      BY <2>2
    <3>6. \A i \in 2..Len(up[w]) : i - 1 \in 1..Len(up'[w]) /\ up'[w][i - 1] = up[w][i]
      BY <2>2
    <3>7. PICK i \in 1..Len(up[w]) : IsBlock(up[w][i], r) /\ up[w][i].data = t.sent
      BY <3>3, <3>4
    <3>8. i = 1 \/ i \in 2..Len(up[w])
      BY <2>2
    <3>9. \/ t.sent = Position(r) + 1
          \/ \E j \in 1..Len(up'[w]) : IsBlock(up'[w][j], r) /\ up'[w][j].data = t.sent
      BY <3>1, <3>6, <3>7, <3>8
    <3>10. \A j \in 1..Len(up'[w]) : IsBlock(up'[w][j], r) => up'[w][j].data <= t.sent
      BY <3>3, <3>5
    <3> QED BY <3>2, <3>9, <3>10
  <2>14. UpOrder(r)'
    <3>1. Position(r)' + 1 = Position(r) + 2
      BY <2>6, <2>7
    <3> QED BY <2>7, <2>12, <3>1 DEF UpOrder
  <2>15. TaskOrder(r)'
    BY <2>7, <2>13 DEF TaskOrder
  <2> QED BY <2>10, <2>14, <2>15 DEF Order
<1> QED BY <1>1, <1>2

LEMMA ReaderIsPending ==
  ASSUME CallInv, WaitersAreReachable, NEW r \in Files, caller[r] = "waiting"
  PROVE  r \in pending
BY DEF CallInv, WaitersAreReachable, Files

\* The reader takes the next message of its queue.
LEMMA OrderRead ==
  ASSUME TypeOK, WireType, NEW r \in Files, ReadNext(r), Order(r)
  PROVE  Order(r)'
<1>0. r \in Requests /\ UNCHANGED <<up, tasks, wsOpen>>
  BY DEF Files, ReadNext, wireVars, nodeVars
<1>1. CASE stream[r][1] \notin 1..Chunks
  <2>1. r \notin pending'
    BY <1>0, <1>1, ReadFacts
  <2> QED BY <2>1 DEF Order, StreamOrder, UpOrder, TaskOrder, Clean
<1>2. CASE stream[r][1] \in 1..Chunks
  <2>1. /\ Len(stream[r]) \in Nat \ {0} /\ Len(stream'[r]) = Len(stream[r]) - 1
        /\ \A i \in 1..Len(stream[r]) - 1 : stream'[r][i] = stream[r][i + 1]
        /\ Len(got[r]) \in Nat /\ Len(got'[r]) = Len(got[r]) + 1 /\ pending' = pending
    BY <1>0, <1>2, ReadFacts
  <2>2. Position(r)' = Position(r)
    <3> DEFINE a == Len(got[r])
               b == Len(stream[r])
    <3>1. a \in Nat /\ b \in Nat \ {0} /\ Len(got'[r]) = a + 1 /\ Len(stream'[r]) = b - 1
      BY <2>1
    <3> HIDE DEF a, b
    <3>2. (a + 1) + (b - 1) = a + b
      BY <3>1
    <3> QED BY <3>1, <3>2 DEF Position, a, b
  <2>3. stream[r][1] # Denied
    BY <1>2 DEF Denied
  <2>4. ASSUME NEW k \in 1..Len(stream[r]), k # 1
        PROVE  k - 1 \in 1..Len(stream'[r]) /\ stream'[r][k - 1] = stream[r][k]
    <3>1. k - 1 \in 1..Len(stream[r]) - 1 /\ (k - 1) + 1 = k
      BY <2>1, <2>4
    <3> QED BY <2>1, <3>1
  <2>5. Clean(r)' => Clean(r)
    BY <2>1, <2>3, <2>4 DEF Clean
  <2>6. ASSUME r \in pending, NEW k \in 1..Len(stream'[r]), \A m \in 1..k : stream'[r][m] # Denied
        PROVE  stream'[r][k] = Len(got'[r]) + k
    <3>1. k + 1 \in 1..Len(stream[r]) /\ stream'[r][k] = stream[r][k + 1]
      BY <2>1
    <3>2. ASSUME NEW m \in 1..k + 1 PROVE stream[r][m] # Denied
      <4>1. CASE m = 1
        BY <2>3, <4>1
      <4>2. CASE m # 1
        <5>1. m - 1 \in 1..k /\ stream'[r][m - 1] = stream[r][m]
          BY <2>1, <2>4, <3>1, <4>2
        <5> QED BY <2>6, <5>1
      <4> QED BY <4>1, <4>2
    <3>3. stream[r][k + 1] = Len(got[r]) + (k + 1)
      BY <2>6, <3>1, <3>2 DEF Order, StreamOrder
    <3>4. \A a, b \in Nat : a + (b + 1) = (a + 1) + b
      OBVIOUS
    <3>5. k \in Nat
      OBVIOUS
    <3>6. Len(got[r]) + (k + 1) = (Len(got[r]) + 1) + k
      BY <2>1, <3>4, <3>5
    <3> QED BY <2>1, <3>1, <3>3, <3>6
  <2>7. StreamOrder(r)'
    BY <2>1, <2>6 DEF StreamOrder
  <2>8. UpOrder(r)'
    BY <1>0, <2>2, <2>5 DEF Order, UpOrder
  <2>9. TaskOrder(r)'
    BY <1>0, <2>2, <2>5 DEF Order, TaskOrder
  <2> QED BY <2>7, <2>8, <2>9 DEF Order
<1> QED BY <1>1, <1>2

\* What the node never served has left no trace.
LEMMA Untouched ==
  ASSUME TypeOK, WireType, ServedInv, NEW r \in Files, r \notin served
  PROVE  /\ stream[r] = <<>> /\ Position(r) = 0
         /\ \A w \in Sockets : \A i \in 1..Len(up[w]) : ~IsBlock(up[w][i], r)
         /\ \A t \in tasks : t.req # r
<1>1. stream[r] = <<>> /\ got[r] = <<>>
  BY DEF ServedInv, Files
<1>2. Position(r) = 0
  BY <1>1, EmptySeq DEF Position
<1> QED BY <1>1, <1>2 DEF ServedInv, IsBlock

LEMMA OrderAsked ==
  ASSUME TypeOK, WireType, ServedInv, CallInv, NEW r \in Files, request(r)
  PROVE  Order(r)'
<1>1. r \in Requests /\ future[r] = "none"
  BY DEF Files, request, CallInv
<1>2. r \notin served
  BY <1>1 DEF ServedInv
<1>3. UNCHANGED <<stream, got, up, tasks>>
  BY DEF request, nodeVars
<1>4. /\ \A w \in Sockets : \A i \in 1..Len(up'[w]) : ~IsBlock(up'[w][i], r)
      /\ \A t \in tasks' : t.req # r
      /\ stream'[r] = <<>>
  BY <1>2, <1>3, Untouched
<1>5. Len(stream'[r]) = 0
  BY <1>4, EmptySeq
<1> QED BY <1>4, <1>5 DEF Order, StreamOrder, UpOrder, TaskOrder

LEMMA OrderReceived ==
  ASSUME TypeOK, WireType, ServedInv, DownInv, NEW r \in Files, NodeReceive, Order(r),
         down[nodeWs][1] = r
  PROVE  Order(r)'
<1>1. /\ nodeWs \in Sockets /\ Len(down[nodeWs]) \in Nat \ {0}
      /\ tasks' = tasks \cup {[req |-> r, ws |-> nodeWs, sent |-> 0]}
  BY ReceiveFacts
<1>2. r \notin served
  <2>1. 1 \in 1..Len(down[nodeWs])
    BY <1>1
  <2> QED BY <1>1, <2>1 DEF DownInv
<1>3. UNCHANGED <<stream, got, up, pending>>
  BY DEF NodeReceive, callVars
<1>4. /\ \A w \in Sockets : \A i \in 1..Len(up'[w]) : ~IsBlock(up'[w][i], r)
      /\ \A t \in tasks : t.req # r
      /\ stream'[r] = <<>> /\ Position(r) = 0 /\ Position(r)' = Position(r)
  BY <1>2, <1>3, Untouched DEF Position
<1>5. Len(stream'[r]) = 0
  BY <1>4, EmptySeq
<1>6. ASSUME NEW t \in tasks', t.req = r PROVE t.sent = 0 /\ t.ws \in Sockets
  BY <1>1, <1>4, <1>6
<1>7. TaskOrder(r)'
  BY <1>4, <1>6 DEF TaskOrder
<1> QED BY <1>4, <1>5, <1>7 DEF Order, StreamOrder, UpOrder

LEMMA OrderStep ==
  ASSUME TypeOK, WireType, TypeOK', CallInv, PlaceInv, OrderInv, Next
  PROVE  OrderInv'
<1>0. DownInv /\ ServedInv /\ OneTask /\ OneSocket /\ NodeInv
  BY DEF PlaceInv
<1> SUFFICES ASSUME NEW r \in Files PROVE Order(r)'
  BY DEF OrderInv, Order
<1> USE <1>0
<1>1. r \in Requests /\ Order(r)
  BY DEF OrderInv, Order, Files
\* The steps that touch neither a file's queue nor the channels from the node.
<1>2. ASSUME UNCHANGED <<got, stream, up>>, pending' \subseteq pending, tasks' \subseteq tasks,
             wsOpen' \subseteq wsOpen
      PROVE  Order(r)'
  <2>1. QuietFor(r)
    BY <1>2 DEF QuietFor
  <2> QED BY <1>1, <1>2, <2>1, OrderKept
<1>3. ASSUME NEW k \in Tokens, Dial(k) PROVE Order(r)'
  <2> DEFINE o == opened + 1  m == [kind |-> "register"]
  <2>1. /\ o \in Sockets /\ up' = [up EXCEPT ![o] = <<m>>]
        /\ UNCHANGED <<got, stream, pending>> /\ tasks' = {}
    BY <1>3 DEF Dial, TypeOK, Sockets, callVars, NodeInv
  <2>2. m.kind # "file"
    OBVIOUS
  <2> HIDE DEF o, m
  <2>3. up'[o] = <<m>> /\ \A v \in Sockets \ {o} : up'[v] = up[v]
    BY <2>1 DEF WireType
  <2>4. Len(up'[o]) = 1 /\ up'[o][1] = m
    BY <2>3
  <2>5. \A i \in 1..Len(up'[o]) : ~IsBlock(up'[o][i], r)
    BY <2>2, <2>4 DEF IsBlock
  <2>6. StreamOrder(r)' /\ (Clean(r)' => Clean(r)) /\ Position(r)' = Position(r)
    BY <1>1, <2>1 DEF Order, StreamOrder, Clean, Position
  <2>7. UpOrder(r)'
    BY <1>1, <2>1, <2>3, <2>5, <2>6 DEF Order, UpOrder
  <2>8. TaskOrder(r)'
    BY <2>1 DEF TaskOrder
  <2> QED BY <2>6, <2>7, <2>8 DEF Order
<1>4. ASSUME NEW w \in Sockets, register_connection(w) PROVE Order(r)'
  <2>1. up[w] # <<>> /\ Head(up[w]).kind = "register" /\ up' = [up EXCEPT ![w] = Tail(@)]
    BY <1>4 DEF register_connection
  <2>2. wsOpen' \subseteq wsOpen
    BY <1>4 DEF register_connection
  <2>3. QuietFor(r)
    BY <1>4, <2>2 DEF register_connection, QuietFor, callVars, nodeVars
  <2>4. ~IsBlock(up[w][1], r)
    BY <2>1, UpTail DEF IsBlock
  <2> QED BY <1>1, <2>1, <2>3, <2>4, UpTail, OrderPassed
<1>5. ASSUME NEW w \in Sockets, Drop(w) PROVE Order(r)'
  BY <1>2, <1>5 DEF Drop, callVars, nodeVars
<1>6. ASSUME NEW w \in Sockets, executor_control_ends(w) PROVE Order(r)'
  <2>1. w \notin wsOpen' /\ QuietFor(r)
    BY <1>6 DEF executor_control_ends, QuietFor, callVars, nodeVars
  <2>2. up'[w] = <<>> /\ \A v \in Sockets \ {w} : up'[v] = up[v]
    BY <1>6 DEF executor_control_ends, WireType
  <2>3. Len(up'[w]) = 0
    BY <2>2, EmptySeq
  <2>4. \A t \in tasks' : t.ws \in Sockets
    BY DEF TypeOK
  <2> QED BY <1>1, <2>1, <2>2, <2>3, <2>4, OrderCleared
<1>7. ASSUME NEW w \in Sockets, publish_answer(w) PROVE Order(r)'
  <2>1. Arrives(w, {"answered", "failed"})
    BY <1>7 DEF publish_answer
  <2>2. QuietFor(r)
    <3>1. UNCHANGED <<stream, got, tasks, wsOpen>> /\ pending' \subseteq pending
      BY <1>7 DEF publish_answer, nodeVars
    <3> QED BY <3>1 DEF QuietFor
  <2>3. ~IsBlock(up[w][1], r)
    <3>1. "register" \notin {"answered", "failed"}
      OBVIOUS
    <3>2. up[w][1].kind \in {"answered", "failed"}
      BY <2>1, <3>1, ArrivalFacts
    <3> QED BY <3>2 DEF IsBlock
  <2> QED BY <1>1, <2>1, <2>2, <2>3, ArrivalFacts, OrderPassed
<1>8. ASSUME NEW w \in Sockets, publish_workspace_file(w) PROVE Order(r)'
  <2>1. CASE up[w][1].req = r
    BY <1>1, <1>8, <2>1, OrderBlockQueued
  <2>2. CASE up[w][1].req # r
    <3>1. Arrives(w, {"file"})
      BY <1>8 DEF publish_workspace_file
    <3>2. QuietFor(r)
      BY <1>1, <1>8, <2>2, BlockFacts DEF QuietFor
    <3>3. ~IsBlock(up[w][1], r)
      BY <2>2 DEF IsBlock
    <3> QED BY <1>1, <3>1, <3>2, <3>3, ArrivalFacts, OrderPassed
  <2> QED BY <2>1, <2>2
<1>9. NodeLost \/ rotate_node_credentials \/ delete_node \/ RevocationEnds => Order(r)'
  BY <1>2 DEF NodeLost, rotate_node_credentials, delete_node, RevocationEnds, callVars, wireVars, nodeVars
<1>10. ASSUME NodeReceive PROVE Order(r)'
  <2>1. CASE down[nodeWs][1] = r
    BY <1>1, <1>10, <2>1, OrderReceived
  <2>2. CASE down[nodeWs][1] # r
    <3>1. /\ tasks' = tasks \cup {[req |-> down[nodeWs][1], ws |-> nodeWs, sent |-> 0]}
          /\ UNCHANGED <<got, stream, pending, up, wsOpen>>
      BY <1>10, ReceiveFacts DEF NodeReceive, callVars
    <3>2. QuietFor(r)
      BY <2>2, <3>1 DEF QuietFor
    <3> QED BY <1>1, <3>1, <3>2, OrderKept
  <2> QED BY <2>1, <2>2
<1>11. ASSUME NEW q \in Requests, request(q) PROVE Order(r)'
  <2>1. CASE q = r
    BY <1>11, <2>1, OrderAsked
  <2>2. CASE q # r
    <3>1. pending' = pending \/ pending' = pending \cup {q}
      BY <1>11, RequestSent
    <3>2. QuietFor(r) /\ UNCHANGED up
      BY <1>11, <2>2, <3>1 DEF request, QuietFor, nodeVars
    <3> QED BY <1>1, <3>2, OrderKept
  <2> QED BY <2>1, <2>2
<1>12. ASSUME NEW q \in Requests, RequestTimeout(q) \/ RequestCancelled(q) \/ RequestReturns(q)
       PROVE Order(r)'
  <2>1. pending' \subseteq pending
    BY <1>12 DEF RequestTimeout, RequestCancelled, RequestReturns
  <2> QED BY <1>2, <1>12, <2>1 DEF RequestTimeout, RequestCancelled, RequestReturns, wireVars, nodeVars
<1>13. ASSUME NEW q \in Requests, ReadNext(q) PROVE Order(r)'
  <2>1. CASE q = r
    BY <1>1, <1>13, <2>1, OrderRead
  <2>2. CASE q # r
    <3>1. UNCHANGED <<up, tasks, wsOpen>>
      BY <1>13 DEF ReadNext, wireVars, nodeVars
    <3>2. stream'[r] = stream[r] /\ got'[r] = got[r] /\ (pending' = pending \/ pending' = pending \ {q})
      BY <1>1, <1>13, <2>2, ReadFacts
    <3>3. QuietFor(r)
      BY <3>1, <3>2 DEF QuietFor
    <3> QED BY <1>1, <3>1, <3>3, OrderKept
  <2> QED BY <2>1, <2>2
<1>14. ASSUME NEW t \in tasks, NodeAnswer(t) \/ NodeSendChunk(t) \/ NodeEndFile(t) PROVE Order(r)'
  <2>1. UNCHANGED <<got, stream, pending, wsOpen>> /\ t.ws \in Sockets /\ t \in Command
    <3>1. UNCHANGED <<got, stream, pending, wsOpen>>
      BY <1>14, Zenon DEF NodeAnswer, NodeSendChunk, NodeEndFile, NodeFrame, callVars
    <3> QED BY <1>14, <3>1, SendFacts DEF TypeOK
  <2>2. ASSUME NEW m \in Message, Sends(t, m) PROVE Appended(t.ws) /\ up'[t.ws][Len(up[t.ws]) + 1] = m
    BY <2>1, <2>2, UpAppend DEF Sends, Appended
  <2>3. ASSUME tasks' = tasks \ {t}, up' = up PROVE Order(r)'
    BY <1>2, <2>1, <2>3
  \* A message that is no block of r, and commands of r that stay or end.
  <2>4. ASSUME NEW m \in Message, Sends(t, m), ~IsBlock(m, r),
               \A u \in tasks' : u.req = r => u \in tasks
        PROVE  Order(r)'
    <3>1. QuietFor(r)
      BY <2>1, <2>4 DEF QuietFor
    <3> QED BY <1>1, <2>1, <2>2, <2>4, <3>1, OrderOtherSent
  <2>5. CASE NodeAnswer(t)
    <3>1. tasks' = tasks \ {t}
      BY <1>14, <2>5, SendFacts
    <3>2. ASSUME NEW m \in Answers PROVE m \in Message /\ ~IsBlock(m, r)
      BY DEF Answers, Message, IsBlock
    <3>3. up' = up \/ \E m \in Answers : m.req = t.req /\ Sends(t, m)
      BY <1>14, <2>5, SendFacts
    <3> QED BY <2>3, <2>4, <3>1, <3>2, <3>3
  <2>6. ASSUME NEW d \in Denied..Eof, Sends(t, FileMessage(t, d)), t.req = r, d = t.sent + 1,
               \A u \in tasks' : u.req = r => u.ws = t.ws /\ u.sent = t.sent + 1
        PROVE  Order(r)'
    <3> DEFINE m == FileMessage(t, d)
    <3>1. m \in Message /\ t.ws \in wsOpen
      BY <2>6 DEF Sends
    <3>2. t.sent \in Nat
      BY <2>1 DEF Command
    <3>3. IsBlock(m, r) /\ m.data = t.sent + 1
      BY <2>6, <3>2 DEF FileMessage, IsBlock, Denied
    <3>4. Sends(t, m)
      BY <2>6
    <3> HIDE DEF m
    <3>5. Appended(t.ws) /\ up'[t.ws][Len(up[t.ws]) + 1] = m
      BY <2>2, <3>1, <3>4
    <3> QED BY <1>1, <2>1, <2>6, <3>1, <3>3, <3>5, OrderBlockSent
  <2>7. \A d : ~IsBlock(FileMessage(t, Denied), r) /\ (t.req # r => ~IsBlock(FileMessage(t, d), r))
    BY DEF FileMessage, IsBlock
  <2>8. CASE NodeSendChunk(t)
    <3> DEFINE n == [t EXCEPT !.sent = @ + 1]
    <3>1. /\ Sends(t, FileMessage(t, t.sent + 1)) /\ t.sent < Chunks
          /\ tasks' = (tasks \ {t}) \cup {n}
      BY <1>14, <2>8, SendFacts
    <3>2. n.req = t.req /\ n.ws = t.ws /\ n.sent = t.sent + 1
      BY <2>1 DEF Command
    <3>3. t.sent + 1 \in Denied..Eof
      BY <2>1, <3>1 DEF Command, Denied, Eof
    <3> HIDE DEF n
    <3>4. CASE t.req = r
      <4>1. \A u \in tasks' : u.req = r => u.ws = t.ws /\ u.sent = t.sent + 1
        BY <3>1, <3>2, <3>4 DEF OneTask
      <4> QED BY <2>6, <3>1, <3>3, <3>4, <4>1
    <3>5. CASE t.req # r
      <4>1. \A u \in tasks' : u.req = r => u \in tasks
        BY <3>1, <3>2, <3>5
      <4>2. FileMessage(t, t.sent + 1) \in Message
        BY <3>1 DEF Sends
      <4> QED BY <2>4, <2>7, <3>1, <3>5, <4>1, <4>2
    <3> QED BY <3>4, <3>5
  <2>9. CASE NodeEndFile(t)
    <3>1. /\ \/ up' = up
             \/ t.sent = Chunks /\ Sends(t, FileMessage(t, Eof))
             \/ t.sent = 0 /\ Sends(t, FileMessage(t, Denied))
          /\ tasks' = tasks \ {t}
      BY <1>14, <2>9, SendFacts
    <3>2. CASE up' = up
      BY <2>3, <3>1, <3>2
    <3>3. CASE Sends(t, FileMessage(t, Denied))
      <4>1. FileMessage(t, Denied) \in Message
        BY <3>3 DEF Sends
      <4> QED BY <2>4, <2>7, <3>1, <3>3, <4>1
    <3>4. CASE t.sent = Chunks /\ Sends(t, FileMessage(t, Eof))
      <4>1. Eof \in Denied..Eof /\ Eof = t.sent + 1
        BY <3>4 DEF Denied, Eof
      <4>2. CASE t.req = r
        <5>1. \A u \in tasks' : u.req # r
          BY <3>1, <4>2 DEF OneTask
        <5> QED BY <2>6, <3>4, <4>1, <4>2, <5>1
      <4>3. CASE t.req # r
        <5>1. FileMessage(t, Eof) \in Message
          BY <3>4 DEF Sends
        <5> QED BY <2>4, <2>7, <3>1, <3>4, <4>3, <5>1
      <4> QED BY <4>2, <4>3
    <3> QED BY <3>1, <3>2, <3>3, <3>4
  <2> QED BY <1>14, <2>5, <2>8, <2>9
<1> QED BY <1>3, <1>4, <1>5, <1>6, <1>7, <1>8, <1>9, <1>10, <1>11, <1>12, <1>13, <1>14 DEF Next

-----------------------------------------------------------------------------
(* Downloads *)

LEMMA CountingUp ==
  ASSUME NEW S, NEW s \in Seq(S)
  PROVE  s = [i \in 1..Len(s) |-> i] <=> \A i \in 1..Len(s) : s[i] = i
OBVIOUS

LEMMA DownloadStep ==
  ASSUME TypeOK, WireType, TypeOK', CallInv, WaitersAreReachable, OrderInv, DownloadsAreWhole, Next
  PROVE  DownloadsAreWhole'
<1> SUFFICES ASSUME NEW r \in Files
             PROVE  /\ got'[r] = [i \in 1..Len(got'[r]) |-> i]
                    /\ caller'[r] = "ok" => Len(got'[r]) = Chunks
  BY DEF DownloadsAreWhole
<1>0. /\ r \in Requests
      /\ got[r] = [i \in 1..Len(got[r]) |-> i]
      /\ caller[r] = "ok" => Len(got[r]) = Chunks
  BY DEF DownloadsAreWhole, Files
<1>1. CASE got'[r] = got[r] /\ (caller'[r] = caller[r] \/ caller'[r] # "ok")
  BY <1>0, <1>1
<1>2. ASSUME ReadNext(r)
      PROVE  /\ got'[r] = [i \in 1..Len(got'[r]) |-> i]
             /\ caller'[r] = "ok" => Len(got'[r]) = Chunks
  <2>1. caller[r] = "waiting" /\ Len(stream[r]) \in Nat \ {0} /\ stream[r][1] \in Denied..Eof
    BY <1>0, <1>2, ReadFacts
  <2>2. r \in pending
    BY <2>1, ReaderIsPending
  <2>3. stream[r][1] # Denied => stream[r][1] = Len(got[r]) + 1
    <3>1. 1 \in 1..Len(stream[r])
      BY <2>1
    <3> QED BY <2>2, <3>1 DEF OrderInv, StreamOrder
  <2>4. got[r] \in Seq(1..Chunks) /\ got'[r] \in Seq(1..Chunks) /\ Len(got[r]) \in Nat
    BY <1>0, PositionType DEF TypeOK
  <2>5. \A i \in 1..Len(got[r]) : got[r][i] = i
    BY <1>0
  <2>6. CASE stream[r][1] \in 1..Chunks
    <3>1. /\ Len(got'[r]) = Len(got[r]) + 1 /\ caller' = caller
          /\ \A i \in 1..Len(got[r]) : got'[r][i] = got[r][i]
          /\ got'[r][Len(got[r]) + 1] = stream[r][1]
      <4>1. r \in Requests
        BY <1>0
      <4> QED BY <1>2, <2>6, <4>1, ReadFacts
    <3>2. stream[r][1] = Len(got[r]) + 1
      BY <2>3, <2>6 DEF Denied
    <3>3. ASSUME NEW i \in 1..Len(got'[r]) PROVE got'[r][i] = i
      <4>1. i \in 1..Len(got[r]) \/ i = Len(got[r]) + 1
        BY <2>4, <3>1
      <4> QED BY <2>5, <3>1, <3>2, <4>1
    <3>4. caller'[r] # "ok"
      BY <2>1, <3>1
    <3> QED BY <2>4, <3>3, <3>4, CountingUp
  <2>7. CASE stream[r][1] \notin 1..Chunks
    <3>1. /\ got' = got
          /\ caller' = [caller EXCEPT ![r] = IF stream[r][1] = Eof THEN "ok" ELSE "error"]
      BY <1>0, <1>2, <2>7, ReadFacts
    <3>2. caller'[r] = "ok" => stream[r][1] = Eof
      BY <1>0, <3>1 DEF TypeOK
    <3>3. stream[r][1] = Eof => Len(got[r]) = Chunks
      BY <2>3, <2>4 DEF Eof, Denied
    <3> QED BY <1>0, <3>1, <3>2, <3>3
  <2> QED BY <2>6, <2>7
<1>3. ASSUME NEW q \in Requests, ReadNext(q), q # r PROVE got'[r] = got[r] /\ caller'[r] = caller[r]
  <2>1. /\ got'[r] = got[r]
        /\ \/ caller' = caller
           \/ caller' = [caller EXCEPT ![q] = IF stream[q][1] = Eof THEN "ok" ELSE "error"]
    BY <1>0, <1>3, ReadFacts
  <2> QED BY <1>0, <1>3, <2>1 DEF TypeOK
<1>4. ASSUME NEW q \in Requests, request(q)
      PROVE got'[r] = got[r] /\ (caller'[r] = caller[r] \/ caller'[r] # "ok")
  <2>1. got' = got
    BY <1>4 DEF request
  <2>2. caller' = [caller EXCEPT ![q] = "error"] \/ caller' = [caller EXCEPT ![q] = "waiting"]
    BY <1>4, RequestSent
  <2> QED BY <1>0, <2>1, <2>2 DEF TypeOK
<1>5. ASSUME NEW q \in Requests, RequestTimeout(q) \/ RequestCancelled(q)
      PROVE got'[r] = got[r] /\ (caller'[r] = caller[r] \/ caller'[r] # "ok")
  <2>1. got' = got
    BY <1>5 DEF RequestTimeout, RequestCancelled
  <2>2. caller' = [caller EXCEPT ![q] = "timeout"] \/ caller' = [caller EXCEPT ![q] = "cancelled"]
    BY <1>5 DEF RequestTimeout, RequestCancelled, Settle
  <2> QED BY <1>0, <2>1, <2>2 DEF TypeOK
<1>6. ASSUME NEW q \in Requests, RequestReturns(q) PROVE got'[r] = got[r] /\ caller'[r] = caller[r]
  <2>1. q # r
    BY <1>6 DEF RequestReturns, CallInv
  <2> QED BY <1>0, <1>6, <2>1 DEF RequestReturns, Settle, TypeOK
<1>7. ASSUME NEW k \in Tokens, Dial(k) PROVE UNCHANGED <<got, caller>>
  BY <1>7 DEF Dial, callVars
<1>8. ASSUME NEW w \in Sockets,
             register_connection(w) \/ Drop(w) \/ executor_control_ends(w)
               \/ publish_answer(w) \/ publish_workspace_file(w)
      PROVE UNCHANGED <<got, caller>>
  BY <1>8, Zenon DEF register_connection, Drop, executor_control_ends, publish_answer,
     publish_workspace_file, callVars
<1>9. NodeLost \/ rotate_node_credentials \/ delete_node \/ RevocationEnds \/ NodeReceive
        => UNCHANGED <<got, caller>>
  BY Zenon DEF NodeLost, rotate_node_credentials, delete_node, RevocationEnds, NodeReceive, callVars
<1>10. ASSUME NEW t \in tasks, NodeAnswer(t) \/ NodeSendChunk(t) \/ NodeEndFile(t)
       PROVE UNCHANGED <<got, caller>>
  BY <1>10, Zenon DEF NodeAnswer, NodeSendChunk, NodeEndFile, NodeFrame, callVars
<1> QED BY <1>1, <1>2, <1>3, <1>4, <1>5, <1>6, <1>7, <1>8, <1>9, <1>10 DEF Next

-----------------------------------------------------------------------------
(* The invariant *)

LEMMA IInvInit == Init => IInv
<1> SUFFICES ASSUME Init PROVE IInv
  OBVIOUS
<1>1. TypeOK /\ WireType
  BY TypeInit
<1>2. /\ \A r \in Requests : caller[r] = "idle" /\ future[r] = "none" /\ r \notin pending
      /\ tasks = {} /\ served = {}
  BY DEF Init
<1>3. /\ \A w \in Sockets : Len(down[w]) = 0 /\ Len(up[w]) = 0
      /\ \A r \in Requests : stream[r] = <<>> /\ got[r] = <<>>
  BY EmptySeq DEF Init
<1>4. CallInv /\ WaitersAreReachable
  BY <1>2 DEF CallInv, WaitersAreReachable
<1>5. PlaceInv
  BY <1>2, <1>3 DEF PlaceInv, DownInv, ServedInv, OneTask, OneSocket, NodeInv
<1>6. OrderInv
  BY <1>2 DEF OrderInv, StreamOrder, UpOrder, TaskOrder, Clean, Files
<1>7. DownloadsAreWhole
  <2>1. ASSUME NEW r \in Files PROVE got[r] = [i \in 1..Len(got[r]) |-> i] /\ caller[r] # "ok"
    <3>1. got[r] = <<>> /\ caller[r] # "ok" /\ Len(<<>>) = 0
      BY <1>2, <1>3, EmptySeq DEF Files
    <3>2. got[r] \in Seq(1..Chunks) /\ \A i \in 1..Len(got[r]) : got[r][i] = i
      BY <1>1, <3>1, PositionType
    <3> QED BY <3>1, <3>2, CountingUp
  <2> QED BY <2>1 DEF DownloadsAreWhole
<1> QED BY <1>1, <1>4, <1>5, <1>6, <1>7 DEF IInv

LEMMA IInvStep == IInv /\ [Next]_vars => IInv'
<1> SUFFICES ASSUME IInv, [Next]_vars PROVE IInv'
  OBVIOUS
<1>1. TypeOK' /\ WireType'
  BY TypeStep DEF IInv
<1>2. CASE Next
  BY <1>1, <1>2, CallStep, PlaceStep, OrderStep, DownloadStep DEF IInv
<1>3. CASE UNCHANGED vars
  <2> USE <1>3 DEF vars, serverVars, callVars, wireVars, nodeVars
  <2>1. CallInv' /\ WaitersAreReachable' /\ DownloadsAreWhole'
    BY DEF IInv, CallInv, WaitersAreReachable, DownloadsAreWhole
  <2>2. PlaceInv'
    BY DEF IInv, PlaceInv, DownInv, ServedInv, OneTask, OneSocket, NodeInv
  <2>3. OrderInv'
    <3> SUFFICES ASSUME NEW r \in Files PROVE Order(r)'
      BY DEF OrderInv, Order
    <3>1. QuietFor(r) /\ UNCHANGED up
      BY DEF QuietFor
    <3>2. Order(r)
      BY DEF IInv, OrderInv, Order
    <3> QED BY <3>1, <3>2, OrderKept
  <2> QED BY <1>1, <2>1, <2>2, <2>3 DEF IInv
<1> QED BY <1>2, <1>3

\* The invariant the other theorems rest on: where every question, its future,
\* the blocks of its file and the command that sends them can be.
THEOREM ControlInvariant == Spec => []IInv
<1>1. Init => IInv
  BY IInvInit
<1>2. IInv /\ [Next]_vars => IInv'
  BY IInvStep
<1> QED BY <1>1, <1>2, PTL DEF Spec

\* A caller that waits for an open future has its entry in the node manager's
\* map, whatever timeouts, late answers, disconnects and rotations do: an
\* answer of the node finds it.
THEOREM WaitersStayReachable == Spec => []WaitersAreReachable
<1>1. IInv => WaitersAreReachable
  BY DEF IInv
<1> QED BY <1>1, ControlInvariant, PTL

\* read_workspace_file hands out the file from its first block on without a
\* gap, and ends well only after the last, although nothing but the order of
\* the messages on one websocket tells the server so.
THEOREM DownloadsStayWhole == Spec => []DownloadsAreWhole
<1>1. IInv => DownloadsAreWhole
  BY DEF IInv
<1> QED BY <1>1, ControlInvariant, PTL

-----------------------------------------------------------------------------
(* The refinement of RequestReply *)

Asked == {r \in Requests : future[r] # "none"}
OutcomeOf(c) == CASE c \in {"idle", "waiting"} -> "none"
                  [] c = "ok" -> "answered"
                  [] OTHER -> "given_up"
Outcome == [r \in Requests |-> OutcomeOf(caller[r])]

LEMMA Outcomes ==
  /\ OutcomeOf("idle") = "none" /\ OutcomeOf("waiting") = "none" /\ OutcomeOf("ok") = "answered"
  /\ OutcomeOf("error") = "given_up" /\ OutcomeOf("timeout") = "given_up"
  /\ OutcomeOf("cancelled") = "given_up"
BY DEF OutcomeOf

\* The steps of RequestReply, under the mapping.
Asks(r) == r \notin Asked /\ Outcome[r] = "none" /\ Asked' = Asked \cup {r} /\ UNCHANGED <<served, Outcome>>
GivesUp(r) == Outcome[r] = "none" /\ Outcome' = [Outcome EXCEPT ![r] = "given_up"] /\ UNCHANGED <<Asked, served>>
Serves(r) == r \in Asked \ served /\ served' = served \cup {r} /\ UNCHANGED <<Asked, Outcome>>
AnswersTo(r) == r \in served /\ Outcome[r] = "none" /\ Outcome' = [Outcome EXCEPT ![r] = "answered"] /\ UNCHANGED <<Asked, served>>
Keeps == \/ \E r \in Requests : Asks(r) \/ GivesUp(r) \/ Serves(r) \/ AnswersTo(r)
         \/ UNCHANGED <<Asked, served, Outcome>>

LEMMA MappedStep == Keeps => [RR!Next]_RR!vars
BY DEF Keeps, Asks, GivesUp, Serves, AnswersTo, Asked, Outcome, OutcomeOf,
       RR!Next, RR!Ask, RR!GiveUp, RR!Serve, RR!Answer, RR!vars

LEMMA MappedInit == Init => RR!Init
BY DEF Init, RR!Init

\* A caller that is settled now.
LEMMA Settled ==
  ASSUME TypeOK, NEW r \in Requests, caller[r] = "idle" \/ caller[r] = "waiting", NEW o,
         caller' = [caller EXCEPT ![r] = o]
  PROVE  Outcome[r] = "none" /\ Outcome' = [Outcome EXCEPT ![r] = OutcomeOf(o)]
<1>1. \A q \in Requests : caller'[q] = IF q = r THEN o ELSE caller[q]
  BY DEF TypeOK
<1>2. Outcome' = [q \in Requests |-> IF q = r THEN OutcomeOf(o) ELSE OutcomeOf(caller[q])]
  BY <1>1 DEF Outcome
<1>3. Outcome[r] = "none"
  BY Outcomes DEF Outcome
<1> QED BY <1>2, <1>3 DEF Outcome

LEMMA SameAsked ==
  ASSUME TypeOK, NEW r \in Requests, future[r] # "none", NEW v \in {"answered", "failed", "cancelled"},
         future' = [future EXCEPT ![r] = v]
  PROVE  Asked' = Asked
<1>1. \A q \in Requests : future'[q] = IF q = r THEN v ELSE future[q]
  BY DEF TypeOK
<1>2. \A q \in Requests : future'[q] # "none" <=> future[q] # "none"
  BY <1>1
<1> QED BY <1>2 DEF Asked

LEMMA KeepsStep == ASSUME IInv, Next PROVE Keeps
<1>0. TypeOK /\ WireType /\ CallInv /\ WaitersAreReachable /\ DownInv /\ ServedInv
  BY DEF IInv, PlaceInv
<1> USE <1>0
<1>1. CASE UNCHANGED <<future, caller, served>>
  BY <1>1 DEF Keeps, Asked, Outcome
<1>2. ASSUME NEW r \in Requests, request(r) PROVE Keeps
  <2>1. caller[r] = "idle" /\ future[r] = "none" /\ UNCHANGED served
    BY <1>2 DEF request, CallInv, nodeVars
  <2>2. CASE caller' = [caller EXCEPT ![r] = "error"] /\ UNCHANGED <<pending, future, down>>
    <3>1. Outcome[r] = "none" /\ Outcome' = [Outcome EXCEPT ![r] = "given_up"]
      <4>1. Outcome[r] = "none" /\ Outcome' = [Outcome EXCEPT ![r] = OutcomeOf("error")]
        BY <2>1, <2>2, Settled
      <4>2. OutcomeOf("error") = "given_up"
        BY Outcomes
      <4> QED BY <4>1, <4>2
    <3>2. Asked' = Asked
      BY <2>2 DEF Asked
    <3>3. GivesUp(r)
      BY <2>1, <3>1, <3>2 DEF GivesUp
    <3> QED BY <3>3 DEF Keeps
  <2>3. CASE /\ future' = [future EXCEPT ![r] = "waiting"]
             /\ caller' = [caller EXCEPT ![r] = "waiting"]
    <3>1. Outcome[r] = "none" /\ Outcome' = [Outcome EXCEPT ![r] = "none"]
      <4>1. Outcome[r] = "none" /\ Outcome' = [Outcome EXCEPT ![r] = OutcomeOf("waiting")]
        BY <2>1, <2>3, Settled
      <4>2. OutcomeOf("waiting") = "none"
        BY Outcomes
      <4> QED BY <4>1, <4>2
    <3>2. Outcome' = Outcome
      BY <3>1 DEF Outcome
    <3>3. \A q \in Requests : future'[q] = IF q = r THEN "waiting" ELSE future[q]
      BY <2>3 DEF TypeOK
    <3>4. Asked' = Asked \cup {r} /\ r \notin Asked
      BY <2>1, <3>3 DEF Asked
    <3>5. Asks(r)
      BY <2>1, <3>1, <3>2, <3>4 DEF Asks
    <3> QED BY <3>5 DEF Keeps
  <2> QED BY <1>2, <2>2, <2>3, RequestSent
<1>3. ASSUME NEW r \in Requests, RequestTimeout(r) PROVE Keeps
  <2>1. /\ caller[r] = "waiting" /\ future[r] # "none" /\ UNCHANGED served
        /\ caller' = [caller EXCEPT ![r] = "timeout"] /\ future' = [future EXCEPT ![r] = "cancelled"]
    BY <1>3 DEF RequestTimeout, Settle, nodeVars
  <2>2. Outcome[r] = "none" /\ Outcome' = [Outcome EXCEPT ![r] = "given_up"]
    <3>1. Outcome[r] = "none" /\ Outcome' = [Outcome EXCEPT ![r] = OutcomeOf("timeout")]
      BY <2>1, Settled
    <3>2. OutcomeOf("timeout") = "given_up"
      BY Outcomes
    <3> QED BY <3>1, <3>2
  <2>3. Asked' = Asked
    BY <2>1, SameAsked
  <2> QED BY <2>1, <2>2, <2>3 DEF Keeps, GivesUp
<1>4. ASSUME NEW r \in Requests, RequestCancelled(r) PROVE Keeps
  <2>1. /\ caller[r] = "waiting" /\ future[r] # "none" /\ UNCHANGED served
        /\ caller' = [caller EXCEPT ![r] = "cancelled"]
    BY <1>4 DEF RequestCancelled, Settle, nodeVars, CallInv
  <2>2. Outcome[r] = "none" /\ Outcome' = [Outcome EXCEPT ![r] = "given_up"]
    <3>1. Outcome[r] = "none" /\ Outcome' = [Outcome EXCEPT ![r] = OutcomeOf("cancelled")]
      BY <2>1, Settled
    <3>2. OutcomeOf("cancelled") = "given_up"
      BY Outcomes
    <3> QED BY <3>1, <3>2
  <2>3. \A q \in Requests : future'[q] # "none" <=> future[q] # "none"
    BY <1>4, <2>1 DEF RequestCancelled, TypeOK
  <2>4. Asked' = Asked
    BY <2>3 DEF Asked
  <2> QED BY <2>1, <2>2, <2>4 DEF Keeps, GivesUp
<1>5. ASSUME NEW r \in Requests, RequestReturns(r) PROVE Keeps
  <2>1. caller[r] = "waiting" /\ UNCHANGED <<future, served>> /\ r \in served
    BY <1>5 DEF RequestReturns, nodeVars, ServedInv
  <2>2. Asked' = Asked
    BY <2>1 DEF Asked
  <2>3. CASE future[r] = "answered"
    <3>1. caller' = [caller EXCEPT ![r] = "ok"]
      BY <1>5, <2>3 DEF RequestReturns, Settle
    <3>2. Outcome[r] = "none" /\ Outcome' = [Outcome EXCEPT ![r] = "answered"]
      <4>1. Outcome[r] = "none" /\ Outcome' = [Outcome EXCEPT ![r] = OutcomeOf("ok")]
        BY <2>1, <3>1, Settled
      <4>2. OutcomeOf("ok") = "answered"
        BY Outcomes
      <4> QED BY <4>1, <4>2
    <3> QED BY <2>1, <2>2, <3>2 DEF Keeps, AnswersTo
  <2>4. CASE future[r] # "answered"
    <3>1. caller' = [caller EXCEPT ![r] = "error"]
      BY <1>5, <2>4 DEF RequestReturns, Settle
    <3>2. Outcome[r] = "none" /\ Outcome' = [Outcome EXCEPT ![r] = "given_up"]
      <4>1. Outcome[r] = "none" /\ Outcome' = [Outcome EXCEPT ![r] = OutcomeOf("error")]
        BY <2>1, <3>1, Settled
      <4>2. OutcomeOf("error") = "given_up"
        BY Outcomes
      <4> QED BY <4>1, <4>2
    <3> QED BY <2>1, <2>2, <3>2 DEF Keeps, GivesUp
  <2> QED BY <2>3, <2>4
<1>6. ASSUME NEW r \in Requests, ReadNext(r) PROVE Keeps
  <2>1. /\ caller[r] = "waiting" /\ future[r] # "none" /\ UNCHANGED served /\ r \in served
        /\ Len(stream[r]) \in Nat \ {0} /\ stream[r][1] \in Denied..Eof
    <3>1. /\ caller[r] = "waiting" /\ stream[r] # <<>>
          /\ Len(stream[r]) \in Nat \ {0} /\ stream[r][1] \in Denied..Eof
      BY <1>6, ReadFacts
    <3> QED BY <1>6, <3>1 DEF ReadNext, nodeVars, CallInv, ServedInv
  <2>2. CASE UNCHANGED <<pending, future, caller>>
    BY <1>1, <2>1, <2>2
  <2>3. ASSUME NEW o \in {"ok", "error"}, future' = [future EXCEPT ![r] = "cancelled"],
               caller' = [caller EXCEPT ![r] = o]
        PROVE  Keeps
    <3>1. Asked' = Asked
      BY <2>1, <2>3, SameAsked
    <3>2. Outcome[r] = "none" /\ Outcome' = [Outcome EXCEPT ![r] = OutcomeOf(o)]
      BY <2>1, <2>3, Settled
    <3>3. CASE o = "ok"
      BY <2>1, <3>1, <3>2, <3>3, Outcomes DEF Keeps, AnswersTo
    <3>4. CASE o = "error"
      BY <2>1, <3>1, <3>2, <3>4, Outcomes DEF Keeps, GivesUp
    <3> QED BY <2>3, <3>3, <3>4
  <2>4. CASE stream[r][1] \notin 1..Chunks
    <3> DEFINE o == IF stream[r][1] = Eof THEN "ok" ELSE "error"
    <3>1. o \in {"ok", "error"}
      OBVIOUS
    <3>2. future' = [future EXCEPT ![r] = "cancelled"] /\ caller' = [caller EXCEPT ![r] = o]
      BY <1>6, <2>4, ReadFacts
    <3> HIDE DEF o
    <3> QED BY <2>3, <3>1, <3>2
  <2>5. CASE stream[r][1] \in 1..Chunks
    BY <1>6, <2>2, <2>5, ReadFacts
  <2> QED BY <2>4, <2>5
<1>7. ASSUME NEW w \in Sockets, publish_answer(w) PROVE Keeps
  <2> DEFINE r == Head(up[w]).req  k == Head(up[w]).kind
  <2>1. r \in Requests /\ k \in {"answered", "failed"}
    BY <1>7, UpTail, MessageFacts DEF publish_answer, Arrives
  <2>2. /\ future' = IF r \in pending /\ future[r] = "waiting" THEN [future EXCEPT ![r] = k] ELSE future
        /\ UNCHANGED <<caller, served>>
    BY <1>7, Zenon DEF publish_answer, nodeVars
  <2> HIDE DEF r, k
  <2>3. CASE r \in pending /\ future[r] = "waiting"
    <3>1. future' = [future EXCEPT ![r] = k] /\ future[r] # "none"
      BY <2>2, <2>3
    <3>2. k \in {"answered", "failed", "cancelled"}
      BY <2>1
    <3>3. Asked' = Asked
      BY <2>1, <3>1, <3>2, SameAsked
    <3> QED BY <2>2, <3>3 DEF Keeps, Outcome
  <2>4. CASE ~(r \in pending /\ future[r] = "waiting")
    BY <1>1, <2>2, <2>4
  <2> QED BY <2>3, <2>4
<1>8. ASSUME NodeReceive PROVE Keeps
  <2> DEFINE r == down[nodeWs][1]
  <2>1. /\ nodeWs \in Sockets /\ Len(down[nodeWs]) \in Nat \ {0} /\ r \in Requests
        /\ served' = served \cup {r}
    BY <1>8, ReceiveFacts
  <2>2. 1 \in 1..Len(down[nodeWs])
    BY <2>1
  <2>3. r \notin served /\ future[r] # "none"
    BY <2>1, <2>2 DEF DownInv
  <2>4. UNCHANGED <<future, caller>>
    BY <1>8 DEF NodeReceive, callVars
  <2> HIDE DEF r
  <2>5. Serves(r)
    BY <2>1, <2>3, <2>4 DEF Serves, Asked, Outcome
  <2> QED BY <2>1, <2>5 DEF Keeps
<1>9. ASSUME NEW k \in Tokens, Dial(k) PROVE UNCHANGED <<future, caller, served>>
  BY <1>9 DEF Dial, callVars
<1>10. ASSUME NEW w \in Sockets,
              register_connection(w) \/ Drop(w) \/ executor_control_ends(w) \/ publish_workspace_file(w)
       PROVE UNCHANGED <<future, caller, served>>
  BY <1>10, Zenon DEF register_connection, Drop, executor_control_ends, publish_workspace_file,
     callVars, nodeVars
<1>11. NodeLost \/ rotate_node_credentials \/ delete_node \/ RevocationEnds
         => UNCHANGED <<future, caller, served>>
  BY Zenon DEF NodeLost, rotate_node_credentials, delete_node, RevocationEnds, callVars, nodeVars
<1>12. ASSUME NEW t \in tasks, NodeAnswer(t) \/ NodeSendChunk(t) \/ NodeEndFile(t)
       PROVE UNCHANGED <<future, caller, served>>
  BY <1>12, Zenon DEF NodeAnswer, NodeSendChunk, NodeEndFile, NodeFrame, callVars
<1> QED BY <1>1, <1>2, <1>3, <1>4, <1>5, <1>6, <1>7, <1>8, <1>9, <1>10, <1>11, <1>12 DEF Next

\* ExecutorNodeManager implements RequestReply: over websockets that drop,
\* credentials that change and callers that leave, a question is put and served
\* at most once, its caller hears one outcome, and an answer is only heard of a
\* question the node has served.
THEOREM ImplementsRequestReply == Spec => KeepsPromise
<1>1. Init => RR!Init
  BY MappedInit
<1>2. IInv /\ [Next]_vars => [RR!Next]_RR!vars
  <2> SUFFICES ASSUME IInv, [Next]_vars PROVE [RR!Next]_RR!vars
    OBVIOUS
  <2>1. CASE Next
    BY <2>1, KeepsStep, MappedStep
  <2>2. CASE UNCHANGED vars
    <3>1. UNCHANGED <<Asked, served, Outcome>>
      BY <2>2 DEF vars, callVars, nodeVars, Asked, Outcome
    <3> QED BY <3>1, MappedStep DEF Keeps
  <2> QED BY <2>1, <2>2
<1> QED BY <1>1, <1>2, ControlInvariant, PTL DEF Spec, KeepsPromise, RR!Spec
=============================================================================
