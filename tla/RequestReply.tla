---------------------------- MODULE RequestReply ----------------------------
(***************************************************************************)
(* What the executor node manager promises the session runtime about a     *)
(* question it puts to an executor node: the question is put at most once, *)
(* the node serves it at most once, the caller hears one outcome, and an   *)
(* outcome that carries the node's answer is heard only once the node has  *)
(* served the question.  A caller that has given up may still have been    *)
(* served: the promise is at-most-once, not exactly-once.                  *)
(***************************************************************************)
CONSTANT Requests

VARIABLES asked,    \* the requests that were put to a node
          served,   \* the requests a node has begun to serve
          outcome   \* "none", "answered" or "given_up", per request

vars == <<asked, served, outcome>>

Outcomes == {"none", "answered", "given_up"}

Init == asked = {} /\ served = {} /\ outcome = [r \in Requests |-> "none"]

Ask(r) == /\ r \notin asked
          /\ outcome[r] = "none"
          /\ asked' = asked \cup {r}
          /\ UNCHANGED <<served, outcome>>

\* The request is refused before it is put to a node, or abandoned after.
GiveUp(r) == /\ outcome[r] = "none"
             /\ outcome' = [outcome EXCEPT ![r] = "given_up"]
             /\ UNCHANGED <<asked, served>>

Serve(r) == /\ r \in asked \ served
            /\ served' = served \cup {r}
            /\ UNCHANGED <<asked, outcome>>

Answer(r) == /\ r \in served
             /\ outcome[r] = "none"
             /\ outcome' = [outcome EXCEPT ![r] = "answered"]
             /\ UNCHANGED <<asked, served>>

Next == \E r \in Requests : Ask(r) \/ GiveUp(r) \/ Serve(r) \/ Answer(r)

Spec == Init /\ [][Next]_vars
=============================================================================
