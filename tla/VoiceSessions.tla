--------------------------- MODULE VoiceSessions ---------------------------
(***************************************************************************)
(* The voice sessions of the Agora ConvoAI connector: a prepared session   *)
(* is activated (a binding to a Newbro session is reserved, a voice agent  *)
(* started, the binding finalized), the agent's chat completions become    *)
(* coalesced user turns, and the session is stopped.                       *)
(*                                                                         *)
(* The binding, the runtime session and the connector handle that an       *)
(* activation makes have its name; it also names the Newbro session the    *)
(* registry creates when none was asked for.  An action is the code        *)
(* between two points where it really suspends: calls to Newbro and to     *)
(* Agora, and the registry's lock, which is held over a call only while a  *)
(* Newbro session is created.                                              *)
(***************************************************************************)
EXTENDS Naturals

CONSTANTS Calls,      \* the calls of activate_session
          Prepared,   \* the prepared sessions
          PreparedOf, \* the prepared session each call activates
          SessionOf,  \* the Newbro session each was prepared for, or NoSession
          NoSession,
          MaxTurns    \* bound: the chat completions, numbered as they arrive

Turns == 1..MaxTurns
Free == "free"
None == 0

ASSUME VoiceAssumption ==
  /\ PreparedOf \in [Calls -> Prepared]
  /\ MaxTurns \in Nat /\ Free \notin Calls

VARIABLES
  ready,    \* the prepared sessions of the ConvoAI service
  named,    \* those whose Newbro session the connector remembers
  lock,     \* the call that holds the registry's lock, or Free
  bound,    \* _bindings of the registry
  session,  \* the Newbro session of each binding
  final,    \* the bindings with a runtime session id
  watching, \* the bindings whose notification watcher runs
  runtime,  \* _sessions of the ConvoAI service
  agent,    \* what runs at Agora: "none", "running", "stopped"
  handles,  \* _sessions of the connector
  act,      \* per call: where its activation stands
  stop,     \* per binding: where the stop of it stands
  turn,     \* per chat completion: where its text stands
  of,       \* the binding each chat completion came for
  pending,  \* _pending of the coalescer: per binding a turn, or None
  later,    \* history: the text its session submitted next after each, or None
  unheard,  \* history: activations whose "started" event failed
  astray,     \* history: activations that failed although their agent had started
  stuck     \* history: stops that failed after the handle was dropped

bindVars == <<lock, bound, session, final, watching>>
turnVars == <<turn, of, pending, later>>
agentVars == <<ready, named, runtime, agent, handles>>
failVars == <<unheard, astray, stuck>>
vars == <<bindVars, turnVars, agentVars, act, stop, failVars>>

TypeOK ==
  /\ ready \subseteq Prepared /\ named \subseteq Prepared
  /\ lock \in Calls \cup {Free}
  /\ bound \subseteq Calls /\ final \subseteq Calls /\ watching \subseteq Calls
  /\ runtime \subseteq Calls /\ handles \subseteq Calls
  /\ agent \in [Calls -> {"none", "running", "stopped"}]
  /\ act \in [Calls -> {"idle", "creating", "starting", "started", "undoing", "telling",
                        "done", "failed"}]
  /\ stop \in [Calls -> {"idle", "flushing", "stopping", "telling", "unbinding"}]
  /\ turn \in [Turns -> {"new", "partial", "refused", "pending", "posting", "flushing",
                         "delivered", "replaced", "failed"}]
  /\ of \in [Turns -> Calls \cup {Free}]
  /\ pending \in [Calls -> Turns \cup {None}] /\ later \in [Turns -> Turns \cup {None}]
  /\ unheard \subseteq Calls /\ astray \subseteq Calls /\ stuck \subseteq Calls

Init ==
  /\ ready = {} /\ named = {} /\ lock = Free
  /\ bound = {} /\ final = {} /\ runtime = {} /\ handles = {}
  /\ session = [c \in Calls |-> NoSession]
  /\ watching = {} /\ agent = [c \in Calls |-> "none"]
  /\ act = [c \in Calls |-> "idle"] /\ stop = [c \in Calls |-> "idle"]
  /\ turn = [t \in Turns |-> "new"] /\ of = [t \in Turns |-> Free]
  /\ pending = [c \in Calls |-> None] /\ later = [t \in Turns |-> None]
  /\ unheard = {} /\ astray = {} /\ stuck = {}

-----------------------------------------------------------------------------
\* Activation

\* The connector remembers the Newbro session that was asked for.
Remembered(p) == IF SessionOf[p] = NoSession THEN named ELSE named \cup {p}

\* A Newbro session that a call creates can be asked for once it is there.
Exists(s) == s \in Calls => act[s] \notin {"idle", "creating"}

prepare_session(p) ==
  /\ p \notin ready /\ Exists(SessionOf[p])
  /\ \A c \in Calls : PreparedOf[c] = p => act[c] = "idle"
  /\ ready' = ready \cup {p}
  /\ named' = Remembered(p)
  /\ UNCHANGED <<bindVars, turnVars, runtime, agent, handles, act, stop, failVars>>

\* Fault: only the bindings that have their runtime session count.
TakenByFinal(s) == \E b \in bound \cap final : session[b] = s

Taken(s) == \E b \in bound : session[b] = s

(***************************************************************************)
(* The binding is there, with the task that watches its session's          *)
(* notifications.  The ConvoAI service takes the prepared session and has  *)
(* its agent started; one that is taken already undoes the binding before  *)
(* anyone sees it.                                                         *)
(***************************************************************************)
Reserved(c, s) ==
  LET p == PreparedOf[c] IN
  \/ /\ p \in ready
     /\ bound' = bound \cup {c}
     /\ session' = [session EXCEPT ![c] = s]
     /\ watching' = watching \cup {c}
     /\ ready' = ready \ {p}
     /\ act' = [act EXCEPT ![c] = "starting"]
     /\ UNCHANGED named
  \/ /\ p \notin ready
     /\ named' = named \ {p}
     /\ act' = [act EXCEPT ![c] = "failed"]
     /\ UNCHANGED <<ready, bound, session, watching>>

(***************************************************************************)
(* reserve: with a session asked for, the binding is made unless another   *)
(* one has that session; without one, a session is created under the lock. *)
(***************************************************************************)
reserve(c) ==
  LET p == PreparedOf[c] IN
  /\ act[c] = "idle" /\ lock = Free
  /\ p \in ready \/ \E d \in Calls : PreparedOf[d] = p /\ act[d] # "idle"
  /\ \/ /\ p \in named /\ ~Taken(SessionOf[p])
        /\ Reserved(c, SessionOf[p])
        /\ UNCHANGED lock
     \/ /\ p \in named /\ Taken(SessionOf[p])
        /\ act' = [act EXCEPT ![c] = "failed"]
        /\ UNCHANGED <<ready, named, bound, session, watching, lock>>
     \/ /\ p \notin named
        /\ act' = [act EXCEPT ![c] = "creating"]
        /\ lock' = c
        /\ UNCHANGED <<ready, named, bound, session, watching>>
  /\ UNCHANGED <<final, turnVars, runtime, agent, handles, stop, failVars>>

create_session(c) ==
  /\ act[c] = "creating"
  /\ lock' = Free
  /\ \/ Reserved(c, c)
     \/ /\ act' = [act EXCEPT ![c] = "failed"]
        /\ UNCHANGED <<ready, named, bound, session, watching>>
  /\ UNCHANGED <<final, turnVars, runtime, agent, handles, stop, failVars>>

\* With the lock, the binding gets its runtime session and the connector its handle.
Finalized(c) ==
  /\ act' = [act EXCEPT ![c] = "telling"]
  /\ final' = final \cup {c}
  /\ handles' = handles \cup {c}
  /\ named' = named \ {PreparedOf[c]}

\* Agora starts the agent; the answer of session.start() is still to come.
AgentRuns(c) ==
  /\ act[c] = "starting" /\ agent[c] = "none"
  /\ agent' = [agent EXCEPT ![c] = "running"]
  /\ UNCHANGED <<ready, named, runtime, handles, bindVars, turnVars, act, stop, failVars>>

AgentStarted(c) ==
  /\ act[c] = "starting" /\ agent[c] = "running"
  /\ runtime' = runtime \cup {c}
  /\ IF lock = Free
     THEN Finalized(c)
     ELSE act' = [act EXCEPT ![c] = "started"] /\ UNCHANGED <<final, handles, named>>
  /\ UNCHANGED <<ready, agent, lock, bound, session, watching, turnVars, stop, failVars>>

finalize(c) ==
  /\ act[c] = "started" /\ lock = Free
  /\ Finalized(c)
  /\ UNCHANGED <<ready, runtime, agent, lock, bound, session, watching, turnVars,
                 stop, failVars>>

\* The binding goes, and its watcher is cancelled and waited for.
Unbound(c) ==
  /\ bound' = bound \ {c}
  /\ final' = final \ {c}
  /\ watching' = watching \ {c}
  /\ UNCHANGED <<lock, session>>

(***************************************************************************)
(* session.start() raised: the prepared session is used up and the binding *)
(* undone.  Only a connection that could not be made tells that no agent   *)
(* started; when the answer is lost it may have, and then it runs on, with *)
(* its runtime id known to nobody.                                         *)
(***************************************************************************)
AgentFailed(c) ==
  /\ act[c] = "starting"
  /\ astray' = IF agent[c] = "running" THEN astray \cup {c} ELSE astray
  /\ named' = named \ {PreparedOf[c]}
  /\ IF lock = Free
     THEN Unbound(c) /\ act' = [act EXCEPT ![c] = "failed"]
     ELSE act' = [act EXCEPT ![c] = "undoing"] /\ UNCHANGED bindVars
  /\ UNCHANGED <<ready, runtime, agent, handles, turnVars, stop, unheard, stuck>>

\* unregister, by an activation or a stop that had to wait for the lock.
unregister(c) ==
  /\ lock = Free
  /\ \/ act[c] = "undoing" /\ act' = [act EXCEPT ![c] = "failed"] /\ UNCHANGED stop
     \/ stop[c] = "unbinding" /\ stop' = [stop EXCEPT ![c] = "idle"] /\ UNCHANGED act
  /\ Unbound(c)
  /\ UNCHANGED <<agentVars, turnVars, failVars>>

\* Newbro is told that the session started; when that raises, the caller gets an error.
StartedTold(c) ==
  /\ act[c] = "telling"
  /\ \/ act' = [act EXCEPT ![c] = "done"] /\ UNCHANGED unheard
     \/ act' = [act EXCEPT ![c] = "failed"] /\ unheard' = unheard \cup {c}
  /\ UNCHANGED <<bindVars, turnVars, agentVars, stop, astray, stuck>>

-----------------------------------------------------------------------------
\* Turns

\* A chat completion is first posted as a live partial.
chat_completions(t, c) ==
  /\ turn[t] = "new" /\ \A u \in Turns : u < t => turn[u] # "new"
  /\ c \in bound /\ agent[c] # "none"
  /\ turn' = [turn EXCEPT ![t] = "partial"]
  /\ of' = [of EXCEPT ![t] = c]
  /\ UNCHANGED <<pending, later, bindVars, agentVars, act, stop, failVars>>

\* The texts that were submitted to the coalescer.
Submitted == {t \in Turns : turn[t] \notin {"new", "partial", "refused"}}

\* Text t is submitted after every earlier one of its session.
Follows(t) ==
  later' = [u \in Turns |-> IF u \in Submitted /\ of[u] = of[t] /\ later[u] = None
                             THEN t ELSE later[u]]

\* Fault: the pending turn is cancelled after the new one took its place.
SubmitThenCancel(t) ==
  LET c == of[t] IN
  /\ turn[t] = "partial"
  /\ turn' = [turn EXCEPT ![t] = "replaced"]
  /\ pending' = [pending EXCEPT ![c] = None]
  /\ Follows(t)
  /\ UNCHANGED <<of, bindVars, agentVars, act, stop, failVars>>

\* The partial is posted: the turn takes the place, and the timer, of the pending one.
submit(t) ==
  LET c == of[t] IN
  /\ turn[t] = "partial"
  /\ turn' = [u \in Turns |-> IF u = t THEN "pending"
                              ELSE IF u = pending[c] THEN "replaced" ELSE turn[u]]
  /\ pending' = [pending EXCEPT ![c] = t]
  /\ Follows(t)
  /\ UNCHANGED <<of, bindVars, agentVars, act, stop, failVars>>

\* The post of the partial raises: the text never reaches the coalescer.
PartialFailed(t) ==
  /\ turn[t] = "partial"
  /\ turn' = [turn EXCEPT ![t] = "refused"]
  /\ UNCHANGED <<of, pending, later, bindVars, agentVars, act, stop, failVars>>

_flush_after_delay(c) ==
  /\ pending[c] # None
  /\ turn' = [turn EXCEPT ![pending[c]] = "posting"]
  /\ pending' = [pending EXCEPT ![c] = None]
  /\ UNCHANGED <<of, later, bindVars, agentVars, act, stop, failVars>>

\* The final turn is posted, and a reply spoken; whatever raises is only logged.
_submit_pending(t) ==
  /\ turn[t] = "posting"
  /\ \E r \in {"delivered", "failed"} : turn' = [turn EXCEPT ![t] = r]
  /\ UNCHANGED <<of, pending, later, bindVars, agentVars, act, stop, failVars>>

-----------------------------------------------------------------------------
\* Stopping

\* Both tables forget the session before its agent is stopped; an unknown one is refused.
DropHandle(c) ==
  \/ /\ c \in handles
     /\ handles' = handles \ {c} /\ runtime' = runtime \ {c}
     /\ stop' = [stop EXCEPT ![c] = "stopping"]
  \/ /\ c \notin handles
     /\ stop' = [stop EXCEPT ![c] = "idle"]
     /\ UNCHANGED <<handles, runtime>>

\* The route of a stop: the pending turn is posted first.
stop_session(c) ==
  /\ act[c] = "done" /\ stop[c] = "idle"
  /\ \/ /\ pending[c] # None
        /\ turn' = [turn EXCEPT ![pending[c]] = "flushing"]
        /\ pending' = [pending EXCEPT ![c] = None]
        /\ stop' = [stop EXCEPT ![c] = "flushing"]
        /\ UNCHANGED <<handles, runtime>>
     \/ /\ pending[c] = None /\ c \in handles
        /\ DropHandle(c)
        /\ UNCHANGED <<turn, pending>>
  /\ UNCHANGED <<of, later, ready, named, agent, bindVars, act, failVars>>

\* The flush ends.  An error of the post, or of the reply's speech, gives up the stop.
flush_now(t) ==
  LET c == of[t] IN
  /\ turn[t] = "flushing"
  /\ \/ turn' = [turn EXCEPT ![t] = "delivered"] /\ DropHandle(c)
     \/ /\ \E r \in {"delivered", "failed"} : turn' = [turn EXCEPT ![t] = r]
        /\ stop' = [stop EXCEPT ![c] = "idle"]
        /\ UNCHANGED <<handles, runtime>>
  /\ UNCHANGED <<of, pending, later, ready, named, agent, bindVars, act, failVars>>

\* The agent stopped, or its SDK raised an error that the connector does not
\* expect, whether or not the agent had stopped.
AgentStopped(c) ==
  /\ stop[c] = "stopping"
  /\ \/ /\ agent' = [agent EXCEPT ![c] = "stopped"]
        /\ stop' = [stop EXCEPT ![c] = "telling"]
        /\ UNCHANGED stuck
     \/ /\ stop' = [stop EXCEPT ![c] = "idle"]
        /\ stuck' = stuck \cup {c}
        /\ agent' \in {agent, [agent EXCEPT ![c] = "stopped"]}
  /\ UNCHANGED <<ready, named, runtime, handles, bindVars, turnVars, act, unheard, astray>>

\* Fault: a stop that finds the lock held ends without giving up the binding.
StoppedToldStaysBound(c) ==
  /\ stop[c] = "telling"
  /\ stop' = [stop EXCEPT ![c] = "idle"]
  /\ IF lock = Free THEN Unbound(c) ELSE UNCHANGED bindVars
  /\ UNCHANGED <<agentVars, turnVars, act, failVars>>

\* Newbro is told that the session ended, and only then is the binding given up.
StoppedTold(c) ==
  /\ stop[c] = "telling"
  /\ \/ /\ IF lock = Free
           THEN Unbound(c) /\ stop' = [stop EXCEPT ![c] = "idle"]
           ELSE stop' = [stop EXCEPT ![c] = "unbinding"] /\ UNCHANGED bindVars
        /\ UNCHANGED stuck
     \/ /\ stop' = [stop EXCEPT ![c] = "idle"]
        /\ stuck' = stuck \cup {c}
        /\ UNCHANGED bindVars
  /\ UNCHANGED <<agentVars, turnVars, act, unheard, astray>>

Next ==
  \/ \E p \in Prepared : prepare_session(p)
  \/ \E c \in Calls : \/ reserve(c) \/ create_session(c)
                      \/ AgentRuns(c) \/ AgentStarted(c) \/ AgentFailed(c)
                      \/ finalize(c) \/ unregister(c) \/ StartedTold(c)
                      \/ _flush_after_delay(c) \/ stop_session(c)
                      \/ AgentStopped(c) \/ StoppedTold(c)
  \/ \E t \in Turns : \/ \E c \in Calls : chat_completions(t, c)
                      \/ submit(t) \/ PartialFailed(t) \/ _submit_pending(t) \/ flush_now(t)

Spec == Init /\ [][Next]_vars

-----------------------------------------------------------------------------
Resting(c) == act[c] \in {"idle", "done", "failed"} /\ stop[c] = "idle"

(***************************************************************************)
(* When no activation or stop of it is under way, a session is known to    *)
(* every table or to none: the registry, the connector, the ConvoAI        *)
(* service and Agora agree, and a watcher runs only for a binding.  A      *)
(* caller whose activation failed has left nothing in these tables, unless *)
(* only the "started" event failed (activate_session).  Three exceptions:  *)
(* a start whose answer was lost leaves an agent at Agora that no table    *)
(* knows and nobody can stop; and the stops that raised half-way           *)
(* (stop_session), whose Newbro session stays bound for ever.              *)
(***************************************************************************)
TablesAgree ==
  \A c \in Calls \ stuck : Resting(c) =>
    /\ c \in bound <=> c \in handles
    /\ c \in handles <=> c \in runtime
    /\ c \in handles <=> agent[c] = "running" /\ c \notin astray
    /\ c \in watching => c \in bound
    /\ act[c] = "failed" /\ c \notin unheard => c \notin bound

(***************************************************************************)
(* Two browsers that activate the same Newbro session, in whatever order   *)
(* their calls and the lock of reserve interleave, never both have a       *)
(* binding to it: its notifications would be spoken twice.                 *)
(***************************************************************************)
OneBindingPerSession ==
  \A b, c \in bound : session[b] = session[c] => b = c

(***************************************************************************)
(* No text that reaches the coalescer is dropped silently                  *)
(* (ChatCompletionTurnCoalescer): one that waits is the one its session's  *)
(* timer or stop posts next, and one is given up only for a text of the    *)
(* same session that was submitted after it.  So the last text submitted   *)
(* of each session is posted, whatever happened to earlier ones; texts are *)
(* submitted in the order in which their partials came back, which need    *)
(* not be the one in which they were spoken.                               *)
(***************************************************************************)
SpokenIsPosted ==
  \A t \in Turns :
    /\ turn[t] = "pending" => pending[of[t]] = t
    /\ turn[t] = "replaced" => later[t] # None
=============================================================================
