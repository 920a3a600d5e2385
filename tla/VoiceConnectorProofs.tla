------------------------ MODULE VoiceConnectorProofs ------------------------
(***************************************************************************)
(* Proofs about the two kinds of sessions of the voice connector.          *)
(* VoiceSessions, for any activations, prepared sessions and chat          *)
(* completions: the tables of a voice session agree at rest, a Newbro      *)
(* session has one binding, and what the user said is posted.              *)
(* SpeechSessions, for any sessions and timeout: no bot runs unknown, and  *)
(* a sweep stops none that is alive.                                       *)
(***************************************************************************)
EXTENDS SpeechSessions, VoiceSessions, TLAPS

USE VoiceAssumption DEF VoiceAssumption, failVars

-----------------------------------------------------------------------------
(* The invariant *)

\* An agent runs, and the answer of its start was not lost.
Manned(c) == agent[c] = "running" /\ c \notin astray

\* Where the tables know a voice session: everywhere, in the registry only, or
\* nowhere; a started agent is not yet, and a stopping one no more, in handles.
Everywhere(c) == c \in bound /\ c \in handles /\ c \in runtime /\ Manned(c)
BoundOnly(c) == c \in bound /\ c \notin handles /\ c \notin runtime /\ ~Manned(c)
Nowhere(c) == c \notin bound /\ c \notin handles /\ c \notin runtime /\ ~Manned(c)

Activating(c) ==
  /\ act[c] \in {"idle", "creating"} => Nowhere(c)
  /\ act[c] = "starting" => c \in bound /\ c \notin handles /\ c \notin runtime
  /\ act[c] = "undoing" => BoundOnly(c)
  /\ act[c] = "started" =>
       c \in bound /\ c \notin handles /\ c \in runtime /\ Manned(c)
  /\ act[c] = "telling" => Everywhere(c)
  /\ act[c] = "failed" => IF c \in unheard THEN Everywhere(c) ELSE Nowhere(c)

Stopping(c) ==
  /\ act[c] = "done" /\ stop[c] \in {"idle", "flushing"} => Everywhere(c) \/ Nowhere(c)
  /\ stop[c] = "stopping" =>
       c \in bound /\ c \notin handles /\ c \notin runtime /\ Manned(c)
  /\ stop[c] \in {"telling", "unbinding"} => BoundOnly(c)

\* A stop begins once the activation is done; a lost answer fails it.
TablesInv ==
  /\ watching = bound
  /\ \A c \in Calls : c \in astray => act[c] \in {"undoing", "failed"}
  /\ \A c \in Calls : c \in unheard => act[c] = "failed"
  /\ \A c \in Calls : stop[c] # "idle" => act[c] = "done"
  /\ \A c \in Calls \ stuck : Activating(c) /\ Stopping(c)

\* A Newbro session that a call creates is bound by others only afterwards.
SessionsInv ==
  /\ \A p \in named : Exists(SessionOf[p])
  /\ \A b \in bound : session[b] # b => Exists(session[b])

\* The coalescer's pending turn is a turn of that binding; a stop flushes one
\* turn at a time.
TurnsInv ==
  /\ \A t \in Turns : of[t] = Free <=> turn[t] = "new"
  /\ \A c \in Calls : pending[c] # None => turn[pending[c]] = "pending" /\ of[pending[c]] = c
  /\ \A t \in Turns : turn[t] = "pending" => pending[of[t]] = t
  /\ \A t \in Turns : turn[t] = "flushing" => stop[of[t]] = "flushing"
  /\ \A t, u \in Turns : turn[t] = "flushing" /\ turn[u] = "flushing" /\ of[t] = of[u] => t = u

\* A text gave way to one submitted after it.
SpokenInv == \A t \in Turns : turn[t] = "replaced" => later[t] # None

SessionType == session \in [Calls -> Calls \cup {NoSession} \cup {SessionOf[p] : p \in Prepared}]

IInv == /\ TypeOK /\ SessionType
        /\ TablesInv /\ SessionsInv /\ OneBindingPerSession
        /\ TurnsInv /\ SpokenInv

LEMMA IInvInit == Init => IInv
<1> SUFFICES ASSUME Init PROVE IInv
  OBVIOUS
<1>1. TypeOK /\ SessionType
  BY DEF Init, TypeOK, SessionType, None
<1>2. TablesInv
  BY DEF Init, TablesInv, Activating, Stopping, Manned, Nowhere
<1>3. SessionsInv /\ OneBindingPerSession
  BY DEF Init, SessionsInv, OneBindingPerSession
<1>4. TurnsInv /\ SpokenInv
  BY DEF Init, TurnsInv, SpokenInv, None
<1> QED BY <1>1, <1>2, <1>3, <1>4 DEF IInv

-----------------------------------------------------------------------------
(* Types *)

LEMMA ReservedFacts ==
  ASSUME TypeOK, SessionType, NEW c \in Calls, NEW s, Reserved(c, s)
  PROVE  \/ /\ bound' = bound \cup {c} /\ watching' = watching \cup {c}
            /\ session' = [session EXCEPT ![c] = s]
            /\ act' = [act EXCEPT ![c] = "starting"] /\ named' = named
            /\ ready' = ready \ {PreparedOf[c]}
         \/ /\ act' = [act EXCEPT ![c] = "failed"] /\ named' = named \ {PreparedOf[c]}
            /\ UNCHANGED <<ready, bound, session, watching>>
BY Zenon DEF Reserved

LEMMA TypeActivate ==
  ASSUME TypeOK, SessionType, NEW c \in Calls,
         reserve(c) \/ create_session(c) \/ AgentRuns(c) \/ AgentStarted(c) \/ AgentFailed(c) \/ finalize(c)
           \/ unregister(c) \/ StartedTold(c)
  PROVE  TypeOK' /\ SessionType'
<1>1. ASSUME NEW s \in Calls \cup {SessionOf[p] : p \in Prepared}, Reserved(c, s)
      PROVE  /\ ready' \subseteq Prepared /\ named' \subseteq Prepared /\ bound' \subseteq Calls
             /\ watching' \subseteq Calls /\ SessionType'
             /\ act' \in [Calls -> {"idle", "creating", "starting", "started", "undoing", "telling",
                                    "done", "failed"}]
  BY <1>1, ReservedFacts DEF TypeOK, SessionType
<1>2. CASE reserve(c)
  <2>1. SessionOf[PreparedOf[c]] \in Calls \cup {SessionOf[p] : p \in Prepared}
    OBVIOUS
  <2>2. /\ lock' \in Calls \cup {Free}
        /\ ready' \subseteq Prepared /\ named' \subseteq Prepared /\ bound' \subseteq Calls
        /\ watching' \subseteq Calls /\ SessionType'
        /\ act' \in [Calls -> {"idle", "creating", "starting", "started", "undoing", "telling",
                               "done", "failed"}]
    BY <1>1, <1>2, <2>1 DEF reserve, TypeOK, SessionType
  <2> QED BY <1>2, <2>2 DEF reserve, TypeOK, turnVars
<1>3. CASE create_session(c)
  <2>2. /\ lock' \in Calls \cup {Free}
        /\ ready' \subseteq Prepared /\ named' \subseteq Prepared /\ bound' \subseteq Calls
        /\ watching' \subseteq Calls /\ SessionType'
        /\ act' \in [Calls -> {"idle", "creating", "starting", "started", "undoing", "telling",
                               "done", "failed"}]
    BY <1>1, <1>3 DEF create_session, TypeOK, SessionType
  <2> QED BY <1>3, <2>2 DEF create_session, TypeOK, turnVars
<1>9. CASE AgentRuns(c)
  BY <1>9 DEF AgentRuns, TypeOK, SessionType, turnVars, bindVars, failVars
<1>4. CASE AgentStarted(c)
  BY <1>4 DEF AgentStarted, Finalized, TypeOK, SessionType, turnVars
<1>5. CASE AgentFailed(c)
  BY <1>5 DEF AgentFailed, Unbound, TypeOK, SessionType, turnVars, bindVars
<1>6. CASE finalize(c)
  BY <1>6 DEF finalize, Finalized, TypeOK, SessionType, turnVars
<1>7. CASE unregister(c)
  BY <1>7 DEF unregister, Unbound, TypeOK, SessionType, turnVars, agentVars
<1>8. CASE StartedTold(c)
  BY <1>8 DEF StartedTold, TypeOK, SessionType, turnVars, agentVars, bindVars
<1> QED BY <1>2, <1>3, <1>4, <1>5, <1>6, <1>7, <1>8, <1>9

LEMMA TypeTurns ==
  ASSUME TypeOK, SessionType, NEW t \in Turns, TurnsInv,
         (\E c \in Calls : chat_completions(t, c)) \/ submit(t) \/ PartialFailed(t)
           \/ _submit_pending(t) \/ flush_now(t)
  PROVE  TypeOK' /\ SessionType'
<1> USE DEF bindVars, turnVars, agentVars
<1>0. turn[t] # "new" => of[t] \in Calls
  BY DEF TurnsInv, TypeOK
<1>1. ASSUME NEW c \in Calls, chat_completions(t, c) PROVE TypeOK' /\ SessionType'
  BY <1>1 DEF chat_completions, TypeOK, SessionType
<1>2. CASE submit(t)
  <2>1. turn' \in [Turns -> {"new", "partial", "pending", "posting", "flushing",
                             "refused", "delivered", "replaced", "failed"}]
    BY <1>2 DEF submit, TypeOK
  <2>2. pending' \in [Calls -> Turns \cup {None}]
    BY <1>0, <1>2 DEF submit, TypeOK
  <2>3. later' \in [Turns -> Turns \cup {None}]
    BY <1>2 DEF submit, Follows, TypeOK
  <2> QED BY <1>2, <2>1, <2>2, <2>3 DEF submit, TypeOK, SessionType
<1>3. CASE PartialFailed(t)
  BY <1>3 DEF PartialFailed, TypeOK, SessionType
<1>4. CASE _submit_pending(t)
  BY <1>4 DEF _submit_pending, TypeOK, SessionType
<1>5. CASE flush_now(t)
  <2>1. handles' \subseteq Calls /\ runtime' \subseteq Calls
    BY <1>5 DEF flush_now, DropHandle, TypeOK
  <2>2. stop' \in [Calls -> {"idle", "flushing", "stopping", "telling", "unbinding"}]
    BY <1>5 DEF flush_now, DropHandle, TypeOK
  <2>3. turn' \in [Turns -> {"new", "partial", "pending", "posting", "flushing",
                             "refused", "delivered", "replaced", "failed"}]
    BY <1>5 DEF flush_now, TypeOK
  <2> QED BY <1>5, <2>1, <2>2, <2>3 DEF flush_now, TypeOK, SessionType
<1> QED BY <1>1, <1>2, <1>3, <1>4, <1>5

LEMMA TypeStop ==
  ASSUME TypeOK, SessionType, NEW c \in Calls,
         _flush_after_delay(c) \/ stop_session(c) \/ AgentStopped(c) \/ StoppedTold(c)
  PROVE  TypeOK' /\ SessionType'
<1> USE DEF bindVars, turnVars, agentVars
<1>1. CASE _flush_after_delay(c)
  BY <1>1 DEF _flush_after_delay, TypeOK, SessionType
<1>2. CASE stop_session(c)
  <2>1. handles' \subseteq Calls /\ runtime' \subseteq Calls
    BY <1>2 DEF stop_session, DropHandle, TypeOK
  <2>2. stop' \in [Calls -> {"idle", "flushing", "stopping", "telling", "unbinding"}]
    BY <1>2 DEF stop_session, DropHandle, TypeOK
  <2>3. /\ turn' \in [Turns -> {"new", "partial", "pending", "posting", "flushing",
                                "refused", "delivered", "replaced", "failed"}]
        /\ pending' \in [Calls -> Turns \cup {None}]
    BY <1>2 DEF stop_session, TypeOK
  <2> QED BY <1>2, <2>1, <2>2, <2>3 DEF stop_session, TypeOK, SessionType
<1>3. CASE AgentStopped(c)
  BY <1>3 DEF AgentStopped, TypeOK, SessionType
<1>4. CASE StoppedTold(c)
  BY <1>4 DEF StoppedTold, Unbound, TypeOK, SessionType
<1> QED BY <1>1, <1>2, <1>3, <1>4

LEMMA TypeStep == TypeOK /\ SessionType /\ TurnsInv /\ [Next]_vars => TypeOK' /\ SessionType'
<1> SUFFICES ASSUME TypeOK, SessionType, TurnsInv, [Next]_vars PROVE TypeOK' /\ SessionType'
  OBVIOUS
<1>1. CASE UNCHANGED vars
  BY <1>1 DEF vars, bindVars, turnVars, agentVars, TypeOK, SessionType
<1>2. ASSUME NEW p \in Prepared, prepare_session(p) PROVE TypeOK' /\ SessionType'
  BY <1>2 DEF prepare_session, Remembered, bindVars, turnVars, TypeOK, SessionType
<1> QED BY <1>1, <1>2, TypeActivate, TypeTurns, TypeStop DEF Next

-----------------------------------------------------------------------------
(* The tables *)

Row(c) == Activating(c) /\ Stopping(c)

\* Everything the tables say of d stays as it is.
Still(d) ==
  /\ act'[d] = act[d] /\ stop'[d] = stop[d] /\ agent'[d] = agent[d]
  /\ (d \in bound' <=> d \in bound) /\ (d \in handles' <=> d \in handles)
  /\ (d \in runtime' <=> d \in runtime) /\ (d \in unheard' <=> d \in unheard)
  /\ (d \in astray' <=> d \in astray)
  /\ (d \in stuck => d \in stuck')

LEMMA StillRow == ASSUME NEW d \in Calls, Still(d), Row(d) PROVE Row(d)'
BY DEF Still, Row, Activating, Stopping, Manned, Everywhere, BoundOnly, Nowhere

\* A step that concerns one call has to be looked at for that call only.
LEMMA OneRow ==
  ASSUME TablesInv, NEW c \in Calls, \A d \in Calls \ {c} : Still(d),
         watching' = bound', stuck \subseteq stuck',
         c \notin stuck' => Row(c)',
         c \in unheard' => act'[c] = "failed", stop'[c] # "idle" => act'[c] = "done",
         c \in astray' => act'[c] \in {"undoing", "failed"}
  PROVE  TablesInv'
<1>1. ASSUME NEW d \in Calls, d # c 
      PROVE  /\ (d \in unheard' => act'[d] = "failed") /\ (stop'[d] # "idle" => act'[d] = "done")
             /\ (d \in astray' => act'[d] \in {"undoing", "failed"})
  BY <1>1 DEF Still, TablesInv
<1>2. ASSUME NEW d \in Calls \ stuck', d # c PROVE Row(d)'
  <2>1. d \notin stuck /\ Still(d)
    BY <1>2
  <2>2. Row(d)
    BY <2>1 DEF TablesInv, Row
  <2> QED BY <2>1, <2>2, StillRow
<1> QED BY <1>1, <1>2 DEF TablesInv, Row

LEMMA TablesActivate ==
  ASSUME TypeOK, SessionType, TablesInv, NEW c \in Calls,
         reserve(c) \/ create_session(c) \/ AgentRuns(c) \/ AgentStarted(c) \/ AgentFailed(c) \/ finalize(c)
           \/ unregister(c) \/ StartedTold(c)
  PROVE  TablesInv'
<1> USE DEF bindVars, turnVars, agentVars, Row, Activating, Stopping, Manned, Everywhere, BoundOnly, Nowhere
<1>0. /\ watching = bound /\ (c \in unheard => act[c] = "failed") /\ (stop[c] # "idle" => act[c] = "done")
      /\ (c \in astray => act[c] \in {"undoing", "failed"})
      /\ c \notin stuck => Row(c)
  BY DEF TablesInv
<1>1. ASSUME NEW s, Reserved(c, s), act[c] \in {"idle", "creating"},
             UNCHANGED <<runtime, agent, handles, stop, unheard, astray, stuck>>
      PROVE  TablesInv'
  <2>1. CASE /\ bound' = bound \cup {c} /\ watching' = watching \cup {c}
             /\ act' = [act EXCEPT ![c] = "starting"]
    <3>1. \A d \in Calls \ {c} : Still(d)
      BY <1>1, <2>1 DEF Still, TypeOK
    <3>2. act'[c] = "starting" /\ watching' = bound'
      BY <1>0, <2>1 DEF TypeOK
    <3>3. c \notin stuck' => Row(c)'
      BY <1>0, <1>1, <2>1, <3>2
    <3> QED BY <1>0, <1>1, <3>1, <3>2, <3>3, OneRow
  <2>2. CASE act' = [act EXCEPT ![c] = "failed"] /\ UNCHANGED <<bound, watching>>
    <3>1. \A d \in Calls \ {c} : Still(d)
      BY <1>1, <2>2 DEF Still, TypeOK
    <3>2. act'[c] = "failed" /\ watching' = bound'
      BY <1>0, <2>2 DEF TypeOK
    <3>3. c \notin stuck' => Row(c)'
      BY <1>0, <1>1, <2>2, <3>2
    <3> QED BY <1>0, <1>1, <3>1, <3>2, <3>3, OneRow
  <2> QED BY <1>1, <2>1, <2>2, ReservedFacts
<1>2. ASSUME NEW v \in {"failed", "creating"}, act' = [act EXCEPT ![c] = v],
             act[c] \in {"idle", "creating"},
             UNCHANGED <<bound, watching, runtime, agent, handles, stop, unheard, astray, stuck>>
      PROVE  TablesInv'
  <2>1. \A d \in Calls \ {c} : Still(d)
    BY <1>2 DEF Still, TypeOK
  <2>2. act'[c] = v
    BY <1>2 DEF TypeOK
  <2>3. c \notin stuck' => Row(c)'
    BY <1>0, <1>2, <2>2
  <2> QED BY <1>0, <1>2, <2>1, <2>2, <2>3, OneRow
<1>3. CASE reserve(c)
  <2>1. act[c] = "idle" /\ UNCHANGED <<runtime, agent, handles, stop, unheard, astray, stuck>>
    BY <1>3 DEF reserve
  <2>2. \/ Reserved(c, SessionOf[PreparedOf[c]])
        \/ act' = [act EXCEPT ![c] = "failed"] /\ UNCHANGED <<bound, watching>>
        \/ act' = [act EXCEPT ![c] = "creating"] /\ UNCHANGED <<bound, watching>>
    BY <1>3, Zenon DEF reserve
  <2> QED BY <1>1, <1>2, <2>1, <2>2
<1>4. CASE create_session(c)
  <2>1. act[c] = "creating" /\ UNCHANGED <<runtime, agent, handles, stop, unheard, astray, stuck>>
    BY <1>4 DEF create_session
  <2>2. \/ Reserved(c, c)
        \/ act' = [act EXCEPT ![c] = "failed"] /\ UNCHANGED <<bound, watching>>
    BY <1>4, Zenon DEF create_session
  <2> QED BY <1>1, <1>2, <2>1, <2>2
<1>5. CASE AgentStarted(c)
  <2>1. /\ act[c] = "starting" /\ UNCHANGED <<bound, watching, stop, unheard, astray, stuck>>
        /\ agent[c] = "running" /\ agent' = agent /\ runtime' = runtime \cup {c}
        /\ \/ act' = [act EXCEPT ![c] = "telling"] /\ handles' = handles \cup {c}
           \/ act' = [act EXCEPT ![c] = "started"] /\ handles' = handles
    BY <1>5 DEF AgentStarted, Finalized
  <2>2. \A d \in Calls \ {c} : Still(d)
    BY <2>1 DEF Still, TypeOK
  <2>3. /\ Manned(c)' /\ c \in runtime'
        /\ \/ act'[c] = "telling" /\ c \in handles'
           \/ act'[c] = "started" /\ handles' = handles
    BY <1>0, <2>1 DEF TypeOK
  <2>4. c \notin stuck' => Row(c)'
    BY <1>0, <2>1, <2>3
  <2> QED BY <1>0, <2>1, <2>2, <2>3, <2>4, OneRow
<1>6. CASE AgentFailed(c)
  <2>1. /\ act[c] = "starting" /\ UNCHANGED <<runtime, agent, handles, stop, unheard, stuck>>
        /\ astray' = IF agent[c] = "running" THEN astray \cup {c} ELSE astray
        /\ \/ /\ act' = [act EXCEPT ![c] = "failed"]
              /\ bound' = bound \ {c} /\ watching' = watching \ {c}
           \/ act' = [act EXCEPT ![c] = "undoing"] /\ UNCHANGED <<bound, watching>>
    BY <1>6 DEF AgentFailed, Unbound
  <2>2. \A d \in Calls \ {c} : Still(d)
    BY <2>1 DEF Still, TypeOK
  <2>3. /\ watching' = bound' /\ ~Manned(c)'
        /\ \/ act'[c] = "failed" /\ c \notin bound'
           \/ act'[c] = "undoing" /\ bound' = bound
    BY <1>0, <2>1 DEF TypeOK
  <2>4. c \notin stuck' => Row(c)'
    BY <1>0, <2>1, <2>3
  <2> QED BY <1>0, <2>1, <2>2, <2>3, <2>4, OneRow
<1>10. CASE AgentRuns(c)
  <2>1. /\ act[c] = "starting"
        /\ UNCHANGED <<bound, watching, runtime, handles, act, stop, unheard, astray, stuck>>
        /\ agent' = [agent EXCEPT ![c] = "running"]
    BY <1>10 DEF AgentRuns, failVars
  <2>2. \A d \in Calls \ {c} : Still(d)
    BY <2>1 DEF Still, TypeOK
  <2>3. c \notin stuck' => Row(c)'
    BY <1>0, <2>1
  <2> QED BY <1>0, <2>1, <2>2, <2>3, OneRow
<1>7. CASE finalize(c)
  <2>1. /\ act[c] = "started" /\ UNCHANGED <<bound, watching, runtime, agent, stop, unheard, astray, stuck>>
        /\ act' = [act EXCEPT ![c] = "telling"] /\ handles' = handles \cup {c}
    BY <1>7 DEF finalize, Finalized
  <2>2. \A d \in Calls \ {c} : Still(d)
    BY <2>1 DEF Still, TypeOK
  <2>3. act'[c] = "telling" /\ c \in handles'
    BY <2>1 DEF TypeOK
  <2>4. c \notin stuck' => Row(c)'
    BY <1>0, <2>1, <2>3
  <2> QED BY <1>0, <2>1, <2>2, <2>3, <2>4, OneRow
<1>8. CASE unregister(c)
  <2>1. /\ bound' = bound \ {c} /\ watching' = watching \ {c}
        /\ UNCHANGED <<runtime, agent, handles, unheard, astray, stuck>>
        /\ \/ act[c] = "undoing" /\ act' = [act EXCEPT ![c] = "failed"] /\ UNCHANGED stop
           \/ stop[c] = "unbinding" /\ stop' = [stop EXCEPT ![c] = "idle"] /\ UNCHANGED act
    BY <1>8 DEF unregister, Unbound
  <2>2. \A d \in Calls \ {c} : Still(d)
    BY <2>1 DEF Still, TypeOK
  <2>3. /\ watching' = bound'
        /\ \/ act[c] = "undoing" /\ act'[c] = "failed" /\ stop'[c] = stop[c]
           \/ stop[c] = "unbinding" /\ stop'[c] = "idle" /\ act'[c] = act[c]
    BY <1>0, <2>1 DEF TypeOK
  <2>4. c \notin stuck' => Row(c)'
    BY <1>0, <2>1, <2>3
  <2> QED BY <1>0, <2>1, <2>2, <2>3, <2>4, OneRow
<1>9. CASE StartedTold(c)
  <2>1. /\ act[c] = "telling" /\ UNCHANGED <<bound, watching, runtime, agent, handles, stop, astray, stuck>>
        /\ \/ act' = [act EXCEPT ![c] = "done"] /\ UNCHANGED unheard
           \/ act' = [act EXCEPT ![c] = "failed"] /\ unheard' = unheard \cup {c}
    BY <1>9 DEF StartedTold
  <2>2. \A d \in Calls \ {c} : Still(d)
    BY <2>1 DEF Still, TypeOK
  <2>3. \/ act'[c] = "done" /\ unheard' = unheard
        \/ act'[c] = "failed" /\ c \in unheard'
    BY <2>1 DEF TypeOK
  <2>4. c \notin stuck' => Row(c)'
    BY <1>0, <2>1, <2>3
  <2> QED BY <1>0, <2>1, <2>2, <2>3, <2>4, OneRow
<1> QED BY <1>3, <1>4, <1>5, <1>6, <1>7, <1>8, <1>9, <1>10

\* The stop of c ends, or goes on with handles and runtime without it.
LEMMA TablesDrop ==
  ASSUME TypeOK, TablesInv, NEW c \in Calls, stop[c] \in {"idle", "flushing"}, act[c] = "done",
         DropHandle(c), UNCHANGED <<bound, watching, agent, act, unheard, astray, stuck>>
  PROVE  TablesInv'
<1> USE DEF Row, Activating, Stopping, Manned, Everywhere, BoundOnly, Nowhere
<1>0. /\ watching = bound /\ (c \in unheard => act[c] = "failed")
      /\ (c \in astray => act[c] \in {"undoing", "failed"})
      /\ c \notin stuck => Row(c)
  BY DEF TablesInv
<1>1. \/ /\ c \in handles /\ handles' = handles \ {c} /\ runtime' = runtime \ {c}
         /\ stop' = [stop EXCEPT ![c] = "stopping"]
      \/ /\ c \notin handles /\ UNCHANGED <<handles, runtime>>
         /\ stop' = [stop EXCEPT ![c] = "idle"]
  BY DEF DropHandle
<1>2. \A d \in Calls \ {c} : Still(d)
  BY <1>1 DEF Still, TypeOK
<1>3. \/ c \in handles /\ c \notin handles' /\ c \notin runtime' /\ stop'[c] = "stopping"
      \/ c \notin handles /\ UNCHANGED <<handles, runtime>> /\ stop'[c] = "idle"
  BY <1>1 DEF TypeOK
<1>4. c \notin stuck' => Row(c)'
  BY <1>0, <1>3
<1> QED BY <1>0, <1>2, <1>4, OneRow

\* The stop of c is given up before anything is dropped.
LEMMA TablesGivenUp ==
  ASSUME TypeOK, TablesInv, NEW c \in Calls, stop[c] = "flushing", act[c] = "done",
         stop' = [stop EXCEPT ![c] = "idle"],
         UNCHANGED <<handles, runtime, bound, watching, agent, act, unheard, astray, stuck>>
  PROVE  TablesInv'
<1>1. (\A d \in Calls \ {c} : Still(d)) /\ stop'[c] = "idle"
  BY DEF Still, TypeOK
<1>2. /\ watching = bound /\ (c \in unheard => act[c] = "failed") /\ (c \notin stuck => Row(c))
      /\ (c \in astray => act[c] \in {"undoing", "failed"})
  BY DEF TablesInv, Row
<1>3. c \notin stuck' => Row(c)'
  BY <1>1, <1>2 DEF Row, Activating, Stopping, Manned, Everywhere, BoundOnly, Nowhere
<1> QED BY <1>1, <1>2, <1>3, OneRow

LEMMA TablesStop ==
  ASSUME TypeOK, TablesInv, NEW c \in Calls,
         _flush_after_delay(c) \/ stop_session(c) \/ AgentStopped(c) \/ StoppedTold(c)
  PROVE  TablesInv'
<1> USE DEF bindVars, turnVars, agentVars, Row, Activating, Stopping, Manned, Everywhere, BoundOnly, Nowhere
<1>0. /\ watching = bound /\ (c \in unheard => act[c] = "failed") /\ (stop[c] # "idle" => act[c] = "done")
      /\ (c \in astray => act[c] \in {"undoing", "failed"})
      /\ c \notin stuck => Row(c)
  BY DEF TablesInv
<1>1. CASE _flush_after_delay(c)
  BY <1>1 DEF _flush_after_delay, TablesInv
<1>2. CASE stop_session(c)
  <2>1. act[c] = "done" /\ stop[c] = "idle" /\ UNCHANGED <<bound, watching, agent, act, unheard, astray, stuck>>
    BY <1>2 DEF stop_session
  <2>2. CASE stop' = [stop EXCEPT ![c] = "flushing"] /\ UNCHANGED <<handles, runtime>>
    <3>1. (\A d \in Calls \ {c} : Still(d)) /\ stop'[c] = "flushing"
      BY <2>1, <2>2 DEF Still, TypeOK
    <3>2. c \notin stuck' => Row(c)'
      BY <1>0, <2>1, <2>2, <3>1
    <3> QED BY <1>0, <2>1, <3>1, <3>2, OneRow
  <2> QED BY <1>2, <2>1, <2>2, TablesDrop DEF stop_session
<1>3. CASE AgentStopped(c)
  <2>1. /\ stop[c] = "stopping" /\ UNCHANGED <<bound, watching, runtime, handles, act, unheard, astray>>
        /\ \/ /\ agent' = [agent EXCEPT ![c] = "stopped"] /\ stop' = [stop EXCEPT ![c] = "telling"]
              /\ UNCHANGED stuck
           \/ /\ stop' = [stop EXCEPT ![c] = "idle"] /\ stuck' = stuck \cup {c}
              /\ agent' \in {agent, [agent EXCEPT ![c] = "stopped"]}
    BY <1>3 DEF AgentStopped
  <2>2. \A d \in Calls \ {c} : Still(d)
    BY <2>1 DEF Still, TypeOK
  <2>3. \/ agent'[c] = "stopped" /\ stop'[c] = "telling" /\ stuck' = stuck
        \/ stop'[c] = "idle" /\ c \in stuck' /\ stuck' = stuck \cup {c}
    BY <2>1 DEF TypeOK
  <2>4. c \notin stuck' => Row(c)'
    BY <1>0, <2>1, <2>3
  <2> QED BY <1>0, <2>1, <2>2, <2>3, <2>4, OneRow
<1>4. CASE StoppedTold(c)
  <2>1. /\ stop[c] = "telling" /\ UNCHANGED <<runtime, handles, agent, act, unheard, astray>>
        /\ \/ /\ bound' = bound \ {c} /\ watching' = watching \ {c} /\ stuck' = stuck
              /\ stop' = [stop EXCEPT ![c] = "idle"]
           \/ /\ stop' = [stop EXCEPT ![c] = "unbinding"] /\ UNCHANGED <<bound, watching, stuck>>
           \/ /\ stop' = [stop EXCEPT ![c] = "idle"] /\ stuck' = stuck \cup {c}
              /\ UNCHANGED <<bound, watching>>
    BY <1>4 DEF StoppedTold, Unbound
  <2>2. \A d \in Calls \ {c} : Still(d)
    BY <2>1 DEF Still, TypeOK
  <2>3. /\ watching' = bound' /\ stuck \subseteq stuck'
        /\ \/ c \notin bound' /\ stop'[c] = "idle"
           \/ bound' = bound /\ stop'[c] = "unbinding"
           \/ c \in stuck' /\ stop'[c] = "idle"
    BY <1>0, <2>1 DEF TypeOK
  <2>4. c \notin stuck' => Row(c)'
    BY <1>0, <2>1, <2>3
  <2> QED BY <1>0, <2>1, <2>2, <2>3, <2>4, OneRow
<1> QED BY <1>1, <1>2, <1>3, <1>4

\* The steps that leave the tables alone.
TablesFrame == UNCHANGED <<bound, watching, runtime, handles, agent, act, stop, unheard, astray, stuck>>

LEMMA TablesStep ==
  ASSUME TypeOK, SessionType, TablesInv, TurnsInv, Next
  PROVE  TablesInv'
<1>1. CASE TablesFrame
  BY <1>1 DEF TablesFrame, TablesInv, Activating, Stopping, Manned, Everywhere, BoundOnly, Nowhere
<1>2. ASSUME NEW p \in Prepared, prepare_session(p) PROVE TablesFrame
  BY <1>2 DEF prepare_session, bindVars, failVars, TablesFrame
<1>3. ASSUME NEW t \in Turns, (\E c \in Calls : chat_completions(t, c)) \/ submit(t)
                                \/ PartialFailed(t) \/ _submit_pending(t)
      PROVE  TablesFrame
  BY <1>3, Zenon DEF chat_completions, submit, PartialFailed, _submit_pending, bindVars,
     agentVars, TablesFrame
<1>4. ASSUME NEW t \in Turns, flush_now(t) PROVE TablesInv'
  <2> DEFINE c == of[t]
  <2>1. c \in Calls /\ stop[c] = "flushing" /\ act[c] = "done"
    BY <1>4 DEF flush_now, TurnsInv, TypeOK, TablesInv
  <2>2. UNCHANGED <<bound, watching, agent, act, unheard, astray, stuck>>
    BY <1>4 DEF flush_now, bindVars
  <2>3. DropHandle(c) \/ (stop' = [stop EXCEPT ![c] = "idle"] /\ UNCHANGED <<handles, runtime>>)
    BY <1>4, Zenon DEF flush_now
  <2> HIDE DEF c
  <2> QED BY <2>1, <2>2, <2>3, TablesDrop, TablesGivenUp
<1> QED BY <1>1, <1>2, <1>3, <1>4, TablesActivate, TablesStop DEF Next

-----------------------------------------------------------------------------
(* One binding per Newbro session *)

\* A call is past the creation of its session for good.
LEMMA ActStep ==
  ASSUME TypeOK, SessionType, Next
  PROVE  \A d \in Calls : act[d] \notin {"idle", "creating"} => act'[d] \notin {"idle", "creating"}
<1> USE DEF bindVars, turnVars, agentVars
<1>1. CASE UNCHANGED act
  BY <1>1
<1>2. ASSUME NEW c \in Calls, reserve(c) PROVE \A d \in Calls : d # c => act'[d] = act[d]
  <2>1. \E v \in {"starting", "failed", "creating"} : act' = [act EXCEPT ![c] = v]
    BY <1>2, Zenon DEF reserve, Reserved
  <2> QED BY <2>1 DEF TypeOK
<1>3. ASSUME NEW c \in Calls,
             create_session(c) \/ AgentRuns(c) \/ AgentStarted(c) \/ AgentFailed(c) \/ finalize(c)
               \/ unregister(c) \/ StartedTold(c)
      PROVE  \/ UNCHANGED act
             \/ \E v \in {"starting", "started", "undoing", "telling", "done", "failed"} :
                  act' = [act EXCEPT ![c] = v]
  BY <1>3, Zenon DEF create_session, Reserved, AgentRuns, AgentStarted, Finalized, AgentFailed, finalize,
     unregister, StartedTold
<1>4. ASSUME NEW c \in Calls, NEW v \in {"starting", "started", "undoing", "telling", "done", "failed"},
             act' = [act EXCEPT ![c] = v]
      PROVE  \A d \in Calls : act[d] \notin {"idle", "creating"} => act'[d] \notin {"idle",
      "creating"}
  BY <1>4 DEF TypeOK
<1>5. ASSUME NEW c \in Calls, reserve(c) PROVE act[c] = "idle"
  BY <1>5 DEF reserve
<1>6. ASSUME NEW c \in Calls,
             _flush_after_delay(c) \/ stop_session(c) \/ AgentStopped(c) \/ StoppedTold(c)
      PROVE  UNCHANGED act
  BY <1>6, Zenon DEF _flush_after_delay, stop_session, AgentStopped, StoppedTold
<1>7. ASSUME NEW p \in Prepared, prepare_session(p) PROVE UNCHANGED act
  BY <1>7 DEF prepare_session
<1>8. ASSUME NEW t \in Turns, (\E c \in Calls : chat_completions(t, c)) \/ submit(t)
                                \/ PartialFailed(t) \/ _submit_pending(t) \/ flush_now(t)
      PROVE  UNCHANGED act
  BY <1>8, Zenon DEF chat_completions, submit, PartialFailed, _submit_pending, flush_now
<1> QED BY <1>1, <1>2, <1>3, <1>4, <1>5, <1>6, <1>7, <1>8 DEF Next

LEMMA SessionsReserved ==
  ASSUME TypeOK, SessionType, SessionsInv, OneBindingPerSession, NEW c \in Calls, NEW s,
         Reserved(c, s), s # c => Exists(s), \A b \in bound \ {c} : session[b] # s,
         \A d \in Calls : act[d] \notin {"idle", "creating"} => act'[d] \notin {"idle", "creating"}
  PROVE  SessionsInv' /\ OneBindingPerSession'
<1>0. \A x : Exists(x) => Exists(x)'
  BY DEF Exists
<1>1. named' \subseteq named
  BY ReservedFacts
<1>2. CASE /\ bound' = bound \cup {c}
           /\ session' = [session EXCEPT ![c] = s]
  <2>1. session'[c] = s /\ \A b \in bound \ {c} : session'[b] = session[b]
    BY <1>2 DEF SessionType, TypeOK
  <2>2. SessionsInv'
    <3>1. \A p \in named' : Exists(SessionOf[p])'
      BY <1>0, <1>1 DEF SessionsInv
    <3>2. ASSUME NEW b \in bound', session'[b] # b
          PROVE  session'[b] \in Calls => act'[session'[b]] \notin {"idle", "creating"}
      <4>1. CASE b = c
        BY <2>1, <3>2, <4>1 DEF Exists
      <4>2. CASE b # c
        <5>1. b \in bound /\ session'[b] = session[b]
          BY <1>2, <2>1, <4>2
        <5> QED BY <3>2, <5>1 DEF SessionsInv, Exists
      <4> QED BY <4>1, <4>2
    <3> QED BY <3>1, <3>2 DEF SessionsInv, Exists
  <2>3. OneBindingPerSession'
    BY <1>2, <2>1 DEF OneBindingPerSession
  <2> QED BY <2>2, <2>3
<1>3. CASE UNCHANGED <<bound, session>>
  <2>1. SessionsInv'
    BY <1>0, <1>1, <1>3 DEF SessionsInv
  <2>2. OneBindingPerSession'
    BY <1>3 DEF OneBindingPerSession
  <2> QED BY <2>1, <2>2
<1> QED BY <1>2, <1>3, ReservedFacts

\* The steps that bind nothing.
SessionsFrame == named' \subseteq named /\ bound' \subseteq bound /\ session' = session

LEMMA SessionsStep ==
  ASSUME TypeOK, SessionType, SessionsInv, OneBindingPerSession, Next
  PROVE  SessionsInv' /\ OneBindingPerSession'
<1> USE DEF bindVars, turnVars, agentVars
<1>0. \A d \in Calls : act[d] \notin {"idle", "creating"} => act'[d] \notin {"idle", "creating"}
  BY ActStep
<1>1. CASE SessionsFrame
  BY <1>0, <1>1 DEF SessionsFrame, SessionsInv, Exists, OneBindingPerSession
<1>2. ASSUME NEW p \in Prepared, prepare_session(p) PROVE SessionsInv' /\ OneBindingPerSession'
  <2>1. /\ named' \subseteq named \cup {p} /\ Exists(SessionOf[p])
        /\ UNCHANGED <<bound, session, act>>
    BY <1>2 DEF prepare_session, Remembered
  <2>2. SessionsInv'
    BY <2>1 DEF SessionsInv, Exists
  <2> QED BY <2>1, <2>2 DEF OneBindingPerSession
<1>3. ASSUME NEW c \in Calls, reserve(c) PROVE SessionsInv' /\ OneBindingPerSession'
  <2> DEFINE p == PreparedOf[c]
  <2>1. CASE p \in named /\ ~Taken(SessionOf[p]) /\ Reserved(c, SessionOf[p])
    <3>1. Exists(SessionOf[p]) /\ \A b \in bound : session[b] # SessionOf[p]
      BY <2>1 DEF SessionsInv, Taken
    <3> QED BY <1>0, <2>1, <3>1, SessionsReserved
  <2>2. CASE UNCHANGED <<named, bound, session>>
    BY <1>1, <2>2 DEF SessionsFrame
  <2> QED BY <1>3, <2>1, <2>2, Zenon DEF reserve
<1>4. ASSUME NEW c \in Calls, create_session(c) PROVE SessionsInv' /\ OneBindingPerSession'
  <2>1. act[c] = "creating"
    BY <1>4 DEF create_session
  <2>2. \A b \in bound \ {c} : session[b] # c
    BY <2>1 DEF SessionsInv, Exists
  <2>3. CASE Reserved(c, c)
    BY <1>0, <2>2, <2>3, SessionsReserved
  <2>4. CASE UNCHANGED <<named, bound, session>>
    BY <1>1, <2>4 DEF SessionsFrame
  <2> QED BY <1>4, <2>3, <2>4, Zenon DEF create_session
<1>5. ASSUME NEW c \in Calls,
             AgentRuns(c) \/ AgentStarted(c) \/ AgentFailed(c) \/ finalize(c) \/ unregister(c)
               \/ StartedTold(c)
      PROVE  SessionsFrame
  BY <1>5 DEF AgentRuns, AgentStarted, Finalized, AgentFailed, finalize, unregister, Unbound, StartedTold,
     SessionsFrame
<1>6. ASSUME NEW c \in Calls,
             _flush_after_delay(c) \/ stop_session(c) \/ AgentStopped(c) \/ StoppedTold(c)
      PROVE  SessionsFrame
  BY <1>6 DEF _flush_after_delay, stop_session, AgentStopped, StoppedTold, Unbound, SessionsFrame
<1>7. ASSUME NEW t \in Turns, (\E c \in Calls : chat_completions(t, c)) \/ submit(t)
                                \/ PartialFailed(t) \/ _submit_pending(t) \/ flush_now(t)
      PROVE  SessionsFrame
  <2>1. UNCHANGED <<named, bound, session>>
    BY <1>7, Zenon DEF chat_completions, submit, PartialFailed, _submit_pending, flush_now
  <2> QED BY <2>1 DEF SessionsFrame
<1> QED BY <1>1, <1>2, <1>3, <1>4, <1>5, <1>6, <1>7 DEF Next

-----------------------------------------------------------------------------
(* Turns *)

\* A turn of c moves on; no other turn does.
LEMMA TurnMoves ==
  ASSUME TypeOK, TurnsInv, SpokenInv, NEW t \in Turns, turn[t] # "new", of[t] \in Calls,
         NEW x \in {"posting", "refused", "flushing", "delivered", "failed"}, turn' = [turn EXCEPT ![t] = x],
         of' = of, later' = later,
         pending' = IF pending[of[t]] = t THEN [pending EXCEPT ![of[t]] = None] ELSE pending,
         turn[t] = "pending" <=> pending[of[t]] = t,
         \A u \in Turns \ {t} : turn[u] = "flushing" => stop'[of[u]] = stop[of[u]],
         x = "flushing" => /\ stop'[of[t]] = "flushing"
                           /\ \A u \in Turns \ {t} : turn[u] = "flushing" => of[u] # of[t]
  PROVE  TurnsInv' /\ SpokenInv'
<1>1. \A u \in Turns : turn'[u] = IF u = t THEN x ELSE turn[u]
  BY DEF TypeOK
<1>2. \A c \in Calls : pending'[c] = IF pending[of[t]] = t /\ c = of[t] THEN None ELSE pending[c]
  BY DEF TypeOK
<1>3. \A u \in Turns : of'[u] = Free <=> turn'[u] = "new"
  BY <1>1 DEF TurnsInv
<1>4. ASSUME NEW c \in Calls, pending'[c] # None
      PROVE  turn'[pending'[c]] = "pending" /\ of'[pending'[c]] = c
  <2>1. pending'[c] = pending[c] /\ pending[c] \in Turns
    BY <1>2, <1>4 DEF TypeOK
  <2>2. turn[pending[c]] = "pending" /\ of[pending[c]] = c
    BY <1>4, <2>1 DEF TurnsInv
  <2>3. pending[c] # t
    BY <1>2, <1>4, <2>1, <2>2
  <2> QED BY <1>1, <2>1, <2>2, <2>3
<1>5. ASSUME NEW u \in Turns, turn'[u] = "flushing" PROVE stop'[of'[u]] = "flushing"
  BY <1>1, <1>5 DEF TurnsInv
<1>6. ASSUME NEW u \in Turns, NEW v \in Turns, turn'[u] = "flushing", turn'[v] = "flushing", of'[u] = of'[v]
      PROVE  u = v
  BY <1>1, <1>6 DEF TurnsInv
<1>9. ASSUME NEW u \in Turns, turn'[u] = "pending" PROVE pending'[of'[u]] = u
  <2>1. u # t /\ turn[u] = "pending" /\ pending[of[u]] = u /\ of[u] \in Calls
    BY <1>1, <1>9 DEF TurnsInv, TypeOK
  <2> QED BY <1>2, <2>1
<1>7. TurnsInv'
  BY <1>3, <1>4, <1>5, <1>6, <1>9 DEF TurnsInv
<1>8. SpokenInv'
  BY <1>1 DEF SpokenInv
<1> QED BY <1>7, <1>8

\* The first text of a binding, or one more.
LEMMA TurnsArrive ==
  ASSUME TypeOK, TurnsInv, SpokenInv, NEW t \in Turns, NEW c \in Calls, chat_completions(t, c)
  PROVE  TurnsInv' /\ SpokenInv'
<1>1. turn[t] = "new" /\ of[t] = Free /\ UNCHANGED <<pending, later, stop>>
  BY DEF chat_completions, TurnsInv
<1>2. /\ \A u \in Turns : turn'[u] = IF u = t THEN "partial" ELSE turn[u]
      /\ \A u \in Turns : of'[u] = IF u = t THEN c ELSE of[u]
  BY DEF chat_completions, TypeOK
<1>3. \A u \in Turns : of'[u] = Free <=> turn'[u] = "new"
  BY <1>1, <1>2 DEF TurnsInv
<1>4. ASSUME NEW d \in Calls, pending'[d] # None
      PROVE  turn'[pending'[d]] = "pending" /\ of'[pending'[d]] = d
  <2>1. pending'[d] = pending[d] /\ pending[d] \in Turns
    BY <1>1, <1>4 DEF TypeOK
  <2>2. turn[pending[d]] = "pending" /\ of[pending[d]] = d
    BY <1>4, <2>1 DEF TurnsInv
  <2> QED BY <1>1, <1>2, <2>1, <2>2
<1>5. ASSUME NEW u \in Turns, turn'[u] = "flushing" PROVE stop'[of'[u]] = "flushing"
  BY <1>1, <1>2, <1>5 DEF TurnsInv
<1>6. ASSUME NEW u \in Turns, NEW v \in Turns, turn'[u] = "flushing", turn'[v] = "flushing", of'[u] = of'[v]
      PROVE  u = v
  BY <1>1, <1>2, <1>6 DEF TurnsInv
<1>7. SpokenInv'
  BY <1>1, <1>2 DEF SpokenInv
<1>8. ASSUME NEW u \in Turns, turn'[u] = "pending" PROVE pending'[of'[u]] = u
  BY <1>1, <1>2, <1>8 DEF TurnsInv
<1> QED BY <1>3, <1>4, <1>5, <1>6, <1>7, <1>8 DEF TurnsInv

\* A text takes the place of the one that is pending, which is of the same binding.
LEMMA TurnsSubmit ==
  ASSUME TypeOK, TurnsInv, SpokenInv, NEW t \in Turns, submit(t)
  PROVE  TurnsInv' /\ SpokenInv'
<1>1. turn[t] = "partial" /\ of[t] \in Calls /\ UNCHANGED <<of, stop>>
  BY DEF submit, TurnsInv, TypeOK
<1>2. \A u \in Turns : turn'[u] = IF u = t THEN "pending" ELSE IF u = pending[of[t]] THEN "replaced" ELSE turn[u]
  BY DEF submit
<1>3. \A d \in Calls : pending'[d] = IF d = of[t] THEN t ELSE pending[d]
  BY <1>1 DEF submit, TypeOK
<1>4. \A u \in Turns : u = pending[of[t]] => turn[u] = "pending" /\ of[u] = of[t]
  BY <1>1 DEF TurnsInv, Turns, None
<1>5. \A u \in Turns : of'[u] = Free <=> turn'[u] = "new"
  BY <1>1, <1>2, <1>4 DEF TurnsInv
<1>6. ASSUME NEW d \in Calls, pending'[d] # None
      PROVE  turn'[pending'[d]] = "pending" /\ of'[pending'[d]] = d
  <2>1. CASE d = of[t]
    BY <1>1, <1>2, <1>3, <2>1
  <2>2. CASE d # of[t]
    <3>1. pending'[d] = pending[d] /\ pending[d] \in Turns
      BY <1>3, <1>6, <2>2 DEF TypeOK
    <3>2. turn[pending[d]] = "pending" /\ of[pending[d]] = d
      BY <1>6, <3>1 DEF TurnsInv
    <3> QED BY <1>1, <1>2, <1>4, <2>2, <3>1, <3>2
  <2> QED BY <2>1, <2>2
<1>7. ASSUME NEW u \in Turns, turn'[u] = "flushing" PROVE stop'[of'[u]] = "flushing"
  BY <1>1, <1>2, <1>7 DEF TurnsInv
<1>8. ASSUME NEW u \in Turns, NEW v \in Turns, turn'[u] = "flushing", turn'[v] = "flushing", of'[u] = of'[v]
      PROVE  u = v
  BY <1>1, <1>2, <1>8 DEF TurnsInv
<1>9. ASSUME NEW u \in Turns, turn'[u] = "pending" PROVE pending'[of'[u]] = u
  <2>1. CASE u = t
    BY <1>1, <1>3, <2>1
  <2>2. CASE u # t
    <3>1. turn[u] = "pending" /\ u # pending[of[t]]
      BY <1>2, <1>9, <2>2
    <3>2. pending[of[u]] = u /\ of[u] \in Calls /\ of[u] # of[t]
      BY <3>1 DEF TurnsInv, TypeOK
    <3> QED BY <1>1, <1>3, <3>2
  <2> QED BY <2>1, <2>2
<1>10. ASSUME NEW u \in Turns, turn'[u] = "replaced" PROVE later'[u] # None
  <2>1. later'[u] = IF u \in Submitted /\ of[u] = of[t] /\ later[u] = None THEN t ELSE later[u]
    BY DEF submit, Follows
  <2>2. t # None
    BY DEF Turns, None
  <2>3. CASE u = pending[of[t]] /\ u # t
    <3>1. u \in Submitted /\ of[u] = of[t]
      BY <1>4, <2>3 DEF Submitted
    <3> QED BY <2>1, <2>2, <3>1
  <2>4. CASE u # pending[of[t]] \/ u = t
    <3>1. turn[u] = "replaced"
      BY <1>2, <1>10, <2>4
    <3> QED BY <2>1, <2>2, <3>1 DEF SpokenInv
  <2> QED BY <2>3, <2>4
<1> QED BY <1>5, <1>6, <1>7, <1>8, <1>9, <1>10 DEF TurnsInv, SpokenInv

\* The steps that leave the texts, and the flush of a stop, alone.
TurnsFrame ==
  UNCHANGED turnVars /\ \A c \in Calls : stop[c] = "flushing" => stop'[c] = "flushing"

LEMMA TurnsStep ==
  ASSUME TypeOK, TurnsInv, SpokenInv, Next
  PROVE  TurnsInv' /\ SpokenInv'
<1> USE DEF bindVars, agentVars
<1>1. CASE TurnsFrame
  <2>1. \A u \in Turns : turn[u] = "flushing" => of[u] \in Calls
    BY DEF TurnsInv, TypeOK
  <2>2. TurnsInv'
    BY <1>1, <2>1 DEF TurnsFrame, turnVars, TurnsInv
  <2> QED BY <1>1, <2>2 DEF TurnsFrame, turnVars, SpokenInv
<1>2. \A t \in Turns : turn[t] # "new" => of[t] \in Calls
  BY DEF TurnsInv, TypeOK
<1>3. \A t \in Turns : \A c \in Calls : pending[c] = t => turn[t] = "pending" /\ of[t] = c
  BY DEF TurnsInv, Turns, None
<1>4. ASSUME NEW t \in Turns, PartialFailed(t) \/ _submit_pending(t) PROVE TurnsInv' /\ SpokenInv'
  <2>1. turn[t] \in {"partial", "posting"} /\ UNCHANGED <<of, later, pending, stop>>
    BY <1>4 DEF PartialFailed, _submit_pending
  <2>2. PICK x \in {"refused", "delivered", "failed"} : turn' = [turn EXCEPT ![t] = x]
    BY <1>4, Zenon DEF PartialFailed, _submit_pending
  <2>3. of[t] \in Calls /\ pending[of[t]] # t
    BY <1>2, <1>3, <2>1
  <2> QED BY <2>1, <2>2, <2>3, TurnMoves
<1>5. ASSUME NEW t \in Turns, flush_now(t) PROVE TurnsInv' /\ SpokenInv'
  <2>1. turn[t] = "flushing" /\ UNCHANGED <<of, later, pending>>
    BY <1>5 DEF flush_now
  <2>2. PICK x \in {"delivered", "failed"} : turn' = [turn EXCEPT ![t] = x]
    BY <1>5, Zenon DEF flush_now
  <2>3. of[t] \in Calls /\ pending[of[t]] # t
    BY <1>2, <1>3, <2>1
  <2>4. \A d \in Calls : d # of[t] => stop'[d] = stop[d]
    BY <1>5, <2>3 DEF flush_now, DropHandle, TypeOK
  <2>5. \A u \in Turns \ {t} : turn[u] = "flushing" => stop'[of[u]] = stop[of[u]]
    BY <1>2, <2>1, <2>4 DEF TurnsInv
  <2> QED BY <2>1, <2>2, <2>3, <2>5, TurnMoves
<1>6. ASSUME NEW c \in Calls, _flush_after_delay(c) PROVE TurnsInv' /\ SpokenInv'
  <2>1. PICK t \in Turns : t = pending[c] /\ turn[t] = "pending" /\ of[t] = c
    BY <1>6, <1>3 DEF _flush_after_delay, TypeOK
  <2>2. /\ turn' = [turn EXCEPT ![t] = "posting"] /\ pending' = [pending EXCEPT ![of[t]] = None]
        /\ UNCHANGED <<of, later, stop>>
    BY <1>6, <2>1 DEF _flush_after_delay
  <2> QED BY <2>1, <2>2, TurnMoves
<1>7. ASSUME NEW c \in Calls, stop_session(c) PROVE TurnsInv' /\ SpokenInv'
  <2>1. CASE /\ pending[c] # None /\ turn' = [turn EXCEPT ![pending[c]] = "flushing"]
             /\ pending' = [pending EXCEPT ![c] = None] /\ stop' = [stop EXCEPT ![c] = "flushing"]
    <3>1. PICK t \in Turns : t = pending[c] /\ turn[t] = "pending" /\ of[t] = c
      BY <2>1, <1>3 DEF TypeOK
    <3>2. /\ turn' = [turn EXCEPT ![t] = "flushing"] /\ pending' = [pending EXCEPT ![of[t]] = None]
          /\ of' = of /\ later' = later /\ stop[c] = "idle"
      BY <1>7, <2>1, <3>1 DEF stop_session
    <3>3. stop'[c] = "flushing" /\ \A d \in Calls : d # c => stop'[d] = stop[d]
      BY <2>1 DEF TypeOK
    <3>4. \A u \in Turns : turn[u] = "flushing" => of[u] \in Calls /\ of[u] # c
      BY <1>2, <3>2 DEF TurnsInv
    <3>5. \A u \in Turns \ {t} : turn[u] = "flushing" => stop'[of[u]] = stop[of[u]]
      BY <3>3, <3>4
    <3>6. /\ pending' = IF pending[of[t]] = t THEN [pending EXCEPT ![of[t]] = None] ELSE pending
          /\ turn[t] = "pending" /\ pending[of[t]] = t
      BY <3>1, <3>2
    <3>7. stop'[of[t]] = "flushing" /\ \A u \in Turns \ {t} : turn[u] = "flushing" => of[u] # of[t]
      BY <3>1, <3>3, <3>4
    <3> QED BY <3>1, <3>2, <3>5, <3>6, <3>7, TurnMoves
  <2>2. CASE UNCHANGED <<turn, pending>> /\ DropHandle(c)
    <3>1. stop[c] = "idle" /\ of' = of /\ later' = later /\ \A d \in Calls : d # c => stop'[d] = stop[d]
      BY <1>7, <2>2 DEF stop_session, DropHandle, TypeOK
    <3> QED BY <1>1, <2>2, <3>1 DEF TurnsFrame, turnVars
  <2> QED BY <1>7, <2>1, <2>2, Zenon DEF stop_session
<1>8. ASSUME NEW c \in Calls, AgentStopped(c) \/ StoppedTold(c) \/ unregister(c) PROVE TurnsFrame
  <2>1. /\ UNCHANGED turnVars
        /\ \/ UNCHANGED stop
           \/ stop[c] # "flushing" /\ \E x \in {"idle", "telling", "unbinding"} : stop' = [stop EXCEPT ![c] = x]
    BY <1>8 DEF AgentStopped, StoppedTold, unregister
  <2> QED BY <2>1 DEF TurnsFrame, TypeOK
<1>9. ASSUME NEW c \in Calls,
             reserve(c) \/ create_session(c) \/ AgentRuns(c) \/ AgentStarted(c) \/ AgentFailed(c) \/ finalize(c)
               \/ StartedTold(c)
      PROVE  TurnsFrame
  <2>1. UNCHANGED turnVars /\ UNCHANGED stop
    BY <1>9, Zenon DEF reserve, create_session, AgentRuns, AgentStarted, AgentFailed, finalize, StartedTold
  <2> QED BY <2>1 DEF TurnsFrame
<1>10. ASSUME NEW p \in Prepared, prepare_session(p) PROVE TurnsFrame
  BY <1>10 DEF prepare_session, TurnsFrame
<1> QED BY <1>1, <1>4, <1>5, <1>6, <1>7, <1>8, <1>9, <1>10, TurnsArrive, TurnsSubmit DEF Next

-----------------------------------------------------------------------------
(* The theorems *)

LEMMA IInvStep == IInv /\ [Next]_vars => IInv'
<1> SUFFICES ASSUME IInv, [Next]_vars PROVE IInv'
  OBVIOUS
<1>1. TypeOK' /\ SessionType'
  BY TypeStep DEF IInv
<1>2. CASE Next
  BY <1>1, <1>2, TablesStep, SessionsStep, TurnsStep DEF IInv
<1>3. CASE UNCHANGED vars
  <2> USE <1>3 DEF vars, bindVars, turnVars, agentVars
  <2>1. TablesInv'
    BY DEF IInv, TablesInv, Activating, Stopping, Manned, Everywhere, BoundOnly, Nowhere
  <2>2. SessionsInv' /\ OneBindingPerSession'
    BY DEF IInv, SessionsInv, Exists, OneBindingPerSession
  <2>3. TurnsInv' /\ SpokenInv'
    BY DEF IInv, TurnsInv, SpokenInv
  <2> QED BY <1>1, <2>1, <2>2, <2>3 DEF IInv
<1> QED BY <1>2, <1>3

(***************************************************************************)
(* The inductive invariant holds throughout: where each table knows a      *)
(* voice session follows from where its activation (activate_session) and  *)
(* its stop (stop_session) stand.                                          *)
(***************************************************************************)
THEOREM VoiceInvariant == Spec => []IInv
<1>1. Init => IInv
  BY IInvInit
<1>2. IInv /\ [Next]_vars => IInv'
  BY IInvStep
<1> QED BY <1>1, <1>2, PTL DEF Spec

(***************************************************************************)
(* At rest the registry, the connector, the ConvoAI service and Agora      *)
(* agree on every voice session, but for the agent of a start whose answer *)
(* was lost, and for the sessions whose stop raised half-way.              *)
(***************************************************************************)
THEOREM TablesStayInAgreement == Spec => []TablesAgree
<1>1. IInv => TablesAgree
  BY DEF IInv, TypeOK, TablesInv, Activating, Stopping, Manned, Everywhere, Nowhere, TablesAgree, Resting
<1> QED BY <1>1, VoiceInvariant, PTL

(***************************************************************************)
(* No Newbro session is ever bound twice, however the calls of reserve and *)
(* the creation of sessions under its lock interleave.                     *)
(***************************************************************************)
THEOREM NoDoubleBinding == Spec => []OneBindingPerSession
<1>1. IInv => OneBindingPerSession
  BY DEF IInv
<1> QED BY <1>1, VoiceInvariant, PTL

(***************************************************************************)
(* The coalescer (submit, flush_now and the timer) drops no text without a *)
(* later one of its session: a text that waits is the one to be posted     *)
(* next, and one that gave way did so to a text submitted after it.        *)
(***************************************************************************)
THEOREM NoSpeechLost == Spec => []SpokenIsPosted
<1>1. TurnsInv /\ SpokenInv => SpokenIsPosted
  BY DEF TurnsInv, SpokenInv, SpokenIsPosted
<1> QED BY <1>1, VoiceInvariant, PTL DEF IInv

-----------------------------------------------------------------------------
(* The speech-to-text sessions of the Agora connector *)

USE SpeechAssumption DEF SpeechAssumption

SweepRange == [at : Stt \cup {NoBot}, todo : SUBSET Stt]

-----------------------------------------------------------------------------
(* The invariant *)

\* A sweep that awaits a leave is made by a start, or by the watchdog, that is
\* known to be sweeping: nobody else replaces its record.
SweepHasOwner ==
  /\ \A s \in Stt : sweep[s].at # NoBot => start[s] = "sweeping"
  /\ sweep[Watchdog].at # NoBot => watchdog = "sweeping"

\* Handles are made by starts that are done.
SessionsAreStarted == \A s \in sessions : start[s] = "done"

\* What a sweep has yet to stop has been silent all along: a heartbeat takes it
\* out of the sweep, and a started session is never started again.
TodoIsExpired ==
  \A w \in Sweepers : \A s \in sweep[w].todo : start[s] = "done" /\ Expired(s)

SttInv == SpeechTypeOK /\ SweepHasOwner /\ SessionsAreStarted /\ TodoIsExpired /\ BotsAreKnown

-----------------------------------------------------------------------------
(* Sweeps *)

\* One step of a sweep keeps the types.
LEMMA ProceedType ==
  ASSUME SpeechTypeOK, NEW w \in Sweepers, NEW left \in SUBSET Stt,
  NEW rest \in SUBSET Stt,
         Proceed(w, left, rest)
  PROVE  /\ prepared' \subseteq Stt /\ sessions' \subseteq Stt
         /\ start' \in [Stt -> {"new", "known", "sweeping", "joining", "done"}]
         /\ sweep' \in [Sweepers -> SweepRange]
         /\ watchdog' \in {"off", "asleep", "sweeping", "dead"}
<1>1. CASE rest = {} /\ AfterSweep(w, left)
  <2>1. NoSweep \in SweepRange
    BY DEF NoSweep, SweepRange
  <2> QED BY <1>1, <2>1 DEF SpeechTypeOK, AfterSweep, SweepRange, _ensure_watchdog,
     WatchdogRests, Sweepers
<1>2. CASE SweepNext(w, left, rest)
  BY <1>2 DEF SpeechTypeOK, SweepNext, SweepRange, Sweepers
<1> QED BY <1>1, <1>2 DEF Proceed

\* What a sweep has to stop: started sessions, silent for the whole timeout.
Stale(rest) == \A s \in rest : start[s] = "done" /\ Expired(s)

\* A start that makes a sweep is not done, so that its session has no handle.
Sweeping(w) == w = Watchdog \/ start[w] \in {"known", "sweeping"}

\* One step of a sweep keeps its owner, drops only expired handles, and loses
\* sight of no bot but the one it was waiting for.
LEMMA ProceedInv ==
  ASSUME SpeechTypeOK, SweepHasOwner, SessionsAreStarted, TodoIsExpired,
  age' = age,
         NEW w \in Sweepers, NEW left \in SUBSET Stt, NEW rest \in SUBSET Stt,
         Stale(rest), Sweeping(w), Proceed(w, left, rest)
  PROVE  /\ SweepHasOwner' /\ SessionsAreStarted' /\ TodoIsExpired'
         /\ \A s \in sessions \ sessions' : Expired(s)
         /\ \A s \in Stt : s \in sessions \/ (\E v \in Sweepers \ {w} : sweep[v].at = s)
              => s \in sessions' \/ \E v \in Sweepers : sweep'[v].at = s
<1>1. CASE rest = {} /\ AfterSweep(w, left)
  <2>1. \A v \in Sweepers : sweep'[v] = IF v = w THEN NoSweep ELSE sweep[v]
    BY <1>1 DEF AfterSweep, SpeechTypeOK
  <2>2. SweepHasOwner'
    BY <1>1, <2>1 DEF AfterSweep, SpeechTypeOK, SweepHasOwner, NoSweep,
       Sweepers, _ensure_watchdog
  <2>3. SessionsAreStarted' /\ TodoIsExpired'
    BY <1>1, <2>1 DEF AfterSweep, SpeechTypeOK, SessionsAreStarted, TodoIsExpired,
       NoSweep, Sweepers,
                      Sweeping, Expired
  <2> QED BY <1>1, <2>1, <2>2, <2>3 DEF AfterSweep
<1>2. CASE SweepNext(w, left, rest)
  <2>1. PICK s \in rest :
          /\ sweep' = [sweep EXCEPT ![w] = [at |-> s, todo |-> rest \ {s}]]
          /\ sessions' = sessions \ {s}
          /\ watchdog' = IF w = Watchdog THEN "sweeping" ELSE watchdog
          /\ start' = IF w = Watchdog THEN start ELSE [start EXCEPT ![w] = "sweeping"]
    BY <1>2 DEF SweepNext
  <2>2. \A v \in Sweepers : sweep'[v] = IF v = w THEN [at |-> s, todo |-> rest \ {s}] ELSE sweep[v]
    BY <2>1 DEF SpeechTypeOK
  <2>3. SweepHasOwner'
    BY <2>1, <2>2 DEF SpeechTypeOK, SweepHasOwner, Sweepers
  <2>4. SessionsAreStarted' /\ TodoIsExpired'
    BY <2>1, <2>2 DEF SpeechTypeOK, SessionsAreStarted, TodoIsExpired, Sweepers, Sweeping,
       Stale, Expired
  <2>5. sweep'[w].at = s
    BY <2>2
  <2>6. \A v \in Sweepers \ {w} : sweep'[v].at = sweep[v].at
    BY <2>2
  <2> QED BY <2>1, <2>3, <2>4, <2>5, <2>6 DEF Stale
<1> QED BY <1>1, <1>2 DEF Proceed

\* A sweep begins with the sessions that are expired on its clock.
LEMMA SweepBegins ==
  ASSUME SttInv, NEW w \in Sweepers, Sweeping(w), sweep[w].at = NoBot,
         sweep_expired_sessions(w), UNCHANGED <<age, closing, bot, silent, asked, lost>>
  PROVE  SttInv' /\ \A s \in sessions \ sessions' : Expired(s)
<1> DEFINE left == {s \in prepared : ~Expired(s)}
           rest == {s \in sessions : Expired(s)}
<1>1. left \in SUBSET Stt /\ rest \in SUBSET Stt
  BY DEF SttInv, SpeechTypeOK
<1>2. Stale(rest)
  BY DEF SttInv, SessionsAreStarted, Stale
<1>3. Proceed(w, left, rest)
  BY DEF sweep_expired_sessions
<1> HIDE DEF left, rest
<1>4. SpeechTypeOK'
  BY <1>1, <1>3, ProceedType DEF SttInv, SpeechTypeOK, SweepRange
<1>5. /\ SweepHasOwner' /\ SessionsAreStarted' /\ TodoIsExpired'
      /\ \A s \in sessions \ sessions' : Expired(s)
      /\ \A s \in Stt : s \in sessions \/ (\E v \in Sweepers \ {w} : sweep[v].at = s)
           => s \in sessions' \/ \E v \in Sweepers : sweep'[v].at = s
  BY <1>1, <1>2, <1>3, ProceedInv DEF SttInv
<1>6. BotsAreKnown'
  BY <1>5 DEF SttInv, BotsAreKnown
<1> QED BY <1>4, <1>5, <1>6 DEF SttInv

LEMMA StartSession ==
  ASSUME SttInv, NEW s \in Stt, start_session(s)
  PROVE  SttInv' /\ \A x \in sessions \ sessions' : Expired(x)
<1>1. Sweeping(s) /\ sweep[s].at = NoBot /\ s \in Sweepers
  BY DEF start_session, SttInv, SweepHasOwner, Sweeping, Sweepers
<1> QED BY <1>1, SweepBegins DEF start_session

LEMMA WatchdogLoop ==
  ASSUME SttInv, _watchdog_loop
  PROVE  SttInv' /\ \A x \in sessions \ sessions' : Expired(x)
<1>1. Sweeping(Watchdog) /\ sweep[Watchdog].at = NoBot /\ Watchdog \in Sweepers
  BY DEF _watchdog_loop, SttInv, SweepHasOwner, Sweeping, Sweepers
<1> QED BY <1>1, SweepBegins DEF _watchdog_loop

\* The bot a sweep waited for is gone, and the sweep goes on.
LEMMA SweptLeft ==
  ASSUME SttInv, NEW w \in Sweepers, SweptBotLeft(w)
  PROVE  SttInv' /\ \A x \in sessions \ sessions' : Expired(x)
<1> DEFINE rest == sweep[w].todo
<1>1. prepared \in SUBSET Stt /\ rest \in SUBSET Stt /\ sweep[w].at \in Stt
  BY DEF SttInv, SpeechTypeOK, SweptBotLeft
<1>2. Stale(rest) /\ Sweeping(w)
  BY DEF SttInv, TodoIsExpired, Stale, Sweeping, SweepHasOwner, SweptBotLeft, Sweepers
<1>3. Proceed(w, prepared, rest) /\ age' = age
  BY DEF SweptBotLeft
<1> HIDE DEF rest
<1>4. SpeechTypeOK'
  BY <1>1, <1>3, ProceedType DEF SttInv, SpeechTypeOK, SweepRange, SweptBotLeft
<1>5. /\ SweepHasOwner' /\ SessionsAreStarted' /\ TodoIsExpired'
      /\ \A s \in sessions \ sessions' : Expired(s)
      /\ \A s \in Stt : s \in sessions \/ (\E v \in Sweepers \ {w} : sweep[v].at = s)
           => s \in sessions' \/ \E v \in Sweepers : sweep'[v].at = s
  BY <1>1, <1>2, <1>3, ProceedInv DEF SttInv
<1>6. BotsAreKnown'
  BY <1>1, <1>5 DEF SttInv, SpeechTypeOK, BotsAreKnown, SweptBotLeft
<1> QED BY <1>4, <1>5, <1>6 DEF SttInv

\* The leave failed: the bot is known to be lost, and the sweep is over.
LEMMA SweptStayed ==
  ASSUME SttInv, NEW w \in Sweepers, SweptBotStayed(w)
  PROVE  SttInv' /\ sessions' = sessions
<1>0. NoSweep \in SweepRange
  BY DEF NoSweep, SweepRange
<1>1. \A v \in Sweepers : sweep'[v] = IF v = w THEN NoSweep ELSE sweep[v]
  BY DEF SweptBotStayed, SttInv, SpeechTypeOK
<1>2. w # Watchdog => start[w] = "sweeping" /\ w \in Stt
  BY DEF SweptBotStayed, SttInv, SweepHasOwner, Sweepers
<1>3. SpeechTypeOK'
  BY <1>0, <1>1 DEF SweptBotStayed, SttInv, SpeechTypeOK, SweepRange, Sweepers
<1>4. SweepHasOwner'
  BY <1>1, <1>2 DEF SweptBotStayed, SttInv, SpeechTypeOK, SweepHasOwner, NoSweep,
     Sweepers
<1>5. SessionsAreStarted' /\ TodoIsExpired'
  BY <1>1, <1>2 DEF SweptBotStayed, SttInv, SpeechTypeOK, SessionsAreStarted,
     TodoIsExpired, NoSweep, Expired
<1>6. BotsAreKnown'
  BY <1>1 DEF SweptBotStayed, SttInv, SpeechTypeOK, BotsAreKnown, NoSweep
<1> QED BY <1>3, <1>4, <1>5, <1>6 DEF SttInv, SweptBotStayed

-----------------------------------------------------------------------------
(* The other steps *)

LEMMA Prepare ==
  ASSUME SttInv, NEW s \in Stt, prepare_speech_session(s)
  PROVE  SttInv' /\ sessions' = sessions
BY DEF prepare_speech_session, SttInv, SpeechTypeOK, SweepHasOwner, SessionsAreStarted,
   TodoIsExpired,
       BotsAreKnown, Expired, Sweepers

LEMMA Join ==
  ASSUME SttInv, NEW s \in Stt, Joined(s)
  PROVE  SttInv' /\ sessions \subseteq sessions'
BY DEF Joined, SttInv, SpeechTypeOK, SweepHasOwner, SessionsAreStarted, TodoIsExpired,
       BotsAreKnown, Expired, Sweepers

LEMMA FailedJoin ==
  ASSUME SttInv, NEW s \in Stt, JoinFailed(s)
  PROVE  SttInv' /\ sessions' = sessions
<1>1. SpeechTypeOK' /\ SweepHasOwner' /\ SessionsAreStarted' /\ TodoIsExpired'
  BY DEF JoinFailed, SttInv, SpeechTypeOK, SweepHasOwner, SessionsAreStarted,
     TodoIsExpired, Expired, Sweepers
<1>2. BotsAreKnown'
  BY DEF JoinFailed, SttInv, SpeechTypeOK, BotsAreKnown
<1> QED BY <1>1, <1>2 DEF SttInv, JoinFailed

\* A heartbeat makes a session young and takes it out of every sweep under way.
LEMMA Heartbeat ==
  ASSUME SttInv, NEW s \in Stt, heartbeat_session(s)
  PROVE  SttInv' /\ sessions' = sessions
<1>1. \A w \in Sweepers : /\ sweep'[w].at = sweep[w].at
                          /\ sweep'[w].todo = sweep[w].todo \ {s}
                          /\ sweep'[w] \in SweepRange
  BY DEF heartbeat_session, SttInv, SpeechTypeOK, SweepRange
<1>2. sweep' \in [Sweepers -> SweepRange] /\ age' \in [Stt -> 0..Timeout + 1]
  <2> DEFINE swept(w) == [sweep[w] EXCEPT !.todo = @ \ {s}]
  <2>1. sweep' = [w \in Sweepers |-> swept(w)]
    BY DEF heartbeat_session
  <2> HIDE DEF swept
  <2>2. \A w \in Sweepers : swept(w) \in SweepRange
    BY <1>1, <2>1
  <2>3. age' \in [Stt -> 0..Timeout + 1]
    BY DEF heartbeat_session, SttInv, SpeechTypeOK
  <2> QED BY <2>1, <2>2, <2>3
<1>3. SpeechTypeOK'
  BY <1>2 DEF heartbeat_session, SttInv, SpeechTypeOK, SweepRange
<1>4. SweepHasOwner' /\ SessionsAreStarted' /\ TodoIsExpired' /\ BotsAreKnown'
  BY <1>1 DEF heartbeat_session, SttInv, SpeechTypeOK, SweepHasOwner, SessionsAreStarted,
     TodoIsExpired,
              BotsAreKnown, Expired, Sweepers
<1> QED BY <1>3, <1>4 DEF SttInv, heartbeat_session

\* The client's own leave or stop: the handle goes, and its leave is on its way.
LEMMA Ending ==
  ASSUME SttInv, NEW s \in Stt, leave_session(s) \/ stop_speech_session(s)
  PROVE  SttInv' /\ \A x \in sessions \ sessions' : x \in asked'
BY DEF leave_session, stop_speech_session, EndSession, SttInv, SpeechTypeOK,
   SweepHasOwner, SessionsAreStarted,
       TodoIsExpired, BotsAreKnown, Expired, Sweepers

LEMMA EndOfLeave ==
  ASSUME SttInv, NEW s \in Stt, LeaveEnds(s)
  PROVE  SttInv' /\ sessions' = sessions
BY DEF LeaveEnds, SttInv, SpeechTypeOK, SweepHasOwner, SessionsAreStarted, TodoIsExpired,
       BotsAreKnown, Expired, Sweepers

LEMMA Silence ==
  ASSUME SttInv, NEW s \in Stt, leave_prepared(s) \/ FallSilent(s)
  PROVE  SttInv' /\ sessions' = sessions
BY DEF leave_prepared, FallSilent, SttInv, SpeechTypeOK, SweepHasOwner,
   SessionsAreStarted, TodoIsExpired,
       BotsAreKnown, Expired, Sweepers

\* Time only makes sessions older.
LEMMA Time ==
  ASSUME SttInv, Tick
  PROVE  SttInv' /\ sessions' = sessions
<1>1. SpeechTypeOK'
  BY DEF Tick, SttInv, SpeechTypeOK, Expired
<1>2. \A s \in Stt : Expired(s) => Expired(s)'
  BY DEF Tick, SttInv, SpeechTypeOK, Expired
<1>3. SweepHasOwner' /\ SessionsAreStarted' /\ TodoIsExpired' /\ BotsAreKnown'
  BY <1>2 DEF Tick, SttInv, SpeechTypeOK, SweepHasOwner, SessionsAreStarted,
     TodoIsExpired, BotsAreKnown
<1> QED BY <1>1, <1>3 DEF SttInv, Tick

-----------------------------------------------------------------------------
(* The theorems *)

LEMMA SttInit ==
  ASSUME SpeechInit
  PROVE  SttInv
<1>1. NoSweep \in SweepRange
  BY DEF NoSweep, SweepRange
<1>2. SpeechTypeOK
  BY <1>1 DEF SpeechInit, SpeechTypeOK, SweepRange
<1>3. SweepHasOwner /\ SessionsAreStarted /\ TodoIsExpired /\ BotsAreKnown
  BY DEF SpeechInit, SweepHasOwner, SessionsAreStarted, TodoIsExpired, BotsAreKnown,
     NoSweep, Sweepers
<1> QED BY <1>2, <1>3 DEF SttInv

\* A handle that goes was asked for or is expired.
Justified == \A s \in sessions \ sessions' : s \in asked' \/ Expired(s)

LEMMA SttNext ==
  ASSUME SttInv, [SpeechNext]_speechVars
  PROVE  SttInv' /\ Justified
<1>1. ASSUME NEW s \in Stt, prepare_speech_session(s) \/ Joined(s) \/ JoinFailed(s)
      PROVE  SttInv' /\ Justified
  BY <1>1, Prepare, Join, FailedJoin DEF Justified
<1>2. ASSUME NEW s \in Stt, start_session(s) PROVE SttInv' /\ Justified
  BY <1>2, StartSession DEF Justified
<1>3. ASSUME NEW s \in Stt, heartbeat_session(s) \/ leave_session(s) \/ stop_speech_session(s)
      PROVE  SttInv' /\ Justified
  BY <1>3, Heartbeat, Ending DEF Justified
<1>4. ASSUME NEW s \in Stt, LeaveEnds(s) \/ leave_prepared(s) \/ FallSilent(s)
      PROVE  SttInv' /\ Justified
  BY <1>4, EndOfLeave, Silence DEF Justified
<1>5. CASE _watchdog_loop
  BY <1>5, WatchdogLoop DEF Justified
<1>6. ASSUME NEW w \in Sweepers, SweptBotLeft(w) \/ SweptBotStayed(w) PROVE SttInv' /\ Justified
  BY <1>6, SweptLeft, SweptStayed DEF Justified
<1>7. CASE Tick
  BY <1>7, Time DEF Justified
<1>8. CASE UNCHANGED speechVars
  BY <1>8 DEF speechVars, SttInv, SpeechTypeOK, SweepHasOwner, SessionsAreStarted,
     TodoIsExpired, BotsAreKnown,
              Expired, Justified
<1> QED BY <1>1, <1>2, <1>3, <1>4, <1>5, <1>6, <1>7, <1>8 DEF SpeechNext

\* The sessions, sweeps, leaves and the watchdog keep SttInv, for any number of
\* sessions and sweepers (AgoraSttService).
THEOREM SpeechInvariant == SpeechSpec => []SttInv
BY SttInit, SttNext, PTL DEF SpeechSpec

\* No bot runs behind the connector's back, for any number of sessions: a
\* running bot has a handle, a leave on its way, or a call that failed
\* (AgoraSttService.start_session, leave_session, sweep_expired_sessions).
THEOREM NoUnknownBot == SpeechSpec => []BotsAreKnown
<1>1. SttInv => BotsAreKnown
  BY DEF SttInv
<1> QED BY <1>1, SpeechInvariant, PTL

\* A session in use is not stopped, although a sweep decides on a clock it read
\* before its earlier leaves (AgoraSttService.sweep_expired_sessions).
THEOREM SweepsSpareTheLiving == SpeechSpec => OnlySilentAreSwept
<1>1. SttInv /\ [SpeechNext]_speechVars => [\A s \in sessions \ sessions' : s \in asked' \/ Expired(s)]_speechVars
  BY SttNext DEF Justified
<1> QED BY <1>1, SpeechInvariant, PTL DEF SpeechSpec, OnlySilentAreSwept
=============================================================================
