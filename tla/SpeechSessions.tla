--------------------------- MODULE SpeechSessions ---------------------------
(***************************************************************************)
(* The speech-to-text sessions of the Agora connector (AgoraSttService):   *)
(* a session is prepared, started by having a bot join the channel, kept   *)
(* alive by the browser's heartbeats, and ended by the browser or by a     *)
(* sweep that finds it silent.  Sweeps are made by the watchdog and at the *)
(* beginning of every start.                                               *)
(*                                                                         *)
(* A session, its prepared form and its bot have one name here.  Time is   *)
(* an age per session, counted since it was prepared or last heard of;     *)
(* both limits of the code are 60 s, and so one constant is enough.  An    *)
(* action is the code between two points where it really suspends: the     *)
(* calls to Agora's REST service.  Names that VoiceSessions has too say     *)
(* "speech", so that a module can extend both.                             *)
(***************************************************************************)
EXTENDS Naturals

CONSTANTS Stt,       \* the sessions that may be prepared
          Watchdog,  \* the watchdog, as the maker of a sweep
          Timeout    \* ages above this one are expired

NoBot == "none"

ASSUME SpeechAssumption == Watchdog \notin Stt /\ NoBot \notin Stt /\ Timeout \in Nat

VARIABLES
  prepared,  \* _prepared_sessions
  sessions,  \* _sessions
  age,       \* ticks since created_at or last_heartbeat_at, up to Timeout + 1
  start,     \* per session: "new", "known" to its client, "sweeping", "joining", "done"
  sweep,     \* per sweeper: the bot whose leave it awaits, and the sessions after it
  watchdog,  \* "off", "asleep", "sweeping", "dead"
  closing,   \* the sessions whose leave the client's own call awaits
  bot,       \* what runs at Agora: "none", "running", "gone"
  silent,    \* the clients that send no heartbeat any more
  asked,     \* history: the sessions their clients asked to end
  lost       \* history: the bots whose join or leave failed on the way

speechVars == <<prepared, sessions, age, start, sweep, watchdog, closing, bot, silent, asked, lost>>

Sweepers == Stt \cup {Watchdog}
NoSweep == [at |-> NoBot, todo |-> {}]

SpeechTypeOK ==
  /\ prepared \subseteq Stt /\ sessions \subseteq Stt /\ closing \subseteq Stt
  /\ age \in [Stt -> 0..Timeout + 1]
  /\ start \in [Stt -> {"new", "known", "sweeping", "joining", "done"}]
  /\ sweep \in [Sweepers -> [at : Stt \cup {NoBot}, todo : SUBSET Stt]]
  /\ watchdog \in {"off", "asleep", "sweeping", "dead"}
  /\ bot \in [Stt -> {"none", "running", "gone"}]
  /\ silent \subseteq Stt /\ asked \subseteq Stt /\ lost \subseteq Stt

SpeechInit ==
  /\ prepared = {} /\ sessions = {} /\ closing = {}
  /\ age = [s \in Stt |-> 0] /\ start = [s \in Stt |-> "new"]
  /\ sweep = [w \in Sweepers |-> NoSweep] /\ watchdog = "off"
  /\ bot = [s \in Stt |-> "none"]
  /\ silent = {} /\ asked = {} /\ lost = {}

Expired(s) == age[s] > Timeout

-----------------------------------------------------------------------------
prepare_speech_session(s) ==
  /\ start[s] = "new"
  /\ start' = [start EXCEPT ![s] = "known"]
  /\ prepared' = prepared \cup {s}
  /\ age' = [age EXCEPT ![s] = 0]
  /\ UNCHANGED <<sessions, sweep, watchdog, closing, bot, silent, asked, lost>>

\* Fault: the watchdog makes one sweep and returns.
WatchdogOnce == "off"
WatchdogRests == "asleep"

(***************************************************************************)
(* What follows a sweep.  The watchdog sleeps again.  A start makes sure   *)
(* that there is a watchdog and takes its prepared session before the bot  *)
(* is asked to join; a session that is not prepared any more is refused.   *)
(***************************************************************************)
_ensure_watchdog == watchdog' = IF watchdog \in {"off", "dead"} THEN "asleep" ELSE watchdog

AfterSweep(w, left) ==
  /\ sweep' = [sweep EXCEPT ![w] = NoSweep]
  /\ \/ /\ w = Watchdog
        /\ watchdog' = WatchdogRests
        /\ prepared' = left
        /\ UNCHANGED start
     \/ /\ w # Watchdog
        /\ _ensure_watchdog
        /\ prepared' = left \ {w}
        /\ start' = [start EXCEPT ![w] = IF w \in left THEN "joining" ELSE "known"]
  /\ UNCHANGED sessions

(***************************************************************************)
(* The next expired session of a sweep: its handle is dropped, and then    *)
(* its bot is asked to leave.                                              *)
(***************************************************************************)
SweepNext(w, left, rest) ==
  \E s \in rest :
    /\ sweep' = [sweep EXCEPT ![w] = [at |-> s, todo |-> rest \ {s}]]
    /\ sessions' = sessions \ {s}
    /\ watchdog' = IF w = Watchdog THEN "sweeping" ELSE watchdog
    /\ prepared' = left
    /\ start' = IF w = Watchdog THEN start ELSE [start EXCEPT ![w] = "sweeping"]

Proceed(w, left, rest) ==
  \/ rest = {} /\ AfterSweep(w, left)
  \/ SweepNext(w, left, rest)

(***************************************************************************)
(* A sweep reads the clock once, forgets expired prepared sessions and     *)
(* walks a copy of the table of active ones.                               *)
(***************************************************************************)
sweep_expired_sessions(w) ==
  Proceed(w, {s \in prepared : ~Expired(s)}, {s \in sessions : Expired(s)})

start_session(s) ==
  /\ start[s] = "known"
  /\ sweep_expired_sessions(s)
  /\ UNCHANGED <<age, closing, bot, silent, asked, lost>>

_watchdog_loop ==
  /\ watchdog = "asleep"
  /\ sweep_expired_sessions(Watchdog)
  /\ UNCHANGED <<age, closing, bot, silent, asked, lost>>

\* Agora let the bot leave; the sweep goes on with the next expired session.
SweptBotLeft(w) ==
  /\ sweep[w].at # NoBot
  /\ bot' = [bot EXCEPT ![sweep[w].at] = "gone"]
  /\ Proceed(w, prepared, sweep[w].todo)
  /\ UNCHANGED <<age, closing, silent, asked, lost>>

(***************************************************************************)
(* The leave failed, and _stop_handle raises: nothing above it in a sweep  *)
(* catches, so that the watchdog's task ends and a start is refused for    *)
(* the sake of another session.                                            *)
(***************************************************************************)
SweptBotStayed(w) ==
  /\ sweep[w].at # NoBot
  /\ lost' = lost \cup {sweep[w].at}
  /\ sweep' = [sweep EXCEPT ![w] = NoSweep]
  /\ watchdog' = IF w = Watchdog THEN "dead" ELSE watchdog
  /\ start' = IF w = Watchdog THEN start ELSE [start EXCEPT ![w] = "known"]
  /\ UNCHANGED <<prepared, sessions, age, closing, bot, silent, asked>>

-----------------------------------------------------------------------------
\* Fault: the session of a client that has left meanwhile is not recorded.
JoinedForgetsLeft(s) ==
  /\ start[s] = "joining"
  /\ start' = [start EXCEPT ![s] = "done"]
  /\ bot' = [bot EXCEPT ![s] = "running"]
  /\ sessions' = sessions \cup ({s} \ asked)
  /\ age' = [age EXCEPT ![s] = 0]
  /\ UNCHANGED <<prepared, sweep, watchdog, closing, silent, asked, lost>>

Joined(s) ==
  /\ start[s] = "joining"
  /\ start' = [start EXCEPT ![s] = "done"]
  /\ bot' = [bot EXCEPT ![s] = "running"]
  /\ sessions' = sessions \cup {s}
  /\ age' = [age EXCEPT ![s] = 0]
  /\ UNCHANGED <<prepared, sweep, watchdog, closing, silent, asked, lost>>

\* The join was refused, or its answer never came and a bot runs unknown.
JoinFailed(s) ==
  /\ start[s] = "joining"
  /\ start' = [start EXCEPT ![s] = "known"]
  /\ \/ UNCHANGED <<bot, lost>>
     \/ bot' = [bot EXCEPT ![s] = "running"] /\ lost' = lost \cup {s}
  /\ UNCHANGED <<prepared, sessions, age, sweep, watchdog, closing, silent, asked>>

\* Fault: a heartbeat replaces the handle, and the copy a sweep walks keeps the old one.
HeartbeatReplaces(s) ==
  /\ s \in sessions \ silent
  /\ age' = [age EXCEPT ![s] = 0]
  /\ UNCHANGED <<prepared, sessions, start, sweep, watchdog, closing, bot, silent, asked, lost>>

(***************************************************************************)
(* A heartbeat stamps the handle itself, which a sweep under way holds     *)
(* too: measured from that sweep's earlier clock the session is young.     *)
(***************************************************************************)
heartbeat_session(s) ==
  /\ s \in sessions \ silent
  /\ age' = [age EXCEPT ![s] = 0]
  /\ sweep' = [w \in Sweepers |-> [sweep[w] EXCEPT !.todo = @ \ {s}]]
  /\ UNCHANGED <<prepared, sessions, start, watchdog, closing, bot, silent, asked, lost>>

\* The handle is dropped first, and then the bot is asked to leave.
EndSession(s) ==
  /\ start[s] = "done" /\ s \in sessions
  /\ asked' = asked \cup {s}
  /\ sessions' = sessions \ {s}
  /\ closing' = closing \cup {s}
  /\ UNCHANGED <<prepared, age, start, sweep, watchdog, bot, lost>>

\* The page leaves and is not heard of again; a stop may come from a page that stays.
leave_session(s)       == EndSession(s) /\ silent' = silent \cup {s}
stop_speech_session(s) == EndSession(s) /\ UNCHANGED silent

LeaveEnds(s) ==
  /\ s \in closing
  /\ closing' = closing \ {s}
  /\ \/ bot' = [bot EXCEPT ![s] = "gone"] /\ UNCHANGED lost
     \/ lost' = lost \cup {s} /\ UNCHANGED bot
  /\ UNCHANGED <<prepared, sessions, age, start, sweep, watchdog, silent, asked>>

\* A client that knows only the prepared session leaves, perhaps while the bot joins.
leave_prepared(s) ==
  /\ start[s] # "new" /\ start[s] # "done" /\ s \notin asked
  /\ asked' = asked \cup {s} /\ silent' = silent \cup {s}
  /\ prepared' = prepared \ {s}
  /\ UNCHANGED <<sessions, age, start, sweep, watchdog, closing, bot, lost>>

\* The browser is closed or loses its network.
FallSilent(s) ==
  /\ start[s] # "new" /\ s \notin silent
  /\ silent' = silent \cup {s}
  /\ UNCHANGED <<prepared, sessions, age, start, sweep, watchdog, closing, bot, asked, lost>>

Tick ==
  /\ \E s \in prepared \cup sessions : ~Expired(s)
  /\ age' = [s \in Stt |-> IF s \in prepared \cup sessions /\ ~Expired(s) THEN age[s] + 1 ELSE age[s]]
  /\ UNCHANGED <<prepared, sessions, start, sweep, watchdog, closing, bot, silent, asked, lost>>

SpeechNext ==
  \/ \E s \in Stt : \/ prepare_speech_session(s) \/ start_session(s) \/ Joined(s) \/ JoinFailed(s)
                    \/ heartbeat_session(s) \/ leave_session(s) \/ stop_speech_session(s) \/ LeaveEnds(s)
                    \/ leave_prepared(s) \/ FallSilent(s)
  \/ _watchdog_loop
  \/ \E w \in Sweepers : SweptBotLeft(w) \/ SweptBotStayed(w)
  \/ Tick

SpeechSpec == SpeechInit /\ [][SpeechNext]_speechVars

(***************************************************************************)
(* Time passes, the event loop wakes the sleeping watchdog, and every call *)
(* to Agora ends, as the HTTP client has a timeout.                        *)
(***************************************************************************)
FairSpec ==
  /\ SpeechSpec
  /\ WF_speechVars(Tick)
  /\ WF_speechVars(_watchdog_loop)
  /\ \A w \in Sweepers : WF_speechVars(SweptBotLeft(w) \/ SweptBotStayed(w))

-----------------------------------------------------------------------------
(***************************************************************************)
(* No bot runs behind the connector's back: whatever order joins, leaves   *)
(* and sweeps come in, a running bot has a handle, or a leave on its way,  *)
(* or its own join or leave failed (stt_service.py, start_session,         *)
(* leave_session and sweep_expired_sessions).                              *)
(***************************************************************************)
BotsAreKnown ==
  \A s \in Stt : bot[s] = "running" =>
    s \in sessions \cup closing \cup lost \/ \E w \in Sweepers : sweep[w].at = s

(***************************************************************************)
(* A session in use is not stopped: a handle goes only when its client     *)
(* asked for it, or when no heartbeat came for the whole timeout, although *)
(* a sweep decides on a clock it read before its earlier leaves.           *)
(***************************************************************************)
OnlySilentAreSwept ==
  [][\A s \in sessions \ sessions' : s \in asked' \/ Expired(s)]_speechVars

(***************************************************************************)
(* A session whose client fell silent is ended by the watchdog, unless the *)
(* watchdog itself died of a leave that failed (_watchdog_loop).           *)
(***************************************************************************)
SilentIsStopped ==
  \A s \in Stt : s \in sessions \cap silent ~> s \notin sessions \/ watchdog = "dead"
=============================================================================
