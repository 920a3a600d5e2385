-------------------------- MODULE ThreadTimeline --------------------------
(***************************************************************************)
(* The Bro Detail timeline of one Codex thread, as the runtime assembles   *)
(* it from three unordered sources:                                        *)
(*                                                                         *)
(*   channel A   codex_turn_event messages of the turns that this session  *)
(*               started itself (one outbound turn request each);          *)
(*   channel B   the raw thread events of the selected subscription;       *)
(*   pages       native history, read at the node and applied later.       *)
(*                                                                         *)
(* Each channel is FIFO; they are written by different tasks of the node   *)
(* and interleave freely.  A turn is a sequence of items (its script);     *)
(* texts are abstracted to what the timeline may confuse: commentary, a    *)
(* partial answer, the final answer, a generic completion and an error.    *)
(***************************************************************************)
EXTENDS Naturals, Sequences, FiniteSets, SequencesExt

CONSTANTS
    Requests,     \* outbound turn requests (also their client request ids)
    Typed,        \* bound: the requests a user types; the others only answer plans
    MaxTurns,     \* bound: Codex turns, numbered in the order they begin
    Nil,          \* "no request", "no turn", "no message"
    Scripts,      \* turn -> the item sequences it may produce
    MaxPages,     \* bound: history pages requested
    MaxGaps,      \* bound: subscriptions replaced and connections lost
    MaxLag        \* bound: messages waiting on either channel

Turns == 1..MaxTurns

Kinds == {"user", "commentary", "final", "plan", "blocked"}

\* The final answer is the last that a turn says or asks (its phase is
\* "final_answer"); a plan item may still follow it.
ASSUME ScriptsAssumption ==
    /\ Typed \subseteq Requests /\ MaxTurns \in Nat
    /\ \A x \in Turns : Scripts[x] \subseteq Seq(Kinds)
    /\ \A x \in Turns : \A s \in Scripts[x] : \A i, j \in DOMAIN s :
          i < j /\ s[i] = "final" => s[j] \in {"user", "plan"}

\* Nothing that a field may hold is mistaken for its absence.
ASSUME NilAssumption ==
    /\ Nil \notin Requests /\ Nil \notin Turns
    /\ Nil \notin {"commentary", "partial", "final", "generic", "error", "running", "completed", "failed"}

VARIABLES
    req,      \* request -> its record in the blackboard
    starter,  \* request -> where DirectTurnStarter.start_turn is
    cx,       \* turn -> what the Codex app-server has done of it
    stream,   \* turn -> the generator that serves channel A
    chanA, chanB,
    sub,      \* the node streams the thread (channel B)
    phase,    \* bro_thread_live_item_phase
    turns,    \* bro_thread_executor_turns of the thread, in order
    page,     \* the history page request under way
    ask,      \* request -> its interaction request
    online, cmd, \* the node is connected; start commands on their way to it
    gaps, pages,
    missed,   \* history: turns with an event channel B did not carry
    told,     \* history: turn -> some source has delivered its end
    stale     \* history: turns a page read in flight was applied to last
timelineVars == <<req, starter, cx, stream, chanA, chanB, sub, phase, turns, page,
          ask, online, cmd, gaps, pages, missed, told, stale>>

Streaming == {"running"}
Terminal  == {"completed", "failed", "cancelled"}
NoAnswer  == [text |-> Nil, st |-> Nil]
Answer(text, st) == [text |-> text, st |-> st]

-----------------------------------------------------------------------------
(* Merging: bro_detail_thread_helpers.py.                                  *)

\* A timeline turn; src is metadata.source, plan whether codex_plan is set.
Turn(id, client, x, user, asst, status, src, plan) ==
    [id |-> id, client |-> client, exec |-> x, user |-> user, asst |-> asst,
     status |-> status, src |-> src, plan |-> plan]

Or(a, b) == IF a # Nil THEN a ELSE b

\* Truly settled: failed, or completed with an answer that is not streaming.
ExistingSettled(t) ==
    \/ t.status \in {"failed", "cancelled"}
    \/ t.status = "completed" /\ t.asst # NoAnswer /\ t.asst.st \notin Streaming

\* Fault: the first answer seen is kept.
MergedAnswerFirst(old, new) ==
    IF old.asst # NoAnswer THEN old.asst ELSE new.asst

\* Fault: a late streaming echo replaces the answer of a settled turn.
MergedAnswerIgnoresSettled(old, new) ==
    IF new.asst = NoAnswer THEN old.asst ELSE new.asst

MergedAnswer(old, new) ==
    IF \/ new.asst = NoAnswer
       \/ ExistingSettled(old) /\ new.asst.st \in Streaming
    THEN old.asst ELSE new.asst

MergedStatus(old, new) ==
    LET asst   == MergedAnswer(old, new)
        moves  == old.status \in {"pending", "running"} /\ new.status # "pending"
        status == CASE ~moves                                        -> old.status
                    [] moves /\ new.status = "completed" /\ asst = NoAnswer -> "running"
                    [] OTHER                                         -> new.status
    IN  IF /\ ~ExistingSettled(old)
           /\ status \notin {"failed", "cancelled"}
           /\ asst.st \in Streaming
        THEN "running" ELSE status

_merge_timeline_turn(old, new) ==
    Turn(old.id, Or(old.client, new.client), Or(old.exec, new.exec),
         old.user \/ new.user, MergedAnswer(old, new), MergedStatus(old, new),
         new.src, old.plan \/ new.plan)

\* upsert_bro_thread_executor_turn: same turn id, or same executor turn.
SameTurn(old, new) == old.id = new.id \/ (new.exec # Nil /\ old.exec = new.exec)

upsert(ts, new) ==
    LET same == {i \in 1..Len(ts) : SameTurn(ts[i], new)}
        i    == CHOOSE k \in same : \A m \in same : k <= m
    IN  IF same = {} THEN Append(ts, new)
        ELSE [ts EXCEPT ![i] = _merge_timeline_turn(@, new)]

\* The list after the turns news, one after the other.
Merged(ts, news) ==
    LET after[i \in 0..Len(news)] ==
            IF i = 0 THEN ts ELSE upsert(after[i - 1], news[i])
    IN  after[Len(news)]

\* _build_bro_timeline_projection without task turns: what clients are sent.
\* A turn joins the first earlier one with its client id, else its identity.
ProjectOne(out, t) ==
    LET byClient == {i \in 1..Len(out) : t.client # Nil /\ out[i].client = t.client}
        byExec   == {i \in 1..Len(out) : t.exec # Nil /\ out[i].exec = t.exec}
        join     == IF byClient # {} THEN byClient ELSE byExec
        i        == CHOOSE k \in join : TRUE
    IN  IF join = {} THEN Append(out, t)
        ELSE [out EXCEPT ![i] = _merge_timeline_turn(@, t)]
Projection ==
    LET out[i \in 0..Len(turns)] ==
            IF i = 0 THEN <<>> ELSE ProjectOne(out[i - 1], turns[i])
    IN  out[Len(turns)]

-----------------------------------------------------------------------------
(* The Codex app-server and the node.                                      *)

\* The events an item of each kind is announced with.
Stages(kind) ==
    CASE kind = "user"                       -> <<"done">>
      [] kind \in {"commentary", "final"}    -> <<"start", "delta", "done">>
      [] kind = "plan"                       -> <<"delta", "done">>
      [] kind = "blocked"                    -> <<"ask">>

Over(x)    == cx[x].pos > Len(cx[x].script)
Kind(x)    == cx[x].script[cx[x].pos]
Waiting(x) == cx[x].st = "waiting"

\* The next event of turn x; its last one is turn/completed, which comes
\* early when the turn fails.
Event(x, st) ==
    IF Over(x) \/ st = "failed" THEN [x |-> x, i |-> 0, kind |-> "turn", ev |-> "end"]
    ELSE [x |-> x, i |-> cx[x].pos, kind |-> Kind(x), ev |-> Stages(Kind(x))[cx[x].stage]]

Advance(c, st) ==
    IF c.pos > Len(c.script) \/ st = "failed" THEN [c EXCEPT !.st = st]
    ELSE IF c.stage < Len(Stages(c.script[c.pos])) THEN [c EXCEPT !.stage = @ + 1]
    ELSE [c EXCEPT !.pos = @ + 1, !.stage = 1,
                   !.st = IF c.script[c.pos] = "blocked" THEN "waiting" ELSE @]

MsgA(q, type, text, x) == [q |-> q, type |-> type, text |-> text, exec |-> x]

\* _stream_turn_events: what one event adds to channel A.  Progress and plan
\* deltas are throttled by their length, here a choice; the text of a whole
\* item differs from what its deltas sent.
AnswersTo(e, st) ==
    LET q == cx[e.x].q IN
    CASE e.kind = "commentary" /\ e.ev = "delta" -> {<<>>, <<MsgA(q, "progress", "commentary", e.x)>>}
      [] e.kind = "commentary" /\ e.ev = "done"  -> {<<MsgA(q, "progress", "commentary", e.x)>>}
      [] e.kind = "plan" /\ e.ev = "delta"       -> {<<>>, <<MsgA(q, "plan", "plan", e.x)>>}
      [] e.kind = "plan" /\ e.ev = "done"        ->
            {<<MsgA(q, "plan", "plan", e.x)>>
               \o IF req[q].plan THEN <<MsgA(q, "proposal", "plan", e.x)>> ELSE <<>>}
      [] e.kind = "blocked"                      -> {<<MsgA(q, "blocked", "question", e.x)>>}
      [] e.kind = "turn" /\ st = "completed"     ->
            {<<MsgA(q, "completed", Or(stream[e.x].last, "generic"), e.x)>>}
      [] e.kind = "turn" /\ st = "failed"        -> {<<MsgA(q, "failed", "error", e.x)>>}
      [] OTHER                                   -> {<<>>}

\* The generator ends with the turn, and after a plan proposal of plan mode.
StreamAfter(e, s) ==
    [open |-> /\ s.open
              /\ e.kind # "turn"
              /\ ~(e.kind = "plan" /\ e.ev = "done" /\ req[cx[e.x].q].plan),
     last |-> IF e.ev = "done" /\ e.kind \in {"commentary", "final"} THEN e.kind ELSE s.last]

\* _route_app_event: one event goes to the turn's queue and to the thread's
\* subscription, when there is one.
AppStep(x, st) ==
    /\ cx[x].st = "running" /\ Len(chanA) < MaxLag /\ Len(chanB) < MaxLag
    /\ LET e == Event(x, st) IN
       /\ cx' = [cx EXCEPT ![x] = Advance(@, st)]
       /\ IF stream[x].open
          THEN /\ \E ms \in AnswersTo(e, st) : chanA' = chanA \o ms
               /\ stream' = [stream EXCEPT ![x] = StreamAfter(e, @)]
          ELSE UNCHANGED <<chanA, stream>>
       /\ IF sub /\ e.kind # "blocked"
          THEN chanB' = Append(chanB, e) /\ UNCHANGED missed
          ELSE /\ missed' = IF e.kind = "blocked" THEN missed ELSE missed \union {x}
               /\ UNCHANGED chanB
    /\ UNCHANGED <<req, starter, sub, phase, turns, page, ask, online, cmd, gaps, pages, told, stale>>

\* A turn begins in the app-server, which runs one at a time on a thread:
\* script s, started for request q, or by another client of the app-server.
Begins(x, q, s) ==
    /\ cx[x].st = "idle"
    /\ \A y \in Turns : cx[y].st \notin {"running", "waiting"} /\ (y < x => cx[y].st # "idle")
    /\ cx' = [cx EXCEPT ![x] = [q |-> q, script |-> s, pos |-> 1, stage |-> 1, st |-> "running"]]

\* start_turn_request: the turn starts, and the first progress event says so;
\* then the generator listens (events before that wait in the backlog).
start_turn_request(q, x, s) ==
    /\ q \in cmd
    /\ Begins(x, q, s)
    /\ cmd' = cmd \ {q}
    /\ stream' = [stream EXCEPT ![x] = [open |-> TRUE, last |-> Nil]]
    /\ chanA' = Append(chanA, MsgA(q, "progress", "sent", x))
    /\ UNCHANGED <<req, starter, chanB, sub, phase, turns, page, ask, online, gaps, pages, missed, told, stale>>

\* thread/resume or turn/start raises: a failure with no executor turn.
TurnNotStarted(q) ==
    /\ q \in cmd
    /\ cmd' = cmd \ {q}
    /\ chanA' = Append(chanA, MsgA(q, "failed", "error", Nil))
    /\ UNCHANGED <<req, starter, cx, stream, chanB, sub, phase, turns, page, ask, online, gaps, pages, missed, told, stale>>

\* A turn of another client of the same app-server.
ForeignTurn(x, s) ==
    /\ Begins(x, Nil, s)
    /\ UNCHANGED <<req, starter, stream, chanA, chanB, sub, phase, turns, page, ask, online, cmd, gaps, pages, missed, told, stale>>

\* wait_for_blocked_resolution times out: the generator gives up.
BlockedTimesOut(x) ==
    /\ Waiting(x) /\ stream[x].open
    /\ stream' = [stream EXCEPT ![x].open = FALSE]
    /\ chanA' = Append(chanA, MsgA(cx[x].q, "failed", "error", x))
    /\ UNCHANGED <<req, starter, cx, chanB, sub, phase, turns, page, ask, online, cmd, gaps, pages, missed, told, stale>>

-----------------------------------------------------------------------------
(* The runtime: outbound requests and channel A.                           *)

\* submit_text_instruction and DirectTurnStarter.start_turn up to the awaited send.
start_turn(q, planMode) ==
    /\ starter[q] = "idle" /\ online
    /\ starter' = [starter EXCEPT ![q] = "sending"]
    /\ req' = [req EXCEPT ![q] = [st |-> "pending", exec |-> Nil, plan |-> planMode]]
    /\ cmd' = cmd \union {q}

submit_text_instruction(q) ==
    /\ q \in Typed
    /\ start_turn(q, FALSE) \/ start_turn(q, TRUE)
    /\ UNCHANGED <<cx, stream, chanA, chanB, sub, phase, turns, page, ask, online, gaps, pages, missed, told, stale>>

\* The send has returned: the record made before it is written back, with
\* "failed" if the connection broke under it.
StartReturns(q) ==
    /\ starter[q] \in {"sending", "broken"}
    /\ \E st \in {"accepted"} \union (IF starter[q] = "broken" THEN {"failed"} ELSE {}) :
          req' = [req EXCEPT ![q].st = st, ![q].exec = Nil]
    /\ starter' = [starter EXCEPT ![q] = "returned"]
    /\ UNCHANGED <<cx, stream, chanA, chanB, sub, phase, turns, page, ask, online, cmd, gaps, pages, missed, told, stale>>

EventStatus(type) ==
    IF type \in {"completed", "failed"} THEN type ELSE "running"

\* Fault: the turn is not tied to the executor's turn.
TurnOfEventUntied(m, x) ==
    LET st == EventStatus(m.type) IN
    Turn(<<"outbound", m.q>>, m.q, Nil, TRUE,
         IF st = "running" THEN NoAnswer ELSE Answer(m.text, st), st, "turn_event", m.type = "plan")

\* _bro_timeline_turn_from_codex_turn_event
TurnOfEvent(m, x) ==
    LET st == EventStatus(m.type) IN
    Turn(<<"outbound", m.q>>, m.q, x, TRUE,
         IF st = "running" THEN NoAnswer ELSE Answer(m.text, st), st, "turn_event", m.type = "plan")

handle_codex_turn_event ==
    /\ chanA # <<>>
    /\ LET m == Head(chanA)
           x == Or(m.exec, req[m.q].exec)
       IN  /\ req' = [req EXCEPT ![m.q].st = EventStatus(m.type), ![m.q].exec = x]
           /\ turns' = upsert(turns, TurnOfEvent(m, x))
           /\ ask' = IF m.type \in {"blocked", "proposal"} /\ ask[m.q] # "pending"
                     THEN [ask EXCEPT ![m.q] = "pending"] ELSE ask
           /\ told' = IF m.type \in {"completed", "failed"} /\ x # Nil
                      THEN [told EXCEPT ![x] = TRUE] ELSE told
           /\ stale' = IF m.type \in {"completed", "failed"} THEN stale \ {x} ELSE stale
    /\ chanA' = Tail(chanA)
    /\ UNCHANGED <<starter, cx, stream, chanB, sub, phase, page, online, cmd, gaps, pages, missed>>

\* The turn whose generator or app-server request is waiting for an answer.
AskedBy(q) == {x \in Turns : cx[x].q = q /\ Waiting(x)}

\* resolve_interaction_request, native: the answer is sent to the node and
\* recorded as a turn of its own.  The node delivers it while the request's
\* session is active (_supply_interaction_response).
resolve_interaction_request(q) ==
    /\ ask[q] = "pending" /\ online
    /\ \E x \in Turns : cx[x].q = q /\ "blocked" \in Range(cx[x].script)
    /\ ask' = [ask EXCEPT ![q] = "resolved"]
    /\ turns' = upsert(turns, Turn(<<"answer", q>>, Nil, Nil, TRUE, NoAnswer, "completed", "answer", FALSE))
    /\ cx' = [x \in Turns |-> IF x \in AskedBy(q) /\ stream[x].open
                             THEN [cx[x] EXCEPT !.st = "running"] ELSE cx[x]]
    /\ UNCHANGED <<req, starter, stream, chanA, chanB, sub, phase, page, online, cmd, gaps, pages, missed, told, stale>>

\* The answer to a plan proposal is a new outbound turn.
spawn_outbound_follow_up(q, q2, action) ==
    /\ ask[q] = "pending"
    /\ \E x \in Turns : cx[x].q = q /\ "blocked" \notin Range(cx[x].script)
    /\ ask' = [ask EXCEPT ![q] = "resolved"]
    /\ start_turn(q2, action # "approve")
    /\ UNCHANGED <<cx, stream, chanA, chanB, sub, phase, turns, page, online, gaps, pages, missed, told, stale>>

-----------------------------------------------------------------------------
(* The runtime: channel B, apply_codex_thread_timeline_event.              *)

IsCommentary(x, i, ph) == <<x, i, "commentary">> \in ph

EventTurn(x, user, asst, status, plan) ==
    Turn(<<"codex", x>>, Nil, x, user, asst, status, "thread_event", plan)

\* _keep_selected_thread_turn_live
keep_live(x) == EventTurn(x, FALSE, NoAnswer, "running", FALSE)

\* pop_selected_thread_pending_user_turn: the last user-only turn before a plan.
PendingUser(x) ==
    {i \in 1..Len(turns) :
        /\ turns[i].exec \notin {Nil, x}
        /\ turns[i].user /\ turns[i].asst = NoAnswer
        /\ turns[i].src = "thread_event" /\ ~turns[i].plan}

apply_plan(x) ==
    LET i == CHOOSE k \in PendingUser(x) : \A m \in PendingUser(x) : m <= k
    IN  IF PendingUser(x) = {}
        THEN upsert(turns, EventTurn(x, FALSE, NoAnswer, "completed", TRUE))
        ELSE upsert(RemoveAt(turns, i), EventTurn(x, TRUE, NoAnswer, "completed", TRUE))

\* settle_selected_thread_turn, on turn/completed whatever its status.
settle(x) ==
    [i \in DOMAIN turns |->
        IF turns[i].exec = x /\ turns[i].status \notin Terminal
        THEN [turns[i] EXCEPT !.status = "completed",
                              !.asst.st = IF @ \in Streaming THEN "completed" ELSE @]
        ELSE turns[i]]

\* Fault: the phase is recorded when the item is complete.
PhasesAfterDone(e) ==
    IF e.ev = "done" /\ e.kind \in {"commentary", "final"}
    THEN phase \union {<<e.x, e.i, e.kind>>} ELSE phase

\* The phases known once event e is read: deltas carry none.
PhasesAfter(e) ==
    IF e.ev \in {"start", "done"} /\ e.kind \in {"commentary", "final"}
    THEN phase \union {<<e.x, e.i, e.kind>>} ELSE phase

\* The set of lists the event may leave (a plan delta may be held back).
Applied(e) ==
    LET commentary == IsCommentary(e.x, e.i, PhasesAfter(e))
        message    == e.kind \in {"commentary", "final"}
    IN
    CASE e.ev = "end"                           -> {settle(e.x)}
      [] e.kind = "user"                        -> {upsert(turns, EventTurn(e.x, TRUE, NoAnswer, "running", FALSE))}
      [] e.kind = "plan" /\ e.ev = "done"       -> {apply_plan(e.x)}
      [] e.kind = "plan" /\ e.ev = "delta"      -> {turns, upsert(turns, EventTurn(e.x, FALSE, NoAnswer, "running", TRUE))}
      [] message /\ commentary                  -> {upsert(turns, keep_live(e.x))}
      [] message /\ ~commentary /\ e.ev = "delta" ->
            {upsert(turns, EventTurn(e.x, FALSE,
                Answer(IF e.kind = "final" THEN "partial" ELSE "commentary", "running"), "running", FALSE))}
      [] message /\ ~commentary /\ e.ev = "done"  ->
            {upsert(turns, EventTurn(e.x, FALSE, Answer("final", "completed"), "completed", FALSE))}
      [] OTHER                                  -> {turns}

apply_codex_thread_timeline_event ==
    /\ chanB # <<>>
    /\ LET e == Head(chanB) IN
       /\ phase' = PhasesAfter(e)
       /\ turns' \in Applied(e)
       /\ told' = IF e.ev = "end" /\ e.x \notin missed THEN [told EXCEPT ![e.x] = TRUE] ELSE told
       /\ stale' = IF e.kind = "final" /\ e.ev = "done" THEN stale \ {e.x} ELSE stale
    /\ chanB' = Tail(chanB)
    /\ UNCHANGED <<req, starter, cx, stream, chanA, sub, page, ask, online, cmd, gaps, pages, missed>>

-----------------------------------------------------------------------------
(* The runtime: history pages.                                             *)

\* What native history shows of turn x: its items so far, the one in flight
\* included, with its phase but no status of its own.
Seen(x) == {i \in 1..Len(cx[x].script) : i < cx[x].pos \/ (i = cx[x].pos /\ cx[x].stage > 1)}
Shown(x, kind) == {i \in Seen(x) : cx[x].script[i] = kind}

HistoryOf(x) ==
    [x     |-> x,
     user  |-> Shown(x, "user") # {},
     asst  |-> IF Shown(x, "final") = {} THEN NoAnswer
               ELSE Answer(IF cx[x].pos \in Shown(x, "final") THEN "partial" ELSE "final", "completed"),
     plan  |-> Shown(x, "plan") # {},
     agent |-> Shown(x, "commentary") \union Shown(x, "final") # {},
     status |-> IF cx[x].st = "waiting" THEN "running" ELSE cx[x].st,
     phases |-> {<<x, i, cx[x].script[i]>> : i \in Shown(x, "commentary") \union Shown(x, "final")}]

History == [x \in 1..Cardinality({y \in Turns : cx[y].st # "idle"}) |-> HistoryOf(x)]

HistoryTurn(x, user, asst, status, plan) ==
    Turn(<<"codex", x>>, Nil, x, user, asst, status, "native_history", plan)

\* append_user_only_turn: a user message nothing answered counts as completed.
UserOnly(pend) ==
    IF pend = Nil THEN <<>> ELSE <<HistoryTurn(pend, TRUE, NoAnswer, "completed", FALSE)>>

\* One turn of _timeline_turns_from_codex_thread; pend is a user-only turn
\* that waits to be paired with the next answer or plan.
FromHistory(acc, h) ==
    LET answered == h.asst # NoAnswer \/ h.plan
        nothing  == ~h.user /\ ~answered
        userOnly == h.user /\ ~answered /\ ~h.agent
        paired   == answered /\ ~h.user /\ acc.pend # Nil
        flush    == ~paired /\ h.agent
        turn     == HistoryTurn(h.x, h.user \/ paired, h.asst, h.status, h.plan)
    IN  CASE nothing  -> acc
          [] userOnly -> [out |-> acc.out \o UserOnly(acc.pend), pend |-> h.x]
          [] OTHER    -> [out  |-> Append(acc.out \o (IF flush THEN UserOnly(acc.pend) ELSE <<>>), turn),
                          pend |-> IF paired \/ flush THEN Nil ELSE acc.pend]

_timeline_turns_from_codex_thread(hs) ==
    LET acc[i \in 0..Len(hs)] ==
            IF i = 0 THEN [out |-> <<>>, pend |-> Nil] ELSE FromHistory(acc[i - 1], hs[i])
        all == acc[Len(hs)]
    IN  all.out \o UserOnly(all.pend)

\* The page applied withdraws the answer of turn x: it was read in flight.
Overtakes(x) ==
    page.at = "read" /\ x <= Len(page.turns) /\ page.turns[x].status = "running"

NoPage == [at |-> "none", turns |-> <<>>]

\* list_bro_timeline_page up to its awaited request.
list_bro_timeline_page ==
    /\ page = NoPage /\ online /\ pages < MaxPages
    /\ page' = [at |-> "asked", turns |-> <<>>]
    /\ pages' = pages + 1
    /\ UNCHANGED <<req, starter, cx, stream, chanA, chanB, sub, phase, turns, ask, online, cmd, gaps, missed, told, stale>>

\* The node reads the history; the answer travels beside both channels.
PageRead ==
    /\ page.at = "asked" /\ online
    /\ page' = [at |-> "read", turns |-> History]
    /\ UNCHANGED <<req, starter, cx, stream, chanA, chanB, sub, phase, turns, ask, online, cmd, gaps, pages, missed, told, stale>>

\* The rest of list_bro_timeline_page, without an await: seed the phases,
\* merge every turn of the page.
PageArrives ==
    /\ page.at = "read"
    /\ phase' = phase \union UNION {page.turns[i].phases : i \in DOMAIN page.turns}
    /\ turns' = Merged(turns, _timeline_turns_from_codex_thread(page.turns))
    /\ told' = [x \in Turns |-> told[x] \/ (x \in DOMAIN page.turns /\ ~Overtakes(x))]
    /\ stale' = {x \in Turns : Overtakes(x) \/ (x \in stale /\ x \notin DOMAIN page.turns)}
    /\ page' = NoPage
    /\ UNCHANGED <<req, starter, cx, stream, chanA, chanB, sub, ask, online, cmd, gaps, pages, missed>>

-----------------------------------------------------------------------------
(* Subscription and connection (see ThreadSubscriptions).                  *)

Unheard == missed \union {chanB[i].x : i \in DOMAIN chanB}

Select ==
    /\ ~sub /\ online
    /\ sub' = TRUE
    /\ UNCHANGED <<req, starter, cx, stream, chanA, chanB, phase, turns, page, ask, online, cmd, gaps, pages, missed, told, stale>>

\* Events of a replaced subscription are ignored by their subscription id.
Deselect ==
    /\ sub /\ gaps < MaxGaps
    /\ sub' = FALSE /\ gaps' = gaps + 1
    /\ missed' = Unheard /\ chanB' = <<>>
    /\ UNCHANGED <<req, starter, cx, stream, chanA, phase, turns, page, ask, online, cmd, pages, told, stale>>

\* The websocket is lost with what was on it; the node cancels its streams,
\* the page request fails.
ConnectionLost ==
    /\ online /\ gaps < MaxGaps
    /\ online' = FALSE /\ gaps' = gaps + 1
    /\ sub' = FALSE /\ missed' = Unheard
    /\ chanA' = <<>> /\ chanB' = <<>> /\ cmd' = {} /\ page' = NoPage
    /\ stream' = [x \in Turns |-> [stream[x] EXCEPT !.open = FALSE]]
    /\ starter' = [q \in Requests |->
                     IF starter[q] = "sending" /\ q \in cmd THEN "broken" ELSE starter[q]]
    /\ UNCHANGED <<req, cx, phase, turns, ask, pages, told, stale>>

Reconnected ==
    /\ ~online /\ online' = TRUE
    /\ UNCHANGED <<req, starter, cx, stream, chanA, chanB, sub, phase, turns, page, ask, cmd, gaps, pages, missed, told, stale>>

-----------------------------------------------------------------------------
TimelineInit ==
    /\ req = [q \in Requests |-> [st |-> "none", exec |-> Nil, plan |-> FALSE]]
    /\ starter = [q \in Requests |-> "idle"]
    /\ cx = [x \in Turns |-> [q |-> Nil, script |-> <<>>, pos |-> 1, stage |-> 1, st |-> "idle"]]
    /\ stream = [x \in Turns |-> [open |-> FALSE, last |-> Nil]]
    /\ chanA = <<>> /\ chanB = <<>> /\ sub = FALSE /\ phase = {} /\ turns = <<>>
    /\ page = NoPage /\ ask = [q \in Requests |-> "none"] /\ online = TRUE /\ cmd = {}
    /\ gaps = 0 /\ pages = 0
    /\ missed = {} /\ told = [x \in Turns |-> FALSE] /\ stale = {}

TimelineNext ==
    \/ \E q \in Requests :
          \/ submit_text_instruction(q) \/ StartReturns(q) \/ TurnNotStarted(q) \/ resolve_interaction_request(q)
          \/ \E x \in Turns : \E s \in Scripts[x] : start_turn_request(q, x, s)
          \/ \E q2 \in Requests, action \in {"approve", "revise"} : spawn_outbound_follow_up(q, q2, action)
    \/ \E x \in Turns :
          \/ \E st \in {"completed", "failed"} : AppStep(x, st)
          \/ \E s \in Scripts[x] : ForeignTurn(x, s)
          \/ BlockedTimesOut(x)
    \/ handle_codex_turn_event \/ apply_codex_thread_timeline_event
    \/ list_bro_timeline_page \/ PageRead \/ PageArrives
    \/ Select \/ Deselect \/ ConnectionLost \/ Reconnected

TimelineSpec == TimelineInit /\ [][TimelineNext]_timelineVars

-----------------------------------------------------------------------------
Bubbles == {Projection[i] : i \in DOMAIN Projection}

\* Clients are sent at most one bubble for a Codex turn and the request that
\* started it, in whatever order the channels and pages introduced them.
OneBubblePerTurn ==
    LET shown == Projection IN
    \A x \in Turns :
        Cardinality({i \in DOMAIN shown :
            shown[i].exec = x \/ (cx[x].q # Nil /\ shown[i].client = cx[x].q)}) <= 1

\* docs/protocol/codex-turn-streaming.md, invariant 2, as far as the code keeps
\* it: while a turn runs and channel B has carried all its events, commentary
\* is never in its answer slot.
CommentaryIsNoAnswer ==
    \A b \in Bubbles :
        b.status = "running" /\ b.exec \notin missed => b.asst.text # "commentary"

Rest == chanA = <<>> /\ chanB = <<>> /\ page = NoPage

\* However the sources interleaved: once they are drained, and one of them has
\* delivered the end of a turn with a final answer (and no page read before
\* that end came after it), the turn is completed and shows that answer.
AnswerAtRest ==
    \A x \in Turns :
        Rest /\ told[x] /\ x \notin stale /\ cx[x].st = "completed" /\ "final" \in Range(cx[x].script)
          => \E b \in Bubbles :
                b.exec = x /\ b.status = "completed" /\ b.asst = Answer("final", "completed")

Settled(x) ==
    \E b \in Bubbles : b.exec = x /\ b.status = "completed" /\ b.asst.text = "final"

\* The report that turn x failed is handled next: its error text becomes the
\* answer, also of a turn that had given its final answer before it failed.
FailureNext(x) ==
    chanA # <<>> /\ Head(chanA).type = "failed" /\ Or(Head(chanA).exec, req[Head(chanA).q].exec) = x

\* Invariant 1: a turn that has settled on its final answer stays settled, but
\* for two steps: a page arrives that was read while the turn was in flight, or
\* the app-server's own report that the turn failed after its answer is handled.
SettledStays ==
    [][\A x \in Turns :
          /\ Settled(x)
          /\ ~(page' # page /\ Overtakes(x))
          /\ ~(FailureNext(x) /\ chanA' = Tail(chanA))
          => Settled(x)']_timelineVars

=============================================================================
