-------------------------- MODULE RunInstructions --------------------------
(***************************************************************************)
(* Text and audio instructions for a thread of a bro while its runs work.  *)
(* The server sends an instruction to the thread's active run, or starts a *)
(* turn for it; the executor node reads one command after the other and    *)
(* carries out instructions, cancellations and answers before it reads the *)
(* next one.  A Codex run and its follow-ups share a session, whose lock a *)
(* turn holds to its end, the wait for the user included.  The app server  *)
(* of the sessions may die; the sessions it had are never told.            *)
(*                                                                         *)
(* One run is Codex's and belongs to the thread; the others are runs of    *)
(* acpx on the same node.  Events that do not end the server's reading of  *)
(* a run are left out, and so is the loss of the connection for a reason   *)
(* other than a command that raises at the node.                           *)
(***************************************************************************)
EXTENDS Naturals, Sequences

CONSTANTS Codex,   \* the run of the thread
          Acpx,    \* the other runs of the node
          Texts,   \* the text instructions for the thread
          Audios,  \* the audio instructions for the thread
          None,
          MaxAsks  \* bound: the questions Codex asks

Runs == {Codex} \cup Acpx
Instructions == Texts \cup Audios

ASSUME RunInstructionsAssumption ==
  /\ Codex \notin Acpx /\ Texts \cap Audios = {}
  /\ None \notin Instructions /\ MaxAsks \in Nat

VARIABLES
  connected, \* whether the node is connected
  server,    \* per run: its status on the blackboard
  open,      \* the runs whose queue is registered and read
  inbox,     \* per run: the events in its queue
  asked,     \* Codex's question as the server knows it
  down,      \* the commands sent to the node, in order
  loop,      \* the instruction the node's receive loop carries out, or None
  work,      \* per run: what the node does for it
  known,     \* _active_runs of the executors
  thread,    \* whether the Codex session has a thread id
  asks,      \* the number of questions Codex has asked
  severed,   \* the Codex run, and the turns, whose session had an app server that died
  inst,      \* per instruction: what became of it
  cut        \* history: runs that were cancelled, or failed by an instruction

serverVars == <<connected, server, open, inbox, asked>>
nodeVars == <<loop, work, known, thread, asks, severed>>
vars == <<serverVars, down, nodeVars, inst, cut>>

Command == [cmd: {"run", "cancel", "answer"}, of: Runs]
           \cup [cmd: {"text", "audio", "transcribe", "turn"}, of: Instructions]

TypeOK ==
  /\ connected \in BOOLEAN /\ thread \in BOOLEAN
  /\ server \in [Runs -> {"assigned", "blocked", "completed", "failed", "cancelled",
                          "waiting_executor"}]
  /\ open \subseteq Runs /\ known \subseteq Runs /\ cut \subseteq Runs
  /\ inbox \in [Runs -> Seq({"blocked", "proposal", "completed", "failed", "cancelled",
                             "waiting_executor"})]
  /\ asked \in {"no", "pending", "answered"}
  /\ down \in Seq(Command)
  /\ loop \in Instructions \cup {None}
  /\ work \in [Runs -> {"none", "starting", "opening", "turn", "asking", "told", "ended"}]
  /\ asks \in 0..MaxAsks /\ severed \subseteq {Codex} \cup Instructions
  /\ inst \in [Instructions -> {"new", "sent", "posted", "waiting", "turn", "asking",
                                "hearing", "outbound", "done", "task", "failed",
                                "lost", "refused"}]

\* The acpx runs are at the node, the Codex run is on its way.
Init ==
  /\ connected = TRUE /\ thread \in BOOLEAN
  /\ server = [r \in Runs |-> "assigned"]
  /\ open = Runs /\ inbox = [r \in Runs |-> <<>>] /\ asked = "no"
  /\ down = <<[cmd |-> "run", of |-> Codex]>>
  /\ loop = None /\ known = {} /\ asks = 0 /\ cut = {} /\ severed = {}
  /\ work = [r \in Runs |-> IF r = Codex THEN "none" ELSE "starting"]
  /\ inst = [i \in Instructions |-> "new"]

-----------------------------------------------------------------------------
\* The server

\* Fault: a run that waits for the user takes no instruction.
ActiveUnlessBlocked(r) == server[r] = "assigned"

\* A run that works, or waits for the user, is active.
ActiveRun(r) == server[r] \in {"assigned", "blocked"}

Sent(i, m, s) ==
  /\ down' = Append(down, [cmd |-> m, of |-> i])
  /\ inst' = [inst EXCEPT ![i] = s]

\* The thread's active run gets the text; without one a turn is started for it.
submit_text_instruction(i) ==
  Sent(i, IF ActiveRun(Codex) THEN "text" ELSE "turn", "sent")

\* So does audio, but without an active run the server first has it transcribed.
submit_audio_instruction(i) ==
  IF ActiveRun(Codex) THEN Sent(i, "audio", "sent") ELSE Sent(i, "transcribe", "posted")

\* An instruction for a bro whose node is away is refused.
Refused(i) == inst' = [inst EXCEPT ![i] = "refused"] /\ UNCHANGED down

\* The routes: what they answer is "accepted", or a conflict.
submit_executor_text_instruction(i) ==
  /\ i \in Texts /\ inst[i] = "new"
  /\ IF connected THEN submit_text_instruction(i) ELSE Refused(i)
  /\ UNCHANGED <<serverVars, nodeVars, cut>>

submit_executor_audio_instruction(i) ==
  /\ i \in Audios /\ inst[i] = "new"
  /\ IF connected THEN submit_audio_instruction(i) ELSE Refused(i)
  /\ UNCHANGED <<serverVars, nodeVars, cut>>

\* The transcription takes too long; the node carries the command out all the same.
TranscriptionTimesOut(i) ==
  /\ inst[i] = "posted"
  /\ inst' = [inst EXCEPT ![i] = "refused"]
  /\ UNCHANGED <<serverVars, down, nodeVars, cut>>

\* The node is told only of a run that is still read.
cancel_task(r) ==
  /\ ActiveRun(r) /\ connected
  /\ server' = [server EXCEPT ![r] = "cancelled"]
  /\ asked' = IF r = Codex THEN "no" ELSE asked
  /\ down' = IF r \in open THEN Append(down, [cmd |-> "cancel", of |-> r]) ELSE down
  /\ cut' = cut \cup {r}
  /\ UNCHANGED <<connected, open, inbox, nodeVars, inst>>

answer_question ==
  /\ asked = "pending" /\ connected
  /\ asked' = "answered"
  /\ down' = Append(down, [cmd |-> "answer", of |-> Codex])
  /\ UNCHANGED <<connected, server, open, inbox, nodeVars, inst, cut>>

\* The reader stops at the first of these events and gives up the queue.
ReadEvent(r) ==
  LET e == Head(inbox[r]) IN
  /\ inbox[r] # <<>>
  /\ server' = [server EXCEPT ![r] = IF @ = "cancelled" THEN @
                                     ELSE IF e = "proposal" THEN "blocked" ELSE e]
  /\ asked' = IF r = Codex /\ e = "blocked" /\ server[r] # "cancelled" THEN "pending" ELSE asked
  /\ open' = open \ {r}
  /\ inbox' = [inbox EXCEPT ![r] = <<>>]
  /\ UNCHANGED <<connected, down, nodeVars, inst, cut>>

-----------------------------------------------------------------------------
\* What the node sends

\* publish_run_event: an event of a run that is no longer read is refused.
Published(r, e) == IF r \in open THEN [inbox EXCEPT ![r] = Append(@, e)] ELSE inbox

(***************************************************************************)
(* An instruction that cannot be carried out is reported as the failure of *)
(* its run: the server fails the run's task, unless it reads the run no    *)
(* more, or has read how it ended; then nobody learns of it.               *)
(***************************************************************************)
ReportFailed(i) ==
  /\ inbox' = Published(Codex, "failed")
  /\ IF Codex \in open /\ inbox[Codex] = <<>>
     THEN inst' = [inst EXCEPT ![i] = "failed"] /\ cut' = cut \cup {Codex}
     ELSE inst' = [inst EXCEPT ![i] = "lost"] /\ UNCHANGED cut

-----------------------------------------------------------------------------
\* The receive loop of the node

Takes(m) == loop = None /\ down # <<>> /\ Head(down).cmd = m /\ down' = Tail(down)
Taken == Head(down).of

\* A command that raises ends the connection, and with it all the node does.
Dropped ==
  /\ connected' = FALSE
  /\ down' = <<>> /\ known' = {}
  /\ work' = [r \in Runs |-> "ended"]
  /\ inbox' = [r \in Runs |-> IF r \in open THEN Append(inbox[r], "waiting_executor")
                                            ELSE inbox[r]]
  /\ inst' = [i \in Instructions |-> IF inst[i] \in {"sent", "outbound"} THEN "lost"
                                     ELSE inst[i]]
  /\ UNCHANGED <<server, open, asked, loop, thread, asks, severed, cut>>

_dispatch_run ==
  /\ Takes("run")
  /\ work' = [work EXCEPT ![Taken] = "starting"]
  /\ UNCHANGED <<serverVars, loop, known, thread, asks, severed, inst, cut>>

\* The executor cannot make a session.
DispatchRaises == loop = None /\ down # <<>> /\ Head(down).cmd = "run" /\ Dropped

\* Nothing of the run is left at the node.
Gone(r) == work[r] \in {"none", "ended"}

_dispatch_text_instruction ==
  /\ Takes("text")
  /\ IF Gone(Codex) \/ Codex \notin known \/ ~thread
     THEN ReportFailed(Taken) /\ UNCHANGED loop
     ELSE /\ inst' = [inst EXCEPT ![Taken] = "waiting"]
          /\ loop' = Taken
          /\ UNCHANGED <<inbox, cut>>
  /\ UNCHANGED <<connected, server, open, asked, work, known, thread, asks, severed>>

\* Whisper may be missing.
_dispatch_audio_instruction ==
  /\ Takes("audio")
  /\ \/ ReportFailed(Taken) /\ UNCHANGED loop
     \/ /\ ~Gone(Codex)
        /\ inst' = [inst EXCEPT ![Taken] = "hearing"]
        /\ loop' = Taken
        /\ UNCHANGED <<inbox, cut>>
  /\ UNCHANGED <<connected, server, open, asked, work, known, thread, asks, severed>>

_transcribe_audio_instruction ==
  /\ Takes("transcribe")
  /\ loop' = Taken
  /\ UNCHANGED <<serverVars, work, known, thread, asks, severed, inst, cut>>

\* A turn of its own is carried out in the background.
_start_codex_turn ==
  /\ Takes("turn")
  /\ inst' = [inst EXCEPT ![Taken] = "outbound"]
  /\ UNCHANGED <<serverVars, nodeVars, cut>>

\* Codex shares its app server: only a wait for the user is ended, without an event.
_cancel_run ==
  /\ Takes("cancel")
  /\ IF Taken = Codex
     THEN /\ known' = known \ {Codex}
          /\ work' = [work EXCEPT ![Codex] = IF @ = "asking" /\ Codex \in known
                                             THEN "ended" ELSE @]
     ELSE UNCHANGED <<known, work>>
  /\ UNCHANGED <<serverVars, loop, thread, asks, severed, inst, cut>>

\* The command line of acpx fails.
CancelRaises ==
  /\ loop = None /\ down # <<>> /\ Head(down).cmd = "cancel"
  /\ Taken \in Acpx \cap known
  /\ Dropped

\* An answer that cannot be written to the app server leaves the wait as it is.
_supply_interaction_response ==
  /\ Takes("answer")
  /\ \/ work' = [work EXCEPT ![Codex] = IF @ = "asking" THEN "turn" ELSE @]
     \/ Codex \in severed /\ UNCHANGED work
  /\ UNCHANGED <<serverVars, loop, known, thread, asks, severed, inst, cut>>

-----------------------------------------------------------------------------
\* Instructions at the node

\* handle_text_instruction waits for the run's turn, then its own turn starts.
TurnLocked == work[Codex] \in {"opening", "turn", "asking"}

handle_text_instruction(i) ==
  /\ loop = i /\ inst[i] = "waiting" /\ ~TurnLocked
  /\ \/ /\ Codex \notin severed
        /\ inst' = [inst EXCEPT ![i] = "turn"]
        /\ UNCHANGED <<loop, inbox, cut>>
     \/ loop' = None /\ ReportFailed(i)
  /\ UNCHANGED <<connected, server, open, asked, down, work, known, thread, asks, severed>>

FollowUpAsks(i) ==
  /\ inst[i] = "turn" /\ asks < MaxAsks /\ Codex \notin severed
  /\ inst' = [inst EXCEPT ![i] = "asking"]
  /\ asks' = asks + 1
  /\ inbox' = Published(Codex, "blocked")
  /\ UNCHANGED <<connected, server, open, asked, down, loop, work, known, thread, severed, cut>>

FollowUpEnds(i) ==
  /\ \/ /\ inst[i] = "turn" /\ Codex \notin severed
        /\ \E e \in {"completed", "failed", "proposal"} : inbox' = Published(Codex, e)
     \/ inst[i] = "asking" /\ inbox' = Published(Codex, "failed")
  /\ inst' = [inst EXCEPT ![i] = "done"]
  /\ loop' = None
  /\ UNCHANGED <<connected, server, open, asked, down, work, known, thread, asks, severed, cut>>

\* The transcript becomes a task of the thread, queued for another run.
_start_text_task_from_direct_input(i) == inst' = [inst EXCEPT ![i] = "task"]

\* The transcript is an event of the run, and lost when the run is no longer read.
handle_audio_transcript_event(i) ==
  /\ inst[i] = "hearing"
  /\ IF Codex \in open THEN _start_text_task_from_direct_input(i)
                        ELSE inst' = [inst EXCEPT ![i] = "lost"]
  /\ loop' = None
  /\ UNCHANGED <<serverVars, down, work, known, thread, asks, severed, cut>>

\* The recording is too short or holds no clear speech.
Unclear(i) ==
  /\ inst[i] = "hearing"
  /\ loop' = None
  /\ ReportFailed(i)
  /\ UNCHANGED <<connected, server, open, asked, down, work, known, thread, asks, severed>>

\* The transcript for a request that is still waited for starts a turn.
Transcribed(i) ==
  /\ loop = i /\ inst[i] \in {"posted", "refused"}
  /\ loop' = None
  /\ \/ inst[i] = "posted" /\ Sent(i, "turn", "sent")
     \/ inst' = [inst EXCEPT ![i] = "refused"] /\ UNCHANGED down
  /\ UNCHANGED <<serverVars, work, known, thread, asks, severed, cut>>

OutboundEnds(i) ==
  /\ inst[i] = "outbound"
  /\ inst' = [inst EXCEPT ![i] = "done"]
  /\ UNCHANGED <<serverVars, down, nodeVars, cut>>

-----------------------------------------------------------------------------
\* Runs at the node

Ended(r, e) ==
  /\ work' = [work EXCEPT ![r] = "ended"]
  /\ known' = known \ {r}
  /\ inbox' = Published(r, e)

\* run_task begins: the executor knows the run, and a Codex run takes the lock.
RunBegins(r) ==
  /\ work[r] = "starting"
  /\ work' = [work EXCEPT ![r] = "opening"]
  /\ known' = known \cup {r}
  /\ UNCHANGED <<serverVars, down, loop, thread, asks, severed, inst, cut>>

\* The thread and the turn are there, or could not be had.
RunOpens(r) ==
  /\ work[r] = "opening"
  /\ \/ /\ r \notin severed
        /\ work' = [work EXCEPT ![r] = "turn"]
        /\ thread' = (thread \/ r = Codex)
        /\ UNCHANGED <<known, inbox>>
     \/ Ended(r, "failed") /\ UNCHANGED thread
  /\ UNCHANGED <<connected, server, open, asked, down, loop, asks, severed, inst, cut>>

TurnAsks ==
  /\ work[Codex] = "turn" /\ asks < MaxAsks /\ Codex \notin severed
  /\ work' = [work EXCEPT ![Codex] = "asking"]
  /\ asks' = asks + 1
  /\ inbox' = Published(Codex, "blocked")
  /\ UNCHANGED <<connected, server, open, asked, down, loop, known, thread, severed, inst, cut>>

\* A turn ends completed, failed, or with the plan it proposes.
TurnEnds ==
  /\ work[Codex] = "turn" /\ Codex \notin severed
  /\ \E e \in {"completed", "failed", "proposal"} : Ended(Codex, e)
  /\ UNCHANGED <<connected, server, open, asked, down, loop, thread, asks, severed, inst, cut>>

\* Fault: Codex waits for the user without a limit.
NeverTimesOut == FALSE /\ UNCHANGED vars

BlockedTimesOut ==
  /\ work[Codex] = "asking"
  /\ Ended(Codex, "failed")
  /\ UNCHANGED <<connected, server, open, asked, down, loop, thread, asks, severed, inst, cut>>

\* A line of the acpx process ends the run for the server; later ones do not.
AcpxTells(r) ==
  /\ r \in Acpx /\ work[r] = "turn"
  /\ work' = [work EXCEPT ![r] = "told"]
  /\ \E e \in {"proposal", "completed", "failed", "cancelled"} : inbox' = Published(r, e)
  /\ UNCHANGED <<connected, server, open, asked, down, loop, known, thread, asks, severed, inst, cut>>

\* Fault: a process that ends without a last word is not reported.
AcpxExitsUntold(r) ==
  /\ r \in Acpx /\ work[r] \in {"turn", "told"}
  /\ work' = [work EXCEPT ![r] = "ended"]
  /\ known' = known \ {r}
  /\ UNCHANGED <<serverVars, down, loop, thread, asks, severed, inst, cut>>

\* The process ended: its exit status tells when no line did.
AcpxExits(r) ==
  /\ r \in Acpx
  /\ \/ work[r] = "turn" /\ \E e \in {"completed", "failed"} : Ended(r, e)
     \/ /\ work[r] = "told"
        /\ work' = [work EXCEPT ![r] = "ended"]
        /\ known' = known \ {r}
        /\ UNCHANGED inbox
  /\ UNCHANGED <<connected, server, open, asked, down, loop, thread, asks, severed, inst, cut>>

-----------------------------------------------------------------------------
\* The run, or a follow-up of it, uses its session.
InUse == ~Gone(Codex) \/ \E i \in Instructions : inst[i] \in {"waiting", "turn", "asking"}

(***************************************************************************)
(* The app server of Codex dies.  A session made later gets a new one, but *)
(* those that had it keep its client: their requests raise, or wait for    *)
(* ever, and a turn under way hears nothing more (_stream_turn_events      *)
(* waits for the next event without a limit).  A run that is given the     *)
(* session of an earlier one, dead since, is severed when it starts.       *)
(***************************************************************************)
AppServerDies ==
  /\ severed' = severed \cup {r \in {Codex} : InUse}
                         \cup {i \in Instructions : inst[i] = "outbound"}
  /\ severed' # severed
  /\ UNCHANGED <<serverVars, down, loop, work, known, thread, asks, inst, cut>>

-----------------------------------------------------------------------------
Receive ==
  \/ _dispatch_run \/ DispatchRaises
  \/ _dispatch_text_instruction \/ _dispatch_audio_instruction
  \/ _transcribe_audio_instruction \/ _start_codex_turn
  \/ _cancel_run \/ CancelRaises \/ _supply_interaction_response

Carry(i) ==
  \/ handle_text_instruction(i) \/ FollowUpEnds(i)
  \/ handle_audio_transcript_event(i) \/ Unclear(i) \/ Transcribed(i)

Next ==
  \/ Receive
  \/ \E i \in Instructions : \/ submit_executor_text_instruction(i)
                             \/ submit_executor_audio_instruction(i)
                             \/ TranscriptionTimesOut(i) \/ Carry(i) \/ FollowUpAsks(i)
                             \/ OutboundEnds(i)
  \/ \E r \in Runs : \/ cancel_task(r) \/ ReadEvent(r) \/ RunBegins(r) \/ RunOpens(r)
                     \/ AcpxTells(r) \/ AcpxExits(r)
  \/ answer_question \/ TurnAsks \/ TurnEnds \/ BlockedTimesOut \/ AppServerDies

Spec == Init /\ [][Next]_vars

\* The follow-up waits for an app server that died, or for the run's turn to do so.
Deaf(i) == inst[i] \in {"waiting", "turn"} /\ Codex \in severed

\* What an instruction, and a run, does next unless it waits for an app server that died.
Advances(i) ==
  \/ ~Deaf(i) /\ Carry(i)
  \/ i \notin severed /\ OutboundEnds(i)
  \/ TranscriptionTimesOut(i)

Proceeds(r) ==
  \/ RunBegins(r) \/ AcpxExits(r)
  \/ r \notin severed /\ RunOpens(r)
  \/ r = Codex /\ (TurnEnds \/ BlockedTimesOut)

(***************************************************************************)
(* Fairness: the loops of node and server read what is there, a turn of    *)
(* Codex, a transcription and an acpx process end, and the waits for the   *)
(* user and for a transcript are limited.  Nothing that waits for an app   *)
(* server that died need end, and users need not do anything.              *)
(***************************************************************************)
FairSpec ==
  /\ Spec /\ WF_vars(Receive)
  /\ \A i \in Instructions : WF_vars(Advances(i))
  /\ \A r \in Runs : WF_vars(ReadEvent(r)) /\ WF_vars(Proceeds(r))

-----------------------------------------------------------------------------
Settled == {"done", "task", "failed", "lost", "refused"}

\* The turn of the instruction, or the one the receive loop carries out, is stranded.
Stranded(i) ==
  \/ inst[i] = "outbound" /\ i \in severed
  \/ loop # None /\ Deaf(loop)

(***************************************************************************)
(* Whatever the run does, an instruction that was submitted does not hold  *)
(* the node's receive loop for ever: a follow-up that waits for the lock   *)
(* of a turn that waits for the user, whose answer waits behind the        *)
(* follow-up, is released when the wait for the user runs out              *)
(* (_handle_message, handle_text_instruction, wait_for_blocked_resolution).*)
(* So from some time on every instruction submitted is settled, with one   *)
(* exception: when the app server dies under a session, the follow-up that *)
(* waits for that session's turn, or for its own, may hold the loop for    *)
(* ever, and then no later command is read.                                *)
(***************************************************************************)
InstructionsSettle ==
  <>[](\A i \in Instructions : inst[i] = "new" \/ inst[i] \in Settled \/ Stranded(i))

(***************************************************************************)
(* A run never ends at the node while the server goes on reading it: the   *)
(* task would stay running for ever.  Every way in which Codex's turn, its *)
(* cancelled wait, or the acpx process can end leaves an event that ends   *)
(* the reading (run_task of both adapters, _stream_turn_events).           *)
(***************************************************************************)
NoSilentEnd ==
  \A r \in Runs : work[r] = "ended" /\ r \in open => inbox[r] # <<>>

(***************************************************************************)
(* Codex is not given a turn of its own in a thread whose run still works  *)
(* there, unless the run was cancelled or an instruction that failed ended *)
(* it for the server (submit_text_instruction, which looks for the run,    *)
(* and cancel_run, which lets Codex's turn go on).                         *)
(***************************************************************************)
OneTurnPerThread ==
  TurnLocked /\ Codex \notin cut => \A i \in Instructions : inst[i] # "outbound"
=============================================================================
