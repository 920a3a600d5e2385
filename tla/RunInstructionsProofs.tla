----------------------- MODULE RunInstructionsProofs -----------------------
(***************************************************************************)
(* Proofs about RunInstructions, for any acpx runs, instructions and       *)
(* number of questions: no run ends at the node unheard, and Codex gets no *)
(* turn of its own in a thread whose run still works there.                *)
(***************************************************************************)
EXTENDS RunInstructions, TLAPS

-----------------------------------------------------------------------------
(* The invariant *)

Events == {"blocked", "proposal", "completed", "failed", "cancelled", "waiting_executor"}
Works == {"none", "starting", "opening", "turn", "asking", "told", "ended"}
Fates == {"new", "sent", "posted", "waiting", "turn", "asking", "hearing", "outbound", "done",
          "task", "failed", "lost", "refused"}

\* A run that the server reads has said so before it ends, or waits for the user.
HeardInv ==
  \A r \in Runs : work[r] \in {"asking", "told", "ended"} /\ r \in open => inbox[r] # <<>>

\* Only what is read has events, and reading one of them settles the run.
QueueInv ==
  \A r \in Runs : /\ inbox[r] # <<>> => r \in open
                  /\ server[r] \notin {"assigned", "cancelled"} => r \notin open

\* The first event that ends the thread's run for the server is sent when its
\* work has ended, unless it was cut.
Over == work[Codex] = "ended" \/ Codex \in cut
OverInv ==
  /\ ~ActiveRun(Codex) => Over
  /\ inbox[Codex] # <<>> /\ Head(inbox[Codex]) \notin {"blocked", "proposal"} => Over

\* The run is started once; follow-ups come after its turn has begun, and
\* have their own after it has ended.
NodeInv ==
  /\ \A k \in 1..Len(down) : down[k].cmd = "run" => k = 1 /\ down[k].of = Codex /\ work[Codex] = "none"
  /\ Codex \in known => TurnLocked
  /\ \A i \in Instructions : inst[i] = "waiting" => TurnLocked \/ work[Codex] = "ended"
  /\ \A i \in Instructions : inst[i] \in {"turn", "asking"} => work[Codex] = "ended"

\* A turn of its own is started only for a thread without an active run.
OwnTurnInv ==
  /\ \A i \in Instructions : inst[i] \in {"posted", "outbound"} => ~ActiveRun(Codex)
  /\ \A k \in 1..Len(down) : down[k].cmd = "turn" => ~ActiveRun(Codex)

IInv == TypeOK /\ HeardInv /\ QueueInv /\ OverInv /\ NodeInv /\ OwnTurnInv

LEMMA IInvInit == Init => IInv
<1> SUFFICES ASSUME Init PROVE IInv
  OBVIOUS
<1> USE RunInstructionsAssumption DEF RunInstructionsAssumption, Runs, Instructions
<1>1. down \in Seq(Command) /\ Len(down) = 1 /\ down[1].cmd = "run" /\ down[1].of = Codex
  BY DEF Init, Command
<1>2. TypeOK
  <2>1. inbox \in [Runs -> Seq(Events)]
    BY DEF Init
  <2> QED BY <1>1, <2>1 DEF Init, TypeOK, Events
<1>3. HeardInv /\ QueueInv
  BY DEF Init, HeardInv, QueueInv
<1>4. OverInv /\ NodeInv /\ OwnTurnInv
  BY <1>1 DEF Init, OverInv, NodeInv, OwnTurnInv, ActiveRun
<1> QED BY <1>2, <1>3, <1>4 DEF IInv

-----------------------------------------------------------------------------
(* Events and commands *)

LEMMA PublishedFacts ==
  ASSUME TypeOK, NEW r \in Runs, NEW e \in Events, inbox' = Published(r, e)
  PROVE  /\ inbox' \in [Runs -> Seq(Events)]
         /\ \A q \in Runs : q # r => inbox'[q] = inbox[q]
         /\ inbox[r] # <<>> => inbox'[r] # <<>> /\ Head(inbox'[r]) = Head(inbox[r])
         /\ r \in open => inbox'[r] # <<>>
         /\ r \in open /\ inbox[r] = <<>> => Head(inbox'[r]) = e
         /\ r \notin open => inbox' = inbox
<1>1. inbox \in [Runs -> Seq(Events)]
  BY DEF TypeOK, Events
<1>2. CASE r \in open
  <2>1. inbox' = [inbox EXCEPT ![r] = Append(inbox[r], e)]
    BY <1>2 DEF Published
  <2>2. inbox'[r] = Append(inbox[r], e) /\ inbox[r] \in Seq(Events)
    BY <1>1, <2>1
  <2>3. /\ Append(inbox[r], e) \in Seq(Events) /\ Append(inbox[r], e) # <<>>
        /\ inbox[r] # <<>> => Head(Append(inbox[r], e)) = Head(inbox[r])
        /\ inbox[r] = <<>> => Head(Append(inbox[r], e)) = e
    BY <2>2
  <2> QED BY <1>1, <1>2, <2>1, <2>2, <2>3
<1>3. CASE r \notin open
  BY <1>1, <1>3 DEF Published
<1> QED BY <1>2, <1>3

LEMMA TakenFacts ==
  ASSUME TypeOK, NEW m, Takes(m)
  PROVE  /\ down' \in Seq(Command) /\ Head(down) = down[1] /\ 1 \in 1..Len(down)
         /\ down[1] \in Command /\ down[1].cmd = m
         /\ \A k \in 1..Len(down') : k + 1 \in 2..Len(down) /\ down'[k] = down[k + 1]
<1>1. down \in Seq(Command) /\ down # <<>> /\ down' = Tail(down) /\ Head(down).cmd = m
  BY DEF TypeOK, Takes
<1>2. down' \in Seq(Command) /\ Head(down) = down[1] /\ 1 \in 1..Len(down) /\ down[1] \in Command
  BY <1>1
<1>3. \A k \in 1..Len(down') : k + 1 \in 2..Len(down) /\ down'[k] = down[k + 1]
  BY <1>1
<1> QED BY <1>1, <1>2, <1>3

\* What a command is about.
LEMMA CommandFacts ==
  /\ \A x \in Command : x.cmd \in {"run", "cancel", "answer"} => x.of \in Runs
  /\ \A x \in Command : x.cmd \in {"text", "audio", "transcribe", "turn"} => x.of \in Instructions
  /\ \A r \in Runs, m \in {"run", "cancel", "answer"} : [cmd |-> m, of |-> r] \in Command
  /\ \A i \in Instructions, m \in {"text", "audio", "transcribe", "turn"} :
       [cmd |-> m, of |-> i] \in Command
BY DEF Command

\* A command is put at the end.
LEMMA AppendFacts ==
  ASSUME TypeOK, NEW x \in Command, down' = Append(down, x)
  PROVE  /\ down' \in Seq(Command)
         /\ \A k \in 1..Len(down') : down'[k] = x \/ (k \in 1..Len(down) /\ down'[k] = down[k])
<1>1. down \in Seq(Command)
  BY DEF TypeOK
<1>2. \A k \in 1..Len(down') : \/ k \in 1..Len(down) /\ down'[k] = down[k]
                               \/ k = Len(down) + 1 /\ down'[k] = x
  BY <1>1
<1> QED BY <1>1, <1>2

-----------------------------------------------------------------------------
(* Types *)

\* The ranges of the variables that are functions or sequences, each on its own.
TypeParts ==
  /\ server \in [Runs -> {"assigned", "blocked", "completed", "failed", "cancelled", "waiting_executor"}]
  /\ inbox \in [Runs -> Seq(Events)] /\ down \in Seq(Command)
  /\ work \in [Runs -> Works] /\ inst \in [Instructions -> Fates]
  /\ loop \in Instructions \cup {None}
  /\ open \subseteq Runs /\ known \subseteq Runs /\ cut \subseteq Runs
  /\ asked \in {"no", "pending", "answered"} /\ asks \in 0..MaxAsks
  /\ connected \in BOOLEAN /\ thread \in BOOLEAN
  /\ severed \subseteq {Codex} \cup Instructions

LEMMA TypeOfParts == TypeOK <=> TypeParts
BY DEF TypeOK, TypeParts, Events, Works, Fates

LEMMA TypeServer ==
  ASSUME TypeOK,
         \/ \E i \in Instructions : \/ submit_executor_text_instruction(i)
                                    \/ submit_executor_audio_instruction(i)
                                    \/ TranscriptionTimesOut(i)
         \/ \E r \in Runs : cancel_task(r) \/ ReadEvent(r)
         \/ answer_question
  PROVE  TypeOK'
<1> USE DEF serverVars, nodeVars
<1>0. TypeParts
  BY TypeOfParts
<1>c. Codex \in Runs
  BY DEF Runs
<1>s. ASSUME NEW i \in Instructions, NEW m \in {"text", "audio", "transcribe", "turn"},
             NEW s \in {"sent", "posted"}, Sent(i, m, s)
      PROVE  down' \in Seq(Command) /\ inst' \in [Instructions -> Fates]
  BY <1>0, <1>s, AppendFacts, CommandFacts DEF Sent, TypeParts, Fates
<1>1. ASSUME NEW i \in Instructions,
             submit_executor_text_instruction(i) \/ submit_executor_audio_instruction(i)
      PROVE  TypeOK'
  <2>1. \/ \E m \in {"text", "audio", "transcribe", "turn"}, s \in {"sent", "posted"} : Sent(i, m, s)
        \/ inst' = [inst EXCEPT ![i] = "refused"] /\ down' = down
    BY <1>1 DEF submit_executor_text_instruction, submit_executor_audio_instruction,
       submit_text_instruction, submit_audio_instruction, Refused
  <2>2. UNCHANGED <<serverVars, nodeVars, cut>>
    BY <1>1, Zenon DEF submit_executor_text_instruction, submit_executor_audio_instruction
  <2>3. down' \in Seq(Command) /\ inst' \in [Instructions -> Fates]
    BY <1>0, <1>s, <2>1 DEF TypeParts, Fates
  <2>4. TypeParts'
    BY <1>0, <2>2, <2>3 DEF TypeParts
  <2> QED BY <2>4, TypeOfParts, PTL
<1>2. ASSUME NEW i \in Instructions, TranscriptionTimesOut(i) PROVE TypeOK'
  <2>1. inst' \in [Instructions -> Fates]
    BY <1>0, <1>2 DEF TranscriptionTimesOut, TypeParts, Fates
  <2>2. TypeParts'
    BY <1>0, <1>2, <2>1 DEF TranscriptionTimesOut, TypeParts
  <2> QED BY <2>2, TypeOfParts, PTL
<1>3. ASSUME NEW r \in Runs, cancel_task(r) PROVE TypeOK'
  <2>1. down' \in Seq(Command)
    BY <1>0, <1>3, AppendFacts, CommandFacts DEF cancel_task, TypeParts
  <2>2. server' \in [Runs -> {"assigned", "blocked", "completed", "failed", "cancelled", "waiting_executor"}]
    BY <1>0, <1>3 DEF cancel_task, TypeParts
  <2>3. TypeParts'
    BY <1>0, <1>3, <2>1, <2>2 DEF cancel_task, TypeParts
  <2> QED BY <2>3, TypeOfParts, PTL
<1>4. ASSUME NEW r \in Runs, ReadEvent(r) PROVE TypeOK'
  <2>0. Head(inbox[r]) \in Events
    BY <1>0, <1>4 DEF ReadEvent, TypeParts
  <2>1. server' \in [Runs -> {"assigned", "blocked", "completed", "failed", "cancelled", "waiting_executor"}]
    BY <1>0, <1>4, <2>0 DEF ReadEvent, TypeParts, Events
  <2>2. inbox' \in [Runs -> Seq(Events)]
    BY <1>0, <1>4 DEF ReadEvent, TypeParts
  <2>3. TypeParts'
    BY <1>0, <1>4, <2>1, <2>2 DEF ReadEvent, TypeParts
  <2> QED BY <2>3, TypeOfParts, PTL
<1>5. CASE answer_question
  <2>1. down' \in Seq(Command)
    BY <1>c, <1>5, AppendFacts, CommandFacts DEF answer_question
  <2>2. TypeParts'
    BY <1>0, <1>5, <2>1 DEF answer_question, TypeParts
  <2> QED BY <2>2, TypeOfParts, PTL
<1> QED BY <1>1, <1>2, <1>3, <1>4, <1>5

\* What a failed instruction leaves.
LEMMA ReportFailedFacts ==
  ASSUME TypeOK, NEW i \in Instructions, ReportFailed(i)
  PROVE  /\ inbox' \in [Runs -> Seq(Events)] /\ inst' \in [Instructions -> Fates]
         /\ cut \subseteq cut' /\ cut' \subseteq Runs /\ cut' \subseteq cut \cup {Codex}
         /\ Codex \in open /\ inbox[Codex] = <<>> => Codex \in cut'
         /\ \A j \in Instructions : inst'[j] = IF j = i THEN inst'[i] ELSE inst[j]
         /\ inst'[i] \in {"failed", "lost"}
<1>1. Codex \in Runs /\ "failed" \in Events /\ inbox' = Published(Codex, "failed")
  BY DEF Runs, Events, ReportFailed
<1>2. inbox' \in [Runs -> Seq(Events)]
  BY <1>1, PublishedFacts
<1>3. \E x \in {"failed", "lost"} : inst' = [inst EXCEPT ![i] = x]
  BY DEF ReportFailed
<1>4. inst \in [Instructions -> Fates]
  BY DEF TypeOK, Fates
<1>5. /\ cut \subseteq cut' /\ cut' \subseteq Runs /\ cut' \subseteq cut \cup {Codex}
      /\ Codex \in open /\ inbox[Codex] = <<>> => Codex \in cut'
  BY <1>1 DEF ReportFailed, TypeOK
<1> QED BY <1>2, <1>3, <1>4, <1>5 DEF Fates

LEMMA DroppedFacts ==
  ASSUME TypeOK, Dropped
  PROVE  /\ inbox' \in [Runs -> Seq(Events)]
         /\ \A r \in Runs : /\ work'[r] = "ended"
                            /\ r \in open => inbox'[r] # <<>>
                            /\ r \notin open => inbox'[r] = inbox[r]
                            /\ inbox[r] # <<>> => Head(inbox'[r]) = Head(inbox[r])
         /\ inst' \in [Instructions -> Fates]
         /\ \A i \in Instructions : inst'[i] = inst[i] \/ inst'[i] = "lost"
<1>1. inbox \in [Runs -> Seq(Events)] /\ "waiting_executor" \in Events
  BY DEF TypeOK, Events
<1>2. ASSUME NEW r \in Runs
      PROVE  /\ inbox[r] \in Seq(Events) /\ Append(inbox[r], "waiting_executor") \in Seq(Events)
             /\ Append(inbox[r], "waiting_executor") # <<>>
             /\ inbox[r] # <<>> => Head(Append(inbox[r], "waiting_executor")) = Head(inbox[r])
  <2>1. inbox[r] \in Seq(Events)
    BY <1>1
  <2> QED BY <1>1, <2>1
<1>3. inbox' = [r \in Runs |-> IF r \in open THEN Append(inbox[r], "waiting_executor") ELSE inbox[r]]
  BY DEF Dropped
<1>4. \A r \in Runs : inbox'[r] = IF r \in open THEN Append(inbox[r], "waiting_executor") ELSE inbox[r]
  BY <1>3
<1>5. inbox' \in [Runs -> Seq(Events)]
  BY <1>2, <1>3
<1>6. \A r \in Runs : work'[r] = "ended"
  BY DEF Dropped
<1>7. inst' = [i \in Instructions |-> IF inst[i] \in {"sent", "outbound"} THEN "lost" ELSE inst[i]]
  BY DEF Dropped
<1>8. inst' \in [Instructions -> Fates] /\ \A i \in Instructions : inst'[i] = inst[i] \/ inst'[i] = "lost"
  BY <1>7 DEF TypeOK, Fates
<1>9. \A r \in Runs : /\ r \in open => inbox'[r] # <<>>
                      /\ r \notin open => inbox'[r] = inbox[r]
                      /\ inbox[r] # <<>> => Head(inbox'[r]) = Head(inbox[r])
  BY <1>2, <1>4
<1> QED BY <1>5, <1>6, <1>8, <1>9

LEMMA TypeReceive ==
  ASSUME TypeOK, Receive
  PROVE  TypeOK'
<1> USE DEF serverVars, nodeVars
<1>0. TypeParts /\ Codex \in Runs
  BY TypeOfParts DEF Runs
<1>t. \A m : Takes(m) => down' \in Seq(Command) /\ Taken = down[1].of /\ down[1] \in Command /\ down[1].cmd = m
  BY TakenFacts DEF Taken
<1>1. CASE _dispatch_run
  <2>1. down' \in Seq(Command) /\ Taken \in Runs
    BY <1>1, <1>t, CommandFacts DEF _dispatch_run
  <2>2. work' \in [Runs -> Works]
    BY <1>0, <1>1 DEF _dispatch_run, TypeParts, Works
  <2>3. TypeParts'
    BY <1>0, <1>1, <2>1, <2>2 DEF _dispatch_run, TypeParts
  <2> QED BY <2>3, TypeOfParts, PTL
<1>2. CASE DispatchRaises \/ CancelRaises
  <2>1. Dropped
    BY <1>2 DEF DispatchRaises, CancelRaises
  <2>2. work' \in [Runs -> Works] /\ down' \in Seq(Command)
    BY <2>1 DEF Dropped, Works
  <2>3. inbox' \in [Runs -> Seq(Events)] /\ inst' \in [Instructions -> Fates]
    BY <2>1, DroppedFacts
  <2>4. TypeParts'
    BY <1>0, <2>1, <2>2, <2>3 DEF Dropped, TypeParts
  <2> QED BY <2>4, TypeOfParts, PTL
<1>3. CASE _dispatch_text_instruction \/ _dispatch_audio_instruction
  <2>1. down' \in Seq(Command) /\ Taken \in Instructions
    BY <1>3, <1>t, CommandFacts DEF _dispatch_text_instruction, _dispatch_audio_instruction
  <2>2. /\ UNCHANGED <<connected, server, open, asked, work, known, thread, asks, severed>>
        /\ \/ ReportFailed(Taken) /\ loop' = loop
           \/ /\ \E x \in {"waiting", "hearing"} : inst' = [inst EXCEPT ![Taken] = x]
              /\ loop' = Taken /\ UNCHANGED <<inbox, cut>>
    BY <1>3 DEF _dispatch_text_instruction, _dispatch_audio_instruction
  <2>3. /\ inbox' \in [Runs -> Seq(Events)] /\ inst' \in [Instructions -> Fates] /\ cut' \subseteq Runs
        /\ loop' \in Instructions \cup {None}
    BY <1>0, <2>1, <2>2, ReportFailedFacts DEF TypeParts, Fates
  <2>4. TypeParts'
    BY <1>0, <2>1, <2>2, <2>3 DEF TypeParts
  <2> QED BY <2>4, TypeOfParts, PTL
<1>4. CASE _transcribe_audio_instruction \/ _start_codex_turn
  <2>1. down' \in Seq(Command) /\ Taken \in Instructions
    BY <1>4, <1>t, CommandFacts DEF _transcribe_audio_instruction, _start_codex_turn
  <2>2. inst' \in [Instructions -> Fates] /\ loop' \in Instructions \cup {None}
    BY <1>0, <1>4, <2>1 DEF _transcribe_audio_instruction, _start_codex_turn, TypeParts, Fates
  <2>3. UNCHANGED <<serverVars, work, known, thread, asks, severed, cut>>
    BY <1>4, Zenon DEF _transcribe_audio_instruction, _start_codex_turn
  <2>4. TypeParts'
    BY <1>0, <2>1, <2>2, <2>3 DEF TypeParts
  <2> QED BY <2>4, TypeOfParts, PTL
<1>5. CASE _cancel_run \/ _supply_interaction_response
  <2>1. down' \in Seq(Command)
    BY <1>5, <1>t DEF _cancel_run, _supply_interaction_response
  <2>2. known' \subseteq Runs
    BY <1>0, <1>5 DEF _cancel_run, _supply_interaction_response, TypeParts
  <2>3. work' \in [Runs -> Works]
    BY <1>0, <1>5 DEF _cancel_run, _supply_interaction_response, TypeParts, Works
  <2>4. UNCHANGED <<serverVars, loop, thread, asks, severed, inst, cut>>
    BY <1>5, Zenon DEF _cancel_run, _supply_interaction_response
  <2>5. TypeParts'
    BY <1>0, <2>1, <2>2, <2>3, <2>4 DEF TypeParts
  <2> QED BY <2>5, TypeOfParts, PTL
<1> QED BY <1>1, <1>2, <1>3, <1>4, <1>5 DEF Receive

LEMMA TypeCarry ==
  ASSUME TypeOK, NEW i \in Instructions, Carry(i) \/ FollowUpAsks(i) \/ OutboundEnds(i)
  PROVE  TypeOK'
<1> USE DEF serverVars, nodeVars
<1>0. TypeParts /\ Codex \in Runs
  BY TypeOfParts DEF Runs
<1>1. ASSUME ReportFailed(i), loop' = None,
             UNCHANGED <<connected, server, open, asked, down, work, known, thread, asks, severed>>
      PROVE  TypeOK'
  <2>1. TypeParts'
    BY <1>0, <1>1, ReportFailedFacts DEF TypeParts
  <2> QED BY <2>1, TypeOfParts, PTL
<1>2. CASE handle_text_instruction(i)
  <2>1. CASE inst' = [inst EXCEPT ![i] = "turn"] /\ UNCHANGED <<loop, inbox, cut>>
    <3>1. inst' \in [Instructions -> Fates]
      BY <1>0, <2>1 DEF TypeParts, Fates
    <3>2. TypeParts'
      BY <1>0, <1>2, <2>1, <3>1 DEF handle_text_instruction, TypeParts
    <3> QED BY <3>2, TypeOfParts, PTL
  <2> QED BY <1>1, <1>2, <2>1 DEF handle_text_instruction
<1>3. CASE FollowUpEnds(i) \/ FollowUpAsks(i)
  <2>1. \E e \in Events : inbox' = Published(Codex, e)
    BY <1>3 DEF FollowUpEnds, FollowUpAsks, Events
  <2>2. inbox' \in [Runs -> Seq(Events)]
    BY <1>0, <2>1, PublishedFacts
  <2>3. inst' \in [Instructions -> Fates]
    BY <1>0, <1>3 DEF FollowUpEnds, FollowUpAsks, TypeParts, Fates
  <2>4. asks' \in 0..MaxAsks /\ loop' \in Instructions \cup {None}
    BY <1>0, <1>3, RunInstructionsAssumption DEF FollowUpEnds, FollowUpAsks, TypeParts, RunInstructionsAssumption
  <2>5. UNCHANGED <<connected, server, open, asked, down, work, known, thread, severed, cut>>
    BY <1>3, Zenon DEF FollowUpEnds, FollowUpAsks
  <2>6. TypeParts'
    BY <1>0, <2>2, <2>3, <2>4, <2>5 DEF TypeParts
  <2> QED BY <2>6, TypeOfParts, PTL
<1>4. CASE handle_audio_transcript_event(i) \/ OutboundEnds(i)
  <2>1. inst' \in [Instructions -> Fates]
    BY <1>0, <1>4 DEF handle_audio_transcript_event, _start_text_task_from_direct_input, OutboundEnds, TypeParts, Fates
  <2>2. UNCHANGED <<serverVars, down, work, known, thread, asks, severed, cut>> /\ loop' \in {None, loop}
    BY <1>4 DEF handle_audio_transcript_event, OutboundEnds
  <2>3. TypeParts'
    BY <1>0, <2>1, <2>2 DEF TypeParts
  <2> QED BY <2>3, TypeOfParts, PTL
<1>5. CASE Unclear(i)
  BY <1>1, <1>5 DEF Unclear
<1>6. CASE Transcribed(i)
  <2>1. [cmd |-> "turn", of |-> i] \in Command
    BY CommandFacts
  <2>2. \/ down' = Append(down, [cmd |-> "turn", of |-> i]) /\ inst' = [inst EXCEPT ![i] = "sent"]
        \/ down' = down /\ inst' = [inst EXCEPT ![i] = "refused"]
    BY <1>6, Zenon DEF Transcribed, Sent
  <2>3. down' \in Seq(Command)
    BY <1>0, <2>1, <2>2, AppendFacts DEF TypeParts
  <2>4. inst' \in [Instructions -> Fates]
    BY <1>0, <2>2 DEF TypeParts, Fates
  <2>5. TypeParts'
    BY <1>0, <1>6, <2>3, <2>4 DEF Transcribed, TypeParts
  <2> QED BY <2>5, TypeOfParts, PTL
<1> QED BY <1>2, <1>3, <1>4, <1>5, <1>6 DEF Carry

LEMMA EndedFacts ==
  ASSUME TypeOK, NEW r \in Runs, NEW e \in Events, Ended(r, e)
  PROVE  /\ work' \in [Runs -> Works] /\ known' = known \ {r} /\ inbox' \in [Runs -> Seq(Events)]
         /\ \A q \in Runs : work'[q] = IF q = r THEN "ended" ELSE work[q]
         /\ inbox' = Published(r, e)
<1>1. inbox' = Published(r, e)
  BY DEF Ended
<1>2. inbox' \in [Runs -> Seq(Events)]
  BY <1>1, PublishedFacts
<1> QED BY <1>1, <1>2 DEF Ended, TypeOK, Works

LEMMA TypeRuns ==
  ASSUME TypeOK,
         \/ \E r \in Runs : RunBegins(r) \/ RunOpens(r) \/ AcpxTells(r) \/ AcpxExits(r)
         \/ TurnAsks \/ TurnEnds \/ BlockedTimesOut
  PROVE  TypeOK'
<1> USE DEF serverVars, nodeVars
<1>0. TypeParts /\ Codex \in Runs
  BY TypeOfParts DEF Runs
<1>e. {"completed", "failed", "proposal", "cancelled", "blocked"} \subseteq Events
  BY DEF Events
<1>1. ASSUME NEW r \in Runs, NEW e \in Events, Ended(r, e), 
             UNCHANGED <<connected, server, open, asked, down, loop, thread, asks, severed, inst, cut>>
      PROVE  TypeOK'
  <2>1. TypeParts'
    BY <1>0, <1>1, EndedFacts DEF TypeParts
  <2> QED BY <2>1, TypeOfParts, PTL
<1>2. ASSUME NEW r \in Runs, RunBegins(r) PROVE TypeOK'
  <2>1. work' \in [Runs -> Works]
    BY <1>0, <1>2 DEF RunBegins, TypeParts, Works
  <2>2. TypeParts'
    BY <1>0, <1>2, <2>1 DEF RunBegins, TypeParts
  <2> QED BY <2>2, TypeOfParts, PTL
<1>3. ASSUME NEW r \in Runs, RunOpens(r) PROVE TypeOK'
  <2>1. CASE Ended(r, "failed") /\ UNCHANGED thread
    BY <1>1, <1>3, <1>e, <2>1 DEF RunOpens
  <2>2. CASE work' = [work EXCEPT ![r] = "turn"] /\ thread' = (thread \/ r = Codex) /\ UNCHANGED <<known, inbox>>
    <3>1. work' \in [Runs -> Works]
      BY <1>0, <2>2 DEF TypeParts, Works
    <3>2. thread' \in BOOLEAN
      BY <2>2
    <3>3. TypeParts'
      BY <1>0, <1>3, <2>2, <3>1, <3>2 DEF RunOpens, TypeParts
    <3> QED BY <3>3, TypeOfParts, PTL
  <2> QED BY <1>3, <2>1, <2>2 DEF RunOpens
<1>4. ASSUME NEW r \in Runs, AcpxTells(r) PROVE TypeOK'
  <2>1. PICK e \in Events : inbox' = Published(r, e)
    BY <1>4, <1>e DEF AcpxTells
  <2>2. inbox' \in [Runs -> Seq(Events)]
    BY <2>1, PublishedFacts
  <2>3. work' \in [Runs -> Works]
    BY <1>0, <1>4 DEF AcpxTells, TypeParts, Works
  <2>4. TypeParts'
    BY <1>0, <1>4, <2>2, <2>3 DEF AcpxTells, TypeParts
  <2> QED BY <2>4, TypeOfParts, PTL
<1>5. ASSUME NEW r \in Runs, AcpxExits(r) PROVE TypeOK'
  <2>1. CASE \E e \in {"completed", "failed"} : Ended(r, e)
    BY <1>1, <1>5, <1>e, <2>1 DEF AcpxExits
  <2>2. CASE work' = [work EXCEPT ![r] = "ended"] /\ known' = known \ {r} /\ UNCHANGED inbox
    <3>1. work' \in [Runs -> Works]
      BY <1>0, <2>2 DEF TypeParts, Works
    <3>2. TypeParts'
      BY <1>0, <1>5, <2>2, <3>1 DEF AcpxExits, TypeParts
    <3> QED BY <3>2, TypeOfParts, PTL
  <2> QED BY <1>5, <2>1, <2>2 DEF AcpxExits
<1>6. CASE TurnAsks
  <2>1. inbox' \in [Runs -> Seq(Events)]
    BY <1>0, <1>6, <1>e, PublishedFacts DEF TurnAsks
  <2>2. work' \in [Runs -> Works] /\ asks' \in 0..MaxAsks
    BY <1>0, <1>6, RunInstructionsAssumption DEF TurnAsks, TypeParts, Works, RunInstructionsAssumption
  <2>3. TypeParts'
    BY <1>0, <1>6, <2>1, <2>2 DEF TurnAsks, TypeParts
  <2> QED BY <2>3, TypeOfParts, PTL
<1>7. CASE TurnEnds \/ BlockedTimesOut
  BY <1>0, <1>1, <1>7, <1>e DEF TurnEnds, BlockedTimesOut
<1> QED BY <1>2, <1>3, <1>4, <1>5, <1>6, <1>7

LEMMA TypeStep == TypeOK /\ [Next]_vars => TypeOK'
<1> SUFFICES ASSUME TypeOK, [Next]_vars PROVE TypeOK'
  OBVIOUS
<1>1. CASE UNCHANGED vars
  BY <1>1 DEF vars, serverVars, nodeVars, TypeOK
<1>2. CASE AppServerDies
  <2>1. severed' \subseteq {Codex} \cup Instructions
    BY <1>2, TypeOfParts DEF AppServerDies, TypeParts
  <2>2. TypeParts'
    BY <1>2, <2>1, TypeOfParts DEF AppServerDies, serverVars, TypeParts
  <2> QED BY <2>2, TypeOfParts, PTL
<1> QED BY <1>1, <1>2, TypeServer, TypeReceive, TypeCarry, TypeRuns DEF Next

-----------------------------------------------------------------------------
(* Events at the server *)

\* An event is added at most; what is first stays first.
Grows(r) ==
  /\ inbox[r] # <<>> => inbox'[r] # <<>> /\ Head(inbox'[r]) = Head(inbox[r])
  /\ r \notin open => inbox'[r] = inbox[r]

\* A step other than the server's reading, as far as the events are concerned.
Reports ==
  /\ open' = open /\ cut \subseteq cut' /\ \A r \in Runs : Grows(r)
  /\ \A r \in Runs : work'[r] \in {"asking", "told", "ended"} /\ r \in open =>
                       work[r] \in {"asking", "told", "ended"} \/ inbox'[r] # <<>>
  /\ work[Codex] = "ended" => work'[Codex] = "ended"
  /\ inbox[Codex] = <<>> /\ inbox'[Codex] # <<>> =>
       \/ Head(inbox'[Codex]) \in {"blocked", "proposal"}
       \/ work'[Codex] = "ended" \/ Codex \in cut'

LEMMA GrowsPublished ==
  ASSUME TypeOK, NEW r \in Runs, NEW e \in Events, inbox' = Published(r, e)
  PROVE  \A q \in Runs : Grows(q)
BY PublishedFacts DEF Grows

LEMMA ReportsSame ==
  ASSUME UNCHANGED <<open, inbox, work>>, cut \subseteq cut'
  PROVE  Reports
BY DEF Reports, Grows

LEMMA ReportsFailed ==
  ASSUME TypeOK, NEW i \in Instructions, ReportFailed(i), UNCHANGED <<open, work>>
  PROVE  Reports
<1>1. Codex \in Runs /\ "failed" \in Events /\ inbox' = Published(Codex, "failed")
  BY DEF Runs, Events, ReportFailed
<1>2. \A q \in Runs : Grows(q)
  BY <1>1, GrowsPublished
<1>3. cut \subseteq cut' /\ (Codex \in open /\ inbox[Codex] = <<>> => Codex \in cut')
  BY ReportFailedFacts
<1>4. Codex \notin open => inbox' = inbox
  BY <1>1, PublishedFacts
<1> QED BY <1>2, <1>3, <1>4 DEF Reports

LEMMA ReportsEnded ==
  ASSUME TypeOK, NEW r \in Runs, NEW e \in Events, Ended(r, e), UNCHANGED <<open, cut>>
  PROVE  Reports
<1>1. inbox' = Published(r, e) /\ \A q \in Runs : work'[q] = IF q = r THEN "ended" ELSE work[q]
  BY EndedFacts
<1>2. \A q \in Runs : Grows(q)
  BY <1>1, GrowsPublished
<1>3. (r \in open => inbox'[r] # <<>>) /\ \A q \in Runs : q # r => inbox'[q] = inbox[q]
  BY <1>1, PublishedFacts
<1>4. Codex \in Runs
  BY DEF Runs
<1> QED BY <1>1, <1>2, <1>3, <1>4 DEF Reports

\* An event of a run, without its end.
LEMMA ReportsTold ==
  ASSUME TypeOK, NEW r \in Runs, NEW e \in Events, inbox' = Published(r, e), UNCHANGED <<open, cut>>,
         \A q \in Runs : q # r => work'[q] = work[q],
         r = Codex => \/ e = "blocked" /\ work[Codex] # "ended"
                      \/ work[Codex] = "ended" /\ work'[Codex] = "ended"
  PROVE  Reports
<1>2. \A q \in Runs : Grows(q)
  BY GrowsPublished
<1>3. /\ r \in open => inbox'[r] # <<>>
      /\ r \in open /\ inbox[r] = <<>> => Head(inbox'[r]) = e
      /\ r \notin open => inbox' = inbox
      /\ \A q \in Runs : q # r => inbox'[q] = inbox[q]
  BY PublishedFacts
<1>4. Codex \in Runs
  BY DEF Runs
<1> QED BY <1>2, <1>3, <1>4 DEF Reports

LEMMA ReportsStep ==
  ASSUME TypeOK, NodeInv, Next, ~AppServerDies
  PROVE  Reports \/ \E r \in Runs : ReadEvent(r)
<1> USE DEF serverVars, nodeVars
<1>0. Codex \in Runs /\ work \in [Runs -> Works] /\ cut \subseteq Runs
  BY DEF Runs, TypeOK, Works
<1>e. {"completed", "failed", "proposal", "cancelled", "blocked"} \subseteq Events
  BY DEF Events
<1>t. \A m \in {"text", "audio"} : Takes(m) => Taken \in Instructions
  BY TakenFacts, CommandFacts DEF Taken
<1>1. ASSUME NEW i \in Instructions,
             \/ submit_executor_text_instruction(i) \/ submit_executor_audio_instruction(i)
             \/ TranscriptionTimesOut(i) \/ handle_audio_transcript_event(i) \/ Transcribed(i)
             \/ OutboundEnds(i)
      PROVE  Reports
  <2>1. UNCHANGED <<open, inbox, work, cut>>
    BY <1>1, Zenon DEF submit_executor_text_instruction, submit_executor_audio_instruction,
       TranscriptionTimesOut, handle_audio_transcript_event, Transcribed, OutboundEnds
  <2> QED BY <2>1, ReportsSame
<1>2. CASE \/ (\E r \in Runs : cancel_task(r)) \/ answer_question
           \/ _transcribe_audio_instruction \/ _start_codex_turn
  <2>1. UNCHANGED <<open, inbox, work>> /\ cut \subseteq cut'
    BY <1>2 DEF cancel_task, answer_question, _transcribe_audio_instruction, _start_codex_turn
  <2> QED BY <2>1, ReportsSame
<1>3. CASE _dispatch_run
  <2>1. Takes("run") /\ work' = [work EXCEPT ![Taken] = "starting"] /\ UNCHANGED <<open, inbox, cut>>
    BY <1>3 DEF _dispatch_run
  <2>2. down[1].cmd = "run" /\ 1 \in 1..Len(down) /\ Taken = down[1].of
    BY <2>1, TakenFacts DEF Taken
  <2>3. Taken = Codex /\ work[Codex] = "none"
    BY <2>2 DEF NodeInv
  <2>4. \A q \in Runs : work'[q] = IF q = Codex THEN "starting" ELSE work[q]
    BY <1>0, <2>1, <2>3
  <2> QED BY <1>0, <2>1, <2>3, <2>4 DEF Reports, Grows
<1>4. CASE DispatchRaises \/ CancelRaises
  <2>1. Dropped
    BY <1>4 DEF DispatchRaises, CancelRaises
  <2>2. UNCHANGED <<open, cut>>
    BY <2>1 DEF Dropped
  <2> QED BY <1>0, <2>1, <2>2, DroppedFacts DEF Reports, Grows
<1>5. CASE _dispatch_text_instruction \/ _dispatch_audio_instruction
  <2>1. Taken \in Instructions
    BY <1>5, <1>t DEF _dispatch_text_instruction, _dispatch_audio_instruction
  <2>2. UNCHANGED <<open, work>> /\ (ReportFailed(Taken) \/ UNCHANGED <<inbox, cut>>)
    BY <1>5 DEF _dispatch_text_instruction, _dispatch_audio_instruction
  <2> QED BY <2>1, <2>2, ReportsFailed, ReportsSame
<1>6. CASE _cancel_run \/ _supply_interaction_response
  <2>1. UNCHANGED <<open, inbox, cut>>
    BY <1>6 DEF _cancel_run, _supply_interaction_response
  <2>2. \A q \in Runs : work'[q] = work[q] \/ (work[q] = "asking" /\ work'[q] \in {"turn", "ended"})
    BY <1>0, <1>6 DEF _cancel_run, _supply_interaction_response
  <2> QED BY <1>0, <2>1, <2>2 DEF Reports, Grows
<1>7. ASSUME NEW i \in Instructions, handle_text_instruction(i) \/ Unclear(i) PROVE Reports
  <2>1. UNCHANGED <<open, work>> /\ (ReportFailed(i) \/ UNCHANGED <<inbox, cut>>)
    BY <1>7 DEF handle_text_instruction, Unclear
  <2> QED BY <2>1, ReportsFailed, ReportsSame
<1>8. ASSUME NEW i \in Instructions, FollowUpAsks(i) \/ FollowUpEnds(i) PROVE Reports
  <2>1. inst[i] \in {"turn", "asking"} /\ UNCHANGED <<open, work, cut>>
    BY <1>8 DEF FollowUpAsks, FollowUpEnds
  <2>2. PICK e \in Events : inbox' = Published(Codex, e)
    BY <1>8, <1>e DEF FollowUpAsks, FollowUpEnds
  <2>3. work[Codex] = "ended"
    BY <2>1 DEF NodeInv
  <2> QED BY <1>0, <2>1, <2>2, <2>3, ReportsTold
<1>9. ASSUME NEW r \in Runs, RunBegins(r) PROVE Reports
  <2>1. \A q \in Runs : work'[q] = IF q = r THEN "opening" ELSE work[q]
    BY <1>0, <1>9 DEF RunBegins
  <2> QED BY <1>0, <1>9, <2>1 DEF RunBegins, Reports, Grows
<1>10. ASSUME NEW r \in Runs, RunOpens(r) PROVE Reports
  <2>1. CASE Ended(r, "failed")
    BY <1>10, <1>e, <2>1, ReportsEnded DEF RunOpens
  <2>2. CASE work' = [work EXCEPT ![r] = "turn"] /\ inbox' = inbox
    <3>1. \A q \in Runs : work'[q] = IF q = r THEN "turn" ELSE work[q]
      BY <1>0, <2>2
    <3> QED BY <1>0, <1>10, <2>2, <3>1 DEF RunOpens, Reports, Grows
  <2> QED BY <1>10, <2>1, <2>2 DEF RunOpens
<1>11. ASSUME NEW r \in Runs, AcpxTells(r) PROVE Reports
  <2>1. PICK e \in Events : inbox' = Published(r, e)
    BY <1>11, <1>e DEF AcpxTells
  <2>2. r # Codex /\ UNCHANGED <<open, cut>> /\ \A q \in Runs : q # r => work'[q] = work[q]
    BY <1>0, <1>11, RunInstructionsAssumption DEF AcpxTells, RunInstructionsAssumption
  <2> QED BY <2>1, <2>2, ReportsTold
<1>12. ASSUME NEW r \in Runs, AcpxExits(r) PROVE Reports
  <2>1. CASE \E e \in {"completed", "failed"} : Ended(r, e)
    BY <1>12, <1>e, <2>1, ReportsEnded DEF AcpxExits
  <2>2. CASE work[r] = "told" /\ work' = [work EXCEPT ![r] = "ended"] /\ UNCHANGED inbox
    <3>1. \A q \in Runs : work'[q] = IF q = r THEN "ended" ELSE work[q]
      BY <1>0, <2>2
    <3> QED BY <1>0, <1>12, <2>2, <3>1 DEF AcpxExits, Reports, Grows
  <2> QED BY <1>12, <2>1, <2>2 DEF AcpxExits
<1>13. CASE TurnAsks
  <2>1. /\ inbox' = Published(Codex, "blocked") /\ UNCHANGED <<open, cut>> /\ work[Codex] = "turn"
        /\ \A q \in Runs : q # Codex => work'[q] = work[q]
    BY <1>0, <1>13 DEF TurnAsks
  <2> QED BY <1>0, <1>e, <2>1, ReportsTold
<1>14. CASE TurnEnds \/ BlockedTimesOut
  BY <1>0, <1>14, <1>e, ReportsEnded DEF TurnEnds, BlockedTimesOut
<1> QED
  BY <1>1, <1>2, <1>3, <1>4, <1>5, <1>6, <1>7, <1>8, <1>9, <1>10, <1>11, <1>12, <1>13, <1>14
  DEF Next, Receive, Carry

\* A run's status changes when it is cancelled or its events are read.
LEMMA ServerStep ==
  ASSUME Next, ~AppServerDies
  PROVE  server' = server \/ \E r \in Runs : cancel_task(r) \/ ReadEvent(r)
BY Zenon DEF Next, Receive, Carry, serverVars, nodeVars, submit_executor_text_instruction,
   submit_executor_audio_instruction, TranscriptionTimesOut, handle_audio_transcript_event,
   Transcribed, OutboundEnds, answer_question, _transcribe_audio_instruction, _start_codex_turn,
   _dispatch_run, DispatchRaises, CancelRaises, Dropped, _dispatch_text_instruction,
   _dispatch_audio_instruction, _cancel_run, _supply_interaction_response, handle_text_instruction,
   Unclear, FollowUpAsks, FollowUpEnds, RunBegins, RunOpens, AcpxTells, AcpxExits, TurnAsks,
   TurnEnds, BlockedTimesOut

LEMMA EventsStep ==
  ASSUME IInv, Next, ~AppServerDies
  PROVE  HeardInv' /\ QueueInv' /\ OverInv' /\ (~ActiveRun(Codex) => ~ActiveRun(Codex)')
<1>0. Codex \in Runs /\ TypeOK /\ HeardInv /\ QueueInv /\ OverInv /\ NodeInv
  BY DEF Runs, IInv
<1>s. server \in [Runs -> {"assigned", "blocked", "completed", "failed", "cancelled", "waiting_executor"}]
  BY <1>0 DEF TypeOK
<1>1. ASSUME NEW r \in Runs, ReadEvent(r)
      PROVE  HeardInv' /\ QueueInv' /\ OverInv' /\ (~ActiveRun(Codex) => ~ActiveRun(Codex)')
  <2>1. inbox[r] # <<>> /\ open' = open \ {r} /\ UNCHANGED <<work, cut>>
    BY <1>1 DEF ReadEvent, nodeVars
  <2>2. \A q \in Runs : inbox'[q] = IF q = r THEN <<>> ELSE inbox[q]
    BY <1>0, <1>1 DEF ReadEvent, TypeOK
  <2>3. \A q \in Runs : server'[q] = IF q # r \/ server[q] = "cancelled" THEN server[q]
                                     ELSE IF Head(inbox[r]) = "proposal" THEN "blocked" ELSE Head(inbox[r])
    BY <1>1, <1>s DEF ReadEvent
  <2>4. HeardInv' /\ QueueInv'
    BY <1>0, <2>1, <2>2, <2>3 DEF HeardInv, QueueInv
  <2>5. server[r] \in {"assigned", "cancelled"}
    BY <1>0, <2>1 DEF QueueInv
  <2>6. ~ActiveRun(Codex) => ~ActiveRun(Codex)'
    BY <1>0, <2>3, <2>5 DEF ActiveRun
  <2>7. OverInv'
    <3>1. CASE r # Codex
      BY <1>0, <2>1, <2>2, <2>3, <3>1 DEF OverInv, Over, ActiveRun
    <3>2. CASE r = Codex
      <4>1. inbox'[Codex] = <<>>
        BY <1>0, <2>2, <3>2
      <4>2. server'[Codex] \notin {"assigned", "blocked"} =>
              \/ server[Codex] \notin {"assigned", "blocked"}
              \/ Head(inbox[Codex]) \notin {"blocked", "proposal"}
        BY <1>0, <2>3, <2>5, <3>2
      <4> QED BY <1>0, <2>1, <3>2, <4>1, <4>2 DEF OverInv, Over, ActiveRun
    <3> QED BY <3>1, <3>2
  <2> QED BY <2>4, <2>6, <2>7
<1>2. CASE Reports
  <2>1. HeardInv'
    BY <1>0, <1>2 DEF Reports, Grows, HeardInv
  <2>2. Over => Over'
    BY <1>2 DEF Reports, Over
  <2>3. inbox'[Codex] # <<>> /\ Head(inbox'[Codex]) \notin {"blocked", "proposal"} => Over'
    BY <1>0, <1>2, <2>2 DEF Reports, Grows, Over, OverInv
  <2>4. ASSUME NEW r \in Runs, inbox'[r] # <<>> PROVE r \in open'
    BY <1>0, <1>2, <2>4 DEF Reports, Grows, QueueInv
  <2>5. CASE server' = server
    BY <1>0, <1>2, <2>1, <2>2, <2>3, <2>4, <2>5 DEF Reports, QueueInv, OverInv, ActiveRun
  <2>6. ASSUME NEW r \in Runs, cancel_task(r)
        PROVE  HeardInv' /\ QueueInv' /\ OverInv' /\ (~ActiveRun(Codex) => ~ActiveRun(Codex)')
    <3>1. r \in cut' /\ open' = open /\ \A q \in Runs : server'[q] = IF q = r THEN "cancelled" ELSE server[q]
      BY <1>s, <2>6 DEF cancel_task
    <3>2. QueueInv' /\ (~ActiveRun(Codex) => ~ActiveRun(Codex)')
      BY <1>0, <2>4, <3>1 DEF QueueInv, ActiveRun
    <3>3. OverInv'
      BY <1>0, <2>2, <2>3, <3>1 DEF OverInv, ActiveRun, Over
    <3> QED BY <2>1, <3>2, <3>3
  <2> QED BY <1>1, <2>5, <2>6, ServerStep
<1> QED BY <1>0, <1>1, <1>2, ReportsStep

-----------------------------------------------------------------------------
(* The node *)

\* Each command is one that was there, or is put behind with no new run.
LEMMA CommandStep ==
  ASSUME TypeOK, NodeInv, Next, ~AppServerDies
  PROVE  /\ Receive => \A k \in 1..Len(down') : down'[k].cmd # "run"
         /\ ~Receive => \A k \in 1..Len(down') : down'[k].cmd = "run" => k \in 1..Len(down) /\ down'[k] = down[k]
         /\ \A k \in 1..Len(down') : \/ \E j \in 1..Len(down) : down'[k] = down[j]
                                     \/ down'[k].cmd # "turn"
                                     \/ ~ActiveRun(Codex)
                                     \/ \E i \in Instructions : inst[i] = "posted"
<1> USE DEF serverVars, nodeVars
<1> DEFINE OldOr(x) == \A k \in 1..Len(down') : down'[k] = x \/ (k \in 1..Len(down) /\ down'[k] = down[k])
           Goal == /\ \A k \in 1..Len(down') : down'[k].cmd = "run" => k \in 1..Len(down) /\ down'[k] = down[k]
                   /\ \A k \in 1..Len(down') : \/ \E j \in 1..Len(down) : down'[k] = down[j]
                                               \/ down'[k].cmd # "turn"
                                               \/ ~ActiveRun(Codex)
                                               \/ \E i \in Instructions : inst[i] = "posted"
           Received == \A k \in 1..Len(down') : /\ down'[k].cmd # "run"
                                                /\ \E j \in 1..Len(down) : down'[k] = down[j]
<1>0. Codex \in Runs
  BY DEF Runs
<1>1. ASSUME NEW x \in Command, down' = Append(down, x) PROVE OldOr(x)
  BY <1>1, AppendFacts
<1>2. ASSUME NEW m, Takes(m) PROVE Received
  <2>1. \A k \in 1..Len(down') : k + 1 \in 2..Len(down) /\ down'[k] = down[k + 1]
    BY <1>2, TakenFacts
  <2>2. \A j \in 2..Len(down) : j \in 1..Len(down) /\ j # 1
    BY DEF TypeOK
  <2> QED BY <2>1, <2>2 DEF NodeInv
<1>4. ASSUME NEW x \in Command, OldOr(x), x.cmd # "run",
             x.cmd # "turn" \/ ~ActiveRun(Codex) \/ \E i \in Instructions : inst[i] = "posted"
      PROVE  Goal
  BY <1>4
<1>5. ASSUME down' = down PROVE Goal
  BY <1>5
<1> HIDE DEF Goal, Received, OldOr
<1>6. ASSUME NEW i \in Instructions,
             submit_executor_text_instruction(i) \/ submit_executor_audio_instruction(i) \/ Transcribed(i)
      PROVE  \/ down' = down
             \/ \E m \in {"text", "audio", "transcribe"} : down' = Append(down, [cmd |-> m, of |-> i])
             \/ /\ down' = Append(down, [cmd |-> "turn", of |-> i])
                /\ ~ActiveRun(Codex) \/ inst[i] = "posted"
  BY <1>6 DEF submit_executor_text_instruction, submit_executor_audio_instruction, Transcribed, Sent,
     submit_text_instruction, submit_audio_instruction, Refused
<1>7. ASSUME NEW r \in Runs, cancel_task(r)
      PROVE  down' = down \/ down' = Append(down, [cmd |-> "cancel", of |-> r])
  BY <1>7 DEF cancel_task
<1>8. ASSUME answer_question PROVE Goal
  BY <1>0, <1>1, <1>4, <1>8, CommandFacts DEF answer_question
<1>9. ASSUME Receive PROVE Received
  <2>1. CASE DispatchRaises \/ CancelRaises
    <3>1. down' = <<>>
      BY <2>1 DEF DispatchRaises, CancelRaises, Dropped
    <3> QED BY <3>1 DEF Received
  <2>2. CASE \E m : Takes(m)
    BY <1>2, <2>2
  <2> QED BY <1>9, <2>1, <2>2 DEF Receive, _dispatch_run, _dispatch_text_instruction,
    _dispatch_audio_instruction, _transcribe_audio_instruction, _start_codex_turn, _cancel_run,
    _supply_interaction_response
<1>10. ASSUME NEW i \in Instructions,
             \/ TranscriptionTimesOut(i) \/ handle_text_instruction(i) \/ FollowUpEnds(i)
             \/ handle_audio_transcript_event(i) \/ Unclear(i) \/ FollowUpAsks(i) \/ OutboundEnds(i)
      PROVE  down' = down
  BY <1>10, Zenon DEF TranscriptionTimesOut, handle_text_instruction, FollowUpEnds,
     handle_audio_transcript_event, Unclear, FollowUpAsks, OutboundEnds
<1>11. ASSUME NEW r \in Runs, ReadEvent(r) \/ RunBegins(r) \/ RunOpens(r) \/ AcpxTells(r) \/ AcpxExits(r)
      PROVE  down' = down
  BY <1>11, Zenon DEF ReadEvent, RunBegins, RunOpens, AcpxTells, AcpxExits
<1>12. ASSUME TurnAsks \/ TurnEnds \/ BlockedTimesOut PROVE Goal
  <2>1. down' = down
    BY <1>12, Zenon DEF TurnAsks, TurnEnds, BlockedTimesOut
  <2> QED BY <1>5, <2>1
<1>13. ASSUME NEW i \in Instructions, NEW m \in {"text", "audio", "transcribe"}, down' = Append(down, [cmd |-> m, of |-> i])
       PROVE  OldOr([cmd |-> m, of |-> i]) /\ [cmd |-> m, of |-> i] \in Command
  BY <1>1, <1>13, CommandFacts
<1>14. ASSUME NEW i \in Instructions, down' = Append(down, [cmd |-> "turn", of |-> i])
       PROVE  OldOr([cmd |-> "turn", of |-> i]) /\ [cmd |-> "turn", of |-> i] \in Command
  BY <1>1, <1>14, CommandFacts
<1>15. ASSUME NEW r \in Runs, down' = Append(down, [cmd |-> "cancel", of |-> r])
       PROVE  OldOr([cmd |-> "cancel", of |-> r]) /\ [cmd |-> "cancel", of |-> r] \in Command
  BY <1>1, <1>15, CommandFacts
<1>16. ASSUME NEW i \in Instructions,
             submit_executor_text_instruction(i) \/ submit_executor_audio_instruction(i) \/ Transcribed(i)
      PROVE  down' = down \/ \E x \in Command : /\ OldOr(x) /\ x.cmd # "run"
                                                /\ x.cmd # "turn" \/ ~ActiveRun(Codex) \/ inst[i] = "posted"
  BY <1>6, <1>13, <1>14, <1>16
<1>17. ASSUME NEW r \in Runs, cancel_task(r)
       PROVE  down' = down \/ \E x \in Command : OldOr(x) /\ x.cmd = "cancel"
  BY <1>7, <1>15, <1>17
<1>18. CASE Receive
  BY <1>9, <1>18 DEF Received
<1>19. CASE ~Receive
  <2>1. Goal
    BY <1>4, <1>5, <1>8, <1>10, <1>11, <1>12, <1>16, <1>17, <1>19 DEF Next, Carry
  <2> QED BY <1>19, <2>1 DEF Goal
<1> QED BY <1>18, <1>19

\* What NodeInv says apart from the commands.
RunInv ==
  /\ Codex \in known => TurnLocked
  /\ \A i \in Instructions : inst[i] = "waiting" => TurnLocked \/ work[Codex] = "ended"
  /\ \A i \in Instructions : inst[i] \in {"turn", "asking"} => work[Codex] = "ended"

\* No instruction begins to be carried out.
NoFollowUp == \A i \in Instructions : inst'[i] = inst[i] \/ inst'[i] \notin {"waiting", "turn", "asking"}

LEMMA RunSame ==
  ASSUME RunInv, UNCHANGED <<work, known>>, NoFollowUp
  PROVE  RunInv'
BY DEF RunInv, NoFollowUp, TurnLocked

LEMMA RunReceive ==
  ASSUME TypeOK, NodeInv, Receive
  PROVE  RunInv'
<1> USE DEF serverVars, nodeVars
<1>0. Codex \in Runs /\ work \in [Runs -> Works] /\ inst \in [Instructions -> Fates] /\ RunInv
  BY DEF Runs, TypeOK, Works, Fates, NodeInv, RunInv
<1>1. CASE _dispatch_run
  <2>1. Takes("run") /\ work' = [work EXCEPT ![Taken] = "starting"] /\ UNCHANGED <<known, inst>>
    BY <1>1 DEF _dispatch_run
  <2>2. down[1].cmd = "run" /\ 1 \in 1..Len(down) /\ Taken = down[1].of
    BY <2>1, TakenFacts DEF Taken
  <2>3. Taken = Codex /\ work[Codex] = "none"
    BY <2>2 DEF NodeInv
  <2>4. work'[Codex] = "starting"
    BY <1>0, <2>1, <2>3
  <2> QED BY <1>0, <2>1, <2>3, <2>4 DEF RunInv, TurnLocked
<1>2. CASE DispatchRaises \/ CancelRaises
  <2>1. Dropped
    BY <1>2 DEF DispatchRaises, CancelRaises
  <2>2. known' = {} /\ work'[Codex] = "ended"
    BY <1>0, <2>1 DEF Dropped
  <2> QED BY <2>2 DEF RunInv
<1>3. CASE _dispatch_text_instruction \/ _dispatch_audio_instruction
  <2>1. Taken \in Instructions /\ UNCHANGED <<work, known>>
    BY <1>3, TakenFacts, CommandFacts DEF Taken, _dispatch_text_instruction, _dispatch_audio_instruction
  <2>2. CASE ReportFailed(Taken)
    <3>1. NoFollowUp
      BY <2>1, <2>2, ReportFailedFacts DEF NoFollowUp
    <3> QED BY <1>0, <2>1, <3>1, RunSame
  <2>3. CASE Codex \in known /\ inst' = [inst EXCEPT ![Taken] = "waiting"]
    BY <1>0, <2>1, <2>3 DEF RunInv, TurnLocked
  <2>4. CASE inst' = [inst EXCEPT ![Taken] = "hearing"]
    <3>1. NoFollowUp
      BY <1>0, <2>1, <2>4 DEF NoFollowUp
    <3> QED BY <1>0, <2>1, <3>1, RunSame
  <2> QED BY <1>3, <2>2, <2>3, <2>4, Zenon DEF _dispatch_text_instruction, _dispatch_audio_instruction
<1>4. CASE _transcribe_audio_instruction \/ _start_codex_turn
  <2>1. UNCHANGED <<work, known>> /\ (inst' = inst \/ inst' = [inst EXCEPT ![Taken] = "outbound"])
    BY <1>4, Zenon DEF _transcribe_audio_instruction, _start_codex_turn
  <2>2. NoFollowUp
    BY <1>0, <2>1 DEF NoFollowUp
  <2> QED BY <1>0, <2>1, <2>2, RunSame
<1>5. CASE _cancel_run
  <2>1. inst' = inst
    BY <1>5 DEF _cancel_run
  <2>2. \/ UNCHANGED <<known, work>>
        \/ known' = known \ {Codex} /\ (work'[Codex] = work[Codex] \/ (work[Codex] = "asking" /\ work'[Codex] = "ended"))
    BY <1>0, <1>5 DEF _cancel_run
  <2> QED BY <1>0, <2>1, <2>2 DEF RunInv, TurnLocked
<1>6. CASE _supply_interaction_response
  <2>1. UNCHANGED <<inst, known>> /\ (work'[Codex] = work[Codex] \/ (work[Codex] = "asking" /\ work'[Codex] = "turn"))
    BY <1>0, <1>6 DEF _supply_interaction_response
  <2> QED BY <1>0, <2>1 DEF RunInv, TurnLocked
<1> QED BY <1>1, <1>2, <1>3, <1>4, <1>5, <1>6 DEF Receive

LEMMA RunCarry ==
  ASSUME TypeOK, RunInv, NEW i \in Instructions,
         \/ submit_executor_text_instruction(i) \/ submit_executor_audio_instruction(i)
         \/ TranscriptionTimesOut(i) \/ Carry(i) \/ FollowUpAsks(i) \/ OutboundEnds(i)
  PROVE  RunInv' /\ UNCHANGED work
<1> USE DEF serverVars, nodeVars
<1>0. inst \in [Instructions -> Fates]
  BY DEF TypeOK, Fates
<1>w. UNCHANGED <<work, known>>
  BY Zenon DEF Carry, submit_executor_text_instruction, submit_executor_audio_instruction,
     TranscriptionTimesOut, handle_text_instruction, FollowUpEnds, handle_audio_transcript_event,
     Unclear, Transcribed, FollowUpAsks, OutboundEnds
<1>1. CASE \/ submit_executor_text_instruction(i) \/ submit_executor_audio_instruction(i)
           \/ TranscriptionTimesOut(i) \/ FollowUpEnds(i) \/ handle_audio_transcript_event(i)
           \/ Transcribed(i) \/ OutboundEnds(i)
  <2>1. \E x \in {"sent", "posted", "refused", "done", "task", "lost"} : inst' = [inst EXCEPT ![i] = x]
    BY <1>1, Zenon DEF submit_executor_text_instruction, submit_executor_audio_instruction,
       submit_text_instruction, submit_audio_instruction, Sent, Refused, TranscriptionTimesOut,
       FollowUpEnds, handle_audio_transcript_event, _start_text_task_from_direct_input, Transcribed,
       OutboundEnds
  <2>2. NoFollowUp
    BY <1>0, <2>1 DEF NoFollowUp
  <2> QED BY <1>w, <2>2, RunSame
<1>2. CASE ReportFailed(i)
  <2>1. NoFollowUp
    BY <1>2, ReportFailedFacts DEF NoFollowUp
  <2> QED BY <1>w, <2>1, RunSame
<1>3. CASE /\ inst[i] \in {"waiting", "turn"} /\ (inst[i] = "waiting" => ~TurnLocked)
           /\ \E x \in {"turn", "asking"} : inst' = [inst EXCEPT ![i] = x]
  <2>1. work[Codex] = "ended"
    BY <1>3 DEF RunInv
  <2> QED BY <1>0, <1>3, <1>w, <2>1 DEF RunInv, TurnLocked
<1>4. CASE handle_text_instruction(i)
  BY <1>2, <1>3, <1>4, <1>w DEF handle_text_instruction
<1>5. CASE Unclear(i)
  BY <1>2, <1>5, <1>w DEF Unclear
<1>6. CASE FollowUpAsks(i)
  BY <1>3, <1>6, <1>w DEF FollowUpAsks
<1> QED BY <1>1, <1>4, <1>5, <1>6 DEF Carry

LEMMA RunWorks ==
  ASSUME TypeOK, RunInv,
         \/ \E r \in Runs : \/ cancel_task(r) \/ ReadEvent(r) \/ RunBegins(r) \/ RunOpens(r)
                            \/ AcpxTells(r) \/ AcpxExits(r)
         \/ answer_question \/ TurnAsks \/ TurnEnds \/ BlockedTimesOut
  PROVE  RunInv' /\ (work[Codex] = "none" => work'[Codex] = "none")
<1> USE DEF serverVars, nodeVars
<1>0. Codex \in Runs /\ Codex \notin Acpx /\ work \in [Runs -> Works] /\ known \subseteq Runs
  BY RunInstructionsAssumption DEF RunInstructionsAssumption, Runs, TypeOK, Works
<1>i. inst' = inst
  BY Zenon DEF cancel_task, ReadEvent, RunBegins, RunOpens, AcpxTells, AcpxExits, answer_question,
     TurnAsks, TurnEnds, BlockedTimesOut
<1>1. CASE \/ \E r \in Runs : cancel_task(r) \/ ReadEvent(r)
           \/ answer_question
  <2>1. UNCHANGED <<work, known>>
    BY <1>1 DEF cancel_task, ReadEvent, answer_question
  <2> QED BY <1>i, <2>1, RunSame DEF NoFollowUp
<1>2. ASSUME NEW r \in Runs, NEW e \in Events, Ended(r, e), work[r] # "none"
      PROVE  RunInv' /\ (work[Codex] = "none" => work'[Codex] = "none")
  <2>1. known' = known \ {r} /\ \A q \in Runs : work'[q] = IF q = r THEN "ended" ELSE work[q]
    BY <1>2, EndedFacts
  <2> QED BY <1>0, <1>2, <1>i, <2>1 DEF RunInv, TurnLocked
<1>e. {"completed", "failed", "proposal", "cancelled", "blocked"} \subseteq Events
  BY DEF Events
<1>3. ASSUME NEW r \in Runs, RunBegins(r) PROVE RunInv' /\ (work[Codex] = "none" => work'[Codex] = "none")
  <2>1. /\ work[r] = "starting" /\ known' = known \cup {r}
        /\ \A q \in Runs : work'[q] = IF q = r THEN "opening" ELSE work[q]
    BY <1>0, <1>3 DEF RunBegins
  <2> QED BY <1>0, <1>i, <2>1 DEF RunInv, TurnLocked
<1>4. ASSUME NEW r \in Runs, RunOpens(r) PROVE RunInv' /\ (work[Codex] = "none" => work'[Codex] = "none")
  <2>1. work[r] = "opening"
    BY <1>4 DEF RunOpens
  <2>2. CASE work' = [work EXCEPT ![r] = "turn"] /\ UNCHANGED known
    <3>1. \A q \in Runs : work'[q] = IF q = r THEN "turn" ELSE work[q]
      BY <1>0, <2>2
    <3> QED BY <1>0, <1>i, <2>1, <2>2, <3>1 DEF RunInv, TurnLocked
  <2> QED BY <1>2, <1>4, <1>e, <2>1, <2>2 DEF RunOpens
<1>5. ASSUME NEW r \in Runs, AcpxTells(r) \/ AcpxExits(r)
      PROVE  RunInv' /\ (work[Codex] = "none" => work'[Codex] = "none")
  <2>1. r \in Acpx /\ r # Codex
    BY <1>0, <1>5 DEF AcpxTells, AcpxExits
  <2>2. work'[Codex] = work[Codex] /\ (Codex \in known' <=> Codex \in known)
    BY <1>0, <1>5, <2>1 DEF AcpxTells, AcpxExits, Ended
  <2> QED BY <1>i, <2>2 DEF RunInv, TurnLocked
<1>6. CASE TurnAsks
  <2>1. work[Codex] = "turn" /\ work'[Codex] = "asking" /\ UNCHANGED known
    BY <1>0, <1>6 DEF TurnAsks
  <2> QED BY <1>i, <2>1 DEF RunInv, TurnLocked
<1>7. CASE TurnEnds \/ BlockedTimesOut
  BY <1>0, <1>2, <1>7, <1>e DEF TurnEnds, BlockedTimesOut
<1> QED BY <1>1, <1>3, <1>4, <1>5, <1>6, <1>7

LEMMA NodeStep ==
  ASSUME TypeOK, NodeInv, Next, ~AppServerDies
  PROVE  NodeInv'
<1>0. RunInv
  BY DEF NodeInv, RunInv
<1>1. CASE Receive
  <2>1. RunInv' /\ \A k \in 1..Len(down') : down'[k].cmd # "run"
    BY <1>1, CommandStep, RunReceive
  <2> QED BY <2>1 DEF RunInv, NodeInv
<1>2. CASE ~Receive
  <2>1. RunInv' /\ (work[Codex] = "none" => work'[Codex] = "none")
    BY <1>0, <1>2, RunCarry, RunWorks DEF Next
  <2>2. \A k \in 1..Len(down') : down'[k].cmd = "run" => k \in 1..Len(down) /\ down'[k] = down[k]
    BY <1>2, CommandStep
  <2> QED BY <2>1, <2>2 DEF RunInv, NodeInv
<1> QED BY <1>1, <1>2

-----------------------------------------------------------------------------
(* Turns of their own *)

\* An instruction gets a turn of its own when its command is carried out, and
\* its transcript is waited for when there is no active run.
LEMMA FateStep ==
  ASSUME TypeOK, Next, ~AppServerDies, NEW i \in Instructions, inst'[i] \in {"posted", "outbound"}
  PROVE  \/ inst'[i] = inst[i] \/ ~ActiveRun(Codex)
         \/ 1 \in 1..Len(down) /\ down[1].cmd = "turn"
<1> USE DEF serverVars, nodeVars
<1>0. inst \in [Instructions -> Fates]
  BY DEF TypeOK, Fates
<1>1. CASE Receive
  <2>1. CASE DispatchRaises \/ CancelRaises
    BY <2>1, DroppedFacts DEF DispatchRaises, CancelRaises
  <2>2. CASE _dispatch_text_instruction \/ _dispatch_audio_instruction
    <3>1. Taken \in Instructions
      BY <2>2, TakenFacts, CommandFacts DEF Taken, _dispatch_text_instruction, _dispatch_audio_instruction
    <3>2. ReportFailed(Taken) \/ \E x \in {"waiting", "hearing"} : inst' = [inst EXCEPT ![Taken] = x]
      BY <2>2 DEF _dispatch_text_instruction, _dispatch_audio_instruction
    <3> QED BY <1>0, <3>1, <3>2, ReportFailedFacts
  <2>3. CASE _start_codex_turn
    BY <2>3, TakenFacts DEF _start_codex_turn
  <2>4. CASE \/ _dispatch_run \/ _transcribe_audio_instruction \/ _cancel_run
             \/ _supply_interaction_response
    <3>1. inst' = inst
      BY <2>4, Zenon DEF _dispatch_run, _transcribe_audio_instruction, _cancel_run, _supply_interaction_response
    <3> QED BY <3>1
  <2> QED BY <1>1, <2>1, <2>2, <2>3, <2>4 DEF Receive
<1>2. ASSUME NEW j \in Instructions,
             \/ submit_executor_text_instruction(j) \/ submit_executor_audio_instruction(j)
             \/ TranscriptionTimesOut(j) \/ Carry(j) \/ FollowUpAsks(j) \/ OutboundEnds(j)
      PROVE  inst'[i] = inst[i] \/ ~ActiveRun(Codex)
  <2>1. \/ ReportFailed(j)
        \/ inst' = [inst EXCEPT ![j] = "posted"] /\ ~ActiveRun(Codex)
        \/ \E x \in {"sent", "refused", "done", "task", "lost", "turn", "asking"} : inst' = [inst EXCEPT ![j] = x]
    BY <1>2 DEF Carry, submit_executor_text_instruction, submit_executor_audio_instruction,
       submit_text_instruction, submit_audio_instruction, Sent, Refused, TranscriptionTimesOut,
       handle_text_instruction, FollowUpEnds, handle_audio_transcript_event, Unclear,
       _start_text_task_from_direct_input, Transcribed, FollowUpAsks, OutboundEnds
  <2> QED BY <1>0, <2>1, ReportFailedFacts
<1>3. CASE \/ \E r \in Runs : \/ cancel_task(r) \/ ReadEvent(r) \/ RunBegins(r) \/ RunOpens(r)
                              \/ AcpxTells(r) \/ AcpxExits(r)
           \/ answer_question \/ TurnAsks \/ TurnEnds \/ BlockedTimesOut
  <2>1. inst' = inst
    BY <1>3, Zenon DEF cancel_task, ReadEvent, RunBegins, RunOpens, AcpxTells, AcpxExits,
       answer_question, TurnAsks, TurnEnds, BlockedTimesOut
  <2> QED BY <2>1
<1> QED BY <1>1, <1>2, <1>3 DEF Next

LEMMA OwnTurnStep ==
  ASSUME IInv, Next, ~AppServerDies
  PROVE  OwnTurnInv'
<1>0. TypeOK /\ NodeInv /\ OwnTurnInv
  BY DEF IInv
<1>1. ~ActiveRun(Codex) => ~ActiveRun(Codex)'
  BY EventsStep
<1>2. ASSUME NEW i \in Instructions, inst'[i] \in {"posted", "outbound"} PROVE ~ActiveRun(Codex)
  BY <1>0, <1>2, FateStep DEF OwnTurnInv
<1>3. ASSUME NEW k \in 1..Len(down'), down'[k].cmd = "turn" PROVE ~ActiveRun(Codex)
  BY <1>0, <1>3, CommandStep DEF OwnTurnInv
<1> QED BY <1>1, <1>2, <1>3 DEF OwnTurnInv

-----------------------------------------------------------------------------
(* The theorems *)

LEMMA IInvStep == IInv /\ [Next]_vars => IInv'
<1> SUFFICES ASSUME IInv, [Next]_vars PROVE IInv'
  OBVIOUS
<1>1. TypeOK'
  BY TypeStep DEF IInv
<1>2. CASE Next
  <2>1. CASE ~AppServerDies
    BY <1>1, <1>2, <2>1, EventsStep, NodeStep, OwnTurnStep DEF IInv
  <2>2. CASE AppServerDies
    BY <1>1, <2>2 DEF AppServerDies, serverVars, IInv, HeardInv, QueueInv, OverInv, Over, NodeInv,
       OwnTurnInv, ActiveRun, TurnLocked
  <2> QED BY <2>1, <2>2
<1>3. CASE UNCHANGED vars
  BY <1>1, <1>3 DEF vars, serverVars, nodeVars, IInv, HeardInv, QueueInv, OverInv, Over, NodeInv,
     OwnTurnInv, ActiveRun, TurnLocked
<1> QED BY <1>2, <1>3

(***************************************************************************)
(* The inductive invariant holds throughout, the types included: what the  *)
(* server has read of the thread's run, the events in its queue and the    *)
(* work at the node agree (publish_run_event, run_task, _handle_message).  *)
(***************************************************************************)
THEOREM InstructionsInvariant == Spec => []IInv
<1>1. Init => IInv
  BY IInvInit
<1>2. IInv /\ [Next]_vars => IInv'
  BY IInvStep
<1> QED BY <1>1, <1>2, PTL DEF Spec

(***************************************************************************)
(* No run of either adapter ends at the node without an event for the      *)
(* server that still reads it (run_task, _stream_turn_events).             *)
(***************************************************************************)
THEOREM RunsEndHeard == Spec => []NoSilentEnd
<1>1. HeardInv => NoSilentEnd
  BY DEF HeardInv, NoSilentEnd
<1> QED BY <1>1, InstructionsInvariant, PTL DEF IInv

(***************************************************************************)
(* While the thread's run works at the node, and was neither cancelled nor *)
(* failed by an instruction, no instruction has a turn of its own there    *)
(* (submit_text_instruction, _start_codex_turn).                           *)
(***************************************************************************)
THEOREM NoSecondTurn == Spec => []OneTurnPerThread
<1>1. IInv => OneTurnPerThread
  BY DEF IInv, OverInv, Over, OwnTurnInv, OneTurnPerThread, TurnLocked
<1> QED BY <1>1, InstructionsInvariant, PTL
=============================================================================
