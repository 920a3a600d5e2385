------------------------- MODULE MCSpeechSessions -------------------------
(* An instance of SpeechSessions for TLC. *)
EXTENDS SpeechSessions
=============================================================================
