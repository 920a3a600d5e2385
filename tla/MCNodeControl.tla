--------------------------- MODULE MCNodeControl ---------------------------
(* An instance of NodeControl: a thread list or a transcription, and one workspace file. *)
EXTENDS NodeControl, TLC

CONSTANTS speech1, file1
MCKind == speech1 :> "transcribe" @@ file1 :> "file"
=============================================================================
