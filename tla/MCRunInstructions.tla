------------------------- MODULE MCRunInstructions -------------------------
(***************************************************************************)
(* A Codex run and one of acpx on a node, a text and an audio message.  *)
(***************************************************************************)
EXTENDS RunInstructions
=============================================================================
