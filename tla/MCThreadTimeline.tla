------------------------- MODULE MCThreadTimeline -------------------------
(* Instances of ThreadTimeline for TLC. *)
EXTENDS ThreadTimeline

\* One turn, that narrates and answers, proposes a plan, or asks.
MCScripts == <<{<<"user", "commentary", "final">>, <<"user", "plan">>, <<"blocked">>}>>
=============================================================================
