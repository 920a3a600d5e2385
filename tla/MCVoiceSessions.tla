-------------------------- MODULE MCVoiceSessions --------------------------
(* An instance of VoiceSessions: two activations that ask for the same     *)
(* Newbro session, and two calls for one prepared session without one.     *)
EXTENDS VoiceSessions, TLC

MCPreparedOf == "a1" :> "p1" @@ "a2" :> "p2" @@ "a3" :> "p3" @@ "a4" :> "p3"
MCSessionOf == "p1" :> "s1" @@ "p2" :> "s1" @@ "p3" :> "none"
=============================================================================
