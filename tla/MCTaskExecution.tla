-------------------------- MODULE MCTaskExecution --------------------------
(***************************************************************************)
(* Small instances of TaskExecution for TLC.                               *)
(***************************************************************************)
EXTENDS TaskExecution, TLC

CONSTANTS t1, t2, t3, p1, p2, n1, none

\* One task, two of one bro, or three of two bros.
SoloTask   == t1 :> p1
OnePersona == t1 :> p1 @@ t2 :> p1
ThreeTasks == t1 :> p1 @@ t2 :> p2 @@ t3 :> p1

OneBound == p1 :> n1
\* The second bro has no node of its own.
OneAway  == p1 :> n1 @@ p2 :> none
=============================================================================
