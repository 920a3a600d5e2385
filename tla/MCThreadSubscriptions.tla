----------------------- MODULE MCThreadSubscriptions -----------------------
(* A Bro with two threads, and calls that are interchangeable.             *)
EXTENDS ThreadSubscriptions, TLC

CONSTANTS c1, c2, c3, t1, t2

CallSymmetry == Permutations(Calls) \cup Permutations(Threads)
=============================================================================
