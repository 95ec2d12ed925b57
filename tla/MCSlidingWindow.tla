-------------------------- MODULE MCSlidingWindow ---------------------------
(* SlidingWindow for TLC.  Requests that may fail are interchangeable, and *)
(* so are the others: no action and no property names one of them.         *)
EXTENDS SlidingWindow, TLC

RequestSymmetry ==
    {p @@ q : p \in Permutations(Requests \ Failing), q \in Permutations(Failing)}
=============================================================================
