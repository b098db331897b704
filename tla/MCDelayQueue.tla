---------------------------- MODULE MCDelayQueue ----------------------------
(* Instances of DelayQueue for TLC.                                          *)
EXTENDS DelayQueue

CONSTANTS m1, m2, p1, p2, w1, w2, w3

\* Two processes: two workers in the first, one in the second.
TwoProcs == [w \in {w1, w2, w3} |-> IF w = w3 THEN p2 ELSE p1]
=============================================================================
