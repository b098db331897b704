----------------------------- MODULE MCRequests -----------------------------
(* Small instances of the parts of Requests. *)
EXTENDS Requests, TLC

CONSTANTS a, b,           \* nodes of the canvas besides the root
          user1, user2, q1, q2, t0, t1

\* The database of the default tenant is the configured one.
TwoDatabases == [t \in {t0, t1} |-> IF t = t0 THEN "mytest" ELSE "other"]

Symm == Permutations({a, b}) \cup Permutations({q1, q2}) \cup Permutations({user1, user2})
=============================================================================
