---------------------------- MODULE Reachability ----------------------------
(***************************************************************************)
(* Directed graphs given by a set E of pairs <<from, to>> over Nodes, with  *)
(* reachability and acyclicity stated by closed sets instead of paths, so   *)
(* that neither definition is recursive.                                    *)
(***************************************************************************)
CONSTANT Nodes

Edge == Nodes \X Nodes

Succ(E, n) == {m \in Nodes : <<n, m>> \in E}

\* S contains the successors of its members.
Closed(E, S) == \A n \in S : \A m \in Nodes : <<n, m>> \in E => m \in S

\* b can be reached from a along E: it is in every closed set a is in.
Reach(E, a, b) == \A S \in SUBSET Nodes : a \in S /\ Closed(E, S) => b \in S

\* Every non-empty set of nodes has a member with no successor in the set.
Acyclic(E) ==
  \A S \in SUBSET Nodes :
    S # {} => \E n \in S : \A m \in S : <<n, m>> \notin E
=============================================================================
