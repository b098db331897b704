----------------------------- MODULE MCServices -----------------------------
(* Small instances of the parts of Services.                                *)
EXTENDS Services, MCMigrator

CONSTANTS v1, v2, v3, v4

\* A node is queued twice only where two paths meet: four nodes and edges.
SmallGraphs ==
  SUBSET ({v1, v2, v3} \X {v1, v2, v3}) \cup
  {G \in SUBSET {e \in Edge : e[1] # e[2]} : Cardinality(G) <= 4}
=============================================================================
