----------------------------- MODULE GraphUtil -----------------------------
(***************************************************************************)
(* utils/graph.go: a graph that is built node by node and edge by edge and   *)
(* refuses an edge that closes a cycle; CheckDAG and GetCycle sort it by     *)
(* Kahn's algorithm.                                                         *)
(***************************************************************************)
EXTENDS Integers, Sequences, FiniteSets, SequencesExt, Reachability

CONSTANT MaxEdges   \* bound: edges, which may be parallel

VARIABLES
  nodes,
  edges    \* node -> list of its successors

graphVars == <<nodes, edges>>

Init == nodes = {} /\ edges = <<>>

AddNode(n) ==
  /\ nodes' = nodes \cup {n}
  /\ edges' = [m \in nodes' |-> IF m \in nodes THEN edges[m] ELSE <<>>]

\* GetEdges: the edges <<ahead, place in its list, behind>>.
GetEdges == UNION {{<<n, i, edges[n][i]>> : i \in DOMAIN edges[n]} : n \in nodes}

After(S) == UNION {ToSet(edges[n]) : n \in S}

\* Mistake: only the successors of start are looked at.
HasEdge(start, target) == start = target \/ target \in After({start})

\* hasPath: breadth first, one layer at a time; no path has more layers than nodes.
HasPath(start, target) ==
  LET visited[k \in Nat] ==
        IF k = 0 THEN {start} ELSE visited[k - 1] \cup After(visited[k - 1])
  IN start = target \/ (start \in nodes /\ target \in visited[Cardinality(nodes)])

WouldCreateCycle(ahead, behind) == ahead = behind \/ HasPath(behind, ahead)

AddEdge(ahead, behind) ==
  /\ {ahead, behind} \subseteq nodes
  /\ ~WouldCreateCycle(ahead, behind)
  /\ Cardinality(GetEdges) < MaxEdges
  /\ edges' = [edges EXCEPT ![ahead] = Append(@, behind)]
  /\ UNCHANGED nodes

Count(n, m)  == Cardinality({i \in DOMAIN edges[n] : edges[n][i] = m})

\* One turn of the loop: the successors of the head lose one degree per edge.
Sort(st) ==
  LET current == Head(st.queue)
      left    == [m \in nodes |-> st.degree[m] - Count(current, m)]
      freed   == {m \in nodes : left[m] = 0 /\ st.degree[m] > 0}
  IN [queue |-> Tail(st.queue) \o SetToSeq(freed), degree |-> left,
      sorted |-> st.sorted + 1]

\* The state of the loop after all of it.
Sorted ==
  LET degree  == [m \in nodes |-> Cardinality({e \in GetEdges : e[3] = m})]
      start   == [queue |-> SetToSeq({m \in nodes : degree[m] = 0}),
                  degree |-> degree, sorted |-> 0]
      loop[k \in Nat] ==
        IF k = 0 THEN start
        ELSE IF loop[k - 1].queue = <<>> THEN loop[k - 1] ELSE Sort(loop[k - 1])
  IN loop[Cardinality(nodes)]

CheckDAG == Sorted.sorted = Cardinality(nodes)

\* The nodes with a degree left: {} stands for nil.
GetCycle == IF CheckDAG THEN {} ELSE {n \in nodes : Sorted.degree[n] > 0}

Next == \E a \in Nodes : AddNode(a) \/ \E b \in Nodes : AddEdge(a, b)
=============================================================================
