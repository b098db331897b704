--------------------------- MODULE InstanceDepend ---------------------------
(***************************************************************************)
(* DAG instantiation (service/dispatchserver/dag.go): Build makes a graph   *)
(* of the nodes and lines of the canvas, CreateInstance gives each node its *)
(* instances of the day, ascending in time, and BuildInstanceDepend walks,  *)
(* for every node and each of its upstream nodes, two indices backwards     *)
(* over their instances.  Instance k of node n is <<n, k>>, k counted from  *)
(* 1 as in NodeInstance.Index; the maps are walked in any order.            *)
(***************************************************************************)
EXTENDS Integers, Sequences, FiniteSets

CONSTANTS
  Nodes,      \* ids of canvas nodes
  Root,       \* the node InstanceCreate is called with
  Instants,   \* times a schedule can fire at
  MaxFirings, \* bound: instances of a node
  MaxLines,   \* bound: lines of the canvas
  NoNode

ASSUME RootAssumption     == Root \in Nodes
ASSUME InstantsAssumption == Instants \subseteq Int
ASSUME FiringsAssumption  == MaxFirings \in Nat \ {0} /\ MaxLines \in Nat
ASSUME NoNodeAssumption   == NoNode \notin Nodes

VARIABLES
  lines,     \* the lines read from the table, as pairs <<ahead, behind>>
  existing,  \* the nodes read from the table
  times,     \* times[n]: the ExecuteTimes of the instances of n
  nodesLeft, \* nodes BuildInstanceDepend was not called for yet
  node,      \* the node it runs for ...
  insLeft,   \* ... its upstream nodes not begun ...
  up,        \* ... and the upstream node it is at
  idx, pIdx, \* the indices into times[node] and times[up]; idx = 0: loop over
  depends    \* pairs <<instance waited for, instance that waits>>

inputs == <<lines, existing, times>>
vars   == <<lines, existing, times, nodesLeft, node, insLeft, up, idx, pIdx,
            depends>>

\* Build: Root and the ends of the lines, those that are nodes.
DagNodes == {n \in existing : n = Root \/ \E l \in lines : n \in {l[1], l[2]}}

\* The lines between them.
Edges == {l \in lines : l[1] \in DagNodes /\ l[2] \in DagNodes}

Ins(n) == {u \in Nodes : <<u, n>> \in Edges}

\* GetSchedulesBetween and CreateInstance: the firings of the day in order or,
\* if there are none, one dry run instance at the time of the call.
Schedules ==
  {s \in UNION {[1..k -> Instants] : k \in 1..MaxFirings} :
     \A i, j \in DOMAIN s : i < j => s[i] < s[j]}

Instance == Nodes \X (1..MaxFirings)

TypeOK ==
  /\ lines \subseteq Nodes \X Nodes /\ existing \subseteq Nodes
  /\ times \in [Nodes -> Schedules]
  /\ nodesLeft \subseteq DagNodes
  /\ node \in DagNodes \cup {NoNode}
  /\ insLeft \subseteq DagNodes
  /\ up \in DagNodes \cup {NoNode}
  /\ idx \in 0..MaxFirings /\ pIdx \in 0..MaxFirings
  /\ depends \subseteq Instance \X Instance

Init ==
  /\ lines \in {L \in SUBSET (Nodes \X Nodes) :
                  Cardinality(L) <= MaxLines /\ \A l \in L : l[1] # l[2]}
  /\ existing \in SUBSET Nodes
  /\ times \in [Nodes -> Schedules]
  /\ nodesLeft = DagNodes
  /\ node = NoNode /\ insLeft = {} /\ up = NoNode
  /\ idx = 0 /\ pIdx = 0
  /\ depends = {}

-----------------------------------------------------------------------------
\* NodeDAG.BuildInstanceDepend: the next node, in the order of a map.
PickNode(n) ==
  /\ idx = 0 /\ insLeft = {} /\ n \in nodesLeft
  /\ nodesLeft' = nodesLeft \ {n}
  /\ node' = n /\ insLeft' = Ins(n)
  /\ up' = NoNode
  /\ UNCHANGED <<inputs, idx, pIdx, depends>>

\* The next upstream node of node; every node has an instance.
PickUpstream(u) ==
  /\ idx = 0 /\ u \in insLeft
  /\ insLeft' = insLeft \ {u}
  /\ up' = u
  /\ idx' = Len(times[node]) /\ pIdx' = Len(times[u])
  /\ UNCHANGED <<inputs, nodesLeft, node, depends>>

\* Mistake: equal times step back as well.
StepsBackOnEqual == times[node][idx] <= times[up][pIdx] /\ pIdx > 1
\* The upstream instance is later, and not the first.
StepsBack == times[node][idx] < times[up][pIdx] /\ pIdx > 1

StepBack ==
  /\ idx > 0
  /\ StepsBack
  /\ pIdx' = pIdx - 1
  /\ UNCHANGED <<inputs, nodesLeft, node, insLeft, up, idx, depends>>

Depend ==
  /\ idx > 0
  /\ ~StepsBack
  /\ depends' = depends \cup {<<<<up, pIdx>>, <<node, idx>>>>}
  /\ idx' = idx - 1
  /\ UNCHANGED <<inputs, nodesLeft, node, insLeft, up, pIdx>>

Next == StepBack \/ Depend \/ \E n \in Nodes : PickNode(n) \/ PickUpstream(n)

Spec == Init /\ [][Next]_vars

-----------------------------------------------------------------------------
Finished == nodesLeft = {} /\ insLeft = {} /\ idx = 0

\* Of the instances of u, j is the latest that is not after t; the first one if
\* all are after t.
Right(u, j, t) ==
  /\ times[u][j] <= t \/ j = 1
  /\ \A i \in DOMAIN times[u] : i > j => t < times[u][i]

\* Instance k of n is to wait for instance j of u.
Wanted(u, j, n, k) ==
  /\ <<u, n>> \in lines /\ {u, n} \subseteq existing
  /\ j \in DOMAIN times[u] /\ k \in DOMAIN times[n]
  /\ Right(u, j, times[n][k])

(* The map BuildInstanceDepend returns: each instance waits, for every        *)
(* upstream node of its node, for the latest instance not after it (or the   *)
(* first if there is none), and for nothing else, whatever the order of the  *)
(* maps.  (What becomes of it in instance_line is not modelled.)             *)
DependsExactly ==
  Finished =>
    \A u, n \in Nodes, j, k \in 1..MaxFirings :
      <<<<u, j>>, <<n, k>>>> \in depends <=> Wanted(u, j, n, k)

(* Only instances of nodes without upstream nodes wait for nothing: no other *)
(* can be taken to be ready, or missed by the one that triggers it.          *)
OnlySourcesAreFree ==
  Finished =>
    \A n \in DagNodes : \A k \in DOMAIN times[n] :
      (\A u \in Nodes, j \in 1..MaxFirings : <<<<u, j>>, <<n, k>>>> \notin depends)
        => \A u \in existing : <<u, n>> \notin lines

(* The inductive invariant behind both: what is handled is right, and the    *)
(* upstream instances behind pIdx are later than the instance at idx.        *)
Handled(u, n, k) ==
  n \notin nodesLeft /\ (n = node => u \notin insLeft /\ (u = up => k > idx))

LoopInv ==
  /\ node \notin nodesLeft
  /\ insLeft # {} => node # NoNode /\ insLeft \subseteq Ins(node)
  /\ up \notin insLeft
  /\ idx > 0 =>
       /\ node # NoNode /\ up \in Ins(node)
       /\ idx \in DOMAIN times[node] /\ pIdx \in DOMAIN times[up]
       /\ \A i \in DOMAIN times[up] : i > pIdx => times[node][idx] < times[up][i]

DependsInv ==
  \A u, n \in Nodes, k \in 1..MaxFirings :
    /\ \A j \in 1..MaxFirings :
         <<<<u, j>>, <<n, k>>>> \in depends <=> Handled(u, n, k) /\ Wanted(u, j, n, k)
    /\ Handled(u, n, k) /\ <<u, n>> \in Edges /\ k \in DOMAIN times[n] =>
         \E j \in 1..MaxFirings : <<<<u, j>>, <<n, k>>>> \in depends

IndInv == TypeOK /\ LoopInv /\ DependsInv
=============================================================================
