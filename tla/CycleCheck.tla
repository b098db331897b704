----------------------------- MODULE CycleCheck -----------------------------
(***************************************************************************)
(* Graph.wouldCreateCycleLocked (service/dispatchserver/graph.go): a breadth *)
(* first search from tail for head, over the adjacency lists NewGraph built  *)
(* from the lines of the table.  The order of a list is the order in which  *)
(* the database returned the lines, so any order.                           *)
(***************************************************************************)
EXTENDS Integers, Sequences, Reachability

CONSTANTS
  Graphs,  \* the graphs searched
  NoNode

ASSUME GraphsAssumption == Graphs \subseteq SUBSET Edge
ASSUME NoNodeAssumption == NoNode \notin Nodes

VARIABLES
  E,        \* the edges of the graph (g.adj)
  head, tail,
  queue,    \* nodes to look at; a node can be queued more than once
  visited,
  node,     \* the node whose list is being read, or NoNode
  unread,   \* the successors of node not read yet
  answer    \* "running", then the result: "cycle" or "fine"

searchVars == <<E, head, tail, queue, visited, node, unread, answer>>

SearchTypeOK ==
  /\ E \subseteq Edge
  /\ head \in Nodes /\ tail \in Nodes
  /\ queue \in Seq(Nodes)
  /\ visited \subseteq Nodes
  /\ node \in Nodes \cup {NoNode}
  /\ unread \subseteq Nodes
  /\ answer \in {"running", "cycle", "fine"}

\* The call: a self loop is a cycle without looking at the graph.
SearchInit ==
  /\ E \in Graphs
  /\ head \in Nodes /\ tail \in Nodes
  /\ queue = <<tail>>
  /\ visited = {}
  /\ node = NoNode
  /\ unread = {}
  /\ answer = IF head = tail THEN "cycle" ELSE "running"

AtLoopHead == answer = "running" /\ node = NoNode

\* The head of the queue is the wanted node.
Found ==
  /\ AtLoopHead
  /\ queue # <<>>
  /\ Head(queue) = head
  /\ queue' = Tail(queue)
  /\ answer' = "cycle"
  /\ UNCHANGED <<E, head, tail, visited, node, unread>>

\* Mistake: a node looked at before is not taken off the queue.
AgainStays ==
  /\ AtLoopHead
  /\ queue # <<>>
  /\ Head(queue) # head
  /\ Head(queue) \in visited
  /\ UNCHANGED searchVars

\* It was looked at before.
Again ==
  /\ AtLoopHead
  /\ queue # <<>>
  /\ Head(queue) # head
  /\ Head(queue) \in visited
  /\ queue' = Tail(queue)
  /\ UNCHANGED <<E, head, tail, visited, node, unread, answer>>

Visit ==
  /\ AtLoopHead
  /\ queue # <<>>
  /\ Head(queue) # head
  /\ Head(queue) \notin visited
  /\ queue' = Tail(queue)
  /\ visited' = visited \cup {Head(queue)}
  /\ unread' = Succ(E, Head(queue))
  /\ node' = IF unread' = {} THEN NoNode ELSE Head(queue)
  /\ UNCHANGED <<E, head, tail, answer>>

\* Mistake: a node is marked visited when it is queued.
PushMarks(next) ==
  /\ answer = "running"
  /\ next \in unread
  /\ queue' = IF next \in visited THEN queue ELSE Append(queue, next)
  /\ visited' = visited \cup {next}
  /\ unread' = unread \ {next}
  /\ node' = IF unread' = {} THEN NoNode ELSE node
  /\ UNCHANGED <<E, head, tail, answer>>

\* One turn of the inner loop: queue the successor unless it was visited.
Push(next) ==
  /\ answer = "running"
  /\ next \in unread
  /\ queue' = IF next \in visited THEN queue ELSE Append(queue, next)
  /\ unread' = unread \ {next}
  /\ node' = IF unread' = {} THEN NoNode ELSE node
  /\ UNCHANGED <<E, head, tail, visited, answer>>

Exhausted ==
  /\ AtLoopHead
  /\ queue = <<>>
  /\ answer' = "fine"
  /\ UNCHANGED <<E, head, tail, queue, visited, node, unread>>

SearchNext == Found \/ Again \/ Visit \/ Exhausted \/ \E n \in Nodes : Push(n)

SearchSpec == SearchInit /\ [][SearchNext]_searchVars
SearchFairness == WF_searchVars(SearchNext)

-----------------------------------------------------------------------------
(* The answer is right: "cycle" exactly when head = tail or head can be      *)
(* reached from tail, which is when the edge head -> tail closes a cycle.    *)
AnswerCorrect ==
  /\ answer = "cycle" => Reach(E, tail, head)
  /\ answer = "fine"  => ~Reach(E, tail, head)

(* The search ends, on cyclic graphs too.                                    *)
Terminates == <>(answer # "running")

Queued == {queue[i] : i \in 1..Len(queue)}

(* Why: everything queued or visited is reachable from tail, head is never   *)
(* visited, and the visited nodes together with the queue are closed.        *)
SearchInv ==
  /\ SearchTypeOK
  /\ node = NoNode <=> unread = {}
  /\ node # NoNode => node \in visited /\ unread \subseteq Succ(E, node)
  /\ \A n \in visited \cup Queued : Reach(E, tail, n)
  /\ answer # "cycle" => head \notin visited
  /\ answer # "cycle" => tail \in visited \cup Queued
  /\ answer = "cycle" => Reach(E, tail, head)
  /\ answer = "fine" => queue = <<>> /\ node = NoNode
  /\ answer # "cycle" =>
       \A n \in visited : \A m \in Nodes :
         <<n, m>> \in E => m \in visited \cup Queued \/ (n = node /\ m \in unread)
=============================================================================
