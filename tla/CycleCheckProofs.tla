-------------------------- MODULE CycleCheckProofs --------------------------
(* The proof that the search of wouldCreateCycleLocked answers correctly,    *)
(* on every graph.                                                          *)
EXTENDS CycleCheck, TLAPS

(* A node reaches itself, and what one more edge leads to.                  *)
LEMMA ReachReflexive ==
  ASSUME NEW F, NEW a \in Nodes
  PROVE  Reach(F, a, a)
BY DEF Reach

(* Reachability follows edges. *)
LEMMA ReachStep ==
  ASSUME NEW F, NEW a \in Nodes, NEW b \in Nodes, NEW c \in Nodes,
         Reach(F, a, b), <<b, c>> \in F
  PROVE  Reach(F, a, c)
BY DEF Reach, Closed

(* A closed set a node is in bounds what the node reaches.                  *)
LEMMA ClosedBounds ==
  ASSUME NEW F, NEW a \in Nodes, NEW b \in Nodes,
         NEW S \in SUBSET Nodes, Closed(F, S), a \in S, b \notin S
  PROVE  ~Reach(F, a, b)
BY DEF Reach

-----------------------------------------------------------------------------
(* The elements of a queue after an append, before a tail. *)
LEMMA ElementsAppend ==
  ASSUME NEW q \in Seq(Nodes), NEW n \in Nodes
  PROVE  {Append(q, n)[i] : i \in 1..Len(Append(q, n))}
           = {q[i] : i \in 1..Len(q)} \cup {n}
<1>1. /\ Len(Append(q, n)) = Len(q) + 1
      /\ Len(q) \in Nat
      /\ \A i \in 1..Len(q) : Append(q, n)[i] = q[i]
      /\ Append(q, n)[Len(q) + 1] = n
    OBVIOUS
<1> QED BY <1>1

(* The elements of a queue after an append, before a tail. *)
LEMMA ElementsTail ==
  ASSUME NEW q \in Seq(Nodes), q # <<>>
  PROVE  /\ Tail(q) \in Seq(Nodes)
         /\ Head(q) \in Nodes
         /\ {q[i] : i \in 1..Len(q)}
              = {Head(q)} \cup {Tail(q)[i] : i \in 1..Len(Tail(q))}
<1>1. /\ Tail(q) \in Seq(Nodes)
      /\ Head(q) \in Nodes /\ Head(q) = q[1]
      /\ Len(q) \in Nat \ {0}
      /\ Len(Tail(q)) = Len(q) - 1
      /\ \A i \in 1..Len(Tail(q)) : Tail(q)[i] = q[i + 1]
    OBVIOUS
<1>2. ASSUME NEW i \in 1..Len(q)
      PROVE  q[i] \in {Head(q)} \cup {Tail(q)[j] : j \in 1..Len(Tail(q))}
  <2>1. CASE i = 1
      BY <1>1, <2>1
  <2>2. CASE i # 1
    <3>1. i - 1 \in 1..Len(Tail(q)) /\ Tail(q)[i - 1] = q[i]
        BY <1>1, <2>2
    <3> QED BY <3>1
  <2> QED BY <2>1, <2>2
<1>3. ASSUME NEW j \in 1..Len(Tail(q))
      PROVE  Tail(q)[j] \in {q[i] : i \in 1..Len(q)}
  <2>1. j + 1 \in 1..Len(q) /\ Tail(q)[j] = q[j + 1]
      BY <1>1
  <2> QED BY <2>1
<1>4. Head(q) \in {q[i] : i \in 1..Len(q)}
  <2>1. 1 \in 1..Len(q) /\ Head(q) = q[1]
      BY <1>1
  <2> QED BY <2>1
<1> QED BY <1>1, <1>2, <1>3, <1>4

(* Values keep their types.                                                 *)
LEMMA TypeStep == SearchTypeOK /\ [SearchNext]_searchVars => SearchTypeOK'
<1> SUFFICES ASSUME SearchTypeOK, [SearchNext]_searchVars PROVE SearchTypeOK'
    OBVIOUS
<1> USE DEF SearchTypeOK
<1>1. CASE Found \/ Again
    BY <1>1, ElementsTail DEF Found, Again
<1>2. CASE Visit
    BY <1>2, ElementsTail DEF Visit, Succ
<1>3. CASE Exhausted
    BY <1>3 DEF Exhausted
<1>4. ASSUME NEW n \in Nodes, Push(n) PROVE SearchTypeOK'
  <2>1. Append(queue, n) \in Seq(Nodes)
      OBVIOUS
  <2> QED BY <1>4, <2>1 DEF Push
<1>5. CASE UNCHANGED searchVars
    BY <1>5 DEF searchVars
<1> QED BY <1>1, <1>2, <1>3, <1>4, <1>5 DEF SearchNext

(* The inductive step: one case per action of the search.                   *)
LEMMA IndStep == SearchInv /\ [SearchNext]_searchVars => SearchInv'
<1> SUFFICES ASSUME SearchInv, [SearchNext]_searchVars PROVE SearchInv'
    OBVIOUS
<1>0. SearchTypeOK /\ SearchTypeOK'
    BY TypeStep DEF SearchInv
<1>1. CASE Found
  <2>1. head \in Queued /\ Queued' \subseteq Queued
      BY <1>0, <1>1, ElementsTail DEF Found, Queued, SearchTypeOK
  <2>2. Reach(E, tail, head)
      BY <2>1 DEF SearchInv
  <2> QED BY <1>0, <1>1, <2>1, <2>2 DEF Found, AtLoopHead, SearchInv
<1>2. CASE Again
  <2>1. Queued = {Head(queue)} \cup Queued'
      BY <1>0, <1>2, ElementsTail DEF Again, Queued, SearchTypeOK
  <2>2. visited \cup Queued = visited \cup Queued'
      BY <1>2, <2>1 DEF Again
  <2>3. queue' = <<>> \/ answer' # "fine"
      BY <1>2 DEF Again, AtLoopHead
  <2> QED BY <1>0, <1>2, <2>2, <2>3 DEF Again, AtLoopHead, SearchInv
<1>3. CASE Visit
  <2> DEFINE n == Head(queue)
  <2>1. Queued = {n} \cup Queued' /\ n \in Nodes
      BY <1>0, <1>3, ElementsTail DEF Visit, Queued, SearchTypeOK
  <2>2. visited' \cup Queued' = visited \cup Queued
      BY <1>3, <2>1 DEF Visit
  <2>3. \A m \in Nodes : <<n, m>> \in E => m \in unread'
      BY <1>3 DEF Visit, Succ
  <2>4. node' = NoNode <=> unread' = {}
      BY <1>3, <2>1, NoNodeAssumption DEF Visit
  <2>5. node' # NoNode => node' \in visited' /\ unread' \subseteq Succ(E', node')
      BY <1>3 DEF Visit
  <2>6. unread = {} /\ node = NoNode
      BY <1>3 DEF Visit, AtLoopHead, SearchInv
  <2>7. ASSUME NEW k \in visited', NEW m \in Nodes, <<k, m>> \in E'
        PROVE  m \in visited' \cup Queued' \/ (k = node' /\ m \in unread')
    <3>1. CASE k = n
        BY <1>3, <2>3, <2>7, <3>1 DEF Visit
    <3>2. CASE k # n
        BY <1>3, <2>2, <2>6, <2>7, <3>2 DEF Visit, AtLoopHead, SearchInv
    <3> QED BY <3>1, <3>2
  <2>8. head' \notin visited' /\ answer' = "running"
      BY <1>3 DEF Visit, AtLoopHead, SearchInv
  <2>9. tail' \in visited' \cup Queued'
      BY <1>3, <2>2 DEF Visit, AtLoopHead, SearchInv
  <2>10. \A k \in visited' \cup Queued' : Reach(E', tail', k)
      BY <1>3, <2>2 DEF Visit, SearchInv
  <2> QED BY <1>0, <2>4, <2>5, <2>7, <2>8, <2>9, <2>10 DEF SearchInv
<1>4. ASSUME NEW n \in Nodes, Push(n) PROVE SearchInv'
  <2>1. node # NoNode /\ node \in visited /\ node \in Nodes /\ <<node, n>> \in E
      BY <1>0, <1>4 DEF Push, SearchInv, Succ, SearchTypeOK
  <2>2. Reach(E, tail, n)
      BY <1>0, <2>1, ReachStep DEF SearchInv, SearchTypeOK
  <2>3. visited' = visited /\ Queued' \subseteq Queued \cup {n}
        /\ Queued \subseteq Queued' /\ n \in visited \cup Queued'
      BY <1>0, <1>4, ElementsAppend DEF Push, Queued, SearchTypeOK
  <2>4. node' = NoNode <=> unread' = {}
      BY <1>4, <2>1 DEF Push
  <2>5. node' # NoNode => node' \in visited' /\ unread' \subseteq Succ(E', node')
      BY <1>4, <2>1 DEF Push, SearchInv
  <2>6. ASSUME NEW k \in visited', NEW m \in Nodes, <<k, m>> \in E'
        PROVE  m \in visited' \cup Queued' \/ (k = node' /\ m \in unread')
    <3>1. m \in visited \cup Queued \/ (k = node /\ m \in unread)
        BY <1>4, <2>3, <2>6 DEF Push, SearchInv
    <3>2. CASE k = node /\ m \in unread /\ m # n
        BY <1>4, <3>2 DEF Push
    <3> QED BY <2>3, <3>1, <3>2
  <2>7. \A k \in visited' \cup Queued' : Reach(E', tail', k)
      BY <1>4, <2>2, <2>3 DEF Push, SearchInv
  <2>8. answer' = "running" /\ head' \notin visited' /\ tail' \in visited' \cup Queued'
      BY <1>4, <2>3 DEF Push, SearchInv
  <2> QED BY <1>0, <2>4, <2>5, <2>6, <2>7, <2>8 DEF SearchInv
<1>5. CASE Exhausted
    BY <1>0, <1>5 DEF Exhausted, AtLoopHead, SearchInv, Queued
<1>6. CASE UNCHANGED searchVars
    BY <1>6 DEF searchVars, SearchInv, SearchTypeOK, Queued
<1> QED BY <1>1, <1>2, <1>3, <1>4, <1>5, <1>6 DEF SearchNext

(* The invariant of the search: everything seen is reachable, head is not    *)
(* among it, and only what is queued or left to read may lie outside.        *)
THEOREM SearchInvHolds == SearchSpec => []SearchInv
<1>1. SearchInit => SearchInv
  <2> SUFFICES ASSUME SearchInit PROVE SearchInv
      OBVIOUS
  <2>1. queue = <<tail>> /\ tail \in Nodes /\ Queued = {tail}
      BY DEF SearchInit, Queued
  <2>2. SearchTypeOK
      BY <2>1, GraphsAssumption DEF SearchInit, SearchTypeOK
  <2>3. Reach(E, tail, tail)
      BY <2>1, ReachReflexive
  <2> QED BY <2>1, <2>2, <2>3 DEF SearchInit, SearchInv
<1> QED BY <1>1, IndStep, PTL DEF SearchSpec

(* wouldCreateCycleLocked answers true exactly when the new line closes a    *)
(* cycle with the lines it was given, for every graph and every pair.        *)
THEOREM AnswerCorrectHolds == SearchSpec => []AnswerCorrect
<1>1. SearchInv => AnswerCorrect
  <2> SUFFICES ASSUME SearchInv, answer = "fine" PROVE ~Reach(E, tail, head)
      BY DEF SearchInv, AnswerCorrect
  <2>1. Queued = {} /\ unread = {}
      BY DEF SearchInv, Queued
  <2>2. Closed(E, visited) /\ tail \in visited /\ head \notin visited
      BY <2>1 DEF SearchInv, Closed
  <2> QED BY <2>2, ClosedBounds DEF SearchInv, SearchTypeOK
<1> QED BY <1>1, SearchInvHolds, PTL
=============================================================================
