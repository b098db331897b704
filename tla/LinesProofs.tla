---------------------------- MODULE LinesProofs ----------------------------
(* The proof that requests which do not overlap keep the lines acyclic.     *)
EXTENDS Lines, TLAPS

(* Taking edges away makes nothing reachable.                               *)
LEMMA ReachMonotone ==
  ASSUME NEW E, NEW F, F \subseteq E,
         NEW a \in Nodes, NEW b \in Nodes,
         Reach(F, a, b)
  PROVE  Reach(E, a, b)
<1> SUFFICES ASSUME NEW S \in SUBSET Nodes, a \in S, Closed(E, S)
             PROVE  b \in S
    BY DEF Reach
<1>1. Closed(F, S)
    BY DEF Closed
<1> QED BY <1>1 DEF Reach

(* Taking edges away creates no cycle.                                      *)
LEMMA AcyclicMonotone ==
  ASSUME NEW E, NEW F, F \subseteq E, Acyclic(E)
  PROVE  Acyclic(F)
BY DEF Acyclic

(* No edge, no cycle.                                                       *)
LEMMA AcyclicEmpty == Acyclic({})
<1> SUFFICES ASSUME NEW S \in SUBSET Nodes, S # {}
             PROVE  \E n \in S : \A m \in S : <<n, m>> \notin {}
    BY DEF Acyclic
<1> QED OBVIOUS

(* Adding h -> t to an acyclic graph where h cannot be reached from t keeps *)
(* it acyclic: this is the test SaveLine makes before it saves a line.      *)
THEOREM AddEdgeKeepsAcyclic ==
  ASSUME NEW E, NEW h \in Nodes, NEW t \in Nodes,
         Acyclic(E), ~Reach(E, t, h)
  PROVE  Acyclic(E \cup {<<h, t>>})
<1>1. PICK C \in SUBSET Nodes : t \in C /\ Closed(E, C) /\ h \notin C
    BY DEF Reach
<1> SUFFICES ASSUME NEW S \in SUBSET Nodes, S # {}
             PROVE  \E n \in S : \A m \in S : <<n, m>> \notin E \cup {<<h, t>>}
    BY DEF Acyclic
<1>2. CASE S \cap C # {}
  <2>1. PICK n \in S \cap C : \A m \in S \cap C : <<n, m>> \notin E
      BY <1>2 DEF Acyclic
  <2>2. \A m \in S : <<n, m>> \notin E
      BY <1>1, <2>1 DEF Closed
  <2>3. n # h
      BY <1>1, <2>1
  <2> QED BY <2>1, <2>2, <2>3
<1>3. CASE S \cap C = {}
  <2>1. PICK n \in S : \A m \in S : <<n, m>> \notin E
      BY DEF Acyclic
  <2>2. t \notin S
      BY <1>1, <1>3
  <2> QED BY <2>1, <2>2
<1> QED BY <1>2, <1>3

-----------------------------------------------------------------------------
(* Values in the table and in the requests keep their types.                *)
LEMMA TypeStep == TypeOK /\ [Next]_vars => TypeOK'
<1> SUFFICES ASSUME TypeOK, [Next]_vars PROVE TypeOK'
    OBVIOUS
<1> USE DEF TypeOK, lineVars
<1>1. ASSUME NEW s \in Savers, NEW l \in Line, Ask(s, l) PROVE TypeOK'
    BY <1>1 DEF Ask
<1>2. ASSUME NEW s \in Savers, Accept(s) PROVE TypeOK'
    BY <1>2 DEF Accept
<1>3. ASSUME NEW s \in Savers, Refuse(s) \/ Fails(s) \/ StoreDuplicate(s)
      PROVE  TypeOK'
    BY <1>3 DEF Refuse, Fails, StoreDuplicate, Return
<1>4. ASSUME NEW s \in Savers, Store(s) PROVE TypeOK'
  <2>1. req[s] \in Line
      BY <1>4 DEF Store
  <2>2. req[s].id \in Ids /\ req[s].ends \in Edge
      BY <2>1 DEF Line
  <2>3. rows' \subseteq Ids /\ deleted' \subseteq rows' /\ ends' \in [Ids -> Edge]
      BY <1>4, <2>2 DEF Store, Upsert
  <2>4. \A t \in Savers : pc'[t] # "idle" => req'[t] \in Line
      BY <1>4 DEF Store
  <2>5. dirty' \subseteq Savers
      BY <1>4 DEF Store
  <2>6. stale' \in BOOLEAN
      BY <1>4 DEF Store
  <2>7. /\ pc' \in [Savers -> {"idle", "asked", "accepted"}]
        /\ req' \in [Savers -> Line \cup {NoLine}]
        /\ answer' \in [Savers -> {"none", "saved", "refused", "failed"}]
      BY <1>4 DEF Store
  <2> QED BY <2>3, <2>4, <2>5, <2>6, <2>7
<1>5. ASSUME NEW i \in Ids, DeleteLine(i) PROVE TypeOK'
    BY <1>5 DEF DeleteLine
<1>6. CASE UNCHANGED vars
    BY <1>6 DEF vars
<1> QED BY <1>1, <1>2, <1>3, <1>4, <1>5, <1>6 DEF Next

(* The initial types. *)
LEMMA TypeInit == Init => TypeOK
<1> SUFFICES ASSUME Init PROVE TypeOK
    OBVIOUS
<1>1. ends \in [Ids -> Edge]
  <2>1. PICK n \in Nodes : ends = [i \in Ids |-> <<n, n>>]
      BY DEF Init
  <2>2. <<n, n>> \in Edge
      BY DEF Edge
  <2> QED BY <2>1, <2>2
<1>2. /\ pc \in [Savers -> {"idle", "asked", "accepted"}]
      /\ req \in [Savers -> Line \cup {NoLine}]
      /\ answer \in [Savers -> {"none", "saved", "refused", "failed"}]
    BY DEF Init
<1>3. \A s \in Savers : pc[s] = "idle"
    BY DEF Init
<1> QED BY <1>1, <1>2, <1>3 DEF Init, TypeOK

(* The type invariant of the table and of the requests of SaveLine.         *)
THEOREM TypeCorrect == Spec => []TypeOK
BY TypeInit, TypeStep, PTL DEF Spec

(* A save adds at most its own edge to the graph.                           *)
LEMMA UpsertAdds ==
  ASSUME TypeOK, NEW l \in Line, Upsert(l)
  PROVE  Graph' \subseteq Graph \cup {l.ends}
<1>1. l.id \in Ids /\ l.ends \in Edge
    BY DEF Line
<1>2. \A j \in rows' : ends'[j] \in {ends[k] : k \in rows} \cup {l.ends}
    BY <1>1 DEF Upsert, TypeOK
<1> QED BY <1>2 DEF Graph, EdgesOf, ListLines

(* The inductive step of IndInv.                                            *)
LEMMA IndStep == IndInv /\ [Next]_vars => IndInv'
<1> SUFFICES ASSUME IndInv, [Next]_vars PROVE IndInv'
    OBVIOUS
<1>0. TypeOK /\ TypeOK'
    BY TypeStep DEF IndInv
<1>1. ASSUME Graph' = Graph, stale' = stale,
             \A s \in Savers : pc'[s] = "accepted" /\ s \notin dirty' =>
               ~WouldCreateCycle(Graph, req'[s].ends[1], req'[s].ends[2])
      PROVE  IndInv'
    BY <1>0, <1>1 DEF IndInv, AcyclicUnlessStale, Closes
<1>2. ASSUME NEW s \in Savers, NEW l \in Line, Ask(s, l) PROVE IndInv'
  <2>1. Graph' = Graph
      BY <1>2 DEF Ask, lineVars, Graph, EdgesOf, ListLines
  <2>2. ASSUME NEW t \in Savers, pc'[t] = "accepted", t \notin dirty'
        PROVE  ~WouldCreateCycle(Graph, req'[t].ends[1], req'[t].ends[2])
      BY <1>0, <1>2, <2>2 DEF Ask, IndInv, TypeOK, Closes
  <2> QED BY <1>1, <1>2, <2>1, <2>2 DEF Ask
<1>3. ASSUME NEW s \in Savers, Accept(s) PROVE IndInv'
  <2>1. Graph' = Graph
      BY <1>3 DEF Accept, lineVars, Graph, EdgesOf, ListLines
  <2>2. ASSUME NEW t \in Savers, pc'[t] = "accepted", t \notin dirty'
        PROVE  ~WouldCreateCycle(Graph, req'[t].ends[1], req'[t].ends[2])
      BY <1>0, <1>3, <2>2 DEF Accept, IndInv, TypeOK, Closes
  <2> QED BY <1>1, <1>3, <2>1, <2>2 DEF Accept
<1>4. ASSUME NEW s \in Savers, Refuse(s) \/ Fails(s) \/ StoreDuplicate(s)
      PROVE  IndInv'
  <2>1. Graph' = Graph
      BY <1>4 DEF Refuse, Fails, StoreDuplicate, lineVars, Graph, EdgesOf, ListLines
  <2>2. ASSUME NEW t \in Savers, pc'[t] = "accepted", t \notin dirty'
        PROVE  ~WouldCreateCycle(Graph, req'[t].ends[1], req'[t].ends[2])
      BY <1>0, <1>4, <2>2
         DEF Refuse, Fails, StoreDuplicate, Return, IndInv, TypeOK, Closes
  <2> QED BY <1>1, <1>4, <2>1, <2>2 DEF Refuse, Fails, StoreDuplicate
<1>5. ASSUME NEW i \in Ids, DeleteLine(i) PROVE IndInv'
  <2>1. Graph' = Graph
      BY <1>5 DEF DeleteLine, Graph, EdgesOf, ListLines
  <2> QED BY <1>1, <1>5, <2>1 DEF DeleteLine, IndInv, Closes
<1>6. ASSUME NEW s \in Savers, Store(s) PROVE IndInv'
  <2> DEFINE h == req[s].ends[1]
             t == req[s].ends[2]
  <2>1. req[s] \in Line /\ pc[s] = "accepted" /\ Upsert(req[s])
      BY <1>0, <1>6 DEF Store, TypeOK
  <2>2. h \in Nodes /\ t \in Nodes /\ req[s].ends = <<h, t>>
      BY <2>1 DEF Line, Edge
  <2>3. Graph' \subseteq Graph \cup {<<h, t>>}
      BY <1>0, <2>1, <2>2, UpsertAdds
  <2>4. AcyclicUnlessStale'
    <3> SUFFICES ASSUME ~stale' PROVE Acyclic(Graph)'
        BY DEF AcyclicUnlessStale
    <3>1. ~stale /\ s \notin dirty
        BY <1>6 DEF Store
    <3>2. Acyclic(Graph) /\ ~Reach(Graph, t, h)
        BY <2>1, <3>1 DEF IndInv, AcyclicUnlessStale, Closes, WouldCreateCycle
    <3>3. Acyclic(Graph \cup {<<h, t>>})
        BY <2>2, <3>2, AddEdgeKeepsAcyclic
    <3>4. Acyclic(Graph')
        BY <2>3, <3>3, AcyclicMonotone
    <3> QED BY <3>4
  <2>5. ASSUME NEW u \in Savers, pc'[u] = "accepted", u \notin dirty'
        PROVE  ~Closes(u)'
    <3>1. u # s /\ pc[u] = "accepted" /\ req'[u] = req[u]
        BY <1>0, <1>6, <2>5 DEF Store, TypeOK
    <3>2. Graph' \subseteq Graph /\ u \notin dirty
        BY <1>6, <2>5, <3>1 DEF Store
    <3>3. ~WouldCreateCycle(Graph, req[u].ends[1], req[u].ends[2])
        BY <3>1, <3>2 DEF IndInv, Closes
    <3>4. req[u].ends[1] \in Nodes /\ req[u].ends[2] \in Nodes
        BY <1>0, <3>1 DEF TypeOK, Line, Edge
    <3>5. ~WouldCreateCycle(Graph', req[u].ends[1], req[u].ends[2])
        BY <3>2, <3>3, <3>4, ReachMonotone DEF WouldCreateCycle
    <3> QED BY <3>1, <3>5 DEF Closes
  <2> QED BY <1>0, <2>4, <2>5 DEF IndInv
<1>7. CASE UNCHANGED vars
  <2>1. TypeOK'
      BY <1>7 DEF vars, IndInv, TypeOK
  <2>2. Graph' = Graph
      BY <1>7 DEF vars, Graph, EdgesOf, ListLines
  <2>3. pc' = pc /\ req' = req /\ dirty' = dirty /\ stale' = stale
      BY <1>7 DEF vars
  <2> QED BY <2>1, <2>2, <2>3 DEF IndInv, AcyclicUnlessStale, Closes
<1> QED BY <1>2, <1>3, <1>4, <1>5, <1>6, <1>7 DEF Next

(* What a request was told by wouldCreateCycleLocked stays true until a line *)
(* is saved that it did not see.                                             *)
THEOREM IndInvHolds == Spec => []IndInv
<1>1. Init => IndInv
  <2> SUFFICES ASSUME Init PROVE IndInv
      OBVIOUS
  <2>1. TypeOK
      BY TypeInit
  <2>2. Graph = {}
      BY DEF Init, Graph, EdgesOf, ListLines
  <2>3. \A s \in Savers : pc[s] = "idle"
      BY DEF Init
  <2> QED BY <2>1, <2>2, <2>3, AcyclicEmpty DEF IndInv, AcyclicUnlessStale
<1> QED BY <1>1, IndStep, PTL DEF Spec

(* As long as no request writes over a line it has not seen, SaveLine keeps  *)
(* the lines acyclic, whatever is deleted, revived, redirected or fails.     *)
THEOREM AcyclicUnlessStaleHolds == Spec => []AcyclicUnlessStale
<1>1. IndInv => AcyclicUnlessStale
    BY DEF IndInv
<1> QED BY <1>1, IndInvHolds, PTL

(* Whatever ids racing clients choose, two rows never join the same nodes.   *)
THEOREM OnePerPairHolds == Spec => []OnePerPair
<1>1. Init => OnePerPair
    BY DEF Init, OnePerPair
<1>2. TypeOK /\ OnePerPair /\ [Next]_vars => OnePerPair'
  <2> SUFFICES ASSUME TypeOK, OnePerPair, [Next]_vars PROVE OnePerPair'
      OBVIOUS
  <2>1. ASSUME NEW s \in Savers, Store(s) PROVE OnePerPair'
    <3>1. req[s].id \in Ids /\ Upsert(req[s])
        BY <2>1 DEF Store, TypeOK, Line
    <3> QED BY <3>1 DEF Upsert, SamePair, OnePerPair, TypeOK
  <2>2. ASSUME UNCHANGED <<rows, ends>> PROVE OnePerPair'
      BY <2>2 DEF OnePerPair
  <2> QED BY <2>1, <2>2
          DEF Next, Ask, Accept, Refuse, Fails, StoreDuplicate, DeleteLine, lineVars,
              vars
<1> QED BY <1>1, <1>2, TypeCorrect, PTL DEF Spec

(* A save never takes another shown line off the canvas.                     *)
THEOREM OthersStayHolds == Spec => OthersStay
<1>1. TypeOK /\ [Next]_vars =>
        [\A s \in Savers : pc[s] = "accepted" /\ pc'[s] = "idle" =>
           \A i \in Shown \ {req[s].id} :
             i \in rows' \ deleted' /\ ends'[i] = ends[i]]_vars
  <2> SUFFICES ASSUME TypeOK, Next,
                      NEW s \in Savers, pc[s] = "accepted", pc'[s] = "idle",
                      NEW i \in Shown, i # req[s].id
               PROVE  i \in rows' \ deleted' /\ ends'[i] = ends[i]
      OBVIOUS
  <2>1. i \in Ids /\ i \in rows /\ i \notin deleted
      BY DEF Shown, TypeOK
  <2>2. CASE UNCHANGED lineVars
      BY <2>1, <2>2 DEF lineVars
  <2>3. ASSUME NEW t \in Savers, Store(t)
        PROVE  i \in rows' \ deleted' /\ ends'[i] = ends[i]
    <3>1. t = s
        BY <2>3 DEF Store, TypeOK
    <3> QED BY <2>1, <2>3, <3>1 DEF Store, Upsert, TypeOK
  <2>4. ASSUME NEW j \in Ids, DeleteLine(j) PROVE FALSE
      BY <2>4 DEF DeleteLine
  <2> QED BY <2>2, <2>3, <2>4 DEF Next, Ask, Accept, Refuse, Fails, StoreDuplicate
<1> QED BY <1>1, TypeCorrect, PTL DEF Spec, OthersStay

\* A request that goes on was not answered yet.
Unanswered == \A s \in Savers : pc[s] # "idle" => answer[s] = "none"

LEMMA UnansweredHolds == Spec => []Unanswered
<1>1. Init => Unanswered
    BY DEF Init, Unanswered
<1>2. TypeOK /\ Unanswered /\ [Next]_vars => Unanswered'
  <2> SUFFICES ASSUME TypeOK, Unanswered, [Next]_vars, NEW t \in Savers, pc'[t] # "idle"
               PROVE  answer'[t] = "none"
      BY DEF Unanswered
  <2>1. ASSUME NEW s \in Savers, NEW l \in Line, Ask(s, l) PROVE answer'[t] = "none"
      BY <2>1 DEF Ask, TypeOK, Unanswered
  <2>2. ASSUME NEW s \in Savers, Refuse(s) \/ Fails(s) \/ StoreDuplicate(s)
        PROVE  answer'[t] = "none"
      BY <2>2 DEF Refuse, Fails, StoreDuplicate, Return, TypeOK, Unanswered
  <2>3. ASSUME NEW s \in Savers, Store(s) PROVE answer'[t] = "none"
      BY <2>3 DEF Store, TypeOK, Unanswered
  <2>4. ASSUME NEW s \in Savers, Accept(s) PROVE answer'[t] = "none"
      BY <2>4 DEF Accept, TypeOK, Unanswered
  <2>5. ASSUME NEW i \in Ids, DeleteLine(i) PROVE answer'[t] = "none"
      BY <2>5 DEF DeleteLine, Unanswered
  <2>6. CASE UNCHANGED vars
      BY <2>6 DEF vars, Unanswered
  <2> QED BY <2>1, <2>2, <2>3, <2>4, <2>5, <2>6 DEF Next
<1> QED BY <1>1, <1>2, TypeCorrect, PTL DEF Spec

(* Whichever of its three ways the upsert takes, the pair is on the canvas. *)
LEMMA UpsertShows ==
  ASSUME TypeOK, NEW l \in Line, Upsert(l)
  PROVE  l.ends \in {ends'[i] : i \in rows' \ deleted'}
<1>1. l.id \in Ids /\ l.ends \in Edge
    BY DEF Line
<1>2. CASE l.id \in rows
    BY <1>1, <1>2 DEF Upsert, TypeOK
<1>3. CASE l.id \notin rows /\ SamePair(l) # {}
  <2>1. PICK j \in rows : ends[j] = l.ends
      BY <1>3 DEF SamePair
  <2>2. j \in rows' \ deleted' /\ ends'[j] = l.ends
      BY <1>3, <2>1 DEF Upsert, SamePair
  <2> QED BY <2>2
<1>4. CASE l.id \notin rows /\ SamePair(l) = {}
    BY <1>1, <1>4 DEF Upsert, TypeOK
<1> QED BY <1>2, <1>3, <1>4

(* A line that is answered as saved is shown, deleted before or not, and     *)
(* whosever id its row has.                                                  *)
THEOREM SavedIsShownHolds == Spec => SavedIsShown
<1>1. TypeOK /\ Unanswered /\ [Next]_vars =>
        [\A s \in Savers : pc[s] = "accepted" /\ answer'[s] = "saved" =>
           req[s].ends \in {ends'[i] : i \in rows' \ deleted'}]_vars
  <2> SUFFICES ASSUME TypeOK, Unanswered, Next,
                      NEW s \in Savers, pc[s] = "accepted", answer'[s] = "saved"
               PROVE  req[s].ends \in {ends'[i] : i \in rows' \ deleted'}
      OBVIOUS
  <2>1. answer[s] # "saved"
      BY DEF Unanswered
  <2>2. ASSUME NEW t \in Savers, Store(t)
        PROVE  req[s].ends \in {ends'[i] : i \in rows' \ deleted'}
    <3>1. t = s
        BY <2>1, <2>2 DEF Store, TypeOK
    <3>2. req[s] \in Line /\ Upsert(req[s])
        BY <2>2, <3>1 DEF Store, TypeOK
    <3> QED BY <3>2, UpsertShows
  <2>3. ASSUME NEW t \in Savers, Refuse(t) \/ Fails(t) \/ StoreDuplicate(t) PROVE FALSE
      BY <2>1, <2>3 DEF Refuse, Fails, StoreDuplicate, Return, TypeOK
  <2>4. ASSUME NEW t \in Savers, NEW l \in Line, Ask(t, l) PROVE FALSE
      BY <2>1, <2>4 DEF Ask, TypeOK
  <2>5. UNCHANGED answer => FALSE
      BY <2>1
  <2> QED BY <2>2, <2>3, <2>4, <2>5 DEF Next, Accept, DeleteLine
<1> QED BY <1>1, TypeCorrect, UnansweredHolds, PTL DEF Spec, SavedIsShown
=============================================================================
