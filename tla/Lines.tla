-------------------------------- MODULE Lines --------------------------------
(***************************************************************************)
(* The lines of the canvas (table line): NodeServer.SaveLine reads all      *)
(* lines, asks wouldCreateCycleLocked whether the new one closes a cycle,   *)
(* and saves it with an upsert.  Nothing is held between the two database    *)
(* calls, so requests of the same tenant overlap.  A deleted line keeps its  *)
(* row, flagged; ListLines returns it all the same, because its Where comes  *)
(* after the Find that ran the query.                                        *)
(***************************************************************************)
EXTENDS Reachability

CONSTANTS
  Ids,     \* ids clients give to lines
  Savers,  \* requests being served
  NoLine

VARIABLES
  rows,    \* ids of the rows of the table ...
  ends,    \* ... their <<ahead_id, behind_id>> ...
  deleted, \* ... and those whose deleted flag is set
  pc,      \* where a request is
  req,     \* the line it saves: [id, ends], or NoLine
  answer,  \* what the last request of a saver was answered
  dirty,   \* history: savers whose list of lines misses a line saved since
  stale    \* history: a saver of dirty has written

lineVars == <<rows, ends, deleted>>
vars     == <<rows, ends, deleted, pc, req, answer, dirty, stale>>

Line == [id : Ids, ends : Edge]

TypeOK ==
  /\ rows \subseteq Ids /\ deleted \subseteq rows
  /\ ends \in [Ids -> Edge]
  /\ pc \in [Savers -> {"idle", "asked", "accepted"}]
  /\ req \in [Savers -> Line \cup {NoLine}]
  /\ \A s \in Savers : pc[s] # "idle" => req[s] \in Line
  /\ answer \in [Savers -> {"none", "saved", "refused", "failed"}]
  /\ dirty \subseteq Savers
  /\ stale \in BOOLEAN

Init ==
  /\ rows = {} /\ deleted = {}
  /\ \E n \in Nodes : ends = [i \in Ids |-> <<n, n>>]
  /\ pc = [s \in Savers |-> "idle"]
  /\ req = [s \in Savers |-> NoLine]
  /\ answer = [s \in Savers |-> "none"]
  /\ dirty = {} /\ stale = FALSE

EdgesOf(I) == {ends[i] : i \in I}

\* store.ListLines: the rows the query returns.
ListLines == rows

\* NewGraph(lines).
Graph == EdgesOf(ListLines)

\* The lines that are not deleted.
Shown == rows \ deleted

\* Mistake: the search starts at the wrong end.
WouldCreateCycleBackwards(E, head, tail) == head = tail \/ Reach(E, head, tail)

\* wouldCreateCycleLocked; module CycleCheck has its search.
WouldCreateCycle(E, head, tail) == head = tail \/ Reach(E, tail, head)

-----------------------------------------------------------------------------
Return(s, a) ==
  /\ pc'     = [pc EXCEPT ![s] = "idle"]
  /\ req'    = [req EXCEPT ![s] = NoLine]
  /\ answer' = [answer EXCEPT ![s] = a]
  /\ dirty'  = dirty \ {s}

\* A request arrives.
Ask(s, l) ==
  /\ pc[s] = "idle"
  /\ pc'     = [pc EXCEPT ![s] = "asked"]
  /\ req'    = [req EXCEPT ![s] = l]
  /\ answer' = [answer EXCEPT ![s] = "none"]
  /\ UNCHANGED <<lineVars, dirty, stale>>

Closes(s) == WouldCreateCycle(Graph, req[s].ends[1], req[s].ends[2])

\* ListLines and the check of the list.
Accept(s) ==
  /\ pc[s] = "asked"
  /\ ~Closes(s)
  /\ pc' = [pc EXCEPT ![s] = "accepted"]
  /\ UNCHANGED <<lineVars, req, answer, dirty, stale>>

Refuse(s) ==
  /\ pc[s] = "asked"
  /\ Closes(s)
  /\ Return(s, "refused")
  /\ UNCHANGED <<lineVars, stale>>

\* A database call fails and has stored nothing.
Fails(s) ==
  /\ pc[s] \in {"asked", "accepted"}
  /\ Return(s, "failed")
  /\ UNCHANGED <<lineVars, stale>>

\* The rows of the table with the same (ahead_id, behind_id): a unique key.
SamePair(l) == {j \in rows : ends[j] = l.ends}

\* Mistakes: no unique key; a revived row stays deleted; REPLACE.
UpsertNoKey(l) ==
  /\ rows' = rows \cup {l.id}
  /\ ends' = [ends EXCEPT ![l.id] = l.ends]
  /\ deleted' = deleted \ {l.id}

UpsertKeepsFlag(l) ==
  \/ /\ SamePair(l) # {}
     /\ UNCHANGED lineVars
  \/ /\ SamePair(l) = {}
     /\ rows' = rows \cup {l.id}
     /\ ends' = [ends EXCEPT ![l.id] = l.ends]
     /\ deleted' = deleted \ {l.id}

\* db.Save: UPDATE by primary key, and if that meets no row INSERT ... ON
\* DUPLICATE KEY UPDATE, where the row met may be one with the same pair.
Upsert(l) ==
  \/ /\ l.id \in rows
     /\ SamePair(l) \subseteq {l.id}
     /\ ends' = [ends EXCEPT ![l.id] = l.ends]
     /\ deleted' = deleted \ {l.id}
     /\ UNCHANGED rows
  \/ /\ l.id \notin rows
     /\ SamePair(l) # {}
     /\ deleted' = deleted \ SamePair(l)
     /\ UNCHANGED <<rows, ends>>
  \/ /\ l.id \notin rows
     /\ SamePair(l) = {}
     /\ rows' = rows \cup {l.id}
     /\ ends' = [ends EXCEPT ![l.id] = l.ends]
     /\ UNCHANGED deleted

\* store.SaveLine.  The answer of the database may be lost after the write.
Store(s) ==
  /\ pc[s] = "accepted"
  /\ Upsert(req[s])
  /\ \E a \in {"saved", "failed"} :
       /\ pc'     = [pc EXCEPT ![s] = "idle"]
       /\ req'    = [req EXCEPT ![s] = NoLine]
       /\ answer' = [answer EXCEPT ![s] = a]
  /\ stale' = (stale \/ s \in dirty)
  /\ dirty' = (IF Graph' \subseteq Graph THEN dirty
               ELSE {t \in Savers : t \in dirty \/ pc[t] = "accepted"}) \ {s}

\* The UPDATE would give two rows the same pair: Duplicate entry.
StoreDuplicate(s) ==
  /\ pc[s] = "accepted"
  /\ req[s].id \in rows
  /\ ~(SamePair(req[s]) \subseteq {req[s].id})
  /\ Return(s, "failed")
  /\ UNCHANGED <<lineVars, stale>>

\* NodeServer.DeleteLine: UPDATE ... SET deleted = 1; no row, no effect.
DeleteLine(i) ==
  /\ i \in rows
  /\ deleted' = deleted \cup {i}
  /\ UNCHANGED <<rows, ends, pc, req, answer, dirty, stale>>

Next ==
  \/ \E s \in Savers :
       \/ \E l \in Line : Ask(s, l)
       \/ Accept(s) \/ Refuse(s) \/ Fails(s)
       \/ Store(s)  \/ StoreDuplicate(s)
  \/ \E i \in Ids : DeleteLine(i)

Spec == Init /\ [][Next]_vars

-----------------------------------------------------------------------------
(* The lines form a cycle only if some request saved its line although a     *)
(* line was saved between its reading of the table and its write: requests   *)
(* that do not overlap keep the canvas acyclic, deleted lines included.      *)
AcyclicUnlessStale == ~stale => Acyclic(Graph)

(* No two rows join the same nodes, whatever ids the clients chose.          *)
OnePerPair == \A i, j \in rows : ends[i] = ends[j] => i = j

(* A line answered as saved is shown on the canvas, even when it was deleted *)
(* before or when its pair belongs to a row of another id.                   *)
SavedIsShown ==
  [][\A s \in Savers : pc[s] = "accepted" /\ answer'[s] = "saved"
       => req[s].ends \in {ends'[i] : i \in rows' \ deleted'}]_vars

(* Nothing is deleted by a save: a line that is shown is still shown after   *)
(* any request about another id.                                             *)
OthersStay ==
  [][\A s \in Savers : pc[s] = "accepted" /\ pc'[s] = "idle" =>
       \A i \in Shown \ {req[s].id} :
         i \in rows' \ deleted' /\ ends'[i] = ends[i]]_vars

(* What the documentation says of deleted lines, and the code breaks: a line *)
(* is refused only if it closes a cycle with lines that are not deleted.     *)
RefusedOnlyCycles ==
  [][\A s \in Savers : pc[s] = "asked" /\ answer'[s] = "refused"
       => WouldCreateCycle(EdgesOf(Shown), req[s].ends[1], req[s].ends[2])]_vars

(* Why AcyclicUnlessStale: what an undirtied request was told is still true. *)
IndInv ==
  /\ TypeOK
  /\ AcyclicUnlessStale
  /\ \A s \in Savers : pc[s] = "accepted" /\ s \notin dirty => ~Closes(s)
=============================================================================
