------------------------------ MODULE Utilities ------------------------------
(***************************************************************************)
(* Components that share nothing, side by side: splitPKRanges, the timing    *)
(* wheel, the balancer, the rate limiter and the graph of utils.  A behaviour *)
(* is one of the part that Init chooses; the other variables rest.           *)
(***************************************************************************)
EXTENDS SplitRanges, FiniteSets, FiniteSetsExt

CONSTANTS
  NumSlots, Ids, Clients, Workers, ChanCap,         \* see TimingWheel
  MaxAdds, Horizon, MaxLate,
  MaxConns, Metadata, MaxPicks,                     \* see Balancer
  Callers, Capacity, Unit, Second,                  \* see RateLimiter
  MaxTime, MaxDelay,
  Nodes, MaxEdges,                                  \* see GraphUtil
  None

ASSUME WheelAssumption ==
  /\ NumSlots \in Nat \ {0}
  /\ Horizon \in Nat \ {0} /\ Horizon % NumSlots = 0
  /\ None \notin Ids /\ None \notin Int
ASSUME ChannelAssumption == ChanCap \in Nat \ {0}
ASSUME BalancerAssumption == Metadata \subseteq Int \cup {None}
ASSUME LimiterAssumption ==
  /\ Capacity \in Nat /\ Unit \in Nat /\ Second \in Nat \ {0} /\ MaxDelay \in Nat
  /\ None \notin Nat
  /\ None \notin [tokens : Int, last : Nat, ends : Nat]

VARIABLES
  part,
  pos, jobs, lock, untracked, slots, made, globalTasks, consumer,   \* wheel
  busy, call, stops, ticking, mixed,
  meta, weight, current, picks,                                     \* balancer
  now, asked, bucket, admitted,                                     \* limiter
  nodes, edges                                                      \* graph

Wheel == INSTANCE TimingWheel WITH running <- ticking

Balancer == INSTANCE Balancer WITH NoWeight <- None

Limiter == INSTANCE RateLimiter WITH NoCall <- None

Graph == INSTANCE GraphUtil

wheelVars == <<pos, jobs, lock, untracked, slots, made, globalTasks, consumer, busy,
               call, stops, ticking, mixed>>
balancerVars == <<meta, weight, current, picks>>
limiterVars  == <<now, asked, bucket, admitted>>
graphVars    == <<nodes, edges>>
utilVars == <<vars, part, wheelVars, balancerVars, limiterVars, graphVars>>

UtilInit ==
  /\ part \in {"ranges", "wheel", "balancer", "limiter", "graph"}
  /\ Init /\ (part # "ranges" => minV = 0 /\ maxV = 0 /\ channels = 1)
  /\ Wheel!Init /\ Balancer!Init /\ Limiter!Init /\ Graph!Init

UtilNext ==
  \/ /\ part = "ranges" /\ AddRange
     /\ UNCHANGED <<part, wheelVars, balancerVars, limiterVars, graphVars>>
  \/ /\ part = "wheel" /\ Wheel!Next
     /\ UNCHANGED <<vars, part, balancerVars, limiterVars, graphVars>>
  \/ /\ part = "balancer" /\ Balancer!Next
     /\ UNCHANGED <<vars, part, wheelVars, limiterVars, graphVars>>
  \/ /\ part = "limiter" /\ Limiter!Next
     /\ UNCHANGED <<vars, part, wheelVars, balancerVars, graphVars>>
  \/ /\ part = "graph" /\ Graph!Next
     /\ UNCHANGED <<vars, part, wheelVars, balancerVars, limiterVars>>

UtilSpec == UtilInit /\ [][UtilNext]_utilVars

-----------------------------------------------------------------------------
(* A task is handed to the workers by the goroutine of the tick AddTask       *)
(* computed for it, unless the wheel had passed that tick when the task was   *)
(* put in its list, or a goroutine of an earlier turn was still to go through *)
(* the list (timewheel.go: AddTask reads currentPos without a lock).  Bounds  *)
(* where no goroutine is a whole turn late; else the one of a later turn may  *)
(* have the mutex first.                                                     *)
OnTimeUnlessRaced ==
  [][part = "wheel" /\ Len(consumer') > Len(consumer) =>
       \A s \in Wheel!Slot : slots'[s] # slots[s] =>
         Head(slots[s]).due \in {None, lock[s]}]_<<part, consumer, slots, lock>>

(* A task that waits in a list is the one globalTasks has for its id, so that *)
(* Cancel and a later AddTask remove it, unless two calls for the id have     *)
(* overlapped or one is going on, or the goroutine of the slot is sending it. *)
CancellableUnlessOverlapped ==
  part = "wheel" => \A s \in Wheel!Slot : \A e \in Wheel!Elems(s) :
    \/ globalTasks[e.id].n = e.n
    \/ s \in untracked /\ Head(slots[s]) = e
    \/ e.id \in mixed
    \/ \E w \in Wheel!Users : call[w].id = e.id

(* Until Stop, whatever has been started goes on: the only thing that halts   *)
(* the goroutines of the slots, the workers and the calls is that every       *)
(* worker's callback waits for the mutex of a slot, held by a goroutine that  *)
(* waits for a worker to make room (timewheel.go: Execute sends under the     *)
(* mutex).                                                                   *)
SlotOfCall(w) ==
  IF call[w].op = "push" THEN Wheel!SlotOf(call[w].due) ELSE call[w].old.slotIdx
CallbackWaits(w) ==
  /\ Wheel!Runs(w)
  /\ call[w].op \in {"replace", "push", "cancel"} /\ SlotOfCall(w) \in untracked
Started == jobs # {} \/ consumer # <<>> \/ \E w \in Wheel!Users : call[w] # Wheel!NoCall
WheelMoves ==
  part = "wheel" /\ stops = 0 /\ Started =>
    ENABLED Wheel!Work \/ (\A w \in Workers : CallbackWaits(w))

(* At every moment since its picker was built, a connection is less than one  *)
(* pick ahead of its share by weight, and at most half a pick behind for each *)
(* other connection, less than one if there are at most three; a weight that  *)
(* is not announced or not positive counts as one.                            *)
Share(m) == IF m # None /\ m > 0 THEN m ELSE 1
PicksFollowWeights ==
  LET n   == Len(meta)
      all == Balancer!AddUp([s \in DOMAIN meta |-> Share(meta[s])], n)
      sum == Balancer!AddUp(picks, n)
  IN \A s \in DOMAIN meta :
       LET lead == picks[s] * all - sum * Share(meta[s])
       IN lead < all /\ -2 * lead <= (n - 1) * all /\ (n <= 3 => -lead < all)

(* As long as scripts run in the order of the times they were given, no span  *)
(* of time sees more calls allowed than a full bucket and what flows in.      *)
WithinBudget ==
  (\A j, k \in DOMAIN admitted : j < k => admitted[j] <= admitted[k]) =>
    \A j, k \in DOMAIN admitted : j <= k =>
      Unit * (k - j + 1) <= Capacity + admitted[k] - admitted[j]

(* A graph that grew by AddEdge has no cycle, its topological sort says so,    *)
(* and it refuses exactly the edges that would close a cycle.                 *)
Arcs == {<<e[1], e[3]>> : e \in Graph!GetEdges}
GraphStaysDag ==
  /\ Graph!Acyclic(Arcs) /\ Graph!CheckDAG /\ Graph!GetCycle = {}
  /\ \A m, n \in nodes :
       Graph!WouldCreateCycle(m, n) <=> ~Graph!Acyclic(Arcs \cup {<<m, n>>})
=============================================================================
