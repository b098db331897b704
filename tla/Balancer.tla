------------------------------ MODULE Balancer ------------------------------
(***************************************************************************)
(* The weighted_round_robin balancer of gRPC: Build makes a picker of the    *)
(* ready connections, Pick is the smooth weighted round robin under the      *)
(* mutex of the picker.                                                      *)
(***************************************************************************)
EXTENDS Integers, Sequences, SequencesExt, FiniteSetsExt

CONSTANTS
  MaxConns,   \* bound: ready connections
  Metadata,   \* weights resolvers announce, NoWeight if there is none
  NoWeight,
  MaxPicks    \* bound: picks of one picker

VARIABLES
  meta,       \* announced weights of the ready connections, in the order of
              \* subConns, which is that of the iteration of a map
  weight,     \* weightedSubConn.weight
  current,    \* weightedSubConn.currentWeight
  picks       \* history: picks of each connection by this picker

balancerVars == <<meta, weight, current, picks>>

\* f[1] + ... + f[n], as a loop over subConns adds it up.
AddUp(f, n) ==
  LET sum[k \in 0..n] == IF k = 0 THEN 0 ELSE sum[k - 1] + f[k] IN sum[n]

Ready  == DOMAIN meta
Total  == AddUp(weight, Len(meta))
Picked == AddUp(picks, Len(meta))

\* Mistake: what is announced is taken as it is.
Announced(m) == IF m = NoWeight THEN 1 ELSE m
\* Only a positive weight is used.
WeightOf(m) == IF m # NoWeight /\ m > 0 THEN m ELSE 1

\* No connection is ready: Pick answers ErrNoSubConnAvailable.
Init == meta = <<>> /\ weight = <<>> /\ current = <<>> /\ picks = <<>>

\* wrrPickerBuilder.Build, at every change of the ready connections.
Build ==
  \E m \in BoundedSeq(Metadata, MaxConns) :
    /\ meta' = m
    /\ weight' = [c \in DOMAIN m |-> WeightOf(m[c])]
    /\ current' = [c \in DOMAIN m |-> 0]
    /\ picks' = [c \in DOMAIN m |-> 0]

\* Pick: every weight is added, the first of the greatest is chosen.
Pick ==
  /\ Ready # {} /\ Picked < MaxPicks
  /\ LET raised == [c \in Ready |-> current[c] + weight[c]]
         best == Min({c \in Ready : \A d \in Ready : raised[c] >= raised[d]})
     IN /\ current' = [raised EXCEPT ![best] = @ - Total]
        /\ picks' = [picks EXCEPT ![best] = @ + 1]
  /\ UNCHANGED <<meta, weight>>

Next == Build \/ Pick
=============================================================================
