-------------------------------- MODULE Etcd --------------------------------
(***************************************************************************)
(* The task scheduler, the leader election and the mutex of internal/etcd,   *)
(* side by side: a behaviour is one of the part that EtcdInit chooses.       *)
(***************************************************************************)
EXTENDS Integers

CONSTANTS
  Members,
  MaxLosses,   \* bound: leases lost or given up and calls that fail
  Stopped      \* nodes whose task scheduler is stopped at some time

VARIABLES
  part,
  lease, done, key, older, losses,   \* sessions of etcd
  pc, isLeader, stop

Scheduler == INSTANCE Election WITH
               Sessions <- Members, faults <- losses, MaxFaults <- MaxLosses, Retry <- TRUE
Leader    == INSTANCE Election WITH
               Sessions <- Members, faults <- losses, MaxFaults <- MaxLosses, Retry <- FALSE
Mutex     == INSTANCE EtcdLock WITH
               Sessions <- Members, faults <- losses, MaxFaults <- MaxLosses

etcdVars == <<part, lease, done, key, older, losses, pc, isLeader, stop>>

EtcdInit == part \in {"scheduler", "leader", "lock"} /\ Scheduler!Init

In(p) == part = p /\ UNCHANGED part

SchedulerStep ==
  In("scheduler") /\ Scheduler!Next /\ \A s \in Members \ Stopped : UNCHANGED stop[s]
LeaderStep == In("leader") /\ Leader!Next
MutexStep  == In("lock") /\ Mutex!Next /\ UNCHANGED <<isLeader, stop>>

EtcdNext == SchedulerStep \/ LeaderStep \/ MutexStep

\* What a node does by itself.
Runs(s) ==
  \/ In("scheduler") /\ Scheduler!NodeStep(s)
  \/ In("leader") /\ Leader!NodeStep(s)

\* Stop goes on once it is called; a lease nobody keeps alive ends.
Ends(s) ==
  \/ In("scheduler") /\ stop[s] > 0 /\ Scheduler!Stop(s)
  \/ In("scheduler") /\ done[s] /\ Scheduler!Etcd(s)
  \/ In("leader") /\ done[s] /\ Leader!Etcd(s)

EtcdFairness == \A s \in Members : WF_etcdVars(Runs(s)) /\ WF_etcdVars(Ends(s))

EtcdSpec == EtcdInit /\ [][EtcdNext]_etcdVars /\ EtcdFairness

-----------------------------------------------------------------------------
Exclusive(S) == \A s, t \in S : s # t => ~({s, t} \subseteq key)

(* Of the nodes that take themselves for the leader, at most one still has its *)
(* key: two lead at a time only if one has lost its lease and not left yet     *)
(* (task_scheduler.go: campaignForLeadership; leader.go: Campaign).           *)
LeadersExclusive == Exclusive({s \in Members : isLeader[s]})

(* Of the callers TryLock gave the mutex to, at most one still has its key.    *)
LockExclusive == part = "lock" => Exclusive({s \in Members : pc[s] = "held"})

(* TaskScheduler.Stop returns: the goroutine it waits for ends, whatever it    *)
(* was doing and whatever failed.                                             *)
StopReturns == \A s \in Members : stop[s] = 1 ~> stop[s] = 4

(* While nodes take part in the election with a live lease, there is a leader  *)
(* again and again, unless the key of a node that gave up stays in front:      *)
(* LeaderElection.Campaign returns an error without closing its session        *)
(* (leader.go:44).  A scheduler whose lease is gone does not count: it         *)
(* campaigns on, but see TakesPartAgain.                                      *)
Candidates == {s \in Members : lease[s] = "live" /\ pc[s] \in {"loop", "campaign", "wait"}}
Blocked    == part = "leader" /\ \E s \in key : pc[s] = "failed"
NotLeaderless ==
  []<>(part # "lock" =>
         Candidates = {} \/ (\E s \in Members : isLeader[s]) \/ Blocked)

(* What a comment says and the code does not do: a scheduler whose work as the *)
(* leader ended with its session takes part in the election again, that is, it *)
(* waits with a key of its own, unless it is stopped (task_scheduler.go:97).   *)
TakesPartAgain ==
  \A s \in Members :
    part = "scheduler" /\ isLeader[s] /\ done[s]
      ~> (pc[s] = "wait" /\ s \in key) \/ stop[s] > 0
=============================================================================
