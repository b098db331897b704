----------------------------- MODULE EtcdProofs -----------------------------
(* Proofs about Etcd, for any number of nodes and faults.                   *)
EXTENDS Etcd, TLAPS

Places == {"idle", "loop", "campaign", "wait", "leader", "failed", "exited",
           "try", "held", "close", "ended"}

(* The variables the invariant speaks of have their types.                  *)
TypeInv ==
  /\ key \in SUBSET Members
  /\ older \in [Members -> SUBSET Members]
  /\ pc \in [Members -> Places]
  /\ isLeader \in [Members -> BOOLEAN]

\* The keys are totally ordered, and whoever is waited for has a key.
Ordered ==
  /\ \A s \in Members : older[s] \subseteq key
  /\ \A s, t \in key : s # t => s \in older[t] \/ t \in older[s]

\* Who leads, or has the mutex, waits for nobody, and puts no other key.
FirstOwns ==
  /\ \A s \in Members : isLeader[s] => pc[s] = "leader" /\ older[s] = {}
  /\ \A s \in Members : part = "lock" => ~isLeader[s] /\ (pc[s] = "held" => older[s] = {})

IndInv == TypeInv /\ Ordered /\ FirstOwns

-----------------------------------------------------------------------------
\* Nobody but s waits for more than before.
NoNewWait(S) == \A t \in Members \ S : older'[t] \subseteq older[t]

SessionsOK(S) ==
  /\ key' \in SUBSET Members /\ older' \in [Members -> SUBSET Members]
  /\ Ordered'
  /\ NoNewWait(S)

\* Only s moves.
Moves(s) ==
  /\ pc' \in [Members -> Places] /\ isLeader' \in [Members -> BOOLEAN]
  /\ \A t \in Members \ {s} : pc'[t] = pc[t] /\ isLeader'[t] = isLeader[t]

(* A call that leaves keys alone keeps them in order.                       *)
LEMMA SameKeys ==
  ASSUME IndInv, UNCHANGED <<key, older>>
  PROVE  SessionsOK({})
BY DEF IndInv, TypeInv, Ordered, SessionsOK, NoNewWait

(* The transaction that puts a key keeps the keys in order: a new key comes *)
(* after all others, and only its session waits for them.                   *)
LEMMA PutKeepsOrder ==
  ASSUME IndInv, NEW s \in Members,
         key' = key \cup {s},
         older' = IF s \in key THEN older ELSE [older EXCEPT ![s] = key]
  PROVE  SessionsOK({s})
<1>1. key' \in SUBSET Members /\ older' \in [Members -> SUBSET Members]
    BY DEF IndInv, TypeInv
<1>2. CASE s \in key
    BY <1>1, <1>2 DEF IndInv, Ordered, SessionsOK, NoNewWait
<1>3. CASE s \notin key
  <2>1. older'[s] = key /\ \A t \in Members \ {s} : older'[t] = older[t]
      BY <1>3 DEF IndInv, TypeInv
  <2>2. \A t \in Members : older'[t] \subseteq key'
      BY <2>1 DEF IndInv, Ordered
  <2>3. ASSUME NEW t \in key', NEW u \in key', t # u
        PROVE  t \in older'[u] \/ u \in older'[t]
      BY <2>1, <2>3 DEF IndInv, TypeInv, Ordered
  <2> QED BY <1>1, <2>1, <2>2, <2>3 DEF Ordered, SessionsOK, NoNewWait
<1> QED BY <1>2, <1>3

(* A key that is deleted, by its owner or with its lease, keeps the others  *)
(* in order.                                                                *)
LEMMA GoneKeepsOrder ==
  ASSUME IndInv, NEW s \in Members,
         key' = key \ {s},
         older' = [t \in Members |-> older[t] \ {s}]
  PROVE  SessionsOK({})
BY DEF IndInv, TypeInv, Ordered, SessionsOK, NoNewWait

(* What a step of an election keeps: it moves one node, of whose key it may *)
(* have a new one only if the node does not lead.                           *)
LEMMA ElectionKeeps ==
  ASSUME IndInv, part # "lock", UNCHANGED part, NEW s \in Members, Moves(s),
         \/ SessionsOK({}) /\ (isLeader'[s] => pc'[s] = "leader" /\ older[s] = {})
         \/ SessionsOK({s}) /\ ~isLeader'[s]
  PROVE  IndInv'
<1>1. TypeInv'
    BY DEF IndInv, TypeInv, SessionsOK, Moves
<1>2. ASSUME NEW t \in Members, isLeader'[t]
      PROVE  pc'[t] = "leader" /\ older'[t] = {}
    BY <1>2 DEF IndInv, TypeInv, FirstOwns, SessionsOK, NoNewWait, Moves
<1> QED BY <1>1, <1>2 DEF IndInv, FirstOwns, SessionsOK

(* What a step of a caller of the mutex keeps.                              *)
LEMMA LockKeeps ==
  ASSUME IndInv, part = "lock", UNCHANGED <<part, isLeader>>, NEW s \in Members, Moves(s),
         SessionsOK({}) \/ SessionsOK({s}),
         pc'[s] = "held" => older'[s] = {}
  PROVE  IndInv'
<1>1. TypeInv'
    BY DEF IndInv, TypeInv, SessionsOK, Moves
<1>2. ASSUME NEW t \in Members, pc'[t] = "held"
      PROVE  older'[t] = {}
    BY <1>2 DEF IndInv, TypeInv, FirstOwns, SessionsOK, NoNewWait, Moves
<1> QED BY <1>1, <1>2 DEF IndInv, FirstOwns, SessionsOK

(* What the calls of etcd do to the keys.                                   *)
LEMMA SchedulerCalls ==
  ASSUME IndInv, NEW s \in Members
  PROVE  /\ Scheduler!NewSession(s) \/ Scheduler!Orphan(s) \/ Scheduler!KeepAliveEnds(s) => SessionsOK({})
         /\ Scheduler!PutKey(s) => SessionsOK({s})
         /\ Scheduler!DeleteKey(s) \/ Scheduler!Close(s) \/ Scheduler!Expires(s) => SessionsOK({})
<1>1. Scheduler!NewSession(s) \/ Scheduler!Orphan(s) \/ Scheduler!KeepAliveEnds(s) => UNCHANGED <<key, older>>
    BY DEF Scheduler!NewSession, Scheduler!Orphan, Scheduler!KeepAliveEnds
<1>2. Scheduler!PutKey(s) =>
        /\ key' = key \cup {s}
        /\ older' = IF s \in key THEN older ELSE [older EXCEPT ![s] = key]
    BY DEF Scheduler!PutKey
<1>3. Scheduler!DeleteKey(s) \/ Scheduler!Close(s) \/ Scheduler!Expires(s) =>
        key' = key \ {s} /\ older' = [t \in Members |-> older[t] \ {s}]
    BY DEF Scheduler!DeleteKey, Scheduler!Close, Scheduler!Expires, Scheduler!KeyGone
<1> QED BY <1>1, <1>2, <1>3, SameKeys, PutKeepsOrder, GoneKeepsOrder

(* Every step of the task scheduler keeps the invariant.                    *)
LEMMA SchedulerKeeps ==
  ASSUME IndInv, part # "lock", UNCHANGED part, Scheduler!Next
  PROVE  IndInv'
<1> PICK s \in Members :
      Scheduler!Start(s) \/ Scheduler!NodeStep(s) \/ Scheduler!CampaignFails(s) \/ Scheduler!Stop(s) \/ Scheduler!Etcd(s)
    BY DEF Scheduler!Next
<1> USE DEF Scheduler!Go, Scheduler!ctlVars, Scheduler!sessionVars
<1>0. isLeader[s] => pc[s] = "leader" /\ older[s] = {}
    BY DEF IndInv, FirstOwns
<1>1. CASE Scheduler!Start(s)
  <2>1. SessionsOK({})
      BY <1>1, SchedulerCalls DEF Scheduler!Start
  <2>2. Moves(s) /\ ~isLeader'[s]
      BY <1>0, <1>1 DEF IndInv, TypeInv, Moves, Places, Scheduler!Start
  <2> QED BY <2>1, <2>2, ElectionKeeps
<1>2. CASE Scheduler!Loop(s)
  <2>1. SessionsOK({})
      BY <1>2, SameKeys DEF Scheduler!Loop
  <2>2. Moves(s) /\ ~isLeader'[s]
      BY <1>0, <1>2 DEF IndInv, TypeInv, Moves, Places, Scheduler!Loop
  <2> QED BY <2>1, <2>2, ElectionKeeps
<1>3. CASE Scheduler!Propose(s)
  <2>1. SessionsOK({s})
      BY <1>3, SchedulerCalls DEF Scheduler!Propose
  <2>2. Moves(s) /\ ~isLeader'[s]
      BY <1>0, <1>3 DEF IndInv, TypeInv, Moves, Places, Scheduler!Propose
  <2> QED BY <2>1, <2>2, ElectionKeeps
<1>4. CASE Scheduler!Elected(s)
  <2>1. SessionsOK({})
      BY <1>4, SameKeys DEF Scheduler!Elected
  <2>2. Moves(s) /\ pc'[s] = "leader" /\ older[s] = {}
      BY <1>4 DEF IndInv, TypeInv, Moves, Places, Scheduler!Elected
  <2> QED BY <2>1, <2>2, ElectionKeeps
<1>5. CASE Scheduler!CannotCampaign(s) \/ Scheduler!CampaignFails(s)
  <2>1. SessionsOK({}) \/ SessionsOK({s})
      BY <1>5, SameKeys, SchedulerCalls DEF Scheduler!CannotCampaign, Scheduler!CampaignFails
  <2>2. Moves(s) /\ ~isLeader'[s]
      BY <1>0, <1>5 DEF IndInv, TypeInv, Moves, Places, Scheduler!CannotCampaign, Scheduler!CampaignFails, Scheduler!Failed
  <2> QED BY <2>1, <2>2, ElectionKeeps
<1>6. CASE Scheduler!Leave(s)
  <2>1. SessionsOK({})
      BY <1>6, SameKeys, SchedulerCalls DEF Scheduler!Leave
  <2>2. Moves(s) /\ ~isLeader'[s]
      BY <1>0, <1>6 DEF IndInv, TypeInv, Moves, Places, Scheduler!Leave
  <2> QED BY <2>1, <2>2, ElectionKeeps
<1>7. CASE Scheduler!Stop(s) \/ Scheduler!Etcd(s)
  <2>1. SessionsOK({}) BY <1>7, SameKeys, SchedulerCalls DEF Scheduler!Stop, Scheduler!Etcd
  <2>2. pc' = pc /\ isLeader' = isLeader BY <1>7 DEF Scheduler!Stop, Scheduler!Etcd
  <2> QED BY <1>0, <2>1, <2>2 DEF IndInv, TypeInv, FirstOwns, SessionsOK, NoNewWait
<1> QED BY <1>1, <1>2, <1>3, <1>4, <1>5, <1>6, <1>7 DEF Scheduler!NodeStep

(* What the calls of etcd do to the keys.                                   *)
LEMMA LeaderCalls ==
  ASSUME IndInv, NEW s \in Members
  PROVE  /\ Leader!NewSession(s) \/ Leader!Orphan(s) \/ Leader!KeepAliveEnds(s) => SessionsOK({})
         /\ Leader!PutKey(s) => SessionsOK({s})
         /\ Leader!DeleteKey(s) \/ Leader!Close(s) \/ Leader!Expires(s) => SessionsOK({})
<1>1. Leader!NewSession(s) \/ Leader!Orphan(s) \/ Leader!KeepAliveEnds(s) => UNCHANGED <<key, older>>
    BY DEF Leader!NewSession, Leader!Orphan, Leader!KeepAliveEnds
<1>2. Leader!PutKey(s) =>
        /\ key' = key \cup {s}
        /\ older' = IF s \in key THEN older ELSE [older EXCEPT ![s] = key]
    BY DEF Leader!PutKey
<1>3. Leader!DeleteKey(s) \/ Leader!Close(s) \/ Leader!Expires(s) =>
        key' = key \ {s} /\ older' = [t \in Members |-> older[t] \ {s}]
    BY DEF Leader!DeleteKey, Leader!Close, Leader!Expires, Leader!KeyGone
<1> QED BY <1>1, <1>2, <1>3, SameKeys, PutKeepsOrder, GoneKeepsOrder

(* Every step of the leader election keeps the invariant.                   *)
LEMMA LeaderKeeps ==
  ASSUME IndInv, part # "lock", UNCHANGED part, Leader!Next
  PROVE  IndInv'
<1> PICK s \in Members :
      Leader!Start(s) \/ Leader!NodeStep(s) \/ Leader!CampaignFails(s) \/ Leader!Stop(s) \/ Leader!Etcd(s)
    BY DEF Leader!Next
<1> USE DEF Leader!Go, Leader!ctlVars, Leader!sessionVars
<1>0. isLeader[s] => pc[s] = "leader" /\ older[s] = {}
    BY DEF IndInv, FirstOwns
<1>1. CASE Leader!Start(s)
  <2>1. SessionsOK({})
      BY <1>1, LeaderCalls DEF Leader!Start
  <2>2. Moves(s) /\ ~isLeader'[s]
      BY <1>0, <1>1 DEF IndInv, TypeInv, Moves, Places, Leader!Start
  <2> QED BY <2>1, <2>2, ElectionKeeps
<1>2. CASE Leader!Loop(s)
  <2>1. SessionsOK({})
      BY <1>2, SameKeys DEF Leader!Loop
  <2>2. Moves(s) /\ ~isLeader'[s]
      BY <1>0, <1>2 DEF IndInv, TypeInv, Moves, Places, Leader!Loop
  <2> QED BY <2>1, <2>2, ElectionKeeps
<1>3. CASE Leader!Propose(s)
  <2>1. SessionsOK({s})
      BY <1>3, LeaderCalls DEF Leader!Propose
  <2>2. Moves(s) /\ ~isLeader'[s]
      BY <1>0, <1>3 DEF IndInv, TypeInv, Moves, Places, Leader!Propose
  <2> QED BY <2>1, <2>2, ElectionKeeps
<1>4. CASE Leader!Elected(s)
  <2>1. SessionsOK({})
      BY <1>4, SameKeys DEF Leader!Elected
  <2>2. Moves(s) /\ pc'[s] = "leader" /\ older[s] = {}
      BY <1>4 DEF IndInv, TypeInv, Moves, Places, Leader!Elected
  <2> QED BY <2>1, <2>2, ElectionKeeps
<1>5. CASE Leader!CannotCampaign(s) \/ Leader!CampaignFails(s)
  <2>1. SessionsOK({}) \/ SessionsOK({s})
      BY <1>5, SameKeys, LeaderCalls DEF Leader!CannotCampaign, Leader!CampaignFails
  <2>2. Moves(s) /\ ~isLeader'[s]
      BY <1>0, <1>5 DEF IndInv, TypeInv, Moves, Places, Leader!CannotCampaign, Leader!CampaignFails, Leader!Failed
  <2> QED BY <2>1, <2>2, ElectionKeeps
<1>6. CASE Leader!Leave(s)
  <2>1. SessionsOK({})
      BY <1>6, SameKeys, LeaderCalls DEF Leader!Leave
  <2>2. Moves(s) /\ ~isLeader'[s]
      BY <1>0, <1>6 DEF IndInv, TypeInv, Moves, Places, Leader!Leave
  <2> QED BY <2>1, <2>2, ElectionKeeps
<1>7. CASE Leader!Stop(s) \/ Leader!Etcd(s)
  <2>1. SessionsOK({}) BY <1>7, SameKeys, LeaderCalls DEF Leader!Stop, Leader!Etcd
  <2>2. pc' = pc /\ isLeader' = isLeader BY <1>7 DEF Leader!Stop, Leader!Etcd
  <2> QED BY <1>0, <2>1, <2>2 DEF IndInv, TypeInv, FirstOwns, SessionsOK, NoNewWait
<1> QED BY <1>1, <1>2, <1>3, <1>4, <1>5, <1>6, <1>7 DEF Leader!NodeStep

(* What the calls of etcd do to the keys.                                   *)
LEMMA MutexCalls ==
  ASSUME IndInv, NEW s \in Members
  PROVE  /\ Mutex!NewSession(s) \/ Mutex!Orphan(s) \/ Mutex!KeepAliveEnds(s) => SessionsOK({})
         /\ Mutex!PutKey(s) => SessionsOK({s})
         /\ Mutex!DeleteKey(s) \/ Mutex!Close(s) \/ Mutex!Expires(s) => SessionsOK({})
<1>1. Mutex!NewSession(s) \/ Mutex!Orphan(s) \/ Mutex!KeepAliveEnds(s) => UNCHANGED <<key, older>>
    BY DEF Mutex!NewSession, Mutex!Orphan, Mutex!KeepAliveEnds
<1>2. Mutex!PutKey(s) =>
        /\ key' = key \cup {s}
        /\ older' = IF s \in key THEN older ELSE [older EXCEPT ![s] = key]
    BY DEF Mutex!PutKey
<1>3. Mutex!DeleteKey(s) \/ Mutex!Close(s) \/ Mutex!Expires(s) =>
        key' = key \ {s} /\ older' = [t \in Members |-> older[t] \ {s}]
    BY DEF Mutex!DeleteKey, Mutex!Close, Mutex!Expires, Mutex!KeyGone
<1> QED BY <1>1, <1>2, <1>3, SameKeys, PutKeepsOrder, GoneKeepsOrder

(* Every step of the mutex keeps the invariant.                             *)
LEMMA MutexKeeps ==
  ASSUME IndInv, part = "lock", UNCHANGED <<part, isLeader>>, Mutex!Next
  PROVE  IndInv'
<1> PICK s \in Members :
      Mutex!TryLock(s) \/ Mutex!CallStep(s) \/ Mutex!Unlock(s) \/ Mutex!Etcd(s)
    BY DEF Mutex!Next
<1> USE DEF Mutex!Go, Mutex!sessionVars
<1>1. CASE Mutex!TryLock(s)
  <2>1. SessionsOK({}) BY <1>1, MutexCalls DEF Mutex!TryLock
  <2>2. Moves(s) /\ pc'[s] = "try"
      BY <1>1 DEF IndInv, TypeInv, Moves, Places, Mutex!TryLock
  <2> QED BY <2>1, <2>2, LockKeeps
<1>2. CASE Mutex!Acquire(s)
  <2>1. SessionsOK({s}) BY <1>2, MutexCalls DEF Mutex!Acquire
  <2>2. Moves(s) /\ (pc'[s] = "held" => older'[s] = {})
      BY <1>2 DEF IndInv, TypeInv, Moves, Places, Mutex!Acquire
  <2> QED BY <2>1, <2>2, LockKeeps
<1>3. CASE Mutex!Obtain(s)
  <2>1. SessionsOK({}) BY <1>3, SameKeys DEF Mutex!Obtain
  <2>2. Moves(s) /\ older'[s] = {}
      BY <1>3 DEF IndInv, TypeInv, Moves, Places, Mutex!Obtain
  <2> QED BY <2>1, <2>2, LockKeeps
<1>4. CASE Mutex!AcquireFails(s) \/ Mutex!Timeout(s) \/ Mutex!Unlock(s)
  <2>1. SessionsOK({}) \/ SessionsOK({s})
      BY <1>4, SameKeys, MutexCalls DEF Mutex!AcquireFails, Mutex!Timeout, Mutex!Unlock
  <2>2. Moves(s) /\ pc'[s] = "close"
      BY <1>4 DEF IndInv, TypeInv, Moves, Places, Mutex!AcquireFails, Mutex!Timeout, Mutex!Unlock
  <2> QED BY <2>1, <2>2, LockKeeps
<1>5. CASE Mutex!CloseSession(s)
  <2>1. SessionsOK({}) BY <1>5, MutexCalls DEF Mutex!CloseSession
  <2>2. Moves(s) /\ pc'[s] = "ended"
      BY <1>5 DEF IndInv, TypeInv, Moves, Places, Mutex!CloseSession
  <2> QED BY <2>1, <2>2, LockKeeps
<1>6. CASE Mutex!Etcd(s)
  <2>1. SessionsOK({}) BY <1>6, MutexCalls DEF Mutex!Etcd
  <2>2. pc' = pc BY <1>6 DEF Mutex!Etcd
  <2> QED BY <2>1, <2>2 DEF IndInv, TypeInv, FirstOwns, SessionsOK, NoNewWait
<1> QED BY <1>1, <1>2, <1>3, <1>4, <1>5, <1>6 DEF Mutex!CallStep

-----------------------------------------------------------------------------
(* The invariant holds in every behaviour: keys stay ordered, and whoever   *)
(* leads or has the mutex waits for nobody (internal/etcd).                 *)
THEOREM IndInvHolds == EtcdSpec => []IndInv
<1>1. EtcdInit => IndInv
    BY DEF EtcdInit, Scheduler!Init, Places, Scheduler!SessionInit, IndInv, TypeInv, Ordered, FirstOwns
<1>2. IndInv /\ [EtcdNext]_etcdVars => IndInv'
  <2> SUFFICES ASSUME IndInv, [EtcdNext]_etcdVars PROVE IndInv'
      OBVIOUS
  <2>1. CASE SchedulerStep
      BY <2>1, SchedulerKeeps DEF SchedulerStep, In
  <2>2. CASE LeaderStep
      BY <2>2, LeaderKeeps DEF LeaderStep, In
  <2>3. CASE MutexStep
      BY <2>3, MutexKeeps DEF MutexStep, In
  <2>4. CASE UNCHANGED etcdVars
      BY <2>4 DEF etcdVars, IndInv, TypeInv, Ordered, FirstOwns
  <2> QED BY <2>1, <2>2, <2>3, <2>4 DEF EtcdNext
<1> QED BY <1>1, <1>2, PTL DEF EtcdSpec

(* Of all nodes that take themselves for the leader at most one still has   *)
(* its key (task_scheduler.go, leader.go).                                  *)
THEOREM LeadersExclusiveHolds == EtcdSpec => []LeadersExclusive
<1>1. IndInv => LeadersExclusive
    BY DEF IndInv, TypeInv, Ordered, FirstOwns, LeadersExclusive, Exclusive
<1> QED BY <1>1, IndInvHolds, PTL

(* Of all callers TryLock gave the mutex to at most one still has its key   *)
(* (distibuted_lock.go).                                                    *)
THEOREM LockExclusiveHolds == EtcdSpec => []LockExclusive
<1>1. IndInv => LockExclusive
    BY DEF IndInv, TypeInv, Ordered, FirstOwns, LockExclusive, Exclusive
<1> QED BY <1>1, IndInvHolds, PTL
=============================================================================
