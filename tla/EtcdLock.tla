------------------------------ MODULE EtcdLock ------------------------------
(***************************************************************************)
(* internal/etcd/distibuted_lock.go: TryLock makes a session and waits for  *)
(* the mutex for a limited time, Unlock deletes the key and closes the      *)
(* session.  A caller is named by the session of its call.                  *)
(***************************************************************************)
EXTENDS EtcdSession

VARIABLE pc   \* idle, try, wait, held, close, ended

lockVars == <<sessionVars, pc>>

Init == SessionInit /\ pc = [s \in Sessions |-> "idle"]

Go(s, from, to) == pc[s] = from /\ pc' = [pc EXCEPT ![s] = to]

TryLock(s) == Go(s, "idle", "try") /\ NewSession(s)

\* Mistake: older keys are not looked for.
AcquireAtOnce(s) == PutKey(s) /\ UNCHANGED faults /\ Go(s, "try", "held")

\* Mutex.Lock: the key is put; the oldest one owns the mutex.
Acquire(s) ==
  /\ PutKey(s) /\ UNCHANGED faults
  /\ Go(s, "try", IF older'[s] = {} THEN "held" ELSE "wait")

\* All older keys are gone; is the own one still there?
Obtain(s) ==
  /\ older[s] = {}
  /\ Go(s, "wait", IF s \in key THEN "held" ELSE "close")
  /\ UNCHANGED sessionVars

\* The transaction fails, for lack of the lease or by a fault; the key is put or not.
AcquireFails(s) ==
  /\ Go(s, "try", "close")
  /\ \/ lease[s] = "gone" /\ UNCHANGED sessionVars
     \/ Fault /\ (PutKey(s) \/ UNCHANGED <<lease, done, key, older>>)

\* The time is up: the key is deleted, if that call succeeds.
Timeout(s) ==
  /\ Go(s, "wait", "close")
  /\ \/ DeleteKey(s) /\ UNCHANGED faults
     \/ Fault /\ UNCHANGED <<lease, done, key, older>>

\* Unlock deletes the key, if that call succeeds, and closes the session.
Unlock(s) ==
  /\ Go(s, "held", "close")
  /\ \/ DeleteKey(s) /\ UNCHANGED faults
     \/ Fault /\ UNCHANGED <<lease, done, key, older>>

\* session.Close
CloseSession(s) ==
  /\ Go(s, "close", "ended")
  /\ Close(s) \/ (Orphan(s) /\ Fault)

Etcd(s) == (Expires(s) \/ KeepAliveEnds(s)) /\ UNCHANGED pc

CallStep(s) == Acquire(s) \/ Obtain(s) \/ AcquireFails(s) \/ Timeout(s) \/ CloseSession(s)

Next == \E s \in Sessions : TryLock(s) \/ CallStep(s) \/ Unlock(s) \/ Etcd(s)
=============================================================================
