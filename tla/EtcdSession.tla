----------------------------- MODULE EtcdSession -----------------------------
(***************************************************************************)
(* What an election and a mutex of the etcd client share: sessions with a   *)
(* lease that is kept alive, and the keys below one prefix, ordered by      *)
(* creation.  The lease ends in the server, by revocation or because        *)
(* nothing renewed it; the client learns of that, or gives the lease up,    *)
(* at another time (Done).  A session has at most one key.                  *)
(***************************************************************************)
EXTENDS Integers

CONSTANTS
  Sessions,
  MaxFaults    \* bound: leases lost or given up and calls that fail

VARIABLES
  lease,     \* none, live, gone
  done,      \* Done is closed: nothing keeps the lease alive any more
  key,       \* sessions whose key exists
  older,     \* older[s]: sessions whose key existed before the one of s
  faults

sessionVars == <<lease, done, key, older, faults>>

SessionInit ==
  /\ lease = [s \in Sessions |-> "none"]
  /\ done = [s \in Sessions |-> FALSE]
  /\ key = {} /\ older = [s \in Sessions |-> {}]
  /\ faults = 0

\* concurrency.NewSession: Grant and KeepAlive.
NewSession(s) ==
  /\ lease[s] = "none"
  /\ lease' = [lease EXCEPT ![s] = "live"]
  /\ UNCHANGED <<done, key, older, faults>>

\* The transaction that puts the key unless it is there; it needs the lease.
PutKey(s) ==
  /\ lease[s] = "live"
  /\ key' = key \cup {s}
  /\ older' = IF s \in key THEN older ELSE [older EXCEPT ![s] = key]
  /\ UNCHANGED <<lease, done>>

KeyGone(s) ==
  /\ key' = key \ {s}
  /\ older' = [t \in Sessions |-> older[t] \ {s}]

DeleteKey(s) == KeyGone(s) /\ UNCHANGED <<lease, done>>

\* Session.Close: Orphan, then Revoke, which may fail.
Close(s) ==
  /\ done' = [done EXCEPT ![s] = TRUE]
  /\ lease' = [lease EXCEPT ![s] = "gone"]
  /\ KeyGone(s) /\ UNCHANGED faults
Orphan(s) ==
  /\ done' = [done EXCEPT ![s] = TRUE]
  /\ UNCHANGED <<lease, key, older>>

Fault == faults < MaxFaults /\ faults' = faults + 1

\* The server ends a lease that was not renewed.
Expires(s) ==
  /\ lease[s] = "live"
  /\ lease' = [lease EXCEPT ![s] = "gone"]
  /\ KeyGone(s)
  /\ UNCHANGED done
  /\ IF done[s] THEN UNCHANGED faults ELSE Fault

\* The client finds the lease gone, or has heard nothing for a TTL.
KeepAliveEnds(s) ==
  /\ lease[s] # "none" /\ ~done[s]
  /\ done' = [done EXCEPT ![s] = TRUE]
  /\ UNCHANGED <<lease, key, older>>
  /\ IF lease[s] = "gone" THEN UNCHANGED faults ELSE Fault
=============================================================================
