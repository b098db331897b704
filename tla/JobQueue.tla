------------------------------ MODULE JobQueue ------------------------------
(***************************************************************************)
(* What the delay queue promises its users, without the database, the      *)
(* transactions or the ticker: a job is taken by one worker at a time, is   *)
(* tried again at most MaxRetry times, and once settled is never touched    *)
(* again.  A worker that dies (or whose last write is lost) drops its job,  *)
(* which then stays taken for ever: the code has no reaper.                 *)
(***************************************************************************)
EXTENDS Naturals

CONSTANTS
  Msgs,      \* the jobs
  Workers,   \* the worker goroutines of every process
  Handled,   \* the jobs whose topic has a handler
  MaxRetry,  \* how often a job may be put back
  None       \* "this worker has no job"

VARIABLES
  state,     \* state[m] \in {"new", "ready", "taken", "done", "dead"}
  tries,     \* tries[m]: how often m was put back
  holder     \* holder[w]: the job w is working on, or None

jobVars == <<state, tries, holder>>

Init ==
  /\ state  = [m \in Msgs |-> "new"]
  /\ tries  = [m \in Msgs |-> 0]
  /\ holder = [w \in Workers |-> None]

Submit(m) ==
  /\ state[m] = "new"
  /\ state' = [state EXCEPT ![m] = "ready"]
  /\ UNCHANGED <<tries, holder>>

Take(w, m) ==
  /\ holder[w] = None
  /\ state[m] = "ready"
  /\ state'  = [state EXCEPT ![m] = "taken"]
  /\ holder' = [holder EXCEPT ![w] = m]
  /\ UNCHANGED tries

\* The worker settles its job with outcome s and is free again.
Settle(w, s) ==
  /\ holder[w] # None
  /\ state'  = [state EXCEPT ![holder[w]] = s]
  /\ holder' = [holder EXCEPT ![w] = None]

Complete(w) == Settle(w, "done") /\ UNCHANGED tries

GiveUp(w) ==
  /\ holder[w] \in Handled => tries[holder[w]] = MaxRetry
  /\ Settle(w, "dead")
  /\ UNCHANGED tries

PutBack(w) ==
  /\ Settle(w, "ready")
  /\ tries[holder[w]] < MaxRetry
  /\ tries' = [tries EXCEPT ![holder[w]] = @ + 1]

\* A set of workers (those of a process that dies) forget their jobs.
Drop(W) ==
  /\ holder' = [w \in Workers |-> IF w \in W THEN None ELSE holder[w]]
  /\ UNCHANGED <<state, tries>>

\* A job is taken but no worker knows: the claim was committed, its answer lost.
TakenByNobody(m) ==
  /\ state[m] = "ready"
  /\ state' = [state EXCEPT ![m] = "taken"]
  /\ UNCHANGED <<tries, holder>>

Next ==
  \/ \E m \in Msgs : Submit(m) \/ TakenByNobody(m)
  \/ \E w \in Workers, m \in Msgs : Take(w, m)
  \/ \E w \in Workers : Complete(w) \/ GiveUp(w) \/ PutBack(w)
  \/ \E W \in SUBSET Workers : Drop(W)

Spec == Init /\ [][Next]_jobVars
=============================================================================
