----------------------------- MODULE DelayQueue -----------------------------
(***************************************************************************)
(* The delay queue of internal/store/delayqueue: rows of table delay_queue *)
(* inserted by Producer.Publish and consumed by the worker goroutines that *)
(* Consumer.StartWorkers starts in every process.  A worker claims a due   *)
(* row in a transaction (SELECT ... FOR UPDATE SKIP LOCKED, then UPDATE),   *)
(* runs the topic's handler and writes the outcome with an UPDATE whose     *)
(* error nobody looks at.  Processes crash, are cancelled and restart.      *)
(*                                                                         *)
(* execute_time is kept relative to the clock: wait[m] = execute_time - now *)
(* in units of the one-second backoff, so the clock itself needs no bound.  *)
(***************************************************************************)
EXTENDS Integers

CONSTANTS
  Msgs,       \* rows that may be inserted (primary keys)
  Handled,    \* the rows whose topic the process registers a handler for
  Procs,      \* server processes
  Workers,    \* worker goroutines of all processes
  Home,       \* Home[w]: the process w belongs to
  Delays,     \* the delays Publish is called with
  MaxRetry,   \* DelayMessage.MaxRetry (3 in the code)
  None,       \* no message
  MaxLag,     \* bound: how far in the past execute_time is told apart
  MaxFaults   \* bound: crashes, cancellations and failed database calls

ASSUME HandledAssumption == Handled \subseteq Msgs
ASSUME HomeAssumption    == Home \in [Workers -> Procs]
ASSUME DelayAssumption   == Delays \subseteq Int
ASSUME RetryAssumption   == MaxRetry \in Nat
ASSUME NoneAssumption    == None \notin Msgs
ASSUME BoundsAssumption  == MaxLag \in Nat /\ MaxFaults \in Nat

VARIABLES
  status,     \* status[m] of the row; "absent" before the insert
  wait,       \* wait[m]: execute_time of the row minus the clock
  retry,      \* retry_count of the row
  attempts,   \* history: how often a handler was started on m
  pc,         \* where the worker goroutine is
  claim,      \* the worker's local copy of the row: its id ...
  seen,       \* ... and its retry_count when it was selected
  registered, \* registered[p]: the handlers map of p has the topic
  cancelled,  \* cancelled[p]: the context of p is done
  faults      \* how many faults happened so far

rowVars  == <<status, wait, retry, attempts>>
wkVars   == <<pc, claim, seen>>
procVars == <<registered, cancelled>>
vars     == <<status, wait, retry, attempts, pc, claim, seen,
              registered, cancelled, faults>>

Status  == {"absent", "pending", "running", "success", "failed"}
Settled == {"success", "failed"}

(* down: the goroutine does not exist       locked: SELECT done, tx open    *)
(* idle: in select on the ticker            lookup: row claimed             *)
(* drain: at the head of drain's loop       exec: the handler is running    *)
(* ok, err, nohandler: the handler's outcome is known, not written          *)
Holding == {"lookup", "exec", "ok", "err", "nohandler"}
PCs     == {"down", "idle", "drain", "locked"} \cup Holding

TypeOK ==
  /\ status     \in [Msgs -> Status]
  /\ wait       \in [Msgs -> Int]
  /\ retry      \in [Msgs -> Nat]
  /\ attempts   \in [Msgs -> Nat]
  /\ pc         \in [Workers -> PCs]
  /\ claim      \in [Workers -> Msgs \cup {None}]
  /\ seen       \in [Workers -> Nat]
  /\ registered \in [Procs -> BOOLEAN]
  /\ cancelled  \in [Procs -> BOOLEAN]
  /\ faults     \in Nat

Init ==
  /\ status     = [m \in Msgs |-> "absent"]
  /\ wait       = [m \in Msgs |-> 0]
  /\ retry      = [m \in Msgs |-> 0]
  /\ attempts   = [m \in Msgs |-> 0]
  /\ pc         = [w \in Workers |-> "down"]
  /\ claim      = [w \in Workers |-> None]
  /\ seen       = [w \in Workers |-> 0]
  /\ registered = [p \in Procs |-> FALSE]
  /\ cancelled  = [p \in Procs |-> FALSE]
  /\ faults     = 0

Goto(w, from, to) == pc[w] = from /\ pc' = [pc EXCEPT ![w] = to]

\* The worker forgets its local copy of the row.
Release(w) ==
  /\ claim' = [claim EXCEPT ![w] = None]
  /\ seen'  = [seen EXCEPT ![w] = 0]

Fault == faults < MaxFaults /\ faults' = faults + 1

-----------------------------------------------------------------------------
(* Producer.Publish / PublishTx: one INSERT, due after the given delay.     *)
Publish(m, d) ==
  /\ status[m] = "absent"
  /\ status' = [status EXCEPT ![m] = "pending"]
  /\ wait'   = [wait EXCEPT ![m] = d]
  /\ UNCHANGED <<retry, attempts, wkVars, procVars, faults>>

(* NewDispatchController: Register the handler, and only then StartWorkers. *)
Register(p) ==
  /\ ~registered[p]
  /\ registered' = [registered EXCEPT ![p] = TRUE]
  /\ UNCHANGED <<rowVars, wkVars, cancelled, faults>>

\* Mistake: the workers do not wait for Register.
StartedUnregistered(p) == ~cancelled[p]

Started(p) == registered[p] /\ ~cancelled[p]

StartWorkers(p) ==
  /\ Started(p)
  /\ \E w \in Workers : Home[w] = p
  /\ \A w \in Workers : Home[w] = p => pc[w] = "down"
  /\ pc' = [w \in Workers |-> IF Home[w] = p THEN "idle" ELSE pc[w]]
  /\ UNCHANGED <<rowVars, claim, seen, procVars, faults>>

-----------------------------------------------------------------------------
(* The worker: ticker, drain, fetchOne.                                     *)
TickerFires(w) ==
  /\ Goto(w, "idle", "drain")
  /\ UNCHANGED <<rowVars, claim, seen, procVars, faults>>

\* ctx.Done() is seen by the worker's loop or by drain's.
StopWorker(w) ==
  /\ cancelled[Home[w]]
  /\ pc[w] \in {"idle", "drain"}
  /\ pc' = [pc EXCEPT ![w] = "down"]
  /\ UNCHANGED <<rowVars, claim, seen, procVars, faults>>

RowLocked(m) == \E w \in Workers : pc[w] = "locked" /\ claim[w] = m

\* Mistakes: no FOR UPDATE SKIP LOCKED; no condition on execute_time; only rows
\* never tried before.
DueUnlocked  == {m \in Msgs : status[m] = "pending" /\ wait[m] <= 0}
DueEarly     == {m \in Msgs : status[m] = "pending" /\ ~RowLocked(m)}
DueFirstTry  == {m \in Msgs : /\ status[m] = "pending" /\ wait[m] <= 0
                              /\ retry[m] = 0 /\ ~RowLocked(m)}

\* The rows SELECT ... SKIP LOCKED can return: pending, due, not locked.
Due == {m \in Msgs : status[m] = "pending" /\ wait[m] <= 0 /\ ~RowLocked(m)}

SelectDue(w) ==
  /\ ~cancelled[Home[w]]
  /\ Goto(w, "drain", "locked")
  /\ \E m \in Due :
       /\ \A n \in Due : wait[m] <= wait[n]      \* ORDER BY execute_time ASC
       /\ claim' = [claim EXCEPT ![w] = m]
       /\ seen'  = [seen EXCEPT ![w] = retry[m]]
  /\ UNCHANGED <<rowVars, procVars, faults>>

SelectNone(w) ==
  /\ Due = {}
  /\ Goto(w, "drain", "idle")
  /\ UNCHANGED <<rowVars, claim, seen, procVars, faults>>

CommitClaim(w) ==
  /\ ~cancelled[Home[w]]
  /\ Goto(w, "locked", "lookup")
  /\ status' = [status EXCEPT ![claim[w]] = "running"]
  /\ UNCHANGED <<wait, retry, attempts, claim, seen, procVars, faults>>

\* The SELECT, the UPDATE or the COMMIT fails: nothing is stored, drain returns.
FetchFails(w) ==
  /\ pc[w] \in {"drain", "locked"}
  /\ \/ cancelled[Home[w]] /\ UNCHANGED faults
     \/ Fault
  /\ pc' = [pc EXCEPT ![w] = "idle"]
  /\ Release(w)
  /\ UNCHANGED <<rowVars, procVars>>

\* The COMMIT is applied but its answer is lost: drain returns all the same.
CommitUnknown(w) ==
  /\ Fault
  /\ Goto(w, "locked", "idle")
  /\ status' = [status EXCEPT ![claim[w]] = "running"]
  /\ Release(w)
  /\ UNCHANGED <<wait, retry, attempts, procVars>>

-----------------------------------------------------------------------------
(* processOne: lookupHandler, callHandler, and the write of the outcome.    *)
HasHandler(w) == registered[Home[w]] /\ claim[w] \in Handled

CallHandler(w) ==
  /\ HasHandler(w)
  /\ Goto(w, "lookup", "exec")
  /\ attempts' = [attempts EXCEPT ![claim[w]] = @ + 1]
  /\ UNCHANGED <<status, wait, retry, claim, seen, procVars, faults>>

NoHandler(w) ==
  /\ ~HasHandler(w)
  /\ Goto(w, "lookup", "nohandler")
  /\ UNCHANGED <<rowVars, claim, seen, procVars, faults>>

\* nil, or an error: the handler's own or a recovered panic.
HandlerReturns(w) ==
  /\ \E r \in {"ok", "err"} : Goto(w, "exec", r)
  /\ UNCHANGED <<rowVars, claim, seen, procVars, faults>>

Write(w, s) ==
  /\ ~cancelled[Home[w]]
  /\ status' = [status EXCEPT ![claim[w]] = s]
  /\ pc' = [pc EXCEPT ![w] = "drain"]
  /\ Release(w)
  /\ UNCHANGED <<attempts, procVars, faults>>

WriteSuccess(w) == pc[w] = "ok" /\ Write(w, "success") /\ UNCHANGED <<wait, retry>>

MarkFailed(w) ==
  /\ pc[w] = "nohandler" \/ (pc[w] = "err" /\ seen[w] >= MaxRetry)
  /\ Write(w, "failed")
  /\ UNCHANGED <<wait, retry>>

Backoff(n) == 2^n

HandleRetry(w) ==
  /\ pc[w] = "err" /\ seen[w] < MaxRetry
  /\ Write(w, "pending")
  /\ retry' = [retry EXCEPT ![claim[w]] = seen[w] + 1]
  /\ wait'  = [wait EXCEPT ![claim[w]] = Backoff(seen[w])]

\* The UPDATE of the outcome fails; its error is ignored, drain goes on.
WriteLost(w) ==
  /\ pc[w] \in {"ok", "err", "nohandler"}
  /\ \/ cancelled[Home[w]] /\ UNCHANGED faults
     \/ Fault
  /\ pc' = [pc EXCEPT ![w] = "drain"]
  /\ Release(w)
  /\ UNCHANGED <<rowVars, procVars>>

-----------------------------------------------------------------------------
(* The environment: time, cancellation, crash and restart.                  *)
Later(t) == IF t > -MaxLag THEN t - 1 ELSE t

Tick ==
  /\ wait' = [m \in Msgs |-> IF status[m] = "pending" THEN Later(wait[m])
                             ELSE wait[m]]
  /\ UNCHANGED <<status, retry, attempts, wkVars, procVars, faults>>

Cancel(p) ==
  /\ Started(p)
  /\ Fault
  /\ cancelled' = [cancelled EXCEPT ![p] = TRUE]
  /\ UNCHANGED <<rowVars, wkVars, registered>>

\* The process ends: its goroutines vanish, its open transactions roll back.
Die(p) ==
  /\ registered[p]
  /\ pc'    = [w \in Workers |-> IF Home[w] = p THEN "down" ELSE pc[w]]
  /\ claim' = [w \in Workers |-> IF Home[w] = p THEN None ELSE claim[w]]
  /\ seen'  = [w \in Workers |-> IF Home[w] = p THEN 0 ELSE seen[w]]
  /\ registered' = [registered EXCEPT ![p] = FALSE]
  /\ cancelled'  = [cancelled EXCEPT ![p] = FALSE]
  /\ UNCHANGED rowVars

Crash(p) == Fault /\ Die(p)
Exit(p)  == cancelled[p] /\ Die(p) /\ UNCHANGED faults

-----------------------------------------------------------------------------
WorkerStep(w) ==
  \/ TickerFires(w)   \/ StopWorker(w)
  \/ SelectDue(w)     \/ SelectNone(w)  \/ CommitClaim(w)
  \/ CallHandler(w)   \/ NoHandler(w)   \/ HandlerReturns(w)
  \/ WriteSuccess(w)  \/ MarkFailed(w)  \/ HandleRetry(w)

WorkerFault(w) == FetchFails(w) \/ CommitUnknown(w) \/ WriteLost(w)

ProcStep(p) == Register(p) \/ StartWorkers(p) \/ Exit(p)

ProcFault(p) == Cancel(p) \/ Crash(p)

Next ==
  \/ \E m \in Msgs, d \in Delays : Publish(m, d)
  \/ \E w \in Workers : WorkerStep(w) \/ WorkerFault(w)
  \/ \E p \in Procs : ProcStep(p) \/ ProcFault(p)
  \/ Tick

(* Goroutines are scheduled, the clock advances, a process that was told to *)
(* stop ends, and one that ended is started again.  Handlers return: they   *)
(* make database calls under a deadline of 30 s.  Faults and Publish are    *)
(* never forced.                                                            *)
Fairness ==
  /\ \A w \in Workers : WF_vars(WorkerStep(w))
  /\ \A w \in Workers : WF_vars(cancelled[Home[w]] /\ WorkerFault(w))
  /\ \A p \in Procs : WF_vars(ProcStep(p))
  /\ WF_vars(Tick)

Spec     == Init /\ [][Next]_vars
FairSpec == Spec /\ Fairness

-----------------------------------------------------------------------------
(* Safety.                                                                  *)

Owner(w, m) == pc[w] \in Holding /\ claim[w] = m

(* Of all workers of all processes at most one is processing a message,     *)
(* whatever crashes and lost answers happened (fetchOne's SKIP LOCKED).     *)
SingleOwner ==
  \A m \in Msgs : \A v, w \in Workers : Owner(v, m) /\ Owner(w, m) => v = w

(* handleRetry decides and counts with the copy of the row read by fetchOne: *)
(* that copy is never stale, and the row stays running, while it is used.    *)
CopyIsCurrent ==
  \A w \in Workers : \A m \in Msgs :
    Owner(w, m) => status[m] = "running" /\ seen[w] = retry[m]

(* A handler is started at most MaxRetry + 1 times on one message.           *)
BoundedAttempts ==
  \A m \in Msgs : retry[m] <= MaxRetry /\ attempts[m] <= MaxRetry + 1

(* A message whose topic has a handler is given up only after every attempt  *)
(* was used: none is failed unseen at start-up, before Register.             *)
FailedOnlyExhausted ==
  \A m \in Handled : status[m] = "failed" => attempts[m] = MaxRetry + 1

(* A message is marked success only after its handler has been started.      *)
SuccessWasRun == \A m \in Msgs : status[m] = "success" => attempts[m] > 0

(* While no call failed and no process ended, a running row has a worker: a  *)
(* row that is running with nobody working on it needs a fault.              *)
Stranded(m)    == status[m] = "running" /\ \A w \in Workers : ~Owner(w, m)
RunningIsOwned == faults = 0 => \A m \in Msgs : ~Stranded(m)

(* The inductive invariant behind the five invariants above.  Beyond them it *)
(* says: a locked row is still pending, due and its copy current; no two workers *)
(* hold or lock the same row; attempts and retry_count differ exactly while  *)
(* (or after) a handler runs; workers only run where the handler is          *)
(* registered; a cancelled process is a fault.                               *)
Active == Holding \cup {"locked"}

ClaimsOK ==
  \A w \in Workers : pc[w] \in Active =>
    /\ claim[w] \in Msgs
    /\ seen[w] = retry[claim[w]]
    /\ status[claim[w]] = IF pc[w] = "locked" THEN "pending" ELSE "running"
    /\ pc[w] \in {"locked", "lookup"} => wait[claim[w]] <= 0

ExclusiveOK ==
  \A v, w \in Workers :
    pc[v] \in Active /\ pc[w] \in Active /\ claim[v] = claim[w] => v = w

CountsOK ==
  /\ \A m \in Msgs :
       /\ retry[m] <= MaxRetry /\ attempts[m] <= retry[m] + 1
       /\ status[m] \in {"absent", "pending"} => attempts[m] = retry[m]
       /\ status[m] = "absent" => retry[m] = 0
  /\ \A w \in Workers :
       /\ pc[w] \in {"lookup", "nohandler"} => attempts[claim[w]] = retry[claim[w]]
       /\ pc[w] \in {"exec", "ok", "err"} => attempts[claim[w]] = retry[claim[w]] + 1

ProcsOK ==
  /\ \A w \in Workers : /\ pc[w] # "down" => registered[Home[w]]
                        /\ pc[w] = "nohandler" => claim[w] \notin Handled
  /\ \A p \in Procs : cancelled[p] => faults > 0

IndInv ==
  /\ TypeOK
  /\ ClaimsOK
  /\ ExclusiveOK
  /\ CountsOK
  /\ ProcsOK
  /\ FailedOnlyExhausted
  /\ SuccessWasRun
  /\ RunningIsOwned

(* The outcome of a message is never changed again, and its retry_count only *)
(* ever grows.                                                               *)
OutcomeIsFinal ==
  [][\A m \in Msgs : /\ status[m] \in Settled => status'[m] = status[m]
                     /\ retry'[m] >= retry[m]]_vars

(* No handler is started before the execute_time of its message.             *)
NeverEarly ==
  [][\A w \in Workers : attempts' # attempts /\ pc[w] = "lookup" /\ pc'[w] = "exec"
       => wait[claim[w]] <= 0]_vars

(* Liveness: a published message ends as success or failed, or, since faults *)
(* are finitely many, is stranded by one of them in status running; it never *)
(* waits in the table for ever.                                              *)
SettledOrStranded ==
  \A m \in Msgs : status[m] = "pending" ~> status[m] \in Settled \/ Stranded(m)

(* The queue implements the abstract job queue.                              *)
AbstractState(s) ==
  CASE s = "absent"  -> "new"
    [] s = "pending" -> "ready"
    [] s = "running" -> "taken"
    [] s = "success" -> "done"
    [] s = "failed"  -> "dead"

JQ == INSTANCE JobQueue WITH
  state  <- [m \in Msgs |-> AbstractState(status[m])],
  tries  <- retry,
  holder <- [w \in Workers |-> IF pc[w] \in Holding THEN claim[w] ELSE None]

ImplementsJobQueue == JQ!Spec
=============================================================================
