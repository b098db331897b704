------------------------------ MODULE ExecQueue ------------------------------
(***************************************************************************)
(* Test runs: requests (NodeServer.TestRun) write a row of exec_queue and   *)
(* put an entity into the in-memory channel ch; one consumer goroutine      *)
(* (NodeServer.Dispatch) takes entities and runs them (runSQL, runShell),   *)
(* keeping the row's status.  The row survives a crash, the channel doesn't. *)
(***************************************************************************)
EXTENDS Integers, Sequences

CONSTANTS
  Runs,        \* run_ids clients use
  ShellRuns,   \* those of type Shell; the others are SQL
  Reqs,        \* request goroutines
  Cap,         \* capacity of ch (100 in the code)
  MaxSubmits,  \* bound: submissions per run_id
  MaxFaults,   \* bound: failed database and data source calls
  MaxCrashes,  \* bound: crashes of the process
  NoRun

ASSUME ShellAssumption  == ShellRuns \subseteq Runs
ASSUME CapAssumption    == Cap \in Nat \ {0}
ASSUME NoRunAssumption  == NoRun \notin Runs
ASSUME BoundAssumption  == MaxSubmits \in Nat /\ MaxFaults \in Nat /\ MaxCrashes \in Nat

VARIABLES
  status,     \* status[r] of the row with this run_id; "absent": no row
  ch,         \* the channel: run_ids of the queued entities
  rpc,        \* where a request is
  run,        \* the run_id it submits
  cpc,        \* where the consumer is
  entity,     \* the run_id of the entity it took
  copy,       \* the status it read from the row (queue.Status)
  result,     \* the outcome it is about to write back
  submits,    \* history: submissions per run_id
  executions, \* history: how often the content of a run was executed
  accepted,   \* history: run_ids whose TestRun sent its entity
  overlapped, \* history: run_ids submitted while a submission of them ran
  faults, crashes

rowVars  == <<status>>
reqVars  == <<rpc, run>>
consVars == <<cpc, entity, copy, result>>
histVars == <<submits, executions, accepted, overlapped>>
vars     == <<status, ch, rpc, run, cpc, entity, copy, result,
              submits, executions, accepted, overlapped, faults, crashes>>

Finished == {"success", "failed"}                     \* EntityFinished
EntityAlreadyRun(s) == s = "running" \/ s \in Finished
Status == {"absent", "pending", "running"} \cup Finished

TypeOK ==
  /\ status \in [Runs -> Status]
  /\ ch \in Seq(Runs) /\ Len(ch) <= Cap
  /\ rpc \in [Reqs -> {"idle", "checked", "saved", "undelivered"}]
  /\ run \in [Reqs -> Runs \cup {NoRun}]
  /\ cpc \in {"idle", "query", "check", "exec", "write"}
  /\ entity \in Runs \cup {NoRun}
  /\ copy \in Status
  /\ result \in Finished
  /\ submits \in [Runs -> 0..MaxSubmits]
  /\ executions \in [Runs -> Nat]
  /\ accepted \subseteq Runs /\ overlapped \subseteq Runs
  /\ faults \in 0..MaxFaults /\ crashes \in 0..MaxCrashes

Init ==
  /\ status = [r \in Runs |-> "absent"]
  /\ ch = <<>>
  /\ rpc = [q \in Reqs |-> "idle"]
  /\ run = [q \in Reqs |-> NoRun]
  /\ cpc = "idle" /\ entity = NoRun /\ copy = "absent" /\ result = "failed"
  /\ submits = [r \in Runs |-> 0]
  /\ executions = [r \in Runs |-> 0]
  /\ accepted = {} /\ overlapped = {}
  /\ faults = 0 /\ crashes = 0

Fault == faults < MaxFaults /\ faults' = faults + 1

SetStatus(r, s) == status' = [status EXCEPT ![r] = s]

-----------------------------------------------------------------------------
(* A request: TestRun and SendEntity.                                       *)

Move(q, from, to) == rpc[q] = from /\ rpc' = [rpc EXCEPT ![q] = to]

\* The request returns to its client.
Return(q, from) == Move(q, from, "idle") /\ run' = [run EXCEPT ![q] = NoRun]

InFlight(r) == \E q \in Reqs : run[q] = r

\* Mistake: no look at the table.
CheckNothing(q, r) ==
  /\ submits[r] < MaxSubmits
  /\ Move(q, "idle", "checked")
  /\ run' = [run EXCEPT ![q] = r]
  /\ submits' = [submits EXCEPT ![r] = @ + 1]
  /\ overlapped' = IF InFlight(r) THEN overlapped \cup {r} ELSE overlapped
  /\ UNCHANGED <<status, ch, consVars, executions, accepted, faults, crashes>>

\* ExecQueueExists: no row yet.  (If there is one, TestRun returns nil.)
Check(q, r) ==
  /\ status[r] = "absent"
  /\ submits[r] < MaxSubmits
  /\ Move(q, "idle", "checked")
  /\ run' = [run EXCEPT ![q] = r]
  /\ submits' = [submits EXCEPT ![r] = @ + 1]
  /\ overlapped' = IF InFlight(r) THEN overlapped \cup {r} ELSE overlapped
  /\ UNCHANGED <<status, ch, consVars, executions, accepted, faults, crashes>>

\* The SQL does not decode or render: TestRun returns before the save.
Reject(q) ==
  /\ Return(q, "checked")
  /\ UNCHANGED <<status, ch, consVars, histVars, faults, crashes>>

\* db.Save with a fresh primary key: INSERT, or, when another request has
\* inserted this run_id meanwhile, ON DUPLICATE KEY UPDATE of all columns.
SaveExecQueue(q) ==
  /\ Move(q, "checked", "saved")
  /\ SetStatus(run[q], "pending")
  /\ UNCHANGED <<ch, run, consVars, histVars, faults, crashes>>

\* The save fails (b: though it was applied); TestRun returns the error.
SaveFails(q) ==
  /\ Fault
  /\ Return(q, "checked")
  /\ \E b \in BOOLEAN : IF b THEN SetStatus(run[q], "pending") ELSE UNCHANGED status
  /\ UNCHANGED <<ch, consVars, histVars, crashes>>

SendEntity(q) ==
  /\ Len(ch) < Cap
  /\ ch' = Append(ch, run[q])
  /\ Return(q, "saved")
  /\ accepted' = accepted \cup {run[q]}
  /\ UNCHANGED <<status, consVars, submits, executions, overlapped, faults, crashes>>

\* Mistake (D17): no compensation.
SendFailsSilently(q) ==
  /\ Return(q, "saved")
  /\ UNCHANGED <<status, ch, consVars, histVars, faults, crashes>>

\* The channel is full, or the client is gone (ctx.Done, whenever it likes).
SendFails(q) ==
  /\ Move(q, "saved", "undelivered")
  /\ UNCHANGED <<status, ch, run, consVars, histVars, faults, crashes>>

\* The compensation: UpdateExecQueueResp(..., failed) under WithoutCancel.
Compensate(q) ==
  /\ Return(q, "undelivered")
  /\ SetStatus(run[q], "failed")
  /\ UNCHANGED <<ch, consVars, histVars, faults, crashes>>

CompensateFails(q) ==
  /\ Fault
  /\ Return(q, "undelivered")
  /\ UNCHANGED <<status, ch, consVars, histVars, crashes>>

-----------------------------------------------------------------------------
(* The consumer: Dispatch's loop, runSQL and runShell.                      *)

Stage(from, to) == cpc = from /\ cpc' = to

\* runSQL / runShell returns; the loop waits for the next entity.
Done(from) ==
  /\ Stage(from, "idle")
  /\ entity' = NoRun /\ copy' = "absent" /\ result' = "failed"

Take ==
  /\ ch # <<>>
  /\ Stage("idle", "query")
  /\ entity' = Head(ch) /\ ch' = Tail(ch)
  /\ UNCHANGED <<status, reqVars, copy, result, histVars, faults, crashes>>

\* QueryExecQueue, before mu is taken.
Query ==
  /\ Stage("query", "check")
  /\ copy' = status[entity]
  /\ UNCHANGED <<status, ch, reqVars, entity, result, histVars, faults, crashes>>

QueryFails ==
  /\ Fault
  /\ Done("query")
  /\ UNCHANGED <<status, ch, reqVars, histVars, crashes>>

Skip ==
  /\ EntityAlreadyRun(copy)
  /\ Done("check")
  /\ UNCHANGED <<status, ch, reqVars, histVars, faults, crashes>>

\* UpdateExecQueueResp(..., running) under mu; its error is ignored.
MarkRunning ==
  /\ ~EntityAlreadyRun(copy)
  /\ Stage("check", "exec")
  /\ \/ SetStatus(entity, "running") /\ UNCHANGED faults
     \/ UNCHANGED status /\ Fault
  /\ UNCHANGED <<ch, reqVars, entity, copy, result, histVars, crashes>>

\* The statement or script runs to an end, good or bad.
Execute ==
  /\ Stage("exec", "write")
  /\ executions' = [executions EXCEPT ![entity] = @ + 1]
  /\ result' \in Finished
  /\ UNCHANGED <<status, ch, reqVars, entity, copy, submits, accepted, overlapped,
                 faults, crashes>>

\* A shell run that cannot connect is not executed, but is written as failed.
ConnectFails ==
  /\ entity \in ShellRuns
  /\ Fault
  /\ Stage("exec", "write")
  /\ result' = "failed"
  /\ UNCHANGED <<status, ch, reqVars, entity, copy, histVars, crashes>>

\* runSQL returns early: no data source, no connection, or (after the
\* statement ran) a row that does not scan.  Nothing is written back.
BailOut ==
  /\ entity \notin ShellRuns
  /\ Fault
  /\ Done("exec") \/ Done("write")
  /\ UNCHANGED <<status, ch, reqVars, histVars, crashes>>

\* Mistake: the result is not written.
WriteBackNothing ==
  /\ Done("write")
  /\ UNCHANGED <<status, ch, reqVars, histVars, faults, crashes>>

WriteBack ==
  /\ Done("write")
  /\ SetStatus(entity, result)
  /\ UNCHANGED <<ch, reqVars, histVars, faults, crashes>>

WriteBackFails ==
  /\ Fault
  /\ Done("write")
  /\ UNCHANGED <<status, ch, reqVars, histVars, crashes>>

-----------------------------------------------------------------------------
\* The process dies and starts again: init() does not reload exec_queue.
Crash ==
  /\ crashes < MaxCrashes /\ crashes' = crashes + 1
  /\ ch' = <<>>
  /\ rpc' = [q \in Reqs |-> "idle"] /\ run' = [q \in Reqs |-> NoRun]
  /\ cpc' = "idle" /\ entity' = NoRun /\ copy' = "absent" /\ result' = "failed"
  /\ UNCHANGED <<status, histVars, faults>>

RequestStep(q) ==
  \/ Reject(q)     \/ SaveExecQueue(q) \/ SaveFails(q) \/ SendEntity(q)
  \/ SendFails(q)  \/ Compensate(q)    \/ CompensateFails(q)

ConsumerStep ==
  \/ Take    \/ Query        \/ QueryFails \/ Skip      \/ MarkRunning
  \/ Execute \/ ConnectFails \/ BailOut    \/ WriteBack \/ WriteBackFails

Next ==
  \/ \E q \in Reqs : RequestStep(q) \/ \E r \in Runs : Check(q, r)
  \/ ConsumerStep
  \/ Crash

(* The request and consumer goroutines are scheduled, statements and scripts *)
(* end; nobody has to submit.                                               *)
Fairness ==
  /\ \A q \in Reqs : WF_vars(RequestStep(q))
  /\ WF_vars(ConsumerStep)

Spec     == Init /\ [][Next]_vars
FairSpec == Spec /\ Fairness

-----------------------------------------------------------------------------
Healthy == faults = 0 /\ crashes = 0

Queued(r) == \E i \in 1..Len(ch) : ch[i] = r

\* Somebody will still look at a pending row of r.
Awaited(r) ==
  \/ Queued(r)
  \/ \E q \in Reqs : run[q] = r /\ rpc[q] \in {"saved", "undelivered"}
  \/ entity = r /\ (cpc = "query" \/ (cpc = "check" /\ copy = "pending"))

(* While nothing failed, no row is left pending with no entity queued for it *)
(* and no request about to queue or fail it: TestRun's compensation (D17),   *)
(* submissions of one run_id that race included.                             *)
PendingIsAwaited ==
  Healthy => \A r \in Runs : status[r] = "pending" => Awaited(r)

(* While nothing failed, a row says running only while the consumer is       *)
(* really working on it.                                                     *)
RunningIsExecuting ==
  Healthy => \A r \in Runs :
    status[r] = "running" => entity = r /\ cpc \in {"exec", "write"}

(* A row says success only if its content was executed.                      *)
SuccessWasExecuted ==
  \A r \in Runs : status[r] = "success" => executions[r] > 0

(* A run_id is executed at most once, whatever fails and crashes, unless it   *)
(* was submitted while a submission of it ran: the table is the idempotence   *)
(* check, and the entity is queued once.                                      *)
ExecutedOnce == \A r \in Runs \ overlapped : executions[r] <= 1

(* A submission that was accepted is not finished without being executed,    *)
(* unless submissions of its run_id overlapped.                               *)
AcceptedIsExecuted ==
  Healthy => \A r \in accepted \ overlapped :
               status[r] \in Finished => executions[r] = 1

(* What a client polled as finished is the final answer, unless submissions  *)
(* of the run_id overlapped.                                                  *)
FinishedIsFinal ==
  [][\A r \in Runs \ overlapped' :
       status[r] \in Finished => status'[r] = status[r]]_vars

(* Liveness: while nothing fails, a row that was written ends as success or  *)
(* failed, so that the client's polling ends, also when the channel is full  *)
(* and clients go away.                                                      *)
RowFinishes ==
  \A r \in Runs :
    status[r] = "pending" ~> (status[r] \in Finished \/ ~Healthy)

(* The documentation's claim that only a restart leaves a run unfinished:    *)
(* every accepted run ends as success or failed if the process lives.         *)
AcceptedFinishes ==
  \A r \in Runs : r \in accepted ~> (status[r] \in Finished \/ crashes > 0)

(* The inductive invariant behind the invariants above: a run_id without     *)
(* overlapping submissions is one token, held by a request, the channel or   *)
(* the consumer, and its row says which; one without a row is held by        *)
(* nobody, or by requests that have checked only.                            *)
HolderInv ==
  /\ \A q \in Reqs : rpc[q] = "idle" <=> run[q] = NoRun
  /\ cpc = "idle" <=> entity = NoRun
  /\ cpc = "write" /\ (result = "success" \/ faults = 0) => executions[entity] > 0

AbsentInv ==
  \A r \in Runs : status[r] = "absent" =>
    /\ executions[r] = 0 /\ r \notin accepted
    /\ ~Queued(r) /\ entity # r
    /\ \A q \in Reqs : run[q] = r => rpc[q] = "checked"

TokenOf(r) ==
  /\ executions[r] <= 1
  /\ \A p, q \in Reqs : run[p] = r /\ run[q] = r => p = q
  /\ \A i, j \in 1..Len(ch) : ch[i] = r /\ ch[j] = r => i = j
  /\ Queued(r) =>
       ~InFlight(r) /\ entity # r /\ status[r] = "pending" /\ executions[r] = 0
  /\ \A q \in Reqs : run[q] = r =>
       /\ entity # r /\ executions[r] = 0 /\ r \notin accepted
       /\ status[r] = IF rpc[q] = "checked" THEN "absent" ELSE "pending"
  /\ entity = r =>
       /\ status[r] = "pending" \/ (status[r] = "running" /\ cpc \in {"exec", "write"})
       /\ cpc = "check" => copy = "pending"
       /\ cpc # "write" => executions[r] = 0

TokenInv == \A r \in Runs \ overlapped : TokenOf(r)

IndInv ==
  /\ TypeOK /\ HolderInv /\ AbsentInv /\ TokenInv
  /\ PendingIsAwaited /\ RunningIsExecuting /\ SuccessWasExecuted
  /\ AcceptedIsExecuted
=============================================================================
