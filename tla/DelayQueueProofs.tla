-------------------------- MODULE DelayQueueProofs --------------------------
(***************************************************************************)
(* Proofs about DelayQueue for any number of messages, workers, processes, *)
(* retries and faults.                                                     *)
(***************************************************************************)
EXTENDS DelayQueue, TLAPS

USE HandledAssumption, HomeAssumption, DelayAssumption, RetryAssumption,
    NoneAssumption, BoundsAssumption

(* The backoff is a number.                                                 *)
LEMMA BackoffType == \A n \in Nat : Backoff(n) \in Int
  BY DEF Backoff

(* Every step keeps the types.                                              *)
LEMMA TypeStep == TypeOK /\ [Next]_vars => TypeOK'
<1> SUFFICES ASSUME TypeOK, [Next]_vars PROVE TypeOK'
  OBVIOUS
<1> USE DEF TypeOK, Status, PCs, Holding, rowVars, wkVars, procVars, Goto, Release, Fault
<1>1. ASSUME NEW m \in Msgs, NEW d \in Delays, Publish(m, d) PROVE TypeOK'
  BY <1>1 DEF Publish
<1>2. ASSUME NEW p \in Procs, ProcStep(p) PROVE TypeOK'
  <2>1. CASE Register(p)
    BY <2>1 DEF Register
  <2>2. CASE StartWorkers(p)
    BY <2>2 DEF StartWorkers
  <2>3. CASE Exit(p)
    BY <2>3 DEF Exit, Die
  <2>4. QED
    BY <1>2, <2>1, <2>2, <2>3 DEF ProcStep
<1>3. ASSUME NEW p \in Procs, ProcFault(p) PROVE TypeOK'
  <2>1. CASE Cancel(p)
    BY <2>1 DEF Cancel
  <2>2. CASE Crash(p)
    BY <2>2 DEF Crash, Die
  <2>3. QED
    BY <1>3, <2>1, <2>2 DEF ProcFault
<1>4. ASSUME NEW w \in Workers, WorkerStep(w) PROVE TypeOK'
  <2>1. CASE TickerFires(w) \/ StopWorker(w) \/ SelectNone(w)
    BY <2>1 DEF TickerFires, StopWorker, SelectNone
  <2>2. CASE SelectDue(w)
    <3>1. PICK m \in Msgs : /\ claim' = [claim EXCEPT ![w] = m]
                            /\ seen' = [seen EXCEPT ![w] = retry[m]]
      BY <2>2 DEF SelectDue, Due
    <3>2. QED
      BY <2>2, <3>1 DEF SelectDue
  <2>3. CASE CommitClaim(w)
    BY <2>3 DEF CommitClaim
  <2>4. CASE CallHandler(w)
    BY <2>4 DEF CallHandler, HasHandler
  <2>5. CASE NoHandler(w) \/ HandlerReturns(w)
    BY <2>5 DEF NoHandler, HandlerReturns
  <2>6. CASE WriteSuccess(w) \/ MarkFailed(w)
    BY <2>6 DEF WriteSuccess, MarkFailed, Write
  <2>7. CASE HandleRetry(w)
    <3>1. seen[w] + 1 \in Nat /\ Backoff(seen[w]) \in Int
      BY BackoffType
    <3>2. wait' \in [Msgs -> Int] /\ retry' \in [Msgs -> Nat]
      BY <2>7, <3>1 DEF HandleRetry
    <3>3. QED
      BY <2>7, <3>2 DEF HandleRetry, Write
  <2>8. QED
    BY <1>4, <2>1, <2>2, <2>3, <2>4, <2>5, <2>6, <2>7 DEF WorkerStep
<1>5. ASSUME NEW w \in Workers, WorkerFault(w) PROVE TypeOK'
  BY <1>5 DEF WorkerFault, FetchFails, CommitUnknown, WriteLost
<1>6. CASE Tick
  BY <1>6 DEF Tick, Later
<1>7. CASE UNCHANGED vars
  BY <1>7 DEF vars
<1>8. QED
  BY <1>1, <1>2, <1>3, <1>4, <1>5, <1>6, <1>7 DEF Next

(* Every variable of DelayQueue stays in its type.                          *)
THEOREM TypeCorrect == Spec => []TypeOK
<1>1. Init => TypeOK
  BY DEF Init, TypeOK, Status, PCs
<1>2. QED
  BY <1>1, TypeStep, PTL DEF Spec

(* Every step keeps the inductive invariant.                                *)
LEMMA IndStep == IndInv /\ [Next]_vars => IndInv'
<1> SUFFICES ASSUME IndInv, [Next]_vars PROVE IndInv'
  OBVIOUS
<1>0. TypeOK'
  BY TypeStep DEF IndInv
<1> USE DEF IndInv, TypeOK, Status, PCs, Holding, Active, rowVars, wkVars, procVars,
            Goto, Release, Fault
<1>1. ASSUME NEW m \in Msgs, NEW d \in Delays, Publish(m, d) PROVE IndInv'
  <2>1. ClaimsOK' /\ ExclusiveOK' /\ ProcsOK'
    BY <1>1 DEF Publish, ClaimsOK, ExclusiveOK, ProcsOK
  <2>2. CountsOK' /\ FailedOnlyExhausted' /\ SuccessWasRun'
    BY <1>1 DEF Publish, CountsOK, FailedOnlyExhausted, SuccessWasRun
  <2>3. RunningIsOwned'
    BY <1>1 DEF Publish, RunningIsOwned, Stranded, Owner
  <2>4. QED
    BY <1>0, <2>1, <2>2, <2>3
<1>2. ASSUME NEW p \in Procs, Register(p) \/ Cancel(p) PROVE IndInv'
  <2>1. ClaimsOK' /\ ExclusiveOK' /\ CountsOK' /\ ProcsOK' /\ FailedOnlyExhausted' /\ SuccessWasRun'
    BY <1>2 DEF Register, Cancel, ClaimsOK, ExclusiveOK, CountsOK, ProcsOK, FailedOnlyExhausted, SuccessWasRun
  <2>2. RunningIsOwned'
    BY <1>2 DEF Register, Cancel, RunningIsOwned, Stranded, Owner
  <2>3. QED
    BY <1>0, <2>1, <2>2
<1>3. ASSUME NEW p \in Procs, StartWorkers(p) PROVE IndInv'
  <2>1. ClaimsOK' /\ ExclusiveOK' /\ CountsOK' /\ ProcsOK' /\ FailedOnlyExhausted' /\ SuccessWasRun'
    BY <1>3 DEF StartWorkers, Started, ClaimsOK, ExclusiveOK, CountsOK, ProcsOK, FailedOnlyExhausted, SuccessWasRun
  <2>2. RunningIsOwned'
    BY <1>3 DEF StartWorkers, Started, RunningIsOwned, Stranded, Owner
  <2>3. QED
    BY <1>0, <2>1, <2>2
<1>4. ASSUME NEW p \in Procs, Exit(p) \/ Crash(p) PROVE IndInv'
  <2>1. ClaimsOK'
    BY <1>4 DEF Exit, Crash, Die, ClaimsOK
  <2>2. ExclusiveOK'
    BY <1>4 DEF Exit, Crash, Die, ExclusiveOK
  <2>3. CountsOK'
    BY <1>4 DEF Exit, Crash, Die, CountsOK
  <2>4. ProcsOK'
    BY <1>4 DEF Exit, Crash, Die, ProcsOK
  <2>5. FailedOnlyExhausted' /\ SuccessWasRun'
    BY <1>4 DEF Exit, Crash, Die, FailedOnlyExhausted, SuccessWasRun
  <2>6. RunningIsOwned'
    BY <1>4 DEF Exit, Crash, Die, RunningIsOwned, ProcsOK
  <2>7. QED
    BY <1>0, <2>1, <2>2, <2>3, <2>4, <2>5, <2>6
<1>5. ASSUME NEW w \in Workers, TickerFires(w) \/ StopWorker(w) \/ SelectNone(w) PROVE IndInv'
  <2>1. ClaimsOK' /\ ExclusiveOK' /\ ProcsOK'
    BY <1>5 DEF TickerFires, StopWorker, SelectNone, ClaimsOK, ExclusiveOK, ProcsOK
  <2>2. CountsOK' /\ FailedOnlyExhausted' /\ SuccessWasRun'
    BY <1>5 DEF TickerFires, StopWorker, SelectNone, CountsOK, FailedOnlyExhausted, SuccessWasRun
  <2>3. RunningIsOwned'
    BY <1>5 DEF TickerFires, StopWorker, SelectNone, RunningIsOwned, Stranded, Owner
  <2>4. QED
    BY <1>0, <2>1, <2>2, <2>3
<1>6. ASSUME NEW w \in Workers, SelectDue(w) PROVE IndInv'
  <2>1. ClaimsOK'
    BY <1>6 DEF SelectDue, Due, RowLocked, ClaimsOK
  <2>2. ExclusiveOK'
    BY <1>6 DEF SelectDue, Due, RowLocked, ExclusiveOK, ClaimsOK
  <2>3. CountsOK' /\ ProcsOK'
    BY <1>6 DEF SelectDue, Due, RowLocked, CountsOK, ProcsOK
  <2>4. FailedOnlyExhausted' /\ SuccessWasRun'
    BY <1>6 DEF SelectDue, Due, RowLocked, FailedOnlyExhausted, SuccessWasRun
  <2>5. RunningIsOwned'
    BY <1>6 DEF SelectDue, Due, RowLocked, RunningIsOwned, Stranded, Owner
  <2>6. QED
    BY <1>0, <2>1, <2>2, <2>3, <2>4, <2>5
<1>7. ASSUME NEW w \in Workers, CommitClaim(w) PROVE IndInv'
  <2>1. ClaimsOK'
    BY <1>7 DEF CommitClaim, ClaimsOK, ExclusiveOK
  <2>2. ExclusiveOK'
    BY <1>7 DEF CommitClaim, ExclusiveOK
  <2>3. CountsOK' /\ ProcsOK'
    BY <1>7 DEF CommitClaim, CountsOK, ProcsOK, ClaimsOK
  <2>4. FailedOnlyExhausted' /\ SuccessWasRun'
    BY <1>7 DEF CommitClaim, FailedOnlyExhausted, SuccessWasRun, ClaimsOK
  <2>5. RunningIsOwned'
    BY <1>7 DEF CommitClaim, RunningIsOwned, ClaimsOK, Stranded, Owner
  <2>6. QED
    BY <1>0, <2>1, <2>2, <2>3, <2>4, <2>5
<1>8. ASSUME NEW w \in Workers, CallHandler(w) PROVE IndInv'
  <2>1. ClaimsOK'
    BY <1>8 DEF CallHandler, HasHandler, ClaimsOK
  <2>2. ExclusiveOK'
    BY <1>8 DEF CallHandler, HasHandler, ExclusiveOK
  <2>3. CountsOK'
    BY <1>8 DEF CallHandler, HasHandler, CountsOK, ClaimsOK, ExclusiveOK
  <2>4. ProcsOK'
    BY <1>8 DEF CallHandler, HasHandler, ProcsOK
  <2>5. FailedOnlyExhausted' /\ SuccessWasRun'
    BY <1>8 DEF CallHandler, HasHandler, FailedOnlyExhausted, SuccessWasRun, ClaimsOK
  <2>6. RunningIsOwned'
    BY <1>8 DEF CallHandler, HasHandler, RunningIsOwned, Stranded, Owner
  <2>7. QED
    BY <1>0, <2>1, <2>2, <2>3, <2>4, <2>5, <2>6
<1>9. ASSUME NEW w \in Workers, NoHandler(w) PROVE IndInv'
  <2>1. ClaimsOK' /\ ExclusiveOK'
    BY <1>9 DEF NoHandler, HasHandler, ClaimsOK, ExclusiveOK
  <2>2. CountsOK' /\ ProcsOK'
    BY <1>9 DEF NoHandler, HasHandler, CountsOK, ProcsOK
  <2>3. FailedOnlyExhausted' /\ SuccessWasRun'
    BY <1>9 DEF NoHandler, HasHandler, FailedOnlyExhausted, SuccessWasRun
  <2>4. RunningIsOwned'
    BY <1>9 DEF NoHandler, HasHandler, RunningIsOwned, Stranded, Owner
  <2>5. QED
    BY <1>0, <2>1, <2>2, <2>3, <2>4
<1>10. ASSUME NEW w \in Workers, HandlerReturns(w) PROVE IndInv'
  <2>1. ClaimsOK' /\ ExclusiveOK'
    BY <1>10 DEF HandlerReturns, ClaimsOK, ExclusiveOK
  <2>2. CountsOK' /\ ProcsOK'
    BY <1>10 DEF HandlerReturns, CountsOK, ProcsOK
  <2>3. FailedOnlyExhausted' /\ SuccessWasRun'
    BY <1>10 DEF HandlerReturns, FailedOnlyExhausted, SuccessWasRun
  <2>4. RunningIsOwned'
    BY <1>10 DEF HandlerReturns, RunningIsOwned, Stranded, Owner
  <2>5. QED
    BY <1>0, <2>1, <2>2, <2>3, <2>4
<1>11. ASSUME NEW w \in Workers, WriteSuccess(w) PROVE IndInv'
  <2>1. ClaimsOK'
    BY <1>11 DEF WriteSuccess, Write, ClaimsOK, ExclusiveOK
  <2>2. ExclusiveOK'
    BY <1>11 DEF WriteSuccess, Write, ExclusiveOK
  <2>3. CountsOK' /\ ProcsOK'
    BY <1>11 DEF WriteSuccess, Write, CountsOK, ProcsOK, ClaimsOK, ExclusiveOK
  <2>4. FailedOnlyExhausted'
    BY <1>11 DEF WriteSuccess, Write, FailedOnlyExhausted, ClaimsOK
  <2>5. SuccessWasRun'
    BY <1>11 DEF WriteSuccess, Write, SuccessWasRun, ClaimsOK, CountsOK
  <2>6. RunningIsOwned'
    BY <1>11 DEF WriteSuccess, Write, RunningIsOwned, ClaimsOK, ExclusiveOK, Stranded, Owner
  <2>7. QED
    BY <1>0, <2>1, <2>2, <2>3, <2>4, <2>5, <2>6
<1>12. ASSUME NEW w \in Workers, MarkFailed(w) PROVE IndInv'
  <2>1. ClaimsOK'
    BY <1>12 DEF MarkFailed, Write, ClaimsOK, ExclusiveOK
  <2>2. ExclusiveOK'
    BY <1>12 DEF MarkFailed, Write, ExclusiveOK
  <2>3. CountsOK' /\ ProcsOK'
    BY <1>12 DEF MarkFailed, Write, CountsOK, ProcsOK, ClaimsOK, ExclusiveOK
  <2>4. FailedOnlyExhausted'
    BY <1>12 DEF MarkFailed, Write, FailedOnlyExhausted, ClaimsOK, CountsOK, ProcsOK
  <2>5. SuccessWasRun'
    BY <1>12 DEF MarkFailed, Write, SuccessWasRun, ClaimsOK
  <2>6. RunningIsOwned'
    BY <1>12 DEF MarkFailed, Write, RunningIsOwned, ClaimsOK, ExclusiveOK, Stranded, Owner
  <2>7. QED
    BY <1>0, <2>1, <2>2, <2>3, <2>4, <2>5, <2>6
<1>13. ASSUME NEW w \in Workers, HandleRetry(w) PROVE IndInv'
  <2>1. ClaimsOK'
    BY <1>13 DEF HandleRetry, Write, ClaimsOK, ExclusiveOK
  <2>2. ExclusiveOK'
    BY <1>13 DEF HandleRetry, Write, ExclusiveOK
  <2>3. CountsOK'
    BY <1>13 DEF HandleRetry, Write, CountsOK, ClaimsOK, ExclusiveOK
  <2>4. ProcsOK'
    BY <1>13 DEF HandleRetry, Write, ProcsOK
  <2>5. FailedOnlyExhausted' /\ SuccessWasRun'
    BY <1>13 DEF HandleRetry, Write, FailedOnlyExhausted, SuccessWasRun, ClaimsOK
  <2>6. RunningIsOwned'
    BY <1>13 DEF HandleRetry, Write, RunningIsOwned, ClaimsOK, ExclusiveOK, Stranded, Owner
  <2>7. QED
    BY <1>0, <2>1, <2>2, <2>3, <2>4, <2>5, <2>6
<1>14. ASSUME NEW w \in Workers, FetchFails(w) \/ WriteLost(w) PROVE IndInv'
  <2>1. ClaimsOK' /\ ExclusiveOK'
    BY <1>14 DEF FetchFails, WriteLost, ClaimsOK, ExclusiveOK
  <2>2. CountsOK' /\ ProcsOK'
    BY <1>14 DEF FetchFails, WriteLost, CountsOK, ProcsOK
  <2>3. FailedOnlyExhausted' /\ SuccessWasRun'
    BY <1>14 DEF FetchFails, WriteLost, FailedOnlyExhausted, SuccessWasRun
  <2>4. RunningIsOwned'
    BY <1>14 DEF FetchFails, WriteLost, RunningIsOwned, ProcsOK, Stranded, Owner
  <2>5. QED
    BY <1>0, <2>1, <2>2, <2>3, <2>4
<1>15. ASSUME NEW w \in Workers, CommitUnknown(w) PROVE IndInv'
  <2>1. ClaimsOK'
    BY <1>15 DEF CommitUnknown, ClaimsOK, ExclusiveOK
  <2>2. ExclusiveOK'
    BY <1>15 DEF CommitUnknown, ExclusiveOK
  <2>3. CountsOK' /\ ProcsOK'
    BY <1>15 DEF CommitUnknown, CountsOK, ProcsOK, ClaimsOK, ExclusiveOK
  <2>4. FailedOnlyExhausted' /\ SuccessWasRun'
    BY <1>15 DEF CommitUnknown, FailedOnlyExhausted, SuccessWasRun, ClaimsOK
  <2>5. RunningIsOwned'
    BY <1>15 DEF CommitUnknown, RunningIsOwned
  <2>6. QED
    BY <1>0, <2>1, <2>2, <2>3, <2>4, <2>5
<1>16. CASE Tick
  BY <1>0, <1>16 DEF Tick, Later, ClaimsOK, ExclusiveOK, CountsOK, ProcsOK, FailedOnlyExhausted, SuccessWasRun, RunningIsOwned, Stranded, Owner
<1>17. CASE UNCHANGED vars
  BY <1>0, <1>17 DEF vars, ClaimsOK, ExclusiveOK, CountsOK, ProcsOK, FailedOnlyExhausted, SuccessWasRun, RunningIsOwned, Stranded, Owner
<1>18. QED
  BY <1>1, <1>2, <1>3, <1>4, <1>5, <1>6, <1>7, <1>8, <1>9, <1>10, <1>11, <1>12, <1>13, <1>14, <1>15, <1>16, <1>17
  DEF Next, WorkerStep, WorkerFault, ProcStep, ProcFault

(* The inductive invariant holds in every reachable state.                  *)
THEOREM IndInvHolds == Spec => []IndInv
<1>1. Init => IndInv
  BY DEF Init, IndInv, TypeOK, Status, PCs, Holding, Active, ClaimsOK, ExclusiveOK,
         CountsOK, ProcsOK, FailedOnlyExhausted, SuccessWasRun, RunningIsOwned, Stranded
<1>2. QED
  BY <1>1, IndStep, PTL DEF Spec

(* At most one worker of all processes processes a message at a time.       *)
THEOREM SingleOwnerHolds == Spec => []SingleOwner
<1>1. IndInv => SingleOwner
  BY DEF IndInv, ExclusiveOK, SingleOwner, Owner, Active
<1>2. QED
  BY <1>1, IndInvHolds, PTL

(* The worker's copy of retry_count is current while the worker uses it.    *)
THEOREM CopyIsCurrentHolds == Spec => []CopyIsCurrent
<1>1. IndInv => CopyIsCurrent
  BY DEF IndInv, ClaimsOK, CopyIsCurrent, Owner, Active, Holding
<1>2. QED
  BY <1>1, IndInvHolds, PTL

(* No message is attempted more than MaxRetry + 1 times.                    *)
THEOREM BoundedAttemptsHolds == Spec => []BoundedAttempts
<1>1. ASSUME IndInv, NEW m \in Msgs
      PROVE  retry[m] <= MaxRetry /\ attempts[m] <= MaxRetry + 1
  <2>1. retry[m] \in Nat /\ attempts[m] \in Nat
    BY <1>1 DEF IndInv, TypeOK
  <2>2. retry[m] <= MaxRetry /\ attempts[m] <= retry[m] + 1
    BY <1>1 DEF IndInv, CountsOK
  <2>3. QED
    BY <2>1, <2>2
<1>2. IndInv => BoundedAttempts
  BY <1>1 DEF BoundedAttempts
<1>3. QED
  BY <1>2, IndInvHolds, PTL

(* A message with a handler is failed only when its attempts are exhausted. *)
THEOREM FailedOnlyExhaustedHolds == Spec => []FailedOnlyExhausted
<1>1. IndInv => FailedOnlyExhausted
  BY DEF IndInv
<1>2. QED
  BY <1>1, IndInvHolds, PTL

(* A running row that nobody works on is always the work of a fault.        *)
THEOREM RunningIsOwnedHolds == Spec => []RunningIsOwned
<1>1. IndInv => RunningIsOwned
  BY DEF IndInv
<1>2. QED
  BY <1>1, IndInvHolds, PTL

(* The outcome of a message never changes; retry_count never decreases.     *)
THEOREM OutcomeIsFinalHolds == Spec => OutcomeIsFinal
<1> DEFINE Final == \A m \in Msgs : /\ status[m] \in Settled => status'[m] = status[m]
                                    /\ retry'[m] >= retry[m]
<1>1. ASSUME IndInv, [Next]_vars PROVE Final
  <2> USE DEF IndInv, TypeOK, ClaimsOK, Holding, Active, Settled, rowVars, Goto
  <2>1. ASSUME NEW w \in Workers, WorkerStep(w) \/ WorkerFault(w) PROVE Final
    BY <1>1, <2>1 DEF WorkerStep, WorkerFault, TickerFires, StopWorker, SelectDue,
       SelectNone, CommitClaim, CallHandler, NoHandler, HandlerReturns, WriteSuccess,
       MarkFailed, HandleRetry, Write, FetchFails, CommitUnknown, WriteLost
  <2>2. ASSUME NEW p \in Procs, ProcStep(p) \/ ProcFault(p) PROVE Final
    BY <1>1, <2>2 DEF ProcStep, ProcFault, Register, StartWorkers, Exit, Cancel, Crash, Die
  <2>3. ASSUME NEW m \in Msgs, NEW d \in Delays, Publish(m, d) PROVE Final
    BY <1>1, <2>3 DEF Publish
  <2>4. CASE Tick \/ UNCHANGED vars
    BY <1>1, <2>4 DEF Tick, vars
  <2>5. QED
    BY <1>1, <2>1, <2>2, <2>3, <2>4 DEF Next
<1>2. IndInv /\ [Next]_vars => [Final]_vars
  BY <1>1
<1>3. QED
  BY <1>2, IndInvHolds, PTL DEF Spec, OutcomeIsFinal

(* No handler is started before its message's execute_time.                 *)
THEOREM NeverEarlyHolds == Spec => NeverEarly
<1> DEFINE Early == \A w \in Workers : attempts' # attempts /\ pc[w] = "lookup" /\ pc'[w] = "exec"
                      => wait[claim[w]] <= 0
<1>1. IndInv /\ [Next]_vars => [Early]_vars
  BY DEF IndInv, ClaimsOK, Active, Holding
<1>2. QED
  BY <1>1, IndInvHolds, PTL DEF Spec, NeverEarly

(* Every step of the delay queue is a step of the job queue, or leaves its   *)
(* variables alone.                                                          *)
LEMMA RefinementStep == IndInv /\ [Next]_vars => [JQ!Next]_JQ!jobVars
<1> SUFFICES ASSUME IndInv, [Next]_vars PROVE [JQ!Next]_JQ!jobVars
  OBVIOUS
<1> DEFINE jstate  == [m \in Msgs |-> AbstractState(status[m])]
           jholder == [w \in Workers |-> IF pc[w] \in Holding THEN claim[w] ELSE None]
<1> USE DEF IndInv, TypeOK, Status, PCs, Holding, rowVars, wkVars, procVars, Goto,
            Release, Fault, AbstractState
<1>1. ASSUME NEW m \in Msgs, NEW d \in Delays, Publish(m, d) PROVE JQ!Submit(m)
  BY <1>1 DEF Publish, JQ!Submit
<1>2. ASSUME NEW w \in Workers, NEW m \in Msgs, CommitClaim(w), claim[w] = m
      PROVE JQ!Take(w, m)
  <2>1. jholder[w] = None /\ jstate[m] = "ready"
    BY <1>2 DEF CommitClaim, ClaimsOK, Active
  <2>2. jstate' = [jstate EXCEPT ![m] = "taken"]
    BY <1>2, <2>1 DEF CommitClaim
  <2>3. jholder' = [jholder EXCEPT ![w] = m]
    BY <1>2 DEF CommitClaim
  <2>4. UNCHANGED retry
    BY <1>2 DEF CommitClaim
  <2>5. QED
    BY <2>1, <2>2, <2>3, <2>4 DEF JQ!Take
<1>3. ASSUME NEW w \in Workers, WriteSuccess(w) PROVE JQ!Complete(w)
  <2>1. /\ claim[w] \in Msgs /\ claim[w] # None /\ jholder[w] = claim[w]
    BY <1>3 DEF WriteSuccess, Write, ClaimsOK, Active
  <2>2. jstate' = [jstate EXCEPT ![claim[w]] = "done"]
    BY <1>3, <2>1 DEF WriteSuccess, Write
  <2>3. jholder' = [jholder EXCEPT ![w] = None]
    BY <1>3, <2>1 DEF WriteSuccess, Write
  <2>4. UNCHANGED retry
    BY <1>3, <2>1 DEF WriteSuccess, Write, ClaimsOK, Active
  <2>5. QED
    BY <2>1, <2>2, <2>3, <2>4 DEF JQ!Complete, JQ!Settle
<1>4. ASSUME NEW w \in Workers, MarkFailed(w) PROVE JQ!GiveUp(w)
  <2>1. /\ claim[w] \in Msgs /\ claim[w] # None /\ jholder[w] = claim[w]
        /\ claim[w] \in Handled => retry[claim[w]] = MaxRetry
    BY <1>4 DEF MarkFailed, Write, ClaimsOK, Active, CountsOK, ProcsOK
  <2>2. jstate' = [jstate EXCEPT ![claim[w]] = "dead"]
    BY <1>4, <2>1 DEF MarkFailed, Write
  <2>3. jholder' = [jholder EXCEPT ![w] = None]
    BY <1>4, <2>1 DEF MarkFailed, Write
  <2>4. UNCHANGED retry
    BY <1>4, <2>1 DEF MarkFailed, Write, ClaimsOK, Active
  <2>5. QED
    BY <2>1, <2>2, <2>3, <2>4 DEF JQ!GiveUp, JQ!Settle
<1>5. ASSUME NEW w \in Workers, HandleRetry(w) PROVE JQ!PutBack(w)
  <2>1. /\ claim[w] \in Msgs /\ claim[w] # None /\ jholder[w] = claim[w]
        /\ retry[claim[w]] < MaxRetry
    BY <1>5 DEF HandleRetry, Write, ClaimsOK, Active
  <2>2. jstate' = [jstate EXCEPT ![claim[w]] = "ready"]
    BY <1>5, <2>1 DEF HandleRetry, Write
  <2>3. jholder' = [jholder EXCEPT ![w] = None]
    BY <1>5, <2>1 DEF HandleRetry, Write
  <2>4. retry' = [retry EXCEPT ![claim[w]] = @ + 1]
    BY <1>5, <2>1 DEF HandleRetry, Write, ClaimsOK, Active
  <2>5. QED
    BY <2>1, <2>2, <2>3, <2>4 DEF JQ!PutBack, JQ!Settle
<1>6. ASSUME NEW w \in Workers, FetchFails(w) \/ WriteLost(w) PROVE JQ!Drop({w})
  BY <1>6 DEF FetchFails, WriteLost, JQ!Drop
<1>7. ASSUME NEW w \in Workers, NEW m \in Msgs, CommitUnknown(w), claim[w] = m
      PROVE JQ!TakenByNobody(m)
  <2>1. jstate[m] = "ready" /\ UNCHANGED <<retry, jholder>>
    BY <1>7 DEF CommitUnknown, ClaimsOK, Active
  <2>2. jstate' = [jstate EXCEPT ![m] = "taken"]
    BY <1>7, <2>1 DEF CommitUnknown
  <2>3. QED
    BY <2>1, <2>2 DEF JQ!TakenByNobody
<1>8. ASSUME NEW p \in Procs, Exit(p) \/ Crash(p)
      PROVE JQ!Drop({w \in Workers : Home[w] = p})
  BY <1>8 DEF Exit, Crash, Die, JQ!Drop
<1>9. ASSUME NEW w \in Workers,
             TickerFires(w) \/ StopWorker(w) \/ SelectDue(w) \/ SelectNone(w)
             \/ CallHandler(w) \/ NoHandler(w) \/ HandlerReturns(w)
      PROVE UNCHANGED JQ!jobVars
  BY <1>9 DEF TickerFires, StopWorker, SelectDue, SelectNone, CallHandler, NoHandler,
     HandlerReturns, JQ!jobVars
<1>10. ASSUME NEW p \in Procs, Register(p) \/ StartWorkers(p) \/ Cancel(p)
       PROVE UNCHANGED JQ!jobVars
  BY <1>10 DEF Register, StartWorkers, Cancel, JQ!jobVars
<1>11. CASE Tick \/ UNCHANGED vars
  BY <1>11 DEF Tick, vars, JQ!jobVars
<1>12. ASSUME NEW w \in Workers, CommitClaim(w) \/ CommitUnknown(w) PROVE claim[w] \in Msgs
  BY <1>12 DEF CommitClaim, CommitUnknown, ClaimsOK, Active
<1>13. ASSUME NEW w \in Workers, WorkerStep(w) \/ WorkerFault(w)
       PROVE [JQ!Next]_JQ!jobVars
  <2>1. {w} \in SUBSET Workers
    OBVIOUS
  <2>2. CASE FetchFails(w) \/ WriteLost(w)
    BY <1>6, <2>1, <2>2 DEF JQ!Next
  <2>3. CASE CommitClaim(w) \/ CommitUnknown(w)
    <3>1. PICK m \in Msgs : m = claim[w]
      BY <1>12, <2>3
    <3>2. JQ!Take(w, m) \/ JQ!TakenByNobody(m)
      BY <1>2, <1>7, <2>3, <3>1
    <3>3. QED
      BY <3>2 DEF JQ!Next
  <2>4. CASE WriteSuccess(w) \/ MarkFailed(w) \/ HandleRetry(w)
    BY <1>3, <1>4, <1>5, <2>4 DEF JQ!Next
  <2>5. QED
    BY <1>9, <1>13, <2>2, <2>3, <2>4 DEF WorkerStep, WorkerFault
<1>14. ASSUME NEW p \in Procs, ProcStep(p) \/ ProcFault(p) PROVE [JQ!Next]_JQ!jobVars
  <2>1. {w \in Workers : Home[w] = p} \in SUBSET Workers
    OBVIOUS
  <2>2. QED
    BY <1>8, <1>10, <1>14, <2>1 DEF ProcStep, ProcFault, JQ!Next
<1>15. QED
  BY <1>1, <1>11, <1>13, <1>14 DEF Next, JQ!Next

(* The delay queue implements the abstract job queue: rows, transactions and *)
(* crashes included, its users see jobs taken by one worker at a time.       *)
THEOREM Refinement == Spec => ImplementsJobQueue
<1>1. Init => JQ!Init
  BY DEF Init, JQ!Init, AbstractState, Holding
<1>2. QED
  BY <1>1, RefinementStep, IndInvHolds, PTL DEF Spec, ImplementsJobQueue, JQ!Spec

=============================================================================
