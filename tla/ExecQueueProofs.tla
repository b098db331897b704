--------------------------- MODULE ExecQueueProofs ---------------------------
(* Proofs about ExecQueue, for any number of run_ids and requests.          *)
EXTENDS ExecQueue, TLAPS

USE ShellAssumption, CapAssumption, NoRunAssumption, BoundAssumption

\* What the channel loses and gains.
LEMMA TailFacts ==
  ASSUME ch \in Seq(Runs), ch # <<>>
  PROVE  /\ Head(ch) = ch[1] /\ 1 \in 1..Len(ch) /\ Head(ch) \in Runs
         /\ Tail(ch) \in Seq(Runs) /\ Len(Tail(ch)) = Len(ch) - 1
         /\ \A i \in 1..Len(Tail(ch)) : i + 1 \in 1..Len(ch) /\ Tail(ch)[i] = ch[i + 1]
OBVIOUS

LEMMA AppendFacts ==
  ASSUME ch \in Seq(Runs), NEW r \in Runs
  PROVE  /\ Append(ch, r) \in Seq(Runs) /\ Len(Append(ch, r)) = Len(ch) + 1
         /\ Append(ch, r)[Len(ch) + 1] = r
         /\ \A i \in 1..Len(ch) : Append(ch, r)[i] = ch[i]
OBVIOUS

\* A request that is somewhere has a run_id; so has the consumer.
LEMMA BusyHasRun ==
  ASSUME TypeOK, HolderInv
  PROVE  /\ \A q \in Reqs : rpc[q] # "idle" => run[q] \in Runs
         /\ cpc # "idle" => entity \in Runs
BY DEF TypeOK, HolderInv

LEMMA TypeStep == TypeOK /\ HolderInv /\ [Next]_vars => TypeOK'
<1> SUFFICES ASSUME TypeOK, HolderInv, [Next]_vars PROVE TypeOK'
  OBVIOUS
<1> USE BusyHasRun
<1>1. ASSUME NEW q \in Reqs, NEW r \in Runs, Check(q, r) PROVE TypeOK'
  BY <1>1 DEF TypeOK, Check, Move, consVars
<1>2. ASSUME NEW q \in Reqs, RequestStep(q) PROVE TypeOK'
  <2>1. CASE Reject(q)
    BY <2>1 DEF TypeOK, Reject, Return, Move, consVars, histVars
  <2>2. CASE SaveExecQueue(q)
    BY <2>2 DEF TypeOK, SaveExecQueue, Move, SetStatus, Status, consVars, histVars
  <2>3. CASE SaveFails(q)
    <3>1. status' \in [Runs -> Status]
      BY <2>3 DEF TypeOK, SaveFails, Return, Move, SetStatus, Status
    <3> QED
      BY <2>3, <3>1 DEF TypeOK, SaveFails, Fault, Return, Move, consVars, histVars
  <2>4. CASE SendEntity(q)
    <3>1. ch' \in Seq(Runs) /\ Len(ch') <= Cap
      BY <2>4, AppendFacts DEF TypeOK, SendEntity, Return, Move
    <3> QED
      BY <2>4, <3>1 DEF TypeOK, SendEntity, Return, Move, consVars
  <2>5. CASE SendFails(q)
    BY <2>5 DEF TypeOK, SendFails, Move, consVars, histVars
  <2>6. CASE Compensate(q)
    BY <2>6 DEF TypeOK, Compensate, Return, Move, SetStatus, Status, Finished,
                consVars, histVars
  <2>7. CASE CompensateFails(q)
    BY <2>7 DEF TypeOK, CompensateFails, Fault, Return, Move, consVars, histVars
  <2> QED
    BY <1>2, <2>1, <2>2, <2>3, <2>4, <2>5, <2>6, <2>7 DEF RequestStep
<1>3. CASE ConsumerStep
  <2>1. CASE Take
    BY <2>1, TailFacts DEF TypeOK, Take, Stage, reqVars, histVars
  <2>2. CASE Query
    BY <2>2 DEF TypeOK, Query, Stage, reqVars, histVars
  <2>3. CASE QueryFails
    BY <2>3 DEF TypeOK, QueryFails, Fault, Done, Stage, Status, Finished, reqVars, histVars
  <2>4. CASE Skip
    BY <2>4 DEF TypeOK, Skip, Done, Stage, Status, Finished, reqVars, histVars
  <2>5. CASE MarkRunning
    <3>1. status' \in [Runs -> Status]
      BY <2>5 DEF TypeOK, MarkRunning, SetStatus, Stage, Status
    <3>2. faults' \in 0..MaxFaults
      BY <2>5 DEF TypeOK, MarkRunning, Fault
    <3> QED
      BY <2>5, <3>1, <3>2 DEF TypeOK, MarkRunning, Stage, reqVars, histVars
  <2>6. CASE Execute
    BY <2>6 DEF TypeOK, Execute, Stage, reqVars
  <2>7. CASE ConnectFails
    BY <2>7 DEF TypeOK, ConnectFails, Fault, Stage, Finished, reqVars, histVars
  <2>8. CASE BailOut
    BY <2>8 DEF TypeOK, BailOut, Fault, Done, Stage, Status, Finished, reqVars, histVars
  <2>9. CASE WriteBack
    BY <2>9 DEF TypeOK, WriteBack, Done, Stage, SetStatus, Status, Finished, reqVars, histVars
  <2>10. CASE WriteBackFails
    BY <2>10 DEF TypeOK, WriteBackFails, Fault, Done, Stage, Status, Finished, reqVars, histVars
  <2> QED
    BY <1>3, <2>1, <2>2, <2>3, <2>4, <2>5, <2>6, <2>7, <2>8, <2>9, <2>10 DEF ConsumerStep
<1>4. CASE Crash
  BY <1>4 DEF TypeOK, Crash, Status, Finished, histVars
<1>5. CASE UNCHANGED vars
  BY <1>5 DEF vars, TypeOK
<1> QED
  BY <1>1, <1>2, <1>3, <1>4, <1>5 DEF Next
-----------------------------------------------------------------------------
LEMMA QueuedSend ==
  ASSUME TypeOK, NEW q \in Reqs, run[q] \in Runs, ch' = Append(ch, run[q])
  PROVE  \A r \in Runs : Queued(r)' <=> Queued(r) \/ r = run[q]
<1>1. /\ Len(ch') = Len(ch) + 1 /\ ch'[Len(ch) + 1] = run[q]
      /\ \A i \in 1..Len(ch) : ch'[i] = ch[i]
      /\ Len(ch) \in Nat
  BY AppendFacts DEF TypeOK
<1>2. ASSUME NEW r \in Runs, Queued(r)' PROVE Queued(r) \/ r = run[q]
  <2>1. PICK i \in 1..Len(ch') : ch'[i] = r
    BY <1>2 DEF Queued
  <2> QED
    BY <1>1, <2>1 DEF Queued
<1>3. ASSUME NEW r \in Runs, Queued(r) \/ r = run[q] PROVE Queued(r)'
  BY <1>1, <1>3 DEF Queued
<1> QED
  BY <1>2, <1>3

LEMMA QueuedTake ==
  ASSUME TypeOK, ch # <<>>, ch' = Tail(ch), entity' = Head(ch)
  PROVE  /\ entity' = ch[1] /\ entity' \in Runs /\ Queued(entity')
         /\ \A r \in Runs : Queued(r) <=> Queued(r)' \/ r = entity'
<1>1. /\ entity' = ch[1] /\ entity' \in Runs /\ 1 \in 1..Len(ch)
      /\ Len(ch') = Len(ch) - 1 /\ Len(ch) \in Nat
      /\ \A i \in 1..Len(ch') : i + 1 \in 1..Len(ch) /\ ch'[i] = ch[i + 1]
  BY TailFacts DEF TypeOK
<1>2. ASSUME NEW r \in Runs, Queued(r) PROVE Queued(r)' \/ r = entity'
  <2>1. PICK i \in 1..Len(ch) : ch[i] = r
    BY <1>2 DEF Queued
  <2>2. CASE i = 1
    BY <1>1, <2>1, <2>2
  <2>3. CASE i # 1
    <3>1. i - 1 \in 1..Len(ch') /\ ch'[i - 1] = r
      BY <1>1, <2>1, <2>3
    <3> QED
      BY <3>1 DEF Queued
  <2> QED
    BY <2>2, <2>3
<1>3. \A r \in Runs : Queued(r)' => Queued(r)
  BY <1>1 DEF Queued
<1> QED
  BY <1>1, <1>2, <1>3 DEF Queued

-----------------------------------------------------------------------------
LEMMA HolderStep == TypeOK /\ HolderInv /\ [Next]_vars => HolderInv'
<1> SUFFICES ASSUME TypeOK, HolderInv, [Next]_vars PROVE HolderInv'
  OBVIOUS
<1> USE BusyHasRun
<1>1. ASSUME NEW q \in Reqs, NEW r \in Runs, Check(q, r) PROVE HolderInv'
  BY <1>1 DEF TypeOK, HolderInv, Check, Move, consVars
<1>2. ASSUME NEW q \in Reqs, RequestStep(q) PROVE HolderInv'
  <2>1. CASE Reject(q)
    BY <2>1 DEF TypeOK, HolderInv, Reject, Return, Move, consVars, histVars
  <2>2. CASE SaveExecQueue(q)
    BY <2>2 DEF TypeOK, HolderInv, SaveExecQueue, Move, consVars, histVars
  <2>3. CASE SaveFails(q)
    BY <2>3 DEF TypeOK, HolderInv, SaveFails, Fault, Return, Move, consVars, histVars
  <2>4. CASE SendEntity(q)
    BY <2>4 DEF TypeOK, HolderInv, SendEntity, Return, Move, consVars
  <2>5. CASE SendFails(q)
    BY <2>5 DEF TypeOK, HolderInv, SendFails, Move, consVars, histVars
  <2>6. CASE Compensate(q)
    BY <2>6 DEF TypeOK, HolderInv, Compensate, Return, Move, consVars, histVars
  <2>7. CASE CompensateFails(q)
    BY <2>7 DEF TypeOK, HolderInv, CompensateFails, Fault, Return, Move, consVars, histVars
  <2> QED
    BY <1>2, <2>1, <2>2, <2>3, <2>4, <2>5, <2>6, <2>7 DEF RequestStep
<1>3. CASE ConsumerStep
  <2>1. CASE Take
    BY <2>1, QueuedTake DEF TypeOK, HolderInv, Take, Stage, reqVars, histVars
  <2>2. CASE Query
    BY <2>2 DEF TypeOK, HolderInv, Query, Stage, reqVars, histVars
  <2>3. CASE QueryFails \/ Skip \/ BailOut \/ WriteBack \/ WriteBackFails
    BY <2>3 DEF HolderInv, QueryFails, Skip, BailOut, WriteBack, WriteBackFails,
                Done, Stage, reqVars, histVars
  <2>4. CASE MarkRunning
    BY <2>4 DEF TypeOK, HolderInv, MarkRunning, Fault, Stage, reqVars, histVars
  <2>5. CASE Execute
    BY <2>5 DEF TypeOK, HolderInv, Execute, Stage, reqVars
  <2>6. CASE ConnectFails
    BY <2>6 DEF TypeOK, HolderInv, ConnectFails, Fault, Stage, reqVars, histVars
  <2> QED
    BY <1>3, <2>1, <2>2, <2>3, <2>4, <2>5, <2>6 DEF ConsumerStep
<1>4. CASE Crash
  BY <1>4 DEF TypeOK, HolderInv, Crash, histVars
<1>5. CASE UNCHANGED vars
  BY <1>5 DEF vars, HolderInv
<1> QED
  BY <1>1, <1>2, <1>3, <1>4, <1>5 DEF Next

LEMMA AbsentStep == TypeOK /\ HolderInv /\ AbsentInv /\ [Next]_vars => AbsentInv'
<1> SUFFICES ASSUME TypeOK, HolderInv, AbsentInv, [Next]_vars PROVE AbsentInv'
  OBVIOUS
<1> USE BusyHasRun
<1>1. ASSUME NEW q \in Reqs, NEW r \in Runs, Check(q, r) PROVE AbsentInv'
  BY <1>1 DEF TypeOK, AbsentInv, Queued, Check, Move, consVars
<1>2. ASSUME NEW q \in Reqs, RequestStep(q) PROVE AbsentInv'
  <2>1. CASE Reject(q)
    BY <2>1 DEF TypeOK, AbsentInv, Queued, Reject, Return, Move, consVars, histVars
  <2>2. CASE SaveExecQueue(q)
    BY <2>2 DEF TypeOK, AbsentInv, Queued, SaveExecQueue, SetStatus, Move, consVars, histVars
  <2>3. CASE SaveFails(q)
    BY <2>3 DEF TypeOK, AbsentInv, Queued, SaveFails, SetStatus, Return, Move, consVars, histVars
  <2>4. CASE SendEntity(q)
    <3>1. run[q] \in Runs /\ status[run[q]] # "absent"
      BY <2>4 DEF AbsentInv, SendEntity, Return, Move
    <3>2. \A r \in Runs : Queued(r)' <=> Queued(r) \/ r = run[q]
      BY <2>4, <3>1, QueuedSend DEF SendEntity
    <3>3. /\ status' = status /\ executions' = executions /\ entity' = entity
          /\ accepted' = accepted \cup {run[q]}
          /\ \A p \in Reqs : /\ p # q => run'[p] = run[p] /\ rpc'[p] = rpc[p]
                             /\ p = q => run'[p] = NoRun
      BY <2>4 DEF TypeOK, SendEntity, Return, Move, consVars
    <3> SUFFICES ASSUME NEW r \in Runs, status[r] = "absent"
                 PROVE  /\ executions[r] = 0 /\ r \notin accepted' /\ ~Queued(r)' /\ entity # r
                        /\ \A p \in Reqs : run'[p] = r => rpc'[p] = "checked"
      BY <3>3 DEF AbsentInv
    <3>4. r # run[q] /\ r # NoRun
      BY <3>1
    <3> QED
      BY <3>2, <3>3, <3>4 DEF AbsentInv
  <2>5. CASE SendFails(q)
    BY <2>5 DEF TypeOK, AbsentInv, Queued, SendFails, Move, consVars, histVars
  <2>6. CASE Compensate(q)
    BY <2>6 DEF TypeOK, AbsentInv, Queued, Compensate, SetStatus, Return, Move, consVars, histVars
  <2>7. CASE CompensateFails(q)
    BY <2>7 DEF TypeOK, AbsentInv, Queued, CompensateFails, Return, Move, consVars, histVars
  <2> QED
    BY <1>2, <2>1, <2>2, <2>3, <2>4, <2>5, <2>6, <2>7 DEF RequestStep
<1>3. CASE ConsumerStep
  <2>1. CASE Take
    BY <2>1, QueuedTake DEF AbsentInv, Take, Stage, reqVars, histVars
  <2>2. CASE Query
    BY <2>2 DEF AbsentInv, Queued, Query, reqVars, histVars
  <2>3. CASE QueryFails \/ Skip \/ BailOut \/ WriteBackFails
    BY <2>3 DEF AbsentInv, Queued, QueryFails, Skip, BailOut, WriteBackFails,
                Done, reqVars, histVars
  <2>4. CASE MarkRunning
    BY <2>4 DEF TypeOK, AbsentInv, Queued, MarkRunning, SetStatus, reqVars, histVars
  <2>5. CASE Execute
    BY <2>5 DEF TypeOK, AbsentInv, Queued, Execute, Stage, reqVars
  <2>6. CASE ConnectFails
    BY <2>6 DEF AbsentInv, Queued, ConnectFails, reqVars, histVars
  <2>7. CASE WriteBack
    BY <2>7 DEF TypeOK, AbsentInv, Queued, WriteBack, SetStatus, Done, Stage, Finished,
                reqVars, histVars
  <2> QED
    BY <1>3, <2>1, <2>2, <2>3, <2>4, <2>5, <2>6, <2>7 DEF ConsumerStep
<1>4. CASE Crash
  BY <1>4 DEF AbsentInv, Queued, Crash, histVars
<1>5. CASE UNCHANGED vars
  BY <1>5 DEF vars, AbsentInv, Queued
<1> QED
  BY <1>1, <1>2, <1>3, <1>4, <1>5 DEF Next
-----------------------------------------------------------------------------
\* The part of IndInv a token's steps rest on.
Base == TypeOK /\ HolderInv /\ AbsentInv /\ TokenInv

LEMMA TokenRequest ==
  ASSUME Base, NEW q \in Reqs, RequestStep(q)
  PROVE  TokenInv'
<1> USE BusyHasRun DEF Base
<1> SUFFICES ASSUME NEW r \in Runs \ overlapped' PROVE TokenOf(r)'
  BY DEF TokenInv
<1>1. CASE Reject(q)
  <2>1. TokenOf(r)
    BY <1>1 DEF TokenInv, Reject, histVars
  <2> QED
    BY <1>1, <2>1 DEF TypeOK, TokenOf, Queued, InFlight, Reject, Return, Move,
                      consVars, histVars
<1>2. CASE SaveExecQueue(q)
  <2>1. TokenOf(r) /\ run[q] \in Runs /\ rpc[q] = "checked"
    BY <1>2 DEF TokenInv, SaveExecQueue, Move, histVars
  <2>2. CASE run[q] = r
    BY <1>2, <2>1, <2>2 DEF TypeOK, TokenOf, Queued, InFlight, SaveExecQueue, Move,
                            SetStatus, consVars, histVars
  <2>3. CASE run[q] # r
    BY <1>2, <2>1, <2>3 DEF TypeOK, TokenOf, Queued, InFlight, SaveExecQueue, Move,
                            SetStatus, consVars, histVars
  <2> QED
    BY <2>2, <2>3
<1>3. CASE SaveFails(q)
  <2>1. TokenOf(r) /\ run[q] \in Runs /\ rpc[q] = "checked"
    BY <1>3 DEF TokenInv, SaveFails, Return, Move, histVars
  <2>2. CASE run[q] = r
    BY <1>3, <2>1, <2>2 DEF TypeOK, TokenOf, Queued, InFlight, SaveFails, Return,
                            Move, SetStatus, consVars, histVars
  <2>3. CASE run[q] # r
    BY <1>3, <2>1, <2>3 DEF TypeOK, TokenOf, Queued, InFlight, SaveFails, Return,
                            Move, SetStatus, consVars, histVars
  <2> QED
    BY <2>2, <2>3
<1>4. CASE SendEntity(q)
  <2>1. TokenOf(r) /\ run[q] \in Runs /\ rpc[q] = "saved"
    BY <1>4 DEF TokenInv, SendEntity, Return, Move
  <2>2. /\ \A x \in Runs : Queued(x)' <=> Queued(x) \/ x = run[q]
        /\ Len(ch') = Len(ch) + 1 /\ ch'[Len(ch) + 1] = run[q] /\ Len(ch) \in Nat
        /\ \A i \in 1..Len(ch) : ch'[i] = ch[i]
    BY <1>4, <2>1, QueuedSend, AppendFacts DEF TypeOK, SendEntity
  <2>3. \A i, j \in 1..Len(ch') : ch'[i] = r /\ ch'[j] = r => i = j
    <3>1. \A i \in 1..Len(ch') : i \in 1..Len(ch) \/ i = Len(ch) + 1
      BY <2>2
    <3>2. run[q] = r => ~Queued(r)
      BY <2>1 DEF TokenOf, InFlight
    <3> QED
      BY <2>1, <2>2, <3>1, <3>2 DEF TokenOf, Queued
  <2>4. /\ \A p \in Reqs \ {q} : run'[p] = run[p] /\ rpc'[p] = rpc[p]
        /\ run'[q] = NoRun
        /\ UNCHANGED <<status, executions, entity, cpc, copy>>
        /\ accepted' = accepted \cup {run[q]}
    BY <1>4 DEF TypeOK, SendEntity, Return, Move, consVars
  <2>5. CASE run[q] = r
    BY <2>1, <2>2, <2>3, <2>4, <2>5 DEF TokenOf, InFlight
  <2>6. CASE run[q] # r
    BY <2>1, <2>2, <2>3, <2>4, <2>6 DEF TokenOf, InFlight
  <2> QED
    BY <2>5, <2>6
<1>5. CASE SendFails(q)
  <2>1. TokenOf(r)
    BY <1>5 DEF TokenInv, SendFails, histVars
  <2> QED
    BY <1>5, <2>1 DEF TypeOK, TokenOf, Queued, InFlight, SendFails, Move, consVars, histVars
<1>6. CASE Compensate(q)
  <2>1. TokenOf(r) /\ run[q] \in Runs /\ rpc[q] = "undelivered"
    BY <1>6 DEF TokenInv, Compensate, Return, Move, histVars
  <2>2. CASE run[q] = r
    BY <1>6, <2>1, <2>2 DEF TypeOK, TokenOf, Queued, InFlight, Compensate, Return,
                            Move, SetStatus, consVars, histVars
  <2>3. CASE run[q] # r
    BY <1>6, <2>1, <2>3 DEF TypeOK, TokenOf, Queued, InFlight, Compensate, Return,
                            Move, SetStatus, consVars, histVars
  <2> QED
    BY <2>2, <2>3
<1>7. CASE CompensateFails(q)
  <2>1. TokenOf(r)
    BY <1>7 DEF TokenInv, CompensateFails, histVars
  <2> QED
    BY <1>7, <2>1 DEF TypeOK, TokenOf, Queued, InFlight, CompensateFails, Return, Move,
                      consVars, histVars
<1> QED
  BY <1>1, <1>2, <1>3, <1>4, <1>5, <1>6, <1>7 DEF RequestStep

LEMMA TokenConsumer ==
  ASSUME Base, ConsumerStep
  PROVE  TokenInv'
<1> USE BusyHasRun DEF Base
<1> SUFFICES ASSUME NEW r \in Runs, r \notin overlapped, r \notin overlapped'
             PROVE  TokenOf(r)'
  BY DEF TokenInv, ConsumerStep, Take, Query, QueryFails, Skip, MarkRunning, Execute,
         ConnectFails, BailOut, WriteBack, WriteBackFails, histVars
<1>0. TokenOf(r)
  BY DEF TokenInv
<1>1. CASE Take
  <2>1. /\ entity' = ch[1] /\ entity' \in Runs /\ Queued(entity')
        /\ \A x \in Runs : Queued(x) <=> Queued(x)' \/ x = entity'
    BY <1>1, QueuedTake DEF Take
  <2>2. /\ Len(ch') = Len(ch) - 1 /\ Len(ch) \in Nat /\ 1 \in 1..Len(ch)
        /\ \A i \in 1..Len(ch') : i + 1 \in 1..Len(ch) /\ ch'[i] = ch[i + 1]
    BY <1>1, TailFacts DEF TypeOK, Take
  <2>3. UNCHANGED <<status, rpc, run, executions, accepted>> /\ cpc' = "query"
    BY <1>1 DEF Take, Stage, reqVars, histVars
  <2>4. \A i, j \in 1..Len(ch') : ch'[i] = r /\ ch'[j] = r => i = j
    <3> SUFFICES ASSUME NEW i \in 1..Len(ch'), NEW j \in 1..Len(ch'),
                        ch'[i] = r, ch'[j] = r
                 PROVE  i = j
      OBVIOUS
    <3>1. i + 1 \in 1..Len(ch) /\ j + 1 \in 1..Len(ch) /\ ch[i + 1] = r /\ ch[j + 1] = r
      BY <2>2
    <3>2. i + 1 = j + 1
      BY <1>0, <3>1 DEF TokenOf
    <3> QED
      BY <3>2
  <2>5. entity' = r => ~Queued(r)'
    <3> SUFFICES ASSUME entity' = r, NEW i \in 1..Len(ch'), ch'[i] = r PROVE FALSE
      BY DEF Queued
    <3>1. i + 1 \in 1..Len(ch) /\ ch[i + 1] = r /\ ch[1] = r
      BY <2>1, <2>2
    <3>2. i + 1 = 1
      BY <1>0, <2>2, <3>1 DEF TokenOf
    <3> QED
      BY <3>2
  <2>6. InFlight(r)' <=> InFlight(r)
    BY <2>3 DEF InFlight
  <2>7. CASE entity' = r
    BY <1>0, <2>1, <2>3, <2>4, <2>5, <2>6, <2>7 DEF TokenOf, InFlight
  <2>8. CASE entity' # r
    BY <1>0, <2>1, <2>3, <2>4, <2>6, <2>8 DEF TokenOf, InFlight
  <2> QED
    BY <2>7, <2>8
<1>2. CASE Query
  BY <1>0, <1>2 DEF TokenOf, Queued, InFlight, Query, Stage, reqVars, histVars
<1>3. CASE QueryFails \/ Skip \/ BailOut \/ WriteBackFails
  <2>1. entity' = NoRun /\ UNCHANGED <<status, ch, rpc, run, executions, accepted>>
    BY <1>3 DEF QueryFails, Skip, BailOut, WriteBackFails, Done, reqVars, histVars
  <2> QED
    BY <1>0, <2>1 DEF TokenOf, Queued, InFlight
<1>4. CASE MarkRunning
  <2>1. /\ UNCHANGED <<ch, rpc, run, executions, accepted, entity>>
        /\ entity \in Runs /\ cpc = "check" /\ cpc' = "exec"
        /\ status'[entity] \in {"running", status[entity]}
        /\ r # entity => status'[r] = status[r]
    BY <1>4 DEF TypeOK, MarkRunning, Stage, SetStatus, reqVars, histVars
  <2> QED
    BY <1>0, <2>1 DEF TokenOf, Queued, InFlight
<1>5. CASE Execute
  <2>1. /\ UNCHANGED <<status, ch, rpc, run, accepted, entity>>
        /\ entity \in Runs /\ cpc = "exec" /\ cpc' = "write"
        /\ executions'[entity] = executions[entity] + 1
        /\ r # entity => executions'[r] = executions[r]
    BY <1>5 DEF TypeOK, Execute, Stage, reqVars
  <2> QED
    BY <1>0, <2>1 DEF TokenOf, Queued, InFlight
<1>6. CASE ConnectFails
  BY <1>0, <1>6 DEF TokenOf, Queued, InFlight, ConnectFails, Stage, reqVars, histVars
<1>7. CASE WriteBack
  <2>1. /\ UNCHANGED <<ch, rpc, run, executions, accepted>>
        /\ entity \in Runs /\ entity' = NoRun
        /\ r # entity => status'[r] = status[r]
    BY <1>7 DEF TypeOK, WriteBack, Done, Stage, SetStatus, reqVars, histVars
  <2> QED
    BY <1>0, <2>1 DEF TokenOf, Queued, InFlight
<1> QED
  BY <1>1, <1>2, <1>3, <1>4, <1>5, <1>6, <1>7 DEF ConsumerStep

LEMMA TokenStep == Base /\ [Next]_vars => TokenInv'
<1> SUFFICES ASSUME Base, [Next]_vars PROVE TokenInv'
  OBVIOUS
<1>1. ASSUME NEW q \in Reqs, NEW s \in Runs, Check(q, s) PROVE TokenInv'
  <2> SUFFICES ASSUME NEW r \in Runs \ overlapped' PROVE TokenOf(r)'
    BY DEF TokenInv
  <2>1. TokenOf(r) /\ (r = s => ~InFlight(r))
    BY <1>1 DEF Base, TokenInv, Check
  <2>2. /\ UNCHANGED <<status, ch, entity, cpc, copy, executions, accepted>>
        /\ run'[q] = s /\ rpc'[q] = "checked" /\ run[q] = NoRun
        /\ \A p \in Reqs \ {q} : run'[p] = run[p] /\ rpc'[p] = rpc[p]
        /\ status[s] = "absent"
    BY <1>1 DEF Base, TypeOK, HolderInv, Check, Move, consVars
  <2>3. CASE r = s
    <3>1. executions[r] = 0 /\ r \notin accepted /\ ~Queued(r) /\ entity # r
      BY <2>2, <2>3 DEF Base, AbsentInv
    <3> QED
      BY <2>1, <2>2, <2>3, <3>1 DEF TokenOf, Queued, InFlight
  <2>4. CASE r # s
    BY <2>1, <2>2, <2>4 DEF TokenOf, Queued, InFlight
  <2> QED
    BY <2>3, <2>4
<1>2. ASSUME NEW q \in Reqs, RequestStep(q) PROVE TokenInv'
  BY <1>2, TokenRequest
<1>3. CASE ConsumerStep
  BY <1>3, TokenConsumer
<1>4. CASE Crash
  <2> SUFFICES ASSUME NEW r \in Runs \ overlapped' PROVE TokenOf(r)'
    BY DEF TokenInv
  <2>1. TokenOf(r)
    BY <1>4 DEF Base, TokenInv, Crash, histVars
  <2> QED
    BY <1>4, <2>1 DEF TokenOf, Queued, InFlight, Crash, histVars
<1>5. CASE UNCHANGED vars
  BY <1>5 DEF Base, vars, TokenInv, TokenOf, Queued, InFlight
<1> QED
  BY <1>1, <1>2, <1>3, <1>4, <1>5 DEF Next
-----------------------------------------------------------------------------
\* What is claimed while nothing fails survives every step; faulty steps end it.
Unfailing == PendingIsAwaited /\ RunningIsExecuting

LEMMA StillHealthy ==
  ASSUME TypeOK, [Next]_vars, Healthy'
  PROVE  /\ Healthy
         /\ ~Crash /\ \A q \in Reqs : ~SaveFails(q) /\ ~CompensateFails(q)
         /\ ~QueryFails /\ ~ConnectFails /\ ~BailOut /\ ~WriteBackFails
<1>1. faults \in Nat /\ crashes \in Nat
  BY DEF TypeOK
<1>2. /\ ~Crash /\ \A q \in Reqs : ~SaveFails(q) /\ ~CompensateFails(q)
      /\ ~QueryFails /\ ~ConnectFails /\ ~BailOut /\ ~WriteBackFails
  BY <1>1 DEF Healthy, Crash, Fault, SaveFails, CompensateFails, QueryFails,
              ConnectFails, BailOut, WriteBackFails
<1>3. faults <= faults' /\ crashes <= crashes'
  BY <1>1, <1>2 DEF Next, vars, Check, RequestStep, Reject, SaveExecQueue, SendEntity,
                    SendFails, Compensate, ConsumerStep, Take, Query, Skip,
                    MarkRunning, Fault, Execute, WriteBack
<1> QED
  BY <1>1, <1>2, <1>3 DEF Healthy

LEMMA UnfailingStep ==
  TypeOK /\ HolderInv /\ Unfailing /\ [Next]_vars => Unfailing'
<1> SUFFICES ASSUME TypeOK, HolderInv, Unfailing, [Next]_vars, Healthy',
                    NEW r \in Runs
             PROVE  /\ status'[r] = "pending" => Awaited(r)'
                    /\ status'[r] = "running" =>
                         entity' = r /\ cpc' \in {"exec", "write"}
  BY DEF Unfailing, PendingIsAwaited, RunningIsExecuting
<1> USE BusyHasRun
<1>0. /\ status[r] = "pending" => Awaited(r)
      /\ status[r] = "running" => entity = r /\ cpc \in {"exec", "write"}
  BY StillHealthy DEF Unfailing, PendingIsAwaited, RunningIsExecuting
<1>1. ASSUME NEW q \in Reqs, NEW s \in Runs, Check(q, s) PROVE Awaited(r) => Awaited(r)'
  BY <1>1 DEF TypeOK, Awaited, Queued, Check, Move, consVars
<1>2. ASSUME NEW q \in Reqs, Reject(q) PROVE Awaited(r) => Awaited(r)'
  BY <1>2 DEF TypeOK, Awaited, Queued, Reject, Return, Move, consVars
<1>3. ASSUME NEW q \in Reqs, SaveExecQueue(q)
      PROVE  /\ Awaited(r) => Awaited(r)'
             /\ run[q] = r => status'[r] = "pending" /\ Awaited(r)'
             /\ run[q] # r => status'[r] = status[r]
  BY <1>3 DEF TypeOK, Awaited, Queued, SaveExecQueue, Move, SetStatus, consVars
<1>4. ASSUME NEW q \in Reqs, SendEntity(q) PROVE Awaited(r) => Awaited(r)'
  <2>1. run[q] \in Runs /\ \A x \in Runs : Queued(x)' <=> Queued(x) \/ x = run[q]
    BY <1>4, QueuedSend DEF SendEntity, Return, Move
  <2> QED
    BY <1>4, <2>1 DEF TypeOK, Awaited, SendEntity, Return, Move, consVars
<1>5. ASSUME NEW q \in Reqs, SendFails(q) PROVE Awaited(r) => Awaited(r)'
  BY <1>5 DEF TypeOK, Awaited, Queued, SendFails, Move, consVars
<1>6. ASSUME NEW q \in Reqs, Compensate(q)
      PROVE  /\ run[q] = r => status'[r] = "failed"
             /\ run[q] # r => status'[r] = status[r] /\ (Awaited(r) => Awaited(r)')
  BY <1>6 DEF TypeOK, Awaited, Queued, Compensate, Return, Move, SetStatus, consVars
<1>7. CASE Take
  <2>1. \A x \in Runs : Queued(x) <=> Queued(x)' \/ x = entity'
    BY <1>7, QueuedTake DEF Take
  <2> QED
    BY <1>0, <1>7, <2>1 DEF HolderInv, Awaited, Take, Stage, reqVars
<1>8. CASE Query
  BY <1>0, <1>8 DEF HolderInv, Awaited, Queued, Query, Stage, reqVars
<1>9. CASE Skip
  BY <1>0, <1>9 DEF HolderInv, Awaited, Queued, Skip, EntityAlreadyRun, Finished,
                    Done, Stage, reqVars
<1>10. CASE MarkRunning
  <2>1. /\ entity \in Runs /\ cpc = "check" /\ cpc' = "exec" /\ entity' = entity
        /\ UNCHANGED <<ch, rpc, run>>
        /\ status'[entity] = "running"
        /\ r # entity => status'[r] = status[r]
    BY <1>10 DEF TypeOK, MarkRunning, SetStatus, Stage, Healthy, Fault, reqVars
  <2> QED
    BY <1>0, <2>1 DEF Awaited, Queued
<1>11. CASE Execute
  BY <1>0, <1>11 DEF Awaited, Queued, Execute, Stage, reqVars
<1>12. CASE WriteBack
  <2>1. /\ entity \in Runs /\ cpc = "write"
        /\ UNCHANGED <<ch, rpc, run>>
        /\ status'[entity] \in Finished
        /\ r # entity => status'[r] = status[r]
    BY <1>12 DEF TypeOK, WriteBack, SetStatus, Done, Stage, reqVars
  <2> QED
    BY <1>0, <2>1 DEF Awaited, Queued, Finished
<1>13. CASE UNCHANGED vars
  BY <1>0, <1>13 DEF vars, Awaited, Queued
<1>14. CASE \E q \in Reqs : RequestStep(q) \/ \E s \in Runs : Check(q, s)
  <2>1. PICK q \in Reqs : RequestStep(q) \/ \E s \in Runs : Check(q, s)
    BY <1>14
  <2>2. CASE SaveExecQueue(q)
    BY <1>0, <1>3, <2>2 DEF SaveExecQueue, consVars
  <2>3. CASE Compensate(q)
    BY <1>0, <1>6, <2>3 DEF Compensate, consVars
  <2>4. CASE Reject(q) \/ SendEntity(q) \/ SendFails(q) \/ \E s \in Runs : Check(q, s)
    <3>1. UNCHANGED <<status, entity, cpc>>
      BY <2>4 DEF Reject, SendEntity, SendFails, Check, consVars
    <3> QED
      BY <1>0, <1>1, <1>2, <1>4, <1>5, <2>4, <3>1
  <2> QED
    BY <2>1, <2>2, <2>3, <2>4, StillHealthy DEF RequestStep
<1> QED
  BY <1>7, <1>8, <1>9, <1>10, <1>11, <1>12, <1>13, <1>14, StillHealthy
     DEF Next, ConsumerStep

LEMMA SuccessStep ==
  TypeOK /\ HolderInv /\ SuccessWasExecuted /\ [Next]_vars => SuccessWasExecuted'
<1> SUFFICES ASSUME TypeOK, HolderInv, SuccessWasExecuted, [Next]_vars,
                    NEW r \in Runs, status'[r] = "success"
             PROVE  executions'[r] > 0
  BY DEF SuccessWasExecuted
<1> USE BusyHasRun
<1>1. executions'[r] >= executions[r] /\ executions'[r] \in Int /\ executions[r] \in Nat
  <2>1. executions \in [Runs -> Nat] /\ entity \in Runs \cup {NoRun}
    BY DEF TypeOK
  <2>2. CASE Execute
    BY <2>1, <2>2 DEF Execute
  <2>3. CASE ~Execute
    <3>1. UNCHANGED executions
      BY <2>3 DEF Next, vars, Check, RequestStep, Reject, SaveExecQueue, SaveFails,
         SendEntity, SendFails, Compensate, CompensateFails, ConsumerStep, Take, Query,
         QueryFails, Skip, MarkRunning, ConnectFails, BailOut, WriteBack,
         WriteBackFails, Crash, histVars
    <3> QED
      BY <2>1, <3>1
  <2> QED
    BY <2>2, <2>3
<1>2. CASE status[r] = "success"
  BY <1>1, <1>2 DEF SuccessWasExecuted
<1>3. CASE status[r] # "success"
  <2>1. WriteBack /\ entity = r /\ result = "success"
    BY <1>3 DEF TypeOK, Next, vars, Check, RequestStep, Reject, SaveExecQueue, SaveFails,
         SendEntity, SendFails, Compensate, CompensateFails, ConsumerStep, Take, Query,
         QueryFails, Skip, MarkRunning, Execute, ConnectFails, BailOut, WriteBack,
         WriteBackFails, Crash, SetStatus
  <2> QED
    BY <1>1, <2>1 DEF HolderInv, WriteBack, Done, Stage
<1> QED
  BY <1>2, <1>3

LEMMA AcceptedStep ==
  Base /\ AcceptedIsExecuted /\ [Next]_vars => AcceptedIsExecuted'
<1> SUFFICES ASSUME Base, AcceptedIsExecuted, [Next]_vars, Healthy',
                    NEW r \in accepted' \ overlapped', status'[r] \in Finished
             PROVE  executions'[r] = 1
  BY DEF AcceptedIsExecuted
<1> USE BusyHasRun, StillHealthy DEF Base
<1>1. r \in Runs /\ r \notin overlapped /\ TokenOf(r)
  <2>1. r \in Runs
    BY TypeStep DEF TypeOK
  <2>2. overlapped \subseteq overlapped'
    BY DEF Next, vars, Check, RequestStep, Reject, SaveExecQueue, SendEntity, SendFails,
         Compensate, ConsumerStep, Take, Query, Skip, MarkRunning, Execute, WriteBack,
         histVars
  <2> QED
    BY <2>1, <2>2 DEF TokenInv
<1>2. CASE status[r] \in Finished
  <2>1. r \in accepted
    <3> SUFFICES ASSUME r \notin accepted PROVE FALSE
      OBVIOUS
    <3>1. PICK q \in Reqs : SendEntity(q) /\ run[q] = r
      BY DEF Next, vars, Check, RequestStep, Reject, SaveExecQueue, SendEntity, SendFails,
             Compensate, ConsumerStep, Take, Query, Skip, MarkRunning, Execute, WriteBack,
             histVars
    <3>2. status[r] = "pending" \/ status[r] = "absent"
      BY <1>1, <3>1 DEF TokenOf
    <3> QED
      BY <1>2, <3>2 DEF Finished
  <2>2. executions[r] = 1
    BY <1>1, <1>2, <2>1 DEF AcceptedIsExecuted
  <2>3. entity # r
    BY <1>1, <1>2 DEF TokenOf, Finished
  <2>4. executions'[r] = executions[r]
    BY <1>1, <2>3 DEF TypeOK, Next, vars, Check, RequestStep, Reject, SaveExecQueue,
           SendEntity, SendFails, Compensate, ConsumerStep, Take, Query, Skip,
           MarkRunning, Execute, WriteBack, histVars
  <2> QED
    BY <2>2, <2>4
<1>3. CASE status[r] \notin Finished
  <2>1. \/ WriteBack /\ entity = r
        \/ \E q \in Reqs : Compensate(q) /\ run[q] = r
    BY <1>1, <1>3 DEF TypeOK, Next, vars, Check, RequestStep, Reject, SaveExecQueue,
           SendEntity, SendFails, Compensate, ConsumerStep, Take, Query, Skip,
           MarkRunning, Execute, WriteBack, SetStatus, Finished
  <2>2. CASE WriteBack /\ entity = r
    <3>1. executions[r] > 0 /\ executions[r] <= 1 /\ executions[r] \in Nat
      BY <1>1, <2>2 DEF TypeOK, HolderInv, TokenOf, Healthy, WriteBack, Done, Stage
    <3> QED
      BY <2>2, <3>1 DEF WriteBack, histVars
  <2>3. ASSUME NEW q \in Reqs, Compensate(q), run[q] = r PROVE FALSE
    BY <1>1, <2>3 DEF TokenOf, Compensate, histVars
  <2> QED
    BY <2>1, <2>2, <2>3
<1> QED
  BY <1>2, <1>3

LEMMA InitIndInv == Init => IndInv
<1> SUFFICES ASSUME Init PROVE IndInv
  OBVIOUS
<1>1. TypeOK
  BY DEF Init, TypeOK, Status, Finished
<1>2. HolderInv /\ AbsentInv
  BY DEF Init, HolderInv, AbsentInv, Queued
<1>3. TokenInv
  <2> SUFFICES ASSUME NEW r \in Runs PROVE TokenOf(r)
    BY DEF TokenInv
  <2>1. r # NoRun /\ entity = NoRun /\ (\A q \in Reqs : run[q] = NoRun)
    BY DEF Init
  <2>2. executions[r] = 0 /\ \A i \in 1..Len(ch) : FALSE
    BY DEF Init
  <2> QED
    BY <2>1, <2>2 DEF TokenOf, Queued, InFlight
<1>4. PendingIsAwaited /\ RunningIsExecuting /\ SuccessWasExecuted /\ AcceptedIsExecuted
  BY DEF Init, PendingIsAwaited, RunningIsExecuting, SuccessWasExecuted, AcceptedIsExecuted
<1> QED
  BY <1>1, <1>2, <1>3, <1>4 DEF IndInv

LEMMA IndStep == IndInv /\ [Next]_vars => IndInv'
<1> SUFFICES ASSUME IndInv, [Next]_vars PROVE IndInv'
  OBVIOUS
<1>1. Base /\ Unfailing /\ SuccessWasExecuted /\ AcceptedIsExecuted
  BY DEF IndInv, Base, Unfailing
<1>2. TypeOK' /\ HolderInv' /\ AbsentInv' /\ TokenInv'
  BY <1>1, TypeStep, HolderStep, AbsentStep, TokenStep DEF Base
<1>3. PendingIsAwaited' /\ RunningIsExecuting'
  BY <1>1, UnfailingStep DEF Base, Unfailing
<1>4. SuccessWasExecuted' /\ AcceptedIsExecuted'
  BY <1>1, SuccessStep, AcceptedStep DEF Base
<1> QED
  BY <1>2, <1>3, <1>4 DEF IndInv

LEMMA IndInvIsInductive == Spec => []IndInv
<1> QED
  BY InitIndInv, IndStep, PTL DEF Spec

(* Every variable keeps its type: the channel never holds more than its      *)
(* capacity (SendEntity's select), requests and the consumer stay in their   *)
(* stages.                                                                   *)
THEOREM TypeCorrect == Spec => []TypeOK
<1>1. IndInv => TypeOK
  BY DEF IndInv
<1> QED
  BY <1>1, IndInvIsInductive, PTL

(* The inductive invariant holds: without overlapping submissions a run_id   *)
(* is one token, held by one request, one channel slot or the consumer.      *)
THEOREM IndInvHolds == Spec => []IndInv
BY IndInvIsInductive

(* Whatever fails and whenever the process crashes, a run_id whose           *)
(* submissions do not overlap is executed at most once.                      *)
THEOREM ExecutedOnceHolds == Spec => []ExecutedOnce
<1>1. IndInv => ExecutedOnce
  BY DEF IndInv, TokenInv, TokenOf, ExecutedOnce
<1> QED
  BY <1>1, IndInvIsInductive, PTL

(* While nothing fails, somebody will still look at every pending row: the   *)
(* compensation of TestRun covers a full channel and a departed client, even *)
(* when submissions of the run_id race.                                      *)
THEOREM PendingIsAwaitedHolds == Spec => []PendingIsAwaited
<1>1. IndInv => PendingIsAwaited
  BY DEF IndInv
<1> QED
  BY <1>1, IndInvIsInductive, PTL

(* While nothing fails, a row says running only while the consumer works on  *)
(* it.                                                                       *)
THEOREM RunningIsExecutingHolds == Spec => []RunningIsExecuting
<1>1. IndInv => RunningIsExecuting
  BY DEF IndInv
<1> QED
  BY <1>1, IndInvIsInductive, PTL

(* A row that says success was executed, whatever failed on the way.         *)
THEOREM SuccessWasExecutedHolds == Spec => []SuccessWasExecuted
<1>1. IndInv => SuccessWasExecuted
  BY DEF IndInv
<1> QED
  BY <1>1, IndInvIsInductive, PTL

(* While nothing fails, an accepted run that is finished was executed.       *)
THEOREM AcceptedIsExecutedHolds == Spec => []AcceptedIsExecuted
<1>1. IndInv => AcceptedIsExecuted
  BY DEF IndInv
<1> QED
  BY <1>1, IndInvIsInductive, PTL

LEMMA FinalStep ==
  ASSUME Base, [Next]_vars, NEW r \in Runs \ overlapped', status[r] \in Finished
  PROVE  status'[r] = status[r]
<1> USE BusyHasRun DEF Base
<1>1. TokenOf(r)
  <2>1. overlapped \subseteq overlapped'
    BY DEF Next, vars, Check, RequestStep, Reject, SaveExecQueue, SaveFails,
         SendEntity, SendFails, Compensate, CompensateFails, ConsumerStep, Take, Query,
         QueryFails, Skip, MarkRunning, Execute, ConnectFails, BailOut, WriteBack,
         WriteBackFails, Crash, histVars
  <2> QED
    BY <2>1 DEF TokenInv
<1>2. entity # r /\ \A q \in Reqs : run[q] # r
  BY <1>1 DEF TokenOf, Finished
<1> QED
  BY <1>2 DEF TypeOK, Next, vars, Check, RequestStep, Reject, SaveExecQueue, SaveFails,
         SendEntity, SendFails, Compensate, CompensateFails, ConsumerStep, Take, Query,
         QueryFails, Skip, MarkRunning, Execute, ConnectFails, BailOut, WriteBack,
         WriteBackFails, Crash, SetStatus

(* The answer a client polls as finished never changes afterwards, whatever  *)
(* fails and whenever the process crashes, unless submissions overlapped.    *)
THEOREM FinishedIsFinalHolds == Spec => FinishedIsFinal
<1>1. IndInv /\ [Next]_vars =>
        [\A r \in Runs \ overlapped' :
           status[r] \in Finished => status'[r] = status[r]]_vars
  <2>1. IndInv => Base
    BY DEF IndInv, Base
  <2> QED
    BY <2>1, FinalStep
<1> QED
  BY <1>1, IndInvIsInductive, PTL DEF Spec, FinishedIsFinal

=============================================================================
