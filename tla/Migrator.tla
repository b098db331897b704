------------------------------ MODULE Migrator ------------------------------
(***************************************************************************)
(* Table migrations (service/migrate): Run registers a task under its       *)
(* run_id and starts execute, which starts one goroutine per primary key     *)
(* range; each reads its rows, and writes them in batches, one transaction  *)
(* per batch.  Stop takes the task from the registry, then its cancel       *)
(* function, then calls it.  One run_id is modelled; its n-th task is n.    *)
(* A serial run is one range.  The source table does not change.            *)
(***************************************************************************)
EXTENDS Naturals, FiniteSets

CONSTANTS
  Rows,       \* rows of the source table
  Chans,      \* ranges, and the goroutines reading them
  Part,       \* Part[c]: the rows in range c
  Batch,      \* BatchSize
  Stops,      \* requests to stop
  MaxRuns,    \* bound: tasks of the run_id
  MaxFaults   \* bound: failing database calls and crashes

ASSUME RowsAssumption  == IsFiniteSet(Rows)
\* splitPKRanges (module SplitRanges): every row is in one range.
ASSUME PartAssumption ==
  /\ Part \in [Chans -> SUBSET Rows]
  /\ \A r \in Rows : \E c \in Chans : r \in Part[c]
  /\ \A c, d \in Chans : c # d => Part[c] \cap Part[d] = {}
ASSUME BatchAssumption == Batch \in Nat \ {0}
ASSUME RunsAssumption  == MaxRuns \in Nat /\ MaxFaults \in Nat

VARIABLES
  current,  \* tasks[run_id]; 0: no entry
  status,   \* status of a task; "none" before Run, "lost" after a crash
  mpc,      \* where execute is
  hasCancel,\* task.cancel # nil
  ctx,      \* the task's context is cancelled
  verdict,  \* the status execute is about to set
  cpc,      \* where the goroutine of a range is
  todo,     \* its rows not read yet
  buf,      \* its rows read and not written
  nread, nwritten,  \* rowsRead, rowsWritten
  stored,   \* stored[g][r]: how often task g committed row r to the target
  spc,      \* where a Stop is
  sgen,     \* the task it found
  stopped,  \* history: tasks a Stop of which returned nil
  faults

taskVars == <<current, status, mpc, hasCancel, verdict>>
chanVars == <<cpc, todo, buf, nread, nwritten, stored>>
stopVars == <<spc, sgen, stopped>>
vars     == <<current, status, mpc, hasCancel, verdict, ctx, cpc, todo, buf,
              nread, nwritten, stored, spc, sgen, stopped, faults>>

Gens   == 1..MaxRuns
Ended  == {"success", "failed", "canceled"}

(* read: in the loop over the rows      begin: a batch is to be written      *)
(* commit: its statement ran           count: committed, not counted yet    *)
ChanPCs == {"off", "read", "begin", "commit", "count", "ok", "failed"}

TypeOK ==
  /\ current \in 0..MaxRuns
  /\ status \in [Gens -> {"none", "running", "lost"} \cup Ended]
  /\ mpc \in [Gens -> {"off", "spawned", "started", "waiting", "judged"}]
  /\ hasCancel \in [Gens -> BOOLEAN] /\ ctx \in [Gens -> BOOLEAN]
  /\ verdict \in [Gens -> Ended]
  /\ cpc \in [Gens -> [Chans -> ChanPCs]]
  /\ todo \in [Gens -> [Chans -> SUBSET Rows]]
  /\ buf \in [Gens -> [Chans -> SUBSET Rows]]
  /\ nread \in [Gens -> Nat] /\ nwritten \in [Gens -> Nat]
  /\ stored \in [Gens -> [Rows -> Nat]]
  /\ spc \in [Stops -> {"idle", "found", "cancel"}]
  /\ sgen \in [Stops -> 0..MaxRuns]
  /\ \A s \in Stops : spc[s] = "cancel" => sgen[s] \in Gens
  /\ stopped \subseteq Gens
  /\ faults \in 0..MaxFaults

Init ==
  /\ current = 0
  /\ status = [g \in Gens |-> "none"]
  /\ mpc = [g \in Gens |-> "off"]
  /\ hasCancel = [g \in Gens |-> FALSE] /\ ctx = [g \in Gens |-> FALSE]
  /\ verdict = [g \in Gens |-> "success"]
  /\ cpc = [g \in Gens |-> [c \in Chans |-> "off"]]
  /\ todo = [g \in Gens |-> [c \in Chans |-> {}]]
  /\ buf = [g \in Gens |-> [c \in Chans |-> {}]]
  /\ nread = [g \in Gens |-> 0] /\ nwritten = [g \in Gens |-> 0]
  /\ stored = [g \in Gens |-> [r \in Rows |-> 0]]
  /\ spc = [s \in Stops |-> "idle"] /\ sgen = [s \in Stops |-> 0]
  /\ stopped = {} /\ faults = 0

Fault == faults < MaxFaults /\ faults' = faults + 1

-----------------------------------------------------------------------------
(* Migrator.Run: refused while the task of this run_id is running.          *)
Running(g) == g # 0 /\ status[g] = "running"

Run(g) ==
  /\ ~Running(current)
  /\ status[g] = "none" /\ \A h \in Gens : h < g => status[h] # "none"
  /\ current' = g
  /\ status' = [status EXCEPT ![g] = "running"]
  /\ mpc' = [mpc EXCEPT ![g] = "spawned"]
  /\ UNCHANGED <<hasCancel, verdict, ctx, chanVars, stopVars, faults>>

-----------------------------------------------------------------------------
(* execute and run.                                                         *)

Advance(g, from, to) == mpc[g] = from /\ mpc' = [mpc EXCEPT ![g] = to]

InstallCancel(g) ==
  /\ Advance(g, "spawned", "started")
  /\ hasCancel' = [hasCancel EXCEPT ![g] = TRUE]
  /\ UNCHANGED <<current, status, verdict, ctx, chanVars, stopVars, faults>>

\* The connections, the columns, the target table and the ranges are there.
StartChannels(g) ==
  /\ Advance(g, "started", "waiting")
  /\ cpc'  = [cpc EXCEPT ![g] = [c \in Chans |-> "read"]]
  /\ todo' = [todo EXCEPT ![g] = Part]
  /\ UNCHANGED <<current, status, hasCancel, verdict, ctx, buf, nread, nwritten,
                 stored, stopVars, faults>>

Verdict(g, failed) ==
  IF ~failed THEN "success" ELSE IF ctx[g] THEN "canceled" ELSE "failed"

SetupFails(g) ==
  /\ Advance(g, "started", "judged")
  /\ \/ ctx[g] /\ UNCHANGED faults
     \/ Fault
  /\ verdict' = [verdict EXCEPT ![g] = Verdict(g, TRUE)]
  /\ UNCHANGED <<current, status, hasCancel, ctx, chanVars, stopVars>>

\* Mistake: no wg.Wait.
JudgeEarly(g) ==
  /\ Advance(g, "waiting", "judged")
  /\ verdict' = [verdict EXCEPT ![g] =
                   Verdict(g, \E c \in Chans : cpc[g][c] = "failed")]
  /\ UNCHANGED <<current, status, hasCancel, ctx, chanVars, stopVars, faults>>

\* wg.Wait: every goroutine has returned.
Judge(g) ==
  /\ Advance(g, "waiting", "judged")
  /\ \A c \in Chans : cpc[g][c] \in {"ok", "failed"}
  /\ verdict' = [verdict EXCEPT ![g] =
                   Verdict(g, \E c \in Chans : cpc[g][c] = "failed")]
  /\ UNCHANGED <<current, status, hasCancel, ctx, chanVars, stopVars, faults>>

\* The deferred calls: the status first, then cancel.  Nothing reads the context
\* of a task whose goroutines have ended, so they are one step.
SetStatus(g) ==
  /\ Advance(g, "judged", "off")
  /\ status' = [status EXCEPT ![g] = verdict[g]]
  /\ ctx' = [ctx EXCEPT ![g] = TRUE]
  /\ UNCHANGED <<current, hasCancel, verdict, chanVars, stopVars, faults>>

-----------------------------------------------------------------------------
(* runSerial and writeBatch, for one range.                                 *)

Step(g, c, from, to) == cpc[g][c] = from /\ cpc' = [cpc EXCEPT ![g][c] = to]

ReadRow(g, c) ==
  /\ ~ctx[g]
  /\ \E r \in todo[g][c] :
       /\ todo' = [todo EXCEPT ![g][c] = @ \ {r}]
       /\ buf'  = [buf EXCEPT ![g][c] = @ \cup {r}]
       /\ Step(g, c, "read",
               IF Cardinality(buf[g][c]) + 1 >= Batch THEN "begin" ELSE "read")
  /\ nread' = [nread EXCEPT ![g] = @ + 1]
  /\ UNCHANGED <<taskVars, ctx, nwritten, stored, stopVars, faults>>

\* Mistake: the last batch is written only if it is full.
EndOfRowsDrops(g, c) ==
  /\ todo[g][c] = {}
  /\ Step(g, c, "read", "ok")
  /\ UNCHANGED <<taskVars, ctx, todo, buf, nread, nwritten, stored, stopVars, faults>>

EndOfRows(g, c) ==
  /\ todo[g][c] = {}
  /\ Step(g, c, "read", IF buf[g][c] = {} THEN "ok" ELSE "begin")
  /\ UNCHANGED <<taskVars, ctx, todo, buf, nread, nwritten, stored, stopVars, faults>>

\* Mistake: the rows are counted before they are committed.
WriteCounts(g, c) ==
  /\ ~ctx[g]
  /\ Step(g, c, "begin", "commit")
  /\ nwritten' = [nwritten EXCEPT ![g] = @ + Cardinality(buf[g][c])]
  /\ UNCHANGED <<taskVars, ctx, todo, buf, nread, stored, stopVars, faults>>

\* BeginTx, ExecContext, and the look at the context at the start of Commit.
Write(g, c) ==
  /\ ~ctx[g]
  /\ Step(g, c, "begin", "commit")
  /\ UNCHANGED <<taskVars, ctx, todo, buf, nread, nwritten, stored, stopVars, faults>>

Apply(g, c) ==
  stored' = [stored EXCEPT ![g] =
               [r \in Rows |-> @[r] + IF r \in buf[g][c] THEN 1 ELSE 0]]

Commit(g, c) ==
  /\ Step(g, c, "commit", "count")
  /\ Apply(g, c)
  /\ UNCHANGED <<taskVars, ctx, todo, buf, nread, nwritten, stopVars, faults>>

Count(g, c) ==
  /\ Step(g, c, "count", "read")
  /\ nwritten' = [nwritten EXCEPT ![g] = @ + Cardinality(buf[g][c])]
  /\ buf' = [buf EXCEPT ![g][c] = {}]
  /\ UNCHANGED <<taskVars, ctx, todo, nread, stored, stopVars, faults>>

\* Mistake: no wg.Done.
ChannelVanishes(g, c) ==
  /\ cpc[g][c] \in {"read", "begin", "commit"}
  /\ \/ ctx[g] /\ UNCHANGED faults
     \/ Fault
  /\ cpc' = [cpc EXCEPT ![g][c] = "off"]
  /\ UNCHANGED <<taskVars, ctx, todo, buf, nread, nwritten, stored, stopVars>>

\* A call fails, or sees the cancelled context; an open transaction rolls back.
ChannelFails(g, c) ==
  /\ cpc[g][c] \in {"read", "begin", "commit"}
  /\ \/ ctx[g] /\ UNCHANGED faults
     \/ Fault
  /\ cpc' = [cpc EXCEPT ![g][c] = "failed"]
  /\ UNCHANGED <<taskVars, ctx, todo, buf, nread, nwritten, stored, stopVars>>

\* The COMMIT is applied, its answer lost.
CommitUnknown(g, c) ==
  /\ Fault
  /\ Step(g, c, "commit", "failed")
  /\ Apply(g, c)
  /\ UNCHANGED <<taskVars, ctx, todo, buf, nread, nwritten, stopVars>>

-----------------------------------------------------------------------------
(* Migrator.Stop.                                                           *)

FindTask(s) ==
  /\ current # 0
  /\ spc[s] = "idle" /\ spc' = [spc EXCEPT ![s] = "found"]
  /\ sgen' = [sgen EXCEPT ![s] = current]
  /\ UNCHANGED <<taskVars, ctx, chanVars, stopped, faults>>

StopAnswers(s) == spc' = [spc EXCEPT ![s] = "idle"] /\ sgen' = [sgen EXCEPT ![s] = 0]

\* ErrTaskFinished.
StopTooLate(s) ==
  /\ spc[s] = "found" /\ ~Running(sgen[s])
  /\ StopAnswers(s)
  /\ UNCHANGED <<taskVars, ctx, chanVars, stopped, faults>>

\* cancel was nil when it was read: Stop returns nil.
StopNothing(s) ==
  /\ spc[s] = "found" /\ Running(sgen[s]) /\ ~hasCancel[sgen[s]]
  /\ StopAnswers(s)
  /\ stopped' = stopped \cup {sgen[s]}
  /\ UNCHANGED <<taskVars, ctx, chanVars, faults>>

TakeCancel(s) ==
  /\ spc[s] = "found" /\ Running(sgen[s]) /\ hasCancel[sgen[s]]
  /\ spc' = [spc EXCEPT ![s] = "cancel"]
  /\ UNCHANGED <<taskVars, ctx, chanVars, sgen, stopped, faults>>

\* Mistake: Stop sets the status itself.
CallCancelMarks(s) ==
  /\ spc[s] = "cancel"
  /\ ctx' = [ctx EXCEPT ![sgen[s]] = TRUE]
  /\ status' = [status EXCEPT ![sgen[s]] = "canceled"]
  /\ StopAnswers(s)
  /\ stopped' = stopped \cup {sgen[s]}
  /\ UNCHANGED <<current, mpc, hasCancel, verdict, chanVars, faults>>

CallCancel(s) ==
  /\ spc[s] = "cancel"
  /\ ctx' = [ctx EXCEPT ![sgen[s]] = TRUE]
  /\ StopAnswers(s)
  /\ stopped' = stopped \cup {sgen[s]}
  /\ UNCHANGED <<taskVars, chanVars, faults>>

-----------------------------------------------------------------------------
\* The process dies and starts again: registry and goroutines are gone.
Crash ==
  /\ Fault
  /\ current' = 0
  /\ status' = [g \in Gens |-> IF status[g] = "none" THEN "none" ELSE "lost"]
  /\ mpc' = [g \in Gens |-> "off"]
  /\ cpc' = [g \in Gens |-> [c \in Chans |-> "off"]]
  /\ spc' = [s \in Stops |-> "idle"] /\ sgen' = [s \in Stops |-> 0]
  /\ UNCHANGED <<hasCancel, verdict, ctx, todo, buf, nread, nwritten, stored, stopped>>

Execute(g) ==
  InstallCancel(g) \/ StartChannels(g) \/ SetupFails(g) \/ Judge(g) \/ SetStatus(g)

Channel(g, c) ==
  \/ ReadRow(g, c) \/ EndOfRows(g, c) \/ Write(g, c) \/ Commit(g, c) \/ Count(g, c)
  \/ ChannelFails(g, c) \/ CommitUnknown(g, c)

Stop(s) ==
  FindTask(s) \/ StopTooLate(s) \/ StopNothing(s) \/ TakeCancel(s) \/ CallCancel(s)

Next ==
  \/ \E g \in Gens : Run(g) \/ Execute(g) \/ \E c \in Chans : Channel(g, c)
  \/ \E s \in Stops : Stop(s)
  \/ Crash

(* The goroutines of a task are scheduled and their database calls return.   *)
Fairness ==
  /\ \A g \in Gens : WF_vars(Execute(g))
  /\ \A g \in Gens, c \in Chans : WF_vars(Channel(g, c))

Spec     == Init /\ [][Next]_vars
FairSpec == Spec /\ Fairness

-----------------------------------------------------------------------------
(* Safety.                                                                  *)

(* A migration is reported as success only if it has committed every row of  *)
(* the source to the target, once.                                           *)
SuccessIsComplete ==
  \A g \in Gens : status[g] = "success" => \A r \in Rows : stored[g][r] = 1

(* One task never commits a row twice: no retry, no row in two ranges.       *)
OnceEach == \A g \in Gens, r \in Rows : stored[g][r] <= 1

(* The counters never claim a row that is not committed, and a task that     *)
(* ended without a failed call counted every row that is; success counts all. *)
StoredRows(g) == {r \in Rows : stored[g][r] # 0}
Committed(g)  == Cardinality(StoredRows(g))

CountsHonest ==
  \A g \in Gens :
    /\ nwritten[g] <= Committed(g) /\ Committed(g) <= nread[g]
    /\ status[g] \in Ended /\ faults = 0 => nwritten[g] = Committed(g)
    /\ status[g] = "success" => nwritten[g] = Cardinality(Rows) /\ nread[g] = nwritten[g]

(* Tasks of one run_id never overlap: only the registered task, while it is  *)
(* running, has a goroutine that reads or writes.  So an answer "success" or *)
(* "canceled" is not followed by more writes, and a new Run finds none.      *)
Live(g) == \E c \in Chans : cpc[g][c] \in {"read", "begin", "commit", "count"}

OnlyCurrentLive == \A g \in Gens : Live(g) => current = g /\ status[g] = "running"

(* A batch is committed whole: while a task runs or after it, the rows of a   *)
(* range that are not committed are the rows not read and the rows buffered.  *)
WholeBatches ==
  \A g \in Gens, c \in Chans :
    cpc[g][c] \in {"read", "begin", "ok"} =>
      {r \in Part[c] : stored[g][r] = 0} = todo[g][c] \cup buf[g][c]

(* A status that a client has seen as final stays, until the process dies.   *)
EndIsFinal ==
  [][\A g \in Gens : status[g] \in Ended => status'[g] \in {status[g], "lost"}]_vars

(* Liveness: every task ends, unless the process dies.                       *)
EveryTaskEnds == \A g \in Gens : status[g] = "running" ~> status[g] # "running"

(* What comments in the code say and it does not do.                         *)

(* A Stop that returned nil has cancelled the task's context.                *)
StopCancels == \A g \in stopped : ctx[g]

(* A range that fails while others are at work cancels them: the context is   *)
(* cancelled before execute has waited for all of them, unless the process    *)
(* dies.  (Once all have ended, execute cancels it in any case.)              *)
FailureCancelsAll ==
  \A g \in Gens :
    (\E c \in Chans : cpc[g][c] = "failed") /\ Live(g)
      ~> (ctx[g] /\ mpc[g] = "waiting") \/ status[g] = "lost"

(* The inductive invariant behind SuccessIsComplete, OnceEach,               *)
(* OnlyCurrentLive and WholeBatches.                                         *)
RowsOf(g, c) ==
  LET live == cpc[g][c] \in {"read", "begin", "commit", "count", "ok"} IN
  /\ todo[g][c] \cup buf[g][c] \subseteq Part[c]
  /\ todo[g][c] \cap buf[g][c] = {}
  /\ \A r \in Part[c] :
       /\ stored[g][r] <= 1
       /\ live /\ r \notin todo[g][c] \cup buf[g][c] => stored[g][r] = 1
       /\ live /\ r \in todo[g][c] => stored[g][r] = 0
       /\ r \in buf[g][c] /\ cpc[g][c] \in {"read", "begin", "commit"}
            => stored[g][r] = 0
       /\ r \in buf[g][c] /\ cpc[g][c] = "count" => stored[g][r] = 1
  /\ cpc[g][c] = "ok" => todo[g][c] = {} /\ buf[g][c] = {}

RowsOK == \A g \in Gens, c \in Chans : RowsOf(g, c)

PhaseOf(g) ==
  /\ mpc[g] # "off" => current = g /\ status[g] = "running"
  /\ status[g] = "running" => current = g
  /\ Live(g) => mpc[g] = "waiting"
  /\ mpc[g] \in {"spawned", "started"} \/ status[g] = "none" =>
       /\ \A c \in Chans : cpc[g][c] = "off" /\ buf[g][c] = {}
       /\ \A r \in Rows : stored[g][r] = 0
  /\ (mpc[g] = "judged" /\ verdict[g] = "success") \/ status[g] = "success" =>
       \A r \in Rows : stored[g][r] = 1

PhasesOK == \A g \in Gens : PhaseOf(g)

IndInv == TypeOK /\ RowsOK /\ PhasesOK
=============================================================================
