------------------------------ MODULE Workflow ------------------------------
(***************************************************************************)
(* The daily run: the cron of every process calls InstanceCreate, which      *)
(* stores the batch of the day (its graph is InstanceDepend's) and publishes  *)
(* the root instance to the delay queue, whose consumers call deal, at most   *)
(* MaxAttempts times a message (JobQueue).  The three calls of the database   *)
(* of InstanceCreate are separate, and nothing calls it again for the day.    *)
(***************************************************************************)
EXTENDS Integers

CONSTANTS
  Procs, Days,
  NodeIds,      \* the nodes of the canvas, ids of 36 characters
  Root,
  MaxAttempts,  \* 1 + max_retry
  None

Calls    == Procs \X Days
Instance == Calls \X NodeIds   \* of the batch a call makes; one for each node

VARIABLES
  step,     \* step[c]: idle, store, publish or over
  rows,     \* node_instance: [node, status] or None
  queue,    \* the message a call has published, or None
  raced,    \* history: calls that found no batch while another was to store one
  dropped,  \* history: calls whose commit failed
  lost      \* history: calls that stored a batch and ended without a message

workVars == <<step, rows, queue, raced, dropped, lost>>

Init ==
  /\ step = [c \in Calls |-> "idle"]
  /\ rows = [i \in Instance |-> None] /\ queue = [c \in Calls |-> None]
  /\ raced = {} /\ dropped = {} /\ lost = {}

Go(c, s) == step' = [step EXCEPT ![c] = s]

-----------------------------------------------------------------------------
\* InstanceCreate.

\* Mistake: an earlier batch is not looked for.
InstanceExistsNever(day) == FALSE
\* A row with this batch_id, the day.
InstanceExists(day) == \E i \in Instance : i[1][2] = day /\ rows[i] # None

\* The batch of the day is there.
Skip(c) ==
  /\ step[c] = "idle" /\ InstanceExists(c[2])
  /\ Go(c, "over") /\ UNCHANGED <<rows, queue, raced, dropped, lost>>

\* It is not; ListLines, Build and Parser go well.
Build(c) ==
  LET rivals == {o \in Calls : o[2] = c[2] /\ step[o] = "store"} IN
    /\ step[c] = "idle" /\ ~InstanceExists(c[2])
    /\ Go(c, "store")
    /\ raced' = raced \cup (IF rivals = {} THEN {} ELSE rivals \cup {c})
    /\ UNCHANGED <<rows, queue, dropped, lost>>

\* A call of the database or the parser of a cron expression fails; storing the batch
\* does whenever MySQL is in its strict mode: node_id has 32 characters.
Fails(c) ==
  /\ step[c] \in {"idle", "store"}
  /\ Go(c, "over") /\ UNCHANGED <<rows, queue, raced, dropped, lost>>

\* Otherwise it stores the first 32, which are the id of no node.
Column(n) == <<n>>

\* BatchCreateInstance: one transaction.
Commit(c) ==
  /\ step[c] = "store"
  /\ rows' = [i \in Instance |->
       IF i[1] = c THEN [node |-> Column(i[2]), status |-> "NotReady"] ELSE rows[i]]
  /\ Go(c, "publish") /\ UNCHANGED <<queue, raced, dropped, lost>>

\* tx.Commit fails in the deferred function: nobody is told.
CommitFails(c) ==
  /\ step[c] = "store"
  /\ dropped' = dropped \cup {c}
  /\ Go(c, "publish") /\ UNCHANGED <<rows, queue, raced, lost>>

\* The payload is JSON: the id in quotes, which is the id of no instance.
Marshal(id) == <<id>>

Publish(c) ==
  /\ step[c] = "publish"
  /\ queue' = [queue EXCEPT ![c] =
       [payload |-> Marshal(<<c, Root>>), attempts |-> 0, status |-> "pending"]]
  /\ Go(c, "over") /\ UNCHANGED <<rows, raced, dropped, lost>>

\* Publish returns an error, or the root node has no instance.
PublishFails(c) ==
  /\ step[c] = "publish"
  /\ lost' = lost \cup {c}
  /\ Go(c, "over") /\ UNCHANGED <<rows, queue, raced, dropped>>

\* The process dies; its cron does not fire for the day again.
Crash(p) ==
  LET now == {c \in Calls : c[1] = p /\ step[c] \in {"store", "publish"}} IN
    /\ now # {}
    /\ step' = [c \in Calls |-> IF c \in now THEN "over" ELSE step[c]]
    /\ lost' = lost \cup {c \in now : step[c] = "publish"}
    /\ UNCHANGED <<rows, queue, raced, dropped>>

-----------------------------------------------------------------------------
\* NodeRuntime.deal.

UpdateInstance(id, status) ==
  [i \in Instance |-> IF i = id THEN [rows[i] EXCEPT !.status = status] ELSE rows[i]]

\* InstanceRunningCount is not zero: another instance of the node is under way.
Running(id) ==
  \E cur, t \in Instance :
    /\ cur = id /\ t # cur /\ rows[cur] # None /\ rows[t] # None
    /\ rows[t].node = rows[cur].node /\ rows[t].status \in {"Waiting", "Running"}

\* preLoad: GetInstance and GetNode.
Loads(id) == \E i \in Instance : i = id /\ rows[i] # None /\ rows[i].node \in NodeIds

\* deal aborts an instance and returns nil; or it fails: on an id that is not found, or
\* on TryNextRows, whose condition "AND e1.ahead = ?" is no SQL.
deal(c) ==
  LET m == queue[c] IN
    /\ m # None /\ m.status = "pending"
    /\ rows' = IF Running(m.payload) THEN UpdateInstance(m.payload, "Abort")
               ELSE IF Loads(m.payload) THEN UpdateInstance(m.payload, "Success") ELSE rows
    /\ queue' = [queue EXCEPT ![c].attempts = @ + 1, ![c].status =
         IF Running(m.payload) THEN "success"
         ELSE IF m.attempts + 1 = MaxAttempts THEN "failed" ELSE "pending"]
    /\ UNCHANGED <<step, raced, dropped, lost>>

CallStep(c) ==
  \/ Skip(c) \/ Build(c) \/ Fails(c) \/ Commit(c) \/ CommitFails(c)
  \/ Publish(c) \/ PublishFails(c) \/ deal(c)

Next == (\E c \in Calls : CallStep(c)) \/ \E p \in Procs : Crash(p)
=============================================================================
