# A TLA+ verification project for myGinServer

myGinServer is a multi-tenant web server in Go whose own logic is a workflow
scheduler: users draw nodes and lines on a canvas, test single nodes, migrate
tables between databases, and every night the canvas is instantiated and its
root is put into a delay queue kept in MySQL. This directory models the parts of
it that run concurrently or compute something that is easy to get wrong, checks
them with TLC on small instances, and proves the safety properties with TLAPS for
every value of the constants.

`PROJECT.json` lists components, runs, mutants, hazards, findings and theorems,
and maps every definition to the lines it models. All source paths below are
relative to `src/`.

## 1. The system

| Part | State | Operations | Interacts with |
|---|---|---|---|
| Delay queue `internal/store/delayqueue` | rows of `delay_queue`; the handlers map and four workers of each process | `Publish`, `PublishTx`, `Register`, `StartWorkers`, `drain`, `fetchOne`, `processOne`, `handleRetry`, `markFailed` | started by `NewDispatchController`; `NodeServer.InstanceCreate` and the node runtime publish, the node runtime handles |
| Test runs `service/dispatchserver/{node_server,dispatch,shell}.go` | rows of `exec_queue`; a channel of 100 entities; one consumer goroutine | `TestRun`, `SendEntity`, `Dispatch`, `runSQL`, `runShell`, `QueryTestResult` | the data sources, a remote shell |
| Canvas lines `node_server.go`, `graph.go`, `internal/store/dispatch` | rows of `line` | `SaveLine`, `DeleteLine`, `ListLines`, `Graph` | the cycle check; DAG instantiation reads the lines |
| Canvas nodes | rows of `nodes` | `SaveNode`, `DeleteNode`, `GetNode` | DAG instantiation reads them |
| Table migrations `service/migrate` | the registry `tasks`; one goroutine per task, one per key range; the target table | `Run`, `Stop`, `Status`, `execute`, `run`, `runParallel`, `runSerial`, `writeBatch`, `splitPKRanges` | source and target database |
| DAG instantiation `dag.go`, `dispatch.go` | the in-memory graph, then rows of `node_instance` and `instance_line` | `InstanceCreate`, `Build`, `Parser`, `CreateInstance`, `BuildInstanceDepend`, `batchCreateInstance` | called by the nightly cron of every process; publishes the root |
| Node runtime `internal/workflow/node_runtime.go` | rows of `node_instance` | `deal` (the delay queue's handler) | publishes the downstream instances |
| Tenant databases `pkg/saas_db`, `pkg/tenantctx`, `tool/tenant_middleware.go` | one pool per database under a mutex; the context of a request | `TenantMiddleware`, `GetDB`, `CreateEngine` | every request on nodes, lines, data sources and runs |
| Data sources, migration config `datasource.go`, `migrate_config.go` | rows of `datasource` | `SaveDatasource`, `ListDatasource`, `MetaTables`, `MetaColumns`, `MigrateConfigFromNode` | `GetDB`; the migrations |
| Accounts `service/userserver`, `controller/user_controller.go`, `tool/jwt_auth.go` | rows of `users`; tokens | registration, login, profile, password, administration | `RequireAdmin` in front of administration |
| Timing wheel `utils/timewheel` | slots with a mutex each, a map of tasks, a channel, workers | `AddTask`, `Cancel`, `Stop`, `run`, `Execute`, `startConsumer` | callbacks call the wheel; used by tests |
| etcd utilities `internal/etcd` | sessions and keys in etcd; `isLeader` | `TaskScheduler`, `LeaderElection`, `DistributedLock`; discovery, configuration | etcd sessions |
| Rate limiter `utils/distributed_rate_limiter.go` | one Redis hash | `Allow`, which runs a script | Redis |
| Weighted balancer `utils/grpc-helloworld/resolver` | weights of a picker | `Build`, `Pick` | gRPC |
| Graph `utils/graph.go` | nodes and edges | `AddNode`, `AddEdge`, `CheckDAG`, `GetCycle` | used by tests |
| Chat, articles, tasks, objects, adapters | - | single requests | - |

### What is hard

* Workers of several processes race for the rows of one table; a process dies, or
  the answer of a commit is lost, between the claim of a row and its outcome;
  outcomes are written without a condition on the row and their errors dropped.
* A test run lives in two places, a row and a channel, that are updated by two
  calls; either can fail, and a restart empties only the channel.
* `SaveLine` checks a list that other requests change before it writes.
* A migration is a task, its range goroutines and any number of `Stop` requests on
  one registry entry; transactions are committed while the context is cancelled.
* Two indices run backwards over two lists; a range of 64-bit keys is divided.
* The cron of every process instantiates the same day; the batch, its check and
  the message of its root are three calls.
* A check and the write it is for are two calls on accounts, too, and the role of an
  administrator is read before the handler runs.
* The wheel reads its position and its map of tasks without a lock, hands tasks to a
  bounded channel under a mutex, and callbacks need that mutex.
* A lease ends in etcd and in its client at different times; calls fail after they
  have had their effect.
* A script runs later than the clock that was read for it.

`hazards` in `PROJECT.json` lists each of these at the line where it bites, with
the properties that catch it.

## 2. Modules

| Module | Models | State and actions |
|---|---|---|
| `JobQueue` | what the delay queue promises | a job is new, ready, taken, done or dead; workers take, complete, put back, give up, drop |
| `DelayQueue` | the table and the workers of all processes | `status`, `wait`, `retry` are the row's columns; `pc[w]` is the place of worker `w` between two database calls; one action per call of `fetchOne` and `processOne` |
| `ExecQueue` | `exec_queue`, the channel, requests and the consumer | `status` is the row's column, `ch` the channel, `rpc`/`cpc` the places of the requests and of the consumer goroutine |
| `Lines` | `line` and overlapping `SaveLine` requests | `rows`, `ends`, `deleted` are the table; `Accept` is `ListLines` and the check, `Store` the upsert |
| `CycleCheck` | the breadth first search of `wouldCreateCycleLocked` | one action per turn of either loop |
| `Reachability` | the graph `NewGraph` builds | `Reach`, `Acyclic` by closed sets, so that they can be reasoned about |
| `Migrator` | registry, tasks, range goroutines, `Stop` | `mpc`, `cpc`, `spc` are the places of `execute`, of the range goroutines and of the stops; `stored` is the target table |
| `SplitRanges` | `splitPKRanges` with integers that wrap | one action per turn of its loop |
| `InstanceDepend` | `Build`, `CreateInstance`, `BuildInstanceDepend` | Init chooses a canvas and a day; one action per turn of the two-pointer loop |
| `Workflow` | `InstanceCreate` in every process, the batch, the root's message, `deal` | `step[c]` is the place of a call between its database calls, `rows` is `node_instance`, `queue` the messages |
| `Accounts` | `users`, tokens, and the requests that work on them | `req[r]` is a request between its check and its write; one handler per route, one action per store call that writes |
| `TenantRouting` | the middleware, the context, the services as lists of store calls, `GetDB`, the store | `req[r].place` is before `GetDB`, dialling, or with a pool; `rows[db]` are nodes and data sources with the tenant they were saved for |
| `TimingWheel` | the wheel, its slot goroutines, workers and callers | `jobs` are started slot goroutines, `lock` the mutexes, `consumer` the channel, `call[c]` the place of a caller in `AddTask` or `Cancel` |
| `EtcdSession` | leases, sessions and ordered keys of etcd (external) | `lease` is the server's view, `done` the client's; `older[s]` are the keys before the one of `s` |
| `Election` | `TaskScheduler` (`Retry`) and `LeaderElection` | `pc[s]` is the place of the campaign goroutine, `stop[s]` how far `Stop` has come |
| `EtcdLock` | `TryLock`, `Unlock` | `pc[s]` is the place of the caller |
| `RateLimiter` | `Allow` and its script | `asked` is the time a caller read, `bucket` the hash and when it expires |
| `Balancer` | `Build`, `Pick` | `current` are the dynamic weights; `picks` counts for the property; `AddUp` is the loop that adds up weights |
| `GraphUtil` | the graph of `utils` | `edges` are the lists of successors; `Sorted` is Kahn's loop |
| `Requests` | composes `InstanceDepend`, `Workflow`, `Accounts`, `TenantRouting` | `part` says which one a behaviour is of |
| `Utilities` | composes `SplitRanges`, `TimingWheel`, `Balancer`, `RateLimiter`, `GraphUtil` | the same |
| `Etcd` | composes `Election` (twice) and `EtcdLock` over one `EtcdSession` | the same |
| `Services` | composes `Migrator`, `Etcd`, `CycleCheck`, with their fairness | `service` says which one a behaviour is of; the others rest in a state in which they have nothing to do |
| `MC*` | instances for TLC | partitions, homes of workers, symmetry |
| `*Proofs` | the theorems | see section 5 |

How they fit together: `DelayQueue` refines `JobQueue`. `Lines` uses as one step
the answer that `CycleCheck` is proved to compute: `WouldCreateCycle(E, head,
tail)` is true exactly when `CycleCheck` ends with "cycle"; both share
`Reachability`. `Migrator` assumes of its ranges (`PartAssumption`) what
`SplitRanges` is proved to deliver (`PartitionBelowMax`, `RangesMakeParts`). `InstanceDepend` takes
any canvas, also cyclic ones, so it does not rest on `Lines`. `Workflow` stores the
batch `InstanceDepend` computes and gives its messages to a queue that keeps
`JobQueue`'s promise: a message is handled at most `MaxAttempts` times and ends.
`Requests`, `Utilities` and `Services` hold components that share no variable, `Etcd`
three uses of the same sessions: a behaviour runs one of them, so that a run covers several
without the product of their states, and a theorem about the composition is one
about each of them.

Operators whose comment begins with "Mistake" are no part of any specification.
Each is a plausible bug in the definition that follows it, and `mutants` in
`PROJECT.json` says which property TLC finds violated when the definition is
replaced by it: every property of every passing run can be broken by such a bug.

### Abstractions

* **Delay queue.** Topic and payload only decide whether a handler exists. Time is
  kept relative (`wait = execute_time - now`, in seconds of backoff) and is told
  apart down to `-MaxLag`. A handler is any function that returns nil or an error.
  The topic's handler is looked up in the process of the worker.
* **Test runs.** The content of a run is executed or not. `runSQL` and `runShell`
  differ where their control differs: a shell that cannot connect writes "failed",
  a SQL run that cannot bails out without writing. A save that meets the row of
  another request rewrites all its columns.
* **Lines.** A line is its id and its pair of nodes. The upsert follows GORM's
  `Save` on a table with two unique keys. What a request saw of the table matters
  only through the answer of the check.
* **Migrations.** One run_id; tasks of different run_ids share nothing. The order
  of the rows within a range is free. DDL and column handling are one step that
  succeeds or fails. `Committed` counts the rows that were stored, not how often: the
  same number, because no row is committed twice (`OnceEach`, proved).
* **Instances.** Firings are integers, ascending, at least one per node: a node
  without a firing gets one dry-run instance. The result is the map of dependencies in
  memory; the columns of `instance_line`, of 32 characters like those of the batch, are
  not modelled.

* **Daily run.** The graph and the times of a batch are left out: a batch is one
  instance per node. The payload of a message and the column `node_id` are modelled by
  what becomes of an id in them. In strict SQL mode (the default of MySQL) the insert
  always fails, which is the action `Fails`; `Commit` is what happens otherwise.
* **Accounts.** A hash only compares. Reads that change nothing are left out, as are
  nickname, phone number and avatar. A user who administers acts while a token lives.
* **Tenants.** A service is the list of store calls it makes with the project of each;
  what is in a row is the tenant it was saved for. Lines and test runs take the same
  way to their database and are left to their own modules. Dialling takes one step.
  `opened` counts the pools of `GetDB`; connections to data sources are not counted.
* **Wheel.** Time is counted in ticks modulo a horizon; an element remembers the tick
  `AddTask` computed as long as no race makes it meaningless. The pool of tasks is
  left out: no task is used after it was put back. After the process has panicked
  (a third `Stop`, a send on a closed channel) nothing happens any more.
* **etcd.** A session has one key; the order of keys is that of creation; the server
  answers each call at once, fails it with or without its effect, or ends a lease.
* **Limiter.** Tokens are counted in integer parts, so that what flows in per tick is
  one part.

## 3. Runs

| Run | Result | What it shows |
|---|---|---|
| `DelayQueue` | passes | no two owners, never a stale copy, no premature failure, outcomes final, never early; every message settles or is stranded by a fault; implements `JobQueue` |
| `ExecQueue` | passes | a pending row is awaited, a running one is being executed; a run_id that was not submitted twice at a time is executed at most once and its result final; every row ends while nothing fails |
| `ExecQueueStuck` | violation | one failed call in `runSQL` leaves an accepted run unfinished for ever |
| `Lines` | passes | cycles need a request that wrote over a line it had not seen; pairs stay unique; saved lines are shown |
| `LinesRefuse` | violation | a deleted line still refuses others |
| `Services` | passes | (module `MCServices`) a migration that says success wrote all rows once; tasks do not overlap; counters honest; ends final; every task ends. Of the leaders, and of the owners of the mutex, at most one has its key; `Stop` returns; while a candidate has a live lease, a leader is found again. The search for cycles answers right and ends |
| `MigratorStop` | violation | an early `Stop` returns nil and cancels nothing |
| `MigratorFailure` | violation | a failed range does not cancel the others: the context is cancelled only when all of them have ended |
| `SplitRanges` | passes | (module `MCUtilities`, parts of `Utilities`) ranges partition the keys and are fair; a task in the wheel can be cancelled, is handed over at its tick, and the wheel goes on until it is stopped; picks follow the weights; the limiter keeps its budget; the graph stays acyclic and says so |
| `InstanceDepend` | passes | (module `MCRequests`, parts of `Requests`) every instance waits for exactly the right upstream instances; a day has one batch, and the batch one message; the last administrator stays; passwords are changed by who knows them; a request behind the middleware reaches the database of its tenant, in which nothing of another one is, and for which `GetDB` opens one pool |
| `MigrateTenant` | violation | a migration takes its node from the configured database, not from that of the tenant it is run for |
| `EtcdRejoin` | violation | a scheduler whose lease was lost never has a key again |

### Bounds

Type correctness and the inductive invariants are proved (section 5), not listed in
the runs.

* `DelayQueue`: two workers in one process and one in another reach every race of
  a claim (within a process and across); one message with and one without a
  handler; two faults allow a fault during the recovery from a fault. `MaxRetry =
  2` has a first, a middle and a last attempt; delays 0 and 1 and `MaxLag = 1`
  tell due, overdue and early apart. A handler takes any time, so a backoff of 4
  ticks passes while other workers act.
* `ExecQueue`: two requests and a channel of one: full channel, racing submissions
  of one run_id and of two; three submissions allow a repetition after the first
  two raced; one SQL and one shell run; two faults and a crash combine.
* `CycleCheck`: three nodes have self loops, two-cycles and triangles; a node is
  queued twice only where two paths meet on the way from the tail, which takes the
  four nodes and edges of the other graphs (which have no loops). The proof covers any
  graph.
* `Lines`: three nodes and three ids close cycles of three lines, and with two
  requests a row is met by id, by pair, by both, and while another save runs.
* `Migrator`: two tasks (restart and re-submission), ranges of two and one rows
  with batches of two (a full and a partial batch), a stop, a fault.
* `SplitRanges`: all bounds of a five-bit integer, so wide ranges wrap; up to five
  channels, more than there are keys in small ranges.
* `InstanceDepend`: three nodes with at most two lines have every shape of one
  upstream, two upstreams, chains and two-cycles; up to three firings out of three
  instants cover earlier, equal and later upstream firings at both ends.
* `Workflow`: three processes that call for one day: two overlap and a third comes
  after, or while one of them fails, dies or loses its commit. Days share nothing.
* `Accounts`: two users, two names, emails and passwords, two requests at a time: what
  must be unique is met by the other user and by the same, and a check of either
  request is followed by a write of the other.
* `TenantRouting`: two databases, two requests at a time, one user who is a member of
  none, one or both; one node and one data source besides the ODS one. `MigrateTenant`
  is the same instance.
* `TimingWheel`: two slots and three `AddTask` calls for one id put two elements of it
  into one list or into both; a client and a callback call at the same time; the
  channel has room for one; a slot goroutine or a call may be late by a tick, and the
  horizon of four ticks tells apart whatever is not later than that.
* `Etcd`: three nodes have a leader, one that waits and one that waits behind it; two
  faults are a lost lease and a failed call, or two of either. One node is stopped.
  `EtcdRejoin`: the one that loses its lease, and one that keeps it.
* `RateLimiter`: a bucket of two tokens that takes two seconds to fill, seven ticks,
  two callers whose scripts run up to a second late. `Balancer`: up to three
  connections, weights from absent and negative to four, nine picks.
  `GraphUtil`: four nodes, four edges, parallel ones included.

`CHECK_DEADLOCK FALSE` is used where the system may come to rest: the bounded
number of submissions is used up, the search or the loop has ended, no line can be
changed. `DelayQueue` is checked for deadlock; its clock always ticks.

### Fairness

Weak fairness only, and only for what the program schedules itself: each worker,
request and consumer goroutine, the clock, `Register` and `StartWorkers` of a
process that runs, its end after a cancellation (`main` cancels the context as it
returns, and waits for no worker), and its restart. Database calls of handlers have a deadline of
30 s, so a handler returns. Publishing, submitting, stopping, crashes and failing
calls are never forced, except that a worker whose context is done gets its calls
refused. For `ExecQueue` fairness of the consumer includes that the statement or
script ends: the code gives `session.Run` no timeout, which the hazards list.
`Etcd` is weakly fair to what a node does by itself (its loop, the calls of its
campaign, the end of `leaderWork`), to a `Stop` that was called, and to the end of
leases that nothing keeps alive; `Start`, the call of `Stop`, lost leases and failing
calls are not forced, and are bounded by `MaxLosses`, so the liveness properties say
what happens once etcd answers again, to nodes that still have their lease.

## 4. What the code does not do

Six places where a comment or a document says something else; each is a run that
ends in a violation (the quotes are in `findings`):

1. After a failed call in `runSQL` an accepted run never ends, although
   `docs/dispatch_api.md` says that only a restart leaves runs unfinished.
2. `ListLines` returns deleted lines, which the cycle check counts.
3. `Stop` before `execute` has set `cancel` returns nil and does nothing.
4. A range that fails does not cancel the others. They read and commit to their end;
   `execute` cancels the context afterwards, when there is nobody left to see it.
5. A migration is said to take the database and the data sources of its tenant. The
   migrate routes have no tenant middleware, so nothing puts a tenant into the context:
   node and data sources are looked for in the configured database, that of the default
   tenant, which is also the target of a Collect node.
6. A scheduler is said to take part in the election again when its work as the leader
   ended. If it ended because the lease was lost, each later campaign uses the session of
   that lease and fails: it campaigns every two seconds for ever, without a key. When
   this has happened to every scheduler that is not stopped there is no leader any more,
   and none of them ends or says so.

Some properties carry an "unless" for the same reason. Two `TestRun` requests of
one run_id that overlap execute it twice (`ExecutedOnce` excludes `overlapped`
run_ids; the idempotence check is not atomic with the save). Two overlapping
`SaveLine` requests can close a cycle together (`AcyclicUnlessStale`). A line whose
pair already has a row keeps the old row's id (`SavedIsShown` speaks of the pair,
not of the id). A greatest key equal to the greatest integer makes
`splitPKRanges` wrap (`PartitionBelowMax`). A row that a fault left running is
never taken back (`SettledOrStranded`). Two processes whose crons overlap make two
batches of a day, and a batch whose call ended before its message was sent stays
without one (`BatchHasItsRoot`). Two administrators can disable each other
(`AdminStays`), a password changed while another change was checked is overwritten
(`ChangeKnowsPassword`). A task of the wheel comes a turn late if the wheel passed its
slot while it was added (`OnTimeUnlessRaced`); overlapping calls for one id can leave
a task no `Cancel` finds (`CancellableUnlessOverlapped`); and when every worker is in
a callback that waits for the mutex of a slot, held by a goroutine that waits for a
worker, the wheel stops (`WheelMoves`). A leader that lost its lease leads on until it
notices (`LeadersExclusive` speaks of those that have their key); a `LeaderElection`
whose campaign failed after its key was put blocks all others, and schedulers without a
lease do not lead (`NotLeaderless` speaks of candidates that have one). The
limiter allows too much when scripts run out of the order of their times, or more
than the extra second of the expiry late (`WithinBudget`, bound `MaxDelay`).

What the models also contain, and what no property is about:

* No instance is ever executed. `InstanceCreate` cannot store a batch in strict SQL
  mode (`init/dispatch.sql:66`: 32 characters for ids of 36); in the other mode the
  root's message is given up after four attempts, because `Publish` quotes the id
  (`producer.go:44`) and `deal` takes the payload as it is, because `GetNode` is asked
  for a cut id, and because the condition `AND e1.ahead = ?` of `TryNextRows` is no SQL
  (`store.go:271`). Each of them alone is enough.
* A token outlives the password and the status of its user: `RequireAdmin` and
  `TenantMiddleware` read neither, so a disabled administrator administers for up to
  eight hours.
* Deleted nodes are listed, and saving one brings it back.
* A third `Stop` of the wheel panics; the first closes nothing.

## 5. Proofs

`tlapm` checks every proof to the last leaf. Theorems hold for all values of the
constants that satisfy the named assumptions of the module (finite bounds are not
needed: the counters of faults and submissions may be any number).

| Module | Theorems | Argument |
|---|---|---|
| `DelayQueueProofs` | `TypeCorrect`, `IndInvHolds`, `SingleOwnerHolds`, `CopyIsCurrentHolds`, `BoundedAttemptsHolds`, `FailedOnlyExhaustedHolds`, `RunningIsOwnedHolds`, `OutcomeIsFinalHolds`, `NeverEarlyHolds`, `Refinement` | `SingleOwner` alone is not inductive: a second worker could select a row that is locked, or one whose owner has not committed. `IndInv` adds that a locked row is still pending with the copy read, that locks and holdings exclude each other, and how attempts and `retry_count` relate at every place of a worker. `Refinement` maps every step to a step of `JobQueue` or to a stutter |
| `ExecQueueProofs` | `TypeCorrect`, `IndInvHolds`, `ExecutedOnceHolds`, `FinishedIsFinalHolds`, `PendingIsAwaitedHolds`, `RunningIsExecutingHolds`, `SuccessWasExecutedHolds`, `AcceptedIsExecutedHolds` | a run_id without overlapping submissions is a single token: held by one request, one slot of the channel or the consumer, or by nobody, and the row's status says which (`TokenInv`). A row that is absent has no token beyond checked requests (`AbsentInv`), so that a new check makes the only one |
| `CycleCheckProofs` | `SearchInvHolds`, `AnswerCorrectHolds` | queued and visited nodes are reachable; visited nodes with the queue are closed under successors; at the end the visited nodes alone are closed and do not contain the head |
| `LinesProofs` | `AddEdgeKeepsAcyclic`, `TypeCorrect`, `IndInvHolds`, `AcyclicUnlessStaleHolds`, `OnePerPairHolds`, `OthersStayHolds`, `SavedIsShownHolds` | what a request was told stays true until a line is saved that it did not see; then `AddEdgeKeepsAcyclic`: if a set violates acyclicity after the new edge, the nodes reachable from the edge's end within it violate it before. `SavedIsShown`: the only step that answers "saved" is the upsert, and in each of its three cases the pair ends up with a row that is not deleted |
| `MigratorProofs` | `TypeCorrect`, `IndInvHolds`, `SuccessIsCompleteHolds`, `OnceEachHolds`, `OnlyCurrentLiveHolds`, `WholeBatchesHolds`, `EndIsFinalHolds`, `CountsInvHolds`, `CountsHonestHolds` | a row of a range is unread, buffered or committed, and which one follows from the goroutine's place (`RowsOK`); goroutines live only while `execute` waits for them (`PhasesOK`). The counters are sizes of sets of rows (`CountsInv`): `nread` of those stored or buffered, `nwritten` of those stored and out of the buffers; a batch is disjoint from everything counted before it, so its size is what is added |
| `EtcdProofs` | `IndInvHolds`, `LeadersExclusiveHolds`, `LockExclusiveHolds` | that nobody older is there when a node is elected says nothing of the keys put later; `IndInv` adds that of two keys the session of one waits for the other (`Ordered`), and that whoever leads or has the mutex still waits for nobody (`FirstOwns`): only a candidate puts a key |
| `RequestsProofs` | `PartsInvHolds`, `OnePoolPerDatabaseHolds`, `RoutedToOwnHolds`, `BatchHasItsRootHolds`, `AdminStaysHolds`, `ChangeKnowsPasswordHolds`; `IndInvHolds`, `DependsExactlyHolds`, `OnlySourcesAreFreeHolds`, `RequestsDepend` | one invariant per part. Tenants: who dials has the mutex and no pool is there yet (`PoolInv`); every call a request has still to make names the database of the tenant in its context, or none without one, for each service (`CallsInv`). Daily run: what a call saw and did at each of its places (`StepInv`), and that a second call past its check while there is a batch makes the race of the two known (`RaceInv`). Accounts: what a request carries from its check to its write is of the shape its handler makes, and was true of the table unless that changed since. Dependencies: what is handled is right, and all upstream instances behind `pIdx` are later than the instance at `idx`, hence later than all before it |
| `UtilitiesProofs` | ranges: `IndInvHolds`, `PartitionBelowMaxHolds`, `RangesMakeParts`, `FairSharesHolds`, `UtilRanges`; limiter: `LimiterInvHolds`, `WithinBudgetHolds`; wheel: `WheelInvHolds`, `CancellableHolds`, `GoesOnHolds`, `DueInvHolds`, `OnTimeUnlessRacedHolds`; balancer: `BalancerInvHolds`, `PicksFollowWeightsHolds`; graph: `GraphInvHolds`, `GraphStaysDagHolds` | see below |

The ranges so far partition the keys below `lo`, and the steps to come end before the
greatest key, so nothing wraps below it; `lo` is `minV + i * step`, and what the
divisions leave for the last range is less than a step and a key per channel
(`SharesInv`, `Remainder`).

The limiter: parts taken since a call and parts left in the bucket came out of a full
bucket and what flowed in since (`BudgetLeft`). A hash that expires would lose what was
taken; but it is kept for a second more than a bucket takes to fill (`LivesOn`), so once it is
gone a full bucket flowed in, even as seen by a script that runs a second late
(`LastsLongEnough`). That is why the theorem needs `MaxDelay <= Second`.

The wheel: an element of a list is the one `globalTasks` has and no call is about its
id, or it is being sent, or calls for its id have overlapped, or the one call for its id
refers to it and is about to remove or to record it (`TrackInv`). This is inductive only
with unique numbers of elements, with references that name the slot their element is in
(`MapInv`, `CallInv`), and with the rule that two calls for one id make it mixed. `DueInv`
says that an element with a tick waits for a goroutine of that tick, started or to be
started within a turn, and that no goroutine of another tick is on its way through the slot; in
ticks modulo `Horizon` two ticks of a slot that are less than a turn apart are equal
(`OneAhead`). It needs `MaxLate < NumSlots`: TLC shows that the goroutine of a later turn
can have the mutex first if one is a whole turn late. `GoesOnHolds` is
`WheelMoves` with the guards of `Wheel!Work` written out (`Ready`) instead of ENABLED.

The balancer: the dynamic weights add up to zero after every pick, and each is the lead
of its connection, in picks times the total weight, turned round (`BalancerInv`). Before the
choice they add up to the total, so the greatest is positive and stays above minus the
total when that is taken from it; and whoever is not chosen has at most as much as the
one who is, both together no more than what the others, each above minus the total, leave
(`Raise`). So a connection is never a pick ahead of its share, and at most half a pick
behind for each other connection. The claim one might expect, less than a pick behind, is
what TLC finds for the instance and what the invariant failed to give for more than three
connections: it is wrong for the weights 1, 3, 9, 34, 34.

The graph: as many layers as there are nodes contain all that can be reached, since a layer
that adds nothing is closed under successors and each other one adds a node
(`HasPathReaches`). So the check of `AddEdge` refuses exactly the edges that close a cycle
(`AcyclicGrows`, `PathCloses`, `RefusesCycles`), and the graph stays without one. Kahn's loop
(`KahnInv`): the degree of a node is the number of its edges from nodes not sorted yet, and
it is zero for the sorted nodes and those of the queue. If the queue empties early, every
node that is left has a predecessor that is left, and a least set of such nodes contradicts
`Acyclic` (`SortedAll`).

Both are inductions over numbers. The provers cannot instantiate an induction theorem that
takes an operator, so `Induction` takes a property as the set of its numbers and gets it
from `Least`, which rests on `NatLessThanWellFounded` and `WFMin`, facts about sets; and a
recursive function is what its equation says because `Iterates` constructs a function that
satisfies the equation.

Assumptions beyond finiteness and typing, and why they hold: the values that stand for
"none" differ from what they are compared with (`RowAssumption`, `WheelAssumption`,
`LimiterAssumption`, parts of `TenantAssumption` and `DailyAssumption`); announced weights
are integers (`BalancerAssumption`); a tenant's database
has a name (`TenantAssumption`: the empty name means the configured database); ticks are
counted modulo a multiple of the turn (`WheelAssumption`); the channel of the wheel has room
for a task (`ChannelAssumption`: it has 1000). `MaxDelay <= Second` and `MaxLate < NumSlots`
are hypotheses of the theorems that need them: the code does not ensure them.

Only model-checked:

* liveness (`SettledOrStranded`, `RowFinishes`, `Terminates`, `EveryTaskEnds`,
  `StopReturns`, `NotLeaderless`), which needs fairness and ENABLED;
* `WheelMoves` as it stands, because of ENABLED (see `GoesOnHolds`).

The connection of `CycleCheck` to `Lines` is made by the definition they share, that of
`SplitRanges` to `Migrator` by `RangesMakeParts`, whose conclusion is `PartAssumption` for
the rows of a table.

## 6. Not modelled

* The downstream half of the node runtime (`getAlreadyInfo`, the publishing of
  downstream instances): it is never reached, see section 4. Once `TryNextRows` is
  mended, two upstream instances that finish at once are the case to model.
* `Migrator`: the `Status` snapshot, the text of statements and DDL, a panic in a range
  goroutine, a source table that changes while it is read.
* The content of nodes and data sources, the masking of passwords (a client that saves
  what it was shown loses the password), and the connection to a source.
* Discovery, configuration and the observers of `internal/etcd`, which call the client
  and log (the one of the scheduler ends when `stopCh` is closed, so `Stop` waits for the
  campaign only); `SaasDb.Close`, `Bucket.Clear`, `SetCallback`; the bloom filter, whose
  promise is a probability.
* Chat, which is not routed; articles, tasks, channels, objects: requests that make one
  call each. Binding, wording and logging; the OAuth callback, whose query scans rows
  into a single struct and fails; adapters of third-party clients.

Worth doing next: an abstract lock that `Etcd` refines while leases live; one composed
specification in which the `Accept` of `Lines` is a run of `CycleCheck`; `Workflow` over
the actions of `JobQueue`.
