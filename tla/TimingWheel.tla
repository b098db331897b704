----------------------------- MODULE TimingWheel -----------------------------
(***************************************************************************)
(* utils/timewheel: a wheel of slots, each a list of tasks with a mutex.    *)
(* Every tick starts a goroutine that hands the tasks of one slot to the    *)
(* workers over a bounded channel, holding the mutex of the slot all along. *)
(* AddTask and Cancel are called by clients and by callbacks; they read the *)
(* position and the map of tasks without any lock.  The elements of a list  *)
(* are numbered as they are made.                                           *)
(***************************************************************************)
EXTENDS Integers, Sequences, FiniteSets, SequencesExt

CONSTANTS
  NumSlots,
  Ids,       \* task ids
  Clients,   \* goroutines that use the wheel
  Workers,   \* consumers of the wheel; their callbacks use it as well
  ChanCap,   \* capacity of the channel (1000)
  MaxAdds,   \* bound: AddTask calls
  Horizon,   \* bound: ticks are counted modulo Horizon, a multiple of NumSlots
  MaxLate,   \* bound: ticks a slot's goroutine or a call may fall behind
  None

VARIABLES
  pos,         \* currentPos
  jobs,        \* ticks whose slot goroutine has not ended
  lock,        \* lock[s]: the tick whose goroutine holds the mutex of s, or None
  untracked,   \* slots whose first element was removed from globalTasks
  slots,       \* the lists, of elements [n, id, due]
  made,        \* elements made so far
  globalTasks, \* id -> TaskElement [slotIdx, n]
  consumer,    \* the channel
  busy,        \* the element a worker runs the callback of, 0 if none, None: gone
  call,        \* the call a goroutine is in: [op, id, due, old]
  stops,       \* calls of Stop
  running,     \* run has not returned
  mixed        \* history: ids two calls overlapped for

wheelVars == <<pos, jobs, lock, untracked, slots, made, globalTasks, consumer, busy,
               call, stops, running, mixed>>

Slot    == 0..(NumSlots - 1)
Tick    == 0..(Horizon - 1)
Users   == Clients \cup Workers
NoTask  == [slotIdx |-> None, n |-> 0]
NoCall  == [op |-> "none", id |-> None, due |-> None, old |-> NoTask]

SlotOf(t)    == t % NumSlots
After(t, d)  == (t + d) % Horizon
Elems(s)     == {slots[s][i] : i \in DOMAIN slots[s]}
Runs(w)      == busy[w] \notin {0, None}

Init ==
  /\ pos = 0 /\ jobs = {}
  /\ lock = [s \in Slot |-> None] /\ untracked = {}
  /\ slots = [s \in Slot |-> <<>>] /\ made = 0
  /\ globalTasks = [i \in Ids |-> NoTask]
  /\ consumer = <<>>
  /\ busy = [w \in Workers |-> 0]
  /\ call = [c \in Users |-> NoCall]
  /\ stops = 0 /\ running = TRUE /\ mixed = {}

callVars == <<call, made, mixed>>
stopVars == <<stops, running>>

-----------------------------------------------------------------------------
\* The ticker, and the goroutines of the slots.

\* Nothing has fallen behind by more than MaxLate ticks.
InTime ==
  /\ \A t \in jobs : After(pos, -t) <= MaxLate
  /\ \A c \in Users : call[c].due # None =>
       After(call[c].due, MaxLate - pos) < Horizon - MaxLate

\* run, advanceAndRun: go slot.Execute, currentPos++.  One step: who reads the
\* position between the two reads what it was before.
Launch ==
  /\ running /\ InTime
  /\ jobs' = jobs \cup {pos}
  /\ pos' = After(pos, 1)
  /\ UNCHANGED <<lock, untracked, slots, globalTasks, consumer, busy, callVars, stopVars>>

\* Bucket.Execute takes the mutex; with an empty list it is done.
Lock(t) ==
  /\ t \in jobs /\ lock[SlotOf(t)] = None
  /\ IF slots[SlotOf(t)] = <<>>
       THEN jobs' = jobs \ {t} /\ UNCHANGED lock
       ELSE lock' = [lock EXCEPT ![SlotOf(t)] = t] /\ UNCHANGED jobs
  /\ UNCHANGED <<pos, untracked, slots, globalTasks, consumer, busy, callVars, stopVars>>

\* cb(task.ID): removeGlobalTask removes the id, whatever element it maps to.
Untrack(s) ==
  /\ lock[s] # None /\ s \notin untracked
  /\ untracked' = untracked \cup {s}
  /\ globalTasks' = [globalTasks EXCEPT ![Head(slots[s]).id] = NoTask]
  /\ UNCHANGED <<pos, jobs, lock, slots, consumer, busy, callVars, stopVars>>

\* consumer <- task, which waits for room; l.Remove(e); the mutex is given back
\* after the last element.
Send(s) ==
  /\ s \in untracked /\ stops < 2 /\ Len(consumer) < ChanCap
  /\ consumer' = Append(consumer, Head(slots[s]).n)
  /\ untracked' = untracked \ {s}
  /\ slots' = [slots EXCEPT ![s] = Tail(@)]
  /\ IF Len(slots[s]) = 1
       THEN lock' = [lock EXCEPT ![s] = None] /\ jobs' = jobs \ {lock[s]}
       ELSE UNCHANGED <<lock, jobs>>
  /\ UNCHANGED <<pos, globalTasks, busy, callVars, stopVars>>

-----------------------------------------------------------------------------
workSide == <<pos, jobs, lock, untracked, slots, globalTasks, callVars, stopVars>>

\* startConsumer: take a task; leave if the wheel was stopped; run its callback.
Take(w) ==
  /\ busy[w] = 0 /\ consumer # <<>>
  /\ consumer' = Tail(consumer)
  /\ busy' = [busy EXCEPT ![w] = IF stops = 0 THEN Head(consumer) ELSE None]
  /\ UNCHANGED workSide

\* Mistake: the panic of a callback ends the worker.
FinishPanics(w) ==
  /\ Runs(w) /\ call[w] = NoCall
  /\ busy' = [busy EXCEPT ![w] = None]
  /\ UNCHANGED <<workSide, consumer>>

\* The callback returns (a panic is recovered); the task goes to the pool.
Finish(w) ==
  /\ Runs(w) /\ call[w] = NoCall
  /\ busy' = [busy EXCEPT ![w] = 0]
  /\ UNCHANGED <<workSide, consumer>>

-----------------------------------------------------------------------------
\* AddTask and Cancel.
wheelSide == <<pos, jobs, lock, untracked, consumer, busy, stopVars>>

CanCall(c) == call[c] = NoCall /\ (c \in Workers => Runs(c))
Return(c)  == call' = [call EXCEPT ![c] = NoCall]
Overlap(c, i) ==
  mixed' = IF \E d \in Users \ {c} : call[d].id = i THEN mixed \cup {i} ELSE mixed

\* Calls that have their element still to make.
Adding == {"replace", "push"}

\* Mistake: a delay of a whole turn is accepted.
DelaysInclusive == 0..NumSlots
\* Delays AddTask accepts, in ticks: less than a turn.
Delays == 0..(NumSlots - 1)

\* Mistake: a task of the same id is not looked for.
NoneFound(i) == NoTask
\* globalTasks.Get
Found(i) == globalTasks[i]

\* AddTask reads currentPos and looks the id up, one after the other without a
\* lock; a position that is old at the lookup is as old as one that is at Push.
Add(c, i, d) ==
  /\ CanCall(c)
  /\ made + Cardinality({o \in Users : call[o].op \in Adding}) < MaxAdds
  /\ call' = [call EXCEPT ![c] = [op  |-> IF Found(i) = NoTask THEN "push" ELSE "replace",
                                  id  |-> i, due |-> After(pos, d), old |-> Found(i)]]
  /\ Overlap(c, i)
  /\ UNCHANGED <<wheelSide, slots, globalTasks, made>>

\* Bucket.Remove, under the mutex: without effect on an element that is gone.
Drop(task) ==
  LET s    == task.slotIdx
      here == {k \in DOMAIN slots[s] : slots[s][k].n = task.n}
  IN /\ lock[s] = None
     /\ IF here = {} THEN UNCHANGED slots
        ELSE \E k \in here : slots' = [slots EXCEPT ![s] = RemoveAt(@, k)]

Replace(c) ==
  /\ call[c].op = "replace"
  /\ Drop(call[c].old)
  /\ call' = [call EXCEPT ![c].op = "push", ![c].old = NoTask]
  /\ UNCHANGED <<wheelSide, globalTasks, made, mixed>>

\* The tick an element is added for has been launched, or a goroutine of another
\* tick is still to go through its slot: what tick it is handed over at is open.
Raced(due) ==
  \/ \A d \in Delays : due # After(pos, d)
  \/ \E t \in jobs : SlotOf(t) = SlotOf(due) /\ t # due

\* Bucket.Add, under the mutex of the slot.
Push(c) ==
  /\ call[c].op = "push"
  /\ LET s == SlotOf(call[c].due) IN
       /\ lock[s] = None
       /\ made' = made + 1
       /\ slots' = [slots EXCEPT ![s] = Append(@, [n |-> made', id |-> call[c].id,
                         due |-> IF Raced(call[c].due) THEN None ELSE call[c].due])]
       /\ call' = [call EXCEPT ![c].op = "set", ![c].due = None,
                               ![c].old = [slotIdx |-> s, n |-> made']]
  /\ UNCHANGED <<wheelSide, globalTasks, mixed>>

Set(c) ==
  /\ call[c].op = "set"
  /\ globalTasks' = [globalTasks EXCEPT ![call[c].id] = call[c].old]
  /\ Return(c)
  /\ UNCHANGED <<wheelSide, slots, made, mixed>>

\* Cancel: the entry of the map, the element of the list, the entry again.
Cancel(c, i) ==
  /\ CanCall(c) /\ Found(i) # NoTask
  /\ call' = [call EXCEPT ![c] = [op |-> "cancel", id |-> i, due |-> None, old |-> Found(i)]]
  /\ Overlap(c, i)
  /\ UNCHANGED <<wheelSide, slots, globalTasks, made>>

CancelRemove(c) ==
  /\ call[c].op = "cancel"
  /\ Drop(call[c].old)
  /\ call' = [call EXCEPT ![c].op = "forget", ![c].old = NoTask]
  /\ UNCHANGED <<wheelSide, globalTasks, made, mixed>>

Forget(c) ==
  /\ call[c].op = "forget"
  /\ globalTasks' = [globalTasks EXCEPT ![call[c].id] = NoTask]
  /\ Return(c)
  /\ UNCHANGED <<wheelSide, slots, made, mixed>>

-----------------------------------------------------------------------------
\* Stop: closed is set; the channels are closed by the second call only, and
\* once more, which panics, by the third.
Stop ==
  /\ stops < 3
  /\ stops' = stops + 1
  /\ UNCHANGED <<pos, jobs, lock, untracked, slots, globalTasks, consumer, busy,
                 callVars, running>>

\* run sees that stopChan is closed.
Quit ==
  /\ stops >= 2 /\ running
  /\ running' = FALSE
  /\ UNCHANGED <<pos, jobs, lock, untracked, slots, globalTasks, consumer, busy,
                 callVars, stops>>

\* A channel that is closed twice, or sent on when closed, ends the process.
Panicked == stops = 3 \/ (stops = 2 /\ untracked # {})

Call(c) == \E i \in Ids : Cancel(c, i) \/ \E d \in Delays : Add(c, i, d)

\* What the goroutines do without being asked.
Work ==
  \/ \E t \in Tick : Lock(t)
  \/ \E s \in Slot : Untrack(s) \/ Send(s)
  \/ \E w \in Workers : Take(w) \/ Finish(w)
  \/ \E c \in Users : Replace(c) \/ Push(c) \/ Set(c) \/ CancelRemove(c) \/ Forget(c)

Next == ~Panicked /\ (Launch \/ Stop \/ Quit \/ Work \/ \E c \in Users : Call(c))
=============================================================================
