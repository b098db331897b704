---------------------------- MODULE RateLimiter ----------------------------
(***************************************************************************)
(* utils/distributed_rate_limiter.go: a token bucket in Redis.  A client     *)
(* reads its clock, then has the script run; the scripts of several clients  *)
(* run in any order.  Tokens are counted in parts of 1/Unit, one part flows  *)
(* in per tick, a second has Second ticks.                                   *)
(***************************************************************************)
EXTENDS Integers, Sequences, FiniteSets

CONSTANTS
  Callers,
  Capacity,   \* of the bucket, in parts
  Unit,       \* parts of a token
  Second,     \* ticks of a second
  MaxTime,    \* bound: ticks
  MaxDelay,   \* bound: ticks between the clock of a caller and the script
  NoCall

VARIABLES
  now,          \* the time
  asked,        \* the time a caller read, NoCall if it is not in Allow
  bucket,       \* [tokens, last, ends] or NoCall: the hash and when it expires
  admitted      \* history: the times of the calls allowed

limiterVars == <<now, asked, bucket, admitted>>

Init ==
  /\ now = 0
  /\ asked = [c \in Callers |-> NoCall]
  /\ bucket = NoCall
  /\ admitted = <<>>

Lesser(a, b)  == IF a < b THEN a ELSE b
Greater(a, b) == IF a > b THEN a ELSE b

\* Time passes; Redis drops a hash whose time is up.
Tick ==
  /\ now < MaxTime
  /\ \A c \in Callers : asked[c] # NoCall => now - asked[c] < MaxDelay
  /\ now' = now + 1
  /\ bucket' = IF bucket # NoCall /\ bucket.ends <= now' THEN NoCall ELSE bucket
  /\ UNCHANGED <<asked, admitted>>

\* Allow reads the clock.
Ask(c) ==
  /\ asked[c] = NoCall
  /\ asked' = [asked EXCEPT ![c] = now]
  /\ UNCHANGED <<now, bucket, admitted>>

\* The bucket a script sees; a full one if there is none.
Seen(t) == IF bucket = NoCall THEN [tokens |-> Capacity, last |-> t] ELSE bucket

\* The parts in the bucket at time t.
Filled(t) == Lesser(Capacity, Seen(t).tokens + Greater(0, t - Seen(t).last))

\* Mistake: without the second that is added.
TimeToFill == Second * ((Capacity + Second - 1) \div Second)
\* math.ceil(capacity / rate) + 1 seconds.
TimeToLive == Second * ((Capacity + Second - 1) \div Second + 1)

\* The script, in one step.  A refusal changes only the time to live, and has
\* nothing to keep alive if there is no hash.
Run(c) ==
  /\ asked[c] # NoCall
  /\ LET t == asked[c] IN
       IF Filled(t) >= Unit
         THEN /\ bucket' = [tokens |-> Filled(t) - Unit, last |-> t, ends |-> now + TimeToLive]
              /\ admitted' = Append(admitted, t)
         ELSE /\ bucket' = IF bucket = NoCall THEN NoCall
                           ELSE [bucket EXCEPT !.ends = now + TimeToLive]
              /\ UNCHANGED admitted
  /\ asked' = [asked EXCEPT ![c] = NoCall]
  /\ UNCHANGED now

Next == Tick \/ \E c \in Callers : Ask(c) \/ Run(c)
=============================================================================
