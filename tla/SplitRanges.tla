----------------------------- MODULE SplitRanges -----------------------------
(***************************************************************************)
(* splitPKRanges (service/migrate/sql_builder.go): the ranges [lo, hi] of    *)
(* primary keys that the goroutines of a parallel migration read.  Integers *)
(* have a fixed width; what overflows wraps.                                *)
(***************************************************************************)
EXTENDS Integers, Sequences

CONSTANTS
  MaxInt,      \* greatest int64; the least is -MaxInt - 1
  MaxChannels  \* bound on the number of channels asked for

ASSUME MaxIntAssumption   == MaxInt \in Nat \ {0}
ASSUME ChannelsAssumption == MaxChannels \in Nat \ {0} /\ MaxChannels <= MaxInt

VARIABLES
  minV, maxV, channels,  \* the parameters
  lo, i, ranges,         \* the local variables
  running                \* the loop has not ended

vars == <<minV, maxV, channels, lo, i, ranges, running>>

MinInt == -MaxInt - 1
Int64  == MinInt..MaxInt

\* x as an int64, for the sum or difference of two.
Wrap(x) == IF x > MaxInt THEN x - 2 * (MaxInt + 1)
           ELSE IF x < MinInt THEN x + 2 * (MaxInt + 1)
           ELSE x

TypeOK ==
  /\ minV \in Int64 /\ maxV \in Int64 /\ minV <= maxV
  /\ channels \in 1..MaxChannels
  /\ lo \in Int64 /\ i \in 0..channels
  /\ ranges \in Seq([lo : Int64, hi : Int64])
  /\ running \in BOOLEAN
  /\ running => i < channels

PkRange(l, h) == [lo |-> l, hi |-> h]

\* One channel or one key: one range, no loop.
Init ==
  /\ minV \in Int64 /\ maxV \in Int64 /\ minV <= maxV
  /\ channels \in 1..MaxChannels
  /\ lo = minV /\ i = 0
  /\ running = (channels > 1 /\ minV < maxV)
  /\ ranges = IF running THEN <<>> ELSE <<PkRange(minV, maxV)>>

span == Wrap(maxV - minV + 1)

\* Mistake: one key per range.
stepOne == 1

\* A negative span divides to at most 0, and is made 1 as well.
step == IF span >= channels THEN span \div channels ELSE 1

\* Mistake: the last range does not end at max.
hiOpen == LET h == Wrap(lo + step - 1) IN IF h > maxV THEN maxV ELSE h

hi == LET h == Wrap(lo + step - 1) IN
      IF i = channels - 1 \/ h > maxV THEN maxV ELSE h

\* One turn of the loop.
AddRange ==
  /\ running
  /\ ranges' = Append(ranges, PkRange(lo, hi))
  /\ lo' = Wrap(hi + 1)
  /\ i' = i + 1
  /\ running' = (lo' <= maxV /\ i' < channels)
  /\ UNCHANGED <<minV, maxV, channels>>

Spec == Init /\ [][AddRange]_vars

-----------------------------------------------------------------------------
In(x, k) == ranges[k].lo <= x /\ x <= ranges[k].hi

Partition ==
  /\ \A x \in minV..maxV : \E k \in 1..Len(ranges) : In(x, k)
  /\ \A j, k \in 1..Len(ranges) : j < k => ranges[j].hi < ranges[k].lo
  /\ \A k \in 1..Len(ranges) :
       minV <= ranges[k].lo /\ ranges[k].lo <= ranges[k].hi /\ ranges[k].hi <= maxV

(* The ranges cover every key from min to max, none twice, and none is empty *)
(* or leaves [min, max], unless max is the greatest integer.                 *)
PartitionBelowMax == ~running /\ maxV < MaxInt => Partition

(* Never more ranges than channels; and if max - min + 1 does not overflow,  *)
(* no range is longer than an even share plus one key per channel.           *)
FairShares ==
  /\ Len(ranges) <= channels
  /\ channels > 1 /\ maxV - minV < MaxInt /\ maxV < MaxInt =>
       \A k \in 1..Len(ranges) :
         ranges[k].hi - ranges[k].lo + 1 <= step + channels - 1

(* The inductive invariant behind PartitionBelowMax: the ranges so far        *)
(* partition min..lo-1, and the steps to come end before max.                *)
Covered == IF running THEN lo - 1 ELSE maxV

IndInv ==
  /\ TypeOK
  /\ maxV < MaxInt =>
       /\ \A x \in minV..Covered : \E k \in 1..Len(ranges) : In(x, k)
       /\ \A j, k \in 1..Len(ranges) : j < k => ranges[j].hi < ranges[k].lo
       /\ \A k \in 1..Len(ranges) :
            /\ minV <= ranges[k].lo /\ ranges[k].lo <= ranges[k].hi
            /\ ranges[k].hi <= Covered
       /\ running =>
            /\ minV <= lo /\ lo <= maxV
            /\ span >= channels => lo + (channels - i) * step <= maxV + 1
=============================================================================
