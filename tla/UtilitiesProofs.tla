--------------------------- MODULE UtilitiesProofs ---------------------------
(***************************************************************************)
(* Proofs about the parts of Utilities: splitPKRanges, the rate limiter, the *)
(* timing wheel, the balancer and the graph.                                 *)
(***************************************************************************)
EXTENDS Utilities, SequenceTheorems, FiniteSetTheorems, WellFoundedInduction, TLAPS

-----------------------------------------------------------------------------
\* splitPKRanges, for any width of integers, any keys below the greatest integer
\* and any number of channels.

(* Wrap gives an int64 for every sum of two int64 and a carry.              *)
LEMMA WrapType ==
  ASSUME NEW x \in Int, x >= 2 * MinInt, x <= 2 * MaxInt + 2
  PROVE  Wrap(x) \in Int64
BY MaxIntAssumption DEF Wrap, Int64, MinInt

(* A step is at least 1 and at most an even share of the keys.              *)
LEMMA StepBounds ==
  ASSUME TypeOK
  PROVE  /\ span \in Int64 /\ step \in Int /\ step >= 1 /\ step <= MaxInt
         /\ span >= channels =>
              span = maxV - minV + 1 /\ channels * step <= maxV - minV + 1
         /\ span < channels => step = 1
<1>1. /\ minV \in Int /\ maxV \in Int /\ minV <= maxV
      /\ MinInt <= minV /\ maxV <= MaxInt /\ MaxInt \in Nat \ {0}
      /\ channels \in Int /\ channels >= 1
    BY MaxIntAssumption, ChannelsAssumption DEF TypeOK, Int64, MinInt
<1>2. /\ maxV - minV + 1 \in Int
      /\ maxV - minV + 1 >= 1 /\ maxV - minV + 1 <= 2 * MaxInt + 2
    BY <1>1 DEF MinInt
<1>3. span \in Int64 /\ span \in Int /\ span <= MaxInt
    BY <1>1, <1>2, WrapType DEF span, Int64, MinInt
<1>4. span >= 1 => span = maxV - minV + 1
    BY <1>1, <1>2 DEF span, Wrap, MinInt
<1>5. CASE span >= channels
  <2> DEFINE q == span \div channels
  <2>1. /\ q \in Int /\ channels * q <= span /\ span < channels * q + channels
      BY <1>1, <1>3
  <2> HIDE DEF q
  <2>2. q >= 1
    <3> SUFFICES ASSUME q <= 0 PROVE FALSE
        BY <2>1
    <3>1. channels * q <= 0
        BY <1>1, <2>1
    <3> QED BY <1>1, <1>3, <1>5, <2>1, <3>1
  <2>3. q <= channels * q
      BY <1>1, <2>1, <2>2
  <2>4. step = q
      BY <1>5 DEF step, q
  <2> QED BY <1>1, <1>3, <1>4, <1>5, <2>1, <2>2, <2>3, <2>4
<1>6. CASE span < channels
    BY <1>1, <1>3, <1>6 DEF step
<1> QED BY <1>1, <1>3, <1>5, <1>6

(* The upper end of a range is an int64.                                    *)
LEMMA HiType ==
  ASSUME TypeOK
  PROVE  hi \in Int64
<1>1. /\ lo \in Int64 /\ maxV \in Int64 /\ step \in Int /\ step >= 1 /\ step <= MaxInt
    BY StepBounds DEF TypeOK
<1>2. Wrap(lo + step - 1) \in Int64
    BY <1>1, WrapType, MaxIntAssumption DEF Int64, MinInt
<1> QED BY <1>1, <1>2 DEF hi

(* Types: what is appended is a pair of int64.                              *)
LEMMA TypeStep == TypeOK /\ [AddRange]_vars => TypeOK'
<1> SUFFICES ASSUME TypeOK, AddRange PROVE TypeOK'
    BY DEF TypeOK, vars
<1>1. hi \in Int64 /\ Wrap(hi + 1) \in Int64
  <2>1. hi \in Int64
      BY HiType
  <2> QED BY <2>1, WrapType, MaxIntAssumption DEF Int64, MinInt
<1>2. PkRange(lo, hi) \in [lo : Int64, hi : Int64]
    BY <1>1 DEF PkRange, TypeOK
<1>3. ranges' \in Seq([lo : Int64, hi : Int64])
    BY <1>2 DEF AddRange, TypeOK
<1>4. i' \in 0..channels
    BY DEF AddRange, TypeOK
<1> QED BY <1>1, <1>3, <1>4 DEF AddRange, TypeOK

(* In the loop, below the greatest integer, a range is not empty, ends by    *)
(* max, is the last one exactly when it is the last turn, and leaves room.   *)
LEMMA HiBounds ==
  ASSUME IndInv, running, maxV < MaxInt
  PROVE  /\ lo <= hi /\ hi <= maxV
         /\ i = channels - 1 => hi = maxV
         /\ i < channels - 1 /\ span >= channels => hi = lo + step - 1
<1>0. TypeOK
    BY DEF IndInv
<1>1. /\ lo \in Int /\ maxV \in Int /\ MinInt <= lo /\ lo <= maxV /\ maxV < MaxInt
      /\ channels \in Int /\ i \in Int /\ 0 <= i /\ i < channels
      /\ MaxInt \in Int
    BY <1>0, MaxIntAssumption, ChannelsAssumption DEF IndInv, TypeOK, Int64, MinInt
<1>2. step \in Int /\ step >= 1 /\ span \in Int
    BY <1>0, StepBounds, MaxIntAssumption DEF Int64, MinInt
<1>3. CASE i = channels - 1
    BY <1>1, <1>3 DEF hi
<1>4. CASE i < channels - 1 /\ span < channels
  <2>1. step = 1
      BY <1>0, <1>4, StepBounds
  <2>2. Wrap(lo + step - 1) = lo
      BY <1>1, <2>1 DEF Wrap, MinInt
  <2> QED BY <1>1, <1>2, <1>4, <2>2 DEF hi
<1>5. CASE i < channels - 1 /\ span >= channels
  <2>1. lo + (channels - i) * step <= maxV + 1
      BY <1>5 DEF IndInv
  <2>2. (channels - i) * step >= 2 * step
      BY <1>1, <1>2, <1>5
  <2>3. lo + step - 1 <= maxV /\ lo <= lo + step - 1
    <3> DEFINE p == (channels - i) * step
    <3>1. p \in Int
        BY <1>1, <1>2
    <3>2. p >= 2 * step /\ lo + p <= maxV + 1
        BY <2>1, <2>2
    <3> HIDE DEF p
    <3> QED BY <1>1, <1>2, <3>1, <3>2
  <2>4. Wrap(lo + step - 1) = lo + step - 1
      BY <1>1, <1>2, <2>3 DEF Wrap, MinInt
  <2> QED BY <1>1, <1>2, <1>5, <2>3, <2>4 DEF hi
<1> QED BY <1>1, <1>2, <1>3, <1>4, <1>5

(* The inductive step of IndInv.                                            *)
LEMMA IndStep == IndInv /\ [AddRange]_vars => IndInv'
<1> SUFFICES ASSUME IndInv, AddRange PROVE IndInv'
    BY TypeStep DEF IndInv, vars, TypeOK, In, Covered, span, step
<1>0. TypeOK /\ TypeOK' /\ running
    BY TypeStep DEF IndInv, AddRange
<1> SUFFICES ASSUME maxV < MaxInt
             PROVE  (/\ \A x \in minV..Covered : \E k \in 1..Len(ranges) : In(x, k)
                     /\ \A j, k \in 1..Len(ranges) :
                          j < k => ranges[j].hi < ranges[k].lo
                     /\ \A k \in 1..Len(ranges) :
                          /\ minV <= ranges[k].lo /\ ranges[k].lo <= ranges[k].hi
                          /\ ranges[k].hi <= Covered
                     /\ running =>
                          /\ minV <= lo /\ lo <= maxV
                          /\ span >= channels =>
                               lo + (channels - i) * step <= maxV + 1)'
    BY <1>0 DEF IndInv, AddRange
<1> DEFINE n == Len(ranges)
<1>1. /\ n \in Nat /\ Len(ranges') = n + 1
      /\ \A k \in 1..n : ranges'[k] = ranges[k]
      /\ ranges'[n + 1] = PkRange(lo, hi)
      /\ ranges'[n + 1].lo = lo /\ ranges'[n + 1].hi = hi
  <2>1. PkRange(lo, hi) \in [lo : Int64, hi : Int64]
      BY <1>0, HiType DEF PkRange, TypeOK
  <2> QED BY <1>0, <2>1 DEF AddRange, TypeOK, PkRange
<1>2. /\ minV \in Int /\ lo \in Int /\ hi \in Int /\ maxV \in Int /\ MaxInt \in Int
      /\ channels \in Int /\ i \in Int /\ step \in Int /\ step >= 1 /\ span \in Int
      /\ \A k \in 1..n : ranges[k].lo \in Int /\ ranges[k].hi \in Int
  <2>1. ranges \in Seq([lo : Int64, hi : Int64])
      BY <1>0 DEF TypeOK
  <2>2. \A k \in 1..n : ranges[k] \in [lo : Int64, hi : Int64]
      BY <2>1, ElementOfSeq
  <2>3. \A k \in 1..n : ranges[k].lo \in Int /\ ranges[k].hi \in Int
      BY <2>2, MaxIntAssumption DEF Int64, MinInt
  <2>4. hi \in Int /\ span \in Int /\ step \in Int /\ step >= 1
      BY <1>0, HiType, StepBounds, MaxIntAssumption DEF Int64, MinInt
  <2> QED BY <1>0, <2>3, <2>4, MaxIntAssumption, ChannelsAssumption
          DEF TypeOK, Int64, MinInt
<1>3. /\ minV <= lo /\ lo <= hi /\ hi <= maxV
      /\ i = channels - 1 => hi = maxV
      /\ i < channels - 1 /\ span >= channels => hi = lo + step - 1
      /\ i < channels
    BY <1>0, HiBounds DEF IndInv, TypeOK
<1>4. lo' = hi + 1 /\ minV' = minV /\ maxV' = maxV /\ channels' = channels /\ i' = i + 1
      /\ span' = span /\ step' = step
  <2>1. minV' = minV /\ maxV' = maxV /\ channels' = channels /\ i' = i + 1
        /\ lo' = Wrap(hi + 1)
      BY DEF AddRange
  <2>2. MinInt <= lo
      BY <1>0 DEF TypeOK, Int64
  <2>3. Wrap(hi + 1) = hi + 1
      BY <1>2, <1>3, <2>2 DEF Wrap, MinInt
  <2> QED BY <2>1, <2>3 DEF span, step
<1>5. Covered = lo - 1
    BY <1>0 DEF Covered
<1>6. Covered' = hi
  <2>1. running' <=> (hi + 1 <= maxV /\ i + 1 < channels)
      BY <1>4 DEF AddRange
  <2>2. CASE running'
      BY <1>2, <1>4, <2>2 DEF Covered
  <2>3. CASE ~running'
    <3>1. ~(hi + 1 <= maxV) \/ ~(i + 1 < channels)
        BY <2>1, <2>3
    <3>2. hi = maxV
        BY <1>2, <1>3, <3>1
    <3> QED BY <1>4, <2>3, <3>2 DEF Covered
  <2> QED BY <2>2, <2>3
<1>7. ASSUME NEW x \in minV..hi
      PROVE  \E k \in 1..(n + 1) : ranges'[k].lo <= x /\ x <= ranges'[k].hi
  <2>1. CASE x < lo
    <3>1. x \in minV..Covered
        BY <1>2, <1>5, <1>7, <2>1
    <3>2. PICK k \in 1..n : ranges[k].lo <= x /\ x <= ranges[k].hi
        BY <3>1 DEF IndInv, In
    <3>3. k \in 1..(n + 1) /\ ranges'[k] = ranges[k]
        BY <1>1, <3>2
    <3> QED BY <3>2, <3>3
  <2>2. CASE x >= lo
    <3>1. n + 1 \in 1..(n + 1)
        BY <1>1
    <3>2. ranges'[n + 1].lo <= x /\ x <= ranges'[n + 1].hi
        BY <1>1, <1>2, <1>7, <2>2
    <3> QED BY <3>1, <3>2
  <2> QED BY <1>2, <2>1, <2>2
<1>8. ASSUME NEW k \in 1..(n + 1)
      PROVE  /\ minV <= ranges'[k].lo /\ ranges'[k].lo <= ranges'[k].hi
             /\ ranges'[k].hi <= hi
             /\ k # n + 1 => k \in 1..n /\ ranges'[k] = ranges[k] /\ ranges[k].hi < lo
  <2>1. CASE k = n + 1
      BY <1>1, <1>2, <1>3, <2>1
  <2>2. CASE k # n + 1
    <3>1. k \in 1..n /\ ranges'[k] = ranges[k]
        BY <1>1, <2>2
    <3>2. /\ minV <= ranges[k].lo /\ ranges[k].lo <= ranges[k].hi
          /\ ranges[k].hi <= lo - 1
        BY <1>5, <3>1 DEF IndInv
    <3> QED BY <1>2, <1>3, <2>2, <3>1, <3>2
  <2> QED BY <2>1, <2>2
<1>9. ASSUME NEW j \in 1..(n + 1), NEW k \in 1..(n + 1), j < k
      PROVE  ranges'[j].hi < ranges'[k].lo
  <2>1. j # n + 1
      BY <1>1, <1>9
  <2>2. CASE k = n + 1
      BY <1>1, <1>8, <2>1, <2>2
  <2>3. CASE k # n + 1
      BY <1>8, <1>9, <2>1, <2>3 DEF IndInv
  <2> QED BY <2>2, <2>3
<1>10. ASSUME running'
       PROVE  /\ minV' <= lo' /\ lo' <= maxV'
              /\ span' >= channels' => lo' + (channels' - i') * step' <= maxV' + 1
  <2>1. hi + 1 <= maxV /\ i + 1 < channels
      BY <1>4, <1>10 DEF AddRange
  <2>2. ASSUME span >= channels
        PROVE  hi + 1 + (channels - (i + 1)) * step <= maxV + 1
    <3>1. hi = lo + step - 1 /\ lo + (channels - i) * step <= maxV + 1
        BY <1>0, <1>2, <1>3, <2>1, <2>2 DEF IndInv
    <3>2. (channels - (i + 1)) * step = (channels - i) * step - step
        BY <1>2
    <3> QED BY <1>2, <3>1, <3>2
  <2> QED BY <1>2, <1>3, <1>4, <2>1, <2>2
<1> QED BY <1>1, <1>4, <1>6, <1>7, <1>8, <1>9, <1>10 DEF In

(* The parameters splitPKRanges starts with.                                *)
LEMMA IndInvAtFirst == Init => IndInv
<1> SUFFICES ASSUME Init PROVE IndInv
    OBVIOUS
<1>1. /\ minV \in Int /\ maxV \in Int /\ minV <= maxV /\ MaxInt \in Int
      /\ channels \in Int /\ channels >= 1
    BY MaxIntAssumption, ChannelsAssumption DEF Init, Int64, MinInt
<1>2. CASE ~running
  <2>1. /\ ranges = <<PkRange(minV, maxV)>> /\ Len(ranges) = 1
        /\ ranges[1].lo = minV /\ ranges[1].hi = maxV /\ Covered = maxV
      BY <1>2 DEF Init, PkRange, Covered
  <2>2. TypeOK
      BY <1>1, <1>2, <2>1 DEF Init, TypeOK, PkRange
  <2> QED BY <1>1, <1>2, <2>1, <2>2 DEF IndInv, In
<1>3. CASE running
  <2>1. ranges = <<>> /\ Len(ranges) = 0 /\ Covered = minV - 1 /\ lo = minV /\ i = 0
      BY <1>3 DEF Init, Covered
  <2>2. TypeOK
      BY <1>1, <1>3, <2>1 DEF Init, TypeOK
  <2>3. span >= channels => lo + (channels - i) * step <= maxV + 1
    <3>1. step \in Int
        BY <2>2, StepBounds
    <3>2. ASSUME span >= channels
          PROVE  channels * step <= maxV - minV + 1
        BY <2>2, <3>2, StepBounds
    <3>3. (channels - i) * step = channels * step
        BY <1>1, <2>1
    <3>4. channels * step \in Int
        BY <1>1, <3>1
    <3> QED BY <1>1, <2>1, <3>2, <3>3, <3>4
  <2>4. minV..Covered = {} /\ 1..Len(ranges) = {}
      BY <1>1, <2>1
  <2> QED BY <1>1, <2>1, <2>2, <2>3, <2>4 DEF IndInv
<1> QED BY <1>2, <1>3

(* The ranges so far partition the keys below lo.                           *)
THEOREM IndInvHolds == Spec => []IndInv
BY IndInvAtFirst, IndStep, PTL DEF Spec

(* The goroutines of a parallel migration read every key once, as long as    *)
(* the greatest key is less than the greatest int64.                         *)
THEOREM PartitionBelowMaxHolds == Spec => []PartitionBelowMax
<1>1. IndInv => PartitionBelowMax
    BY DEF IndInv, PartitionBelowMax, Partition, Covered
<1> QED BY <1>1, IndInvHolds, PTL

\* What Migrator assumes of its ranges (PartAssumption), for the rows of a table.
Parts(rows) == [k \in 1..Len(ranges) |-> {r \in rows : In(r, k)}]
MakesParts(rows) ==
  /\ Parts(rows) \in [1..Len(ranges) -> SUBSET rows]
  /\ \A r \in rows : \E k \in 1..Len(ranges) : r \in Parts(rows)[k]
  /\ \A j, k \in 1..Len(ranges) : j # k => Parts(rows)[j] \cap Parts(rows)[k] = {}

(* Whatever keys between the least and the greatest a table has, the ranges   *)
(* divide its rows among the goroutines as Migrator assumes.                 *)
THEOREM RangesMakeParts ==
  Spec => [](~running /\ maxV < MaxInt => \A rows \in SUBSET (minV..maxV) : MakesParts(rows))
<1>1. ASSUME IndInv, PartitionBelowMax, ~running, maxV < MaxInt, NEW rows \in SUBSET (minV..maxV)
      PROVE  MakesParts(rows)
  <2>1. Partition
      BY <1>1 DEF PartitionBelowMax
  <2>2. \A r \in rows : \E k \in 1..Len(ranges) : In(r, k)
      BY <2>1 DEF Partition
  <2>3. ASSUME NEW j \in 1..Len(ranges), NEW k \in 1..Len(ranges), j < k, NEW r \in rows,
               In(r, j), In(r, k)
        PROVE  FALSE
    <3>1. /\ ranges[j].hi < ranges[k].lo /\ r <= ranges[j].hi /\ ranges[k].lo <= r
        BY <2>1, <2>3 DEF Partition, In
    <3> DEFINE R == [lo : Int64, hi : Int64]
    <3>0. ranges \in Seq(R)
        BY <1>1 DEF IndInv, TypeOK
    <3> HIDE DEF R
    <3>2. ranges[j] \in R /\ ranges[k] \in R
        BY <3>0, ElementOfSeq
    <3>3. r \in minV..maxV /\ minV \in Int /\ maxV \in Int
        BY <1>1, <2>3, MaxIntAssumption DEF IndInv, TypeOK, Int64, MinInt
    <3>4. ranges[j].hi \in Int /\ ranges[k].lo \in Int /\ r \in Int
        BY <3>2, <3>3, MaxIntAssumption DEF R, Int64, MinInt
    <3> QED BY <3>1, <3>4
  <2>4. ASSUME NEW j \in 1..Len(ranges), NEW k \in 1..Len(ranges), j # k, NEW r \in rows,
               In(r, j), In(r, k)
        PROVE  FALSE
    <3>1. j < k \/ k < j
        BY <2>4
    <3> QED BY <2>3, <2>4, <3>1
  <2> QED BY <2>2, <2>4 DEF MakesParts, Parts
<1>2. IndInv /\ PartitionBelowMax =>
        (~running /\ maxV < MaxInt => \A rows \in SUBSET (minV..maxV) : MakesParts(rows))
    BY <1>1
<1> QED BY <1>2, IndInvHolds, PartitionBelowMaxHolds, PTL

-----------------------------------------------------------------------------
\* Lengths: each range but the last takes step keys.

SharesInv ==
  /\ Len(ranges) <= channels
  /\ running => Len(ranges) = i
  /\ channels > 1 /\ maxV - minV < MaxInt /\ maxV < MaxInt =>
       /\ running => lo = minV + i * step
       /\ \A k \in 1..Len(ranges) :
            ranges[k].hi - ranges[k].lo + 1 <= step + channels - 1

(* What is left for the last range is less than a step and one key for each  *)
(* channel.                                                                  *)
LEMMA Remainder ==
  ASSUME TypeOK, maxV - minV < MaxInt
  PROVE  maxV - minV + 1 <= channels * step + channels - 1
<1>1. /\ minV \in Int /\ maxV \in Int /\ minV <= maxV /\ MaxInt \in Nat \ {0}
      /\ channels \in Int /\ channels >= 1
    BY MaxIntAssumption, ChannelsAssumption DEF TypeOK, Int64, MinInt
<1>2. span = maxV - minV + 1 /\ span \in Int
    BY <1>1 DEF span, Wrap, MinInt
<1>3. CASE span >= channels
  <2> DEFINE q == span \div channels
  <2>1. q \in Int /\ span < channels * q + channels
      BY <1>1, <1>2
  <2>2. channels * q \in Int
      BY <1>1, <2>1
  <2> HIDE DEF q
  <2>3. step = q
      BY <1>3 DEF step, q
  <2> QED BY <1>1, <1>2, <2>1, <2>2, <2>3
<1>4. CASE span < channels
  <2>1. step = 1
      BY <1>1, <1>2, <1>4 DEF step
  <2> QED BY <1>1, <1>2, <1>4, <2>1
<1> QED BY <1>1, <1>2, <1>3, <1>4

LEMMA SharesStep == IndInv /\ SharesInv /\ [AddRange]_vars => SharesInv'
<1> SUFFICES ASSUME IndInv, SharesInv, AddRange PROVE SharesInv'
    BY DEF SharesInv, vars, span, step
<1>0. TypeOK /\ TypeOK' /\ running
    BY TypeStep DEF IndInv, AddRange
<1> DEFINE n == Len(ranges)
<1>1. /\ n \in Nat /\ Len(ranges') = n + 1 /\ n = i
      /\ \A k \in 1..n : ranges'[k] = ranges[k]
      /\ ranges'[n + 1].lo = lo /\ ranges'[n + 1].hi = hi
  <2>1. PkRange(lo, hi) \in [lo : Int64, hi : Int64]
      BY <1>0, HiType DEF PkRange, TypeOK
  <2> QED BY <1>0, <2>1 DEF AddRange, TypeOK, PkRange, SharesInv
<1>2. /\ minV \in Int /\ lo \in Int /\ hi \in Int /\ maxV \in Int /\ MaxInt \in Int
      /\ channels \in Int /\ i \in Int /\ 0 <= i /\ i < channels
      /\ step \in Int /\ step >= 1 /\ span \in Int
  <2>1. hi \in Int /\ span \in Int /\ step \in Int /\ step >= 1
      BY <1>0, HiType, StepBounds, MaxIntAssumption DEF Int64, MinInt
  <2> QED BY <1>0, <2>1, MaxIntAssumption, ChannelsAssumption DEF TypeOK, Int64, MinInt
<1>3. /\ minV' = minV /\ maxV' = maxV /\ channels' = channels /\ i' = i + 1
      /\ lo' = Wrap(hi + 1) /\ span' = span /\ step' = step
    BY DEF AddRange, span, step
<1>4. Len(ranges') <= channels' /\ (running' => Len(ranges') = i')
    BY <1>1, <1>2, <1>3
<1> SUFFICES ASSUME channels > 1, maxV - minV < MaxInt, maxV < MaxInt
             PROVE  /\ running' => lo' = minV + (i + 1) * step
                    /\ \A k \in 1..(n + 1) :
                         ranges'[k].hi - ranges'[k].lo + 1 <= step + channels - 1
    BY <1>1, <1>3, <1>4 DEF SharesInv
<1>5. /\ minV <= lo /\ lo <= hi /\ hi <= maxV
      /\ i = channels - 1 => hi = maxV
      /\ i < channels - 1 => hi = lo + step - 1
  <2>1. CASE span >= channels
      BY <1>0, <2>1, HiBounds DEF IndInv
  <2>2. CASE span < channels
    <3>1. step = 1
        BY <1>0, <2>2, StepBounds
    <3>2. MinInt <= lo /\ lo <= maxV
        BY <1>0 DEF IndInv, TypeOK, Int64
    <3>3. Wrap(lo + step - 1) = lo
        BY <1>2, <3>1, <3>2 DEF Wrap, MinInt
    <3>4. i < channels - 1 => hi = lo
        BY <1>2, <3>2, <3>3 DEF hi
    <3> QED BY <1>0, <1>2, <3>1, <3>4, HiBounds DEF IndInv
  <2> QED BY <1>2, <2>1, <2>2
<1>6. lo' = hi + 1
  <2>1. MinInt <= lo
      BY <1>0 DEF TypeOK, Int64
  <2> QED BY <1>2, <1>3, <1>5, <2>1 DEF Wrap, MinInt
<1> DEFINE p == i * step
<1>7. p \in Int /\ (i + 1) * step = p + step /\ lo = minV + p
    BY <1>0, <1>2 DEF SharesInv
<1>8. running' => lo' = minV + (i + 1) * step
  <2>0. running' => i' < channels
      BY DEF AddRange
  <2>1. running' => i < channels - 1
      BY <1>2, <1>3, <2>0
  <2> HIDE DEF p
  <2> QED BY <1>2, <1>5, <1>6, <1>7, <2>1
<1>9. hi - lo + 1 <= step + channels - 1
  <2>1. CASE i < channels - 1
      BY <1>2, <1>5, <2>1
  <2>2. CASE i = channels - 1
    <3>1. channels * step = p + step
        BY <1>2, <1>7, <2>2
    <3>2. maxV - minV + 1 <= p + step + channels - 1
        BY <1>0, <3>1, Remainder
    <3> HIDE DEF p
    <3> QED BY <1>2, <1>5, <1>7, <2>2, <3>2
  <2> QED BY <1>2, <2>1, <2>2
<1>10. ASSUME NEW k \in 1..(n + 1)
       PROVE  ranges'[k].hi - ranges'[k].lo + 1 <= step + channels - 1
  <2>1. CASE k = n + 1
      BY <1>1, <1>9, <2>1
  <2>2. CASE k # n + 1
    <3>1. k \in 1..n
        BY <1>1, <2>2
    <3> QED BY <1>1, <3>1 DEF SharesInv
  <2> QED BY <2>1, <2>2
<1> QED BY <1>8, <1>10

(* No goroutine of a parallel migration gets much more than its share: never *)
(* more ranges than channels, and none longer than step and a key for every   *)
(* other channel.                                                            *)
THEOREM FairSharesHolds == Spec => []FairShares
<1>1. Init => SharesInv
  <2> SUFFICES ASSUME Init PROVE SharesInv
      OBVIOUS
  <2>0. TypeOK
      BY IndInvAtFirst DEF IndInv
  <2>1. /\ minV \in Int /\ maxV \in Int /\ minV <= maxV /\ MaxInt \in Int
        /\ channels \in Int /\ channels >= 1 /\ step \in Int /\ step >= 1
      BY <2>0, StepBounds, MaxIntAssumption, ChannelsAssumption DEF Init, Int64, MinInt
  <2>2. CASE running
    <3>1. ranges = <<>> /\ Len(ranges) = 0 /\ lo = minV /\ i = 0
        BY <2>2 DEF Init
    <3>2. i * step = 0 /\ 1..Len(ranges) = {}
        BY <2>1, <3>1
    <3> QED BY <2>1, <3>1, <3>2 DEF SharesInv
  <2>3. CASE ~running
    <3>1. channels > 1 => minV = maxV
      <4>1. running = (channels > 1 /\ minV < maxV)
          BY DEF Init
      <4>2. ~(channels > 1 /\ minV < maxV)
          BY <2>3, <4>1
      <4> QED BY <2>1, <4>2
    <3>2. Len(ranges) = 1 /\ ranges[1].lo = minV /\ ranges[1].hi = maxV
        BY <2>3 DEF Init, PkRange
    <3> QED BY <2>1, <2>3, <3>1, <3>2 DEF SharesInv
  <2> QED BY <2>2, <2>3
<1>2. SharesInv => FairShares
    BY DEF SharesInv, FairShares
<1> QED BY <1>1, <1>2, SharesStep, IndInvHolds, PTL DEF Spec

-----------------------------------------------------------------------------
\* The rate limiter.

InOrder == \A j, k \in DOMAIN admitted : j < k => admitted[j] <= admitted[k]

Hash == [tokens : Nat, last : Nat, ends : Nat]

\* No script runs more than MaxDelay after its caller read the clock.
LimiterType ==
  /\ now \in Nat
  /\ asked \in [Callers -> Nat \cup {None}]
  /\ \A o \in Callers : asked[o] # None => asked[o] <= now /\ now - asked[o] <= MaxDelay
  /\ bucket \in Hash \cup {None}
  /\ admitted \in Seq(Nat)

\* The hash outlives the time a bucket takes to fill, seen by the slowest caller.
LastsLongEnough ==
  bucket # None =>
    /\ bucket.tokens <= Capacity /\ bucket.last <= now
    /\ bucket.last + Capacity + MaxDelay <= bucket.ends
    /\ Len(admitted) > 0 /\ bucket.last = admitted[Len(admitted)]

\* Parts taken since call j.
Taken(j) == Unit * (Len(admitted) - j + 1)

\* What is left in the bucket and what was taken since call j came out of a full
\* bucket and what flowed in since; without a hash, more than that flowed in.
BudgetLeft ==
  InOrder =>
    \A j \in DOMAIN admitted :
      /\ bucket = None => Taken(j) + MaxDelay <= now - admitted[j]
      /\ bucket # None =>
           Taken(j) + bucket.tokens <= Capacity + bucket.last - admitted[j]

LimiterInv == LimiterType /\ LastsLongEnough /\ BudgetLeft /\ WithinBudget

(* The hash is kept for a second more than it takes to fill the bucket.      *)
LEMMA LivesOn ==
  ASSUME LimiterAssumption, MaxDelay <= Second
  PROVE  Limiter!TimeToLive \in Nat /\ Limiter!TimeToLive >= Capacity + MaxDelay
<1> DEFINE q == (Capacity + Second - 1) \div Second
<1>1. /\ Capacity \in Nat /\ Second \in Nat /\ Second > 0 /\ MaxDelay \in Nat
    BY DEF LimiterAssumption
<1>2. q \in Int /\ Capacity + Second - 1 < Second * q + Second
    BY <1>1
<1>3. Second * q \in Int /\ Second * (q + 1) = Second * q + Second
    BY <1>1, <1>2
<1>4. Limiter!TimeToLive = Second * (q + 1)
    BY DEF Limiter!TimeToLive
<1> HIDE DEF q
<1> QED BY <1>1, <1>2, <1>3, <1>4

LEMMA LimiterStart == LimiterAssumption /\ Limiter!Init => LimiterInv
BY DEF LimiterAssumption, Limiter!Init, LimiterInv, LimiterType, LastsLongEnough, BudgetLeft,
       InOrder, WithinBudget

LEMMA TickKeeps ==
  ASSUME LimiterAssumption, LimiterInv, Limiter!Tick
  PROVE  LimiterInv'
<1>1. now \in Nat /\ now' = now + 1 /\ asked' = asked /\ admitted' = admitted
    BY DEF Limiter!Tick, LimiterInv, LimiterType
<1>2. \/ bucket' = bucket
      \/ bucket # None /\ bucket.ends <= now + 1 /\ bucket' = None
    BY <1>1 DEF Limiter!Tick
<1>3. LimiterType'
  <2>1. \A o \in Callers : asked[o] # None => asked[o] <= now + 1 /\ now + 1 - asked[o] <= MaxDelay
    <3> SUFFICES ASSUME NEW o \in Callers, asked[o] # None
                 PROVE  asked[o] <= now + 1 /\ now + 1 - asked[o] <= MaxDelay
        OBVIOUS
    <3>1. asked[o] \in Nat /\ asked[o] <= now /\ now - asked[o] < MaxDelay
        BY DEF LimiterInv, LimiterType, Limiter!Tick
    <3> QED BY <1>1, <3>1 DEF LimiterAssumption
  <2> QED BY <1>1, <1>2, <2>1 DEF LimiterInv, LimiterType
<1>4. LastsLongEnough' /\ WithinBudget'
  <2>1. bucket # None => bucket.last \in Nat
      BY DEF LimiterInv, LimiterType, Hash
  <2> QED BY <1>1, <1>2, <2>1 DEF LimiterInv, LastsLongEnough, WithinBudget
<1>5. BudgetLeft'
  <2>1. ASSUME InOrder, NEW j \in DOMAIN admitted
        PROVE  /\ bucket' = None => Taken(j) + MaxDelay <= now + 1 - admitted[j]
               /\ bucket' # None => Taken(j) + bucket'.tokens <= Capacity + bucket'.last - admitted[j]
    <3>1. /\ bucket = None => Taken(j) + MaxDelay <= now - admitted[j]
          /\ bucket # None => Taken(j) + bucket.tokens <= Capacity + bucket.last - admitted[j]
        BY <2>1 DEF LimiterInv, BudgetLeft
    <3>2. /\ admitted[j] \in Nat /\ Taken(j) \in Int /\ MaxDelay \in Nat
          /\ Capacity \in Nat
        BY <2>1 DEF Taken, LimiterInv, LimiterType, LimiterAssumption
    <3>3. CASE bucket' = bucket
      <4>1. CASE bucket = None
          BY <1>1, <3>1, <3>2, <3>3, <4>1
      <4>2. CASE bucket # None
          BY <3>1, <3>3, <4>2
      <4> QED BY <4>1, <4>2
    <3>4. CASE bucket # None /\ bucket.ends <= now + 1 /\ bucket' = None
      <4>1. bucket.tokens \in Nat /\ bucket.last \in Nat /\ bucket.ends \in Nat
          BY <3>4 DEF LimiterInv, LimiterType, Hash
      <4>2. bucket.last + Capacity + MaxDelay <= bucket.ends
          BY <3>4 DEF LimiterInv, LastsLongEnough
      <4> QED BY <1>1, <3>1, <3>2, <3>4, <4>1, <4>2
    <3> QED BY <1>2, <3>3, <3>4
  <2>2. InOrder' <=> InOrder
      BY <1>1 DEF InOrder
  <2>3. ASSUME InOrder', NEW j \in DOMAIN admitted'
        PROVE  /\ bucket' = None => Taken(j)' + MaxDelay <= now' - admitted'[j]
               /\ bucket' # None =>
                    Taken(j)' + bucket'.tokens <= Capacity + bucket'.last - admitted'[j]
    <3>1. InOrder /\ j \in DOMAIN admitted
        BY <1>1, <2>2, <2>3
    <3>2. Taken(j)' = Taken(j)
        BY <1>1 DEF Taken
    <3>3. /\ bucket' = None => Taken(j) + MaxDelay <= now + 1 - admitted[j]
          /\ bucket' # None =>
               Taken(j) + bucket'.tokens <= Capacity + bucket'.last - admitted[j]
        BY <2>1, <3>1
    <3>4. Taken(j) \in Int /\ admitted[j] \in Nat
        BY <3>1 DEF Taken, LimiterInv, LimiterType, LimiterAssumption
    <3>5. bucket' # None => bucket'.tokens \in Nat /\ bucket'.last \in Nat
        BY <1>3 DEF LimiterType, Hash
    <3>6. now' = now + 1
        BY <1>1
    <3>7. admitted'[j] = admitted[j]
        BY <1>1
    <3>8. CASE bucket' = None
        BY <1>1, <3>2, <3>3, <3>4, <3>6, <3>7, <3>8
    <3>9. CASE bucket' # None
        BY <1>1, <3>2, <3>3, <3>4, <3>5, <3>7, <3>9
    <3> QED BY <3>8, <3>9
  <2> QED BY <2>3 DEF BudgetLeft
<1> QED BY <1>3, <1>4, <1>5 DEF LimiterInv

LEMMA AskKeeps ==
  ASSUME LimiterAssumption, LimiterInv, NEW o \in Callers, Limiter!Ask(o)
  PROVE  LimiterInv'
<1>1. /\ asked' = [asked EXCEPT ![o] = now]
      /\ now' = now /\ bucket' = bucket /\ admitted' = admitted
    BY DEF Limiter!Ask
<1>2. LimiterType'
    BY <1>1 DEF LimiterInv, LimiterType, LimiterAssumption
<1>3. LastsLongEnough' /\ BudgetLeft' /\ WithinBudget'
    BY <1>1 DEF LimiterInv, LastsLongEnough, BudgetLeft, InOrder, WithinBudget,
        Taken
<1> QED BY <1>2, <1>3 DEF LimiterInv

(* A call in order of time takes what flowed in since the hash was written,   *)
(* or since it was dropped: the calls so far and this one are within budget.  *)
LEMMA RunKeeps ==
  ASSUME LimiterAssumption, MaxDelay <= Second, LimiterInv,
         NEW o \in Callers, Limiter!Run(o)
  PROVE  LimiterInv'
<1> DEFINE t == asked[o]
           n == Len(admitted)
           full == Limiter!Filled(t)
<1>1. /\ t \in Nat /\ t <= now /\ now - t <= MaxDelay /\ now \in Nat /\ now' = now
      /\ MaxDelay \in Nat /\ Capacity \in Nat /\ Unit \in Nat
      /\ admitted \in Seq(Nat) /\ n \in Nat
      /\ Limiter!TimeToLive \in Nat /\ Limiter!TimeToLive >= Capacity + MaxDelay
    BY LivesOn DEF Limiter!Run, LimiterInv, LimiterType, LimiterAssumption
<1>2. bucket # None =>
        /\ bucket \in Hash /\ bucket.tokens \in Nat /\ bucket.last \in Nat
        /\ bucket.ends \in Nat /\ bucket.tokens <= Capacity /\ bucket.last <= now
        /\ n > 0 /\ bucket.last = admitted[n]
    BY DEF LimiterInv, LimiterType, LastsLongEnough, Hash
<1>3. /\ full \in Nat /\ full <= Capacity
      /\ bucket # None /\ bucket.last <= t => full <= bucket.tokens + t - bucket.last
  <2>1. CASE bucket = None
    <3>1. Limiter!Seen(t).tokens = Capacity /\ Limiter!Seen(t).last = t
        BY <2>1 DEF Limiter!Seen
    <3> QED BY <1>1, <2>1, <3>1 DEF Limiter!Filled, Limiter!Lesser, Limiter!Greater
  <2>2. CASE bucket # None
    <3>1. Limiter!Seen(t) = bucket
        BY <2>2 DEF Limiter!Seen
    <3> QED BY <1>1, <1>2, <2>2, <3>1 DEF Limiter!Filled, Limiter!Lesser, Limiter!Greater
  <2> QED BY <2>1, <2>2
<1> HIDE DEF full
<1>4. asked' = [asked EXCEPT ![o] = None]
    BY DEF Limiter!Run
<1>5. \A p \in Callers : asked'[p] # None =>
        asked'[p] \in Nat /\ asked'[p] <= now /\ now - asked'[p] <= MaxDelay
    BY <1>4 DEF LimiterInv, LimiterType
<1>6. CASE full < Unit
  <2>1. /\ admitted' = admitted
        /\ bucket' = IF bucket = None THEN None
                     ELSE [bucket EXCEPT !.ends = now + Limiter!TimeToLive]
      BY <1>1, <1>3, <1>6 DEF Limiter!Run, full
  <2>2. /\ bucket' = None <=> bucket = None
        /\ bucket # None =>
             /\ bucket' \in Hash /\ bucket'.tokens = bucket.tokens
             /\ bucket'.last = bucket.last /\ bucket'.ends = now + Limiter!TimeToLive
    <3>1. CASE bucket = None
        BY <2>1, <3>1
    <3>2. CASE bucket # None
      <4>1. bucket' = [bucket EXCEPT !.ends = now + Limiter!TimeToLive]
          BY <2>1, <3>2
      <4> DEFINE ends == now + Limiter!TimeToLive
      <4>0. ends \in Nat
          BY <1>1
      <4>2. bucket' \in Hash
          BY <1>2, <3>2, <4>0, <4>1 DEF Hash
      <4>3. bucket' # None
          BY <4>2 DEF Hash, LimiterAssumption
      <4> QED BY <1>2, <3>2, <4>1, <4>2, <4>3 DEF Hash
    <3> QED BY <3>1, <3>2
  <2>3. LimiterType'
      BY <1>1, <1>4, <1>5, <2>1, <2>2 DEF LimiterInv, LimiterType
  <2>4. LastsLongEnough'
    <3> SUFFICES ASSUME bucket # None
                 PROVE  /\ bucket'.tokens <= Capacity /\ bucket'.last <= now
                        /\ bucket'.last + Capacity + MaxDelay <= bucket'.ends
                        /\ Len(admitted) > 0 /\ bucket'.last = admitted[Len(admitted)]
        BY <1>1, <2>1, <2>2 DEF LastsLongEnough
    <3> QED BY <1>1, <1>2, <2>2, SMTT(30)
  <2>5. BudgetLeft' /\ WithinBudget'
      BY <1>1, <2>1, <2>2 DEF LimiterInv, BudgetLeft, InOrder, WithinBudget, Taken
  <2> QED BY <2>3, <2>4, <2>5 DEF LimiterInv
<1>7. CASE full >= Unit
  <2>1. /\ admitted' = Append(admitted, t)
        /\ bucket' = [tokens |-> full - Unit, last |-> t, ends |-> now + Limiter!TimeToLive]
      BY <1>1, <1>3, <1>7 DEF Limiter!Run, full
  <2>2. /\ Len(admitted') = n + 1 /\ DOMAIN admitted' = 1..(n + 1)
        /\ admitted'[n + 1] = t /\ admitted' \in Seq(Nat)
        /\ \A j \in 1..n : admitted'[j] = admitted[j] /\ admitted[j] \in Nat
        /\ DOMAIN admitted = 1..n
      BY <1>1, <2>1
  <2>3. /\ bucket'.tokens = full - Unit /\ bucket'.last = t
        /\ bucket'.ends = now + Limiter!TimeToLive
        /\ bucket' \in Hash /\ bucket' # None
    <3>1. full - Unit \in Nat /\ now + Limiter!TimeToLive \in Nat
        BY <1>1, <1>3, <1>7
    <3>2. bucket' \in Hash
        BY <1>1, <2>1, <3>1 DEF Hash
    <3>3. bucket' # None
        BY <3>2 DEF Hash, LimiterAssumption
    <3> QED BY <2>1, <3>2, <3>3
  <2>4. LimiterType'
      BY <1>1, <1>4, <1>5, <2>2, <2>3 DEF LimiterInv, LimiterType
  <2>5. LastsLongEnough'
    <3>1. /\ bucket'.tokens <= Capacity /\ bucket'.last <= now
          /\ bucket'.last + Capacity + MaxDelay <= bucket'.ends
        BY <1>1, <1>3, <2>3
    <3> QED BY <1>1, <2>2, <2>3, <3>1 DEF LastsLongEnough
  <2>6. InOrder' => InOrder /\ (bucket # None => bucket.last <= t)
    <3>1. InOrder' => InOrder
        BY <1>1, <2>2 DEF InOrder
    <3>2. InOrder' /\ n > 0 => admitted[n] <= t
      <4> SUFFICES ASSUME InOrder', n > 0 PROVE admitted[n] <= t
          OBVIOUS
      <4>1. n \in 1..(n + 1) /\ n + 1 \in 1..(n + 1) /\ n < n + 1 /\ n \in 1..n
          BY <1>1
      <4>2. admitted'[n] <= admitted'[n + 1]
          BY <2>2, <4>1 DEF InOrder
      <4> QED BY <2>2, <4>1, <4>2
    <3> QED BY <1>2, <3>1, <3>2
  <2>7. ASSUME InOrder', NEW j \in 1..n
        PROVE  Unit * (n - j + 1) + full <= Capacity + t - admitted[j]
    <3> DEFINE parts == Unit * (n - j + 1)
    <3>1. /\ parts \in Int /\ parts = Taken(j) /\ admitted[j] \in Nat
          /\ j \in DOMAIN admitted /\ InOrder
        BY <1>1, <2>2, <2>6, <2>7 DEF Taken
    <3> SUFFICES parts + full <= Capacity + t - admitted[j]
        OBVIOUS
    <3> HIDE DEF parts, t, n
    <3>2. CASE bucket = None
      <4>1. parts + MaxDelay <= now - admitted[j]
          BY <3>1, <3>2 DEF LimiterInv, BudgetLeft
      <4>2. /\ parts \in Int /\ full \in Int /\ full <= Capacity /\ t \in Int
            /\ admitted[j] \in Int /\ Capacity \in Int
          BY <1>1, <1>3, <3>1
      <4>3. now \in Int /\ MaxDelay \in Int /\ now - t <= MaxDelay
          BY <1>1
      <4> HIDE DEF full
      <4> QED BY <4>1, <4>2, <4>3
    <3>3. CASE bucket # None
      <4>1. parts + bucket.tokens <= Capacity + bucket.last - admitted[j]
          BY <3>1, <3>3 DEF LimiterInv, BudgetLeft
      <4>2. full <= bucket.tokens + t - bucket.last
          BY <1>3, <2>6, <2>7, <3>3
      <4>3. bucket.tokens \in Nat /\ bucket.last \in Nat
          BY <1>2, <3>3
      <4>4. /\ parts \in Int /\ full \in Int /\ t \in Int /\ Capacity \in Int
            /\ admitted[j] \in Int
          BY <1>1, <1>3, <3>1
      <4> HIDE DEF full
      <4> QED BY <4>1, <4>2, <4>3, <4>4
    <3> QED BY <3>2, <3>3
  <2>8. ASSUME InOrder', NEW j \in 1..(n + 1)
        PROVE  Unit * ((n + 1) - j + 1) + (full - Unit) <= Capacity + t - admitted'[j]
    <3>1. CASE j \in 1..n
      <4>1. Unit * ((n + 1) - j + 1) = Unit * (n - j + 1) + Unit
          BY <1>1, <3>1
      <4>2. Unit * (n - j + 1) \in Int
          BY <1>1, <3>1
      <4> QED BY <1>1, <1>3, <2>2, <2>7, <2>8, <3>1, <4>1, <4>2
    <3>2. CASE j = n + 1
      <4>1. Unit * ((n + 1) - j + 1) = Unit
          BY <1>1, <3>2
      <4> QED BY <1>1, <1>3, <2>2, <3>2, <4>1
    <3> QED BY <1>1, <2>8, <3>1, <3>2
  <2>9. BudgetLeft'
    <3> SUFFICES ASSUME InOrder', NEW j \in DOMAIN admitted'
                 PROVE  Taken(j)' + bucket'.tokens <= Capacity + bucket'.last - admitted'[j]
        BY <2>3 DEF BudgetLeft
    <3>1. j \in 1..(n + 1)
        BY <2>2
    <3>2. Taken(j)' = Unit * ((n + 1) - j + 1)
        BY <2>2 DEF Taken
    <3> QED BY <2>3, <2>8, <3>1, <3>2
  <2>10. WithinBudget'
    <3> SUFFICES ASSUME InOrder', NEW j \in 1..(n + 1), NEW k \in 1..(n + 1), j <= k
                 PROVE  Unit * (k - j + 1) <= Capacity + admitted'[k] - admitted'[j]
        BY <2>2 DEF WithinBudget, InOrder
    <3>1. CASE k = n + 1
      <4>1. Unit * (k - j + 1) \in Int /\ admitted'[j] \in Int
          BY <1>1, <2>2
      <4>2. Unit * (k - j + 1) + (full - Unit) <= Capacity + t - admitted'[j]
          BY <2>8, <3>1
      <4> QED BY <1>1, <1>3, <1>7, <2>2, <3>1, <4>1, <4>2
    <3>2. CASE k # n + 1
      <4>1. j \in 1..n /\ k \in 1..n
          BY <1>1, <3>2
      <4>2. InOrder
          BY <2>6
      <4> QED BY <2>2, <4>1, <4>2 DEF LimiterInv, WithinBudget, InOrder
    <3> QED BY <3>1, <3>2
  <2> QED BY <2>4, <2>5, <2>9, <2>10 DEF LimiterInv
<1> QED BY <1>1, <1>3, <1>6, <1>7

LEMMA LimiterStep ==
  ASSUME LimiterAssumption, MaxDelay <= Second, LimiterInv, Limiter!Next
  PROVE  LimiterInv'
BY TickKeeps, AskKeeps, RunKeeps DEF Limiter!Next

LEMMA LimiterRests == LimiterInv /\ UNCHANGED limiterVars => LimiterInv'
<1> SUFFICES ASSUME LimiterInv, UNCHANGED limiterVars PROVE LimiterInv'
    OBVIOUS
<1>1. now' = now /\ asked' = asked /\ bucket' = bucket /\ admitted' = admitted
    BY DEF limiterVars
<1> QED BY <1>1 DEF LimiterInv, LimiterType, LastsLongEnough, BudgetLeft, WithinBudget,
                    InOrder, Taken

-----------------------------------------------------------------------------
\* The timing wheel.

At(s) == 1..Len(slots[s])
Element == [n : Nat, id : Ids, due : Wheel!Tick \cup {None}]
Ref == [slotIdx : Wheel!Slot \cup {None}, n : Nat]
Ops == {"none", "replace", "push", "set", "cancel", "forget"}
Referring == {"replace", "set", "cancel"}

CallOf == [op : Ops, id : Ids \cup {None}, due : Wheel!Tick \cup {None}, old : Ref]

WheelType ==
  /\ pos \in Wheel!Tick /\ jobs \subseteq Wheel!Tick
  /\ lock \in [Wheel!Slot -> Wheel!Tick \cup {None}]
  /\ untracked \subseteq Wheel!Slot
  /\ slots \in [Wheel!Slot -> Seq(Element)]
  /\ made \in Nat
  /\ globalTasks \in [Ids -> Ref]
  /\ consumer \in Seq(Nat)
  /\ call \in [Wheel!Users -> CallOf]

ListInv ==
  /\ \A s \in Wheel!Slot :
       /\ s \in untracked => lock[s] # None
       /\ lock[s] # None => Len(slots[s]) > 0
  /\ \A s \in Wheel!Slot : \A j \in At(s) : 1 <= slots[s][j].n /\ slots[s][j].n <= made
  /\ \A s, z \in Wheel!Slot : \A j \in At(s), k \in At(z) :
       slots[s][j].n = slots[z][k].n => s = z /\ j = k

\* A reference to an element of a list names its slot.
MapInv ==
  \A k \in Ids :
    /\ globalTasks[k].n <= made
    /\ globalTasks[k] # Wheel!NoTask => globalTasks[k].slotIdx \in Wheel!Slot
    /\ \A s \in Wheel!Slot : \A j \in At(s) :
         slots[s][j].n = globalTasks[k].n => globalTasks[k].slotIdx = s

CallInv ==
  /\ \A o \in Wheel!Users :
       /\ call[o].op = "none" => call[o].id = None
       /\ call[o].op # "none" => call[o].id \in Ids
       /\ call[o].op \in {"replace", "push"} => call[o].due \in Wheel!Tick
       /\ call[o].op \in Referring => call[o].old.slotIdx \in Wheel!Slot
       /\ call[o].old.n <= made
       /\ \A s \in Wheel!Slot : \A j \in At(s) :
            slots[s][j].n = call[o].old.n => call[o].old.slotIdx = s
  /\ \A o, p \in Wheel!Users :
       o # p /\ call[o].id = call[p].id /\ call[o].id # None => call[o].id \in mixed

TrackInv ==
  \A s \in Wheel!Slot : \A j \in At(s) :
    LET e == slots[s][j] IN
      \/ e.id \in mixed
      \/ s \in untracked /\ j = 1
      \/ globalTasks[e.id].n = e.n /\ \A o \in Wheel!Users : call[o].id # e.id
      \/ \E o \in Wheel!Users :
           call[o].id = e.id /\ call[o].op \in Referring /\ call[o].old.n = e.n

WheelInv == WheelType /\ ListInv /\ MapInv /\ CallInv /\ TrackInv

(* One element of a list is gone; the others keep their order.              *)
LEMMA RemoveFacts ==
  ASSUME NEW S, NEW s \in Seq(S), NEW k \in 1..Len(s)
  PROVE  /\ Wheel!RemoveAt(s, k) \in Seq(S)
         /\ Len(Wheel!RemoveAt(s, k)) = Len(s) - 1
         /\ \A j \in 1..(Len(s) - 1) :
              Wheel!RemoveAt(s, k)[j] = s[IF j < k THEN j ELSE j + 1]
<1> DEFINE u == SubSeq(s, 1, k - 1)
           v == SubSeq(s, k + 1, Len(s))
<1>1. Len(s) \in Nat
    OBVIOUS
<1>2. /\ u \in Seq(S) /\ Len(u) = k - 1
      /\ \A j \in 1..(k - 1) : u[j] = s[j]
    BY <1>1
<1>3. /\ v \in Seq(S) /\ Len(v) = Len(s) - k
      /\ \A j \in 1..(Len(s) - k) : v[j] = s[k + j]
    BY <1>1
<1>4. Wheel!RemoveAt(s, k) = u \o v
    BY DEF Wheel!RemoveAt
<1> HIDE DEF u, v
<1>5. /\ u \o v \in Seq(S) /\ Len(u \o v) = Len(s) - 1
      /\ \A j \in 1..(Len(s) - 1) : (u \o v)[j] = IF j < k THEN u[j] ELSE v[j - k + 1]
  <2>1. /\ u \o v \in Seq(S) /\ Len(u \o v) = Len(u) + Len(v)
        /\ \A j \in 1..(Len(u) + Len(v)) :
             (u \o v)[j] = IF j <= Len(u) THEN u[j] ELSE v[j - Len(u)]
      BY <1>2, <1>3, ConcatProperties, Zenon
  <2>2. Len(u) + Len(v) = Len(s) - 1
      BY <1>1, <1>2, <1>3
  <2>3. \A j \in 1..(Len(s) - 1) : (j <= Len(u) <=> j < k) /\ j - Len(u) = j - k + 1
      BY <1>1, <1>2
  <2> QED BY <2>1, <2>2, <2>3
<1>6. ASSUME NEW j \in 1..(Len(s) - 1)
      PROVE  (u \o v)[j] = s[IF j < k THEN j ELSE j + 1]
  <2>0. j \in Int /\ k \in Int
      BY <1>1
  <2>1. CASE j < k
      BY <1>1, <1>2, <1>5, <2>1
  <2>2. CASE ~(j < k)
    <3>1. j - k + 1 \in 1..(Len(s) - k) /\ k + (j - k + 1) = j + 1
        BY <1>1, <2>0, <2>2
    <3>2. (u \o v)[j] = v[j - k + 1]
        BY <1>1, <1>5, <2>2
    <3> QED BY <1>3, <2>2, <3>1, <3>2
  <2> QED BY <2>1, <2>2
<1> QED BY <1>4, <1>5, <1>6

LEMMA SlotTypes ==
  ASSUME WheelAssumption
  PROVE  /\ \A t \in Wheel!Tick : Wheel!SlotOf(t) \in Wheel!Slot
         /\ \A t \in Wheel!Tick, d \in Int : Wheel!After(t, d) \in Wheel!Tick
         /\ Wheel!Tick \subseteq Nat /\ Wheel!Slot \subseteq Nat
         /\ None \notin Wheel!Tick /\ None \notin Wheel!Slot
         /\ Wheel!Delays \subseteq Int
<1>1. NumSlots \in Int /\ NumSlots > 0 /\ Horizon \in Int /\ Horizon > 0 /\ None \notin Int
    BY DEF WheelAssumption
<1>2. \A t \in Wheel!Tick : Wheel!SlotOf(t) \in Wheel!Slot
    BY <1>1 DEF Wheel!Tick, Wheel!SlotOf, Wheel!Slot
<1>3. \A t \in Wheel!Tick, d \in Int : Wheel!After(t, d) \in Wheel!Tick
    BY <1>1 DEF Wheel!Tick, Wheel!After
<1>4. /\ Wheel!Tick \subseteq Nat /\ Wheel!Slot \subseteq Nat
      /\ Wheel!Delays \subseteq Int
    BY <1>1 DEF Wheel!Tick, Wheel!Slot, Wheel!Delays
<1>5. None \notin Wheel!Tick /\ None \notin Wheel!Slot
  <2>1. \A x \in Nat : x \in Int
      OBVIOUS
  <2> QED BY <1>1, <1>4, <2>1
<1> QED BY <1>2, <1>3, <1>4, <1>5

LEMMA WheelStart == WheelAssumption /\ Wheel!Init => WheelInv
<1> SUFFICES ASSUME WheelAssumption, Wheel!Init PROVE WheelInv
    OBVIOUS
<1>0. 0 \in Wheel!Tick /\ None \notin Ids
    BY DEF WheelAssumption, Wheel!Tick
<1>1. \A s \in Wheel!Slot : slots[s] = <<>> /\ At(s) = {}
    BY DEF Wheel!Init, At
<1>2. WheelType
    BY <1>0 DEF Wheel!Init, WheelType, CallOf, Ref, Ops, Wheel!NoTask, Wheel!NoCall
<1>3. ListInv
    BY <1>1 DEF Wheel!Init, ListInv
<1>4. MapInv /\ CallInv
    BY <1>0, <1>1 DEF Wheel!Init, MapInv, CallInv, Referring, Wheel!NoTask, Wheel!NoCall
<1>5. TrackInv
    BY <1>1 DEF TrackInv
<1> QED BY <1>2, <1>3, <1>4, <1>5 DEF WheelInv
(* The lists, the map and the calls are as they were.                       *)
LEMMA ListsStay ==
  ASSUME WheelInv, WheelType',
         slots' = slots, untracked' = untracked, made' = made, globalTasks' = globalTasks,
         call' = call, mixed' = mixed,
         \A s \in Wheel!Slot : lock[s] # None => lock'[s] # None,
         \A s \in Wheel!Slot : lock'[s] # None => Len(slots[s]) > 0
  PROVE  WheelInv'
<1>1. ListInv'
    BY DEF WheelInv, ListInv, At
<1>2. MapInv' /\ CallInv'
    BY DEF WheelInv, MapInv, CallInv, At
<1>3. TrackInv'
    BY DEF WheelInv, TrackInv, At
<1> QED BY <1>1, <1>2, <1>3 DEF WheelInv

LEMMA TurnKeeps ==
  ASSUME WheelAssumption, WheelInv,
         \/ Wheel!Launch \/ Wheel!Stop \/ Wheel!Quit
         \/ \E t \in Wheel!Tick : Wheel!Lock(t)
         \/ \E w \in Workers : Wheel!Take(w) \/ Wheel!Finish(w)
  PROVE  WheelInv'
<1>1. /\ slots' = slots /\ untracked' = untracked /\ made' = made
      /\ globalTasks' = globalTasks /\ call' = call /\ mixed' = mixed
    BY DEF Wheel!Launch, Wheel!Stop, Wheel!Quit, Wheel!Lock, Wheel!Take, Wheel!Finish,
           Wheel!workSide, Wheel!callVars
<1>2. \A s \in Wheel!Slot : lock[s] # None => Len(slots[s]) > 0
    BY DEF WheelInv, ListInv
<1>3. CASE Wheel!Launch \/ Wheel!Stop \/ Wheel!Quit \/ \E w \in Workers : Wheel!Take(w) \/ Wheel!Finish(w)
  <2>1. lock' = lock
      BY <1>3 DEF Wheel!Launch, Wheel!Stop, Wheel!Quit, Wheel!Take, Wheel!Finish,
                  Wheel!workSide
  <2>2. pos' \in Wheel!Tick /\ jobs' \subseteq Wheel!Tick
    <3>1. pos \in Wheel!Tick /\ jobs \subseteq Wheel!Tick
        BY DEF WheelInv, WheelType
    <3>2. CASE Wheel!Launch
      <4>1. pos' = Wheel!After(pos, 1) /\ jobs' = jobs \cup {pos}
          BY <3>2 DEF Wheel!Launch
      <4>2. Wheel!After(pos, 1) \in Wheel!Tick
          BY <3>1, SlotTypes
      <4> QED BY <3>1, <4>1, <4>2
    <3>3. CASE ~Wheel!Launch
      <4>1. pos' = pos /\ jobs' = jobs
          BY <1>3, <3>3 DEF Wheel!Stop, Wheel!Quit, Wheel!Take, Wheel!Finish, Wheel!workSide
      <4> QED BY <3>1, <4>1
    <3> QED BY <3>2, <3>3
  <2>3. consumer' \in Seq(Nat)
    <3>1. consumer' = consumer \/ (consumer # <<>> /\ consumer' = Tail(consumer))
        BY <1>3 DEF Wheel!Launch, Wheel!Stop, Wheel!Quit, Wheel!Take, Wheel!Finish,
                    Wheel!workSide
    <3>2. consumer \in Seq(Nat)
        BY DEF WheelInv, WheelType
    <3>3. consumer # <<>> => Tail(consumer) \in Seq(Nat)
        BY <3>2, HeadTailProperties
    <3> QED BY <3>1, <3>2, <3>3
  <2>4. WheelType'
      BY <1>1, <2>1, <2>2, <2>3 DEF WheelInv, WheelType
  <2> QED BY <1>1, <1>2, <2>1, <2>4, ListsStay
<1>4. ASSUME NEW t \in Wheel!Tick, Wheel!Lock(t) PROVE WheelInv'
  <2> DEFINE s == Wheel!SlotOf(t)
  <2>1. s \in Wheel!Slot /\ None \notin Wheel!Tick
      BY SlotTypes
  <2>2. slots[s] \in Seq(Element) /\ lock \in [Wheel!Slot -> Wheel!Tick \cup {None}]
      BY <2>1 DEF WheelInv, WheelType
  <2>3. /\ pos' = pos /\ consumer' = consumer /\ jobs' \subseteq jobs
        /\ \/ lock' = lock
           \/ slots[s] # <<>> /\ lock' = [lock EXCEPT ![s] = t]
      BY <1>4 DEF Wheel!Lock
  <2>4. WheelType'
      BY <1>1, <2>2, <2>3 DEF WheelInv, WheelType
  <2>5. \A z \in Wheel!Slot :
          /\ lock[z] # None => lock'[z] # None
          /\ lock'[z] # None => Len(slots[z]) > 0
    <3>1. slots[s] # <<>> => Len(slots[s]) > 0
        BY <2>2
    <3> QED BY <1>2, <2>1, <2>2, <2>3, <3>1
  <2> QED BY <1>1, <2>4, <2>5, ListsStay
<1> QED BY <1>3, <1>4

(* Of two elements for one id, one is sent already or two calls overlapped.  *)
LEMMA UntrackKeeps ==
  ASSUME WheelAssumption, WheelInv, NEW s \in Wheel!Slot, Wheel!Untrack(s)
  PROVE  WheelInv'
<1> DEFINE x == Head(slots[s])
<1>1. /\ lock[s] # None /\ s \notin untracked /\ untracked' = untracked \cup {s}
      /\ globalTasks' = [globalTasks EXCEPT ![x.id] = Wheel!NoTask]
      /\ pos' = pos /\ jobs' = jobs /\ lock' = lock /\ slots' = slots /\ consumer' = consumer
      /\ call' = call /\ made' = made /\ mixed' = mixed
    BY DEF Wheel!Untrack, Wheel!callVars
<1>2. /\ slots[s] \in Seq(Element) /\ Len(slots[s]) > 0 /\ x = slots[s][1] /\ 1 \in At(s)
      /\ x \in Element /\ x.id \in Ids /\ 1 <= x.n
  <2>1. slots[s] \in Seq(Element) /\ Len(slots[s]) > 0
      BY <1>1 DEF WheelInv, WheelType, ListInv
  <2>2. x = slots[s][1] /\ 1 \in At(s) /\ x \in Element
      BY <2>1 DEF At
  <2> QED BY <2>1, <2>2 DEF Element, WheelInv, ListInv
<1> HIDE DEF x
<1>3. globalTasks \in [Ids -> Ref] /\ Wheel!NoTask \in Ref /\ Wheel!NoTask.n = 0
    BY DEF WheelInv, WheelType, Wheel!NoTask, Ref
<1>4. WheelType'
  <2>1. globalTasks' \in [Ids -> Ref]
      BY <1>1, <1>2, <1>3
  <2> QED BY <1>1, <2>1 DEF WheelInv, WheelType
<1>5. ListInv'
    BY <1>1 DEF WheelInv, ListInv, At
<1>6. MapInv' /\ CallInv'
  <2>1. CallInv'
      BY <1>1 DEF WheelInv, CallInv, At
  <2>2. ASSUME NEW k \in Ids
        PROVE  /\ globalTasks'[k].n <= made
               /\ globalTasks'[k] # Wheel!NoTask => globalTasks'[k].slotIdx \in Wheel!Slot
               /\ \A z \in Wheel!Slot : \A j \in At(z) :
                    slots[z][j].n = globalTasks'[k].n => globalTasks'[k].slotIdx = z
    <3>1. CASE k # x.id
      <4>1. globalTasks'[k] = globalTasks[k]
          BY <1>1, <1>3, <3>1
      <4> QED BY <4>1 DEF WheelInv, MapInv
    <3>2. CASE k = x.id
      <4>1. globalTasks'[k] = Wheel!NoTask /\ made \in Nat
          BY <1>1, <1>3, <3>2 DEF WheelInv, WheelType
      <4>2. \A z \in Wheel!Slot : \A j \in At(z) : 1 <= slots[z][j].n
          BY DEF WheelInv, ListInv
      <4> QED BY <1>3, <4>1, <4>2
    <3> QED BY <3>1, <3>2
  <2>3. MapInv'
      BY <1>1, <2>2 DEF MapInv, At
  <2> QED BY <2>1, <2>3
<1>7. TrackInv'
  <2> SUFFICES ASSUME NEW z \in Wheel!Slot, NEW j \in At(z)
               PROVE  LET e == slots[z][j] IN
                        \/ e.id \in mixed
                        \/ z \in untracked' /\ j = 1
                        \/ /\ globalTasks'[e.id].n = e.n
                           /\ \A o \in Wheel!Users : call[o].id # e.id
                        \/ \E o \in Wheel!Users :
                             /\ call[o].id = e.id /\ call[o].op \in Referring
                             /\ call[o].old.n = e.n
      BY <1>1 DEF TrackInv, At
  <2> DEFINE e == slots[z][j]
  <2>1. e.id \in Ids
    <3>1. slots[z] \in Seq(Element) /\ j \in 1..Len(slots[z])
        BY DEF WheelInv, WheelType, At
    <3>2. slots[z][j] \in Element
        BY <3>1
    <3> QED BY <3>2 DEF Element
  <2>2. CASE e.id # x.id
    <3>1. globalTasks'[e.id] = globalTasks[e.id]
        BY <1>1, <1>3, <2>1, <2>2
    <3> QED BY <1>1, <3>1 DEF WheelInv, TrackInv
  <2>3. CASE e.id = x.id
    <3>1. CASE z = s /\ j = 1
        BY <1>1, <3>1
    <3>2. CASE ~(z = s /\ j = 1)
      <4>1. e.n # x.n
          BY <1>2, <3>2 DEF WheelInv, ListInv
      <4>2. ~(globalTasks[e.id].n = e.n /\ \A o \in Wheel!Users : call[o].id # e.id)
                \/ e.id \in mixed
          BY <1>1, <1>2, <2>3, <4>1 DEF WheelInv, TrackInv
      <4> QED BY <1>1, <4>2 DEF WheelInv, TrackInv
    <3> QED BY <3>1, <3>2
  <2> QED BY <2>2, <2>3
<1> QED BY <1>4, <1>5, <1>6, <1>7 DEF WheelInv
(* The lists without element k of slot s.                                   *)
Moved(s, k, z, j) == IF z = s /\ j >= k THEN j + 1 ELSE j

LEMMA Shrink ==
  ASSUME WheelInv, NEW s \in Wheel!Slot, NEW k \in At(s), NEW list,
         slots' = [slots EXCEPT ![s] = list], list \in Seq(Element),
         Len(list) = Len(slots[s]) - 1,
         \A j \in 1..(Len(slots[s]) - 1) : list[j] = slots[s][IF j < k THEN j ELSE j + 1],
         made' = made
  PROVE  /\ slots' \in [Wheel!Slot -> Seq(Element)]
         /\ \A z \in Wheel!Slot : \A j \in 1..Len(slots'[z]) :
              LET m == Moved(s, k, z, j) IN
                m \in At(z) /\ slots'[z][j] = slots[z][m] /\ ~(z = s /\ m = k)
         /\ \A z \in Wheel!Slot : \A j \in 1..Len(slots'[z]) :
              1 <= slots'[z][j].n /\ slots'[z][j].n <= made'
         /\ \A y, z \in Wheel!Slot : \A j \in 1..Len(slots'[y]), m \in 1..Len(slots'[z]) :
              slots'[y][j].n = slots'[z][m].n => y = z /\ j = m
<1>1. /\ slots \in [Wheel!Slot -> Seq(Element)] /\ slots[s] \in Seq(Element)
      /\ slots'[s] = list /\ \A z \in Wheel!Slot : z # s => slots'[z] = slots[z]
      /\ slots' \in [Wheel!Slot -> Seq(Element)]
    BY DEF WheelInv, WheelType
<1>2. Len(slots[s]) \in Nat /\ k \in 1..Len(slots[s])
    BY <1>1 DEF At
<1>3. ASSUME NEW z \in Wheel!Slot, NEW j \in 1..Len(slots'[z])
      PROVE  LET m == Moved(s, k, z, j) IN
               m \in At(z) /\ slots'[z][j] = slots[z][m] /\ ~(z = s /\ m = k)
  <2>1. CASE z # s
      BY <1>1, <2>1 DEF Moved, At
  <2>2. CASE z = s
    <3>1. j \in 1..(Len(slots[s]) - 1) /\ slots'[z][j] = slots[s][IF j < k THEN j ELSE j + 1]
        BY <1>1, <2>2
    <3> QED BY <1>2, <2>2, <3>1 DEF Moved, At
  <2> QED BY <2>1, <2>2
<1>4. \A z \in Wheel!Slot : \A j \in 1..Len(slots'[z]) :
        1 <= slots'[z][j].n /\ slots'[z][j].n <= made'
    BY <1>3 DEF WheelInv, ListInv
<1>5. ASSUME NEW y \in Wheel!Slot, NEW z \in Wheel!Slot,
             NEW j \in 1..Len(slots'[y]), NEW m \in 1..Len(slots'[z]),
             slots'[y][j].n = slots'[z][m].n
      PROVE  y = z /\ j = m
  <2>1. y = z /\ Moved(s, k, y, j) = Moved(s, k, z, m)
    <3> DEFINE u == Moved(s, k, y, j)
               v == Moved(s, k, z, m)
    <3>1. /\ u \in At(y) /\ slots'[y][j] = slots[y][u]
          /\ v \in At(z) /\ slots'[z][m] = slots[z][v]
        BY <1>3
    <3> HIDE DEF u, v
    <3>2. slots[y][u].n = slots[z][v].n
        BY <1>5, <3>1
    <3>3. y = z /\ u = v
        BY <3>1, <3>2 DEF WheelInv, ListInv
    <3> QED BY <3>3 DEF u, v
  <2>2. j \in Int /\ m \in Int /\ k \in Int
      BY <1>2
  <2> QED BY <2>1, <2>2 DEF Moved
<1>6. \A y, z \in Wheel!Slot : \A j \in 1..Len(slots'[y]), m \in 1..Len(slots'[z]) :
        slots'[y][j].n = slots'[z][m].n => y = z /\ j = m
    BY <1>5, Zenon
<1>7. \A z \in Wheel!Slot : \A j \in 1..Len(slots'[z]) :
        LET m == Moved(s, k, z, j) IN
          m \in At(z) /\ slots'[z][j] = slots[z][m] /\ ~(z = s /\ m = k)
    BY <1>3, Zenon
<1> QED BY <1>1, <1>4, <1>6, <1>7, Zenon

(* References hold for fewer elements.                                      *)
LEMMA FewerRefer ==
  ASSUME WheelInv, made' = made, globalTasks' = globalTasks, call' = call, mixed' = mixed,
         \A z \in Wheel!Slot : \A j \in 1..Len(slots'[z]) :
           \E m \in At(z) : slots'[z][j] = slots[z][m]
  PROVE  MapInv' /\ CallInv'
<1>1. MapInv'
    BY DEF WheelInv, MapInv, At
<1>2. CallInv'
    BY DEF WheelInv, CallInv, At
<1> QED BY <1>1, <1>2

\* The lists after the first element of slot s was sent.
LEMMA SendLists ==
  ASSUME WheelAssumption, WheelInv, NEW s \in Wheel!Slot, Wheel!Send(s)
  PROVE  /\ slots' \in [Wheel!Slot -> Seq(Element)]
         /\ \A z \in Wheel!Slot : \A j \in 1..Len(slots'[z]) :
              LET m == Moved(s, 1, z, j) IN
                m \in At(z) /\ slots'[z][j] = slots[z][m] /\ ~(z = s /\ m = 1)
         /\ \A z \in Wheel!Slot : \A j \in 1..Len(slots'[z]) :
              1 <= slots'[z][j].n /\ slots'[z][j].n <= made'
         /\ \A y, z \in Wheel!Slot : \A j \in 1..Len(slots'[y]), m \in 1..Len(slots'[z]) :
              slots'[y][j].n = slots'[z][m].n => y = z /\ j = m
<1> DEFINE list == Tail(slots[s])
<1>1. /\ s \in untracked /\ untracked' = untracked \ {s}
      /\ slots' = [slots EXCEPT ![s] = list]
      /\ consumer' = Append(consumer, Head(slots[s]).n)
      /\ \/ Len(slots[s]) = 1 /\ lock' = [lock EXCEPT ![s] = None] /\ jobs' = jobs \ {lock[s]}
         \/ Len(slots[s]) # 1 /\ lock' = lock /\ jobs' = jobs
      /\ pos' = pos /\ globalTasks' = globalTasks
      /\ call' = call /\ made' = made /\ mixed' = mixed
    BY DEF Wheel!Send, Wheel!callVars
<1>2. /\ slots[s] \in Seq(Element) /\ Len(slots[s]) \in Nat /\ Len(slots[s]) > 0
      /\ Head(slots[s]) \in Element /\ Head(slots[s]).n \in Nat
      /\ list \in Seq(Element) /\ Len(list) = Len(slots[s]) - 1
      /\ \A j \in 1..(Len(slots[s]) - 1) : list[j] = slots[s][j + 1]
      /\ 1 \in At(s)
  <2>1. slots[s] \in Seq(Element) /\ Len(slots[s]) > 0
      BY <1>1 DEF WheelInv, WheelType, ListInv
  <2>2. Head(slots[s]) \in Element
      BY <2>1
  <2> QED BY <2>1, <2>2 DEF At, Element
<1> HIDE DEF list
<1>3. \A j \in 1..(Len(slots[s]) - 1) : list[j] = slots[s][IF j < 1 THEN j ELSE j + 1]
    BY <1>2
<1>4. /\ 1 \in At(s) /\ slots' = [slots EXCEPT ![s] = list] /\ list \in Seq(Element)
      /\ Len(list) = Len(slots[s]) - 1 /\ made' = made
    BY <1>1, <1>2, Zenon
<1> QED BY <1>3, <1>4, Shrink, Zenon

LEMMA SendKeeps ==
  ASSUME WheelAssumption, WheelInv, NEW s \in Wheel!Slot, Wheel!Send(s)
  PROVE  WheelInv'
<1> DEFINE list == Tail(slots[s])
<1>1. /\ s \in untracked /\ untracked' = untracked \ {s}
      /\ slots' = [slots EXCEPT ![s] = list]
      /\ consumer' = Append(consumer, Head(slots[s]).n)
      /\ \/ Len(slots[s]) = 1 /\ lock' = [lock EXCEPT ![s] = None] /\ jobs' = jobs \ {lock[s]}
         \/ Len(slots[s]) # 1 /\ lock' = lock /\ jobs' = jobs
      /\ pos' = pos /\ globalTasks' = globalTasks
      /\ call' = call /\ made' = made /\ mixed' = mixed
    BY DEF Wheel!Send, Wheel!callVars
<1>2. /\ slots[s] \in Seq(Element) /\ Len(slots[s]) \in Nat /\ Len(slots[s]) > 0
      /\ Head(slots[s]) \in Element /\ Head(slots[s]).n \in Nat
      /\ list \in Seq(Element) /\ Len(list) = Len(slots[s]) - 1
      /\ \A j \in 1..(Len(slots[s]) - 1) : list[j] = slots[s][j + 1]
      /\ 1 \in At(s)
  <2>1. slots[s] \in Seq(Element) /\ Len(slots[s]) > 0
      BY <1>1 DEF WheelInv, WheelType, ListInv
  <2>2. Head(slots[s]) \in Element
      BY <2>1
  <2> QED BY <2>1, <2>2 DEF At, Element
<1> HIDE DEF list
<1>3. /\ slots' \in [Wheel!Slot -> Seq(Element)]
      /\ \A z \in Wheel!Slot : \A j \in 1..Len(slots'[z]) :
           LET m == Moved(s, 1, z, j) IN
             m \in At(z) /\ slots'[z][j] = slots[z][m] /\ ~(z = s /\ m = 1)
      /\ \A z \in Wheel!Slot : \A j \in 1..Len(slots'[z]) :
           1 <= slots'[z][j].n /\ slots'[z][j].n <= made'
      /\ \A y, z \in Wheel!Slot : \A j \in 1..Len(slots'[y]), m \in 1..Len(slots'[z]) :
           slots'[y][j].n = slots'[z][m].n => y = z /\ j = m
    BY SendLists
<1>4. WheelType'
  <2>1. consumer' \in Seq(Nat)
      BY <1>1, <1>2 DEF WheelInv, WheelType
  <2>2. lock' \in [Wheel!Slot -> Wheel!Tick \cup {None}]
      BY <1>1 DEF WheelInv, WheelType
  <2> QED BY <1>1, <1>3, <2>1, <2>2 DEF WheelInv, WheelType
<1>5. ListInv'
  <2>1. ASSUME NEW z \in Wheel!Slot
        PROVE  /\ z \in untracked' => lock'[z] # None
               /\ lock'[z] # None => Len(slots'[z]) > 0
    <3>0. lock \in [Wheel!Slot -> Wheel!Tick \cup {None}]
        BY DEF WheelInv, WheelType
    <3>1. CASE z = s
      <4>1. slots'[z] = list
          BY <1>1, <3>1 DEF WheelInv, WheelType
      <4>2. lock'[z] # None => Len(slots[s]) # 1
          BY <1>1, <3>0, <3>1
      <4>3. z \notin untracked'
          BY <1>1, <3>1
      <4>4. lock'[z] # None => Len(list) > 0
        <5>1. Len(slots[s]) # 1 => Len(list) > 0
          <6>1. \A x \in Nat : x > 0 /\ x # 1 => x - 1 > 0
              OBVIOUS
          <6> QED BY <1>2, <6>1
        <5> QED BY <4>2, <5>1
      <4> QED BY <4>1, <4>3, <4>4
    <3>2. CASE z # s
      <4>1. slots'[z] = slots[z] /\ lock'[z] = lock[z]
          BY <1>1, <3>0, <3>2 DEF WheelInv, WheelType
      <4> QED BY <1>1, <3>2, <4>1 DEF WheelInv, ListInv
    <3> QED BY <3>1, <3>2
  <2> QED BY <1>3, <2>1 DEF ListInv, At
<1>6. MapInv' /\ CallInv'
  <2>1. \A z \in Wheel!Slot : \A j \in 1..Len(slots'[z]) :
          \E m \in At(z) : slots'[z][j] = slots[z][m]
      BY <1>3
  <2>2. made' = made /\ globalTasks' = globalTasks /\ call' = call /\ mixed' = mixed
      BY <1>1
  <2> QED BY <2>1, <2>2, FewerRefer
<1>7. TrackInv'
  <2> SUFFICES ASSUME NEW z \in Wheel!Slot, NEW j \in 1..Len(slots'[z])
               PROVE  LET e == slots'[z][j] IN
                        \/ e.id \in mixed
                        \/ z \in untracked' /\ j = 1
                        \/ /\ globalTasks[e.id].n = e.n
                           /\ \A o \in Wheel!Users : call[o].id # e.id
                        \/ \E o \in Wheel!Users :
                             /\ call[o].id = e.id /\ call[o].op \in Referring
                             /\ call[o].old.n = e.n
      BY <1>1 DEF TrackInv, At
  <2> DEFINE m == Moved(s, 1, z, j)
             e == slots[z][m]
  <2>1. m \in At(z) /\ slots'[z][j] = e /\ ~(z = s /\ m = 1)
      BY <1>3
  <2>2. z \in untracked /\ m = 1 => z \in untracked' /\ j = 1
      BY <1>1, <2>1 DEF Moved
  <2> QED BY <2>1, <2>2 DEF WheelInv, TrackInv
<1> QED BY <1>4, <1>5, <1>6, <1>7 DEF WheelInv
(* A call begins: what it found is the element of its id, or there is none.  *)
LEMMA CallStarts ==
  ASSUME WheelAssumption, WheelInv, NEW o \in Wheel!Users, NEW k \in Ids, NEW new \in CallOf,
         call[o] = Wheel!NoCall, call' = [call EXCEPT ![o] = new],
         new.id = k, new.old = globalTasks[k],
         \/ new.op = "push" /\ globalTasks[k] = Wheel!NoTask
         \/ new.op \in {"replace", "cancel"} /\ globalTasks[k] # Wheel!NoTask,
         new.op \in {"replace", "push"} => new.due \in Wheel!Tick,
         Wheel!Overlap(o, k),
         pos' = pos, jobs' = jobs, lock' = lock, untracked' = untracked, slots' = slots,
         consumer' = consumer, globalTasks' = globalTasks, made' = made
  PROVE  WheelInv'
<1>1. /\ call \in [Wheel!Users -> CallOf] /\ globalTasks \in [Ids -> Ref] /\ None \notin Ids
      /\ call[o].id = None /\ call[o].op = "none"
    BY DEF WheelInv, WheelType, WheelAssumption, Wheel!NoCall
<1>2. WheelType' /\ ListInv' /\ MapInv'
  <2>1. WheelType'
      BY <1>1 DEF WheelInv, WheelType
  <2>2. ListInv'
      BY DEF WheelInv, ListInv, At
  <2>3. MapInv'
      BY DEF WheelInv, MapInv, At
  <2> QED BY <2>1, <2>2, <2>3
<1>3. /\ call'[o] = new /\ \A p \in Wheel!Users : p # o => call'[p] = call[p]
    BY <1>1
<1>4. /\ \A x \in mixed : x \in mixed'
      /\ \A p \in Wheel!Users : p # o /\ call[p].id = k => k \in mixed'
    BY DEF Wheel!Overlap
<1>5. CallInv'
  <2>1. /\ new.op # "none" /\ new.op \in Referring => globalTasks[k] # Wheel!NoTask
      BY DEF Referring
  <2>2. ASSUME NEW p \in Wheel!Users
        PROVE  /\ call'[p].op = "none" => call'[p].id = None
               /\ call'[p].op # "none" => call'[p].id \in Ids
               /\ call'[p].op \in {"replace", "push"} => call'[p].due \in Wheel!Tick
               /\ call'[p].op \in Referring => call'[p].old.slotIdx \in Wheel!Slot
               /\ call'[p].old.n <= made
               /\ \A s \in Wheel!Slot : \A j \in At(s) :
                    slots[s][j].n = call'[p].old.n => call'[p].old.slotIdx = s
    <3>1. CASE p # o
      <4>1. call'[p] = call[p]
          BY <1>3, <3>1
      <4> QED BY <4>1 DEF WheelInv, CallInv
    <3>2. CASE p = o
      <4>1. call'[p] = new
          BY <1>3, <3>2
      <4> QED BY <2>1, <4>1 DEF WheelInv, MapInv
    <3> QED BY <3>1, <3>2
  <2>3. ASSUME NEW p \in Wheel!Users, NEW q \in Wheel!Users, p # q,
               call'[p].id = call'[q].id, call'[p].id # None
        PROVE  call'[p].id \in mixed'
      BY <1>3, <1>4, <2>3 DEF WheelInv, CallInv
  <2> QED BY <2>2, <2>3 DEF CallInv, At
<1>6. TrackInv'
  <2> SUFFICES ASSUME NEW s \in Wheel!Slot, NEW j \in At(s)
               PROVE  LET e == slots[s][j] IN
                        \/ e.id \in mixed'
                        \/ s \in untracked /\ j = 1
                        \/ /\ globalTasks[e.id].n = e.n
                           /\ \A p \in Wheel!Users : call'[p].id # e.id
                        \/ \E p \in Wheel!Users :
                             /\ call'[p].id = e.id /\ call'[p].op \in Referring
                             /\ call'[p].old.n = e.n
      BY DEF TrackInv, At
  <2> DEFINE e == slots[s][j]
  <2>1. e.id \in Ids /\ 1 <= e.n
    <3>1. slots[s] \in Seq(Element) /\ j \in 1..Len(slots[s])
        BY DEF WheelInv, WheelType, At
    <3>2. slots[s][j] \in Element
        BY <3>1
    <3> QED BY <3>2 DEF Element, WheelInv, ListInv
  <2>2. \/ e.id \in mixed
        \/ s \in untracked /\ j = 1
        \/ globalTasks[e.id].n = e.n /\ \A p \in Wheel!Users : call[p].id # e.id
        \/ \E p \in Wheel!Users :
             call[p].id = e.id /\ call[p].op \in Referring /\ call[p].old.n = e.n
      BY DEF WheelInv, TrackInv
  <2> HIDE DEF e
  <2>3. CASE globalTasks[e.id].n = e.n /\ \A p \in Wheel!Users : call[p].id # e.id
    <3>1. CASE e.id = k
      <4>1. globalTasks[k] # Wheel!NoTask
          BY <2>1, <2>3, <3>1 DEF Wheel!NoTask
      <4>2. new.op \in Referring /\ new.old.n = e.n
          BY <2>3, <3>1, <4>1 DEF Referring
      <4> QED BY <1>3, <3>1, <4>2 DEF e
    <3>2. CASE e.id # k
        BY <1>3, <2>3, <3>2 DEF e
    <3> QED BY <3>1, <3>2
  <2>4. ASSUME NEW p \in Wheel!Users,
               call[p].id = e.id, call[p].op \in Referring, call[p].old.n = e.n
        PROVE  e.id \in mixed' \/ (call'[p].id = e.id /\ call'[p].op \in Referring /\ call'[p].old.n = e.n)
    <3>1. p # o
        BY <1>1, <2>1, <2>4
    <3> QED BY <1>3, <2>4, <3>1
  <2> QED BY <1>4, <2>2, <2>3, <2>4 DEF e
<1> QED BY <1>2, <1>5, <1>6 DEF WheelInv

LEMMA AddKeeps ==
  ASSUME WheelAssumption, WheelInv, NEW o \in Wheel!Users, NEW k \in Ids,
         NEW d \in Wheel!Delays, Wheel!Add(o, k, d)
  PROVE  WheelInv'
<1> DEFINE new == [op  |-> IF globalTasks[k] = Wheel!NoTask THEN "push" ELSE "replace",
                   id  |-> k, due |-> Wheel!After(pos, d), old |-> globalTasks[k]]
<1>1. /\ call[o] = Wheel!NoCall /\ call' = [call EXCEPT ![o] = new]
      /\ Wheel!Overlap(o, k)
      /\ pos' = pos /\ jobs' = jobs /\ lock' = lock /\ untracked' = untracked
      /\ slots' = slots /\ consumer' = consumer /\ globalTasks' = globalTasks /\ made' = made
    BY DEF Wheel!Add, Wheel!CanCall, Wheel!Found, Wheel!wheelSide
<1>2. Wheel!After(pos, d) \in Wheel!Tick
    BY SlotTypes DEF WheelInv, WheelType
<1>3. globalTasks[k] \in Ref
    BY DEF WheelInv, WheelType
<1>4. new \in CallOf
    BY <1>2, <1>3 DEF CallOf, Ops
<1>5. /\ new.id = k /\ new.old = globalTasks[k] /\ new.due \in Wheel!Tick
      /\ \/ new.op = "push" /\ globalTasks[k] = Wheel!NoTask
         \/ new.op \in {"replace", "cancel"} /\ globalTasks[k] # Wheel!NoTask
    BY <1>2
<1> HIDE DEF new
<1> QED BY <1>1, <1>4, <1>5, CallStarts

LEMMA CancelKeeps ==
  ASSUME WheelAssumption, WheelInv, NEW o \in Wheel!Users, NEW k \in Ids, Wheel!Cancel(o, k)
  PROVE  WheelInv'
<1> DEFINE new == [op |-> "cancel", id |-> k, due |-> None, old |-> globalTasks[k]]
<1>1. /\ call[o] = Wheel!NoCall /\ call' = [call EXCEPT ![o] = new]
      /\ globalTasks[k] # Wheel!NoTask /\ Wheel!Overlap(o, k)
      /\ pos' = pos /\ jobs' = jobs /\ lock' = lock /\ untracked' = untracked
      /\ slots' = slots /\ consumer' = consumer /\ globalTasks' = globalTasks /\ made' = made
    BY DEF Wheel!Cancel, Wheel!CanCall, Wheel!Found, Wheel!wheelSide
<1>2. globalTasks[k] \in Ref
    BY DEF WheelInv, WheelType
<1>3. new \in CallOf
    BY <1>2 DEF CallOf, Ops
<1>4. new.id = k /\ new.old = globalTasks[k] /\ new.op = "cancel"
    OBVIOUS
<1> HIDE DEF new
<1> QED BY <1>1, <1>3, <1>4, CallStarts
\* The lists after a call took the element it had found out of its list.
LEMMA DropLists ==
  ASSUME WheelAssumption, WheelInv, NEW o \in Wheel!Users,
         call[o].op \in {"replace", "cancel"}, Wheel!Drop(call[o].old), made' = made
  PROVE  LET old == call[o].old
             s   == old.slotIdx
         IN /\ slots' \in [Wheel!Slot -> Seq(Element)]
            /\ \A z \in Wheel!Slot : \A j \in 1..Len(slots'[z]) :
                 \E m \in At(z) :
                   /\ slots'[z][j] = slots[z][m]
                   /\ slots[z][m].n # old.n
                   /\ z # s => m = j
            /\ \A z \in Wheel!Slot : z # s => slots'[z] = slots[z]
            /\ \A z \in Wheel!Slot : \A j \in 1..Len(slots'[z]) :
                 1 <= slots'[z][j].n /\ slots'[z][j].n <= made'
            /\ \A y, z \in Wheel!Slot : \A j \in 1..Len(slots'[y]), m \in 1..Len(slots'[z]) :
                 slots'[y][j].n = slots'[z][m].n => y = z /\ j = m
<1> DEFINE old == call[o].old
           s   == old.slotIdx
<1>1. /\ slots \in [Wheel!Slot -> Seq(Element)]
      /\ s \in Wheel!Slot /\ lock[s] = None
    BY DEF WheelInv, WheelType, CallInv, Referring, Wheel!Drop
<1> DEFINE here == {k \in DOMAIN slots[s] : slots[s][k].n = old.n}
<1>2. DOMAIN slots[s] = At(s)
    BY <1>1 DEF At
<1>3. CASE here = {}
  <2>1. slots' = slots
      BY <1>3 DEF Wheel!Drop
  <2>2. \A z \in Wheel!Slot : \A j \in At(z) : slots[z][j].n # old.n
      BY <1>2, <1>3 DEF WheelInv, CallInv
  <2> QED BY <1>1, <2>1, <2>2 DEF WheelInv, ListInv, At
<1>4. CASE here # {}
  <2>1. PICK k \in here : slots' = [slots EXCEPT ![s] = Wheel!RemoveAt(slots[s], k)]
      BY <1>4 DEF Wheel!Drop
  <2> DEFINE list == Wheel!RemoveAt(slots[s], k)
  <2>2. k \in At(s) /\ slots[s][k].n = old.n /\ slots[s] \in Seq(Element)
      BY <1>1, <1>2
  <2>0. k \in 1..Len(slots[s])
      BY <2>2 DEF At
  <2>3. /\ list \in Seq(Element) /\ Len(list) = Len(slots[s]) - 1
        /\ \A j \in 1..(Len(slots[s]) - 1) : list[j] = slots[s][IF j < k THEN j ELSE j + 1]
    <3> DEFINE q == slots[s]
    <3>1. q \in Seq(Element) /\ k \in 1..Len(q)
        BY <2>0, <2>2
    <3> HIDE DEF q
    <3>2. /\ list \in Seq(Element) /\ Len(list) = Len(q) - 1
          /\ \A j \in 1..(Len(q) - 1) : list[j] = q[IF j < k THEN j ELSE j + 1]
      <4>1. /\ Wheel!RemoveAt(q, k) \in Seq(Element)
            /\ Len(Wheel!RemoveAt(q, k)) = Len(q) - 1
            /\ \A j \in 1..(Len(q) - 1) :
                 Wheel!RemoveAt(q, k)[j] = q[IF j < k THEN j ELSE j + 1]
          BY <3>1, RemoveFacts
      <4> QED BY <4>1 DEF q
    <3> QED BY <3>2 DEF q
  <2> HIDE DEF list
  <2>4. slots' = [slots EXCEPT ![s] = list]
      BY <2>1 DEF list
  <2>5. /\ slots' \in [Wheel!Slot -> Seq(Element)]
        /\ \A z \in Wheel!Slot : \A j \in 1..Len(slots'[z]) :
             LET m == Moved(s, k, z, j) IN
               m \in At(z) /\ slots'[z][j] = slots[z][m] /\ ~(z = s /\ m = k)
        /\ \A z \in Wheel!Slot : \A j \in 1..Len(slots'[z]) :
             1 <= slots'[z][j].n /\ slots'[z][j].n <= made'
        /\ \A y, z \in Wheel!Slot : \A j \in 1..Len(slots'[y]), m \in 1..Len(slots'[z]) :
             slots'[y][j].n = slots'[z][m].n => y = z /\ j = m
    <3>1. WheelInv /\ s \in Wheel!Slot /\ k \in At(s) /\ made' = made
        BY <1>1, <2>2
    <3> HIDE DEF s, old, here
    <3> QED BY <2>3, <2>4, <3>1, Shrink, Zenon
  <2>6. ASSUME NEW z \in Wheel!Slot, NEW j \in 1..Len(slots'[z])
        PROVE  \E m \in At(z) :
                 /\ slots'[z][j] = slots[z][m] /\ slots[z][m].n # old.n
                 /\ z # s => m = j
    <3> DEFINE m == Moved(s, k, z, j)
    <3>1. m \in At(z) /\ slots'[z][j] = slots[z][m] /\ ~(z = s /\ m = k)
        BY <2>5
    <3>2. slots[z][m].n # old.n
        BY <1>1, <2>2, <3>1, SMTT(30) DEF WheelInv, ListInv
    <3>3. z # s => m = j
        BY DEF Moved
    <3> QED BY <3>1, <3>2, <3>3
  <2>7. \A z \in Wheel!Slot : z # s => slots'[z] = slots[z]
      BY <1>1, <2>4
  <2>8. \A z \in Wheel!Slot : \A j \in 1..Len(slots'[z]) :
          \E m \in At(z) : /\ slots'[z][j] = slots[z][m] /\ slots[z][m].n # old.n
                           /\ z # s => m = j
      BY <2>6
  <2> HIDE DEF s, old
  <2>9. /\ slots' \in [Wheel!Slot -> Seq(Element)]
        /\ \A z \in Wheel!Slot : \A j \in 1..Len(slots'[z]) :
             1 <= slots'[z][j].n /\ slots'[z][j].n <= made'
        /\ \A y, z \in Wheel!Slot : \A j \in 1..Len(slots'[y]), m \in 1..Len(slots'[z]) :
             slots'[y][j].n = slots'[z][m].n => y = z /\ j = m
      BY <2>5
  <2> QED BY <2>7, <2>8, <2>9, SMTT(30) DEF s, old
<1> QED BY <1>3, <1>4

(* A call took the element it had found out of its list.                    *)
LEMMA DropKeeps ==
  ASSUME WheelAssumption, WheelInv, NEW o \in Wheel!Users,
         call[o].op \in {"replace", "cancel"}, Wheel!Drop(call[o].old),
         NEW op \in {"push", "forget"},
         call[o].op = "replace" => op = "push",
         call[o].op = "cancel" => op = "forget",
         call' = [call EXCEPT ![o].op = op, ![o].old = Wheel!NoTask],
         pos' = pos, jobs' = jobs, lock' = lock, untracked' = untracked,
         consumer' = consumer, globalTasks' = globalTasks, made' = made, mixed' = mixed
  PROVE  WheelInv'
<1> DEFINE old == call[o].old
           s   == old.slotIdx
<1>1. /\ call \in [Wheel!Users -> CallOf] /\ call[o] \in CallOf
      /\ slots \in [Wheel!Slot -> Seq(Element)]
      /\ s \in Wheel!Slot /\ lock[s] = None /\ s \notin untracked
      /\ Wheel!NoTask \in Ref /\ Wheel!NoTask.n = 0
    BY DEF WheelInv, WheelType, CallInv, ListInv, Referring, Wheel!Drop, Wheel!NoTask, Ref
<1>2. /\ call'[o].op = op /\ call'[o].old = Wheel!NoTask
      /\ call'[o].id = call[o].id /\ call'[o].due = call[o].due
      /\ \A p \in Wheel!Users : p # o => call'[p] = call[p]
      /\ call' \in [Wheel!Users -> CallOf]
    BY <1>1 DEF CallOf, Ops
<1>3. /\ slots' \in [Wheel!Slot -> Seq(Element)]
      /\ \A z \in Wheel!Slot : \A j \in 1..Len(slots'[z]) :
           \E m \in At(z) :
             /\ slots'[z][j] = slots[z][m]
             /\ slots[z][m].n # old.n
             /\ z # s => m = j
      /\ \A z \in Wheel!Slot : z # s => slots'[z] = slots[z]
      /\ \A z \in Wheel!Slot : \A j \in 1..Len(slots'[z]) :
           1 <= slots'[z][j].n /\ slots'[z][j].n <= made'
      /\ \A y, z \in Wheel!Slot : \A j \in 1..Len(slots'[y]), m \in 1..Len(slots'[z]) :
           slots'[y][j].n = slots'[z][m].n => y = z /\ j = m
    BY DropLists
<1>4. WheelType'
    BY <1>2, <1>3 DEF WheelInv, WheelType
<1>5. ListInv'
  <2>1. ASSUME NEW z \in Wheel!Slot
        PROVE  /\ z \in untracked => lock[z] # None
               /\ lock[z] # None => Len(slots'[z]) > 0
    <3>1. lock[z] # None => slots'[z] = slots[z]
        BY <1>1, <1>3
    <3> QED BY <3>1 DEF WheelInv, ListInv
  <2> QED BY <1>3, <2>1 DEF ListInv, At
<1>6. MapInv'
    BY <1>3 DEF WheelInv, MapInv, At
<1>7. CallInv'
  <2>1. ASSUME NEW p \in Wheel!Users
        PROVE  /\ call'[p].op = "none" => call'[p].id = None
               /\ call'[p].op # "none" => call'[p].id \in Ids
               /\ call'[p].op \in {"replace", "push"} => call'[p].due \in Wheel!Tick
               /\ call'[p].op \in Referring => call'[p].old.slotIdx \in Wheel!Slot
               /\ call'[p].old.n <= made
               /\ \A z \in Wheel!Slot : \A j \in 1..Len(slots'[z]) :
                    slots'[z][j].n = call'[p].old.n => call'[p].old.slotIdx = z
    <3>1. CASE p # o
      <4>1. call'[p] = call[p]
          BY <1>2, <3>1
      <4>2. \A z \in Wheel!Slot : \A j \in At(z) :
              slots[z][j].n = call[p].old.n => call[p].old.slotIdx = z
          BY DEF WheelInv, CallInv
      <4>3. \A z \in Wheel!Slot : \A j \in 1..Len(slots'[z]) :
              slots'[z][j].n = call[p].old.n => call[p].old.slotIdx = z
          BY <1>3, <4>2
      <4> QED BY <4>1, <4>3 DEF WheelInv, CallInv
    <3>2. CASE p = o
      <4>1. call[o].id \in Ids /\ (call[o].op = "replace" => call[o].due \in Wheel!Tick)
          BY DEF WheelInv, CallInv
      <4>2. made \in Nat
          BY DEF WheelInv, WheelType
      <4>3. op # "none" /\ op \notin Referring /\ (op = "push" => call[o].op = "replace")
          BY DEF Referring
      <4> QED BY <1>1, <1>2, <1>3, <3>2, <4>1, <4>2, <4>3
    <3> QED BY <3>1, <3>2
  <2>2. ASSUME NEW p \in Wheel!Users, NEW q \in Wheel!Users, p # q,
               call'[p].id = call'[q].id, call'[p].id # None
        PROVE  call'[p].id \in mixed
    <3>1. call'[p].id = call[p].id /\ call'[q].id = call[q].id
        BY <1>2
    <3> QED BY <2>2, <3>1 DEF WheelInv, CallInv
  <2>3. \A p \in Wheel!Users : \A z \in Wheel!Slot : \A j \in At(z)' :
          slots'[z][j].n = call'[p].old.n => call'[p].old.slotIdx = z
      BY <2>1 DEF At
  <2>4. \A p \in Wheel!Users :
          /\ call'[p].op = "none" => call'[p].id = None
          /\ call'[p].op # "none" => call'[p].id \in Ids
          /\ call'[p].op \in {"replace", "push"} => call'[p].due \in Wheel!Tick
          /\ call'[p].op \in Referring => call'[p].old.slotIdx \in Wheel!Slot
          /\ call'[p].old.n <= made'
      BY <2>1
  <2> QED BY <2>2, <2>3, <2>4, ZenonT(30) DEF CallInv
<1>8. TrackInv'
  <2> SUFFICES ASSUME NEW z \in Wheel!Slot, NEW j \in At(z)'
               PROVE  LET e == slots'[z][j] IN
                        \/ e.id \in mixed'
                        \/ z \in untracked' /\ j = 1
                        \/ /\ globalTasks'[e.id].n = e.n
                           /\ \A p \in Wheel!Users : call'[p].id # e.id
                        \/ \E p \in Wheel!Users :
                             /\ call'[p].id = e.id /\ call'[p].op \in Referring
                             /\ call'[p].old.n = e.n
      BY ZenonT(30) DEF TrackInv
  <2> DEFINE e == slots'[z][j]
  <2>0. /\ j \in 1..Len(slots'[z])
        /\ mixed' = mixed /\ untracked' = untracked /\ globalTasks' = globalTasks
      BY DEF At
  <2>1. PICK m \in At(z) : e = slots[z][m] /\ e.n # old.n /\ (z # s => m = j)
      BY <1>3, <2>0
  <2>2. \/ e.id \in mixed
        \/ z \in untracked /\ m = 1
        \/ globalTasks[e.id].n = e.n /\ \A p \in Wheel!Users : call[p].id # e.id
        \/ \E p \in Wheel!Users :
             call[p].id = e.id /\ call[p].op \in Referring /\ call[p].old.n = e.n
      BY <2>1 DEF WheelInv, TrackInv
  <2>3. z \in untracked => m = j
      BY <1>1, <2>1
  <2>4. \A p \in Wheel!Users : call'[p].id = call[p].id
      BY <1>2
  <2>5. \A p \in Wheel!Users : call[p].old.n = e.n => call'[p] = call[p]
      BY <1>2, <2>1
  <2> QED BY <2>0, <2>2, <2>3, <2>4, <2>5
<1> QED BY <1>4, <1>5, <1>6, <1>7, <1>8 DEF WheelInv

(* The two calls that take an element out.                                  *)
LEMMA ReplaceKeeps ==
  ASSUME WheelAssumption, WheelInv, NEW o \in Wheel!Users,
         Wheel!Replace(o) \/ Wheel!CancelRemove(o)
  PROVE  WheelInv'
<1>1. /\ pos' = pos /\ jobs' = jobs /\ lock' = lock /\ untracked' = untracked
      /\ consumer' = consumer /\ globalTasks' = globalTasks /\ made' = made /\ mixed' = mixed
      /\ Wheel!Drop(call[o].old)
    BY DEF Wheel!Replace, Wheel!CancelRemove, Wheel!wheelSide
<1>2. CASE Wheel!Replace(o)
  <2>1. /\ call[o].op = "replace"
        /\ call' = [call EXCEPT ![o].op = "push", ![o].old = Wheel!NoTask]
      BY <1>2 DEF Wheel!Replace
  <2> QED BY <1>1, <2>1, DropKeeps
<1>3. CASE Wheel!CancelRemove(o)
  <2>1. /\ call[o].op = "cancel"
        /\ call' = [call EXCEPT ![o].op = "forget", ![o].old = Wheel!NoTask]
      BY <1>3 DEF Wheel!CancelRemove
  <2> QED BY <1>1, <2>1, DropKeeps
<1> QED BY <1>2, <1>3

(* The new element is the one the call is about to put in the map.          *)
LEMMA PushKeeps ==
  ASSUME WheelAssumption, WheelInv, NEW o \in Wheel!Users, Wheel!Push(o)
  PROVE  WheelInv'
<1> DEFINE s    == Wheel!SlotOf(call[o].due)
           n    == Len(slots[s])
           due  == IF Wheel!Raced(call[o].due) THEN None ELSE call[o].due
           new  == [n |-> made + 1, id |-> call[o].id, due |-> due]
           ref  == [slotIdx |-> s, n |-> made + 1]
<1>1. /\ call[o].op = "push" /\ lock[s] = None /\ made' = made + 1
      /\ slots' = [slots EXCEPT ![s] = Append(slots[s], new)]
      /\ call' = [call EXCEPT ![o].op = "set", ![o].due = None, ![o].old = ref]
      /\ pos' = pos /\ jobs' = jobs /\ lock' = lock /\ untracked' = untracked
      /\ consumer' = consumer /\ globalTasks' = globalTasks /\ mixed' = mixed
    BY DEF Wheel!Push, Wheel!wheelSide
<1>2. /\ call \in [Wheel!Users -> CallOf] /\ call[o] \in CallOf /\ made \in Nat
      /\ call[o].due \in Wheel!Tick /\ call[o].id \in Ids
      /\ slots \in [Wheel!Slot -> Seq(Element)]
      /\ s \in Wheel!Slot /\ slots[s] \in Seq(Element) /\ n \in Nat
  <2>1. /\ call \in [Wheel!Users -> CallOf] /\ made \in Nat
        /\ slots \in [Wheel!Slot -> Seq(Element)]
        /\ call[o].due \in Wheel!Tick /\ call[o].id \in Ids
      BY <1>1 DEF WheelInv, WheelType, CallInv
  <2>2. s \in Wheel!Slot
      BY <2>1, SlotTypes
  <2> QED BY <2>1, <2>2
<1>3. /\ new \in Element /\ new.n = made + 1 /\ new.id = call[o].id
      /\ ref \in Ref /\ ref.slotIdx = s /\ ref.n = made + 1
  <2>1. due \in Wheel!Tick \cup {None}
      BY <1>2
  <2> HIDE DEF due
  <2> QED BY <1>2, <2>1 DEF Element, Ref
<1> HIDE DEF new, ref, due
<1>4. /\ call'[o].op = "set" /\ call'[o].old = ref /\ call'[o].id = call[o].id
      /\ \A p \in Wheel!Users : p # o => call'[p] = call[p]
      /\ call' \in [Wheel!Users -> CallOf]
    BY <1>1, <1>2, <1>3 DEF CallOf, Ops
<1>5. /\ slots' \in [Wheel!Slot -> Seq(Element)]
      /\ Len(slots'[s]) = n + 1 /\ slots'[s][n + 1] = new
      /\ \A j \in 1..n : slots'[s][j] = slots[s][j]
      /\ \A z \in Wheel!Slot : z # s => slots'[z] = slots[z]
    BY <1>1, <1>2, <1>3
<1>6. ASSUME NEW z \in Wheel!Slot, NEW j \in 1..Len(slots'[z])
      PROVE  \/ z = s /\ j = n + 1 /\ slots'[z][j] = new
             \/ j \in At(z) /\ slots'[z][j] = slots[z][j] /\ slots[z][j].n <= made
                  /\ 1 <= slots[z][j].n /\ slots[z][j].n \in Nat
  <2>1. CASE z = s /\ j = n + 1
      BY <1>5, <2>1
  <2>2. CASE ~(z = s /\ j = n + 1)
    <3>1. j \in At(z) /\ slots'[z][j] = slots[z][j]
      <4>1. CASE z = s
          BY <1>2, <1>5, <2>2, <4>1 DEF At
      <4>2. CASE z # s
          BY <1>5, <4>2 DEF At
      <4> QED BY <4>1, <4>2
    <3>2. slots[z][j] \in Element
        BY <1>2, <3>1 DEF At
    <3> QED BY <3>1, <3>2 DEF WheelInv, ListInv, Element
  <2> QED BY <2>1, <2>2
<1>7. WheelType'
    BY <1>1, <1>2, <1>4, <1>5 DEF WheelInv, WheelType
<1>8. ListInv'
  <2>1. ASSUME NEW z \in Wheel!Slot
        PROVE  /\ z \in untracked => lock[z] # None
               /\ lock[z] # None => Len(slots'[z]) > 0
    <3>1. lock[z] # None => slots'[z] = slots[z]
        BY <1>1, <1>5
    <3> QED BY <3>1 DEF WheelInv, ListInv
  <2>2. \A z \in Wheel!Slot : \A j \in 1..Len(slots'[z]) :
          1 <= slots'[z][j].n /\ slots'[z][j].n <= made + 1
    <3> SUFFICES ASSUME NEW z \in Wheel!Slot, NEW j \in 1..Len(slots'[z])
                 PROVE  1 <= slots'[z][j].n /\ slots'[z][j].n <= made + 1
        OBVIOUS
    <3>1. slots'[z][j].n = made + 1 \/ (slots'[z][j].n \in Nat /\ 1 <= slots'[z][j].n
                                         /\ slots'[z][j].n <= made)
        BY <1>3, <1>6
    <3> QED BY <1>2, <3>1
  <2>3. ASSUME NEW y \in Wheel!Slot, NEW z \in Wheel!Slot,
               NEW j \in 1..Len(slots'[y]), NEW m \in 1..Len(slots'[z]),
               slots'[y][j].n = slots'[z][m].n
        PROVE  y = z /\ j = m
    <3>1. \A x \in Nat : x <= made => x # made + 1
        BY <1>2
    <3>2. (y = s /\ j = n + 1) <=> (z = s /\ m = n + 1)
      <4>1. slots'[y][j].n = made + 1 <=> (y = s /\ j = n + 1)
        <5>1. slots'[y][j].n = made + 1 => (y = s /\ j = n + 1)
            BY <1>6, <3>1
        <5>2. (y = s /\ j = n + 1) => slots'[y][j].n = made + 1
            BY <1>3, <1>5
        <5> QED BY <5>1, <5>2
      <4>2. slots'[z][m].n = made + 1 <=> (z = s /\ m = n + 1)
        <5>1. slots'[z][m].n = made + 1 => (z = s /\ m = n + 1)
            BY <1>6, <3>1
        <5>2. (z = s /\ m = n + 1) => slots'[z][m].n = made + 1
            BY <1>3, <1>5
        <5> QED BY <5>1, <5>2
      <4> QED BY <2>3, <4>1, <4>2
    <3>3. CASE ~(y = s /\ j = n + 1)
      <4>1. j \in At(y) /\ slots'[y][j] = slots[y][j]
          BY <1>6, <3>3
      <4>2. m \in At(z) /\ slots'[z][m] = slots[z][m]
          BY <1>6, <3>2, <3>3
      <4>3. slots[y][j].n = slots[z][m].n
          BY <2>3, <4>1, <4>2
      <4> QED BY <4>1, <4>2, <4>3 DEF WheelInv, ListInv
    <3> QED BY <3>2, <3>3
  <2>4. \A z \in Wheel!Slot : \A j \in At(z)' :
          1 <= slots'[z][j].n /\ slots'[z][j].n <= made'
      BY <1>1, <2>2 DEF At
  <2>5. \A y, z \in Wheel!Slot : \A j \in At(y)', m \in At(z)' :
          slots'[y][j].n = slots'[z][m].n => y = z /\ j = m
      BY <2>3 DEF At
  <2>6. \A z \in Wheel!Slot :
          /\ z \in untracked' => lock'[z] # None
          /\ lock'[z] # None => Len(slots'[z]) > 0
      BY <1>1, <2>1
  <2> QED BY <2>4, <2>5, <2>6, ZenonT(30) DEF ListInv
<1>9. MapInv'
  <2> SUFFICES ASSUME NEW k \in Ids
               PROVE  /\ globalTasks[k].n <= made + 1
                      /\ globalTasks[k] # Wheel!NoTask => globalTasks[k].slotIdx \in Wheel!Slot
                      /\ \A z \in Wheel!Slot : \A j \in 1..Len(slots'[z]) :
                           slots'[z][j].n = globalTasks[k].n => globalTasks[k].slotIdx = z
      BY <1>1 DEF MapInv, At
  <2>1. globalTasks[k].n \in Nat /\ globalTasks[k].n <= made
      BY DEF WheelInv, WheelType, MapInv, Ref
  <2>2. globalTasks[k].n # made + 1 /\ globalTasks[k].n <= made + 1
      BY <1>2, <2>1
  <2> QED BY <1>3, <1>6, <2>2 DEF WheelInv, MapInv
<1>10. CallInv'
  <2>1. ASSUME NEW p \in Wheel!Users
        PROVE  /\ call'[p].op = "none" => call'[p].id = None
               /\ call'[p].op # "none" => call'[p].id \in Ids
               /\ call'[p].op \in {"replace", "push"} => call'[p].due \in Wheel!Tick
               /\ call'[p].op \in Referring => call'[p].old.slotIdx \in Wheel!Slot
               /\ call'[p].old.n <= made + 1
               /\ \A z \in Wheel!Slot : \A j \in 1..Len(slots'[z]) :
                    slots'[z][j].n = call'[p].old.n => call'[p].old.slotIdx = z
    <3>1. CASE p # o
      <4>1. call'[p] = call[p]
          BY <1>4, <3>1
      <4>2. call[p].old.n \in Nat /\ call[p].old.n <= made
        <5>1. call[p] \in CallOf
            BY <1>2
        <5> QED BY <5>1 DEF WheelInv, CallInv, CallOf, Ref
      <4>3. call[p].old.n # made + 1 /\ call[p].old.n <= made + 1
          BY <1>2, <4>2
      <4>4. \A z \in Wheel!Slot : \A j \in 1..Len(slots'[z]) :
              slots'[z][j].n = call[p].old.n => call[p].old.slotIdx = z
          BY <1>3, <1>6, <4>3 DEF WheelInv, CallInv
      <4> QED BY <4>1, <4>3, <4>4 DEF WheelInv, CallInv
    <3>2. CASE p = o
      <4>1. \A z \in Wheel!Slot : \A j \in 1..Len(slots'[z]) :
              slots'[z][j].n = made + 1 => z = s
        <5>1. \A x \in Nat : x <= made => x # made + 1
            BY <1>2
        <5> QED BY <1>6, <5>1
      <4>2. made + 1 <= made + 1
          BY <1>2
      <4>3. call'[p].op = "set" /\ call'[p].id \in Ids
          BY <1>2, <1>4, <3>2
      <4>4. call'[p].old.slotIdx = s /\ call'[p].old.n = made + 1
          BY <1>3, <1>4, <3>2
      <4>5. /\ call'[p].old.slotIdx \in Wheel!Slot /\ call'[p].old.n <= made + 1
            /\ \A z \in Wheel!Slot : \A j \in 1..Len(slots'[z]) :
                 slots'[z][j].n = call'[p].old.n => call'[p].old.slotIdx = z
          BY <1>2, <4>1, <4>2, <4>4
      <4> QED BY <4>3, <4>5
    <3> QED BY <3>1, <3>2
  <2>2. ASSUME NEW p \in Wheel!Users, NEW q \in Wheel!Users, p # q,
               call'[p].id = call'[q].id, call'[p].id # None
        PROVE  call'[p].id \in mixed
    <3>1. call'[p].id = call[p].id /\ call'[q].id = call[q].id
        BY <1>4
    <3> QED BY <2>2, <3>1 DEF WheelInv, CallInv
  <2>3. \A p \in Wheel!Users : \A z \in Wheel!Slot : \A j \in At(z)' :
          slots'[z][j].n = call'[p].old.n => call'[p].old.slotIdx = z
      BY <2>1 DEF At
  <2>4. \A p \in Wheel!Users :
          /\ call'[p].op = "none" => call'[p].id = None
          /\ call'[p].op # "none" => call'[p].id \in Ids
          /\ call'[p].op \in {"replace", "push"} => call'[p].due \in Wheel!Tick
          /\ call'[p].op \in Referring => call'[p].old.slotIdx \in Wheel!Slot
          /\ call'[p].old.n <= made'
      BY <1>1, <2>1, ZenonT(30)
  <2>5. mixed' = mixed
      BY <1>1
  <2> QED BY <2>2, <2>3, <2>4, <2>5, ZenonT(30) DEF CallInv
<1>11. TrackInv'
  <2>0. globalTasks' = globalTasks /\ untracked' = untracked /\ mixed' = mixed
      BY <1>1
  <2> SUFFICES ASSUME NEW z \in Wheel!Slot, NEW j \in 1..Len(slots'[z])
               PROVE  LET e == slots'[z][j] IN
                        \/ e.id \in mixed
                        \/ z \in untracked /\ j = 1
                        \/ /\ globalTasks[e.id].n = e.n
                           /\ \A p \in Wheel!Users : call'[p].id # e.id
                        \/ \E p \in Wheel!Users :
                             /\ call'[p].id = e.id /\ call'[p].op \in Referring
                             /\ call'[p].old.n = e.n
      BY <2>0 DEF TrackInv, At
  <2>1. CASE z = s /\ j = n + 1 /\ slots'[z][j] = new
      BY <1>3, <1>4, <2>1 DEF Referring
  <2>2. CASE j \in At(z) /\ slots'[z][j] = slots[z][j]
    <3> DEFINE e == slots[z][j]
    <3>1. \/ e.id \in mixed
          \/ z \in untracked /\ j = 1
          \/ globalTasks[e.id].n = e.n /\ \A p \in Wheel!Users : call[p].id # e.id
          \/ \E p \in Wheel!Users :
               call[p].id = e.id /\ call[p].op \in Referring /\ call[p].old.n = e.n
        BY <2>2 DEF WheelInv, TrackInv
    <3>2. \A p \in Wheel!Users : call'[p].id = call[p].id
        BY <1>4
    <3>3. \A p \in Wheel!Users : call[p].op \in Referring => call'[p] = call[p]
        BY <1>1, <1>4 DEF Referring
    <3> QED BY <2>2, <3>1, <3>2, <3>3
  <2> QED BY <1>6, <2>1, <2>2
<1> QED BY <1>7, <1>8, <1>9, <1>10, <1>11 DEF WheelInv
(* A call ends, having written its id's entry of the map: what is left of the *)
(* id in the lists is that entry's element, or being sent.                   *)
LEMMA ReturnKeeps ==
  ASSUME WheelAssumption, WheelInv, NEW o \in Wheel!Users, Wheel!Set(o) \/ Wheel!Forget(o)
  PROVE  WheelInv'
<1> DEFINE k     == call[o].id
           entry == IF Wheel!Set(o) THEN call[o].old ELSE Wheel!NoTask
<1>1. /\ globalTasks' = [globalTasks EXCEPT ![k] = entry]
      /\ call' = [call EXCEPT ![o] = Wheel!NoCall]
      /\ pos' = pos /\ jobs' = jobs /\ lock' = lock /\ untracked' = untracked
      /\ consumer' = consumer /\ slots' = slots /\ made' = made /\ mixed' = mixed
      /\ \/ call[o].op = "set" /\ entry = call[o].old
         \/ call[o].op = "forget" /\ entry = Wheel!NoTask
    BY DEF Wheel!Set, Wheel!Forget, Wheel!Return, Wheel!wheelSide
<1> HIDE DEF entry
<1>2. /\ call \in [Wheel!Users -> CallOf] /\ call[o] \in CallOf /\ k \in Ids
      /\ globalTasks \in [Ids -> Ref] /\ made \in Nat
      /\ Wheel!NoCall \in CallOf /\ Wheel!NoCall.id = None /\ Wheel!NoCall.op = "none"
      /\ Wheel!NoCall.old = Wheel!NoTask /\ Wheel!NoTask \in Ref /\ Wheel!NoTask.n = 0
      /\ None \notin Ids
  <2>1. k \in Ids
      BY <1>1 DEF WheelInv, CallInv
  <2>2. Wheel!NoTask \in Ref /\ Wheel!NoTask.n = 0
      BY DEF Wheel!NoTask, Ref
  <2> QED BY <2>1, <2>2 DEF WheelInv, WheelType, WheelAssumption, Wheel!NoCall, CallOf, Ops
<1>3. /\ call'[o] = Wheel!NoCall
      /\ \A p \in Wheel!Users : p # o => call'[p] = call[p]
      /\ globalTasks'[k] = entry
      /\ \A h \in Ids : h # k => globalTasks'[h] = globalTasks[h]
    BY <1>1, <1>2
<1>4. entry \in Ref
    BY <1>1, <1>2 DEF CallOf
<1>5. WheelType'
  <2>1. call' \in [Wheel!Users -> CallOf] /\ globalTasks' \in [Ids -> Ref]
      BY <1>1, <1>2, <1>4
  <2> QED BY <1>1, <2>1 DEF WheelInv, WheelType
<1>6. ListInv'
    BY <1>1 DEF WheelInv, ListInv, At
<1>7. \A s \in Wheel!Slot : \A j \in At(s) : slots[s][j].n # Wheel!NoTask.n
    BY <1>2 DEF WheelInv, ListInv
<1>8. MapInv'
  <2>1. ASSUME NEW h \in Ids
        PROVE  /\ globalTasks'[h].n <= made
               /\ globalTasks'[h] # Wheel!NoTask => globalTasks'[h].slotIdx \in Wheel!Slot
               /\ \A s \in Wheel!Slot : \A j \in At(s) :
                    slots[s][j].n = globalTasks'[h].n => globalTasks'[h].slotIdx = s
    <3>1. CASE h # k
      <4>1. globalTasks'[h] = globalTasks[h]
          BY <1>3, <3>1
      <4> QED BY <4>1 DEF WheelInv, MapInv
    <3>2. CASE h = k
      <4>1. globalTasks'[h] = entry
          BY <1>3, <3>2
      <4>2. CASE call[o].op = "set" /\ entry = call[o].old
          BY <4>1, <4>2 DEF WheelInv, CallInv, Referring
      <4>3. CASE entry = Wheel!NoTask
          BY <1>2, <1>7, <4>1, <4>3
      <4> QED BY <1>1, <4>2, <4>3
    <3> QED BY <3>1, <3>2
  <2> QED BY <1>1, <2>1 DEF MapInv, At
<1>9. CallInv'
  <2>1. ASSUME NEW p \in Wheel!Users
        PROVE  /\ call'[p].op = "none" => call'[p].id = None
               /\ call'[p].op # "none" => call'[p].id \in Ids
               /\ call'[p].op \in {"replace", "push"} => call'[p].due \in Wheel!Tick
               /\ call'[p].op \in Referring => call'[p].old.slotIdx \in Wheel!Slot
               /\ call'[p].old.n <= made
               /\ \A s \in Wheel!Slot : \A j \in At(s) :
                    slots[s][j].n = call'[p].old.n => call'[p].old.slotIdx = s
    <3>1. CASE p # o
      <4>1. call'[p] = call[p]
          BY <1>3, <3>1
      <4> QED BY <4>1 DEF WheelInv, CallInv
    <3>2. CASE p = o
      <4>1. call'[p] = Wheel!NoCall
          BY <1>3, <3>2
      <4> QED BY <1>2, <1>7, <4>1 DEF Referring
    <3> QED BY <3>1, <3>2
  <2>2. ASSUME NEW p \in Wheel!Users, NEW q \in Wheel!Users, p # q,
               call'[p].id = call'[q].id, call'[p].id # None
        PROVE  call'[p].id \in mixed
    <3>1. p # o /\ q # o
        BY <1>2, <1>3, <2>2
    <3>2. call'[p] = call[p] /\ call'[q] = call[q]
        BY <1>3, <3>1
    <3> QED BY <2>2, <3>2 DEF WheelInv, CallInv
  <2> QED BY <1>1, <2>1, <2>2 DEF CallInv, At
<1>10. TrackInv'
  <2>0. untracked' = untracked /\ mixed' = mixed /\ slots' = slots
      BY <1>1
  <2> SUFFICES ASSUME NEW s \in Wheel!Slot, NEW j \in At(s)
               PROVE  LET e == slots[s][j] IN
                        \/ e.id \in mixed
                        \/ s \in untracked /\ j = 1
                        \/ /\ globalTasks'[e.id].n = e.n
                           /\ \A p \in Wheel!Users : call'[p].id # e.id
                        \/ \E p \in Wheel!Users :
                             /\ call'[p].id = e.id /\ call'[p].op \in Referring
                             /\ call'[p].old.n = e.n
      BY <2>0 DEF TrackInv, At
  <2> DEFINE e == slots[s][j]
  <2>1. \/ e.id \in mixed
        \/ s \in untracked /\ j = 1
        \/ globalTasks[e.id].n = e.n /\ \A p \in Wheel!Users : call[p].id # e.id
        \/ \E p \in Wheel!Users :
             call[p].id = e.id /\ call[p].op \in Referring /\ call[p].old.n = e.n
      BY DEF WheelInv, TrackInv
  <2>2. e.id \in Ids
    <3>1. slots[s] \in Seq(Element) /\ j \in 1..Len(slots[s])
        BY DEF WheelInv, WheelType, At
    <3>2. slots[s][j] \in Element
        BY <3>1
    <3> QED BY <3>2 DEF Element
  <2>3. CASE e.id # k
    <3>1. globalTasks'[e.id] = globalTasks[e.id]
        BY <1>3, <2>2, <2>3
    <3>2. (\A p \in Wheel!Users : call[p].id # e.id) => \A p \in Wheel!Users : call'[p].id # e.id
        BY <1>2, <1>3, <2>2
    <3>3. \A p \in Wheel!Users : call[p].id = e.id => call'[p] = call[p]
        BY <1>3, <2>3
    <3> QED BY <2>1, <3>1, <3>2, <3>3
  <2>4. CASE e.id = k /\ e.id \notin mixed /\ ~(s \in untracked /\ j = 1)
    <3>1. PICK p \in Wheel!Users :
            call[p].id = e.id /\ call[p].op \in Referring /\ call[p].old.n = e.n
        BY <2>1, <2>4
    <3>2. \A q \in Wheel!Users : q # o => call[q].id # k
        BY <1>2, <2>4 DEF WheelInv, CallInv
    <3>3. p = o
        BY <2>4, <3>1, <3>2
    <3>4. call[o].op = "set" /\ entry = call[o].old
        BY <1>1, <3>1, <3>3 DEF Referring
    <3>5. globalTasks'[e.id].n = e.n
        BY <1>3, <2>4, <3>1, <3>3, <3>4
    <3>6. \A q \in Wheel!Users : call'[q].id # e.id
        BY <1>2, <1>3, <2>2, <2>4, <3>2
    <3> QED BY <3>5, <3>6
  <2> QED BY <2>3, <2>4
<1> QED BY <1>5, <1>6, <1>8, <1>9, <1>10 DEF WheelInv

LEMMA WheelStep == WheelAssumption /\ WheelInv /\ Wheel!Next => WheelInv'
<1> SUFFICES ASSUME WheelAssumption, WheelInv, Wheel!Next PROVE WheelInv'
    OBVIOUS
<1>1. CASE \/ Wheel!Launch \/ Wheel!Stop \/ Wheel!Quit
           \/ \E t \in Wheel!Tick : Wheel!Lock(t)
           \/ \E w \in Workers : Wheel!Take(w) \/ Wheel!Finish(w)
    BY <1>1, TurnKeeps
<1>2. CASE \E s \in Wheel!Slot : Wheel!Untrack(s) \/ Wheel!Send(s)
    BY <1>2, UntrackKeeps, SendKeeps
<1>3. CASE \E o \in Wheel!Users :
             Wheel!Replace(o) \/ Wheel!Push(o) \/ Wheel!Set(o)
               \/ Wheel!CancelRemove(o) \/ Wheel!Forget(o)
    BY <1>3, ReplaceKeeps, PushKeeps, ReturnKeeps
<1>4. CASE \E o \in Wheel!Users : Wheel!Call(o)
    BY <1>4, AddKeeps, CancelKeeps DEF Wheel!Call
<1> QED BY <1>1, <1>2, <1>3, <1>4 DEF Wheel!Next, Wheel!Work

LEMMA WheelRests == WheelInv /\ UNCHANGED wheelVars => WheelInv'
<1> SUFFICES ASSUME WheelInv, UNCHANGED wheelVars PROVE WheelInv'
    OBVIOUS
<1>1. /\ slots' = slots /\ untracked' = untracked /\ made' = made /\ lock' = lock
      /\ globalTasks' = globalTasks /\ call' = call /\ mixed' = mixed
      /\ pos' = pos /\ jobs' = jobs /\ consumer' = consumer
    BY DEF wheelVars
<1>2. WheelType'
    BY <1>1 DEF WheelInv, WheelType
<1>3. \A s \in Wheel!Slot : lock[s] # None => Len(slots[s]) > 0
    BY DEF WheelInv, ListInv
<1> QED BY <1>1, <1>2, <1>3, ListsStay

LEMMA WheelGood == WheelInv => CancellableUnlessOverlapped
<1> SUFFICES ASSUME WheelInv, NEW s \in Wheel!Slot, NEW e \in Wheel!Elems(s)
             PROVE  \/ globalTasks[e.id].n = e.n
                    \/ s \in untracked /\ Head(slots[s]) = e
                    \/ e.id \in mixed
                    \/ \E w \in Wheel!Users : call[w].id = e.id
    BY DEF CancellableUnlessOverlapped
<1>1. slots[s] \in Seq(Element)
    BY DEF WheelInv, WheelType
<1>2. PICK j \in At(s) : e = slots[s][j]
    BY <1>1 DEF Wheel!Elems, At
<1>3. j = 1 => Head(slots[s]) = e
    BY <1>1, <1>2 DEF At
<1> QED BY <1>2, <1>3 DEF WheelInv, TrackInv

-----------------------------------------------------------------------------
\* The ticks of the wheel.

\* A task that was put in its list before its tick was launched and with no other
\* goroutine to come through the list waits for the goroutine of that tick.
DueInv ==
  /\ \A s \in Wheel!Slot : lock[s] # None => lock[s] \in jobs /\ Wheel!SlotOf(lock[s]) = s
  /\ \A s \in Wheel!Slot : \A j \in At(s) :
       LET due == slots[s][j].due IN due # None =>
         /\ due \in Wheel!Tick /\ Wheel!SlotOf(due) = s
         /\ due \in jobs \/ Wheel!After(due, -pos) < NumSlots
         /\ \A t \in jobs : Wheel!SlotOf(t) = s => t = due

(* Ticks are counted modulo Horizon.                                        *)
LEMMA ModIs ==
  ASSUME NEW h \in Nat, h > 0, NEW x \in Int
  PROVE  /\ 0 <= x /\ x < h => x % h = x
         /\ -h <= x /\ x < 0 => x % h = x + h
         /\ h <= x /\ x < 2 * h => x % h = x - h
<1> DEFINE q == x \div h
           r == x % h
<1>1. q \in Int /\ r \in Int /\ x = h * q + r /\ 0 <= r /\ r < h
    OBVIOUS
<1>2. h * q \in Int /\ (q >= 2 => h * q >= 2 * h) /\ (q >= 1 => h * q >= h) /\ (q <= -1 => h * q <= -h)
        /\ (q <= -2 => h * q <= -2 * h) /\ (q = 0 => h * q = 0) /\ (q = 1 => h * q = h)
        /\ (q = -1 => h * q = -h)
    BY <1>1
<1> HIDE DEF q, r
<1>3. 0 <= x /\ x < h => q = 0
    BY <1>1, <1>2
<1>4. -h <= x /\ x < 0 => q = -1
    BY <1>1, <1>2
<1>5. h <= x /\ x < 2 * h => q = 1
    BY <1>1, <1>2
<1>6. /\ 0 <= x /\ x < h => r = x
      /\ -h <= x /\ x < 0 => r = x + h
      /\ h <= x /\ x < 2 * h => r = x - h
    BY <1>1, <1>2, <1>3, <1>4, <1>5
<1> QED BY <1>6 DEF r

LEMMA SameRest ==
  ASSUME NEW n \in Nat, n > 0, NEW x \in Int, NEW y \in Int, x % n = y % n
  PROVE  \E m \in Int : x - y = n * m
<1>1. x = n * (x \div n) + (x % n) /\ y = n * (y \div n) + (y % n)
      /\ x \div n \in Int /\ y \div n \in Int /\ x % n \in Int
    OBVIOUS
<1>2. x - y = n * ((x \div n) - (y \div n))
    BY <1>1
<1> QED BY <1>1, <1>2

LEMMA Multiples ==
  ASSUME NEW n \in Nat, n > 0, NEW m \in Int, 0 <= n * m, n * m < n
  PROVE  m = 0
<1>1. m >= 1 => n * m >= n
    OBVIOUS
<1>2. m <= -1 => n * m <= -n
    OBVIOUS
<1> QED BY <1>1, <1>2

LEMMA TickTypes ==
  ASSUME WheelAssumption
  PROVE  /\ NumSlots \in Nat /\ NumSlots > 0 /\ Horizon \in Nat /\ Horizon > 0
         /\ NumSlots <= Horizon
         /\ \E turns \in Int : Horizon = NumSlots * turns
         /\ \A t \in Wheel!Tick : t \in Int /\ 0 <= t /\ t < Horizon
<1>1. NumSlots \in Nat /\ NumSlots > 0 /\ Horizon \in Nat /\ Horizon > 0 /\ Horizon % NumSlots = 0
    BY DEF WheelAssumption
<1>2. 0 % NumSlots = 0
    BY <1>1
<1>3. PICK turns \in Int : Horizon - 0 = NumSlots * turns
    BY <1>1, <1>2, SameRest
<1>4. NumSlots <= Horizon
  <2>1. Horizon < NumSlots => turns = 0
      BY <1>1, <1>3, Multiples
  <2>2. NumSlots * 0 = 0
      BY <1>1
  <2> QED BY <1>1, <1>3, <2>1, <2>2
<1>5. \A t \in Wheel!Tick : t \in Int /\ 0 <= t /\ t < Horizon
    BY <1>1 DEF Wheel!Tick
<1> QED BY <1>1, <1>3, <1>4, <1>5

\* Of the ticks of a slot one only is less than a turn ahead.
LEMMA OneAhead ==
  ASSUME WheelAssumption, NEW x \in Wheel!Tick, NEW y \in Wheel!Tick,
         Wheel!SlotOf(x) = Wheel!SlotOf(y), Wheel!After(x, -y) < NumSlots
  PROVE  x = y
<1>1. /\ NumSlots \in Nat /\ NumSlots > 0 /\ Horizon \in Nat /\ Horizon > 0
      /\ x \in Int /\ y \in Int /\ 0 <= x /\ x < Horizon /\ 0 <= y /\ y < Horizon
    BY TickTypes
<1>2. PICK m \in Int : x - y = NumSlots * m
    BY <1>1, SameRest DEF Wheel!SlotOf
<1>3. PICK turns \in Int : Horizon = NumSlots * turns
    BY TickTypes
<1>4. /\ x - y >= 0 => Wheel!After(x, -y) = x - y
      /\ x - y < 0 => Wheel!After(x, -y) = x - y + Horizon
  <2>1. x - y \in Int /\ x + (-y) = x - y /\ x - y < Horizon /\ -Horizon <= x - y
      BY <1>1
  <2>2. /\ x - y >= 0 => (x - y) % Horizon = x - y
        /\ x - y < 0 => (x - y) % Horizon = x - y + Horizon
      BY <1>1, <2>1, ModIs
  <2> QED BY <2>1, <2>2 DEF Wheel!After
<1>5. CASE x - y >= 0
  <2>1. m = 0
      BY <1>1, <1>2, <1>4, <1>5, Multiples
  <2>2. NumSlots * m = 0
      BY <1>1, <2>1
  <2> QED BY <1>1, <1>2, <2>2
<1>6. CASE x - y < 0
  <2>1. x - y + Horizon = NumSlots * (m + turns)
      BY <1>1, <1>2, <1>3
  <2>2. 0 <= x - y + Horizon /\ x - y + Horizon < NumSlots
      BY <1>1, <1>4, <1>6
  <2>3. m + turns \in Int /\ m + turns = 0
      BY <1>1, <2>1, <2>2, Multiples
  <2>4. x - y + Horizon = 0
      BY <1>1, <2>1, <2>3
  <2> QED BY <1>1, <2>4
<1> QED BY <1>1, <1>5, <1>6

LEMMA AheadIs ==
  ASSUME WheelAssumption, NEW t \in Wheel!Tick, NEW d \in Wheel!Delays
  PROVE  Wheel!After(Wheel!After(t, d), -t) < NumSlots
<1>1. /\ NumSlots \in Nat /\ NumSlots > 0 /\ Horizon \in Nat /\ Horizon > 0 /\ NumSlots <= Horizon
      /\ t \in Int /\ 0 <= t /\ t < Horizon /\ d \in Int /\ 0 <= d /\ d < NumSlots
    BY TickTypes DEF Wheel!Delays
<1> DEFINE x == (t + d) % Horizon
<1>2. \/ x = t + d
      \/ x = t + d - Horizon
    BY <1>1, ModIs
<1>3. x + (-t) = d \/ x + (-t) = d - Horizon
    BY <1>1, <1>2
<1>4. d % Horizon = d /\ (d - Horizon) % Horizon = d
  <2>1. d - Horizon \in Int /\ -Horizon <= d - Horizon /\ d - Horizon < 0 /\ d - Horizon + Horizon = d
      BY <1>1
  <2> QED BY <1>1, <2>1, ModIs
<1>5. Wheel!After(Wheel!After(t, d), -t) = (x + (-t)) % Horizon
    BY DEF Wheel!After
<1> HIDE DEF x
<1> QED BY <1>1, <1>3, <1>4, <1>5

LEMMA OneNearer ==
  ASSUME WheelAssumption, NEW x \in Wheel!Tick, NEW t \in Wheel!Tick, x # t,
         Wheel!After(x, -t) < NumSlots
  PROVE  Wheel!After(x, -Wheel!After(t, 1)) < NumSlots
<1>1. /\ NumSlots \in Nat /\ Horizon \in Nat /\ Horizon > 0
      /\ x \in Int /\ 0 <= x /\ x < Horizon /\ t \in Int /\ 0 <= t /\ t < Horizon
    BY TickTypes
<1> DEFINE u == (t + 1) % Horizon
<1>2. (t + 1 < Horizon /\ u = t + 1) \/ (t + 1 = Horizon /\ u = 0)
    BY <1>1, ModIs
<1>3. /\ x - t > 0 => (x + (-t)) % Horizon = x - t
      /\ x - t < 0 => (x + (-t)) % Horizon = x - t + Horizon
    BY <1>1, ModIs
<1>4. CASE t + 1 < Horizon /\ u = t + 1
  <2>1. /\ x - t > 0 => (x + (-u)) % Horizon = x - t - 1
        /\ x - t < 0 => (x + (-u)) % Horizon = x - t - 1 + Horizon
      BY <1>1, <1>4, ModIs
  <2> QED BY <1>1, <1>3, <1>4, <2>1 DEF Wheel!After
<1>5. CASE t + 1 = Horizon /\ u = 0
  <2>1. (x + (-u)) % Horizon = x
      BY <1>1, <1>5, ModIs
  <2> QED BY <1>1, <1>3, <1>5, <2>1 DEF Wheel!After
<1> QED BY <1>2, <1>4, <1>5
LEMMA DueStart == Wheel!Init => DueInv
<1> SUFFICES ASSUME Wheel!Init PROVE DueInv
    OBVIOUS
<1>1. \A s \in Wheel!Slot : slots[s] = <<>> /\ At(s) = {} /\ lock[s] = None
    BY DEF Wheel!Init, At
<1> QED BY <1>1 DEF DueInv

(* No new element, no goroutine comes or goes.                              *)
LEMMA DueStays ==
  ASSUME DueInv, pos' = pos, jobs' = jobs, lock' = lock,
         \A z \in Wheel!Slot : \A j \in 1..Len(slots'[z]) :
           \E m \in At(z) : slots'[z][j] = slots[z][m]
  PROVE  DueInv'
BY DEF DueInv, At

LEMMA LaunchInTime ==
  ASSUME WheelAssumption, MaxLate < NumSlots, MaxLate \in Int, WheelInv, DueInv, Wheel!Launch
  PROVE  DueInv'
<1>1. /\ pos \in Wheel!Tick /\ jobs \subseteq Wheel!Tick
      /\ slots' = slots /\ lock' = lock /\ jobs' = jobs \cup {pos}
      /\ pos' = Wheel!After(pos, 1)
      /\ \A t \in jobs : Wheel!After(pos, -t) <= MaxLate
    BY DEF WheelInv, WheelType, Wheel!Launch, Wheel!InTime
<1>2. \A t \in jobs : Wheel!After(pos, -t) < NumSlots
  <2> SUFFICES ASSUME NEW t \in jobs PROVE Wheel!After(pos, -t) < NumSlots
      OBVIOUS
  <2>1. pos \in Int /\ t \in Int /\ Horizon \in Nat /\ Horizon > 0 /\ NumSlots \in Nat
      BY <1>1, TickTypes
  <2>2. Wheel!After(pos, -t) \in Int
      BY <2>1 DEF Wheel!After
  <2> QED BY <1>1, <2>1, <2>2
<1>3. ASSUME NEW s \in Wheel!Slot, NEW j \in At(s), slots[s][j].due # None
      PROVE  LET due == slots[s][j].due IN
               /\ due \in Wheel!Tick /\ Wheel!SlotOf(due) = s
               /\ due \in jobs' \/ Wheel!After(due, -pos') < NumSlots
               /\ \A t \in jobs' : Wheel!SlotOf(t) = s => t = due
  <2> DEFINE due == slots[s][j].due
  <2>1. /\ due \in Wheel!Tick /\ Wheel!SlotOf(due) = s
        /\ due \in jobs \/ Wheel!After(due, -pos) < NumSlots
        /\ \A t \in jobs : Wheel!SlotOf(t) = s => t = due
      BY <1>3 DEF DueInv
  <2> HIDE DEF due
  <2>2. Wheel!SlotOf(pos) = s => pos = due
    <3>1. CASE due \in jobs
        BY <1>1, <1>2, <2>1, <3>1, OneAhead
    <3>2. CASE Wheel!After(due, -pos) < NumSlots
        BY <1>1, <2>1, <3>2, OneAhead
    <3> QED BY <2>1, <3>1, <3>2
  <2>3. due \in jobs' \/ Wheel!After(due, -pos') < NumSlots
    <3>1. CASE due = pos \/ due \in jobs
        BY <1>1, <3>1
    <3>2. CASE due # pos /\ due \notin jobs
        BY <1>1, <2>1, <3>2, OneNearer
    <3> QED BY <3>1, <3>2
  <2>4. \A t \in jobs' : Wheel!SlotOf(t) = s => t = due
      BY <1>1, <2>1, <2>2
  <2> QED BY <2>1, <2>3, <2>4 DEF due
<1> QED BY <1>1, <1>3 DEF DueInv, At

LEMMA LockInTime ==
  ASSUME WheelAssumption, WheelInv, DueInv, NEW t \in Wheel!Tick, Wheel!Lock(t)
  PROVE  DueInv'
<1> DEFINE s == Wheel!SlotOf(t)
<1>1. /\ t \in jobs /\ lock[s] = None /\ pos' = pos /\ slots' = slots
      /\ s \in Wheel!Slot /\ lock \in [Wheel!Slot -> Wheel!Tick \cup {None}]
      /\ None \notin Wheel!Tick
    BY SlotTypes DEF Wheel!Lock, WheelInv, WheelType
<1>2. CASE slots[s] = <<>>
  <2>1. jobs' = jobs \ {t} /\ lock' = lock
      BY <1>2 DEF Wheel!Lock
  <2>2. \A z \in Wheel!Slot : lock[z] # None => lock[z] # t
      BY <1>1 DEF DueInv
  <2>3. \A z \in Wheel!Slot : \A j \in At(z) : slots[z][j].due # None => slots[z][j].due # t
    <3>1. At(s) = {}
        BY <1>2 DEF At
    <3> QED BY <1>1, <3>1 DEF DueInv
  <2> QED BY <1>1, <2>1, <2>2, <2>3 DEF DueInv, At
<1>3. CASE slots[s] # <<>>
  <2>1. jobs' = jobs /\ lock' = [lock EXCEPT ![s] = t]
      BY <1>3 DEF Wheel!Lock
  <2>2. \A z \in Wheel!Slot : lock'[z] # None => lock'[z] \in jobs /\ Wheel!SlotOf(lock'[z]) = z
      BY <1>1, <2>1 DEF DueInv
  <2> QED BY <1>1, <2>1, <2>2 DEF DueInv, At
<1> QED BY <1>2, <1>3

LEMMA SendInTime ==
  ASSUME WheelAssumption, WheelInv, DueInv, NEW s \in Wheel!Slot, Wheel!Send(s)
  PROVE  /\ DueInv'
         /\ Head(slots[s]).due \in {None, lock[s]}
         /\ \A z \in Wheel!Slot : slots'[z] # slots[z] => z = s
<1>1. /\ s \in untracked /\ pos' = pos
      /\ slots' = [slots EXCEPT ![s] = Tail(slots[s])]
      /\ \/ Len(slots[s]) = 1 /\ lock' = [lock EXCEPT ![s] = None] /\ jobs' = jobs \ {lock[s]}
         \/ Len(slots[s]) # 1 /\ lock' = lock /\ jobs' = jobs
    BY DEF Wheel!Send
<1>2. /\ slots[s] \in Seq(Element) /\ Len(slots[s]) > 0 /\ 1 \in At(s)
      /\ Head(slots[s]) = slots[s][1] /\ lock[s] # None /\ Len(slots'[s]) = Len(slots[s]) - 1
      /\ lock \in [Wheel!Slot -> Wheel!Tick \cup {None}] /\ slots \in [Wheel!Slot -> Seq(Element)]
  <2>1. /\ slots[s] \in Seq(Element) /\ Len(slots[s]) > 0 /\ lock[s] # None
        /\ slots \in [Wheel!Slot -> Seq(Element)]
        /\ lock \in [Wheel!Slot -> Wheel!Tick \cup {None}]
      BY <1>1 DEF WheelInv, WheelType, ListInv
  <2>2. 1 \in At(s) /\ Head(slots[s]) = slots[s][1]
      BY <2>1 DEF At
  <2>3. slots'[s] = Tail(slots[s]) /\ Len(Tail(slots[s])) = Len(slots[s]) - 1
      BY <1>1, <2>1
  <2> QED BY <2>1, <2>2, <2>3
<1>3. lock[s] \in jobs /\ Wheel!SlotOf(lock[s]) = s
    BY <1>2 DEF DueInv
<1>4. Head(slots[s]).due \in {None, lock[s]}
    BY <1>2, <1>3 DEF DueInv
<1>5. \A z \in Wheel!Slot : \A j \in 1..Len(slots'[z]) :
        \E m \in At(z) : slots'[z][j] = slots[z][m]
    BY SendLists
<1>6. DueInv'
  <2>1. CASE Len(slots[s]) # 1
      BY <1>1, <1>5, <2>1, DueStays
  <2>2. CASE Len(slots[s]) = 1
    <3>1. lock' = [lock EXCEPT ![s] = None] /\ jobs' = jobs \ {lock[s]}
        BY <1>1, <2>2
    <3>2. 1..Len(slots'[s]) = {}
        BY <1>2, <2>2
    <3>3. \A z \in Wheel!Slot :
            lock'[z] # None => lock'[z] \in jobs' /\ Wheel!SlotOf(lock'[z]) = z
        BY <1>2, <1>3, <3>1 DEF DueInv
    <3>4. ASSUME NEW z \in Wheel!Slot, NEW j \in 1..Len(slots'[z]), slots'[z][j].due # None
          PROVE  LET due == slots'[z][j].due IN
                   /\ due \in Wheel!Tick /\ Wheel!SlotOf(due) = z
                   /\ due \in jobs' \/ Wheel!After(due, -pos) < NumSlots
                   /\ \A t \in jobs' : Wheel!SlotOf(t) = z => t = due
      <4> DEFINE due == slots'[z][j].due
      <4>1. PICK m \in At(z) : slots'[z][j] = slots[z][m]
          BY <1>5
      <4>2. /\ due \in Wheel!Tick /\ Wheel!SlotOf(due) = z
            /\ due \in jobs \/ Wheel!After(due, -pos) < NumSlots
            /\ \A t \in jobs : Wheel!SlotOf(t) = z => t = due
          BY <3>4, <4>1 DEF DueInv
      <4>3. z # s
          BY <3>2
      <4> HIDE DEF due
      <4>4. due # lock[s]
          BY <1>3, <4>2, <4>3
      <4> QED BY <3>1, <4>2, <4>4 DEF due
    <3> QED BY <1>1, <3>3, <3>4, SMTT(30) DEF DueInv, At
  <2> QED BY <2>1, <2>2
<1>7. \A z \in Wheel!Slot : slots'[z] # slots[z] => z = s
    BY <1>1, <1>2
<1> QED BY <1>4, <1>6, <1>7

LEMMA PushInTime ==
  ASSUME WheelAssumption, WheelInv, DueInv, NEW o \in Wheel!Users, Wheel!Push(o)
  PROVE  DueInv'
<1> DEFINE s   == Wheel!SlotOf(call[o].due)
           due == IF Wheel!Raced(call[o].due) THEN None ELSE call[o].due
           new == [n |-> made + 1, id |-> call[o].id, due |-> due]
<1>1. /\ slots' = [slots EXCEPT ![s] = Append(slots[s], new)]
      /\ pos' = pos /\ jobs' = jobs /\ lock' = lock
    BY DEF Wheel!Push, Wheel!wheelSide
<1>2. /\ call[o].due \in Wheel!Tick /\ s \in Wheel!Slot
      /\ slots \in [Wheel!Slot -> Seq(Element)] /\ slots[s] \in Seq(Element)
      /\ pos \in Wheel!Tick /\ made \in Nat /\ call[o].id \in Ids
  <2>1. /\ call[o].due \in Wheel!Tick /\ call[o].id \in Ids
        /\ slots \in [Wheel!Slot -> Seq(Element)] /\ pos \in Wheel!Tick /\ made \in Nat
      BY DEF Wheel!Push, WheelInv, WheelType, CallInv
  <2> QED BY <2>1, SlotTypes
<1>3. due # None =>
        /\ due \in Wheel!Tick /\ Wheel!SlotOf(due) = s
        /\ Wheel!After(due, -pos) < NumSlots
        /\ \A t \in jobs : Wheel!SlotOf(t) = s => t = due
  <2> SUFFICES ASSUME ~Wheel!Raced(call[o].due)
               PROVE  /\ Wheel!After(call[o].due, -pos) < NumSlots
                      /\ \A t \in jobs : Wheel!SlotOf(t) = s => t = call[o].due
      BY <1>2
  <2>1. PICK d \in Wheel!Delays : call[o].due = Wheel!After(pos, d)
      BY DEF Wheel!Raced
  <2>2. Wheel!After(call[o].due, -pos) < NumSlots
      BY <1>2, <2>1, AheadIs
  <2> QED BY <2>2 DEF Wheel!Raced
<1>4. due \in Wheel!Tick \cup {None}
    BY <1>2
<1> HIDE DEF due
<1>5. new \in Element /\ new.due = due
    BY <1>2, <1>4 DEF Element
<1> HIDE DEF new
<1>6. ASSUME NEW z \in Wheel!Slot, NEW j \in 1..Len(slots'[z])
      PROVE  \/ z = s /\ slots'[z][j] = new
             \/ j \in At(z) /\ slots'[z][j] = slots[z][j]
  <2>1. CASE z # s
      BY <1>1, <1>2, <2>1 DEF At
  <2>2. CASE z = s
    <3>1. slots'[z] = Append(slots[s], new)
        BY <1>1, <1>2, <2>2
    <3>2. /\ Len(slots'[z]) = Len(slots[s]) + 1 /\ slots'[z][Len(slots[s]) + 1] = new
          /\ \A m \in 1..Len(slots[s]) : slots'[z][m] = slots[s][m]
          /\ Len(slots[s]) \in Nat
        BY <1>2, <1>5, <3>1
    <3> QED BY <2>2, <3>2 DEF At
  <2> QED BY <2>1, <2>2
<1>7. \A z \in Wheel!Slot : \A j \in 1..Len(slots'[z]) :
        LET x == slots'[z][j].due IN x # None =>
          /\ x \in Wheel!Tick /\ Wheel!SlotOf(x) = z
          /\ x \in jobs \/ Wheel!After(x, -pos) < NumSlots
          /\ \A t \in jobs : Wheel!SlotOf(t) = z => t = x
    BY <1>3, <1>5, <1>6 DEF DueInv
<1>8. \A z \in Wheel!Slot : \A j \in At(z)' :
        LET x == slots'[z][j].due IN x # None =>
          /\ x \in Wheel!Tick /\ Wheel!SlotOf(x) = z
          /\ x \in jobs' \/ Wheel!After(x, -pos') < NumSlots
          /\ \A t \in jobs' : Wheel!SlotOf(t) = z => t = x
  <2> SUFFICES ASSUME NEW z \in Wheel!Slot, NEW j \in At(z)', slots'[z][j].due # None
               PROVE  LET x == slots'[z][j].due IN
                        /\ x \in Wheel!Tick /\ Wheel!SlotOf(x) = z
                        /\ x \in jobs' \/ Wheel!After(x, -pos') < NumSlots
                        /\ \A t \in jobs' : Wheel!SlotOf(t) = z => t = x
      OBVIOUS
  <2>1. j \in 1..Len(slots'[z]) /\ jobs' = jobs /\ pos' = pos
      BY <1>1 DEF At
  <2> QED BY <1>7, <2>1
<1>9. \A z \in Wheel!Slot : lock'[z] # None => lock'[z] \in jobs' /\ Wheel!SlotOf(lock'[z]) = z
    BY <1>1 DEF DueInv
<1> QED BY <1>8, <1>9, ZenonT(30) DEF DueInv

(* The other steps leave the goroutines as they are and add no element.       *)
LEMMA OthersInTime ==
  ASSUME WheelAssumption, WheelInv, DueInv,
         \/ Wheel!Stop \/ Wheel!Quit
         \/ \E s \in Wheel!Slot : Wheel!Untrack(s)
         \/ \E w \in Workers : Wheel!Take(w) \/ Wheel!Finish(w)
         \/ \E o \in Wheel!Users : Wheel!Set(o) \/ Wheel!Forget(o) \/ Wheel!Call(o)
  PROVE  DueInv'
<1>1. pos' = pos /\ jobs' = jobs /\ lock' = lock /\ slots' = slots
    BY DEF Wheel!Stop, Wheel!Quit, Wheel!Untrack, Wheel!Take, Wheel!Finish, Wheel!Set,
           Wheel!Forget, Wheel!Call, Wheel!Cancel, Wheel!Add, Wheel!workSide, Wheel!wheelSide
<1> QED BY <1>1 DEF DueInv, At

LEMMA DropInTime ==
  ASSUME WheelAssumption, WheelInv, DueInv, NEW o \in Wheel!Users,
         Wheel!Replace(o) \/ Wheel!CancelRemove(o)
  PROVE  DueInv'
<1>1. /\ pos' = pos /\ jobs' = jobs /\ lock' = lock /\ made' = made
      /\ Wheel!Drop(call[o].old) /\ call[o].op \in {"replace", "cancel"}
    BY DEF Wheel!Replace, Wheel!CancelRemove, Wheel!wheelSide
<1>2. \A z \in Wheel!Slot : \A j \in 1..Len(slots'[z]) :
        \E m \in At(z) : slots'[z][j] = slots[z][m]
    BY <1>1, DropLists
<1> QED BY <1>1, <1>2, DueStays

LEMMA DueStep ==
  ASSUME WheelAssumption, MaxLate < NumSlots, MaxLate \in Int, WheelInv, DueInv, Wheel!Next
  PROVE  DueInv'
<1>1. CASE Wheel!Launch
    BY <1>1, LaunchInTime
<1>2. CASE \E t \in Wheel!Tick : Wheel!Lock(t)
    BY <1>2, LockInTime
<1>3. CASE \E s \in Wheel!Slot : Wheel!Send(s)
    BY <1>3, SendInTime
<1>4. CASE \E o \in Wheel!Users : Wheel!Push(o)
    BY <1>4, PushInTime
<1>5. CASE \E o \in Wheel!Users : Wheel!Replace(o) \/ Wheel!CancelRemove(o)
    BY <1>5, DropInTime
<1>6. CASE \/ Wheel!Stop \/ Wheel!Quit
           \/ \E s \in Wheel!Slot : Wheel!Untrack(s)
           \/ \E w \in Workers : Wheel!Take(w) \/ Wheel!Finish(w)
           \/ \E o \in Wheel!Users : Wheel!Set(o) \/ Wheel!Forget(o) \/ Wheel!Call(o)
    BY <1>6, OthersInTime
<1> QED BY <1>1, <1>2, <1>3, <1>4, <1>5, <1>6 DEF Wheel!Next, Wheel!Work

(* The channel grows by what the goroutine of a slot sends.                   *)
LEMMA OnlySendSends ==
  ASSUME WheelInv, Wheel!Next, Len(consumer') > Len(consumer)
  PROVE  \E s \in Wheel!Slot : Wheel!Send(s)
<1>1. consumer \in Seq(Nat) /\ Len(consumer) \in Nat
    BY DEF WheelInv, WheelType
<1>2. consumer' # consumer
    BY <1>1
<1>3. ~ \E w \in Workers : Wheel!Take(w)
  <2> SUFFICES ASSUME NEW w \in Workers, Wheel!Take(w) PROVE FALSE
      OBVIOUS
  <2>1. consumer # <<>> /\ consumer' = Tail(consumer)
      BY DEF Wheel!Take
  <2>2. Len(consumer') = Len(consumer) - 1
      BY <1>1, <2>1
  <2> QED BY <1>1, <2>2
<1>4. ~(Wheel!Launch \/ Wheel!Stop \/ Wheel!Quit)
    BY <1>2 DEF Wheel!Launch, Wheel!Stop, Wheel!Quit
<1>5. /\ ~ \E t \in Wheel!Tick : Wheel!Lock(t)
      /\ ~ \E s \in Wheel!Slot : Wheel!Untrack(s)
      /\ ~ \E w \in Workers : Wheel!Finish(w)
    BY <1>2 DEF Wheel!Lock, Wheel!Untrack, Wheel!Finish
<1>6. ~ \E o \in Wheel!Users :
          Wheel!Replace(o) \/ Wheel!Push(o) \/ Wheel!Set(o)
            \/ Wheel!CancelRemove(o) \/ Wheel!Forget(o) \/ Wheel!Call(o)
    BY <1>2 DEF Wheel!Replace, Wheel!Push, Wheel!Set, Wheel!CancelRemove, Wheel!Forget,
                Wheel!Call, Wheel!Cancel, Wheel!Add, Wheel!wheelSide
<1> QED BY <1>3, <1>4, <1>5, <1>6 DEF Wheel!Next, Wheel!Work

-----------------------------------------------------------------------------
\* What halts the wheel.

\* A worker leaves only once Stop was called.
BusyInv ==
  /\ stops \in Nat
  /\ busy \in [Workers -> Nat \cup {None}]
  /\ stops = 0 => \A w \in Workers : busy[w] # None
  /\ \A o \in Wheel!Users : call[o].op = "none" => call[o] = Wheel!NoCall

\* The guards of the disjuncts of Wheel!Work: something can go on.
Ready ==
  \/ \E t \in jobs : lock[Wheel!SlotOf(t)] = None                          \* Lock
  \/ \E s \in Wheel!Slot : lock[s] # None /\ s \notin untracked            \* Untrack
  \/ \E s \in untracked : stops < 2 /\ Len(consumer) < ChanCap             \* Send
  \/ \E w \in Workers : busy[w] = 0 /\ consumer # <<>>                     \* Take
  \/ \E w \in Workers : Wheel!Runs(w) /\ call[w] = Wheel!NoCall            \* Finish
  \/ \E o \in Wheel!Users : call[o].op \in {"set", "forget"}
  \/ \E o \in Wheel!Users :
       call[o].op \in {"replace", "push", "cancel"} /\ lock[SlotOfCall(o)] = None

\* WheelMoves with the guards for ENABLED.
GoesOn ==
  part = "wheel" /\ stops = 0 /\ Started => Ready \/ (\A w \in Workers : CallbackWaits(w))

LEMMA BusyStart == WheelAssumption /\ Wheel!Init => BusyInv
BY DEF WheelAssumption, Wheel!Init, BusyInv

(* Calls are begun and ended, the rest is the business of the workers.        *)
LEMMA BusyStep ==
  ASSUME WheelAssumption, WheelInv, BusyInv, Wheel!Next
  PROVE  BusyInv'
<1>1. /\ stops \in Nat /\ busy \in [Workers -> Nat \cup {None}]
      /\ call \in [Wheel!Users -> CallOf] /\ consumer \in Seq(Nat)
      /\ \A n \in Nat : n # None
      /\ \A o \in Wheel!Users : call[o].op = "none" => call[o] = Wheel!NoCall
  <2>1. \A n \in Nat : n # None
    <3>1. \A n \in Nat : n \in Int
        OBVIOUS
    <3> QED BY <3>1 DEF WheelAssumption
  <2> QED BY <2>1 DEF BusyInv, WheelInv, WheelType
<1> DEFINE CallsFine == \A o \in Wheel!Users : call'[o].op = "none" => call'[o] = Wheel!NoCall
<1>2. CASE Wheel!Stop
  <2>1. stops' = stops + 1 /\ busy' = busy /\ call' = call
      BY <1>2 DEF Wheel!Stop, Wheel!callVars
  <2>2. stops' \in Nat /\ stops' # 0
      BY <1>1, <2>1
  <2> QED BY <1>1, <2>1, <2>2 DEF BusyInv
<1>3. CASE \E w \in Workers : Wheel!Take(w) \/ Wheel!Finish(w)
  <2>1. PICK w \in Workers : Wheel!Take(w) \/ Wheel!Finish(w)
      BY <1>3
  <2>2. stops' = stops /\ call' = call
      BY <2>1 DEF Wheel!Take, Wheel!Finish, Wheel!workSide, Wheel!stopVars, Wheel!callVars
  <2>3. \E x \in Nat \cup {None} :
          busy' = [busy EXCEPT ![w] = x] /\ (stops = 0 => x # None)
    <3>1. CASE Wheel!Take(w)
      <4>1. consumer # <<>> /\ busy' = [busy EXCEPT ![w] = IF stops = 0 THEN Head(consumer) ELSE None]
          BY <3>1 DEF Wheel!Take
      <4>2. Head(consumer) \in Nat
          BY <1>1, <4>1
      <4>3. CASE stops = 0
          BY <1>1, <4>1, <4>2, <4>3
      <4>4. CASE stops # 0
          BY <4>1, <4>4
      <4> QED BY <4>3, <4>4
    <3>2. CASE Wheel!Finish(w)
      <4>1. busy' = [busy EXCEPT ![w] = 0]
          BY <3>2 DEF Wheel!Finish
      <4>2. 0 \in Nat /\ 0 # None
          BY <1>1
      <4> QED BY <4>1, <4>2
    <3> QED BY <2>1, <3>1, <3>2
  <2> QED BY <1>1, <2>2, <2>3 DEF BusyInv
<1>4. CASE \/ Wheel!Launch \/ Wheel!Quit
           \/ \E t \in Wheel!Tick : Wheel!Lock(t)
           \/ \E s \in Wheel!Slot : Wheel!Untrack(s) \/ Wheel!Send(s)
  <2>1. stops' = stops /\ busy' = busy /\ call' = call
      BY <1>4 DEF Wheel!Launch, Wheel!Quit, Wheel!Lock, Wheel!Untrack, Wheel!Send,
                  Wheel!callVars, Wheel!stopVars
  <2> QED BY <1>1, <2>1 DEF BusyInv
<1>5. CASE \E o \in Wheel!Users :
             \/ Wheel!Replace(o) \/ Wheel!Push(o) \/ Wheel!Set(o)
             \/ Wheel!CancelRemove(o) \/ Wheel!Forget(o) \/ Wheel!Call(o)
  <2>1. PICK o \in Wheel!Users :
             \/ Wheel!Replace(o) \/ Wheel!Push(o) \/ Wheel!Set(o)
             \/ Wheel!CancelRemove(o) \/ Wheel!Forget(o) \/ Wheel!Call(o)
      BY <1>5
  <2>2. stops' = stops /\ busy' = busy
      BY <2>1 DEF Wheel!Replace, Wheel!Push, Wheel!Set, Wheel!CancelRemove, Wheel!Forget,
                  Wheel!Call, Wheel!Cancel, Wheel!Add, Wheel!wheelSide, Wheel!stopVars
  <2>3. \E r : call' = [call EXCEPT ![o] = r] /\ (r.op = "none" => r = Wheel!NoCall)
    <3>1. CASE Wheel!Set(o) \/ Wheel!Forget(o)
        BY <3>1 DEF Wheel!Set, Wheel!Forget, Wheel!Return
    <3>2. CASE Wheel!Call(o)
      <4>1. PICK k \in Ids : Wheel!Cancel(o, k) \/ \E d \in Wheel!Delays : Wheel!Add(o, k, d)
          BY <3>2 DEF Wheel!Call
      <4>2. CASE Wheel!Cancel(o, k)
        <5> DEFINE r == [op |-> "cancel", id |-> k, due |-> None, old |-> Wheel!Found(k)]
        <5>1. call' = [call EXCEPT ![o] = r]
            BY <4>2 DEF Wheel!Cancel
        <5>2. r.op # "none"
            OBVIOUS
        <5> QED BY <5>1, <5>2
      <4>3. CASE \E d \in Wheel!Delays : Wheel!Add(o, k, d)
        <5>1. PICK d \in Wheel!Delays : Wheel!Add(o, k, d)
            BY <4>3
        <5> DEFINE op == IF Wheel!Found(k) = Wheel!NoTask THEN "push" ELSE "replace"
                   r == [op |-> op, id |-> k, due |-> Wheel!After(pos, d), old |-> Wheel!Found(k)]
        <5>2. call' = [call EXCEPT ![o] = r]
            BY <5>1 DEF Wheel!Add
        <5>3. r.op # "none"
            OBVIOUS
        <5> QED BY <5>2, <5>3
      <4> QED BY <4>1, <4>2, <4>3
    <3>3. CASE Wheel!Replace(o)
      <4>1. call' = [call EXCEPT ![o] = [call[o] EXCEPT !.op = "push", !.old = Wheel!NoTask]]
          BY <3>3 DEF Wheel!Replace
      <4>2. [call[o] EXCEPT !.op = "push", !.old = Wheel!NoTask].op # "none"
          BY <1>1 DEF CallOf
      <4> QED BY <4>1, <4>2
    <3>4. CASE Wheel!CancelRemove(o)
      <4>1. call' = [call EXCEPT ![o] = [call[o] EXCEPT !.op = "forget", !.old = Wheel!NoTask]]
          BY <3>4 DEF Wheel!CancelRemove
      <4>2. [call[o] EXCEPT !.op = "forget", !.old = Wheel!NoTask].op # "none"
          BY <1>1 DEF CallOf
      <4> QED BY <4>1, <4>2
    <3>5. CASE Wheel!Push(o)
      <4> DEFINE old == [slotIdx |-> Wheel!SlotOf(call[o].due), n |-> made']
      <4>1. call' = [call EXCEPT ![o] = [call[o] EXCEPT !.op = "set", !.due = None, !.old = old]]
          BY <3>5 DEF Wheel!Push
      <4>2. [call[o] EXCEPT !.op = "set", !.due = None, !.old = old].op # "none"
          BY <1>1 DEF CallOf
      <4> QED BY <4>1, <4>2
    <3> QED BY <2>1, <3>1, <3>2, <3>3, <3>4, <3>5
  <2>4. CallsFine
      BY <1>1, <2>3
  <2> QED BY <2>2, <2>4 DEF BusyInv
<1> QED BY <1>2, <1>3, <1>4, <1>5 DEF Wheel!Next, Wheel!Work

LEMMA BusyRests == BusyInv /\ UNCHANGED wheelVars => BusyInv'
BY DEF BusyInv, wheelVars

(* A wheel that has work can go on, except when it is full, with every worker *)
(* in a callback that waits for a slot that is being sent.                   *)
LEMMA WheelGoesOn ==
  ASSUME WheelAssumption, ChannelAssumption, WheelInv, BusyInv
  PROVE  GoesOn
<1> SUFFICES ASSUME stops = 0, Started, ~Ready, NEW w \in Workers
             PROVE  CallbackWaits(w)
    BY DEF GoesOn
<1>1. /\ jobs \subseteq Wheel!Tick /\ untracked \subseteq Wheel!Slot
      /\ consumer \in Seq(Nat) /\ call \in [Wheel!Users -> CallOf]
      /\ ChanCap \in Nat /\ ChanCap > 0 /\ w \in Wheel!Users
    BY DEF WheelInv, WheelType, ChannelAssumption, Wheel!Users
<1>2. \A s \in Wheel!Slot : lock[s] # None => s \in untracked
    BY DEF Ready
<1>3. \A o \in Wheel!Users : call[o].op \in {"replace", "push", "cancel"} =>
        SlotOfCall(o) \in untracked
  <2> SUFFICES ASSUME NEW o \in Wheel!Users, call[o].op \in {"replace", "push", "cancel"}
               PROVE  SlotOfCall(o) \in untracked
      OBVIOUS
  <2>1. SlotOfCall(o) \in Wheel!Slot
    <3>1. CASE call[o].op = "push"
      <4>1. call[o].due \in Wheel!Tick
          BY <3>1 DEF WheelInv, CallInv
      <4> QED BY <3>1, <4>1, SlotTypes DEF SlotOfCall
    <3>2. CASE call[o].op # "push"
        BY <3>2 DEF WheelInv, CallInv, Referring, SlotOfCall
    <3> QED BY <3>1, <3>2
  <2>2. lock[SlotOfCall(o)] # None
      BY DEF Ready
  <2> QED BY <1>2, <2>1, <2>2
<1>4. consumer # <<>>
  <2>1. untracked # {} => consumer # <<>>
    <3> SUFFICES ASSUME untracked # {}, consumer = <<>> PROVE FALSE
        OBVIOUS
    <3>1. Len(consumer) = 0
        OBVIOUS
    <3>2. stops < 2 /\ Len(consumer) < ChanCap
        BY <1>1, <3>1
    <3> QED BY <3>2 DEF Ready
  <2>2. CASE jobs # {}
    <3>1. PICK t \in jobs : lock[Wheel!SlotOf(t)] # None
        BY <2>2 DEF Ready
    <3>2. Wheel!SlotOf(t) \in Wheel!Slot
        BY <1>1, SlotTypes
    <3> QED BY <1>2, <2>1, <3>1, <3>2
  <2>3. CASE \E o \in Wheel!Users : call[o] # Wheel!NoCall
    <3>1. PICK o \in Wheel!Users : call[o] # Wheel!NoCall
        BY <2>3
    <3>2. call[o].op # "none" /\ call[o].op \in Ops
        BY <1>1, <3>1 DEF BusyInv, CallOf
    <3>3. call[o].op \in {"replace", "push", "cancel"}
        BY <3>2 DEF Ready, Ops
    <3> QED BY <1>3, <2>1, <3>3
  <2> QED BY <2>2, <2>3 DEF Started
<1>5. Wheel!Runs(w)
  <2>1. busy[w] # 0
      BY <1>4 DEF Ready
  <2> QED BY <2>1 DEF BusyInv, Wheel!Runs
<1>6. call[w].op \in {"replace", "push", "cancel"}
  <2>1. call[w] # Wheel!NoCall
      BY <1>5 DEF Ready
  <2>2. call[w].op # "none" /\ call[w].op \in Ops
      BY <1>1, <2>1 DEF BusyInv, CallOf
  <2> QED BY <1>1, <2>2 DEF Ready, Ops
<1> QED BY <1>1, <1>3, <1>5, <1>6 DEF CallbackWaits

-----------------------------------------------------------------------------
\* What holds of the specification the runs check.

(* The ranges of a migration partition its keys and are even.                *)
THEOREM UtilRanges == UtilSpec => [](PartitionBelowMax /\ FairShares)
<1>1. UtilInit => Init
    BY DEF UtilInit
<1>2. [UtilNext]_utilVars => [AddRange]_vars
    BY DEF UtilNext, utilVars
<1>3. UtilSpec => Spec
    BY <1>1, <1>2, PTL DEF UtilSpec, Spec
<1> QED BY <1>3, PartitionBelowMaxHolds, FairSharesHolds, PTL

(* The invariant of the limiter: a script that runs at most a second after    *)
(* its caller read the clock finds the hash, or the bucket is full again.     *)
THEOREM LimiterInvHolds ==
  ASSUME MaxDelay <= Second
  PROVE  UtilSpec => []LimiterInv
<1>1. UtilInit => LimiterInv
    BY LimiterStart, LimiterAssumption DEF UtilInit
<1>2. LimiterInv /\ [UtilNext]_utilVars => LimiterInv'
  <2> SUFFICES ASSUME LimiterInv, [UtilNext]_utilVars PROVE LimiterInv'
      OBVIOUS
  <2>1. Limiter!Next \/ UNCHANGED limiterVars
      BY DEF UtilNext, utilVars
  <2> QED BY <2>1, LimiterStep, LimiterRests, LimiterAssumption
<1> QED BY <1>1, <1>2, PTL DEF UtilSpec

(* For every capacity and rate: scripts that run in the order of their times  *)
(* never allow more calls than a full bucket and what flowed in since, though *)
(* the hash expires (distributed_rate_limiter.go).                           *)
THEOREM WithinBudgetHolds ==
  ASSUME MaxDelay <= Second
  PROVE  UtilSpec => []WithinBudget
<1>1. LimiterInv => WithinBudget
    BY DEF LimiterInv
<1> QED BY <1>1, LimiterInvHolds, PTL

(* The invariant of the wheel: an element of a list is the one of its id, is  *)
(* being sent, or is the one the call for its id is about to deal with.       *)
THEOREM WheelInvHolds == UtilSpec => []WheelInv
<1>1. UtilInit => WheelInv
    BY WheelStart, WheelAssumption DEF UtilInit
<1>2. WheelInv /\ [UtilNext]_utilVars => WheelInv'
  <2> SUFFICES ASSUME WheelInv, [UtilNext]_utilVars PROVE WheelInv'
      OBVIOUS
  <2>1. Wheel!Next \/ UNCHANGED wheelVars
      BY DEF UtilNext, utilVars
  <2> QED BY <2>1, WheelStep, WheelRests, WheelAssumption
<1> QED BY <1>1, <1>2, PTL DEF UtilSpec

(* For every number of slots, clients and workers: a task is lost to Cancel   *)
(* only by calls for one id that overlap (timewheel.go).                     *)
THEOREM CancellableHolds == UtilSpec => []CancellableUnlessOverlapped
BY WheelGood, WheelInvHolds, PTL

(* For every number of workers, a channel of any size and any callbacks: until *)
(* Stop, the wheel goes on with what was started, or every worker waits for a *)
(* slot whose goroutine waits for a worker (timewheel.go: Execute, AddTask).  *)
THEOREM GoesOnHolds == UtilSpec => []GoesOn
<1>1. UtilInit => BusyInv
    BY BusyStart, WheelAssumption DEF UtilInit
<1>2. WheelInv /\ BusyInv /\ [UtilNext]_utilVars => BusyInv'
  <2> SUFFICES ASSUME WheelInv, BusyInv, [UtilNext]_utilVars PROVE BusyInv'
      OBVIOUS
  <2>1. Wheel!Next \/ UNCHANGED wheelVars
      BY DEF UtilNext, utilVars
  <2> QED BY <2>1, BusyStep, BusyRests, WheelAssumption
<1>3. WheelInv /\ BusyInv => GoesOn
    BY WheelGoesOn, WheelAssumption, ChannelAssumption
<1> QED BY <1>1, <1>2, <1>3, WheelInvHolds, PTL DEF UtilSpec

(* A task that nothing raced waits for the goroutine of its own tick, as long *)
(* as none is a whole turn late.                                             *)
THEOREM DueInvHolds ==
  ASSUME MaxLate \in Nat, MaxLate < NumSlots
  PROVE  UtilSpec => []DueInv
<1>1. UtilInit => DueInv
    BY DueStart DEF UtilInit
<1>2. WheelInv /\ DueInv /\ [UtilNext]_utilVars => DueInv'
  <2> SUFFICES ASSUME WheelInv, DueInv, [UtilNext]_utilVars PROVE DueInv'
      OBVIOUS
  <2>1. CASE Wheel!Next
      BY <2>1, DueStep, WheelAssumption
  <2>2. CASE UNCHANGED wheelVars
    <3>1. pos' = pos /\ jobs' = jobs /\ lock' = lock /\ slots' = slots
        BY <2>2 DEF wheelVars
    <3> QED BY <3>1 DEF DueInv, At
  <2>3. Wheel!Next \/ UNCHANGED wheelVars
      BY DEF UtilNext, utilVars
  <2> QED BY <2>1, <2>2, <2>3
<1> QED BY <1>1, <1>2, WheelInvHolds, PTL DEF UtilSpec

(* The goroutine of a tick hands over the tasks of its tick, and of no later  *)
(* turn (timewheel.go: Execute, AddTask).                                     *)
THEOREM OnTimeUnlessRacedHolds ==
  ASSUME MaxLate \in Nat, MaxLate < NumSlots
  PROVE  UtilSpec => OnTimeUnlessRaced
<1> DEFINE Handed ==
      part = "wheel" /\ Len(consumer') > Len(consumer) =>
        \A s \in Wheel!Slot : slots'[s] # slots[s] =>
          Head(slots[s]).due \in {None, lock[s]}
<1>1. WheelInv /\ DueInv /\ [UtilNext]_utilVars => [Handed]_<<part, consumer, slots, lock>>
  <2> SUFFICES ASSUME WheelInv, DueInv, [UtilNext]_utilVars,
                      part = "wheel", Len(consumer') > Len(consumer),
                      NEW s \in Wheel!Slot, slots'[s] # slots[s]
               PROVE  Head(slots[s]).due \in {None, lock[s]}
      OBVIOUS
  <2>1. Wheel!Next
      BY DEF UtilNext, utilVars, wheelVars
  <2>2. PICK z \in Wheel!Slot : Wheel!Send(z)
      BY <2>1, OnlySendSends
  <2>3. s = z /\ Head(slots[z]).due \in {None, lock[z]}
      BY <2>2, SendInTime, WheelAssumption
  <2> QED BY <2>3
<1> QED BY <1>1, WheelInvHolds, DueInvHolds, PTL DEF UtilSpec, OnTimeUnlessRaced

-----------------------------------------------------------------------------
\* Induction over the numbers: a property is given as the set of its numbers, a
\* recursive definition by the function that its equation determines.

(* A set of numbers that is not empty has a least one.                      *)
LEMMA Least ==
  ASSUME NEW T, T \subseteq Nat, T # {}
  PROVE  \E x \in T : \A y \in T : x <= y
<1> DEFINE R == {ss \in Nat \X Nat : ss[1] < ss[2]}
<1>1. OpToRel(<, Nat) = R
    BY Zenon DEF OpToRel
<1>2. IsWellFoundedOn(R, Nat)
    BY <1>1, NatLessThanWellFounded, Zenon
<1>3. PICK x \in T : \A y \in T : ~(<<y, x>> \in R)
  <2> HIDE DEF R
  <2> QED BY <1>2, WFMin, Zenon
<1>4. ASSUME NEW y \in T PROVE x <= y
  <2>1. x \in Nat /\ y \in Nat /\ ~(y < x)
      BY <1>3
  <2> QED BY <2>1
<1> QED BY <1>4

(* Induction, for a property that is given as the set of its numbers.       *)
LEMMA Induction ==
  ASSUME NEW P, P \subseteq Nat, 0 \in P, \A n \in P : n + 1 \in P
  PROVE  P = Nat
<1> SUFFICES ASSUME P # Nat PROVE FALSE
    OBVIOUS
<1> DEFINE T == Nat \ P
<1>1. T \subseteq Nat /\ T # {}
    OBVIOUS
<1>2. PICK x \in T : \A y \in T : x <= y
  <2> HIDE DEF T
  <2> QED BY <1>1, Least
<1>3. x # 0 /\ x - 1 \in Nat /\ ~(x <= x - 1)
    BY <1>2
<1>4. x - 1 \in P
    BY <1>2, <1>3
<1> QED BY <1>2, <1>3, <1>4

\* What begins with b and goes on from number to number by the steps of F.
Steps(S) == [Nat -> [S -> S]]
Iteration(g, b, F) == g[0] = b /\ \A k \in Nat : g[k + 1] = F[k][g[k]]

(* There is one, for every first value and every way to go on.              *)
LEMMA Iterates ==
  ASSUME NEW S, NEW b \in S, NEW F \in Steps(S)
  PROVE  \E g \in [Nat -> S] : Iteration(g, b, F)
<1> USE DEF Steps, Iteration
<1> DEFINE Run(k) == {g \in [0..k -> S] :
                        g[0] = b /\ \A at \in 0..(k - 1) : g[at + 1] = F[at][g[at]]}
<1>1. \A k \in Nat : Run(k) # {}
  <2> DEFINE P == {k \in Nat : Run(k) # {}}
  <2>1. 0 \in P
    <3>1. [at \in 0..0 |-> b] \in Run(0)
        OBVIOUS
    <3> QED BY <3>1
  <2>2. ASSUME NEW n \in P PROVE n + 1 \in P
    <3>1. PICK g \in Run(n) : TRUE
        OBVIOUS
    <3> DEFINE h == [at \in 0..(n + 1) |-> IF at = n + 1 THEN F[n][g[n]] ELSE g[at]]
    <3>2. h \in [0..(n + 1) -> S]
      <4>1. g[n] \in S /\ n \in Nat
          BY <3>1
      <4>2. F[n][g[n]] \in S
          BY <4>1
      <4>3. \A at \in 0..(n + 1) : at # n + 1 => at \in 0..n
          BY <4>1
      <4> QED BY <3>1, <4>2, <4>3
    <3>3. h[0] = b
        BY <3>1
    <3>4. ASSUME NEW at \in 0..n PROVE h[at + 1] = F[at][h[at]]
      <4>1. n \in Nat /\ h[at] = g[at] /\ at \in 0..(n + 1) /\ at + 1 \in 0..(n + 1)
          OBVIOUS
      <4>2. CASE at = n
          BY <4>1, <4>2
      <4>3. CASE at # n
        <5>1. at + 1 # n + 1 /\ at \in 0..(n - 1)
            BY <4>1, <4>3
        <5>2. h[at + 1] = g[at + 1]
            BY <4>1, <5>1
        <5> QED BY <3>1, <4>1, <5>1, <5>2
      <4> QED BY <4>2, <4>3
    <3> HIDE DEF h
    <3>5. h \in Run(n + 1)
      <4>1. n + 1 - 1 = n
          OBVIOUS
      <4>2. h \in {f \in [0..(n + 1) -> S] :
                     f[0] = b /\ \A at \in 0..n : f[at + 1] = F[at][f[at]]}
          BY <3>2, <3>3, <3>4
      <4> QED BY <4>1, <4>2
    <3> HIDE DEF Run
    <3>6. n + 1 \in Nat
        OBVIOUS
    <3> QED BY <3>5, <3>6
  <2> HIDE DEF P
  <2>3. P = Nat
      BY <2>1, <2>2, Induction DEF P
  <2> QED BY <2>3 DEF P
<1>2. ASSUME NEW j \in Nat, NEW k \in Nat, NEW g \in Run(j), NEW h \in Run(k),
             NEW at \in Nat, at <= j, at <= k
      PROVE  g[at] = h[at]
  <2> DEFINE P == {m \in Nat : m <= j /\ m <= k => g[m] = h[m]}
  <2>1. 0 \in P
      OBVIOUS
  <2>2. ASSUME NEW n \in P PROVE n + 1 \in P
    <3> SUFFICES ASSUME n + 1 <= j, n + 1 <= k PROVE g[n + 1] = h[n + 1]
        OBVIOUS
    <3>1. n \in 0..(j - 1) /\ n \in 0..(k - 1) /\ g[n] = h[n]
        OBVIOUS
    <3> QED BY <3>1
  <2> HIDE DEF P
  <2>3. P = Nat
      BY <2>1, <2>2, Induction DEF P
  <2> QED BY <1>2, <2>3 DEF P
<1> DEFINE run == [k \in Nat |-> CHOOSE g : g \in Run(k)]
           all == [k \in Nat |-> run[k][k]]
<1>3. \A k \in Nat : run[k] \in Run(k)
  <2> SUFFICES ASSUME NEW k \in Nat PROVE (CHOOSE g : g \in Run(k)) \in Run(k)
      BY Zenon
  <2>1. \E g : g \in Run(k)
      BY <1>1
  <2> HIDE DEF Run
  <2> QED BY <2>1, Zenon
<1> HIDE DEF run
<1>4. all \in [Nat -> S] /\ all[0] = b
    BY <1>3
<1>5. ASSUME NEW k \in Nat PROVE all[k + 1] = F[k][all[k]]
  <2>1. run[k] \in Run(k) /\ run[k + 1] \in Run(k + 1)
      BY <1>3
  <2>2. run[k + 1][k] = run[k][k]
    <3> HIDE DEF Run
    <3> QED BY <1>2, <2>1
  <2>3. run[k + 1][k + 1] = F[k][run[k + 1][k]]
      BY <2>1
  <2> QED BY <2>2, <2>3
<1> QED BY <1>4, <1>5

-----------------------------------------------------------------------------
\* The balancer, for any announced weights and any number of connections.

\* s are the partial sums of f.
SumOf(s, f, n) ==
  /\ s \in [0..n -> Int] /\ s[0] = 0
  /\ \A k \in 1..n : s[k] = s[k - 1] + f[k]
  /\ Balancer!AddUp(f, n) = s[n]

Ints(f, n) == \A k \in 1..n : f[k] \in Int

(* The partial sums are a function that the equation of AddUp determines.     *)
LEMMA SumExists ==
  ASSUME NEW n \in Nat, NEW f, Ints(f, n)
  PROVE  \E s : SumOf(s, f, n)
<1> DEFINE F == [k \in Nat |-> [x \in Int |-> x + (IF k + 1 \in 1..n THEN f[k + 1] ELSE 0)]]
<1>1. F \in Steps(Int)
    BY DEF Ints, Steps
<1>2. \A k \in Nat, x \in Int : F[k][x] = x + (IF k + 1 \in 1..n THEN f[k + 1] ELSE 0)
    OBVIOUS
<1> HIDE DEF F
<1>3. PICK g \in [Nat -> Int] : Iteration(g, 0, F)
  <2>1. 0 \in Int
      OBVIOUS
  <2> QED BY <1>1, <2>1, Iterates, Zenon
<1> DEFINE s == [k \in 0..n |-> g[k]]
<1>4. s \in [0..n -> Int] /\ s[0] = 0
    BY <1>3 DEF Iteration
<1>5. ASSUME NEW k \in 1..n PROVE s[k] = s[k - 1] + f[k]
  <2>1. k - 1 \in Nat /\ k \in 0..n /\ k - 1 \in 0..n /\ k - 1 + 1 = k
      OBVIOUS
  <2>2. g[k - 1 + 1] = F[k - 1][g[k - 1]]
      BY <1>3, <2>1 DEF Iteration
  <2>3. F[k - 1][g[k - 1]] = g[k - 1] + f[k]
      BY <1>2, <1>3, <2>1
  <2> QED BY <2>1, <2>2, <2>3
<1> DEFINE sum[k \in 0..n] == IF k = 0 THEN 0 ELSE sum[k - 1] + f[k]
<1>6. Balancer!AddUp(f, n) = sum[n]
    BY DEF Balancer!AddUp
<1>7. sum = CHOOSE w : w = [k \in 0..n |-> IF k = 0 THEN 0 ELSE w[k - 1] + f[k]]
    BY Zenon
<1> HIDE DEF sum
<1>8. s = [k \in 0..n |-> IF k = 0 THEN 0 ELSE s[k - 1] + f[k]]
  <2>1. \A k \in 0..n : s[k] = IF k = 0 THEN 0 ELSE s[k - 1] + f[k]
    <3> SUFFICES ASSUME NEW k \in 0..n PROVE s[k] = IF k = 0 THEN 0 ELSE s[k - 1] + f[k]
        OBVIOUS
    <3> HIDE DEF s
    <3>1. k # 0 => k \in 1..n
        OBVIOUS
    <3> QED BY <1>4, <1>5, <3>1
  <2> QED BY <2>1, Zenon
<1> HIDE DEF s
<1>9. sum = [k \in 0..n |-> IF k = 0 THEN 0 ELSE sum[k - 1] + f[k]]
    BY <1>7, <1>8
<1>10. sum[0] = 0 /\ \A k \in 1..n : sum[k] = sum[k - 1] + f[k]
  <2>1. 0 \in 0..n /\ \A k \in 1..n : k \in 0..n /\ k # 0
      OBVIOUS
  <2> QED BY <1>9, <2>1, Zenon
<1>11. sum \in [0..n -> Int]
  <2>1. DOMAIN sum = 0..n /\ sum = [k \in 0..n |-> sum[k]]
      BY <1>9
  <2> DEFINE P == {k \in Nat : k <= n => sum[k] \in Int}
  <2>2. 0 \in P
      BY <1>10
  <2>3. ASSUME NEW k \in P PROVE k + 1 \in P
    <3> SUFFICES ASSUME k + 1 <= n PROVE sum[k + 1] \in Int
        OBVIOUS
    <3>1. k + 1 \in 1..n /\ k + 1 - 1 = k /\ sum[k] \in Int
        OBVIOUS
    <3>2. sum[k + 1] = sum[k] + f[k + 1] /\ f[k + 1] \in Int
        BY <1>10, <3>1 DEF Ints
    <3> QED BY <3>1, <3>2
  <2> HIDE DEF P
  <2>4. P = Nat
      BY <2>2, <2>3, Induction DEF P
  <2>5. \A k \in 0..n : sum[k] \in Int
      BY <2>4 DEF P
  <2> QED BY <2>1, <2>5
<1> QED BY <1>6, <1>10, <1>11 DEF SumOf

(* Integers add up to an integer.                                             *)
LEMMA SumInt ==
  ASSUME NEW n \in Nat, NEW f, Ints(f, n)
  PROVE  Balancer!AddUp(f, n) \in Int
<1>1. PICK s : SumOf(s, f, n)
    BY SumExists
<1> QED BY <1>1 DEF SumOf

(* The sum of sums.                                                         *)
LEMMA SumAdd ==
  ASSUME NEW n \in Nat, NEW f, NEW g, NEW h, Ints(f, n), Ints(g, n),
         \A k \in 1..n : h[k] = f[k] + g[k]
  PROVE  Balancer!AddUp(h, n) = Balancer!AddUp(f, n) + Balancer!AddUp(g, n)
<1>1. Ints(h, n)
    BY DEF Ints
<1>2. PICK s : SumOf(s, f, n)
    BY SumExists
<1>3. PICK t : SumOf(t, g, n)
    BY SumExists
<1>4. PICK u : SumOf(u, h, n)
    BY <1>1, SumExists
<1> DEFINE P == {k \in Nat : k <= n => u[k] = s[k] + t[k]}
<1>5. 0 \in P
    BY <1>2, <1>3, <1>4 DEF SumOf
<1>6. ASSUME NEW k \in P PROVE k + 1 \in P
  <2> SUFFICES ASSUME k + 1 <= n PROVE u[k + 1] = s[k + 1] + t[k + 1]
      OBVIOUS
  <2>1. k + 1 \in 1..n /\ k + 1 - 1 = k /\ k \in 0..n /\ u[k] = s[k] + t[k]
      OBVIOUS
  <2>2. /\ s[k + 1] = s[k] + f[k + 1] /\ t[k + 1] = t[k] + g[k + 1]
        /\ u[k + 1] = u[k] + h[k + 1]
      BY <1>2, <1>3, <1>4, <2>1 DEF SumOf
  <2>3. s[k] \in Int /\ t[k] \in Int /\ f[k + 1] \in Int /\ g[k + 1] \in Int
      BY <1>2, <1>3, <2>1 DEF SumOf, Ints
  <2> QED BY <2>1, <2>2, <2>3
<1> HIDE DEF P
<1>7. P = Nat
    BY <1>5, <1>6, Induction DEF P
<1>8. u[n] = s[n] + t[n]
    BY <1>7 DEF P
<1> QED BY <1>2, <1>3, <1>4, <1>8 DEF SumOf

(* The sum of n times the same number.                                        *)
LEMMA SumConst ==
  ASSUME NEW n \in Nat, NEW x \in Int, NEW f, \A k \in 1..n : f[k] = x
  PROVE  Balancer!AddUp(f, n) = n * x
<1>1. PICK s : SumOf(s, f, n)
    BY SumExists DEF Ints
<1> DEFINE P == {k \in Nat : k <= n => s[k] = k * x}
<1>2. 0 \in P
    BY <1>1 DEF SumOf
<1>3. ASSUME NEW k \in P PROVE k + 1 \in P
  <2> SUFFICES ASSUME k + 1 <= n PROVE s[k + 1] = (k + 1) * x
      OBVIOUS
  <2>0. k \in Nat /\ k + 1 \in 1..n /\ k + 1 - 1 = k
      OBVIOUS
  <2>1. s[k] = k * x
      BY <2>0
  <2>2. s[k + 1] = k * x + x
    <3> HIDE DEF P
    <3>1. \A j \in 1..n : s[j] = s[j - 1] + f[j]
        BY <1>1 DEF SumOf
    <3>2. s[k + 1] = s[k + 1 - 1] + f[k + 1] /\ f[k + 1] = x
        BY <2>0, <3>1
    <3>3. s[k + 1] = s[k] + x
        BY <2>0, <3>2
    <3> QED BY <2>1, <3>3, Zenon
  <2> QED BY <2>1, <2>2
<1> HIDE DEF P
<1>4. P = Nat
    BY <1>2, <1>3, Induction DEF P
<1>5. s[n] = n * x
    BY <1>4 DEF P
<1> QED BY <1>1, <1>5 DEF SumOf

(* One entry changes.                                                       *)
LEMMA SumUpdate ==
  ASSUME NEW n \in Nat, NEW f, NEW g, NEW b \in 1..n, Ints(f, n), g[b] \in Int,
         \A k \in 1..n : k # b => g[k] = f[k]
  PROVE  Balancer!AddUp(g, n) = Balancer!AddUp(f, n) + g[b] - f[b]
<1>1. Ints(g, n)
    BY DEF Ints
<1>2. PICK s : SumOf(s, f, n)
    BY SumExists
<1>3. PICK t : SumOf(t, g, n)
    BY <1>1, SumExists
<1> DEFINE P == {k \in Nat : k <= n => t[k] = s[k] + (IF k < b THEN 0 ELSE g[b] - f[b])}
<1>4. 0 \in P
    BY <1>2, <1>3 DEF SumOf
<1>5. ASSUME NEW k \in P PROVE k + 1 \in P
  <2> SUFFICES ASSUME k + 1 <= n
               PROVE  t[k + 1] = s[k + 1] + (IF k + 1 < b THEN 0 ELSE g[b] - f[b])
      OBVIOUS
  <2>0. k + 1 \in 1..n /\ k + 1 - 1 = k /\ k \in 0..n /\ k <= n
      OBVIOUS
  <2>1. t[k] = s[k] + (IF k < b THEN 0 ELSE g[b] - f[b])
      BY <2>0
  <2>2. s[k + 1] = s[k] + f[k + 1] /\ t[k + 1] = t[k] + g[k + 1]
    <3> HIDE DEF P
    <3>1. \A j \in 1..n : s[j] = s[j - 1] + f[j] /\ t[j] = t[j - 1] + g[j]
        BY <1>2, <1>3 DEF SumOf
    <3> QED BY <2>0, <3>1
  <2>3. s[k] \in Int /\ f[k + 1] \in Int /\ f[b] \in Int
      BY <1>2, <2>0 DEF SumOf, Ints
  <2>4. CASE k + 1 = b
      BY <2>0, <2>1, <2>2, <2>3, <2>4
  <2>5. CASE k + 1 # b
      BY <2>0, <2>1, <2>2, <2>3, <2>5
  <2> QED BY <2>4, <2>5
<1> HIDE DEF P
<1>6. P = Nat
    BY <1>4, <1>5, Induction DEF P
<1>7. t[n] = s[n] + g[b] - f[b]
  <2>1. s[n] \in Int /\ f[b] \in Int
      BY <1>2 DEF SumOf, Ints
  <2>2. t[n] = s[n] + (g[b] - f[b])
      BY <1>6 DEF P
  <2> QED BY <2>1, <2>2
<1> QED BY <1>2, <1>3, <1>7 DEF SumOf

(* What is not negative adds up to what is not negative.                      *)
LEMMA SumNat ==
  ASSUME NEW n \in Nat, NEW f, \A k \in 1..n : f[k] \in Nat
  PROVE  Balancer!AddUp(f, n) \in Nat
<1>1. PICK s : SumOf(s, f, n)
    BY SumExists DEF Ints
<1> DEFINE P == {k \in Nat : k <= n => s[k] \in Nat}
<1>2. 0 \in P
    BY <1>1 DEF SumOf
<1>3. ASSUME NEW k \in P PROVE k + 1 \in P
  <2> SUFFICES ASSUME k + 1 <= n PROVE s[k + 1] \in Nat
      OBVIOUS
  <2>1. k + 1 \in 1..n /\ k + 1 - 1 = k /\ s[k] \in Nat
      OBVIOUS
  <2>2. s[k + 1] = s[k] + f[k + 1]
      BY <1>1, <2>1 DEF SumOf
  <2> QED BY <2>1, <2>2
<1> HIDE DEF P
<1>4. P = Nat
    BY <1>2, <1>3, Induction DEF P
<1>5. s[n] \in Nat
    BY <1>4 DEF P
<1> QED BY <1>1, <1>5 DEF SumOf

(* No entry, and no two, exceed a sum of what is not negative.              *)
LEMMA SumEntries ==
  ASSUME NEW n \in Nat, NEW f, NEW b \in 1..n, \A k \in 1..n : f[k] \in Nat
  PROVE  /\ f[b] <= Balancer!AddUp(f, n)
         /\ \A c \in 1..n : c # b => f[b] + f[c] <= Balancer!AddUp(f, n)
<1> DEFINE Without(x, e) == [k \in 1..n |-> IF k = e THEN 0 ELSE x[k]]
<1>1. ASSUME NEW x, NEW e \in 1..n, \A k \in 1..n : x[k] \in Nat
      PROVE  /\ \A k \in 1..n : Without(x, e)[k] \in Nat
             /\ Balancer!AddUp(x, n) = Balancer!AddUp(Without(x, e), n) + x[e]
             /\ Balancer!AddUp(Without(x, e), n) \in Nat
             /\ \A k \in 1..n : k # e => Without(x, e)[k] = x[k]
  <2> DEFINE y == Without(x, e)
  <2>1. y[e] = 0 /\ \A k \in 1..n : k # e => y[k] = x[k]
      OBVIOUS
  <2>2. \A k \in 1..n : y[k] \in Nat
      BY <1>1
  <2> HIDE DEF y
  <2>3. Ints(x, n)
      BY <1>1 DEF Ints
  <2>4. Balancer!AddUp(y, n) = Balancer!AddUp(x, n) + y[e] - x[e]
      BY <2>1, <2>3, SumUpdate
  <2>5. Balancer!AddUp(y, n) \in Nat /\ Balancer!AddUp(x, n) \in Nat /\ x[e] \in Nat
      BY <1>1, <2>2, SumNat
  <2>6. Balancer!AddUp(x, n) = Balancer!AddUp(y, n) + x[e]
      BY <2>1, <2>4, <2>5
  <2> QED BY <2>1, <2>2, <2>5, <2>6 DEF y
<1> HIDE DEF Without
<1>2. f[b] \in Nat /\ Balancer!AddUp(f, n) \in Nat
    BY SumNat
<1>3. f[b] <= Balancer!AddUp(f, n)
    BY <1>1, <1>2
<1>4. ASSUME NEW c \in 1..n, c # b PROVE f[b] + f[c] <= Balancer!AddUp(f, n)
  <2> DEFINE y == Without(f, b)
             z == Without(y, c)
  <2>1. /\ \A k \in 1..n : y[k] \in Nat
        /\ Balancer!AddUp(f, n) = Balancer!AddUp(y, n) + f[b] /\ y[c] = f[c]
      BY <1>1, <1>4
  <2>2. Balancer!AddUp(y, n) = Balancer!AddUp(z, n) + y[c] /\ Balancer!AddUp(z, n) \in Nat
      BY <1>1, <2>1
  <2>3. f[c] \in Nat
      OBVIOUS
  <2> HIDE DEF y, z
  <2> QED BY <1>2, <2>1, <2>2, <2>3
<1> QED BY <1>3, <1>4

(* One of finitely many integers is greatest.                                 *)
LEMMA Greatest ==
  ASSUME NEW n \in Nat \ {0}, NEW f, Ints(f, n)
  PROVE  \E b \in 1..n : \A k \in 1..n : f[b] >= f[k]
<1> DEFINE P == {m \in Nat : m < n => \E b \in 1..(m + 1) : \A k \in 1..(m + 1) : f[b] >= f[k]}
<1>1. 0 \in P
  <2>1. 1 \in 1..1 /\ \A k \in 1..1 : k = 1 /\ f[1] \in Int
      BY DEF Ints
  <2> QED BY <2>1
<1>2. ASSUME NEW m \in P PROVE m + 1 \in P
  <2> SUFFICES ASSUME m + 1 < n
               PROVE  \E b \in 1..(m + 2) : \A k \in 1..(m + 2) : f[b] >= f[k]
      OBVIOUS
  <2>1. PICK b \in 1..(m + 1) : \A k \in 1..(m + 1) : f[b] >= f[k]
      OBVIOUS
  <2>2. /\ b \in 1..(m + 2) /\ m + 2 \in 1..(m + 2)
        /\ \A k \in 1..(m + 2) : f[k] \in Int /\ (k # m + 2 => k \in 1..(m + 1))
      BY DEF Ints
  <2>3. CASE f[b] >= f[m + 2]
      BY <2>1, <2>2, <2>3
  <2>4. CASE f[b] < f[m + 2]
      BY <2>1, <2>2, <2>4
  <2> QED BY <2>2, <2>3, <2>4
<1> HIDE DEF P
<1>3. P = Nat
    BY <1>1, <1>2, Induction DEF P
<1>4. n - 1 \in P /\ n - 1 + 1 = n /\ n - 1 < n
    BY <1>3
<1> QED BY <1>4 DEF P

(* One pick: who has most has not had its share, and nobody else has too much. *)
LEMMA Raise ==
  ASSUME NEW n \in Nat \ {0}, NEW w, NEW cur, NEW r, NEW b \in 1..n,
         \A c \in 1..n : w[c] \in Nat \ {0} /\ cur[c] \in Int
                         /\ cur[c] > -Balancer!AddUp(w, n) /\ r[c] = cur[c] + w[c],
         Balancer!AddUp(cur, n) = 0,
         \A c \in 1..n : r[b] >= r[c]
  PROVE  LET T == Balancer!AddUp(w, n)
         IN /\ T \in Nat \ {0} /\ Balancer!AddUp(r, n) = T /\ r[b] > 0 /\ w[b] <= T
            /\ \A c \in 1..n : c # b => 2 * r[c] <= (n - 1) * T - (n - 2)
<1> DEFINE T == Balancer!AddUp(w, n)
<1>0. Ints(w, n) /\ Ints(cur, n) /\ Ints(r, n) /\ \A c \in 1..n : w[c] \in Nat
    BY DEF Ints
<1>1. T \in Nat /\ w[b] <= T /\ w[b] \in Nat \ {0}
    BY <1>0, SumNat, SumEntries
<1> HIDE DEF T
<1>2. Balancer!AddUp(r, n) = T
    BY <1>0, <1>1, SumAdd DEF T
<1>3. r[b] > 0
  <2> SUFFICES ASSUME ~(r[b] > 0) PROVE FALSE
      OBVIOUS
  <2> DEFINE e == [c \in 1..n |-> -r[c]]
             z == [c \in 1..n |-> 0]
  <2>1. \A c \in 1..n : r[c] \in Int /\ r[c] <= 0
      BY <1>0 DEF Ints
  <2>2. \A c \in 1..n : e[c] \in Nat /\ z[c] = r[c] + e[c] /\ z[c] = 0
      BY <2>1
  <2> HIDE DEF e, z
  <2>3. Balancer!AddUp(e, n) \in Nat /\ Ints(e, n)
      BY <2>2, SumNat DEF Ints
  <2>4. Balancer!AddUp(z, n) = T + Balancer!AddUp(e, n)
      BY <1>0, <1>2, <2>2, <2>3, SumAdd
  <2>5. Balancer!AddUp(z, n) = n * 0
      BY <2>2, SumConst
  <2>6. n * 0 = 0 /\ T > 0
      BY <1>1
  <2> QED BY <1>1, <2>3, <2>4, <2>5, <2>6
<1>4. ASSUME NEW c \in 1..n, c # b PROVE 2 * r[c] <= (n - 1) * T - (n - 2)
  <2> DEFINE m == T - 1
             d == [k \in 1..n |-> m]
             g == [k \in 1..n |-> r[k] + m]
  <2>1. m \in Nat /\ T = m + 1
      BY <1>1
  <2>2. \A k \in 1..n : r[k] \in Int /\ g[k] = r[k] + d[k] /\ d[k] = m /\ g[k] \in Nat
    <3>1. \A k \in 1..n : r[k] \in Int /\ r[k] + m \in Nat
        BY <1>1, <2>1 DEF T
    <3> QED BY <3>1
  <2> HIDE DEF m, d, g
  <2>3. Balancer!AddUp(d, n) = n * m
      BY <2>1, <2>2, SumConst
  <2>4. Balancer!AddUp(g, n) = T + n * m
    <3>1. Ints(d, n)
        BY <2>1, <2>2 DEF Ints
    <3>2. Balancer!AddUp(g, n) = Balancer!AddUp(r, n) + Balancer!AddUp(d, n)
        BY <1>0, <2>2, <3>1, SumAdd
    <3> QED BY <1>2, <2>3, <3>2
  <2>5. g[b] + g[c] <= T + n * m
      BY <1>4, <2>2, <2>4, SumEntries
  <2>6. r[b] + m + r[c] + m <= T + n * m /\ r[c] <= r[b] /\ r[c] \in Int /\ r[b] \in Int
      BY <2>1, <2>2, <2>5
  <2> DEFINE p == n * m
  <2>7. p \in Int /\ (n - 1) * T = p + n - T
      BY <2>1
  <2>8. r[b] + m + r[c] + m <= T + p
      BY <2>6
  <2> HIDE DEF p
  <2>9. 2 * r[c] + 2 * m <= T + p
      BY <1>1, <2>1, <2>6, <2>7, <2>8
  <2>10. 2 * r[c] <= p + n - T - (n - 2)
      BY <1>1, <2>1, <2>6, <2>7, <2>9
  <2> DEFINE q == (n - 1) * T
  <2>11. q \in Int /\ q = p + n - T
      BY <1>1, <2>7
  <2> HIDE DEF q
  <2>12. 2 * r[c] <= q - (n - 2)
      BY <1>1, <2>6, <2>7, <2>10, <2>11
  <2> QED BY <2>12 DEF q
<1> QED BY <1>1, <1>2, <1>3, <1>4 DEF T

\* The dynamic weights add up to zero, each is the lead of its connection times the
\* total, turned round, and they stay within bounds.
Balanced(m, w, cur, p) ==
  LET n   == Len(m)
      all == Balancer!AddUp(w, n)
  IN /\ m \in Seq(Metadata) /\ w = [s \in DOMAIN m |-> Share(m[s])]
     /\ cur \in [DOMAIN m -> Int] /\ p \in [DOMAIN m -> Nat]
     /\ Balancer!AddUp(cur, n) = 0
     /\ \A s \in DOMAIN m :
          /\ cur[s] = Balancer!AddUp(p, n) * w[s] - p[s] * all
          /\ cur[s] > -all /\ 2 * cur[s] <= (n - 1) * all - (n - 2)
BalancerInv == Balanced(meta, weight, current, picks)

(* The weight Build takes is the share a connection is due.                   *)
LEMMA ShareType ==
  \A m \in Metadata : Share(m) \in Nat \ {0} /\ Share(m) = Balancer!WeightOf(m)
<1> SUFFICES ASSUME NEW m \in Metadata
             PROVE  Share(m) \in Nat \ {0} /\ Share(m) = Balancer!WeightOf(m)
    OBVIOUS
<1>1. m # None => m \in Int
    BY BalancerAssumption
<1> QED BY <1>1 DEF Share, Balancer!WeightOf

(* Without picks the weights are balanced, for any connections.               *)
LEMMA BalancerFresh ==
  ASSUME NEW m \in Seq(Metadata), NEW w, NEW cur, NEW p, w = [s \in DOMAIN m |-> Share(m[s])],
         cur = [s \in DOMAIN m |-> 0], p = [s \in DOMAIN m |-> 0]
  PROVE  Balanced(m, w, cur, p)
<1> DEFINE n == Len(m)
           all == Balancer!AddUp(w, n)
<1>1. n \in Nat /\ DOMAIN m = 1..n
    OBVIOUS
<1>2. \A s \in 1..n : w[s] \in Nat \ {0} /\ cur[s] = 0 /\ p[s] = 0
    BY <1>1, ShareType
<1>3. all \in Nat /\ \A s \in 1..n : w[s] <= all
    BY <1>1, <1>2, SumNat, SumEntries
<1>4. Balancer!AddUp(cur, n) = 0 /\ Balancer!AddUp(p, n) = 0
  <2>1. n \in Nat /\ 0 \in Int /\ n * 0 = 0
      BY <1>1
  <2>2. (\A s \in 1..n : cur[s] = 0) /\ (\A s \in 1..n : p[s] = 0)
      BY <1>2
  <2> HIDE DEF n
  <2>3. Balancer!AddUp(cur, n) = n * 0
      BY <2>1, <2>2, SumConst, Zenon
  <2>4. Balancer!AddUp(p, n) = n * 0
      BY <2>1, <2>2, SumConst, Zenon
  <2> QED BY <2>1, <2>3, <2>4
<1>5. ASSUME NEW s \in 1..n
      PROVE  0 <= (n - 1) * all - (n - 2) /\ 0 > -all /\ 0 = 0 * w[s] - 0 * all
  <2>1. all >= 1 /\ n >= 1 /\ w[s] \in Nat
      BY <1>1, <1>2, <1>3
  <2> DEFINE u == n - 1
             v == all - 1
  <2>2. u \in Nat /\ v \in Nat /\ u = n - 1 /\ all = v + 1
      BY <1>1, <1>3, <2>1
  <2> HIDE DEF u, v, n, all
  <2>3. u * v \in Nat
      BY <2>2
  <2>4. (n - 1) * all = u * v + u
    <3>1. u * (v + 1) = u * v + u
        BY <2>2
    <3> QED BY <2>2, <3>1
  <2>5. 0 <= (n - 1) * all - (n - 2)
    <3> DEFINE x == u * v
    <3>1. x \in Nat /\ (n - 1) * all = x + u
        BY <2>3, <2>4
    <3> HIDE DEF x
    <3> QED BY <1>1, <2>2, <3>1
  <2>6. 0 > -all /\ 0 * w[s] = 0 /\ 0 * all = 0
      BY <1>3, <2>1
  <2> QED BY <2>5, <2>6
<1>6. /\ cur \in [DOMAIN m -> Int] /\ p \in [DOMAIN m -> Nat]
      /\ \A s \in DOMAIN m : s \in 1..n /\ cur[s] = 0 /\ p[s] = 0
    BY <1>1, <1>2
<1>7. \A s \in DOMAIN m :
        /\ cur[s] = Balancer!AddUp(p, n) * w[s] - p[s] * all
        /\ cur[s] > -all /\ 2 * cur[s] <= (n - 1) * all - (n - 2)
  <2> HIDE DEF n, all
  <2> SUFFICES ASSUME NEW s \in DOMAIN m
               PROVE  /\ cur[s] = Balancer!AddUp(p, n) * w[s] - p[s] * all
                      /\ cur[s] > -all /\ 2 * cur[s] <= (n - 1) * all - (n - 2)
      OBVIOUS
  <2>1. cur[s] = 0 /\ p[s] = 0 /\ 2 * 0 = 0
      BY <1>6
  <2>2. 0 <= (n - 1) * all - (n - 2) /\ 0 > -all /\ 0 = 0 * w[s] - 0 * all
      BY <1>5, <1>6
  <2> QED BY <1>4, <2>1, <2>2
<1> QED BY <1>4, <1>6, <1>7 DEF Balanced

(* A new picker starts without picks and with no weight in hand.             *)
LEMMA BalancerBuild == Balancer!Build => BalancerInv'
<1> SUFFICES ASSUME Balancer!Build PROVE BalancerInv'
    OBVIOUS
<1>1. PICK m \in Balancer!BoundedSeq(Metadata, MaxConns) :
        /\ meta' = m /\ weight' = [c \in DOMAIN m |-> Balancer!WeightOf(m[c])]
        /\ current' = [c \in DOMAIN m |-> 0] /\ picks' = [c \in DOMAIN m |-> 0]
    BY DEF Balancer!Build
<1>2. m \in Seq(Metadata)
    BY DEF Balancer!BoundedSeq, Balancer!SeqOf
<1>3. [c \in DOMAIN m |-> Balancer!WeightOf(m[c])] = [c \in DOMAIN m |-> Share(m[c])]
  <2>1. \A c \in DOMAIN m : Balancer!WeightOf(m[c]) = Share(m[c])
      BY <1>2, ShareType
  <2> QED BY <2>1
<1>4. /\ meta' \in Seq(Metadata) /\ weight' = [s \in DOMAIN meta' |-> Share(meta'[s])]
      /\ current' = [s \in DOMAIN meta' |-> 0] /\ picks' = [s \in DOMAIN meta' |-> 0]
    BY <1>1, <1>2, <1>3
<1> QED BY <1>4, BalancerFresh DEF BalancerInv

(* A pick takes the total from who has most, and leaves the others below.   *)
LEMMA BalancerPick ==
  ASSUME BalancerInv, Balancer!Pick
  PROVE  BalancerInv'
<1> DEFINE n == Len(meta)
           T == Balancer!AddUp(weight, n)
           N == Balancer!AddUp(picks, n)
           r == [c \in 1..n |-> current[c] + weight[c]]
<1>1. /\ n \in Nat /\ DOMAIN meta = 1..n /\ meta \in Seq(Metadata)
      /\ weight = [s \in 1..n |-> Share(meta[s])]
      /\ current \in [1..n -> Int] /\ picks \in [1..n -> Nat]
      /\ Balancer!AddUp(current, n) = 0
      /\ \A s \in 1..n :
           /\ current[s] = N * weight[s] - picks[s] * T
           /\ current[s] > -T /\ 2 * current[s] <= (n - 1) * T - (n - 2)
  <2>1. meta \in Seq(Metadata) /\ n \in Nat /\ DOMAIN meta = 1..n
      BY DEF BalancerInv, Balanced
  <2> QED BY <2>1 DEF BalancerInv, Balanced
<1>2. \A s \in 1..n : weight[s] \in Nat \ {0}
    BY <1>1, ShareType
<1>3. n # 0
    BY <1>1 DEF Balancer!Pick, Balancer!Ready
<1>4. \A c \in 1..n : r[c] \in Int /\ r[c] = current[c] + weight[c]
  <2>1. \A c \in 1..n : current[c] \in Int /\ weight[c] \in Nat
      BY <1>1, <1>2
  <2> HIDE DEF n
  <2> QED BY <2>1
<1> DEFINE best == Balancer!Min({c \in 1..n : \A d \in 1..n : r[c] >= r[d]})
<1>5. /\ current' = [r EXCEPT ![best] = r[best] - T]
      /\ picks' = [picks EXCEPT ![best] = picks[best] + 1]
      /\ meta' = meta /\ weight' = weight
    BY <1>1 DEF Balancer!Pick, Balancer!Ready, Balancer!Total
<1>6. best \in 1..n /\ \A d \in 1..n : r[best] >= r[d]
  <2> DEFINE B == {c \in 1..n : \A d \in 1..n : r[c] >= r[d]}
  <2>1. B # {}
      BY <1>1, <1>3, <1>4, Greatest DEF Ints
  <2>2. B \subseteq Nat
      BY <1>1
  <2>3. \E x \in B : \A y \in B : x <= y
      BY <2>1, <2>2, Least
  <2>4. Balancer!Min(B) \in B
      BY <2>3 DEF Balancer!Min
  <2> QED BY <2>4
<1> HIDE DEF r, best
<1>7. /\ T \in Nat \ {0} /\ Balancer!AddUp(r, n) = T /\ r[best] > 0 /\ weight[best] <= T
      /\ \A c \in 1..n : c # best => 2 * r[c] <= (n - 1) * T - (n - 2)
  <2> HIDE DEF n
  <2>1. \A c \in 1..n : weight[c] \in Nat \ {0} /\ current[c] \in Int
                        /\ current[c] > -T /\ r[c] = current[c] + weight[c]
      BY <1>1, <1>2, <1>4
  <2>2. n \in Nat \ {0} /\ Balancer!AddUp(current, n) = 0
      BY <1>1, <1>3
  <2> QED BY <1>6, <2>1, <2>2, Raise
<1>8. /\ DOMAIN r = 1..n /\ current' \in [1..n -> Int] /\ picks' \in [1..n -> Nat]
      /\ current'[best] = r[best] - T /\ picks'[best] = picks[best] + 1
      /\ \A c \in 1..n : c # best => current'[c] = r[c] /\ picks'[c] = picks[c]
  <2> HIDE DEF n, T
  <2>1. DOMAIN r = 1..n /\ r \in [1..n -> Int]
    <3>1. DOMAIN r = 1..n /\ r = [c \in 1..n |-> r[c]]
        BY Zenon DEF r
    <3> QED BY <1>4, <3>1
  <2>2. best \in 1..n /\ r[best] - T \in Int /\ picks[best] + 1 \in Nat /\ picks \in [1..n -> Nat]
    <3>1. best \in 1..n /\ T \in Int /\ picks \in [1..n -> Nat]
      <4>1. best \in 1..n
          BY <1>6, Zenon
      <4>2. T \in Nat \ {0}
          BY <1>7, Zenon
      <4>3. picks \in [1..n -> Nat]
          BY <1>1, Zenon
      <4> QED BY <4>1, <4>2, <4>3
    <3>2. r[best] \in Int
        BY <1>4, <3>1, Zenon
    <3>3. picks[best] \in Nat
        BY <3>1
    <3> QED BY <3>1, <3>2, <3>3
  <2>3. /\ current' \in [1..n -> Int] /\ current'[best] = r[best] - T
        /\ \A c \in 1..n : c # best => current'[c] = r[c]
      BY <1>5, <2>1, <2>2
  <2>4. /\ picks' \in [1..n -> Nat] /\ picks'[best] = picks[best] + 1
        /\ \A c \in 1..n : c # best => picks'[c] = picks[c]
      BY <1>5, <2>2
  <2> QED BY <2>1, <2>3, <2>4
<1>9. Balancer!AddUp(current', n) = 0
  <2>1. Ints(r, n) /\ current'[best] \in Int /\ r[best] \in Int
      BY <1>4, <1>6, <1>8 DEF Ints
  <2>2. Balancer!AddUp(current', n) = Balancer!AddUp(r, n) + current'[best] - r[best]
    <3>1. n \in Nat /\ \A c \in 1..n : c # best => current'[c] = r[c]
        BY <1>1, <1>8
    <3> HIDE DEF n
    <3> QED BY <1>6, <2>1, <3>1, SumUpdate
  <2> QED BY <1>7, <1>8, <2>1, <2>2
<1>10. Balancer!AddUp(picks', n) = N + 1 /\ N \in Nat
  <2>1. Ints(picks, n) /\ picks'[best] \in Int /\ picks[best] \in Int
    <3>1. \A c \in 1..n : picks[c] \in Int /\ picks'[c] \in Int
        BY <1>1, <1>8
    <3> QED BY <1>6, <3>1 DEF Ints
  <2>2. Balancer!AddUp(picks', n) = Balancer!AddUp(picks, n) + picks'[best] - picks[best]
    <3>1. n \in Nat /\ \A c \in 1..n : c # best => picks'[c] = picks[c]
        BY <1>1, <1>8
    <3> HIDE DEF n
    <3> QED BY <1>6, <2>1, <3>1, SumUpdate
  <2>3. N \in Nat
      BY <1>1, SumNat
  <2> QED BY <1>8, <2>1, <2>2, <2>3
<1>11. ASSUME NEW s \in 1..n
       PROVE  /\ current'[s] = (N + 1) * weight[s] - picks'[s] * T
              /\ current'[s] > -T /\ 2 * current'[s] <= (n - 1) * T - (n - 2)
  <2> DEFINE a == N * weight[s]
             b == picks[s] * T
             q == (n - 1) * T
  <2> HIDE DEF N, T, n
  <2>0. /\ weight[s] \in Nat \ {0} /\ picks[s] \in Nat /\ current[s] \in Int
        /\ T \in Nat \ {0} /\ N \in Nat /\ n \in Nat
      BY <1>1, <1>2, <1>7, <1>10
  <2>1. /\ weight[s] \in Nat \ {0} /\ picks[s] \in Nat /\ current[s] \in Int
        /\ T \in Nat \ {0} /\ N \in Nat /\ a \in Int /\ b \in Int /\ q \in Int
      BY <2>0
  <2>2. /\ current[s] = a - b /\ current[s] > -T /\ 2 * current[s] <= q - (n - 2)
        /\ r[s] = current[s] + weight[s]
    <3>1. current[s] = a - b /\ current[s] > -T /\ 2 * current[s] <= q - (n - 2)
        BY <1>1, Zenon
    <3>2. r[s] = current[s] + weight[s]
        BY <1>4
    <3> QED BY <3>1, <3>2
  <2>3. (N + 1) * weight[s] = a + weight[s] /\ (picks[s] + 1) * T = b + T
    <3>1. \A x, y \in Int : (x + 1) * y = x * y + y
        OBVIOUS
    <3>2. N \in Int /\ weight[s] \in Int /\ picks[s] \in Int /\ T \in Int
        BY <2>0
    <3> QED BY <3>1, <3>2, Zenon
  <2>4. s # best => 2 * r[s] <= q - (n - 2)
      BY <1>7
  <2>5. s = best => r[s] > 0 /\ weight[s] <= T
      BY <1>7
  <2> HIDE DEF a, b, q
  <2>6. current'[s] = (N + 1) * weight[s] - picks'[s] * T
    <3>1. CASE s = best
      <4>1. picks'[s] * T = b + T /\ current'[s] = r[s] - T
          BY <1>8, <2>3, <3>1
      <4> QED BY <2>1, <2>2, <2>3, <4>1
    <3>2. CASE s # best
      <4>1. picks'[s] * T = b /\ current'[s] = r[s]
          BY <1>8, <3>2 DEF b
      <4> QED BY <2>1, <2>2, <2>3, <4>1
    <3> QED BY <3>1, <3>2
  <2>7. current'[s] > -T /\ 2 * current'[s] <= q - (n - 2)
    <3>0. n \in Nat
        BY <1>1
    <3>1. CASE s = best
      <4>1. current'[s] = r[s] - T /\ r[s] > 0 /\ weight[s] <= T
          BY <1>8, <2>5, <3>1
      <4> HIDE DEF n
      <4> QED BY <2>1, <2>2, <3>0, <4>1
    <3>2. CASE s # best
      <4>1. current'[s] = r[s]
          BY <1>8, <3>2
      <4> HIDE DEF n
      <4> QED BY <2>1, <2>2, <2>4, <3>0, <3>2, <4>1
    <3> QED BY <3>1, <3>2
  <2> QED BY <2>6, <2>7 DEF q
<1>12. Len(meta') = n /\ Balancer!AddUp(weight', n) = T /\ DOMAIN meta' = 1..n
    BY <1>1, <1>5
<1>13. meta' \in Seq(Metadata) /\ weight' = [s \in 1..n |-> Share(meta'[s])]
    BY <1>1, <1>5
<1> HIDE DEF n, T, N
<1>14. \A s \in 1..n :
         /\ current'[s] = Balancer!AddUp(picks', n) * weight'[s] - picks'[s] * T
         /\ current'[s] > -T /\ 2 * current'[s] <= (n - 1) * T - (n - 2)
    BY <1>5, <1>10, <1>11
<1> QED BY <1>8, <1>9, <1>12, <1>13, <1>14, Zenon DEF BalancerInv, Balanced

(* No connection is ready at first.                                           *)
LEMMA BalancerStart == Balancer!Init => BalancerInv
<1> SUFFICES ASSUME Balancer!Init PROVE BalancerInv
    OBVIOUS
<1>1. meta \in Seq(Metadata) /\ DOMAIN meta = {}
    BY DEF Balancer!Init
<1>2. /\ weight = [s \in DOMAIN meta |-> Share(meta[s])]
      /\ current = [s \in DOMAIN meta |-> 0] /\ picks = [s \in DOMAIN meta |-> 0]
  <2>1. weight = <<>> /\ current = <<>> /\ picks = <<>>
      BY DEF Balancer!Init
  <2>2. \A f : f = [s \in {} |-> f[s]] => TRUE
      OBVIOUS
  <2> QED BY <1>1, <2>1
<1> QED BY <1>1, <1>2, BalancerFresh DEF BalancerInv

(* Steps of the other parts change nothing here.                              *)
LEMMA BalancerRests == BalancerInv /\ UNCHANGED balancerVars => BalancerInv'
BY DEF BalancerInv, Balanced, balancerVars

(* The dynamic weight is the lead times the total, turned round.            *)
LEMMA BalancerGood == BalancerInv => PicksFollowWeights
<1> SUFFICES ASSUME BalancerInv PROVE PicksFollowWeights
    OBVIOUS
<1> DEFINE n == Len(meta)
           T == Balancer!AddUp(weight, n)
           N == Balancer!AddUp(picks, n)
<1>1. meta \in Seq(Metadata) /\ n \in Nat /\ DOMAIN meta = 1..n
    BY DEF BalancerInv, Balanced
<1>2. /\ weight = [s \in DOMAIN meta |-> Share(meta[s])] /\ picks \in [1..n -> Nat]
      /\ \A s \in 1..n : current[s] \in Int
      /\ \A s \in 1..n :
           /\ current[s] = N * weight[s] - picks[s] * T
           /\ current[s] > -T /\ 2 * current[s] <= (n - 1) * T - (n - 2)
    BY <1>1 DEF BalancerInv, Balanced
<1>3. \A s \in 1..n : weight[s] = Share(meta[s]) /\ weight[s] \in Nat
    BY <1>1, <1>2, ShareType
<1>4. T \in Nat /\ N \in Nat
    BY <1>1, <1>2, <1>3, SumNat
<1>5. ASSUME NEW s \in 1..n
      PROVE  LET lead == picks[s] * T - N * weight[s]
             IN lead < T /\ -2 * lead <= (n - 1) * T /\ (n <= 3 => -lead < T)
  <2> DEFINE a == N * weight[s]
             b == picks[s] * T
             q == (n - 1) * T
  <2>0. weight[s] \in Nat /\ picks[s] \in Nat /\ n \in Nat /\ n >= 1
      BY <1>1, <1>2, <1>3
  <2> HIDE DEF N, T, n
  <2>1. a \in Int /\ b \in Int /\ q \in Int /\ n \in Nat /\ n >= 1
      BY <1>4, <2>0
  <2>2. /\ current[s] = a - b /\ current[s] > -T /\ 2 * current[s] <= q - (n - 2)
        /\ current[s] \in Int
      BY <1>2
  <2>3. (n = 1 => q = 0) /\ (n = 2 => q = T) /\ (n = 3 => q = 2 * T)
      BY <1>4
  <2> HIDE DEF a, b, q
  <2>4. n = 1 \/ n = 2 \/ n >= 3
      BY <2>1
  <2>5. b - a < T /\ -2 * (b - a) <= q /\ (n <= 3 => -(b - a) < T)
      BY <1>4, <2>1, <2>2, <2>3, <2>4
  <2> QED BY <2>5 DEF a, b, q
<1>6. Balancer!AddUp([s \in DOMAIN meta |-> Share(meta[s])], n) = T
    BY <1>2
<1> HIDE DEF n, T, N
<1>7. \A s \in DOMAIN meta :
        LET lead == picks[s] * T - N * Share(meta[s])
        IN lead < T /\ -2 * lead <= (n - 1) * T /\ (n <= 3 => -lead < T)
    BY <1>1, <1>3, <1>5
<1> QED BY <1>6, <1>7 DEF PicksFollowWeights, n, N

(* The balancer keeps its dynamic weights balanced (weighted_balancer.go:     *)
(* Build, Pick).                                                              *)
THEOREM BalancerInvHolds == UtilSpec => []BalancerInv
<1>1. UtilInit => BalancerInv
    BY BalancerStart DEF UtilInit
<1>2. BalancerInv /\ [UtilNext]_utilVars => BalancerInv'
  <2> SUFFICES ASSUME BalancerInv, [UtilNext]_utilVars PROVE BalancerInv'
      OBVIOUS
  <2>1. Balancer!Build \/ Balancer!Pick \/ UNCHANGED balancerVars
      BY DEF UtilNext, utilVars, Balancer!Next
  <2> QED BY <2>1, BalancerBuild, BalancerPick, BalancerRests
<1> QED BY <1>1, <1>2, PTL DEF UtilSpec

(* However many connections there are and whatever they announce, at every    *)
(* moment the picks of each are within these bounds of its share by weight    *)
(* (weighted_balancer.go: Build, Pick).                                       *)
THEOREM PicksFollowWeightsHolds == UtilSpec => []PicksFollowWeights
BY BalancerGood, BalancerInvHolds, PTL

-----------------------------------------------------------------------------
\* The graph, for any nodes and any number of edges.

\* Without MaxEdges or any bound of Nodes: a finite graph.
GraphType ==
  /\ nodes \subseteq Nodes /\ IsFiniteSet(nodes)
  /\ edges \in [nodes -> Seq(nodes)]
GraphInv == GraphType /\ Graph!Acyclic(Arcs)

(* The graph counts as everyone does.                                         *)
LEMMA CountIs == \A S : Graph!Cardinality(S) = Cardinality(S)
BY DEF Graph!Cardinality, Cardinality

\* GetEdges and Arcs of the graph of the lists g, for graphs before and after a step.
EdgesOf(N, g) == UNION {{<<n, at, g[n][at]>> : at \in DOMAIN g[n]} : n \in N}

ArcsOf(N, g) == {<<e[1], e[3]>> : e \in EdgesOf(N, g)}

(* Arcs are the pairs of a node and a member of its list.                     *)
LEMMA ArcsAre ==
  ASSUME NEW N, NEW g \in [N -> Seq(N)]
  PROVE  /\ \A a, b : <<a, b>> \in ArcsOf(N, g) <=>
              a \in N /\ \E at \in DOMAIN g[a] : g[a][at] = b
         /\ ArcsOf(N, g) \subseteq N \X N
<1> DEFINE A == ArcsOf(N, g)
<1> USE DEF ArcsOf
<1>1. \A e : e \in EdgesOf(N, g) <=> \E n \in N : \E at \in DOMAIN g[n] : e = <<n, at, g[n][at]>>
    BY DEF EdgesOf
<1>2. ASSUME NEW a, NEW b, <<a, b>> \in A
      PROVE  a \in N /\ \E at \in DOMAIN g[a] : g[a][at] = b
  <2>1. PICK e \in EdgesOf(N, g) : <<a, b>> = <<e[1], e[3]>>
      BY <1>2
  <2>2. PICK n \in N : \E at \in DOMAIN g[n] : e = <<n, at, g[n][at]>>
      BY <1>1, <2>1
  <2>3. a = n /\ \E at \in DOMAIN g[n] : b = g[n][at]
      BY <2>1, <2>2
  <2> QED BY <2>2, <2>3
<1>3. ASSUME NEW a \in N, NEW at \in DOMAIN g[a]
      PROVE  <<a, g[a][at]>> \in A
  <2> DEFINE e == <<a, at, g[a][at]>>
  <2>1. e \in EdgesOf(N, g)
      BY <1>1
  <2>2. <<a, g[a][at]>> = <<e[1], e[3]>>
      OBVIOUS
  <2> QED BY <2>1, <2>2
<1>4. \A a \in N : \A at \in DOMAIN g[a] : g[a][at] \in N
    OBVIOUS
<1>5. A \subseteq N \X N
  <2> SUFFICES ASSUME NEW x \in A PROVE x \in N \X N
      OBVIOUS
  <2>1. PICK a, b : x = <<a, b>>
      OBVIOUS
  <2>2. <<a, b>> \in A
      BY <2>1
  <2> HIDE DEF A
  <2>3. a \in N /\ \E at \in DOMAIN g[a] : g[a][at] = b
      BY <1>2, <2>2
  <2>4. b \in N
      BY <1>4, <2>3
  <2> QED BY <2>1, <2>3, <2>4
<1> QED BY <1>2, <1>3, <1>5

(* So are the arcs of the graph.                                              *)
LEMMA ArcsNow ==
  ASSUME GraphType
  PROVE  /\ \A a, b : <<a, b>> \in Arcs <=>
              a \in nodes /\ \E at \in DOMAIN edges[a] : edges[a][at] = b
         /\ Arcs \subseteq nodes \X nodes
<1>1. edges \in [nodes -> Seq(nodes)]
    BY DEF GraphType
<1>2. Arcs = ArcsOf(nodes, edges)
    BY DEF Arcs, Graph!GetEdges, EdgesOf, ArcsOf
<1> QED BY <1>1, <1>2, ArcsAre

(* One layer more: the nodes an edge leads to.                                *)
LEMMA AfterIs ==
  ASSUME GraphType, NEW X \in SUBSET nodes
  PROVE  Graph!After(X) = {b \in nodes : \E a \in X : <<a, b>> \in Arcs}
<1>1. \A b : b \in Graph!After(X) <=>
        \E a \in X : \E at \in DOMAIN edges[a] : edges[a][at] = b
    BY DEF Graph!After, Graph!ToSet
<1>2. \A b : b \in Graph!After(X) <=> \E a \in X : <<a, b>> \in Arcs
    BY <1>1, ArcsNow
<1>3. \A a, b : <<a, b>> \in Arcs => b \in nodes
    BY ArcsNow
<1> QED BY <1>2, <1>3

(* As many layers as there are nodes are all.                               *)
LEMMA HasPathReaches ==
  ASSUME GraphType, NEW start \in nodes, NEW target \in nodes
  PROVE  Graph!HasPath(start, target) <=> Graph!Reach(Arcs, start, target)
<1> DEFINE S == SUBSET nodes
           F == [k \in Nat |-> [X \in S |-> X \cup Graph!After(X)]]
<1>1. \A X \in S : X \cup Graph!After(X) \in S
    BY AfterIs
<1>2. F \in Steps(S) /\ {start} \in S
    BY <1>1 DEF Steps
<1>3. \A k \in Nat, X \in S : F[k][X] = X \cup Graph!After(X)
    OBVIOUS
<1>4. PICK g \in [Nat -> S] : Iteration(g, {start}, F)
  <2> HIDE DEF S, F
  <2> QED BY <1>2, Iterates
<1>5. g[0] = {start} /\ \A k \in Nat : g[k + 1] = g[k] \cup Graph!After(g[k])
  <2> HIDE DEF F
  <2> QED BY <1>3, <1>4 DEF Iteration
<1> HIDE DEF F
<1> DEFINE visited[k \in Nat] ==
             IF k = 0 THEN {start} ELSE visited[k - 1] \cup Graph!After(visited[k - 1])
<1>6. Graph!HasPath(start, target) <=>
        start = target \/ (start \in nodes /\ target \in visited[Graph!Cardinality(nodes)])
    BY DEF Graph!HasPath
<1>7. visited = CHOOSE w : w = [k \in Nat |->
                  IF k = 0 THEN {start} ELSE w[k - 1] \cup Graph!After(w[k - 1])]
    BY Zenon
<1> HIDE DEF visited
<1>8. g = [k \in Nat |-> IF k = 0 THEN {start} ELSE g[k - 1] \cup Graph!After(g[k - 1])]
  <2>1. ASSUME NEW k \in Nat
        PROVE  g[k] = IF k = 0 THEN {start} ELSE g[k - 1] \cup Graph!After(g[k - 1])
    <3>1. CASE k = 0
        BY <1>5, <3>1
    <3>2. CASE k # 0
      <4>1. k - 1 \in Nat /\ k - 1 + 1 = k
          BY <3>2
      <4>2. g[k - 1 + 1] = g[k - 1] \cup Graph!After(g[k - 1])
          BY <1>5, <4>1
      <4> QED BY <3>2, <4>1, <4>2
    <3> QED BY <3>1, <3>2
  <2> QED BY <2>1, Zenon
<1>9. visited = [k \in Nat |->
          IF k = 0 THEN {start} ELSE visited[k - 1] \cup Graph!After(visited[k - 1])]
    BY <1>7, <1>8, Zenon
<1> DEFINE v == visited
<1>10. v[0] = {start} /\ \A k \in Nat : v[k + 1] = v[k] \cup Graph!After(v[k])
  <2>1. \A k \in Nat : (k = 0 => v[k] = {start})
                       /\ (k # 0 => v[k] = v[k - 1] \cup Graph!After(v[k - 1]))
      BY <1>9, Zenon
  <2> HIDE DEF v
  <2>2. ASSUME NEW k \in Nat PROVE v[k + 1] = v[k] \cup Graph!After(v[k])
    <3>1. k + 1 \in Nat /\ k + 1 # 0 /\ k + 1 - 1 = k
        OBVIOUS
    <3>2. v[k + 1] = v[k + 1 - 1] \cup Graph!After(v[k + 1 - 1])
        BY <2>1, <3>1
    <3> QED BY <3>1, <3>2
  <2> QED BY <2>1, <2>2
<1> HIDE DEF v
<1>11. \A k \in Nat : v[k] \in SUBSET nodes /\ start \in v[k]
  <2> DEFINE P == {k \in Nat : v[k] \in SUBSET nodes /\ start \in v[k]}
  <2>1. 0 \in P
      BY <1>10
  <2>2. ASSUME NEW k \in P PROVE k + 1 \in P
      BY <1>1, <1>10
  <2> HIDE DEF P
  <2>3. P = Nat
      BY <2>1, <2>2, Induction DEF P
  <2> QED BY <2>3 DEF P
<1>12. ASSUME NEW C \in SUBSET Nodes, start \in C, Graph!Closed(Arcs, C)
       PROVE  \A k \in Nat : v[k] \subseteq C
  <2> DEFINE P == {k \in Nat : v[k] \subseteq C}
  <2>1. 0 \in P
      BY <1>10, <1>12
  <2>2. ASSUME NEW k \in P PROVE k + 1 \in P
    <3>1. v[k + 1] = v[k] \cup Graph!After(v[k]) /\ v[k] \in SUBSET nodes /\ v[k] \subseteq C
        BY <1>10, <1>11
    <3>2. \A b \in Graph!After(v[k]) : b \in nodes /\ \E a \in v[k] : <<a, b>> \in Arcs
        BY <3>1, AfterIs
    <3>3. \A b \in Graph!After(v[k]) : b \in C
        BY <1>12, <3>1, <3>2 DEF Graph!Closed, GraphType
    <3> QED BY <3>1, <3>3
  <2> HIDE DEF P
  <2>3. P = Nat
      BY <2>1, <2>2, Induction DEF P
  <2> QED BY <2>3 DEF P
<1>13. \A k \in Nat : Cardinality(v[k]) >= k + 1 \/ Graph!Closed(Arcs, v[k])
  <2> DEFINE P == {k \in Nat : Cardinality(v[k]) >= k + 1 \/ Graph!Closed(Arcs, v[k])}
  <2>1. 0 \in P
    <3>1. Cardinality(v[0]) = 1
        BY <1>10, FS_Singleton
    <3> QED BY <3>1
  <2>2. ASSUME NEW k \in P PROVE k + 1 \in P
    <3>1. /\ v[k + 1] = v[k] \cup Graph!After(v[k]) /\ v[k] \in SUBSET nodes
          /\ v[k + 1] \in SUBSET nodes /\ k \in Nat /\ k + 1 \in Nat
        BY <1>10, <1>11
    <3>2. \A b : b \in Graph!After(v[k]) <=> b \in nodes /\ \E a \in v[k] : <<a, b>> \in Arcs
        BY <3>1, AfterIs
    <3>3. CASE Graph!After(v[k]) \subseteq v[k]
      <4>1. v[k + 1] = v[k]
          BY <3>1, <3>3
      <4>2. Graph!Closed(Arcs, v[k])
        <5> SUFFICES ASSUME NEW n \in v[k], NEW m \in Nodes, <<n, m>> \in Arcs
                     PROVE  m \in v[k]
            BY DEF Graph!Closed
        <5>1. m \in nodes
            BY ArcsNow
        <5> QED BY <3>2, <3>3, <5>1
      <4> QED BY <3>1, <4>1, <4>2
    <3>4. CASE ~(Graph!After(v[k]) \subseteq v[k])
      <4>1. PICK b \in Graph!After(v[k]) : b \notin v[k]
          BY <3>4
      <4>2. ~Graph!Closed(Arcs, v[k])
          BY <3>2, <4>1 DEF Graph!Closed, GraphType
      <4>3. Cardinality(v[k]) >= k + 1
          BY <4>2
      <4>4. IsFiniteSet(v[k]) /\ IsFiniteSet(v[k + 1])
          BY <3>1, FS_Subset DEF GraphType
      <4>5. v[k] \cup {b} \in SUBSET v[k + 1]
          BY <3>1, <4>1
      <4>6. Cardinality(v[k] \cup {b}) = Cardinality(v[k]) + 1
          BY <4>1, <4>4, FS_AddElement
      <4>7. Cardinality(v[k] \cup {b}) <= Cardinality(v[k + 1])
          BY <4>4, <4>5, FS_Subset
      <4>8. Cardinality(v[k]) \in Nat /\ Cardinality(v[k + 1]) \in Nat
          BY <4>4, FS_CardinalityType
      <4>9. Cardinality(v[k + 1]) >= k + 1 + 1
          BY <3>1, <4>3, <4>6, <4>7, <4>8
      <4> QED BY <3>1, <4>9
    <3> QED BY <3>3, <3>4
  <2> HIDE DEF P
  <2>3. P = Nat
      BY <2>1, <2>2, Induction DEF P
  <2> QED BY <2>3 DEF P
<1> DEFINE N == Cardinality(nodes)
<1>14. N \in Nat /\ v[N] \in SUBSET nodes /\ start \in v[N] /\ Graph!Closed(Arcs, v[N])
  <2>1. N \in Nat
      BY FS_CardinalityType DEF GraphType
  <2>2. v[N] \in SUBSET nodes /\ start \in v[N]
      BY <1>11, <2>1
  <2>3. Cardinality(v[N]) <= N /\ Cardinality(v[N]) \in Nat
      BY <2>2, FS_Subset, FS_CardinalityType DEF GraphType
  <2>4. ~(Cardinality(v[N]) >= N + 1)
      BY <2>1, <2>3
  <2> QED BY <1>13, <2>1, <2>2, <2>4
<1>15. ASSUME Graph!Reach(Arcs, start, target) PROVE target \in v[N]
  <2>1. v[N] \in SUBSET Nodes
      BY <1>14 DEF GraphType
  <2> QED BY <1>14, <1>15, <2>1 DEF Graph!Reach
<1>16. ASSUME start = target \/ target \in v[N] PROVE Graph!Reach(Arcs, start, target)
  <2> SUFFICES ASSUME NEW C \in SUBSET Nodes, start \in C, Graph!Closed(Arcs, C)
               PROVE  target \in C
      BY DEF Graph!Reach
  <2> QED BY <1>12, <1>14, <1>16
<1>17. Graph!HasPath(start, target) <=> start = target \/ target \in v[N]
    BY <1>6, CountIs DEF v
<1> QED BY <1>15, <1>16, <1>17

(* An edge that closes no path leaves the graph without a cycle.              *)
LEMMA AcyclicGrows ==
  ASSUME NEW E, NEW h \in Nodes, NEW t \in Nodes,
         Graph!Acyclic(E), ~Graph!Reach(E, t, h)
  PROVE  Graph!Acyclic(E \cup {<<h, t>>})
<1>1. PICK C \in SUBSET Nodes : t \in C /\ Graph!Closed(E, C) /\ h \notin C
    BY DEF Graph!Reach
<1> SUFFICES ASSUME NEW S \in SUBSET Nodes, S # {}
             PROVE  \E n \in S : \A m \in S : <<n, m>> \notin E \cup {<<h, t>>}
    BY DEF Graph!Acyclic
<1>2. CASE S \cap C # {}
  <2>1. PICK n \in S \cap C : \A m \in S \cap C : <<n, m>> \notin E
      BY <1>2 DEF Graph!Acyclic
  <2>2. \A m \in S : <<n, m>> \notin E
      BY <1>1, <2>1 DEF Graph!Closed
  <2>3. n # h
      BY <1>1, <2>1
  <2> QED BY <2>1, <2>2, <2>3
<1>3. CASE S \cap C = {}
  <2>1. PICK n \in S : \A m \in S : <<n, m>> \notin E
      BY DEF Graph!Acyclic
  <2>2. t \notin S
      BY <1>1, <1>3
  <2> QED BY <2>1, <2>2
<1> QED BY <1>2, <1>3

(* An edge back to where one came from closes a cycle.                      *)
LEMMA PathCloses ==
  ASSUME NEW E, NEW h \in Nodes, NEW t \in Nodes, Graph!Reach(E, t, h)
  PROVE  ~Graph!Acyclic(E \cup {<<h, t>>})
<1> DEFINE S == {x \in Nodes : Graph!Reach(E, t, x) /\ Graph!Reach(E, x, h)}
<1>1. \A x \in Nodes : Graph!Reach(E, x, x)
    BY DEF Graph!Reach
<1>2. t \in S /\ h \in S /\ S \in SUBSET Nodes
    BY <1>1
<1>3. ASSUME NEW x \in S, x # h
      PROVE  \E y \in S : <<x, y>> \in E
  <2> SUFFICES ASSUME \A y \in S : <<x, y>> \notin E PROVE FALSE
      OBVIOUS
  <2> DEFINE C == {x} \cup {z \in Nodes : ~Graph!Reach(E, z, h)}
  <2>1. x \in C /\ C \in SUBSET Nodes /\ h \notin C
      BY <1>1, <1>3
  <2>2. ASSUME NEW n \in C, NEW m \in Nodes, <<n, m>> \in E PROVE m \in C
    <3> SUFFICES ASSUME Graph!Reach(E, m, h) PROVE FALSE
        OBVIOUS
    <3>1. CASE n = x
      <4>1. Graph!Reach(E, t, m)
          BY <2>2, <3>1 DEF Graph!Reach, Graph!Closed
      <4> QED BY <2>2, <3>1, <4>1
    <3>2. CASE n # x
      <4>1. Graph!Reach(E, n, h)
          BY <2>2 DEF Graph!Reach, Graph!Closed
      <4> QED BY <3>2, <4>1
    <3> QED BY <3>1, <3>2
  <2>3. Graph!Closed(E, C)
    <3> HIDE DEF C
    <3> QED BY <2>2 DEF Graph!Closed
  <2>4. Graph!Reach(E, x, h)
      OBVIOUS
  <2> HIDE DEF C
  <2> QED BY <2>1, <2>3, <2>4 DEF Graph!Reach
<1> HIDE DEF S
<1>4. \A x \in S : \E y \in S : <<x, y>> \in E \cup {<<h, t>>}
    BY <1>2, <1>3
<1> QED BY <1>2, <1>4 DEF Graph!Acyclic

(* An edge is refused if and only if it closes a cycle.                     *)
LEMMA RefusesCycles ==
  ASSUME GraphInv, NEW m \in nodes, NEW n \in nodes
  PROVE  Graph!WouldCreateCycle(m, n) <=> ~Graph!Acyclic(Arcs \cup {<<m, n>>})
<1>1. m \in Nodes /\ n \in Nodes /\ GraphType /\ Graph!Acyclic(Arcs)
    BY DEF GraphInv, GraphType
<1>2. Graph!WouldCreateCycle(m, n) <=> m = n \/ Graph!HasPath(n, m)
    BY DEF Graph!WouldCreateCycle
<1>3. Graph!HasPath(n, m) <=> Graph!Reach(Arcs, n, m)
    BY <1>1, HasPathReaches
<1>4. m = n => Graph!Reach(Arcs, n, m)
    BY DEF Graph!Reach
<1>5. Graph!Reach(Arcs, n, m) <=> ~Graph!Acyclic(Arcs \cup {<<m, n>>})
    BY <1>1, AcyclicGrows, PathCloses
<1> QED BY <1>2, <1>3, <1>4, <1>5

(* A node without edges closes no cycle (graph.go: AddNode).                  *)
LEMMA GraphAddsNode ==
  ASSUME GraphInv, NEW n \in Nodes, Graph!AddNode(n)
  PROVE  GraphInv'
<1>1. /\ nodes' = nodes \cup {n}
      /\ edges' = [m \in nodes' |-> IF m \in nodes THEN edges[m] ELSE <<>>]
    BY DEF Graph!AddNode
<1>2. /\ nodes \subseteq Nodes /\ IsFiniteSet(nodes) /\ edges \in [nodes -> Seq(nodes)]
      /\ Graph!Acyclic(Arcs)
    BY DEF GraphInv, GraphType
<1>3. GraphType'
  <2>1. IsFiniteSet(nodes')
      BY <1>1, <1>2, FS_AddElement
  <2>2. \A m \in nodes : edges[m] \in Seq(nodes')
      BY <1>1, <1>2
  <2>3. edges' \in [nodes' -> Seq(nodes')]
      BY <1>1, <2>2
  <2> QED BY <1>1, <1>2, <2>1, <2>3 DEF GraphType
<1>4. Arcs' \subseteq Arcs
  <2>1. Arcs' = ArcsOf(nodes', edges')
      BY DEF Arcs, Graph!GetEdges, EdgesOf, ArcsOf
  <2>2. edges' \in [nodes' -> Seq(nodes')]
      BY <1>3 DEF GraphType
  <2>3. /\ \A a, b : <<a, b>> \in Arcs' <=>
             a \in nodes' /\ \E at \in DOMAIN edges'[a] : edges'[a][at] = b
        /\ Arcs' \subseteq nodes' \X nodes'
      BY <2>1, <2>2, ArcsAre
  <2>4. \A a \in nodes' : a \notin nodes => DOMAIN edges'[a] = {}
      BY <1>1
  <2>5. \A a \in nodes : edges'[a] = edges[a]
      BY <1>1
  <2>6. \A a, b : <<a, b>> \in Arcs <=>
             a \in nodes /\ \E at \in DOMAIN edges[a] : edges[a][at] = b
      BY ArcsNow DEF GraphInv
  <2>7. \A a, b : <<a, b>> \in Arcs' => <<a, b>> \in Arcs
      BY <2>3, <2>4, <2>5, <2>6
  <2> QED BY <2>3, <2>7
<1>5. Graph!Acyclic(Arcs')
    BY <1>2, <1>4 DEF Graph!Acyclic
<1>6. Graph!Acyclic(Arcs)'
    BY <1>5 DEF Graph!Acyclic
<1> QED BY <1>3, <1>6 DEF GraphInv

(* An edge that is not refused closes no cycle (graph.go: AddEdge).           *)
LEMMA GraphAddsEdge ==
  ASSUME GraphInv, NEW m \in Nodes, NEW n \in Nodes, Graph!AddEdge(m, n)
  PROVE  GraphInv'
<1>1. /\ m \in nodes /\ n \in nodes /\ ~Graph!WouldCreateCycle(m, n)
      /\ nodes' = nodes /\ edges' = [edges EXCEPT ![m] = Append(edges[m], n)]
    BY DEF Graph!AddEdge
<1>2. /\ nodes \subseteq Nodes /\ IsFiniteSet(nodes) /\ edges \in [nodes -> Seq(nodes)]
    BY DEF GraphInv, GraphType
<1>3. edges' \in [nodes -> Seq(nodes)]
  <2>1. Append(edges[m], n) \in Seq(nodes)
      BY <1>1, <1>2
  <2> QED BY <1>1, <1>2, <2>1
<1>4. GraphType'
    BY <1>1, <1>2, <1>3 DEF GraphType
<1>5. Arcs' \subseteq Arcs \cup {<<m, n>>}
  <2>1. Arcs' = ArcsOf(nodes', edges')
      BY DEF Arcs, Graph!GetEdges, EdgesOf, ArcsOf
  <2>2. edges' \in [nodes' -> Seq(nodes')]
      BY <1>1, <1>3
  <2>3. /\ \A a, b : <<a, b>> \in Arcs' <=>
             a \in nodes' /\ \E at \in DOMAIN edges'[a] : edges'[a][at] = b
        /\ Arcs' \subseteq nodes' \X nodes'
      BY <2>1, <2>2, ArcsAre
  <2>4. \A a \in nodes : a # m => edges'[a] = edges[a]
      BY <1>1, <1>2
  <2>5. \A at \in DOMAIN edges'[m] :
          edges'[m][at] = n \/ (at \in DOMAIN edges[m] /\ edges'[m][at] = edges[m][at])
    <3>1. edges'[m] = Append(edges[m], n) /\ edges[m] \in Seq(nodes)
        BY <1>1, <1>2
    <3> DEFINE s == edges[m]
               t == Append(s, n)
    <3>2. s \in Seq(nodes) /\ edges'[m] = t
        BY <3>1
    <3> HIDE DEF s
    <3>3. /\ t \in Seq(nodes) /\ Len(t) = Len(s) + 1 /\ Len(s) \in Nat
          /\ \A at \in 1..Len(s) : t[at] = s[at]
          /\ t[Len(s) + 1] = n
        BY <1>1, <3>2, AppendProperties
    <3> HIDE DEF t
    <3>4. \A at \in DOMAIN t : at = Len(s) + 1 \/ at \in 1..Len(s)
        BY <3>3
    <3>5. DOMAIN s = 1..Len(s)
        BY <3>2
    <3>6. ASSUME NEW at \in DOMAIN t PROVE t[at] = n \/ (at \in DOMAIN s /\ t[at] = s[at])
      <4>1. CASE at = Len(s) + 1
          BY <3>3, <4>1, Zenon
      <4>2. CASE at \in 1..Len(s)
          BY <3>3, <3>5, <4>2, Zenon
      <4> QED BY <3>4, <4>1, <4>2
    <3> QED BY <3>2, <3>6, Zenon DEF s
  <2>6. \A a, b : <<a, b>> \in Arcs <=>
             a \in nodes /\ \E at \in DOMAIN edges[a] : edges[a][at] = b
      BY ArcsNow DEF GraphInv
  <2>7. \A a, b : <<a, b>> \in Arcs' => <<a, b>> \in Arcs \/ (a = m /\ b = n)
      BY <1>1, <2>3, <2>4, <2>5, <2>6
  <2> QED BY <2>3, <2>7
<1>6. Graph!Acyclic(Arcs \cup {<<m, n>>})
    BY <1>1, RefusesCycles
<1>7. Graph!Acyclic(Arcs')
    BY <1>5, <1>6 DEF Graph!Acyclic
<1>8. Graph!Acyclic(Arcs)'
    BY <1>7 DEF Graph!Acyclic
<1> QED BY <1>4, <1>8 DEF GraphInv

(* The empty graph has no cycle.                                              *)
LEMMA GraphStart == Graph!Init => GraphInv
<1> SUFFICES ASSUME Graph!Init PROVE GraphInv
    OBVIOUS
<1>1. nodes = {} /\ edges = <<>>
    BY DEF Graph!Init
<1>2. GraphType
  <2>1. IsFiniteSet(nodes)
      BY <1>1, FS_EmptySet
  <2>2. edges \in [nodes -> Seq(nodes)]
      BY <1>1
  <2> QED BY <1>1, <2>1, <2>2 DEF GraphType
<1>3. Arcs = {}
    BY <1>1, <1>2, ArcsNow
<1> QED BY <1>2, <1>3 DEF GraphInv, Graph!Acyclic

(* Steps of the other parts change nothing here.                              *)
LEMMA GraphRests == GraphInv /\ UNCHANGED graphVars => GraphInv'
<1> SUFFICES ASSUME GraphInv, nodes' = nodes, edges' = edges PROVE GraphInv'
    BY DEF graphVars
<1>1. Arcs' = Arcs
    BY DEF Arcs, Graph!GetEdges
<1> QED BY <1>1 DEF GraphInv, GraphType, Graph!Acyclic

(* The image of a finite set is finite.                                     *)
LEMMA ImageFinite ==
  ASSUME NEW f, IsFiniteSet(DOMAIN f)
  PROVE  IsFiniteSet({f[x] : x \in DOMAIN f})
<1> DEFINE S == DOMAIN f
           R == {f[x] : x \in S}
           g == [x \in S |-> f[x]]
<1>1. g \in Surjection(S, R)
    BY DEF Surjection
<1> HIDE DEF g
<1> QED BY <1>1, FS_Surjection

(* Finitely many nodes with lists have finitely many edges.                   *)
LEMMA EdgesFinite ==
  ASSUME GraphType
  PROVE  IsFiniteSet(Graph!GetEdges)
<1> DEFINE outOf == [n \in nodes |-> {<<n, at, edges[n][at]>> : at \in DOMAIN edges[n]}]
           parts == {outOf[n] : n \in DOMAIN outOf}
<1>1. ASSUME NEW n \in nodes
      PROVE  IsFiniteSet({<<n, at, edges[n][at]>> : at \in DOMAIN edges[n]})
  <2> DEFINE f == [at \in DOMAIN edges[n] |-> <<n, at, edges[n][at]>>]
  <2>1. edges[n] \in Seq(nodes)
      BY DEF GraphType
  <2>2. Len(edges[n]) \in Nat /\ DOMAIN f = 1..Len(edges[n])
      BY <2>1
  <2>3. IsFiniteSet(DOMAIN f)
      BY <2>2, FS_Interval
  <2>4. {f[x] : x \in DOMAIN f} = {<<n, at, edges[n][at]>> : at \in DOMAIN edges[n]}
      OBVIOUS
  <2> HIDE DEF f
  <2>5. IsFiniteSet({f[x] : x \in DOMAIN f})
      BY <2>3, ImageFinite
  <2> QED BY <2>4, <2>5
<1>2. \A T \in parts : IsFiniteSet(T)
    BY <1>1
<1>3. Graph!GetEdges = UNION parts
  <2>1. parts = {{<<n, at, edges[n][at]>> : at \in DOMAIN edges[n]} : n \in nodes}
      OBVIOUS
  <2> QED BY <2>1 DEF Graph!GetEdges
<1>4. IsFiniteSet(DOMAIN outOf)
    BY DEF GraphType
<1> HIDE DEF outOf
<1>5. IsFiniteSet(parts)
    BY <1>4, ImageFinite
<1> QED BY <1>2, <1>3, <1>5, FS_UNION

\* A list without repetitions, and its members.
Distinct(q) == \A at, j \in DOMAIN q : q[at] = q[j] => at = j
Members(q) == {q[at] : at \in DOMAIN q}

(* A finite set as a list, each member once.                                *)
LEMMA ListOf ==
  ASSUME NEW S, IsFiniteSet(S)
  PROVE  LET q == Graph!SetToSeq(S)
         IN q \in Seq(S) /\ Distinct(q) /\ Members(q) = S
<1> DEFINE n == Cardinality(S)
           Good(f) == f \in [1..n -> S] /\ Distinct(f)
           q == CHOOSE f \in [1..n -> S] : Graph!IsInjective(f)
<1>1. Graph!SetToSeq(S) = q
    BY CountIs DEF Graph!SetToSeq
<1>2. n \in Nat /\ ExistsBijection(1..n, S)
    BY FS_CardinalityType
<1>3. PICK f \in [1..n -> S] : IsInjective(f)
    BY <1>2 DEF ExistsBijection, Bijection, Injection
<1>4. \A h : Graph!IsInjective(h) <=> IsInjective(h)
    BY DEF Graph!IsInjective, IsInjective
<1>5. q \in [1..n -> S] /\ IsInjective(q)
    BY <1>3, <1>4
<1> HIDE DEF q, n
<1>6. q \in Injection(1..n, S)
    BY <1>5 DEF Injection
<1>7. Cardinality(1..n) = n
    BY <1>2, FS_Interval
<1>8. q \in Surjection(1..n, S)
    BY <1>6, <1>7, FS_Injection DEF n
<1>9. Members(q) = S
    BY <1>5, <1>8 DEF Surjection, Members
<1>10. q \in Seq(S) /\ Distinct(q)
    BY <1>2, <1>5 DEF Distinct, IsInjective
<1> QED BY <1>1, <1>9, <1>10

\* The edges to m from nodes that are not sorted, in D.
Into(m, D) == {e \in Graph!GetEdges : e[3] = m /\ e[1] \notin D}
KahnState == [queue : Seq(nodes), degree : [nodes -> Nat], sorted : Nat]

\* Of what is sorted, the set D, the edges are gone; what is left without an edge is
\* in the queue, once.
KahnInv(st, D) ==
  /\ D \subseteq nodes /\ st.sorted = Cardinality(D)
  /\ \A m \in nodes : st.degree[m] = Cardinality(Into(m, D))
  /\ \A m \in nodes : st.degree[m] = 0 <=> m \in D \cup Members(st.queue)
  /\ Distinct(st.queue) /\ Members(st.queue) \cap D = {}

(* A degree is a number.                                                      *)
LEMMA DegreeType ==
  ASSUME GraphType, NEW m, NEW D
  PROVE  IsFiniteSet(Into(m, D)) /\ Cardinality(Into(m, D)) \in Nat
<1>1. Into(m, D) \in SUBSET Graph!GetEdges
    BY DEF Into
<1> QED BY <1>1, EdgesFinite, FS_Subset, FS_CardinalityType

(* Without the edges of c a node has as many less as c has to it.           *)
LEMMA DegreeFalls ==
  ASSUME GraphType, NEW m \in nodes, NEW D, NEW c \in nodes, c \notin D
  PROVE  /\ Cardinality(Into(m, D \cup {c})) = Cardinality(Into(m, D)) - Graph!Count(c, m)
         /\ Cardinality(Into(m, D \cup {c})) \in Nat
         /\ Cardinality(Into(m, D \cup {c})) <= Cardinality(Into(m, D))
<1> DEFINE I == {at \in DOMAIN edges[c] : edges[c][at] = m}
           L == {e \in Into(m, D) : e[1] = c}
           f == [at \in I |-> <<c, at, m>>]
<1>1. Graph!Count(c, m) = Cardinality(I)
    BY CountIs DEF Graph!Count
<1>2. \A e : e \in Graph!GetEdges <=>
        \E n \in nodes : \E at \in DOMAIN edges[n] : e = <<n, at, edges[n][at]>>
    BY DEF Graph!GetEdges
<1>3. IsFiniteSet(I)
  <2>1. edges[c] \in Seq(nodes)
      BY DEF GraphType
  <2>2. Len(edges[c]) \in Nat /\ DOMAIN edges[c] = 1..Len(edges[c])
      BY <2>1
  <2>3. IsFiniteSet(DOMAIN edges[c]) /\ I \in SUBSET DOMAIN edges[c]
      BY <2>2, FS_Interval
  <2> QED BY <2>3, FS_Subset
<1>4. f \in [I -> L]
  <2> SUFFICES ASSUME NEW at \in I PROVE <<c, at, m>> \in L
      OBVIOUS
  <2>1. <<c, at, m>> \in Graph!GetEdges
      BY <1>2
  <2>2. <<c, at, m>>[3] = m /\ <<c, at, m>>[1] = c
      OBVIOUS
  <2> QED BY <2>1, <2>2 DEF Into
<1>5. IsInjective(f)
  <2>1. \A at, j \in I : <<c, at, m>> = <<c, j, m>> => at = j
      OBVIOUS
  <2> QED BY <2>1 DEF IsInjective
<1>6. \A e \in L : \E at \in I : f[at] = e
  <2> SUFFICES ASSUME NEW e \in L PROVE \E at \in I : <<c, at, m>> = e
      OBVIOUS
  <2>1. e \in Graph!GetEdges /\ e[3] = m /\ e[1] = c
      BY DEF Into
  <2>2. PICK n \in nodes : \E at \in DOMAIN edges[n] : e = <<n, at, edges[n][at]>>
      BY <1>2, <2>1
  <2>3. PICK at \in DOMAIN edges[n] : e = <<n, at, edges[n][at]>>
      BY <2>2
  <2>4. n = c /\ edges[n][at] = m
      BY <2>1, <2>3
  <2> QED BY <2>3, <2>4
<1> HIDE DEF f
<1>7. ExistsBijection(I, L)
  <2>1. f \in Bijection(I, L)
      BY <1>4, <1>5, <1>6 DEF Bijection, Injection, Surjection
  <2> QED BY <2>1 DEF ExistsBijection
<1> HIDE DEF I, L
<1>8. IsFiniteSet(L) /\ Cardinality(L) = Cardinality(I) /\ Cardinality(L) \in Nat
    BY <1>3, <1>7, FS_Bijection, FS_CardinalityType
<1>9. Into(m, D \cup {c}) = Into(m, D) \ L /\ Into(m, D) \cap L = L
    BY DEF Into, L
<1>10. Cardinality(Into(m, D) \ L) = Cardinality(Into(m, D)) - Cardinality(Into(m, D) \cap L)
    BY DegreeType, FS_Difference
<1>11. Cardinality(Into(m, D \cup {c})) \in Nat /\ Cardinality(Into(m, D)) \in Nat
    BY DegreeType
<1> DEFINE a == Cardinality(Into(m, D \cup {c}))
           b == Cardinality(Into(m, D))
           l == Cardinality(L)
<1>12. a = b - l
  <2>1. Cardinality(Into(m, D \cup {c})) = Cardinality(Into(m, D) \ L)
      BY <1>9, Zenon
  <2>2. Cardinality(Into(m, D) \cap L) = Cardinality(L)
      BY <1>9, Zenon
  <2> QED BY <1>10, <2>1, <2>2, Zenon
<1>13. l = Graph!Count(c, m) /\ l \in Nat
    BY <1>1, <1>8, Zenon
<1>14. a \in Nat /\ b \in Nat
    BY <1>11
<1> HIDE DEF a, b, l
<1>15. a = b - Graph!Count(c, m) /\ a \in Nat /\ a <= b
    BY <1>12, <1>13, <1>14
<1> QED BY <1>15, Zenon DEF a, b

(* Taking the head off a list without repetitions.                            *)
LEMMA HeadTail ==
  ASSUME NEW S, NEW q \in Seq(S), q # <<>>, Distinct(q)
  PROVE  /\ Head(q) \in S /\ Head(q) \in Members(q) /\ Tail(q) \in Seq(S)
         /\ Distinct(Tail(q)) /\ Members(Tail(q)) = Members(q) \ {Head(q)}
<1> DEFINE t == Tail(q)
<1>1. /\ Len(q) \in Nat /\ Len(q) >= 1 /\ Head(q) = q[1] /\ Head(q) \in S /\ DOMAIN q = 1..Len(q)
      /\ t \in Seq(S) /\ Len(t) = Len(q) - 1 /\ DOMAIN t = 1..(Len(q) - 1)
      /\ \A at \in 1..(Len(q) - 1) : t[at] = q[at + 1]
    BY HeadTailProperties
<1>2. \A at, j \in 1..Len(q) : q[at] = q[j] => at = j
    BY <1>1 DEF Distinct
<1> HIDE DEF t
<1>3. \A at \in 1..(Len(q) - 1) : at + 1 \in 1..Len(q) /\ at + 1 # 1
    BY <1>1
<1>4. Distinct(t)
  <2> SUFFICES ASSUME NEW at \in 1..(Len(q) - 1), NEW j \in 1..(Len(q) - 1), t[at] = t[j]
               PROVE  at = j
      BY <1>1 DEF Distinct
  <2>1. q[at + 1] = q[j + 1]
      BY <1>1
  <2>2. at + 1 = j + 1
      BY <1>2, <1>3, <2>1
  <2> QED BY <2>2
<1>5. Head(q) \in Members(q)
    BY <1>1 DEF Members
<1>6. ASSUME NEW x \in Members(t) PROVE x \in Members(q) /\ x # Head(q)
  <2>1. PICK at \in 1..(Len(q) - 1) : x = t[at]
      BY <1>1 DEF Members
  <2>2. x = q[at + 1] /\ at + 1 \in 1..Len(q) /\ at + 1 # 1 /\ 1 \in 1..Len(q)
      BY <1>1, <1>3, <2>1
  <2> QED BY <1>1, <1>2, <2>2 DEF Members
<1>7. ASSUME NEW x \in Members(q), x # Head(q) PROVE x \in Members(t)
  <2>1. PICK at \in 1..Len(q) : x = q[at]
      BY <1>1 DEF Members
  <2>2. at # 1
      BY <1>1, <1>7, <2>1
  <2>3. at - 1 \in 1..(Len(q) - 1) /\ at - 1 + 1 = at
      BY <1>1, <2>2
  <2>4. t[at - 1] = x
      BY <1>1, <2>1, <2>3
  <2> QED BY <1>1, <2>3, <2>4 DEF Members
<1> QED BY <1>1, <1>4, <1>5, <1>6, <1>7 DEF t

(* Two lists without repetitions that share nothing, joined.                  *)
LEMMA Joined ==
  ASSUME NEW S, NEW q \in Seq(S), NEW r \in Seq(S), Distinct(q), Distinct(r),
         Members(q) \cap Members(r) = {}
  PROVE  q \o r \in Seq(S) /\ Distinct(q \o r) /\ Members(q \o r) = Members(q) \cup Members(r)
<1> DEFINE s == q \o r
           k == Len(q)
           n == Len(r)
<1>1. /\ s \in Seq(S) /\ k \in Nat /\ n \in Nat /\ Len(s) = k + n
      /\ \A at \in 1..(k + n) : s[at] = IF at <= k THEN q[at] ELSE r[at - k]
    BY ConcatProperties
<1>2. DOMAIN q = 1..k /\ DOMAIN r = 1..n /\ DOMAIN s = 1..(k + n)
    BY <1>1
<1> HIDE DEF s, k, n
<1>3. \A at \in 1..(k + n) : \/ at \in 1..k /\ s[at] = q[at]
                             \/ at > k /\ at - k \in 1..n /\ s[at] = r[at - k]
    BY <1>1
<1>4. ASSUME NEW at \in 1..k, NEW j \in 1..n PROVE q[at] # r[j]
  <2>1. q[at] \in Members(q) /\ r[j] \in Members(r)
      BY <1>2 DEF Members
  <2> QED BY <2>1
<1>5. ASSUME NEW at \in 1..(k + n), NEW j \in 1..(k + n), s[at] = s[j]
      PROVE  at = j
  <2>1. CASE at \in 1..k /\ s[at] = q[at]
    <3>1. j \in 1..k /\ s[j] = q[j]
        BY <1>3, <1>4, <1>5, <2>1
    <3> QED BY <1>2, <1>5, <2>1, <3>1 DEF Distinct
  <2>2. CASE at > k /\ at - k \in 1..n /\ s[at] = r[at - k]
    <3>1. j > k /\ j - k \in 1..n /\ s[j] = r[j - k]
        BY <1>3, <1>4, <1>5, <2>2
    <3>2. at - k = j - k
        BY <1>2, <1>5, <2>2, <3>1 DEF Distinct
    <3> QED BY <1>1, <3>2
  <2> QED BY <1>3, <2>1, <2>2
<1>6. Distinct(s)
    BY <1>2, <1>5 DEF Distinct
<1>7. ASSUME NEW x \in Members(s) PROVE x \in Members(q) \/ x \in Members(r)
  <2>1. PICK at \in 1..(k + n) : x = s[at]
      BY <1>2 DEF Members
  <2> QED BY <1>2, <1>3, <2>1 DEF Members
<1>8. ASSUME NEW x \in Members(q) PROVE x \in Members(s)
  <2>1. PICK at \in 1..k : x = q[at]
      BY <1>2 DEF Members
  <2>2. at \in 1..(k + n) /\ s[at] = q[at]
      BY <1>1, <2>1
  <2> QED BY <1>2, <2>1, <2>2 DEF Members
<1>9. ASSUME NEW x \in Members(r) PROVE x \in Members(s)
  <2>1. PICK at \in 1..n : x = r[at]
      BY <1>2 DEF Members
  <2>2. k + at \in 1..(k + n) /\ ~(k + at <= k) /\ k + at - k = at
      BY <1>1
  <2>3. s[k + at] = r[at]
      BY <1>1, <2>2
  <2> QED BY <1>2, <2>1, <2>2, <2>3 DEF Members
<1> QED BY <1>1, <1>6, <1>7, <1>8, <1>9 DEF s

(* One turn of Kahn's loop.                                                 *)
LEMMA KahnTurn ==
  ASSUME GraphType, NEW st \in KahnState, NEW D, KahnInv(st, D), st.queue # <<>>
  PROVE  LET s == Graph!Sort(st)
         IN /\ s \in KahnState /\ s.sorted = st.sorted + 1
            /\ KahnInv(s, D \cup {Head(st.queue)})
<1> DEFINE c     == Head(st.queue)
           left  == [m \in nodes |-> st.degree[m] - Graph!Count(c, m)]
           freed == {m \in nodes : left[m] = 0 /\ st.degree[m] > 0}
           list  == Graph!SetToSeq(freed)
           s     == [queue |-> Tail(st.queue) \o list, degree |-> left, sorted |-> st.sorted + 1]
<1>1. Graph!Sort(st) = s
    BY DEF Graph!Sort
<1>2. /\ st.queue \in Seq(nodes) /\ st.degree \in [nodes -> Nat] /\ st.sorted \in Nat
      /\ D \subseteq nodes /\ st.sorted = Cardinality(D)
      /\ \A m \in nodes : st.degree[m] = Cardinality(Into(m, D))
      /\ \A m \in nodes : st.degree[m] = 0 <=> m \in D \cup Members(st.queue)
      /\ Distinct(st.queue) /\ Members(st.queue) \cap D = {}
    BY DEF KahnState, KahnInv
<1>3. /\ c \in nodes /\ c \in Members(st.queue) /\ c \notin D /\ Tail(st.queue) \in Seq(nodes)
      /\ Distinct(Tail(st.queue)) /\ Members(Tail(st.queue)) = Members(st.queue) \ {c}
    BY <1>2, HeadTail
<1> HIDE DEF c
<1>4. \A m \in nodes : /\ left[m] = Cardinality(Into(m, D \cup {c})) /\ left[m] \in Nat
                       /\ left[m] <= st.degree[m] /\ st.degree[m] \in Nat
  <2> SUFFICES ASSUME NEW m \in nodes
               PROVE  /\ left[m] = Cardinality(Into(m, D \cup {c})) /\ left[m] \in Nat
                      /\ left[m] <= st.degree[m] /\ st.degree[m] \in Nat
      OBVIOUS
  <2>1. left[m] = st.degree[m] - Graph!Count(c, m)
      BY Zenon
  <2>2. st.degree[m] = Cardinality(Into(m, D)) /\ st.degree[m] \in Nat
      BY <1>2
  <2>3. /\ Cardinality(Into(m, D \cup {c})) = Cardinality(Into(m, D)) - Graph!Count(c, m)
        /\ Cardinality(Into(m, D \cup {c})) \in Nat
        /\ Cardinality(Into(m, D \cup {c})) <= Cardinality(Into(m, D))
      BY <1>3, DegreeFalls
  <2> HIDE DEF left
  <2> QED BY <2>1, <2>2, <2>3
<1>5. left \in [nodes -> Nat]
    BY <1>4
<1> HIDE DEF left
<1>6. freed \in SUBSET nodes /\ IsFiniteSet(freed)
  <2>1. freed \in SUBSET nodes /\ IsFiniteSet(nodes)
      BY DEF GraphType
  <2> HIDE DEF freed
  <2> QED BY <2>1, FS_Subset
<1>7. list \in Seq(nodes) /\ Distinct(list) /\ Members(list) = freed
  <2> HIDE DEF freed
  <2>1. list \in Seq(freed) /\ Distinct(list) /\ Members(list) = freed
      BY <1>6, ListOf
  <2> HIDE DEF list
  <2> QED BY <1>6, <2>1
<1> HIDE DEF list
<1>8. Members(Tail(st.queue)) \cap Members(list) = {}
  <2>1. \A m \in freed : m \in nodes /\ st.degree[m] # 0
      BY <1>4
  <2>2. \A m \in Members(Tail(st.queue)) : m \in Members(st.queue)
      BY <1>3
  <2> QED BY <1>2, <1>7, <2>1, <2>2
<1>9. /\ Tail(st.queue) \o list \in Seq(nodes) /\ Distinct(Tail(st.queue) \o list)
      /\ Members(Tail(st.queue) \o list) = (Members(st.queue) \ {c}) \cup freed
  <2> HIDE DEF freed
  <2>1. /\ Tail(st.queue) \o list \in Seq(nodes) /\ Distinct(Tail(st.queue) \o list)
        /\ Members(Tail(st.queue) \o list) = Members(Tail(st.queue)) \cup Members(list)
    <3> DEFINE t == Tail(st.queue)
    <3>1. /\ t \in Seq(nodes) /\ list \in Seq(nodes) /\ Distinct(t) /\ Distinct(list)
          /\ Members(t) \cap Members(list) = {}
        BY <1>3, <1>7, <1>8
    <3> HIDE DEF t
    <3>2. /\ t \o list \in Seq(nodes) /\ Distinct(t \o list)
          /\ Members(t \o list) = Members(t) \cup Members(list)
        BY <3>1, Joined
    <3> QED BY <3>2 DEF t
  <2> QED BY <1>3, <1>7, <2>1
<1> DEFINE q == Tail(st.queue) \o list
<1> HIDE DEF q
<1>10. s = [queue |-> q, degree |-> left, sorted |-> st.sorted + 1]
    BY DEF q
<1> HIDE DEF s
<1>11. s.queue = q /\ s.degree = left /\ s.sorted = st.sorted + 1 /\ s \in KahnState
  <2>1. q \in Seq(nodes) /\ st.sorted + 1 \in Nat
      BY <1>2, <1>9 DEF q
  <2> QED BY <1>5, <1>10, <2>1 DEF KahnState
<1>12. Cardinality(D \cup {c}) = st.sorted + 1
  <2>1. IsFiniteSet(D)
      BY <1>2, FS_Subset DEF GraphType
  <2> QED BY <1>2, <1>3, <2>1, FS_AddElement
<1>13. \A m \in nodes : left[m] = 0 <=> m \in (D \cup {c}) \cup Members(q)
  <2> SUFFICES ASSUME NEW m \in nodes
               PROVE  left[m] = 0 <=> m \in (D \cup {c}) \cup Members(q)
      OBVIOUS
  <2>1. Members(q) = (Members(st.queue) \ {c}) \cup freed
      BY <1>9 DEF q
  <2>2. m \in (D \cup {c}) \cup Members(q) <=> m \in D \cup Members(st.queue) \/ m \in freed
      BY <1>3, <2>1
  <2>3. left[m] = 0 <=> st.degree[m] = 0 \/ m \in freed
      BY <1>4
  <2> QED BY <1>2, <2>2, <2>3
<1>14. Members(q) \cap (D \cup {c}) = {} /\ Distinct(q)
  <2>1. Members(q) = (Members(st.queue) \ {c}) \cup freed
      BY <1>9 DEF q
  <2>2. \A m \in freed : m \in nodes /\ st.degree[m] # 0
      BY <1>4
  <2>3. freed \cap (D \cup {c}) = {}
      BY <1>2, <1>3, <2>2
  <2> QED BY <1>2, <1>9, <2>1, <2>3 DEF q
<1>15. KahnInv(s, D \cup {c})
  <2>1. D \cup {c} \subseteq nodes
      BY <1>2, <1>3
  <2> QED BY <1>4, <1>11, <1>12, <1>13, <1>14, <2>1 DEF KahnInv
<1> QED BY <1>1, <1>11, <1>15 DEF s, c

\* The states Kahn's loop can be in.
Sorts == {st \in KahnState : \E D : KahnInv(st, D)}

(* The loop begins with the nodes no edge leads to.                         *)
LEMMA KahnStart ==
  ASSUME GraphType, NEW degree, NEW start,
         degree = [m \in nodes |-> Graph!Cardinality({e \in Graph!GetEdges : e[3] = m})],
         start = [queue |-> Graph!SetToSeq({m \in nodes : degree[m] = 0}),
                  degree |-> degree, sorted |-> 0]
  PROVE  start \in Sorts /\ start.sorted = 0
<1> DEFINE zero == {m \in nodes : degree[m] = 0}
           list == Graph!SetToSeq(zero)
<1>1. \A m \in nodes : degree[m] = Cardinality(Into(m, {}))
  <2> SUFFICES ASSUME NEW m \in nodes PROVE degree[m] = Cardinality(Into(m, {}))
      OBVIOUS
  <2>1. degree[m] = Graph!Cardinality({e \in Graph!GetEdges : e[3] = m})
      BY Zenon
  <2>2. Into(m, {}) = {e \in Graph!GetEdges : e[3] = m}
      BY DEF Into
  <2>3. degree[m] = Graph!Cardinality(Into(m, {}))
      BY <2>1, <2>2, Zenon
  <2> QED BY <2>3, CountIs
<1>2. \A m \in nodes : Cardinality(Into(m, {})) \in Nat
    BY DegreeType
<1>3. degree \in [nodes -> Nat]
  <2>1. degree = [m \in nodes |-> degree[m]]
      BY Zenon
  <2> QED BY <1>1, <1>2, <2>1
<1>4. zero \in SUBSET nodes /\ IsFiniteSet(zero)
  <2>1. zero \in SUBSET nodes /\ IsFiniteSet(nodes)
      BY DEF GraphType
  <2> HIDE DEF zero
  <2> QED BY <2>1, FS_Subset
<1>5. list \in Seq(nodes) /\ Distinct(list) /\ Members(list) = zero
  <2> HIDE DEF zero
  <2>1. list \in Seq(zero) /\ Distinct(list) /\ Members(list) = zero
      BY <1>4, ListOf
  <2> HIDE DEF list
  <2> QED BY <1>4, <2>1
<1>6. \A m \in nodes : degree[m] = 0 <=> m \in {} \cup Members(list)
    BY <1>5
<1> HIDE DEF list
<1>7. start = [queue |-> list, degree |-> degree, sorted |-> 0]
    BY Zenon DEF list
<1>8. start.queue = list /\ start.degree = degree /\ start.sorted = 0 /\ start \in KahnState
    BY <1>3, <1>5, <1>7 DEF KahnState
<1>9. Cardinality({}) = 0
    BY FS_EmptySet
<1>10. KahnInv(start, {})
    BY <1>1, <1>5, <1>6, <1>8, <1>9 DEF KahnInv
<1> QED BY <1>8, <1>10 DEF Sorts

(* Unless the queue is empty, as many turns as there are nodes sort them all. *)
LEMMA KahnEnds ==
  ASSUME GraphType
  PROVE  /\ Graph!Sorted \in Sorts
         /\ Graph!Sorted.queue = <<>> \/ Graph!Sorted.sorted = Cardinality(nodes)
<1> DEFINE degree == [m \in nodes |-> Graph!Cardinality({e \in Graph!GetEdges : e[3] = m})]
           start  == [queue |-> Graph!SetToSeq({m \in nodes : degree[m] = 0}),
                      degree |-> degree, sorted |-> 0]
           Turn(st) == IF st.queue = <<>> THEN st ELSE Graph!Sort(st)
           F == [k \in Nat |-> [st \in Sorts |-> Turn(st)]]
<1>1. start \in Sorts /\ start.sorted = 0
  <2> HIDE DEF degree
  <2>1. degree = [m \in nodes |-> Graph!Cardinality({e \in Graph!GetEdges : e[3] = m})]
      BY DEF degree
  <2> HIDE DEF start
  <2>2. start = [queue |-> Graph!SetToSeq({m \in nodes : degree[m] = 0}),
                 degree |-> degree, sorted |-> 0]
      BY DEF start
  <2> QED BY <2>1, <2>2, KahnStart
<1>2. ASSUME NEW st \in Sorts, st.queue # <<>>
      PROVE  Graph!Sort(st) \in Sorts /\ Graph!Sort(st).sorted = st.sorted + 1
  <2>1. PICK D : KahnInv(st, D)
      BY DEF Sorts
  <2>2. st \in KahnState
      BY DEF Sorts
  <2>3. /\ Graph!Sort(st) \in KahnState /\ Graph!Sort(st).sorted = st.sorted + 1
        /\ KahnInv(Graph!Sort(st), D \cup {Head(st.queue)})
      BY <1>2, <2>1, <2>2, KahnTurn
  <2> QED BY <2>3 DEF Sorts
<1>3. \A st \in Sorts : Turn(st) \in Sorts
    BY <1>2
<1>4. F \in Steps(Sorts)
  <2> HIDE DEF Turn
  <2> QED BY <1>3 DEF Steps
<1>5. \A k \in Nat, st \in Sorts : F[k][st] = Turn(st)
  <2> HIDE DEF Turn
  <2> QED OBVIOUS
<1>6. PICK g \in [Nat -> Sorts] : Iteration(g, start, F)
  <2> HIDE DEF F, start
  <2> QED BY <1>1, <1>4, Iterates
<1>7. g[0] = start /\ \A k \in Nat : g[k + 1] = Turn(g[k])
  <2> HIDE DEF F, start, Turn
  <2> QED BY <1>5, <1>6 DEF Iteration
<1> HIDE DEF F
<1> DEFINE loop[k \in Nat] ==
             IF k = 0 THEN start
             ELSE IF loop[k - 1].queue = <<>> THEN loop[k - 1] ELSE Graph!Sort(loop[k - 1])
<1>8. Graph!Sorted = loop[Graph!Cardinality(nodes)]
    BY Zenon DEF Graph!Sorted
<1>9. loop = CHOOSE w : w = [k \in Nat |->
                IF k = 0 THEN start
                ELSE IF w[k - 1].queue = <<>> THEN w[k - 1] ELSE Graph!Sort(w[k - 1])]
    BY Zenon
<1> HIDE DEF loop, start
<1>10. g = [k \in Nat |->
              IF k = 0 THEN start
              ELSE IF g[k - 1].queue = <<>> THEN g[k - 1] ELSE Graph!Sort(g[k - 1])]
  <2>1. ASSUME NEW k \in Nat PROVE g[k] = IF k = 0 THEN start ELSE Turn(g[k - 1])
    <3> HIDE DEF Turn
    <3>1. CASE k = 0
        BY <1>7, <3>1
    <3>2. CASE k # 0
      <4>1. k - 1 \in Nat /\ k - 1 + 1 = k
          BY <3>2
      <4>2. g[k - 1 + 1] = Turn(g[k - 1])
          BY <1>7, <4>1
      <4> QED BY <3>2, <4>1, <4>2
    <3> QED BY <3>1, <3>2
  <2> QED BY <2>1, Zenon
<1>11. loop = [k \in Nat |->
                 IF k = 0 THEN start
                 ELSE IF loop[k - 1].queue = <<>> THEN loop[k - 1] ELSE Graph!Sort(loop[k - 1])]
    BY <1>9, <1>10, Zenon
<1> DEFINE v == loop
<1>12. v[0] = start /\ \A k \in Nat : v[k + 1] = Turn(v[k])
  <2>1. \A k \in Nat : (k = 0 => v[k] = start) /\ (k # 0 => v[k] = Turn(v[k - 1]))
      BY <1>11, Zenon
  <2> HIDE DEF v, Turn
  <2>2. ASSUME NEW k \in Nat PROVE v[k + 1] = Turn(v[k])
    <3>1. k + 1 \in Nat /\ k + 1 # 0 /\ k + 1 - 1 = k
        OBVIOUS
    <3>2. v[k + 1] = Turn(v[k + 1 - 1])
        BY <2>1, <3>1
    <3> QED BY <3>1, <3>2
  <2> QED BY <2>1, <2>2
<1> HIDE DEF v
<1>13. \A k \in Nat : v[k] \in Sorts /\ (v[k].queue = <<>> \/ v[k].sorted = k)
  <2> DEFINE P == {k \in Nat : v[k] \in Sorts /\ (v[k].queue = <<>> \/ v[k].sorted = k)}
  <2>1. 0 \in P
      BY <1>1, <1>12
  <2>2. ASSUME NEW k \in P PROVE k + 1 \in P
    <3>1. k \in Nat /\ v[k] \in Sorts /\ (v[k].queue = <<>> \/ v[k].sorted = k)
        OBVIOUS
    <3>2. v[k + 1] = Turn(v[k])
        BY <1>12, <3>1
    <3>3. v[k + 1] \in Sorts
        BY <1>3, <3>1, <3>2
    <3>4. v[k + 1].queue = <<>> \/ v[k + 1].sorted = k + 1
      <4>1. CASE v[k].queue = <<>>
          BY <3>2, <4>1
      <4>2. CASE v[k].queue # <<>>
          BY <1>2, <3>1, <3>2, <4>2
      <4> QED BY <4>1, <4>2
    <3> QED BY <3>1, <3>3, <3>4
  <2> HIDE DEF P
  <2>3. P = Nat
      BY <2>1, <2>2, Induction DEF P
  <2> QED BY <2>3 DEF P
<1>14. Cardinality(nodes) \in Nat
    BY FS_CardinalityType DEF GraphType
<1>15. Graph!Sorted = v[Cardinality(nodes)]
    BY <1>8, CountIs, Zenon DEF v
<1> QED BY <1>13, <1>14, <1>15

(* What the loop leaves has a predecessor that the loop left: it is nothing. *)
LEMMA SortedAll == GraphInv => Graph!CheckDAG
<1> SUFFICES ASSUME GraphInv PROVE Graph!CheckDAG
    OBVIOUS
<1> DEFINE st == Graph!Sorted
<1>1. GraphType /\ Graph!Acyclic(Arcs) /\ IsFiniteSet(nodes) /\ nodes \subseteq Nodes
    BY DEF GraphInv, GraphType
<1>2. st \in Sorts /\ (st.queue = <<>> \/ st.sorted = Cardinality(nodes))
    BY <1>1, KahnEnds
<1> HIDE DEF st
<1>3. ASSUME st.queue = <<>> PROVE st.sorted = Cardinality(nodes)
  <2>1. PICK D : KahnInv(st, D)
      BY <1>2 DEF Sorts
  <2>2. /\ D \subseteq nodes /\ st.sorted = Cardinality(D)
        /\ \A m \in nodes : st.degree[m] = Cardinality(Into(m, D))
        /\ \A m \in nodes : st.degree[m] = 0 <=> m \in D \cup Members(st.queue)
      BY <2>1 DEF KahnInv
  <2>3. Members(st.queue) = {}
      BY <1>3 DEF Members
  <2> DEFINE R == nodes \ D
  <2>4. ASSUME NEW m \in R PROVE \E n \in R : <<n, m>> \in Arcs
    <3>1. Cardinality(Into(m, D)) # 0
        BY <2>2, <2>3
    <3>2. Into(m, D) # {}
        BY <3>1, FS_EmptySet
    <3>3. PICK e \in Into(m, D) : TRUE
        BY <3>2
    <3>4. e \in Graph!GetEdges /\ e[3] = m /\ e[1] \notin D
        BY <3>3 DEF Into
    <3>5. <<e[1], m>> \in Arcs
        BY <3>4 DEF Arcs
    <3>6. e[1] \in nodes
        BY <1>1, <3>5, ArcsNow
    <3> QED BY <3>4, <3>5, <3>6
  <2> DEFINE Bad == {T \in SUBSET R : T # {} /\ \A m \in T : \E n \in T : <<n, m>> \in Arcs}
  <2>5. Bad = {}
    <3> SUFFICES ASSUME Bad # {} PROVE FALSE
        OBVIOUS
    <3> DEFINE sizes == {Cardinality(T) : T \in Bad}
    <3>1. \A T \in Bad : IsFiniteSet(T) /\ Cardinality(T) \in Nat
        BY <1>1, FS_Subset, FS_CardinalityType
    <3>2. sizes \subseteq Nat /\ sizes # {}
      <4> HIDE DEF Bad
      <4> QED BY <3>1
    <3>3. PICK k \in sizes : \A j \in sizes : k <= j
      <4> HIDE DEF sizes
      <4> QED BY <3>2, Least
    <3>4. PICK T \in Bad : k = Cardinality(T)
      <4> HIDE DEF Bad
      <4> QED BY <3>3
    <3>5. PICK n \in T : \A m \in T : <<n, m>> \notin Arcs
        BY <1>1, <3>4 DEF Graph!Acyclic
    <3> DEFINE U == T \ {n}
    <3>6. U \in Bad
      <4>0. T \in SUBSET R /\ \A m \in T : \E x \in T : <<x, m>> \in Arcs
          BY <3>4
      <4>1. \A m \in T : \E x \in T : x # n /\ <<x, m>> \in Arcs
        <5> HIDE DEF R
        <5> QED BY <3>5, <4>0, Zenon
      <4>2. U # {} /\ \A m \in U : \E x \in U : <<x, m>> \in Arcs
        <5>1. PICK x \in T : x # n /\ <<x, n>> \in Arcs
            BY <3>5, <4>1
        <5>2. U # {}
            BY <5>1
        <5>3. ASSUME NEW m \in U PROVE \E y \in U : <<y, m>> \in Arcs
          <6>1. PICK y \in T : y # n /\ <<y, m>> \in Arcs
              BY <4>1
          <6> QED BY <6>1
        <5> HIDE DEF U
        <5> QED BY <5>2, <5>3
      <4> QED BY <4>0, <4>2
    <3>7. Cardinality(U) = Cardinality(T) - 1
        BY <3>1, <3>4, <3>5, FS_RemoveElement
    <3>8. Cardinality(T) <= Cardinality(U)
        BY <3>3, <3>4, <3>6
    <3>9. Cardinality(T) \in Nat
        BY <3>1, <3>4
    <3> HIDE DEF U, Bad
    <3> QED BY <3>7, <3>8, <3>9
  <2>6. R = {}
    <3> SUFFICES ASSUME R # {} PROVE FALSE
        OBVIOUS
    <3>1. R \in Bad
        BY <2>4
    <3> QED BY <2>5, <3>1
  <2>7. D = nodes
      BY <2>2, <2>6
  <2> QED BY <2>2, <2>7
<1>4. st.sorted = Cardinality(nodes)
  <2>1. CASE st.queue = <<>>
      BY <1>3, <2>1
  <2> QED BY <1>2, <2>1
<1> QED BY <1>4, CountIs DEF Graph!CheckDAG, st

(* The graph has no cycle, is sorted, and refuses what closes one.          *)
LEMMA GraphGood == GraphInv => GraphStaysDag
<1> SUFFICES ASSUME GraphInv PROVE GraphStaysDag
    OBVIOUS
<1>1. Graph!Acyclic(Arcs)
    BY DEF GraphInv
<1>2. Graph!CheckDAG
    BY SortedAll
<1>3. Graph!GetCycle = {}
    BY <1>2 DEF Graph!GetCycle
<1>4. \A m, n \in nodes :
        Graph!WouldCreateCycle(m, n) <=> ~Graph!Acyclic(Arcs \cup {<<m, n>>})
    BY RefusesCycles
<1> QED BY <1>1, <1>2, <1>3, <1>4 DEF GraphStaysDag

(* The graph has no cycle whatever is added (graph.go: AddNode, AddEdge).     *)
THEOREM GraphInvHolds == UtilSpec => []GraphInv
<1>1. UtilInit => GraphInv
    BY GraphStart DEF UtilInit
<1>2. GraphInv /\ [UtilNext]_utilVars => GraphInv'
  <2> SUFFICES ASSUME GraphInv, [UtilNext]_utilVars PROVE GraphInv'
      OBVIOUS
  <2>1. \/ \E a \in Nodes : Graph!AddNode(a)
        \/ \E a \in Nodes, b \in Nodes : Graph!AddEdge(a, b)
        \/ UNCHANGED graphVars
      BY DEF UtilNext, utilVars, Graph!Next
  <2> QED BY <2>1, GraphAddsNode, GraphAddsEdge, GraphRests
<1> QED BY <1>1, <1>2, PTL DEF UtilSpec

(* A graph of any size has no cycle, CheckDAG and GetCycle say so, and        *)
(* AddEdge refuses exactly the edges that would close one (graph.go).         *)
THEOREM GraphStaysDagHolds == UtilSpec => []GraphStaysDag
BY GraphGood, GraphInvHolds, PTL
=============================================================================
