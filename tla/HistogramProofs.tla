-------------------------- MODULE HistogramProofs ---------------------------
(***************************************************************************)
(* What buildHistogram makes of a distribution, for every distribution.    *)
(*                                                                         *)
(* The finite buckets grow with what has been counted so far (Growing), so *)
(* the +Inf bucket, which is given no less than that, closes the series.   *)
(* What has been counted so far is the sum of the counts read (Tallied),   *)
(* and in the end all of them are read: none is lost (SamplesConserved).   *)
(* With the bounds in order that sum is what lies below the bound of the   *)
(* bucket, if the layout's first bound is that of its first count, as in   *)
(* explicit layouts (ExplicitExact); in the others it is what lies below   *)
(* the bound before (OneBucketOff).                                        *)
(***************************************************************************)
EXTENDS Histogram, SequenceFoldsProofs

\* The counts made so far never fall, and the last of them is cumulative.
Growing ==
    /\ \A i, j \in DOMAIN buckets : i <= j => buckets[i].count <= buckets[j].count
    /\ \A i \in DOMAIN buckets : buckets[i].count <= cumulative

HistogramInv == TypeOK /\ Growing /\ WellFormed

\* The first n counts, as the code takes them.
CountsUpTo(n) == [i \in 1..n |-> CountAt(i)]

\* What has been counted is the sum of the counts read, and a bucket has the
\* sum up to its own.
Tallied ==
    /\ cumulative = Sum(CountsUpTo(next - 1))
    /\ next <= Len(Bounds) => Len(buckets) = next - 1
    /\ next > Len(Bounds) => Len(buckets) = Len(Bounds)
    /\ \A i \in DOMAIN buckets : buckets[i] = [le |-> Bounds[i], count |-> Sum(CountsUpTo(i))]

\* A histogram is made when all counts are read, of what they gave.
Emitted ==
    \A h \in Range(histogram) :
        /\ next > Len(Bounds) /\ next > Len(dist.counts)
        /\ h.buckets = buckets
        /\ h.sampleCount = IF dist.count > cumulative THEN dist.count ELSE cumulative
        /\ h.sampleSum = dist.mean * dist.count

TallyInv == HistogramInv /\ Tallied /\ Emitted

\* The bucket_layout finding, exactly: in a linear or exponential layout each
\* bucket counts what lies below the bound of the bucket before it.
OneBucketOff ==
    \A h \in Range(histogram) :
        LET upper == GcpUpperBounds(dist.layout)
        IN  dist.layout.kind \in {"linear", "exponential"} /\ Increasing(upper) =>
                \A i \in DOMAIN h.buckets :
                    /\ i \in DOMAIN upper /\ i + 1 \in DOMAIN upper
                    /\ h.buckets[i].le = upper[i + 1]
                    /\ h.buckets[i].count = CountedBelow(upper[i])

-----------------------------------------------------------------------------

\* Whatever a count is, what it adds is a natural number.
LEMMA CountAtType ==
    ASSUME TypeOK, NEW i \in Nat
    PROVE  CountAt(i) \in Nat
  <1>1. dist.counts \in Seq(Int)
    BY HistogramAssumption DEF TypeOK
  <1>2. CASE i \in DOMAIN dist.counts
    <2>1. dist.counts[i] \in Int
      BY <1>1, <1>2
    <2> QED BY <1>2, <2>1 DEF CountAt, AtLeast0
  <1>3. CASE i \notin DOMAIN dist.counts
    BY <1>3 DEF CountAt
  <1> QED BY <1>2, <1>3

\* Every bucket made so far counts a natural number.
LEMMA BucketCountType ==
    ASSUME TypeOK
    PROVE  \A i \in DOMAIN buckets : buckets[i].count \in Nat
  <1> SUFFICES ASSUME NEW i \in DOMAIN buckets
               PROVE  buckets[i].count \in Nat
    OBVIOUS
  <1>1. buckets[i] \in Bucket
    BY DEF TypeOK
  <1> QED BY <1>1 DEF Bucket

\* The bounds of the distribution are a sequence of numbers.
LEMMA BoundsType ==
    ASSUME TypeOK
    PROVE  Bounds \in Seq(Int)
  BY BoundsAssumption DEF TypeOK, Bounds

\* The inductive invariant holds initially.
LEMMA HistogramInit == Init => HistogramInv
  <1> SUFFICES ASSUME Init
               PROVE  HistogramInv
    OBVIOUS
  <1>1. <<>> \in Seq(Bucket) /\ <<>> \in Seq([buckets : Seq(Bucket), inf : Nat, sampleCount : Nat, sampleSum : Int])
    OBVIOUS
  <1>2. TypeOK
    BY <1>1 DEF Init, TypeOK
  <1>3. Growing /\ WellFormed
    BY DEF Init, Growing, WellFormed, Range
  <1> QED BY <1>2, <1>3 DEF HistogramInv

\* A finite bucket is one more, and counts no less than those before it.
LEMMA FiniteBucketKeeps ==
    ASSUME HistogramInv, FiniteBucket
    PROVE  HistogramInv'
  <1> DEFINE b == [le |-> Bounds[next], count |-> cumulative + CountAt(next)]
  <1>1. TypeOK /\ Growing
    BY DEF HistogramInv
  <1>2. CountAt(next) \in Nat /\ Bounds[next] \in Int
    BY <1>1, CountAtType, BoundsType DEF TypeOK, FiniteBucket
  <1>3. b \in Bucket /\ buckets \in Seq(Bucket) /\ cumulative \in Nat
    BY <1>1, <1>2 DEF TypeOK, Bucket
  <1>4. /\ buckets' = Append(buckets, b) /\ cumulative' = cumulative + CountAt(next)
        /\ UNCHANGED <<dist, histogram>> /\ next' = next + 1 /\ histogram = <<>>
    BY DEF FiniteBucket
  <1>5. b.count = cumulative + CountAt(next)
    OBVIOUS
  <1> HIDE DEF b
  <1>6. /\ buckets' \in Seq(Bucket) /\ Len(buckets') = Len(buckets) + 1
        /\ buckets'[Len(buckets) + 1] = b
        /\ \A i \in 1..Len(buckets) : buckets'[i] = buckets[i]
    BY <1>3, <1>4
  <1>7. TypeOK'
    BY <1>1, <1>2, <1>4, <1>6 DEF TypeOK
  <1>8. Growing'
    <2>1. \A i \in DOMAIN buckets : buckets[i].count \in Nat
      BY <1>1, BucketCountType
    <2>2. DOMAIN buckets = 1..Len(buckets) /\ DOMAIN buckets' = 1..(Len(buckets) + 1)
          /\ Len(buckets) \in Nat
      BY <1>3, <1>6
    <2> QED BY <1>1, <1>2, <1>3, <1>4, <1>5, <1>6, <2>1, <2>2 DEF Growing
  <1>9. WellFormed'
    BY <1>4 DEF WellFormed, Range
  <1> QED BY <1>7, <1>8, <1>9 DEF HistogramInv

\* A surplus count only adds to what has been counted.
LEMMA SurplusCountKeeps ==
    ASSUME HistogramInv, SurplusCount
    PROVE  HistogramInv'
  <1>1. TypeOK /\ Growing
    BY DEF HistogramInv
  <1>2. CountAt(next) \in Nat /\ cumulative \in Nat
    BY <1>1, CountAtType DEF TypeOK
  <1>3. /\ cumulative' = cumulative + CountAt(next) /\ next' = next + 1
        /\ UNCHANGED <<dist, buckets, histogram>> /\ histogram = <<>>
    BY DEF SurplusCount
  <1>4. TypeOK'
    BY <1>1, <1>2, <1>3 DEF TypeOK
  <1>5. Growing'
    <2>1. \A i \in DOMAIN buckets : buckets[i].count \in Nat
      BY <1>1, BucketCountType
    <2> QED BY <1>1, <1>2, <1>3, <2>1 DEF Growing
  <1>6. WellFormed'
    BY <1>3 DEF WellFormed, Range
  <1> QED BY <1>4, <1>5, <1>6 DEF HistogramInv

\* The histogram that is emitted is well-formed.
LEMMA EmitKeeps ==
    ASSUME HistogramInv, Emit
    PROVE  HistogramInv'
  <1> DEFINE total == IF dist.count > cumulative THEN dist.count ELSE cumulative
             h == [buckets |-> buckets, inf |-> total, sampleCount |-> total,
                   sampleSum |-> dist.mean * dist.count]
  <1>1. TypeOK /\ Growing
    BY DEF HistogramInv
  <1>2. dist.count \in Int /\ dist.mean \in Int /\ cumulative \in Nat
    BY <1>1, HistogramAssumption DEF TypeOK
  <1>3. total \in Nat /\ total >= cumulative
    BY <1>2
  <1>4. dist.mean * dist.count \in Int
    BY <1>2
  <1>5. histogram' = <<h>> /\ UNCHANGED <<dist, next, buckets, cumulative>>
    BY DEF Emit
  <1> HIDE DEF total
  <1>6. h \in [buckets : Seq(Bucket), inf : Nat, sampleCount : Nat, sampleSum : Int]
    BY <1>1, <1>3, <1>4 DEF TypeOK
  <1>7. h.buckets = buckets /\ h.inf = total /\ h.sampleCount = total
    OBVIOUS
  <1> HIDE DEF h
  <1>8. TypeOK'
    BY <1>1, <1>5, <1>6 DEF TypeOK
  <1>9. Growing'
    BY <1>1, <1>5 DEF Growing
  <1>10. WellFormed'
    <2>1. \A i \in DOMAIN buckets : buckets[i].count \in Nat
      BY <1>1, BucketCountType
    <2>2. Range(histogram') = {h}
      BY <1>5 DEF Range
    <2> QED BY <1>1, <1>2, <1>3, <1>7, <2>1, <2>2 DEF WellFormed, Growing
  <1> QED BY <1>8, <1>9, <1>10 DEF HistogramInv

\* The inductive invariant is kept by every step.
LEMMA HistogramNext == HistogramInv /\ [Next]_vars => HistogramInv'
  <1> SUFFICES ASSUME HistogramInv, [Next]_vars
               PROVE  HistogramInv'
    OBVIOUS
  <1>1. CASE UNCHANGED vars
    BY <1>1 DEF vars, HistogramInv, TypeOK, Growing, WellFormed
  <1> QED BY <1>1, FiniteBucketKeeps, SurplusCountKeeps, EmitKeeps DEF Next

\* The inductive invariant holds throughout.
THEOREM HistogramInvariant == Spec => []HistogramInv
  BY HistogramInit, HistogramNext, PTL DEF Spec

\* Counts are natural numbers whatever the distribution says, and the result
\* is one histogram at most.
THEOREM HistogramTypeCorrect == Spec => []TypeOK
  BY HistogramInvariant, PTL DEF HistogramInv

\* Every histogram that buildHistogram returns is one that Prometheus takes.
THEOREM WellFormedHolds == Spec => []WellFormed
  BY HistogramInvariant, PTL DEF HistogramInv

-----------------------------------------------------------------------------
(* The sums *)

\* The counts read are natural numbers.
LEMMA CountsUpToType ==
    ASSUME TypeOK, NEW n \in Nat
    PROVE  CountsUpTo(n) \in Seq(Int) /\ Len(CountsUpTo(n)) = n
  <1>1. \A i \in 1..n : CountAt(i) \in Int
    BY CountAtType
  <1> QED BY <1>1 DEF CountsUpTo

\* A sum of counts read is a partial sum of more of them.
LEMMA SumOfCounts ==
    ASSUME TypeOK, NEW n \in Nat, NEW t \in Seq(Int), n <= Len(t),
           \A i \in 1..n : t[i] = CountAt(i)
    PROVE  PartialSums(t)[n] = Sum(CountsUpTo(n))
  <1>1. CountsUpTo(n) \in Seq(Int) /\ Len(CountsUpTo(n)) = n
    BY CountsUpToType
  <1>2. \A i \in 1..n : CountsUpTo(n)[i] = t[i]
    BY DEF CountsUpTo
  <1>3. PartialSums(CountsUpTo(n))[n] = PartialSums(t)[n]
    BY <1>1, <1>2, PartialSumsAgree
  <1> QED BY <1>1, <1>3 DEF Sum

\* Nothing read is nothing counted.
LEMMA SumOfNoCounts == ASSUME TypeOK PROVE Sum(CountsUpTo(0)) = 0
  <1> DEFINE t == CountsUpTo(0)
  <1>1. t \in Seq(Int) /\ Len(t) = 0
    BY CountsUpToType
  <1> HIDE DEF t
  <1>2. PartialSums(t)[0] = 0
    BY <1>1, PartialSumsStep
  <1>3. Sum(t) = 0
    BY <1>1, <1>2 DEF Sum
  <1> QED BY <1>3 DEF t

\* One more count is added.
LEMMA SumOfNextCount ==
    ASSUME TypeOK, NEW n \in Nat \ {0}
    PROVE  Sum(CountsUpTo(n)) = Sum(CountsUpTo(n - 1)) + CountAt(n)
  <1> DEFINE t == CountsUpTo(n)
             before == n - 1
  <1>1. t \in Seq(Int) /\ Len(t) = n
    BY CountsUpToType
  <1>2. \A i \in 1..n : t[i] = CountAt(i)
    BY DEF CountsUpTo
  <1> HIDE DEF t
  <1>3. PartialSums(t)[n] = PartialSums(t)[n - 1] + CountAt(n)
    <2>1. n \in 1..Len(t)
      BY <1>1
    <2> QED BY <1>1, <1>2, <2>1, PartialSumsStep
  <1>4. PartialSums(t)[before] = Sum(CountsUpTo(before))
    <2>1. before \in Nat /\ before <= Len(t) /\ \A i \in 1..before : t[i] = CountAt(i)
      BY <1>1, <1>2
    <2> HIDE DEF before
    <2> QED BY <1>1, <2>1, SumOfCounts
  <1>5. PartialSums(t)[n] = Sum(CountsUpTo(n))
    BY <1>1 DEF Sum, t
  <1> QED BY <1>3, <1>4, <1>5

\* When all counts are read, their sum is that of the distribution.
LEMMA SumOfAllCounts ==
    ASSUME TypeOK, NEW n \in Nat, Len(dist.counts) <= n
    PROVE  Sum(CountsUpTo(n)) = Counted
  <1> DEFINE t == CountsUpTo(n)
             c == [i \in DOMAIN dist.counts |-> AtLeast0(dist.counts[i])]
             k == Len(dist.counts)
  <1>1. dist.counts \in Seq(Int) /\ k \in Nat /\ DOMAIN dist.counts = 1..k
    BY HistogramAssumption DEF TypeOK
  <1>2. t \in Seq(Int) /\ Len(t) = n
    BY CountsUpToType
  <1>3. \A i \in 1..n : t[i] = CountAt(i)
    BY DEF CountsUpTo
  <1>4. c \in Seq(Int) /\ Len(c) = k /\ \A i \in 1..k : c[i] = CountAt(i)
    BY <1>1 DEF AtLeast0, CountAt
  <1> HIDE DEF t, c
  <1>5. Sum(t) = PartialSums(t)[k]
    <2>1. \A i \in (k + 1)..Len(t) : t[i] = 0
      BY <1>1, <1>2, <1>3 DEF CountAt
    <2>2. k \in 0..Len(t)
      BY <1>1, <1>2
    <2> HIDE DEF k
    <2> QED BY <1>2, <2>1, <2>2, SumOfZeroTail
  <1>6. PartialSums(t)[k] = PartialSums(c)[k]
    <2>1. k <= Len(t) /\ k <= Len(c) /\ \A i \in 1..k : t[i] = c[i]
      BY <1>1, <1>2, <1>3, <1>4
    <2> HIDE DEF k
    <2> QED BY <1>1, <1>2, <1>4, <2>1, PartialSumsAgree
  <1>7. PartialSums(c)[k] = Counted
    BY <1>4 DEF Sum, Counted, c
  <1> QED BY <1>5, <1>6, <1>7 DEF t

\* With upper bounds in order, what lies below one of them is the sum of the
\* counts up to its own.
LEMMA SumBelow ==
    ASSUME TypeOK, Increasing(GcpUpperBounds(dist.layout)),
           NEW i \in DOMAIN GcpUpperBounds(dist.layout)
    PROVE  CountedBelow(GcpUpperBounds(dist.layout)[i]) = Sum(CountsUpTo(i))
  <1> DEFINE upper == GcpUpperBounds(dist.layout)
             b == upper[i]
             t == [j \in DOMAIN upper |-> IF upper[j] <= b THEN CountAt(j) ELSE 0]
  <1>1. upper \in Seq(Int)
    BY UpperBoundsAssumption DEF TypeOK
  <1>2. CountedBelow(b) = Sum(t)
    BY DEF CountedBelow
  <1>3. \A j, k \in DOMAIN upper : j < k => upper[j] < upper[k]
    BY DEF Increasing
  <1> HIDE DEF upper
  <1>4. /\ Len(upper) \in Nat /\ DOMAIN upper = 1..Len(upper)
        /\ \A j \in 1..Len(upper) : upper[j] \in Int
        /\ i \in 1..Len(upper) /\ b \in Int
    BY <1>1 DEF upper
  <1>5. \A j \in 1..Len(upper) : CountAt(j) \in Int
    BY <1>4, CountAtType
  <1>6. /\ t \in Seq(Int) /\ Len(t) = Len(upper)
        /\ \A j \in 1..Len(upper) : t[j] = IF upper[j] <= b THEN CountAt(j) ELSE 0
    BY <1>4, <1>5
  <1> HIDE DEF t
  <1>7. \A j \in 1..Len(upper) : upper[j] <= b <=> j <= i
    BY <1>3, <1>4
  <1>8. Sum(t) = PartialSums(t)[i]
    <2>1. i \in 0..Len(t) /\ \A j \in (i + 1)..Len(t) : t[j] = 0
      BY <1>4, <1>6, <1>7
    <2> QED BY <1>6, <2>1, SumOfZeroTail
  <1>9. PartialSums(t)[i] = Sum(CountsUpTo(i))
    <2>1. i \in Nat /\ i <= Len(t) /\ \A j \in 1..i : t[j] = CountAt(j)
      BY <1>4, <1>6, <1>7
    <2> QED BY <1>6, <2>1, SumOfCounts
  <1> QED BY <1>2, <1>8, <1>9 DEF upper

-----------------------------------------------------------------------------
(* The tally *)

\* A finite bucket counts what has been read up to it.
LEMMA FiniteBucketTallies ==
    ASSUME TallyInv, FiniteBucket
    PROVE  Tallied' /\ Emitted'
  <1> DEFINE b == [le |-> Bounds[next], count |-> Sum(CountsUpTo(next))]
  <1>1. TypeOK /\ Tallied
    BY DEF TallyInv, HistogramInv
  <1>2. /\ histogram = <<>> /\ next \in DOMAIN Bounds
        /\ cumulative' = cumulative + CountAt(next)
        /\ buckets' = Append(buckets, [le |-> Bounds[next], count |-> cumulative'])
        /\ next' = next + 1 /\ UNCHANGED <<dist, histogram>>
    BY DEF FiniteBucket
  <1>3. Bounds \in Seq(Int) /\ buckets \in Seq(Bucket) /\ next \in Nat \ {0}
    BY <1>1, BoundsType DEF TypeOK
  <1>4. next <= Len(Bounds) /\ Len(Bounds) \in Nat /\ Len(buckets) = next - 1
    BY <1>1, <1>2, <1>3 DEF Tallied
  <1>5. cumulative' = Sum(CountsUpTo(next))
    BY <1>1, <1>2, <1>3, SumOfNextCount DEF Tallied
  <1>6. buckets' = Append(buckets, b)
    BY <1>2, <1>5
  <1>7. Bounds' = Bounds /\ \A n : CountsUpTo(n)' = CountsUpTo(n)
    BY <1>2 DEF Bounds, CountsUpTo, CountAt
  <1>8. \A n : Sum(CountsUpTo(n))' = Sum(CountsUpTo(n))
    BY <1>7
  <1>9. /\ Len(buckets') = next /\ DOMAIN buckets' = 1..next /\ DOMAIN buckets = 1..(next - 1)
        /\ buckets'[next] = b /\ \A i \in 1..(next - 1) : buckets'[i] = buckets[i]
    BY <1>3, <1>4, <1>6
  <1>10. \A i \in DOMAIN buckets' :
             buckets'[i] = [le |-> Bounds[i], count |-> Sum(CountsUpTo(i))]
    <2> SUFFICES ASSUME NEW i \in 1..next
                 PROVE  buckets'[i] = [le |-> Bounds[i], count |-> Sum(CountsUpTo(i))]
      BY <1>9
    <2>1. CASE i = next
      BY <1>9, <2>1
    <2>2. CASE i # next
      <3>1. i \in 1..(next - 1)
        BY <1>3, <2>2
      <3> QED BY <1>1, <1>9, <3>1 DEF Tallied
    <2> QED BY <2>1, <2>2
  <1>11. Tallied'
    <2>1. (next - 1)' = next
      BY <1>2, <1>3
    <2>2. cumulative' = Sum(CountsUpTo(next - 1))'
      BY <1>5, <1>8, <2>1
    <2>3. /\ next' <= Len(Bounds') => Len(buckets') = next' - 1
          /\ next' > Len(Bounds') => Len(buckets') = Len(Bounds')
      BY <1>2, <1>3, <1>4, <1>7, <1>9
    <2> QED BY <1>7, <1>8, <1>10, <2>2, <2>3 DEF Tallied
  <1>12. Emitted'
    BY <1>2 DEF Emitted, Range
  <1> QED BY <1>11, <1>12

\* A surplus count joins the tally and no bucket.
LEMMA SurplusCountTallies ==
    ASSUME TallyInv, SurplusCount
    PROVE  Tallied' /\ Emitted'
  <1>1. TypeOK /\ Tallied
    BY DEF TallyInv, HistogramInv
  <1>2. /\ histogram = <<>> /\ next > Len(Bounds)
        /\ cumulative' = cumulative + CountAt(next)
        /\ next' = next + 1 /\ UNCHANGED <<dist, buckets, histogram>>
    BY DEF SurplusCount
  <1>3. Bounds \in Seq(Int) /\ next \in Nat \ {0} /\ Len(Bounds) \in Nat
    BY <1>1, BoundsType DEF TypeOK
  <1>4. cumulative' = Sum(CountsUpTo(next))
    BY <1>1, <1>2, <1>3, SumOfNextCount DEF Tallied
  <1>5. Bounds' = Bounds /\ \A n : CountsUpTo(n)' = CountsUpTo(n)
    BY <1>2 DEF Bounds, CountsUpTo, CountAt
  <1>6. \A n : Sum(CountsUpTo(n))' = Sum(CountsUpTo(n))
    BY <1>5
  <1>7. Tallied'
    <2>1. (next - 1)' = next
      BY <1>2, <1>3
    <2>2. cumulative' = Sum(CountsUpTo(next - 1))'
      BY <1>4, <1>6, <2>1
    <2>3. /\ next' <= Len(Bounds') => Len(buckets') = next' - 1
          /\ next' > Len(Bounds') => Len(buckets') = Len(Bounds')
      BY <1>1, <1>2, <1>3, <1>5 DEF Tallied
    <2>4. \A i \in DOMAIN buckets' :
              buckets'[i] = [le |-> Bounds'[i], count |-> Sum(CountsUpTo(i))']
      BY <1>1, <1>2, <1>5, <1>6 DEF Tallied
    <2> QED BY <2>2, <2>3, <2>4 DEF Tallied
  <1>8. Emitted'
    BY <1>2 DEF Emitted, Range
  <1> QED BY <1>7, <1>8

\* The histogram is made of the tally.
LEMMA EmitTallies ==
    ASSUME TallyInv, Emit
    PROVE  Tallied' /\ Emitted'
  <1> DEFINE total == IF dist.count > cumulative THEN dist.count ELSE cumulative
             h == [buckets |-> buckets, inf |-> total, sampleCount |-> total,
                   sampleSum |-> dist.mean * dist.count]
  <1>1. /\ next > Len(Bounds) /\ next > Len(dist.counts)
        /\ histogram' = <<h>> /\ UNCHANGED <<dist, next, buckets, cumulative>>
    BY DEF Emit
  <1>2. h.buckets = buckets /\ h.sampleCount = total /\ h.sampleSum = dist.mean * dist.count
    OBVIOUS
  <1> HIDE DEF h
  <1>3. Bounds' = Bounds /\ \A n : CountsUpTo(n)' = CountsUpTo(n)
    BY <1>1 DEF Bounds, CountsUpTo, CountAt
  <1>4. Tallied'
    <2>1. \A n : Sum(CountsUpTo(n))' = Sum(CountsUpTo(n))
      BY <1>3
    <2> QED BY <1>1, <1>3, <2>1 DEF Tallied, TallyInv
  <1>5. Emitted'
    <2>1. Range(histogram') = {h}
      BY <1>1 DEF Range
    <2> QED BY <1>1, <1>2, <1>3, <2>1 DEF Emitted
  <1> QED BY <1>4, <1>5

\* The invariant with the tally in it holds throughout.
THEOREM TallyInvariant == Spec => []TallyInv
  <1>1. Init => TallyInv
    <2> SUFFICES ASSUME Init
                 PROVE  TallyInv
      OBVIOUS
    <2>1. HistogramInv /\ TypeOK
      BY HistogramInit DEF HistogramInv
    <2>2. next = 1 /\ next - 1 = 0 /\ buckets = <<>> /\ cumulative = 0 /\ histogram = <<>>
      BY DEF Init
    <2>3. Bounds \in Seq(Int)
      BY <2>1, BoundsType
    <2>4. cumulative = Sum(CountsUpTo(next - 1))
      BY <2>1, <2>2, SumOfNoCounts
    <2>5. Len(buckets) = 0 /\ DOMAIN buckets = {} /\ Range(histogram) = {}
      BY <2>2 DEF Range
    <2>6. Tallied
      BY <2>2, <2>3, <2>4, <2>5 DEF Tallied
    <2>7. Emitted
      BY <2>5 DEF Emitted
    <2> QED BY <2>1, <2>6, <2>7 DEF TallyInv
  <1>2. TallyInv /\ [Next]_vars => TallyInv'
    <2> SUFFICES ASSUME TallyInv, [Next]_vars
                 PROVE  TallyInv'
      OBVIOUS
    <2>1. HistogramInv'
      BY HistogramNext DEF TallyInv
    <2>2. CASE UNCHANGED vars
      <3>1. UNCHANGED <<dist, next, buckets, cumulative, histogram>>
        BY <2>2 DEF vars
      <3>2. Bounds' = Bounds /\ \A n : CountsUpTo(n)' = CountsUpTo(n)
        BY <3>1 DEF Bounds, CountsUpTo, CountAt
      <3>3. \A n : Sum(CountsUpTo(n))' = Sum(CountsUpTo(n))
        BY <3>2
      <3>4. Tallied' /\ Emitted'
        BY <3>1, <3>2, <3>3 DEF TallyInv, Tallied, Emitted
      <3> QED BY <2>1, <3>4 DEF TallyInv
    <2> QED BY <2>1, <2>2, FiniteBucketTallies, SurplusCountTallies, EmitTallies DEF Next, TallyInv
  <1> QED BY <1>1, <1>2, PTL DEF Spec

\* No sample of any distribution is lost or counted twice, whatever counts are
\* negative, missing or beyond the last bound.
THEOREM SamplesConservedHolds == Spec => []SamplesConserved
  <1>1. TallyInv => SamplesConserved
    <2> SUFFICES ASSUME TallyInv, NEW h \in Range(histogram)
                 PROVE  /\ h.sampleCount = IF dist.count > Counted THEN dist.count ELSE Counted
                        /\ dist.count = Counted => h.sampleSum = dist.mean * h.sampleCount
      BY DEF SamplesConserved
    <2>1. TypeOK /\ Tallied /\ Emitted
      BY DEF TallyInv, HistogramInv
    <2>2. /\ next > Len(dist.counts)
          /\ h.sampleCount = IF dist.count > cumulative THEN dist.count ELSE cumulative
          /\ h.sampleSum = dist.mean * dist.count
      BY <2>1 DEF Emitted
    <2>3. dist.counts \in Seq(Int) /\ next \in Nat \ {0} /\ dist.count \in Int
      BY <2>1, HistogramAssumption DEF TypeOK
    <2>4. next - 1 \in Nat /\ Len(dist.counts) <= next - 1
      BY <2>2, <2>3
    <2>5. cumulative = Counted
      BY <2>1, <2>4, SumOfAllCounts DEF Tallied
    <2> QED BY <2>2, <2>3, <2>5
  <1> QED BY <1>1, TallyInvariant, PTL

\* What a finished histogram says, bucket by bucket.
LEMMA FinishedBuckets ==
    ASSUME TallyInv, NEW h \in Range(histogram)
    PROVE  /\ h.buckets \in Seq(Bucket) /\ Len(h.buckets) = Len(Bounds)
           /\ DOMAIN h.buckets = 1..Len(Bounds) /\ Len(Bounds) \in Nat
           /\ \A i \in 1..Len(Bounds) : /\ h.buckets[i].le = Bounds[i]
                                       /\ h.buckets[i].count = Sum(CountsUpTo(i))
  <1>1. TypeOK /\ Tallied /\ Emitted
    BY DEF TallyInv, HistogramInv
  <1>2. h.buckets = buckets /\ next > Len(Bounds)
    BY <1>1 DEF Emitted
  <1>3. Len(buckets) = Len(Bounds) /\ buckets \in Seq(Bucket)
    BY <1>1, <1>2 DEF Tallied, TypeOK
  <1>4. DOMAIN buckets = 1..Len(Bounds) /\ Len(Bounds) \in Nat
    BY <1>3
  <1>5. \A i \in 1..Len(Bounds) : buckets[i] = [le |-> Bounds[i], count |-> Sum(CountsUpTo(i))]
    BY <1>1, <1>4 DEF Tallied
  <1> QED BY <1>2, <1>3, <1>4, <1>5

\* Every explicit layout is converted exactly.
THEOREM ExplicitExactHolds == Spec => []ExplicitExact
  <1>1. TallyInv => ExplicitExact
    <2> SUFFICES ASSUME TallyInv, NEW h \in Range(histogram), dist.layout.kind = "explicit",
                        Increasing(dist.layout.bounds)
                 PROVE  /\ [i \in DOMAIN h.buckets |-> h.buckets[i].le] = dist.layout.bounds
                        /\ ExactBuckets(h)
      BY DEF ExplicitExact
    <2>1. TypeOK
      BY DEF TallyInv, HistogramInv
    <2>2. Bounds = dist.layout.bounds /\ GcpUpperBounds(dist.layout) = dist.layout.bounds
      BY DEF Bounds, bucketBounds, GcpUpperBounds
    <2>3. Bounds \in Seq(Int)
      BY <2>1, BoundsType
    <2>4. /\ DOMAIN h.buckets = 1..Len(Bounds) /\ DOMAIN Bounds = 1..Len(Bounds)
          /\ \A i \in 1..Len(Bounds) : /\ h.buckets[i].le = Bounds[i]
                                      /\ h.buckets[i].count = Sum(CountsUpTo(i))
      BY <2>3, FinishedBuckets
    <2>5. [i \in DOMAIN h.buckets |-> h.buckets[i].le] = Bounds
      BY <2>3, <2>4
    <2>6. ASSUME NEW i \in 1..Len(Bounds)
          PROVE  h.buckets[i].count = CountedBelow(h.buckets[i].le)
      <3>1. CountedBelow(Bounds[i]) = Sum(CountsUpTo(i))
        BY <2>1, <2>2, <2>4, SumBelow
      <3> QED BY <2>4, <3>1
    <2> QED BY <2>2, <2>4, <2>5, <2>6 DEF ExactBuckets
  <1> QED BY <1>1, TallyInvariant, PTL

\* Every linear or exponential layout is converted one bucket off.
THEOREM OneBucketOffHolds == Spec => []OneBucketOff
  <1>1. TallyInv => OneBucketOff
    <2> DEFINE upper == GcpUpperBounds(dist.layout)
    <2> SUFFICES ASSUME TallyInv, NEW h \in Range(histogram), Increasing(upper),
                        dist.layout.kind \in {"linear", "exponential"},
                        NEW i \in DOMAIN h.buckets
                 PROVE  /\ i \in DOMAIN upper /\ i + 1 \in DOMAIN upper
                        /\ h.buckets[i].le = upper[i + 1]
                        /\ h.buckets[i].count = CountedBelow(upper[i])
      BY DEF OneBucketOff
    <2>1. TypeOK
      BY DEF TallyInv, HistogramInv
    <2>2. /\ i \in 1..Len(Bounds) /\ Len(Bounds) \in Nat
          /\ h.buckets[i].le = Bounds[i] /\ h.buckets[i].count = Sum(CountsUpTo(i))
      BY FinishedBuckets
    <2>3. i \in DOMAIN upper /\ i + 1 \in DOMAIN upper /\ Bounds[i] = upper[i + 1]
      <3>1. dist.layout.num \in Int /\ (i + 1) - 1 = i
        <4>1. dist.layout \in Layouts
          BY <2>1, HistogramAssumption DEF TypeOK
        <4>2. dist.layout.num \in Int
          BY <4>1 DEF Layouts
        <4> QED BY <2>2, <4>2
      <3>2. CASE dist.layout.kind = "linear"
        <4>1. Bounds = [j \in 1..AtLeast0(dist.layout.num) |->
                           dist.layout.offset + dist.layout.width * j]
          BY <3>2 DEF Bounds, bucketBounds
        <4>2. upper = [j \in 1..(dist.layout.num + 1) |->
                          dist.layout.offset + dist.layout.width * (j - 1)]
          BY <3>2 DEF GcpUpperBounds
        <4> HIDE DEF upper
        <4>3. Len(Bounds) = AtLeast0(dist.layout.num) /\ i \in 1..dist.layout.num
          BY <2>2, <3>1, <4>1 DEF AtLeast0
        <4>4. i \in 1..(dist.layout.num + 1) /\ i + 1 \in 1..(dist.layout.num + 1)
          BY <3>1, <4>3
        <4> QED BY <2>2, <3>1, <4>1, <4>2, <4>3, <4>4
      <3>3. CASE dist.layout.kind = "exponential"
        <4>1. Bounds = [j \in 1..AtLeast0(dist.layout.num) |->
                           dist.layout.scale * dist.layout.growth^j]
          BY <3>3 DEF Bounds, bucketBounds
        <4>2. upper = [j \in 1..(dist.layout.num + 1) |->
                          dist.layout.scale * dist.layout.growth^(j - 1)]
          BY <3>3 DEF GcpUpperBounds
        <4> HIDE DEF upper
        <4>3. Len(Bounds) = AtLeast0(dist.layout.num) /\ i \in 1..dist.layout.num
          BY <2>2, <3>1, <4>1 DEF AtLeast0
        <4>4. i \in 1..(dist.layout.num + 1) /\ i + 1 \in 1..(dist.layout.num + 1)
          BY <3>1, <4>3
        <4> QED BY <2>2, <3>1, <4>1, <4>2, <4>3, <4>4
      <3> QED BY <3>2, <3>3
    <2>4. CountedBelow(upper[i]) = Sum(CountsUpTo(i))
      BY <2>1, <2>3, SumBelow
    <2> QED BY <2>2, <2>3, <2>4
  <1> QED BY <1>1, TallyInvariant, PTL
=============================================================================
