----------------------------- MODULE Histogram ------------------------------
(***************************************************************************)
(* buildHistogram (internal/collector/collector.go): one point of a Cloud  *)
(* Monitoring distribution becomes a Prometheus histogram.  Cloud          *)
(* Monitoring counts samples per bucket, Prometheus counts those at or     *)
(* below each upper bound.                                                 *)
(*                                                                         *)
(* Bounds, means and sums are integers here, floating point in the code.   *)
(* The sum of the counts stays far below 2^64 and is not wrapped.          *)
(***************************************************************************)
EXTENDS Integers, Sequences, Functions, SequenceFolds

CONSTANT Distributions   \* the distributions a point may hold

Layouts ==
    [kind : {"none"}]
      \cup [kind : {"linear"}, num : Int, width : Int, offset : Int]
      \cup [kind : {"exponential"}, num : Int, growth : Int, scale : Int]
      \cup [kind : {"explicit"}, bounds : Seq(Int)]

ASSUME HistogramAssumption ==
    Distributions \subseteq [layout : Layouts, counts : Seq(Int), count : Int, mean : Int]

VARIABLES dist,        \* the distribution
          next,        \* index of the bucket count to be read next
          buckets,     \* the finite buckets made so far
          cumulative,  \* the samples counted so far
          histogram    \* the result, a sequence of one histogram at the end

vars == <<dist, next, buckets, cumulative, histogram>>

Bucket == [le : Int, count : Nat]

TypeOK ==
    /\ dist \in Distributions
    /\ next \in Nat \ {0}
    /\ buckets \in Seq(Bucket)
    /\ cumulative \in Nat
    /\ histogram \in Seq([buckets : Seq(Bucket), inf : Nat, sampleCount : Nat, sampleSum : Int])

Init ==
    /\ dist \in Distributions
    /\ next = 1
    /\ buckets = <<>>
    /\ cumulative = 0
    /\ histogram = <<>>

-----------------------------------------------------------------------------

AtLeast0(n) == IF n < 0 THEN 0 ELSE n

\* Fault: the layouts without bounds of their own have one bound too few.
bucketBoundsShort(layout) ==
    CASE layout.kind = "linear" ->
             [i \in 1..AtLeast0(layout.num - 1) |-> layout.offset + layout.width * i]
      [] layout.kind = "exponential" ->
             [i \in 1..AtLeast0(layout.num - 1) |-> layout.scale * layout.growth^i]
      [] layout.kind = "explicit" -> SubSeq(layout.bounds, 2, Len(layout.bounds))
      [] OTHER -> <<>>

\* The finite upper bounds.  The code multiplies the growth factor up.
bucketBounds(layout) ==
    CASE layout.kind = "linear" ->
             [i \in 1..AtLeast0(layout.num) |-> layout.offset + layout.width * i]
      [] layout.kind = "exponential" ->
             [i \in 1..AtLeast0(layout.num) |-> layout.scale * layout.growth^i]
      [] layout.kind = "explicit" -> layout.bounds
      [] OTHER -> <<>>

ASSUME BoundsAssumption == \A d \in Distributions : bucketBounds(d.layout) \in Seq(Int)

Bounds == bucketBounds(dist.layout)

\* A bucket without a count is empty, and so is one with a negative count.
CountAt(i) == IF i \in DOMAIN dist.counts THEN AtLeast0(dist.counts[i]) ELSE 0

FiniteBucket ==
    /\ histogram = <<>>
    /\ next \in DOMAIN Bounds
    /\ cumulative' = cumulative + CountAt(next)
    /\ buckets' = Append(buckets, [le |-> Bounds[next], count |-> cumulative'])
    /\ next' = next + 1
    /\ UNCHANGED <<dist, histogram>>

\* Fault: counts beyond the last finite bound are dropped.
SurplusCountDropped ==
    /\ histogram = <<>>
    /\ next > Len(Bounds)
    /\ next \in DOMAIN dist.counts
    /\ next' = next + 1
    /\ UNCHANGED <<dist, buckets, cumulative, histogram>>

\* A count beyond the last finite bound goes to the +Inf bucket.
SurplusCount ==
    /\ histogram = <<>>
    /\ next > Len(Bounds)
    /\ next \in DOMAIN dist.counts
    /\ cumulative' = cumulative + CountAt(next)
    /\ next' = next + 1
    /\ UNCHANGED <<dist, buckets, histogram>>

\* Fault: the count of the distribution is always believed.
EmitBelievesCount ==
    /\ histogram = <<>>
    /\ next > Len(Bounds) /\ next > Len(dist.counts)
    /\ LET total == IF dist.count > 0 THEN dist.count ELSE cumulative
       IN  histogram' = <<[buckets |-> buckets, inf |-> total, sampleCount |-> total,
                           sampleSum |-> dist.mean * dist.count]>>
    /\ UNCHANGED <<dist, next, buckets, cumulative>>

\* The +Inf bucket holds all samples: those counted, or as many as the
\* distribution says there are if that is more.
Emit ==
    /\ histogram = <<>>
    /\ next > Len(Bounds) /\ next > Len(dist.counts)
    /\ LET total == IF dist.count > cumulative THEN dist.count ELSE cumulative
       IN  histogram' = <<[buckets |-> buckets, inf |-> total, sampleCount |-> total,
                           sampleSum |-> dist.mean * dist.count]>>
    /\ UNCHANGED <<dist, next, buckets, cumulative>>

Next == FiniteBucket \/ SurplusCount \/ Emit

Spec == Init /\ [][Next]_vars

-----------------------------------------------------------------------------
(* Properties *)

\* What Prometheus requires of a histogram: no bucket counts less than the
\* one before it, +Inf counts no less than any, and +Inf is the sample count,
\* whatever counts are negative, missing or too many.
WellFormed ==
    \A h \in Range(histogram) :
        /\ \A i, j \in DOMAIN h.buckets : i <= j => h.buckets[i].count <= h.buckets[j].count
        /\ \A i \in DOMAIN h.buckets : h.buckets[i].count <= h.inf
        /\ h.inf = h.sampleCount

\* Negative counts apart, the samples of a distribution.
Counted == Sum([i \in DOMAIN dist.counts |-> AtLeast0(dist.counts[i])])

\* No sample is dropped or counted twice, and of a distribution that agrees
\* with itself the mean can be read back from the histogram.
SamplesConserved ==
    \A h \in Range(histogram) :
        /\ h.sampleCount = IF dist.count > Counted THEN dist.count ELSE Counted
        /\ dist.count = Counted => h.sampleSum = dist.mean * h.sampleCount

\* The upper bounds of the buckets of a layout as Cloud Monitoring defines
\* them (google.api.Distribution.BucketOptions), the one of the underflow
\* bucket first; the overflow bucket has none.
GcpUpperBounds(layout) ==
    CASE layout.kind = "linear" ->
             [i \in 1..(layout.num + 1) |-> layout.offset + layout.width * (i - 1)]
      [] layout.kind = "exponential" ->
             [i \in 1..(layout.num + 1) |-> layout.scale * layout.growth^(i - 1)]
      [] layout.kind = "explicit" -> layout.bounds
      [] OTHER -> <<>>

ASSUME UpperBoundsAssumption ==
    \A d \in Distributions : GcpUpperBounds(d.layout) \in Seq(Int)

\* The samples that lie below bound b for certain.
CountedBelow(b) ==
    LET upper == GcpUpperBounds(dist.layout)
    IN  Sum([j \in DOMAIN upper |-> IF upper[j] <= b THEN CountAt(j) ELSE 0])

\* Cloud Monitoring requires it of the bounds of a distribution.
Increasing(bounds) == \A i, j \in DOMAIN bounds : i < j => bounds[i] < bounds[j]

ExactBuckets(h) == \A i \in DOMAIN h.buckets :
                       h.buckets[i].count = CountedBelow(h.buckets[i].le)

\* An explicit layout is converted exactly: its bounds are those of the
\* distribution, each with the samples below it.
ExplicitExact ==
    \A h \in Range(histogram) :
        dist.layout.kind = "explicit" /\ Increasing(dist.layout.bounds) =>
        /\ [i \in DOMAIN h.buckets |-> h.buckets[i].le] = dist.layout.bounds
        /\ ExactBuckets(h)

\* The comment on buildHistogram: the bounds are derived per the layout of the
\* distribution and its counts are summed up to them.
BucketsMatchLayout == \A h \in Range(histogram) : ExactBuckets(h)
=============================================================================
