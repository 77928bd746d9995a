---------------------------- MODULE MCHistogram -----------------------------
(***************************************************************************)
(* Every layout with up to two finite buckets or two bounds, with up to    *)
(* four counts: none, some and all of the buckets of the layout (an        *)
(* explicit layout of two bounds has three, a linear one of two finite     *)
(* buckets has four), zero, negative and positive, and a total that is     *)
(* absent, smaller, equal or larger.  One explicit layout has bounds in    *)
(* the wrong order, for which only ExplicitExact promises nothing.         *)
(***************************************************************************)
EXTENDS Histogram, SequencesExt

MCLayouts ==
    {[kind |-> "none"]}
      \cup {[kind |-> "linear", num |-> n, width |-> 10, offset |-> o] :
                n \in -1..2, o \in {-10, 0}}
      \cup {[kind |-> "exponential", num |-> n, growth |-> 2, scale |-> 3] : n \in 0..2}
      \cup {[kind |-> "explicit", bounds |-> b] : b \in {<<>>, <<5>>, <<-5, 5>>, <<5, -5>>}}

MCDistributions ==
    [layout : MCLayouts, counts : BoundedSeq({-1, 0, 2}, 4), count : {0, 2, 5}, mean : {7}]

\* Distributions as the upstream documents them: no negative counts, no more
\* of them than the layout has buckets, and bounds that increase.
SoundDistributions ==
    {d \in [layout : MCLayouts, counts : BoundedSeq({0, 1, 2}, 4), count : {4}, mean : {7}] :
        /\ d.layout.kind \in {"linear", "exponential"} => d.layout.num > 0
        /\ d.layout.kind = "explicit" => Increasing(d.layout.bounds)
        /\ Len(d.counts) <= Len(GcpUpperBounds(d.layout)) + 1
        /\ Sum(d.counts) = d.count}
=============================================================================
