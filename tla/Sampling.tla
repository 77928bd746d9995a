------------------------------ MODULE Sampling ------------------------------
(***************************************************************************)
(* One time series, scraped over and over with emit_timestamps: the query  *)
(* window of buildRequest, the point Collect exports with its timestamp,   *)
(* and start_time_unix, as Prometheus stores them                          *)
(* (internal/collector/collector.go; README, "Getting correct DELTA        *)
(* values" and "Production notes").                                        *)
(*                                                                         *)
(* Cloud Monitoring takes a point every sample period, and shows it, in    *)
(* order, after an ingest delay.  With ALIGN_NONE it returns the points as *)
(* they are, here those of a counter; with another aligner one point per   *)
(* bucket of the alignment period, the buckets counted back from the end   *)
(* of the window, here a gauge, reduced to the points that fell in the     *)
(* bucket.  Time is in ticks, a fraction of a second each.                 *)
(***************************************************************************)
EXTENDS Integers, Sequences

CONSTANTS Period,       \* the metric's sample period
          MinDelay,     \* the ingest delay, at least
          MaxDelay,     \*   and at most
          Interval,     \* the interval parameter of the scrape
          Alignment,    \* its alignment_period parameter
          ScrapeEvery,  \* Prometheus waits no longer than this for a scrape
          Second,       \* ticks in a second
          MinUptime,    \* the server runs at least this long between restarts
          Horizon       \* bound: the time at which the model stops

ASSUME SamplingAssumption ==
    /\ {Period, Interval, Alignment, ScrapeEvery, Second, MinUptime} \subseteq Nat \ {0}
    /\ {MinDelay, MaxDelay, Horizon} \subseteq Nat
    /\ MinDelay <= MaxDelay

VARIABLES aligner,  \* the aligner parameter of the scrape
          now,      \* the clock
          start,    \* when the server was last restarted, its counter at 0
          points,   \* the points taken; the k-th ends at k * Period
          visible,  \* how many of them queries can see
          scraped,  \* when Prometheus scraped last
          stored    \* what it has stored

vars == <<aligner, now, start, points, visible, scraped, stored>>

Aligners == {"ALIGN_NONE", "ALIGN_MEAN"}
Point == [start : Nat, value : Nat]
Sample == [stamp : Nat, of : SUBSET Nat, series : Nat, value : Nat]

TypeOK ==
    /\ aligner \in Aligners
    /\ now \in Nat /\ start \in Nat /\ scraped \in Nat
    /\ points \in Seq(Point)
    /\ visible \in 0..Len(points)
    /\ stored \subseteq Sample

Init ==
    /\ aligner \in Aligners
    /\ now = 0 /\ start = 0 /\ scraped = 0
    /\ points = <<>>
    /\ visible = 0
    /\ stored = {}

EndOf(k) == k * Period

-----------------------------------------------------------------------------
(* The environment: the server, Cloud Monitoring, the clock *)

\* The value the counter had at the last point, 0 if it was restarted since.
LastValue ==
    IF points # <<>> /\ points[Len(points)].start = start
    THEN points[Len(points)].value
    ELSE 0

TakePoint ==
    /\ now = EndOf(Len(points) + 1)
    /\ \E value \in {LastValue, LastValue + 1} :
           points' = Append(points, [start |-> start, value |-> value])
    /\ UNCHANGED <<aligner, now, start, visible, scraped, stored>>

Restart ==
    /\ aligner = "ALIGN_NONE"
    /\ now - start >= MinUptime
    /\ start' = now
    /\ UNCHANGED <<aligner, now, points, visible, scraped, stored>>

Ingest ==
    /\ visible < Len(points)
    /\ EndOf(visible + 1) + MinDelay <= now
    /\ visible' = visible + 1
    /\ UNCHANGED <<aligner, now, start, points, scraped, stored>>

\* Time passes, but not past a point to be taken, a point to be shown or a
\* scrape to be made.
Tick ==
    /\ now < Horizon
    /\ now < EndOf(Len(points) + 1)
    /\ visible < Len(points) => now < EndOf(visible + 1) + MaxDelay
    /\ now < scraped + ScrapeEvery
    /\ now' = now + 1
    /\ UNCHANGED <<aligner, start, points, visible, scraped, stored>>

-----------------------------------------------------------------------------
(* Collect *)

\* Fault: the window ends at the present.
WindowEndUntruncated == now

\* Fault: the bucket the present falls in is left out, as still incomplete.
WindowEndComplete == now - (now % Alignment) - Alignment

\* end.Truncate(alignment)
WindowEnd == now - (now % Alignment)

InWindow(k) == WindowEnd - Interval < EndOf(k) /\ EndOf(k) <= WindowEnd

\* The points the query is answered with.
Queried == {k \in 1..visible : InWindow(k)}

\* The end of the bucket that point k falls in.
BucketEnd(k) ==
    IF aligner = "ALIGN_NONE" THEN EndOf(k)
    ELSE WindowEnd - ((WindowEnd - EndOf(k)) \div Alignment) * Alignment

\* Fault: the label is left out.
StartTimeUnixNone(k) == 0

StartTimeUnix(k) == points[k].start \div Second

\* points[0], the newest bucket that is not empty: k is its last point.
Exported(k) == [stamp  |-> BucketEnd(k),
                of     |-> {j \in Queried : BucketEnd(j) = BucketEnd(k)},
                series |-> IF aligner = "ALIGN_NONE" THEN StartTimeUnix(k) ELSE 0,
                value  |-> points[k].value]

\* Fault: the points are taken to come oldest first.
ScrapeOldest ==
    /\ scraped' = now
    /\ stored' = stored \cup {Exported(k) : k \in {j \in Queried : \A i \in Queried : j <= i}}
    /\ UNCHANGED <<aligner, now, start, points, visible>>

\* A scrape that finds no point stores nothing; a sample that is there
\* already is ignored.
Scrape ==
    /\ scraped' = now
    /\ stored' = stored \cup {Exported(k) : k \in {j \in Queried : \A i \in Queried : i <= j}}
    /\ UNCHANGED <<aligner, now, start, points, visible>>

Next == TakePoint \/ Restart \/ Ingest \/ Tick \/ Scrape

Spec == Init /\ [][Next]_vars

-----------------------------------------------------------------------------
(* Properties *)

\* What the README asks for under "Getting correct DELTA values": align to
\* the sample period, and query more than the ingest delay and one period.
Recommended == Alignment = Period /\ Interval > MaxDelay + Period

\* Each stored sample is exactly one point, at the time that point ended.
PointAtItsTime ==
    Recommended => \A s \in stored : \E k \in 1..visible :
                       s.of = {k} /\ s.stamp = EndOf(k) /\ s.value = points[k].value

\* At any moment a query reaches the newest point that can be seen, so that
\* a series never drops out of the answer while the server runs.
NewestInWindow == Recommended /\ visible > 0 => visible \in Queried

\* Prometheus refuses samples out of order: none is older than one stored
\* before.
InOrder ==
    [][Recommended => \A old \in stored, new \in stored' \ stored : new.stamp > old.stamp]_vars

\* Only the newest point is exported, so a point is lost when the next one
\* shows before a scrape.  It never does if scrapes are closer together than
\* two points can come.
ScrapesOftenEnough == ScrapeEvery + (MaxDelay - MinDelay) < Period

NoPointLost ==
    Recommended /\ ScrapesOftenEnough =>
        \A k \in 1..visible : k < visible => \E s \in stored : k \in s.of

\* A restart makes a new series instead of a counter that falls (README): in
\* one series later samples are no smaller, if restarts are a second apart.
CounterNeverFalls ==
    Recommended /\ MinUptime >= Second /\ aligner = "ALIGN_NONE" =>
        \A a, b \in stored : a.series = b.series /\ a.stamp <= b.stamp => a.value <= b.value
=============================================================================
