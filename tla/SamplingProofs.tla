--------------------------- MODULE SamplingProofs ---------------------------
(***************************************************************************)
(* What Prometheus stores of a series, for every sample period, delay,     *)
(* interval and schedule of scrapes, without a bound on time.              *)
(*                                                                         *)
(* The points come at a pace (Pace), which bounds how old the newest that  *)
(* can be seen is, so the window that the README recommends reaches it.    *)
(* Each sample stored is then the record of one point (StoredArePoints).   *)
(* The points carry one start per run of the server, and within a run      *)
(* values that do not fall (CounterRuns).  A point that has not been       *)
(* scraped has been seen for a short time only (NewestScraped).            *)
(***************************************************************************)
EXTENDS Sampling, TLAPS

Pace ==
    /\ EndOf(Len(points)) <= now
    /\ now <= EndOf(Len(points) + 1)
    /\ visible < Len(points) => now <= EndOf(visible + 1) + MaxDelay
    /\ scraped <= now
    /\ now <= scraped + ScrapeEvery

\* Two moments at which the server ran: the same run, or restarts apart.
RunsApart(s, t) == s = t \/ s + MinUptime <= t

CounterRuns ==
    /\ start <= now
    /\ \A i \in 1..Len(points) : RunsApart(points[i].start, start)
    /\ \A i, j \in 1..Len(points) : i <= j =>
           /\ RunsApart(points[i].start, points[j].start)
           /\ points[i].start = points[j].start => points[i].value <= points[j].value

\* The sample that point k becomes.
AsStored(k) == [stamp  |-> EndOf(k),
                of     |-> {k},
                series |-> IF aligner = "ALIGN_NONE" THEN StartTimeUnix(k) ELSE 0,
                value  |-> points[k].value]

StoredArePoints == Recommended => \A s \in stored : \E k \in 1..visible : s = AsStored(k)

Scraped(k) == \E s \in stored : k \in s.of

NewestScraped ==
    Recommended /\ ScrapesOftenEnough =>
        /\ \A k \in 1..visible : k < visible => Scraped(k)
        /\ visible > 0 /\ ~Scraped(visible) => scraped <= EndOf(visible) + MaxDelay

SamplingInv == TypeOK /\ Pace /\ CounterRuns /\ StoredArePoints /\ NewestScraped

-----------------------------------------------------------------------------
(* Time *)

\* The ends of successive points are a period apart.
LEMMA EndOfNext ==
    ASSUME NEW k \in Nat
    PROVE  EndOf(k) \in Nat /\ EndOf(k + 1) = EndOf(k) + Period
  <1>1. Period \in Nat
    BY SamplingAssumption
  <1> QED BY <1>1 DEF EndOf

\* Later points end later, by a period at least.
LEMMA EndOfMonotone ==
    ASSUME NEW i \in Nat, NEW j \in Nat
    PROVE  /\ i < j => EndOf(i) + Period <= EndOf(j)
           /\ i <= j => EndOf(i) <= EndOf(j)
  <1>1. Period \in Nat
    BY SamplingAssumption
  <1>2. ASSUME i < j
        PROVE  EndOf(i) + Period <= EndOf(j)
    <2> DEFINE d == j - i - 1
    <2>1. d \in Nat /\ j = i + 1 + d
      BY <1>2
    <2>2. d * Period \in Nat
      BY <1>1, <2>1
    <2> HIDE DEF d
    <2>3. (i + 1 + d) * Period = i * Period + Period + d * Period
      BY <1>1, <2>1
    <2>4. i * Period \in Nat
      BY <1>1
    <2> QED BY <1>1, <2>1, <2>2, <2>3, <2>4 DEF EndOf
  <1>3. EndOf(i) \in Nat /\ EndOf(j) \in Nat
    BY EndOfNext
  <1> QED BY <1>1, <1>2, <1>3

\* The window ends at a multiple of the alignment, less than one before now.
LEMMA WindowEnds ==
    ASSUME now \in Nat
    PROVE  /\ WindowEnd = (now \div Alignment) * Alignment
           /\ now \div Alignment \in Nat
           /\ WindowEnd \in Nat /\ WindowEnd <= now /\ now < WindowEnd + Alignment
  <1>1. Alignment \in Nat /\ Alignment > 0
    BY SamplingAssumption
  <1> DEFINE q == now \div Alignment
             r == now % Alignment
  <1>2. now = Alignment * q + r /\ r \in 0..(Alignment - 1) /\ q \in Nat
    BY <1>1
  <1> HIDE DEF q, r
  <1>3. Alignment * q = q * Alignment /\ Alignment * q \in Nat
    BY <1>1, <1>2
  <1>4. WindowEnd = now - r
    BY DEF WindowEnd, r
  <1>5. WindowEnd = q * Alignment /\ q \in Nat
    BY <1>1, <1>2, <1>3, <1>4
  <1>6. WindowEnd \in Nat /\ WindowEnd <= now /\ now < WindowEnd + Alignment
    BY <1>1, <1>2, <1>3, <1>4
  <1> QED BY <1>5, <1>6 DEF q

\* The end of the bucket of a point in the window is no earlier than it.
LEMMA BucketEndType ==
    ASSUME now \in Nat, NEW k \in Nat, InWindow(k)
    PROVE  BucketEnd(k) \in Nat
  <1>1. EndOf(k) \in Nat /\ WindowEnd \in Nat /\ EndOf(k) <= WindowEnd
    BY EndOfNext, WindowEnds DEF InWindow
  <1>2. Alignment \in Nat /\ Alignment > 0
    BY SamplingAssumption
  <1> DEFINE t == WindowEnd - EndOf(k)
             q == t \div Alignment
  <1>3. t \in Nat
    BY <1>1
  <1> HIDE DEF t
  <1>4. q \in Nat /\ t = Alignment * q + (t % Alignment) /\ t % Alignment \in 0..(Alignment - 1)
    BY <1>2, <1>3
  <1> HIDE DEF q
  <1>5. q * Alignment = Alignment * q /\ q * Alignment \in Nat
    BY <1>2, <1>4
  <1>6. q * Alignment <= t
    BY <1>2, <1>3, <1>4, <1>5
  <1>7. WindowEnd - q * Alignment \in Nat
    BY <1>1, <1>5, <1>6 DEF t
  <1> QED BY <1>1, <1>7 DEF BucketEnd, q, t

\* With alignment to the sample period a bucket ends where its point does.
LEMMA BucketIsPoint ==
    ASSUME now \in Nat, Recommended, NEW k \in Nat, EndOf(k) <= WindowEnd
    PROVE  BucketEnd(k) = EndOf(k)
  <1>1. Alignment \in Nat /\ Alignment > 0 /\ Alignment = Period
    BY SamplingAssumption DEF Recommended
  <1> DEFINE q == now \div Alignment
  <1>2. WindowEnd = q * Alignment /\ q \in Nat
    BY WindowEnds
  <1> HIDE DEF q
  <1>3. EndOf(k) = k * Alignment
    BY <1>1 DEF EndOf
  <1>4. WindowEnd - EndOf(k) = (q - k) * Alignment
    BY <1>1, <1>2, <1>3
  <1>5. ((q - k) * Alignment) \div Alignment = q - k
    BY <1>1, <1>2
  <1>6. WindowEnd - (q - k) * Alignment = EndOf(k)
    BY <1>1, <1>2, <1>3
  <1> QED BY <1>4, <1>5, <1>6 DEF BucketEnd

-----------------------------------------------------------------------------
(* The newest point *)

\* The recommended window reaches the newest point that can be seen.
LEMMA NewestReached ==
    ASSUME TypeOK, Pace, Recommended, visible > 0
    PROVE  visible \in Queried
  <1>1. /\ now \in Nat /\ visible \in Nat \ {0} /\ Len(points) \in Nat
        /\ visible <= Len(points)
    BY DEF TypeOK
  <1>2. /\ Alignment = Period /\ Period \in Nat \ {0}
        /\ MaxDelay \in Nat /\ Interval \in Nat /\ Interval > MaxDelay + Period
    BY SamplingAssumption DEF Recommended
  <1>3. /\ EndOf(visible) \in Nat /\ EndOf(visible + 1) = EndOf(visible) + Period
        /\ EndOf(visible) <= EndOf(Len(points))
        /\ EndOf(Len(points)) \in Nat
    BY <1>1, EndOfNext, EndOfMonotone
  <1>4. EndOf(visible) <= now
    BY <1>1, <1>3 DEF Pace
  <1> DEFINE q == now \div Alignment
  <1>5. /\ WindowEnd = q * Alignment /\ q \in Nat /\ WindowEnd \in Nat
        /\ WindowEnd <= now /\ now < WindowEnd + Alignment
    BY <1>1, WindowEnds
  <1> HIDE DEF q
  <1>6. EndOf(visible) <= WindowEnd
    <2>1. WindowEnd = EndOf(q)
      BY <1>2, <1>5 DEF EndOf
    <2>2. visible <= q
      <3>1. q < visible => EndOf(q) + Period <= EndOf(visible)
        BY <1>1, <1>5, EndOfMonotone
      <3> QED BY <1>1, <1>2, <1>3, <1>4, <1>5, <2>1, <3>1
    <2> QED BY <1>1, <1>5, <2>1, <2>2, EndOfMonotone
  <1>7. now <= EndOf(visible) + Period + MaxDelay
    <2>1. CASE visible < Len(points)
      BY <1>1, <1>2, <1>3, <2>1 DEF Pace
    <2>2. CASE visible = Len(points)
      BY <1>1, <1>2, <1>3, <2>2 DEF Pace
    <2> QED BY <1>1, <2>1, <2>2
  <1>8. WindowEnd - Interval < EndOf(visible)
    BY <1>1, <1>2, <1>3, <1>5, <1>7
  <1>9. visible \in 1..visible
    BY <1>1
  <1> QED BY <1>6, <1>8, <1>9 DEF Queried, InWindow

\* What a scrape exports is the newest point, and only it.
LEMMA ExportsNewest ==
    ASSUME TypeOK, Pace, Recommended,
           NEW k \in Queried, \A i \in Queried : i <= k
    PROVE  k = visible /\ k > 0 /\ Exported(k) = AsStored(k)
  <1>1. now \in Nat /\ visible \in Nat /\ k \in 1..visible
    BY DEF TypeOK, Queried
  <1>2. k = visible /\ k > 0
    <2>1. visible > 0
      BY <1>1
    <2>2. visible <= k
      BY <2>1, NewestReached
    <2> QED BY <1>1, <2>1, <2>2
  <1>3. ASSUME NEW j \in Queried
        PROVE  j \in Nat /\ BucketEnd(j) = EndOf(j)
    <2>1. j \in Nat /\ EndOf(j) <= WindowEnd
      BY <1>1, <1>3 DEF Queried, InWindow
    <2> QED BY <1>1, <2>1, BucketIsPoint
  <1>4. \A j \in Queried : EndOf(j) = EndOf(k) => j = k
    <2> SUFFICES ASSUME NEW j \in Queried, EndOf(j) = EndOf(k), j # k
                 PROVE  FALSE
      OBVIOUS
    <2>1. j \in Nat /\ k \in Nat /\ EndOf(j) \in Nat /\ EndOf(k) \in Nat
      BY <1>3, EndOfNext
    <2>2. j < k
      BY <2>1
    <2>3. EndOf(j) + Period <= EndOf(k) /\ Period \in Nat \ {0}
      BY <2>1, <2>2, EndOfMonotone, SamplingAssumption
    <2> QED BY <2>1, <2>3
  <1>5. {j \in Queried : BucketEnd(j) = BucketEnd(k)} = {k}
    BY <1>3, <1>4
  <1>6. Exported(k) = AsStored(k)
    BY <1>3, <1>5 DEF Exported, AsStored
  <1> QED BY <1>2, <1>6

-----------------------------------------------------------------------------
(* Types *)

\* What a scrape stores is a sample, recommended or not.
LEMMA ExportedType ==
    ASSUME TypeOK, NEW k \in Queried
    PROVE  Exported(k) \in Sample
  <1>1. now \in Nat /\ k \in 1..Len(points) /\ k \in Nat /\ InWindow(k)
    BY DEF TypeOK, Queried
  <1>2. points[k] \in Point
    BY <1>1 DEF TypeOK
  <1>3. points[k].start \in Nat /\ points[k].value \in Nat
    BY <1>2 DEF Point
  <1>4. Second \in Nat /\ Second > 0
    BY SamplingAssumption
  <1>5. StartTimeUnix(k) \in Nat
    BY <1>3, <1>4 DEF StartTimeUnix
  <1>6. BucketEnd(k) \in Nat
    BY <1>1, BucketEndType
  <1>7. {j \in Queried : BucketEnd(j) = BucketEnd(k)} \in SUBSET Nat
    BY DEF Queried, TypeOK
  <1> QED BY <1>3, <1>5, <1>6, <1>7 DEF Exported, Sample

\* A new point continues the counter of the run that it is taken in.
LEMMA LastValueType ==
    ASSUME TypeOK
    PROVE  LastValue \in Nat
  <1>1. CASE points # <<>> /\ points[Len(points)].start = start
    <2>1. Len(points) \in DOMAIN points
      BY <1>1 DEF TypeOK
    <2>2. points[Len(points)] \in Point
      BY <2>1 DEF TypeOK
    <2> QED BY <1>1, <2>2 DEF LastValue, Point
  <1>2. CASE ~(points # <<>> /\ points[Len(points)].start = start)
    BY <1>2 DEF LastValue
  <1> QED BY <1>1, <1>2

\* What TakePoint makes of the points.
LEMMA PointTaken ==
    ASSUME TypeOK, TakePoint
    PROVE  /\ points' \in Seq(Point)
           /\ Len(points') = Len(points) + 1 /\ Len(points) \in Nat
           /\ \A i \in 1..Len(points) : points'[i] = points[i]
           /\ points'[Len(points) + 1].start = start
           /\ points'[Len(points) + 1].value \in Nat
           /\ points'[Len(points) + 1].value >= LastValue
  <1>1. PICK value \in {LastValue, LastValue + 1} :
            points' = Append(points, [start |-> start, value |-> value])
    BY DEF TakePoint
  <1> DEFINE x == [start |-> start, value |-> value]
  <1>2. value \in Nat /\ value >= LastValue
    BY LastValueType
  <1>3. x \in Point /\ x.start = start /\ x.value = value /\ points \in Seq(Point)
    BY <1>2 DEF TypeOK, Point
  <1>4. points' = Append(points, x)
    BY <1>1
  <1> HIDE DEF x
  <1>5. /\ points' \in Seq(Point)
        /\ Len(points') = Len(points) + 1 /\ Len(points) \in Nat
        /\ \A i \in 1..Len(points) : points'[i] = points[i]
        /\ points'[Len(points) + 1] = x
    BY <1>3, <1>4
  <1> QED BY <1>2, <1>3, <1>5

\* Every step keeps the types.
LEMMA TypeNext ==
    ASSUME TypeOK, [Next]_vars
    PROVE  TypeOK'
  <1>1. CASE TakePoint
    <2>1. points' \in Seq(Point) /\ Len(points') = Len(points) + 1 /\ Len(points) \in Nat
      BY <1>1, PointTaken
    <2>2. UNCHANGED <<aligner, now, start, visible, scraped, stored>>
      BY <1>1 DEF TakePoint
    <2> QED BY <2>1, <2>2 DEF TypeOK
  <1>2. CASE Restart \/ Ingest \/ Tick \/ UNCHANGED vars
    BY <1>2 DEF TypeOK, Restart, Ingest, Tick, vars
  <1>3. CASE Scrape
    <2>1. \A k \in Queried : Exported(k) \in Sample
      BY ExportedType
    <2>2. stored' \subseteq Sample
      BY <1>3, <2>1 DEF TypeOK, Scrape
    <2> QED BY <1>3, <2>2 DEF TypeOK, Scrape
  <1> QED BY <1>1, <1>2, <1>3 DEF Next

-----------------------------------------------------------------------------
(* The environment *)

\* Every step keeps the pace: no point, no show and no scrape is overdue.
LEMMA PaceNext ==
    ASSUME TypeOK, Pace, [Next]_vars
    PROVE  Pace'
  <1>1. /\ now \in Nat /\ visible \in Nat /\ Len(points) \in Nat /\ visible <= Len(points)
        /\ scraped \in Nat /\ MaxDelay \in Nat /\ Period \in Nat /\ ScrapeEvery \in Nat \ {0}
    BY SamplingAssumption DEF TypeOK
  <1>2. /\ EndOf(Len(points)) \in Nat
        /\ EndOf(Len(points) + 1) = EndOf(Len(points)) + Period
        /\ EndOf(Len(points) + 1 + 1) = EndOf(Len(points) + 1) + Period
        /\ EndOf(visible) \in Nat
        /\ EndOf(visible + 1) = EndOf(visible) + Period
        /\ EndOf(visible + 1 + 1) = EndOf(visible + 1) + Period
    BY <1>1, EndOfNext
  <1>3. CASE TakePoint
    <2>1. Len(points') = Len(points) + 1
      BY <1>3, PointTaken
    <2>2. now = EndOf(Len(points) + 1) /\ UNCHANGED <<now, visible, scraped>>
      BY <1>3 DEF TakePoint
    <2>3. now <= EndOf(visible + 1) + MaxDelay
      <3>1. CASE visible < Len(points)
        BY <3>1 DEF Pace
      <3>2. CASE visible = Len(points)
        BY <1>1, <1>2, <2>2, <3>2
      <3> QED BY <1>1, <3>1, <3>2
    <2> QED BY <1>1, <1>2, <2>1, <2>2, <2>3 DEF Pace
  <1>4. CASE Restart \/ UNCHANGED vars
    BY <1>4 DEF Pace, Restart, vars
  <1>5. CASE Ingest
    <2>1. visible < Len(points) /\ visible' = visible + 1 /\ UNCHANGED <<now, points, scraped>>
      BY <1>5 DEF Ingest
    <2> QED BY <1>1, <1>2, <2>1 DEF Pace
  <1>6. CASE Tick
    BY <1>1, <1>2, <1>6 DEF Pace, Tick
  <1>7. CASE Scrape
    BY <1>1, <1>7 DEF Pace, Scrape
  <1> QED BY <1>3, <1>4, <1>5, <1>6, <1>7 DEF Next

\* Every step keeps what is known of the counter.
LEMMA CounterRunsNext ==
    ASSUME TypeOK, CounterRuns, [Next]_vars
    PROVE  CounterRuns'
  <1>1. /\ now \in Nat /\ start \in Nat /\ Len(points) \in Nat /\ MinUptime \in Nat \ {0}
        /\ \A i \in 1..Len(points) : points[i] \in Point
    BY SamplingAssumption DEF TypeOK
  <1>2. \A i \in 1..Len(points) : points[i].start \in Nat /\ points[i].value \in Nat
    BY <1>1 DEF Point
  <1>3. CASE TakePoint
    <2> DEFINE n == Len(points) + 1
    <2>1. /\ Len(points') = n /\ n \in Nat
          /\ \A i \in 1..Len(points) : points'[i] = points[i]
          /\ points'[n].start = start
          /\ points'[n].value \in Nat /\ points'[n].value >= LastValue
      BY <1>3, PointTaken
    <2>2. UNCHANGED <<now, start>>
      BY <1>3 DEF TakePoint
    <2> HIDE DEF n
    <2>3. \A i \in 1..n : i \in 1..Len(points) \/ i = n
      BY <1>1 DEF n
    <2>4. \A i \in 1..n : RunsApart(points'[i].start, start)
      BY <1>1, <2>1, <2>3 DEF CounterRuns, RunsApart
    <2>5. ASSUME NEW i \in 1..Len(points), points[i].start = start
          PROVE  points[i].value <= LastValue
      <3>1. Len(points) \in 1..Len(points) /\ i <= Len(points)
        BY <1>1
      <3>2. /\ RunsApart(points[i].start, points[Len(points)].start)
            /\ RunsApart(points[Len(points)].start, start)
            /\ points[i].start = points[Len(points)].start
                 => points[i].value <= points[Len(points)].value
        BY <3>1 DEF CounterRuns
      <3>3. points[Len(points)].start \in Nat
        BY <1>2, <3>1
      <3>4. points[Len(points)].start = start
        BY <1>1, <2>5, <3>2, <3>3 DEF RunsApart
      <3>5. points # <<>>
        BY <3>1
      <3> QED BY <2>5, <3>2, <3>4, <3>5 DEF LastValue
    <2>6. ASSUME NEW i \in 1..n, NEW j \in 1..n, i <= j
          PROVE  /\ RunsApart(points'[i].start, points'[j].start)
                 /\ points'[i].start = points'[j].start => points'[i].value <= points'[j].value
      <3>1. CASE j = n /\ i # n
        <4>1. i \in 1..Len(points) /\ points'[i] = points[i] /\ points'[j].start = start
          BY <2>1, <2>3, <3>1
        <4>2. RunsApart(points'[i].start, points'[j].start)
          BY <4>1 DEF CounterRuns
        <4>3. ASSUME points'[i].start = points'[j].start
              PROVE  points'[i].value <= points'[j].value
          <5>1. points[i].value <= LastValue
            BY <2>5, <4>1, <4>3
          <5>2. LastValue \in Nat /\ points[i].value \in Nat
            BY <1>2, <4>1, LastValueType
          <5> QED BY <2>1, <3>1, <4>1, <5>1, <5>2
        <4> QED BY <4>2, <4>3
      <3>2. CASE j # n
        <4>1. i \in 1..Len(points) /\ j \in 1..Len(points)
          BY <1>1, <2>1, <2>6, <3>2 DEF n
        <4> QED BY <2>1, <2>6, <4>1 DEF CounterRuns
      <3>3. CASE i = n /\ j = n
        BY <2>1, <3>3 DEF RunsApart
      <3> QED BY <3>1, <3>2, <3>3
    <2> QED BY <2>1, <2>2, <2>4, <2>6 DEF CounterRuns
  <1>4. CASE Restart
    <2>1. now - start >= MinUptime /\ start' = now /\ UNCHANGED <<now, points>>
      BY <1>4 DEF Restart
    <2>2. \A i \in 1..Len(points) : RunsApart(points[i].start, start')
      BY <1>1, <1>2, <2>1 DEF CounterRuns, RunsApart
    <2> QED BY <1>1, <2>1, <2>2 DEF CounterRuns
  <1>5. CASE Tick
    <2>1. now' = now + 1 /\ UNCHANGED <<start, points>>
      BY <1>5 DEF Tick
    <2> QED BY <1>1, <2>1 DEF CounterRuns
  <1>6. CASE Ingest \/ Scrape \/ UNCHANGED vars
    BY <1>6 DEF Ingest, Scrape, vars, CounterRuns
  <1> QED BY <1>3, <1>4, <1>5, <1>6 DEF Next

-----------------------------------------------------------------------------
(* What is stored *)

\* As long as the points that can be seen are kept, so are their samples.
LEMMA AsStoredKept ==
    ASSUME TypeOK, NEW k \in 1..visible, aligner' = aligner,
           \A i \in 1..Len(points) : points'[i] = points[i]
    PROVE  AsStored(k)' = AsStored(k)
  <1>1. points'[k] = points[k]
    BY DEF TypeOK
  <1> QED BY <1>1 DEF AsStored, StartTimeUnix, EndOf

\* Every step keeps the points that there are.
LEMMA PointsKept ==
    ASSUME TypeOK, [Next]_vars
    PROVE  /\ aligner' = aligner
           /\ \A i \in 1..Len(points) : points'[i] = points[i]
           /\ visible \in Nat /\ visible' \in Nat /\ visible <= visible'
  <1>1. visible \in Nat
    BY DEF TypeOK
  <1>2. CASE TakePoint
    BY <1>1, <1>2, PointTaken DEF TakePoint
  <1>3. CASE Restart \/ Ingest \/ Tick \/ Scrape \/ UNCHANGED vars
    BY <1>1, <1>3 DEF Restart, Ingest, Tick, Scrape, vars
  <1> QED BY <1>2, <1>3 DEF Next

\* A step other than a scrape stores nothing; a scrape stores the newest point
\* if there is one.
LEMMA Stores ==
    ASSUME TypeOK, Pace, Recommended, [Next]_vars
    PROVE  \/ ~Scrape /\ stored' = stored
           \/ Scrape /\ visible = 0 /\ stored' = stored
           \/ Scrape /\ visible > 0 /\ stored' = stored \cup {AsStored(visible)}
  <1>1. CASE Scrape
    <2> DEFINE newest == {k \in Queried : \A i \in Queried : i <= k}
    <2>1. stored' = stored \cup {Exported(k) : k \in newest}
      BY <1>1 DEF Scrape
    <2>2. \A k \in newest : k = visible /\ k > 0 /\ Exported(k) = AsStored(k)
      BY ExportsNewest
    <2>3. visible \in Nat
      BY DEF TypeOK
    <2>4. CASE visible = 0
      <3>1. newest = {}
        BY <2>2, <2>4
      <3>2. stored' = stored
        BY <2>1, <3>1
      <3> QED BY <1>1, <2>4, <3>2
    <2>5. CASE visible > 0
      <3>1. visible \in newest
        <4>1. visible \in Queried
          BY <2>5, NewestReached
        <4>2. \A i \in Queried : i <= visible
          BY <2>3 DEF Queried
        <4> QED BY <4>1, <4>2
      <3>2. {Exported(k) : k \in newest} = {AsStored(visible)}
        BY <2>2, <3>1
      <3>3. stored' = stored \cup {AsStored(visible)}
        BY <2>1, <3>2
      <3> QED BY <1>1, <2>5, <3>3
    <2> QED BY <2>3, <2>4, <2>5
  <1>2. CASE ~Scrape
    <2>1. stored' = stored
      BY <1>2 DEF Next, TakePoint, Restart, Ingest, Tick, vars
    <2> QED BY <1>2, <2>1
  <1> QED BY <1>1, <1>2

\* Every sample that is stored stays the record of one point.
LEMMA StoredNext ==
    ASSUME TypeOK, Pace, StoredArePoints, Recommended, [Next]_vars
    PROVE  StoredArePoints'
  <1> SUFFICES ASSUME NEW s \in stored'
               PROVE  \E k \in 1..visible' : s = AsStored(k)'
    BY DEF StoredArePoints
  <1>1. /\ \A i \in 1..Len(points) : points'[i] = points[i]
        /\ aligner' = aligner
        /\ visible \in Nat /\ visible' \in Nat /\ visible <= visible'
    BY PointsKept
  <1>2. \E k \in 1..visible : s = AsStored(k)
    <2>1. CASE s \in stored
      BY <2>1 DEF StoredArePoints
    <2>2. CASE s \notin stored
      <3>1. visible > 0 /\ s = AsStored(visible)
        BY <2>2, Stores
      <3>2. visible \in 1..visible
        BY <1>1, <3>1
      <3> QED BY <3>1, <3>2
    <2> QED BY <2>1, <2>2
  <1>3. PICK k \in 1..visible : s = AsStored(k)
    BY <1>2
  <1>4. AsStored(k)' = AsStored(k)
    BY <1>1, AsStoredKept
  <1>5. k \in 1..visible'
    BY <1>1
  <1> QED BY <1>3, <1>4, <1>5

\* Every step keeps the scrapes ahead of the points.
LEMMA NewestScrapedNext ==
    ASSUME TypeOK, Pace, NewestScraped, Recommended, ScrapesOftenEnough, [Next]_vars
    PROVE  NewestScraped'
  <1> DEFINE Done(k) == \E s \in stored' : k \in s.of
  <1>1. /\ now \in Nat /\ scraped \in Nat /\ visible \in Nat /\ Len(points) \in Nat
        /\ visible <= Len(points)
        /\ {Period, MinDelay, MaxDelay, ScrapeEvery} \subseteq Nat
        /\ ScrapeEvery + (MaxDelay - MinDelay) < Period
        /\ scraped <= now /\ now <= scraped + ScrapeEvery
    BY SamplingAssumption DEF TypeOK, Pace, ScrapesOftenEnough
  <1>2. \A k : Scraped(k) => Done(k)
    BY Stores DEF Scraped
  <1>3. /\ \A k \in 1..visible : k < visible => Scraped(k)
        /\ visible > 0 /\ ~Scraped(visible) => scraped <= EndOf(visible) + MaxDelay
    BY DEF NewestScraped
  <1>4. /\ EndOf(visible) \in Nat
        /\ EndOf(visible + 1) = EndOf(visible) + Period
    BY <1>1, EndOfNext
  <1>5. SUFFICES /\ \A k \in 1..visible' : k < visible' => Done(k)
                 /\ visible' > 0 /\ ~Done(visible') => scraped' <= EndOf(visible') + MaxDelay
    BY DEF NewestScraped, Scraped, EndOf
  <1>6. CASE Ingest
    <2>1. /\ visible < Len(points) /\ EndOf(visible + 1) + MinDelay <= now
          /\ visible' = visible + 1 /\ UNCHANGED <<now, scraped, stored>>
      BY <1>6 DEF Ingest
    <2>2. visible > 0 => Scraped(visible)
      BY <1>1, <1>3, <1>4, <2>1
    <2>3. \A k \in 1..visible' : k < visible' => Scraped(k)
      BY <1>1, <1>3, <2>1, <2>2
    <2>4. scraped' <= EndOf(visible') + MaxDelay
      <3>1. now <= EndOf(visible + 1) + MaxDelay
        BY <2>1 DEF Pace
      <3> QED BY <1>1, <1>4, <2>1, <3>1
    <2> HIDE DEF Done
    <2> QED BY <1>2, <2>3, <2>4
  <1>7. CASE Scrape
    <2>1. visible' = visible
      BY <1>7 DEF Scrape
    <2>2. visible > 0 => Done(visible)
      <3>1. visible > 0 => AsStored(visible) \in stored'
        BY <1>7, Stores
      <3>2. visible \in AsStored(visible).of
        BY DEF AsStored
      <3> QED BY <3>1, <3>2
    <2> HIDE DEF Done
    <2> QED BY <1>2, <1>3, <2>1, <2>2
  <1>8. CASE TakePoint \/ Restart \/ Tick \/ UNCHANGED vars
    <2>1. UNCHANGED <<visible, scraped>>
      BY <1>8 DEF TakePoint, Restart, Tick, vars
    <2> HIDE DEF Done
    <2> QED BY <1>2, <1>3, <2>1
  <1> QED BY <1>6, <1>7, <1>8 DEF Next

-----------------------------------------------------------------------------
(* The inductive invariant *)

\* The inductive invariant holds initially.
LEMMA SamplingInit == Init => SamplingInv
  <1> SUFFICES ASSUME Init
               PROVE  SamplingInv
    OBVIOUS
  <1>1. <<>> \in Seq(Point) /\ Len(points) = 0
    BY DEF Init
  <1>2. TypeOK
    BY <1>1 DEF Init, TypeOK, Aligners
  <1>3. Pace
    <2>1. EndOf(0) = 0 /\ EndOf(1) \in Nat /\ ScrapeEvery \in Nat
      BY SamplingAssumption DEF EndOf
    <2> QED BY <1>1, <2>1 DEF Init, Pace
  <1>4. CounterRuns
    BY <1>1 DEF Init, CounterRuns
  <1>5. StoredArePoints /\ NewestScraped
    BY DEF Init, StoredArePoints, NewestScraped
  <1> QED BY <1>2, <1>3, <1>4, <1>5 DEF SamplingInv

\* The inductive invariant is kept by every step.
LEMMA SamplingNext == SamplingInv /\ [Next]_vars => SamplingInv'
  <1> SUFFICES ASSUME SamplingInv, [Next]_vars
               PROVE  SamplingInv'
    OBVIOUS
  <1>1. TypeOK /\ Pace /\ CounterRuns /\ StoredArePoints /\ NewestScraped
    BY DEF SamplingInv
  <1>2. TypeOK' /\ Pace' /\ CounterRuns'
    BY <1>1, TypeNext, PaceNext, CounterRunsNext
  <1>3. StoredArePoints'
    BY <1>1, StoredNext DEF StoredArePoints
  <1>4. NewestScraped'
    BY <1>1, NewestScrapedNext DEF NewestScraped
  <1> QED BY <1>2, <1>3, <1>4 DEF SamplingInv

\* The inductive invariant holds throughout.
THEOREM SamplingInvariant == Spec => []SamplingInv
  BY SamplingInit, SamplingNext, PTL DEF Spec

-----------------------------------------------------------------------------
(* Results *)

\* Times, stamps and series are natural numbers, for every parameter of the
\* scrape.
THEOREM SamplingTypeCorrect == Spec => []TypeOK
  BY SamplingInvariant, PTL DEF SamplingInv

\* With the recommended parameters each stored sample is one point, at the
\* time the point ended.
THEOREM PointAtItsTimeHolds == Spec => []PointAtItsTime
  <1>1. ASSUME SamplingInv
        PROVE  PointAtItsTime
    <2> SUFFICES ASSUME Recommended, NEW s \in stored
                 PROVE  \E k \in 1..visible :
                            s.of = {k} /\ s.stamp = EndOf(k) /\ s.value = points[k].value
      BY DEF PointAtItsTime
    <2>1. PICK k \in 1..visible : s = AsStored(k)
      BY <1>1 DEF SamplingInv, StoredArePoints
    <2> QED BY <2>1 DEF AsStored
  <1> QED BY <1>1, SamplingInvariant, PTL

\* The recommended window always reaches the newest point.
THEOREM NewestInWindowHolds == Spec => []NewestInWindow
  <1>1. SamplingInv => NewestInWindow
    BY NewestReached DEF SamplingInv, NewestInWindow
  <1> QED BY <1>1, SamplingInvariant, PTL

\* Scrapes that are close enough together miss no point.
THEOREM NoPointLostHolds == Spec => []NoPointLost
  <1>1. SamplingInv => NoPointLost
    BY DEF SamplingInv, NewestScraped, Scraped, NoPointLost
  <1> QED BY <1>1, SamplingInvariant, PTL

\* A sample that is new is newer than all that are stored.
THEOREM InOrderHolds == Spec => InOrder
  <1>1. ASSUME SamplingInv, [Next]_vars
        PROVE  Recommended => \A old \in stored, new \in stored' \ stored : new.stamp > old.stamp
    <2> SUFFICES ASSUME Recommended, NEW old \in stored, NEW new \in stored' \ stored
                 PROVE  new.stamp > old.stamp
      OBVIOUS
    <2>1. TypeOK /\ Pace /\ StoredArePoints
      BY <1>1 DEF SamplingInv
    <2>2. visible \in Nat /\ visible > 0 /\ new = AsStored(visible)
      BY <1>1, <2>1, Stores DEF TypeOK
    <2>3. PICK k \in 1..visible : old = AsStored(k)
      BY <2>1 DEF StoredArePoints
    <2>4. k < visible
      BY <2>2, <2>3
    <2>5. EndOf(k) + Period <= EndOf(visible) /\ EndOf(k) \in Nat /\ EndOf(visible) \in Nat
      BY <2>2, <2>4, EndOfMonotone, EndOfNext
    <2>6. new.stamp = EndOf(visible) /\ old.stamp = EndOf(k)
      BY <2>2, <2>3 DEF AsStored
    <2> QED BY <2>5, <2>6, SamplingAssumption
  <1> QED BY <1>1, SamplingInvariant, PTL DEF Spec, InOrder

\* Runs of the server that are a second apart have different series, and in
\* one run the counter does not fall.
THEOREM CounterNeverFallsHolds == Spec => []CounterNeverFalls
  <1>1. ASSUME SamplingInv
        PROVE  CounterNeverFalls
    <2> SUFFICES ASSUME Recommended, MinUptime >= Second, aligner = "ALIGN_NONE",
                        NEW a \in stored, NEW b \in stored,
                        a.series = b.series, a.stamp <= b.stamp
                 PROVE  a.value <= b.value
      BY DEF CounterNeverFalls
    <2>1. TypeOK /\ StoredArePoints /\ CounterRuns
      BY <1>1 DEF SamplingInv
    <2>2. PICK i \in 1..visible : a = AsStored(i)
      BY <2>1 DEF StoredArePoints
    <2>3. PICK j \in 1..visible : b = AsStored(j)
      BY <2>1 DEF StoredArePoints
    <2>4. /\ EndOf(i) <= EndOf(j)
          /\ points[i].start \div Second = points[j].start \div Second
          /\ a.value = points[i].value /\ b.value = points[j].value
      BY <2>2, <2>3 DEF AsStored, StartTimeUnix
    <2>5. i \in 1..Len(points) /\ j \in 1..Len(points) /\ i \in Nat /\ j \in Nat
      BY <2>1 DEF TypeOK
    <2>6. i <= j
      <3>1. j < i => EndOf(j) + Period <= EndOf(i)
        BY <2>5, EndOfMonotone
      <3>2. EndOf(i) \in Nat /\ EndOf(j) \in Nat /\ Period \in Nat \ {0}
        BY <2>5, EndOfNext, SamplingAssumption
      <3> QED BY <2>4, <2>5, <3>1, <3>2
    <2>7. points[i] \in Point /\ points[j] \in Point
      BY <2>1, <2>5 DEF TypeOK
    <2>8. points[i].start \in Nat /\ points[j].start \in Nat
      BY <2>7 DEF Point
    <2>9. points[i].start = points[j].start
      <3> DEFINE p == points[i].start
                 q == points[j].start
      <3>1. p = q \/ p + MinUptime <= q
        BY <2>1, <2>5, <2>6 DEF CounterRuns, RunsApart
      <3>2. /\ Second \in Nat /\ Second > 0 /\ MinUptime \in Nat /\ p \in Nat /\ q \in Nat
            /\ p \div Second = q \div Second
        BY <2>4, <2>8, SamplingAssumption
      <3> HIDE DEF p, q
      <3>3. /\ p = Second * (p \div Second) + (p % Second) /\ p % Second \in 0..(Second - 1)
            /\ q = Second * (q \div Second) + (q % Second) /\ q % Second \in 0..(Second - 1)
        BY <3>2
      <3>4. Second * (p \div Second) \in Nat
        BY <3>2
      <3>5. q < p + Second
        BY <3>2, <3>3, <3>4
      <3> QED BY <3>1, <3>2, <3>5 DEF p, q
    <2>10. points[i].value <= points[j].value
      BY <2>1, <2>5, <2>6, <2>9 DEF CounterRuns
    <2> QED BY <2>4, <2>10
  <1> QED BY <1>1, SamplingInvariant, PTL
=============================================================================
