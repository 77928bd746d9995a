-------------------------- MODULE CollectorProofs ---------------------------
(***************************************************************************)
(* Proofs about Collector, for any scrapes, metrics, rights, time series   *)
(* and cap: type correctness, the exact cap, one Prometheus type for all   *)
(* the series of a family, and a descriptor cache of definitive answers.   *)
(***************************************************************************)
EXTENDS Collector, SequenceFoldsProofs

Family == [key : FamilyKey, type : PromTypes, metrics : Seq(TimeSeries)]

\* What the family table of a scrape keeps: the series of a family have its
\* key, its type is the one of that key, and no two families share a key.
Sorted(fams) ==
    /\ \A i \in DOMAIN fams : \A j \in DOMAIN fams[i].metrics :
          /\ KeyOf(fams[i].metrics[j]) = fams[i].key
          /\ PromType(fams[i].metrics[j]) = fams[i].type
    /\ \A i \in DOMAIN fams : fams[i].metrics # <<>>
    /\ \A i, j \in DOMAIN fams : fams[i].key = fams[j].key => i = j

\* A table without families is sorted.
LEMMA EmptySorted == Sorted(<<>>)
BY DEF Sorted

\* The Prometheus type of a series is decided by the key of its family.
LEMMA KeyDecidesType ==
    ASSUME NEW x \in TimeSeries, NEW y \in TimeSeries, KeyOf(x) = KeyOf(y)
    PROVE  PromType(x) = PromType(y)
BY CollectorAssumption DEF KeyOf, PromType

\* A family that a series joins.
LEMMA JoinedFamily ==
    ASSUME NEW f \in Family, NEW x \in TimeSeries
    PROVE  LET g == [f EXCEPT !.metrics = Append(@, x)]
           IN  /\ g \in Family
               /\ g.key = f.key
               /\ g.type = f.type
               /\ g.metrics = Append(f.metrics, x)
BY DEF Family

\* A family that a series starts.
LEMMA NewFamily ==
    ASSUME NEW x \in TimeSeries
    PROVE  [key |-> KeyOf(x), type |-> PromType(x), metrics |-> <<x>>] \in Family
<1>1. KeyOf(x) \in FamilyKey
  BY CollectorAssumption DEF KeyOf, FamilyKey
<1>2. PromType(x) \in PromTypes
  <2>1. CASE x.value = "DISTRIBUTION"
    BY <2>1 DEF PromType, PromTypes
  <2>2. CASE x.value # "DISTRIBUTION" /\ x.kind = "CUMULATIVE"
    BY <2>2 DEF PromType, PromTypes
  <2>3. CASE x.value # "DISTRIBUTION" /\ x.kind # "CUMULATIVE"
    BY <2>3 DEF PromType, PromTypes
  <2>. QED BY <2>1, <2>2, <2>3
<1>3. <<x>> \in Seq(TimeSeries)
  OBVIOUS
<1>. QED BY <1>1, <1>2, <1>3 DEF Family

\* What AddToFamilies does to a sorted table, whichever way it goes.
LEMMA AddToFamiliesSorted ==
    ASSUME NEW fams \in Seq(Family), NEW x \in TimeSeries, Sorted(fams)
    PROVE  AddToFamilies(fams, x) \in Seq(Family) /\ Sorted(AddToFamilies(fams, x))
<1>0. \A i \in DOMAIN fams : fams[i] \in Family /\ fams[i].metrics \in Seq(TimeSeries)
  <2>. SUFFICES ASSUME NEW i \in DOMAIN fams
                PROVE  fams[i] \in Family /\ fams[i].metrics \in Seq(TimeSeries)
    OBVIOUS
  <2>1. fams[i] \in Family
    OBVIOUS
  <2>. QED BY <2>1 DEF Family
<1>1. CASE \E i \in DOMAIN fams : fams[i].key = KeyOf(x)
  <2>. DEFINE new == [i \in DOMAIN fams |->
                        IF fams[i].key = KeyOf(x)
                        THEN [fams[i] EXCEPT !.metrics = Append(@, x)]
                        ELSE fams[i]]
  <2>1. AddToFamilies(fams, x) = new
    BY <1>1 DEF AddToFamilies
  <2>2. \A i \in DOMAIN fams :
           /\ new[i] \in Family
           /\ new[i].key = fams[i].key
           /\ new[i].type = fams[i].type
           /\ fams[i].key = KeyOf(x) => new[i].metrics = Append(fams[i].metrics, x)
           /\ fams[i].key # KeyOf(x) => new[i].metrics = fams[i].metrics
    <3>. SUFFICES ASSUME NEW i \in DOMAIN fams
                  PROVE  /\ new[i] \in Family
                         /\ new[i].key = fams[i].key
                         /\ new[i].type = fams[i].type
                         /\ fams[i].key = KeyOf(x) => new[i].metrics = Append(fams[i].metrics, x)
                         /\ fams[i].key # KeyOf(x) => new[i].metrics = fams[i].metrics
      OBVIOUS
    <3>. QED BY <1>0, JoinedFamily
  <2>3. new \in Seq(Family)
    BY <2>2
  <2>4. ASSUME NEW i \in DOMAIN new, NEW j \in DOMAIN new[i].metrics
        PROVE  /\ KeyOf(new[i].metrics[j]) = new[i].key
               /\ PromType(new[i].metrics[j]) = new[i].type
    <3>1. i \in DOMAIN fams /\ fams[i].metrics \in Seq(TimeSeries)
      BY <1>0, <2>4
    <3>2. CASE fams[i].key = KeyOf(x)
      <4>1. new[i].metrics = Append(fams[i].metrics, x)
        BY <2>2, <2>4, <3>2
      <4>2. CASE j \in DOMAIN fams[i].metrics
        <5>1. new[i].metrics[j] = fams[i].metrics[j]
          BY <3>1, <4>1, <4>2
        <5>. QED BY <2>2, <2>4, <4>2, <5>1 DEF Sorted
      <4>3. CASE j \notin DOMAIN fams[i].metrics
        <5>1. new[i].metrics[j] = x
          BY <2>4, <3>1, <4>1, <4>3
        <5>2. 1 \in DOMAIN fams[i].metrics /\ fams[i].metrics[1] \in TimeSeries
          BY <2>4, <3>1 DEF Sorted
        <5>3. /\ KeyOf(fams[i].metrics[1]) = fams[i].key
              /\ PromType(fams[i].metrics[1]) = fams[i].type
          BY <2>4, <5>2 DEF Sorted
        <5>4. PromType(x) = fams[i].type
          BY <3>2, <5>2, <5>3, KeyDecidesType
        <5>. QED BY <2>2, <2>4, <3>2, <5>1, <5>4
      <4>. QED BY <4>2, <4>3
    <3>3. CASE fams[i].key # KeyOf(x)
      BY <2>2, <2>4, <3>3 DEF Sorted
    <3>. QED BY <3>2, <3>3
  <2>5. \A i \in DOMAIN new : new[i].metrics # <<>>
    <3>. SUFFICES ASSUME NEW i \in DOMAIN fams PROVE new[i].metrics # <<>>
      OBVIOUS
    <3>1. fams[i].metrics \in Seq(TimeSeries)
      BY <1>0
    <3>2. CASE fams[i].key = KeyOf(x)
      <4>1. Append(fams[i].metrics, x) # <<>>
        BY <3>1
      <4>. QED BY <2>2, <3>2, <4>1
    <3>3. CASE fams[i].key # KeyOf(x)
      BY <2>2, <3>3 DEF Sorted
    <3>. QED BY <3>2, <3>3
  <2>6. \A i, j \in DOMAIN new : new[i].key = new[j].key => i = j
    BY <2>2 DEF Sorted
  <2>. QED BY <2>1, <2>3, <2>4, <2>5, <2>6 DEF Sorted
<1>2. CASE ~ \E i \in DOMAIN fams : fams[i].key = KeyOf(x)
  <2>. DEFINE f == [key |-> KeyOf(x), type |-> PromType(x), metrics |-> <<x>>]
              new == Append(fams, f)
  <2>1. AddToFamilies(fams, x) = new
    BY <1>2 DEF AddToFamilies
  <2>2. f \in Family
    BY NewFamily
  <2>3. /\ f.key = KeyOf(x)
        /\ f.type = PromType(x)
        /\ f.metrics = <<x>>
    OBVIOUS
  <2>. HIDE DEF f
  <2>4. new \in Seq(Family)
    BY <2>2
  <2>5. DOMAIN fams = 1..Len(fams) /\ DOMAIN new = 1..(Len(fams) + 1) /\ new[Len(fams) + 1] = f
    BY <2>2
  <2>6. \A i \in DOMAIN new : i \notin DOMAIN fams => i = Len(fams) + 1 /\ new[i] = f
    <3>. SUFFICES ASSUME NEW i \in 1..(Len(fams) + 1), i \notin 1..Len(fams)
                  PROVE  i = Len(fams) + 1
      BY <2>5
    <3>. QED OBVIOUS
  <2>7. \A i \in DOMAIN fams : new[i] = fams[i]
    BY <2>2
  <2>8. \A i \in DOMAIN new : new[i] = f \/ (i \in DOMAIN fams /\ new[i] = fams[i])
    BY <2>6, <2>7
  <2>9. ASSUME NEW i \in DOMAIN new
        PROVE  /\ \A j \in DOMAIN new[i].metrics :
                     /\ KeyOf(new[i].metrics[j]) = new[i].key
                     /\ PromType(new[i].metrics[j]) = new[i].type
               /\ new[i].metrics # <<>>
    <3>1. CASE new[i] = f
      <4>1. new[i].metrics = <<x>> /\ new[i].key = KeyOf(x) /\ new[i].type = PromType(x)
        BY <2>3, <3>1
      <4>2. DOMAIN <<x>> = {1} /\ <<x>>[1] = x /\ <<x>> # <<>>
        OBVIOUS
      <4>. QED BY <4>1, <4>2
    <3>2. CASE i \in DOMAIN fams /\ new[i] = fams[i]
      BY <3>2 DEF Sorted
    <3>. QED BY <2>8, <2>9, <3>1, <3>2
  <2>10. ASSUME NEW i \in DOMAIN new, NEW j \in DOMAIN new, new[i].key = new[j].key
        PROVE  i = j
    <3>1. CASE i \in DOMAIN fams /\ j \in DOMAIN fams
      BY <2>7, <2>10, <3>1 DEF Sorted
    <3>2. CASE i \in DOMAIN fams /\ j \notin DOMAIN fams
      BY <1>2, <2>3, <2>6, <2>7, <2>10, <3>2
    <3>3. CASE i \notin DOMAIN fams /\ j \in DOMAIN fams
      BY <1>2, <2>3, <2>6, <2>7, <2>10, <3>3
    <3>4. CASE i \notin DOMAIN fams /\ j \notin DOMAIN fams
      BY <2>6, <2>10, <3>4
    <3>. QED BY <3>1, <3>2, <3>3, <3>4
  <2>. QED BY <2>1, <2>4, <2>9, <2>10 DEF Sorted
<1>. QED BY <1>1, <1>2

\* A table accounts for one more series when the series has joined it, or
\* cannot be converted.
LEMMA AccountForOneMore ==
    ASSUME NEW fams \in Seq(Family), NEW stream \in Seq(TimeSeries), NEW x \in TimeSeries,
           AccountFor(fams, stream)
    PROVE  AccountFor(IF Convertible(x) THEN AddToFamilies(fams, x) ELSE fams, Append(stream, x))
<1>. DEFINE Keys(f) == {f[i].key : i \in DOMAIN f}
            KeysOf(st) == {KeyOf(y) : y \in {z \in Elements(st) : Convertible(z)}}
            longer == Append(stream, x)
<1>1. /\ \A i \in DOMAIN fams : fams[i].metrics = Only(stream, Members(fams[i].key))
      /\ Keys(fams) = KeysOf(stream)
      /\ \A i, j \in DOMAIN fams : fams[i].key = fams[j].key => i = j
  BY DEF AccountFor
<1>2. Elements(longer) = Elements(stream) \cup {x}
  <2>1. /\ DOMAIN longer = 1..(Len(stream) + 1) /\ DOMAIN stream = 1..Len(stream)
        /\ Len(stream) \in Nat /\ longer[Len(stream) + 1] = x
        /\ \A j \in 1..Len(stream) : longer[j] = stream[j]
    OBVIOUS
  <2>. HIDE DEF longer
  <2>. QED BY <2>1 DEF Elements
<1>3. \A S : Only(longer, S) = IF x \in S THEN Append(Only(stream, S), x) ELSE Only(stream, S)
  BY OnlyOfAppend
<1>. HIDE DEF longer
<1>4. CASE ~Convertible(x)
  <2>1. KeysOf(longer) = KeysOf(stream)
    BY <1>2, <1>4
  <2>2. \A k : x \notin Members(k)
    BY <1>4 DEF Members
  <2>3. \A i \in DOMAIN fams : fams[i].metrics = Only(longer, Members(fams[i].key))
    BY <1>1, <1>3, <2>2
  <2>. QED BY <1>1, <1>4, <2>1, <2>3 DEF AccountFor, longer
<1>5. CASE Convertible(x) /\ \E i \in DOMAIN fams : fams[i].key = KeyOf(x)
  <2>. DEFINE new == AddToFamilies(fams, x)
  <2>1. /\ DOMAIN new = DOMAIN fams
        /\ \A i \in DOMAIN fams :
              new[i] = IF fams[i].key = KeyOf(x)
                       THEN [fams[i] EXCEPT !.metrics = Append(@, x)] ELSE fams[i]
    BY <1>5 DEF AddToFamilies
  <2>. HIDE DEF new
  <2>2. \A i \in DOMAIN fams :
           /\ new[i].key = fams[i].key
           /\ new[i].metrics = IF fams[i].key = KeyOf(x) THEN Append(fams[i].metrics, x)
                                                        ELSE fams[i].metrics
    <3>. SUFFICES ASSUME NEW i \in DOMAIN fams
                  PROVE  /\ new[i].key = fams[i].key
                         /\ new[i].metrics = IF fams[i].key = KeyOf(x)
                                             THEN Append(fams[i].metrics, x)
                                             ELSE fams[i].metrics
      OBVIOUS
    <3>. DEFINE g == [fams[i] EXCEPT !.metrics = Append(@, x)]
    <3>1. g.key = fams[i].key /\ g.metrics = Append(fams[i].metrics, x)
      <4>1. fams[i] \in Family
        OBVIOUS
      <4>. QED BY <4>1, JoinedFamily
    <3>2. new[i] = IF fams[i].key = KeyOf(x) THEN g ELSE fams[i]
      BY <2>1
    <3>. HIDE DEF g
    <3>. QED BY <3>1, <3>2
  <2>3. ASSUME NEW i \in DOMAIN fams
        PROVE  new[i].metrics = Only(longer, Members(new[i].key))
    <3>1. x \in Members(fams[i].key) <=> fams[i].key = KeyOf(x)
      BY <1>5 DEF Members
    <3>. QED BY <1>1, <1>3, <2>2, <3>1
  <2>4. Keys(new) = Keys(fams)
    BY <2>1, <2>2
  <2>5. KeysOf(longer) = KeysOf(stream) \cup {KeyOf(x)}
    BY <1>2, <1>5
  <2>6. KeyOf(x) \in Keys(fams)
    BY <1>5
  <2>7. Keys(new) = KeysOf(longer)
    BY <1>1, <2>4, <2>5, <2>6
  <2>8. \A i, j \in DOMAIN new : new[i].key = new[j].key => i = j
    BY <1>1, <2>1, <2>2
  <2>9. AccountFor(new, longer)
    BY <2>1, <2>3, <2>7, <2>8 DEF AccountFor
  <2>. QED BY <1>5, <2>9 DEF new, longer
<1>6. CASE Convertible(x) /\ ~ \E i \in DOMAIN fams : fams[i].key = KeyOf(x)
  <2>. DEFINE f == [key |-> KeyOf(x), type |-> PromType(x), metrics |-> <<x>>]
              new == Append(fams, f)
              k == Members(KeyOf(x))
  <2>1. AddToFamilies(fams, x) = new
    BY <1>6 DEF AddToFamilies
  <2>2. f \in Family /\ f.key = KeyOf(x) /\ f.metrics = <<x>>
    BY NewFamily
  <2>. HIDE DEF f
  <2>3. /\ DOMAIN new = 1..(Len(fams) + 1) /\ DOMAIN fams = 1..Len(fams) /\ Len(fams) \in Nat
        /\ new[Len(fams) + 1] = f
        /\ \A i \in 1..Len(fams) : new[i] = fams[i]
    BY <2>2
  <2>. HIDE DEF new
  <2>4. Only(longer, k) = <<x>>
    <3>1. \A j \in DOMAIN stream : stream[j] \notin k
      <4>. SUFFICES ASSUME NEW j \in DOMAIN stream, stream[j] \in k
                    PROVE  FALSE
        OBVIOUS
      <4>1. KeyOf(stream[j]) = KeyOf(x) /\ Convertible(stream[j]) /\ stream[j] \in Elements(stream)
        BY DEF Members, Elements
      <4>2. KeyOf(x) \in KeysOf(stream)
        BY <4>1
      <4>. QED BY <1>1, <1>6, <4>2
    <3>2. x \in k
      BY <1>6 DEF Members
    <3>. HIDE DEF k
    <3>3. Only(stream, k) = <<>>
      BY <3>1, OnlyOfNone
    <3>4. Only(longer, k) = Append(Only(stream, k), x)
      BY <1>3, <3>2
    <3>5. Append(<<>>, x) = <<x>>
      OBVIOUS
    <3>. QED BY <3>3, <3>4, <3>5
  <2>5. ASSUME NEW i \in DOMAIN new
        PROVE  new[i].metrics = Only(longer, Members(new[i].key))
    <3>1. CASE i = Len(fams) + 1
      BY <2>2, <2>3, <2>4, <3>1
    <3>2. CASE i # Len(fams) + 1
      <4>1. i \in DOMAIN fams /\ new[i] = fams[i]
        BY <2>3, <2>5, <3>2
      <4>2. x \notin Members(fams[i].key)
        BY <1>6, <4>1 DEF Members
      <4>. QED BY <1>1, <1>3, <4>1, <4>2
    <3>. QED BY <3>1, <3>2
  <2>6. Keys(new) = KeysOf(longer)
    <3>1. Keys(new) = Keys(fams) \cup {KeyOf(x)}
      BY <2>2, <2>3
    <3>2. KeysOf(longer) = KeysOf(stream) \cup {KeyOf(x)}
      BY <1>2, <1>6
    <3>. QED BY <1>1, <3>1, <3>2
  <2>7. ASSUME NEW i \in DOMAIN new, NEW j \in DOMAIN new, new[i].key = new[j].key
        PROVE  i = j
    <3>1. CASE i # Len(fams) + 1 /\ j # Len(fams) + 1
      <4>1. /\ i \in DOMAIN fams /\ new[i] = fams[i]
            /\ j \in DOMAIN fams /\ new[j] = fams[j]
        BY <2>3, <2>7, <3>1
      <4>. QED BY <1>1, <2>7, <4>1
    <3>2. CASE i = Len(fams) + 1 /\ j # Len(fams) + 1
      BY <1>6, <2>2, <2>3, <2>7, <3>2
    <3>3. CASE i # Len(fams) + 1 /\ j = Len(fams) + 1
      BY <1>6, <2>2, <2>3, <2>7, <3>3
    <3>. QED BY <3>1, <3>2, <3>3
  <2>8. AccountFor(new, longer)
    BY <2>5, <2>6, <2>7 DEF AccountFor
  <2>. QED BY <1>6, <2>1, <2>8 DEF longer
<1>. QED BY <1>4, <1>5, <1>6

\* No families account for no series.
LEMMA NothingAccounted == AccountFor(<<>>, <<>>)
BY DEF AccountFor, Elements

-----------------------------------------------------------------------------
(* The inductive invariant *)

AllSorted == \A s \in Scrapes : Sorted(families[s])

\* How many series a scrape has read, by where it is.
Counted ==
    \A s \in Scrapes :
        /\ at[s] \in {"idle", "lookup"} => seen[s] = <<>>
        /\ at[s] = "streaming" => Len(seen[s]) <= MaxSeries
        /\ at[s] # "done" => result[s] = "none"
        /\ result[s] = "families" => Len(seen[s]) <= MaxSeries
        /\ result[s] = "max_series" => Len(seen[s]) = MaxSeries + 1

CollectorInv == TypeOK /\ AllSorted /\ Counted /\ CachedOnlyIfAnswered

\* Most actions leave the families and the series alone.
LEMMA FamiliesKept ==
    ASSUME AllSorted, UNCHANGED families
    PROVE  AllSorted'
BY DEF AllSorted

\* The cache and its answers are touched by a definitive answer only.
LEMMA CacheKept ==
    ASSUME CachedOnlyIfAnswered, UNCHANGED <<descriptors, answers>>
    PROVE  CachedOnlyIfAnswered'
BY DEF CachedOnlyIfAnswered

\* A new series keeps the invariant: it is counted before anything else, and
\* joins the families only while the cap allows it.
LEMMA NextSeriesKeeps ==
    ASSUME CollectorInv, NEW s \in Scrapes, NEW x \in TimeSeries, NextSeries(s, x)
    PROVE  CollectorInv'
<1>. USE DEF CollectorInv
<1>. DEFINE fams == IF Convertible(x) THEN AddToFamilies(families[s], x) ELSE families[s]
<1>1. families \in [Scrapes -> Seq(Family)] /\ seen \in [Scrapes -> Seq(TimeSeries)]
  BY DEF TypeOK, Family
<1>2. fams \in Seq(Family) /\ Sorted(fams)
  <2>1. families[s] \in Seq(Family) /\ Sorted(families[s])
    BY <1>1 DEF AllSorted
  <2>2. CASE Convertible(x)
    BY <2>1, <2>2, AddToFamiliesSorted
  <2>3. CASE ~Convertible(x)
    BY <2>1, <2>3
  <2>. QED BY <2>2, <2>3
<1>3. families' = families \/ families' = [families EXCEPT ![s] = fams]
  BY DEF NextSeries
<1>. HIDE DEF fams
<1>4. families' \in [Scrapes -> Seq(Family)]
  BY <1>1, <1>2, <1>3
<1>5. AllSorted'
  BY <1>1, <1>2, <1>3 DEF AllSorted
<1>6. /\ seen' \in [Scrapes -> Seq(TimeSeries)]
      /\ seen' = [seen EXCEPT ![s] = Append(seen[s], x)]
      /\ Len(Append(seen[s], x)) = Len(seen[s]) + 1
      /\ Len(seen[s]) \in Nat
  BY <1>1 DEF NextSeries
<1>7. TypeOK'
  <2>1. /\ at' \in [Scrapes -> {"idle", "lookup", "streaming", "done"}]
        /\ result' \in [Scrapes -> {"none", "families", "max_series", "error"}]
        /\ UNCHANGED <<descriptors, metric, unit, overAt, answers>>
    BY DEF NextSeries, Returned, TypeOK
  <2>. QED BY <1>4, <1>6, <2>1 DEF TypeOK, Family
<1>8. Counted'
  <2>1. CASE Len(seen[s]) + 1 > MaxSeries
    <3>1. /\ at[s] = "streaming" /\ at' = [at EXCEPT ![s] = "done"]
          /\ result' = [result EXCEPT ![s] = "max_series"]
      BY <2>1 DEF NextSeries, Returned
    <3>. QED BY <1>1, <1>6, <2>1, <3>1, CollectorAssumption DEF Counted, TypeOK
  <2>2. CASE ~(Len(seen[s]) + 1 > MaxSeries)
    <3>1. at[s] = "streaming" /\ UNCHANGED <<at, result>>
      BY <2>2 DEF NextSeries
    <3>. QED BY <1>1, <1>6, <2>2, <3>1, CollectorAssumption DEF Counted, TypeOK
  <2>. QED BY <2>1, <2>2
<1>9. CachedOnlyIfAnswered'
  BY CacheKept DEF NextSeries
<1>. QED BY <1>5, <1>7, <1>8, <1>9

\* The three ways a lookup ends; only a definitive answer is counted, and
\* with it the cache is filled.
LEMMA LookupKeeps ==
    ASSUME CollectorInv, NEW s \in Scrapes, Lookup(s)
    PROVE  CollectorInv'
<1>. USE DEF CollectorInv
<1>1. PICK u \in Units : LookedUp(s, u)
  BY DEF Lookup, DescriptorFound, DescriptorRefused, LookupFails, Remember, Units
<1>2. AllSorted'
  BY <1>1, FamiliesKept DEF LookedUp
<1>3. Counted'
  BY <1>1, CollectorAssumption DEF LookedUp, Counted, TypeOK
<1>4. ASSUME NEW v \in Units, Remember(s, v)
      PROVE  TypeOK' /\ CachedOnlyIfAnswered'
  <2>2. /\ metric[s] \in Metrics
        /\ descriptors' = [descriptors EXCEPT ![metric[s]] = v]
        /\ answers' = [answers EXCEPT ![metric[s]] = answers[metric[s]] + 1]
    BY <1>4 DEF Remember, TypeOK
  <2>1. TypeOK'
    <3>1. answers' \in [Metrics -> Nat]
      BY <2>2 DEF TypeOK
    <3>2. descriptors' \in [Metrics -> Units \cup {"absent"}]
      BY <2>2 DEF TypeOK
    <3>3. /\ at' = [at EXCEPT ![s] = "streaming"]
          /\ unit' = [unit EXCEPT ![s] = v]
          /\ UNCHANGED <<metric, seen, families, overAt, result>>
      BY <1>4 DEF Remember, LookedUp
    <3>. QED BY <3>1, <3>2, <3>3 DEF TypeOK
  <2>3. v # "absent"
    BY <1>4 DEF Units
  <2>4. CachedOnlyIfAnswered'
    <3>. SUFFICES ASSUME NEW m \in Metrics
                  PROVE  descriptors'[m] = "absent" <=> answers'[m] = 0
      BY DEF CachedOnlyIfAnswered
    <3>1. CASE m = metric[s]
      <4>1. descriptors'[m] = v /\ answers'[m] = answers[m] + 1 /\ answers[m] \in Nat
        BY <2>2, <3>1 DEF TypeOK
      <4>. QED BY <2>3, <4>1
    <3>2. CASE m # metric[s]
      BY <2>2, <3>2 DEF CachedOnlyIfAnswered, TypeOK
    <3>. QED BY <3>1, <3>2
  <2>. QED BY <2>1, <2>4
<1>5. CASE LookupFails(s)
  <2>1. TypeOK'
    BY <1>5 DEF LookupFails, LookedUp, TypeOK, Units
  <2>2. CachedOnlyIfAnswered'
    BY <1>5, CacheKept DEF LookupFails
  <2>. QED BY <1>2, <1>3, <2>1, <2>2
<1>. QED BY <1>2, <1>3, <1>4, <1>5
         DEF Lookup, DescriptorFound, DescriptorRefused, Units

\* The invariant holds initially.
LEMMA CollectorInit == Init => CollectorInv
<1>. SUFFICES ASSUME Init PROVE CollectorInv
  OBVIOUS
<1>0. <<>> \in Seq(Family) /\ <<>> \in Seq(TimeSeries)
  OBVIOUS
<1>. USE DEF Init
<1>1. TypeOK
  <2>1. families \in [Scrapes -> Seq(Family)] /\ seen \in [Scrapes -> Seq(TimeSeries)]
    BY <1>0
  <2>. QED BY <2>1 DEF TypeOK, Units, Family
<1>2. AllSorted
  BY EmptySorted DEF AllSorted
<1>3. Counted
  <2>. SUFFICES ASSUME NEW s \in Scrapes
                PROVE  at[s] = "idle" /\ seen[s] = <<>> /\ result[s] = "none"
    BY DEF Counted
  <2>. QED OBVIOUS
<1>4. CachedOnlyIfAnswered
  BY DEF CachedOnlyIfAnswered
<1>. QED BY <1>1, <1>2, <1>3, <1>4 DEF CollectorInv

\* Every step of every scrape keeps the invariant.
LEMMA CollectorNext == CollectorInv /\ [Next]_vars => CollectorInv'
<1>. SUFFICES ASSUME CollectorInv, [Next]_vars PROVE CollectorInv'
  OBVIOUS
<1>. USE DEF CollectorInv
<1>1. ASSUME NEW s \in Scrapes, NEW m \in Metrics, Start(s, m)
      PROVE  CollectorInv'
  <2>1. TypeOK'
    <3>1. CASE descriptors[m] # "absent"
      <4>1. descriptors[m] \in Units
        BY <1>1, <3>1 DEF TypeOK
      <4>. QED BY <1>1, <3>1, <4>1 DEF Start, TypeOK
    <3>2. CASE descriptors[m] = "absent"
      BY <1>1, <3>2 DEF Start, TypeOK
    <3>. QED BY <3>1, <3>2
  <2>2. Counted'
    <3>1. seen[s] = <<>> /\ Len(seen[s]) = 0 /\ at[s] = "idle"
      BY <1>1 DEF Start, Counted
    <3>2. at' = [at EXCEPT ![s] = "streaming"] \/ at' = [at EXCEPT ![s] = "lookup"]
      BY <1>1 DEF Start
    <3>3. UNCHANGED <<seen, result>>
      BY <1>1 DEF Start
    <3>. QED BY <3>1, <3>2, <3>3, CollectorAssumption DEF Counted, TypeOK
  <2>. QED BY <1>1, <2>1, <2>2, FamiliesKept, CacheKept DEF Start
<1>2. ASSUME NEW s \in Scrapes, InvalidAggregation(s)
      PROVE  CollectorInv'
  <2>1. TypeOK'
    BY <1>2 DEF InvalidAggregation, TypeOK
  <2>2. Counted'
    BY <1>2 DEF InvalidAggregation, Counted, TypeOK
  <2>. QED BY <1>2, <2>1, <2>2, FamiliesKept, CacheKept DEF InvalidAggregation
<1>3. ASSUME NEW s \in Scrapes, Lookup(s)
      PROVE  CollectorInv'
  BY <1>3, LookupKeeps
<1>4. ASSUME NEW s \in Scrapes, NEW x \in TimeSeries, NextSeries(s, x)
      PROVE  CollectorInv'
  BY <1>4, NextSeriesKeeps
<1>5. ASSUME NEW s \in Scrapes, EndOfStream(s) \/ StreamFails(s)
      PROVE  CollectorInv'
  <2>1. /\ at[s] = "streaming" /\ at' = [at EXCEPT ![s] = "done"]
        /\ \/ result' = [result EXCEPT ![s] = "families"]
           \/ result' = [result EXCEPT ![s] = "error"]
        /\ UNCHANGED <<descriptors, metric, unit, seen, families, overAt, answers>>
    BY <1>5 DEF EndOfStream, StreamFails, Returned
  <2>2. TypeOK'
    BY <2>1 DEF TypeOK
  <2>3. Counted'
    BY <2>1 DEF Counted, TypeOK
  <2>. QED BY <2>1, <2>2, <2>3, FamiliesKept, CacheKept
<1>6. ASSUME NEW s \in Scrapes, ContextEnds(s)
      PROVE  CollectorInv'
  <2>1. TypeOK'
    BY <1>6 DEF ContextEnds, TypeOK
  <2>2. Counted'
    BY <1>6 DEF ContextEnds, Counted
  <2>. QED BY <1>6, <2>1, <2>2, FamiliesKept, CacheKept DEF ContextEnds
<1>7. ASSUME NEW s \in Scrapes, NextScrape(s)
      PROVE  CollectorInv'
  <2>1. TypeOK'
    <3>1. /\ at' \in [Scrapes -> {"idle", "lookup", "streaming", "done"}]
          /\ unit' \in [Scrapes -> Units]
          /\ overAt' \in [Scrapes -> {"live", "lookup", "streaming"}]
          /\ result' \in [Scrapes -> {"none", "families", "max_series", "error"}]
      BY <1>7 DEF NextScrape, TypeOK, Units
    <3>2. seen' \in [Scrapes -> Seq(TimeSeries)]
      <4>1. seen \in [Scrapes -> Seq(TimeSeries)] /\ <<>> \in Seq(TimeSeries)
        BY DEF TypeOK
      <4>. QED BY <1>7, <4>1 DEF NextScrape
    <3>3. families' \in [Scrapes -> Seq(Family)]
      <4>1. families \in [Scrapes -> Seq(Family)]
        BY DEF TypeOK, Family
      <4>2. <<>> \in Seq(Family)
        OBVIOUS
      <4>. QED BY <1>7, <4>1, <4>2 DEF NextScrape
    <3>4. UNCHANGED <<descriptors, metric, answers>>
      BY <1>7 DEF NextScrape
    <3>. QED BY <3>1, <3>2, <3>3, <3>4 DEF TypeOK, Family
  <2>2. Counted'
    BY <1>7 DEF NextScrape, Counted, TypeOK
  <2>3. AllSorted'
    BY <1>7, EmptySorted DEF NextScrape, AllSorted, TypeOK
  <2>. QED BY <1>7, <2>1, <2>2, <2>3, CacheKept DEF NextScrape
<1>8. CASE UNCHANGED vars
  <2>1. TypeOK' /\ Counted'
    BY <1>8 DEF vars, TypeOK, Counted
  <2>. QED BY <1>8, <2>1, FamiliesKept, CacheKept DEF vars
<1>. QED BY <1>1, <1>2, <1>3, <1>4, <1>5, <1>6, <1>7, <1>8 DEF Next, Stream

\* The invariant holds throughout.
THEOREM CollectorInvariant == Spec => []CollectorInv
BY CollectorInit, CollectorNext, PTL DEF Spec

-----------------------------------------------------------------------------
(* The theorems *)

\* Type correctness of the collector and the descriptor cache.
THEOREM CollectorTypeCorrect == Spec => []TypeOK
BY CollectorInvariant, PTL DEF CollectorInv

\* Whatever the cap and the response: families come of at most MaxSeries
\* series, and "too many" is said at the first one beyond.
THEOREM CapExactHolds == Spec => []CapExact
<1>1. CollectorInv => CapExact
  BY DEF CollectorInv, Counted, CapExact
<1>. QED BY <1>1, CollectorInvariant, PTL

\* Whatever series the upstream mixes into a response, each is rendered as
\* the type of the family it was put in.
THEOREM OneTypePerFamilyHolds == Spec => []OneTypePerFamily
<1>1. CollectorInv => OneTypePerFamily
  BY DEF CollectorInv, AllSorted, Sorted, OneTypePerFamily
<1>. QED BY <1>1, CollectorInvariant, PTL

\* However many scrapes share the descriptor cache, and with whatever rights,
\* it remembers a metric if and only if somebody was definitively answered.
THEOREM CachedOnlyIfAnsweredHolds == Spec => []CachedOnlyIfAnswered
BY CollectorInvariant, PTL DEF CollectorInv

-----------------------------------------------------------------------------
(* The families account for the response *)

\* They do from the first series on, unless the scrape has failed.
Accounted ==
    \A s \in Scrapes : at[s] # "done" \/ result[s] = "families" =>
        AccountFor(families[s], seen[s])

\* A series that is read is accounted for in the same step.
LEMMA NextSeriesAccounts ==
    ASSUME CollectorInv, Accounted, NEW s \in Scrapes, NEW x \in TimeSeries, NextSeries(s, x)
    PROVE  Accounted'
<1>. DEFINE fams == IF Convertible(x) THEN AddToFamilies(families[s], x) ELSE families[s]
            longer == Append(seen[s], x)
<1>1. /\ families \in [Scrapes -> Seq(Family)] /\ seen \in [Scrapes -> Seq(TimeSeries)]
      /\ DOMAIN at = Scrapes /\ DOMAIN result = Scrapes
  BY DEF CollectorInv, TypeOK, Family
<1>2. at[s] = "streaming" /\ seen' = [seen EXCEPT ![s] = longer]
  BY DEF NextSeries
<1>3. AccountFor(fams, longer)
  <2>1. AccountFor(families[s], seen[s])
    BY <1>2 DEF Accounted
  <2>. QED BY <1>1, <2>1, AccountForOneMore
<1>4. CASE Len(seen[s]) + 1 > MaxSeries
  <2>1. /\ at' = [at EXCEPT ![s] = "done"] /\ result' = [result EXCEPT ![s] = "max_series"]
        /\ families' = families
    BY <1>4 DEF NextSeries, Returned
  <2>. HIDE DEF fams, longer
  <2>. QED BY <1>1, <1>2, <2>1 DEF Accounted
<1>5. CASE ~(Len(seen[s]) + 1 > MaxSeries)
  <2>1. families' = [families EXCEPT ![s] = fams] /\ UNCHANGED <<at, result>>
    BY <1>5 DEF NextSeries
  <2>. HIDE DEF fams, longer
  <2>. QED BY <1>1, <1>2, <1>3, <2>1 DEF Accounted
<1>. QED BY <1>4, <1>5

\* Other steps leave the families and the series of a scrape as they are, and
\* report them only if they account for each other, or start afresh.
LEMMA OthersAccount ==
    ASSUME CollectorInv, Accounted, NEW s \in Scrapes,
           \/ \E m \in Metrics : Start(s, m)
           \/ InvalidAggregation(s) \/ Lookup(s) \/ ContextEnds(s)
           \/ EndOfStream(s) \/ StreamFails(s) \/ NextScrape(s)
    PROVE  Accounted'
<1>1. DOMAIN at = Scrapes /\ DOMAIN result = Scrapes
      /\ DOMAIN families = Scrapes /\ DOMAIN seen = Scrapes
  BY DEF CollectorInv, TypeOK
<1>2. CASE NextScrape(s)
  <2>1. /\ families' = [families EXCEPT ![s] = <<>>] /\ seen' = [seen EXCEPT ![s] = <<>>]
        /\ at' = [at EXCEPT ![s] = "idle"] /\ result' = [result EXCEPT ![s] = "none"]
    BY <1>2 DEF NextScrape
  <2>. QED BY <1>1, <2>1, NothingAccounted DEF Accounted
<1>3. CASE InvalidAggregation(s) \/ StreamFails(s)
  <2>1. /\ at' = [at EXCEPT ![s] = "done"] /\ result' = [result EXCEPT ![s] = "error"]
        /\ UNCHANGED <<families, seen>>
    BY <1>3 DEF InvalidAggregation, StreamFails, Returned
  <2>. QED BY <1>1, <2>1 DEF Accounted
<1>4. CASE EndOfStream(s)
  <2>1. /\ at' = [at EXCEPT ![s] = "done"] /\ result' = [result EXCEPT ![s] = "families"]
        /\ UNCHANGED <<families, seen>> /\ at[s] = "streaming"
    BY <1>4 DEF EndOfStream, Returned
  <2>. QED BY <1>1, <2>1 DEF Accounted
<1>5. CASE (\E m \in Metrics : Start(s, m)) \/ Lookup(s) \/ ContextEnds(s)
  <2>1. /\ at' = at \/ at' = [at EXCEPT ![s] = "lookup"] \/ at' = [at EXCEPT ![s] = "streaming"]
        /\ UNCHANGED <<families, seen, result>> /\ at[s] # "done"
    BY <1>5 DEF Start, Lookup, DescriptorFound, DescriptorRefused, LookupFails, Remember,
                LookedUp, ContextEnds
  <2>. QED BY <1>1, <2>1 DEF Accounted
<1>. QED BY <1>2, <1>3, <1>4, <1>5

\* Whatever the upstream mixes into a response, the families that Collect
\* returns have each convertible series of it once, in the family of its key
\* and in the order of the response, and nothing else.
THEOREM FamiliesMatchStreamHolds == Spec => []FamiliesMatchStream
<1>. DEFINE AccountedInv == CollectorInv /\ Accounted
<1>1. Init => AccountedInv
  <2>. SUFFICES ASSUME Init PROVE AccountedInv
    OBVIOUS
  <2>1. CollectorInv
    BY CollectorInit
  <2>2. Accounted
    BY NothingAccounted DEF Init, Accounted
  <2>. QED BY <2>1, <2>2
<1>2. AccountedInv /\ [Next]_vars => AccountedInv'
  <2>. SUFFICES ASSUME CollectorInv, Accounted, [Next]_vars PROVE CollectorInv' /\ Accounted'
    OBVIOUS
  <2>1. CollectorInv'
    BY CollectorNext
  <2>2. CASE UNCHANGED vars
    <3>1. UNCHANGED <<at, result, families, seen>>
      BY <2>2 DEF vars
    <3>. QED BY <2>1, <3>1 DEF Accounted
  <2>3. ASSUME NEW s \in Scrapes, NEW x \in TimeSeries, NextSeries(s, x)
        PROVE  Accounted'
    BY <2>3, NextSeriesAccounts
  <2>4. ASSUME NEW s \in Scrapes,
               \/ \E m \in Metrics : Start(s, m)
               \/ InvalidAggregation(s) \/ Lookup(s) \/ ContextEnds(s)
               \/ EndOfStream(s) \/ StreamFails(s) \/ NextScrape(s)
        PROVE  Accounted'
    BY <2>4, OthersAccount
  <2>. QED BY <2>1, <2>2, <2>3, <2>4 DEF Next, Stream
<1>3. AccountedInv => FamiliesMatchStream
  BY DEF Accounted, FamiliesMatchStream
<1>. QED BY <1>1, <1>2, <1>3, PTL DEF Spec


\* The unit of m is known, and no scrape is looking it up.
UnitSettled(m) ==
    /\ descriptors[m] = "By"
    /\ \A s \in Scrapes : at[s] = "lookup" => metric[s] # m

\* The collect_unit_lost finding takes lookups that overlap: once a unit has
\* been learnt and no lookup of the metric is under way, it is remembered for
\* the life of the process, whatever accounts and refusals come later.
THEOREM SettledUnitStays ==
    Spec => [][\A m \in Metrics : UnitSettled(m) => UnitSettled(m)']_vars
<1>1. ASSUME TypeOK, [Next]_vars, NEW m \in Metrics, UnitSettled(m)
      PROVE  UnitSettled(m)'
  <2>1. ASSUME NEW s \in Scrapes, NEW k \in Metrics, Start(s, k)
        PROVE  UnitSettled(m)'
    <3>1. k = m => at'[s] = "streaming"
      BY <1>1, <2>1 DEF Start, UnitSettled, TypeOK
    <3>. QED BY <1>1, <2>1, <3>1 DEF Start, UnitSettled, TypeOK
  <2>2. ASSUME NEW s \in Scrapes, Lookup(s)
        PROVE  UnitSettled(m)'
    <3>1. metric[s] # m /\ metric' = metric /\ at' = [at EXCEPT ![s] = "streaming"]
      BY <1>1, <2>2 DEF Lookup, DescriptorFound, DescriptorRefused, Remember, LookupFails,
                        LookedUp, UnitSettled
    <3>2. descriptors'[m] = descriptors[m]
      BY <1>1, <2>2, <3>1 DEF Lookup, DescriptorFound, DescriptorRefused, Remember, LookupFails,
                              TypeOK
    <3>. QED BY <1>1, <3>1, <3>2 DEF UnitSettled, TypeOK
  <2>3. ASSUME NEW s \in Scrapes,
               \/ InvalidAggregation(s) \/ Stream(s) \/ ContextEnds(s) \/ NextScrape(s)
        PROVE  UnitSettled(m)'
    <3>1. /\ UNCHANGED <<descriptors, metric>>
          /\ \A t \in Scrapes : at'[t] = "lookup" => at[t] = "lookup"
      BY <1>1, <2>3 DEF InvalidAggregation, Stream, NextSeries, EndOfStream, StreamFails,
                        Returned, ContextEnds, NextScrape, TypeOK
    <3>. QED BY <1>1, <3>1 DEF UnitSettled
  <2>4. CASE UNCHANGED vars
    BY <1>1, <2>4 DEF vars, UnitSettled
  <2>. QED BY <1>1, <2>1, <2>2, <2>3, <2>4 DEF Next
<1>2. TypeOK /\ [Next]_vars => [\A m \in Metrics : UnitSettled(m) => UnitSettled(m)']_vars
  BY <1>1
<1>. QED BY <1>2, CollectorTypeCorrect, PTL DEF Spec

=============================================================================
