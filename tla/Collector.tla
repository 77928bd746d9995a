----------------------------- MODULE Collector ------------------------------
(***************************************************************************)
(* GCPCollector.Collect (internal/collector/collector.go), run by several  *)
(* scrapes at a time over the one DescriptorCache they share               *)
(* (internal/collector/descriptor.go).  A scrape looks up the unit of its  *)
(* metric, then reads the time series of the response one by one and sorts *)
(* them into metric families.                                              *)
(*                                                                         *)
(* A time series is reduced to what the loop tells apart: its metric kind, *)
(* its value type and whether it has a point that can be exported.  All    *)
(* series of a scrape have the metric type it asked for, hence one         *)
(* Prometheus name.                                                        *)
(***************************************************************************)
EXTENDS Naturals, Sequences, SequenceFolds

CONSTANTS Scrapes,     \* goroutines inside Collect
          Metrics,     \* the (project, metric type) pairs they ask for
          MayRead,     \* scrapes whose account may be given metric descriptors
          TimeSeries,  \* the kinds of time series the upstream may return
          MaxSeries    \* the series cap

Kinds == {"GAUGE", "DELTA", "CUMULATIVE", "UNSPECIFIED"}
ValueTypes == {"INT64", "DOUBLE", "DISTRIBUTION", "STRING"}
PromTypes == {"GAUGE", "COUNTER", "HISTOGRAM"}

ASSUME CollectorAssumption ==
    /\ MayRead \subseteq Scrapes
    /\ TimeSeries \subseteq [kind : Kinds, value : ValueTypes, points : BOOLEAN]
    /\ MaxSeries \in Nat \ {0}

VARIABLES descriptors,  \* the unit remembered for each metric, or "absent"
          at,           \* where each scrape is in Collect
          metric,       \* the metric it asks for
          unit,         \* what the lookup of its unit gave
          seen,         \* the series its iterator has returned
          families,     \* its families, in the order of their first series
          overAt,       \* where it was when its context ended, if it has
          result,       \* how Collect returned
          answers       \* history: definitive answers of GetMetricDescriptor

vars == <<descriptors, at, metric, unit, seen, families, overAt, result, answers>>

\* "By" is the unit the descriptor of every metric states; "" is no unit.
Units == {"By", ""}

FamilyKey == [kind : Kinds, value : ValueTypes]

TypeOK ==
    /\ descriptors \in [Metrics -> Units \cup {"absent"}]
    /\ at \in [Scrapes -> {"idle", "lookup", "streaming", "done"}]
    /\ metric \in [Scrapes -> Metrics]
    /\ unit \in [Scrapes -> Units]
    /\ seen \in [Scrapes -> Seq(TimeSeries)]
    /\ families \in [Scrapes -> Seq([key : FamilyKey, type : PromTypes, metrics : Seq(TimeSeries)])]
    /\ overAt \in [Scrapes -> {"live", "lookup", "streaming"}]
    /\ result \in [Scrapes -> {"none", "families", "max_series", "error"}]
    /\ answers \in [Metrics -> Nat]

Init ==
    /\ descriptors = [m \in Metrics |-> "absent"]
    /\ at = [s \in Scrapes |-> "idle"]
    /\ metric \in [Scrapes -> Metrics]
    /\ unit = [s \in Scrapes |-> ""]
    /\ seen = [s \in Scrapes |-> <<>>]
    /\ families = [s \in Scrapes |-> <<>>]
    /\ overAt = [s \in Scrapes |-> "live"]
    /\ result = [s \in Scrapes |-> "none"]
    /\ answers = [m \in Metrics |-> 0]

-----------------------------------------------------------------------------
(* convertSeries *)

\* Unsupported value types and kinds, and series without a usable point, are
\* skipped; a distribution is exported whatever its kind.
Convertible(x) ==
    /\ x.points
    /\ \/ x.value = "DISTRIBUTION"
       \/ x.value \in {"INT64", "DOUBLE"} /\ x.kind # "UNSPECIFIED"

PromType(x) ==
    CASE x.value = "DISTRIBUTION" -> "HISTOGRAM"
      [] x.value # "DISTRIBUTION" /\ x.kind = "CUMULATIVE" -> "COUNTER"
      [] OTHER -> "GAUGE"

KeyOf(x) == [kind |-> x.kind, value |-> x.value]

\* Fault: families are told apart by the metric kind alone.
AddToFamiliesByKind(fams, x) ==
    IF \E i \in DOMAIN fams : fams[i].key.kind = x.kind
    THEN [i \in DOMAIN fams |->
             IF fams[i].key.kind = x.kind
             THEN [fams[i] EXCEPT !.metrics = Append(@, x)]
             ELSE fams[i]]
    ELSE Append(fams, [key |-> KeyOf(x), type |-> PromType(x), metrics |-> <<x>>])

\* Fault: a family is keyed by the whole series.
AddToFamiliesWhole(fams, x) ==
    Append(fams, [key |-> x, type |-> PromType(x), metrics |-> <<x>>])

\* Fault: a series joins the first family whatever its key.
AddToFirstFamily(fams, x) ==
    IF fams # <<>>
    THEN [fams EXCEPT ![1].metrics = Append(@, x)]
    ELSE Append(fams, [key |-> KeyOf(x), type |-> PromType(x), metrics |-> <<x>>])

\* One converted series joins the family of its key, or starts it.
AddToFamilies(fams, x) ==
    IF \E i \in DOMAIN fams : fams[i].key = KeyOf(x)
    THEN [i \in DOMAIN fams |->
             IF fams[i].key = KeyOf(x)
             THEN [fams[i] EXCEPT !.metrics = Append(@, x)]
             ELSE fams[i]]
    ELSE Append(fams, [key |-> KeyOf(x), type |-> PromType(x), metrics |-> <<x>>])

-----------------------------------------------------------------------------
(* Collect *)

\* buildRequest has succeeded (a request with an unknown aligner or reducer
\* goes no further), the lazy iterator is made, and the cache is consulted.
Start(s, m) ==
    /\ at[s] = "idle"
    /\ metric' = [metric EXCEPT ![s] = m]
    /\ IF descriptors[m] # "absent"
       THEN /\ unit' = [unit EXCEPT ![s] = descriptors[m]]
            /\ at' = [at EXCEPT ![s] = "streaming"]
       ELSE /\ at' = [at EXCEPT ![s] = "lookup"]
            /\ UNCHANGED unit
    /\ UNCHANGED <<descriptors, seen, families, overAt, result, answers>>

InvalidAggregation(s) ==
    /\ at[s] = "idle"
    /\ at' = [at EXCEPT ![s] = "done"]
    /\ result' = [result EXCEPT ![s] = "error"]
    /\ UNCHANGED <<descriptors, metric, unit, seen, families, overAt, answers>>

\* The lookup gave u; the series come next.
LookedUp(s, u) ==
    /\ at[s] = "lookup"
    /\ unit' = [unit EXCEPT ![s] = u]
    /\ at' = [at EXCEPT ![s] = "streaming"]
    /\ UNCHANGED <<metric, seen, families, overAt, result>>

\* A definitive answer is stored, over whatever has been stored meanwhile.
Remember(s, u) ==
    /\ overAt[s] = "live"
    /\ LookedUp(s, u)
    /\ descriptors' = [descriptors EXCEPT ![metric[s]] = u]
    /\ answers' = [answers EXCEPT ![metric[s]] = @ + 1]

DescriptorFound(s) == s \in MayRead /\ Remember(s, "By")

\* PermissionDenied, or NotFound or Unimplemented, which any account may get.
DescriptorRefused(s) == Remember(s, "")

\* Fault: every failure of the lookup is cached.
LookupFailsForGood(s) ==
    /\ LookedUp(s, "")
    /\ descriptors' = [descriptors EXCEPT ![metric[s]] = ""]
    /\ UNCHANGED answers

\* Any other error, the end of the context included, is not remembered.
LookupFails(s) ==
    /\ LookedUp(s, "")
    /\ UNCHANGED <<descriptors, answers>>

Returned(s, how) ==
    /\ at' = [at EXCEPT ![s] = "done"]
    /\ result' = [result EXCEPT ![s] = how]

\* Fault: the cap is checked before the series is counted.
NextSeriesLate(s, x) ==
    /\ at[s] = "streaming"
    /\ seen' = [seen EXCEPT ![s] = Append(@, x)]
    /\ IF Len(seen[s]) > MaxSeries
       THEN /\ Returned(s, "max_series")
            /\ UNCHANGED families
       ELSE /\ families' = [families EXCEPT ![s] =
                              IF Convertible(x) THEN AddToFamilies(@, x) ELSE @]
            /\ UNCHANGED <<at, result>>
    /\ UNCHANGED <<descriptors, metric, unit, overAt, answers>>

\* One turn of the loop, for a series that the iterator returns.
NextSeries(s, x) ==
    /\ at[s] = "streaming"
    /\ seen' = [seen EXCEPT ![s] = Append(@, x)]
    /\ IF Len(seen[s]) + 1 > MaxSeries
       THEN /\ Returned(s, "max_series")
            /\ UNCHANGED families
       ELSE /\ families' = [families EXCEPT ![s] =
                              IF Convertible(x) THEN AddToFamilies(@, x) ELSE @]
            /\ UNCHANGED <<at, result>>
    /\ UNCHANGED <<descriptors, metric, unit, overAt, answers>>

EndOfStream(s) ==
    /\ at[s] = "streaming"
    /\ Returned(s, "families")
    /\ UNCHANGED <<descriptors, metric, unit, seen, families, overAt, answers>>

\* The upstream fails, or the context is over: Collect returns no families.
StreamFails(s) ==
    /\ at[s] = "streaming"
    /\ Returned(s, "error")
    /\ UNCHANGED <<descriptors, metric, unit, seen, families, overAt, answers>>

\* The deadline of the scrape passes during one of its two calls.  An answer
\* that is already there may still be read.
ContextEnds(s) ==
    /\ overAt[s] = "live"
    /\ at[s] \in {"lookup", "streaming"}
    /\ overAt' = [overAt EXCEPT ![s] = at[s]]
    /\ UNCHANGED <<descriptors, at, metric, unit, seen, families, result, answers>>

\* The next scrape of the same kind: collectors are built per request, and
\* only the descriptor cache stays.
NextScrape(s) ==
    /\ at[s] = "done"
    /\ at' = [at EXCEPT ![s] = "idle"]
    /\ unit' = [unit EXCEPT ![s] = ""]
    /\ seen' = [seen EXCEPT ![s] = <<>>]
    /\ families' = [families EXCEPT ![s] = <<>>]
    /\ overAt' = [overAt EXCEPT ![s] = "live"]
    /\ result' = [result EXCEPT ![s] = "none"]
    /\ UNCHANGED <<descriptors, metric, answers>>

Lookup(s) == DescriptorFound(s) \/ DescriptorRefused(s) \/ LookupFails(s)

Stream(s) == (\E x \in TimeSeries : NextSeries(s, x)) \/ EndOfStream(s) \/ StreamFails(s)

Next == \E s \in Scrapes : \/ \E m \in Metrics : Start(s, m)
                           \/ InvalidAggregation(s)
                           \/ Lookup(s)
                           \/ Stream(s)
                           \/ ContextEnds(s)
                           \/ NextScrape(s)

Spec == Init /\ [][Next]_vars

-----------------------------------------------------------------------------
(* Properties *)

\* The series that belong in the family of a key.
Members(key) == {x \in TimeSeries : Convertible(x) /\ KeyOf(x) = key}

\* Each family holds exactly the convertible series of its key, in the order
\* of the stream, and no key is missing or has two families.
AccountFor(fams, stream) ==
    /\ \A i \in DOMAIN fams : fams[i].metrics = Only(stream, Members(fams[i].key))
    /\ {fams[i].key : i \in DOMAIN fams}
         = {KeyOf(x) : x \in {y \in Elements(stream) : Convertible(y)}}
    /\ \A i, j \in DOMAIN fams : fams[i].key = fams[j].key => i = j

\* The families that Collect returns account for the response.
FamiliesMatchStream ==
    \A s \in Scrapes : result[s] = "families" => AccountFor(families[s], seen[s])

\* A family takes its Prometheus type from its first series; every other
\* series in it is rendered as that type too.
OneTypePerFamily ==
    \A s \in Scrapes : \A i \in DOMAIN families[s] :
        \A j \in DOMAIN families[s][i].metrics :
            PromType(families[s][i].metrics[j]) = families[s][i].type

\* The cap is exact: a response of MaxSeries series is served whole, and
\* what is reported as too many is one more (README, MAX_SERIES_PER_REQUEST).
CapExact ==
    \A s \in Scrapes : /\ result[s] = "families" => Len(seen[s]) <= MaxSeries
                       /\ result[s] = "max_series" => Len(seen[s]) = MaxSeries + 1

\* Only a definitive answer is cached.  While nobody has been answered the
\* metric stays absent, so that a transient failure is retried later.
CachedOnlyIfAnswered ==
    \A m \in Metrics : descriptors[m] = "absent" <=> answers[m] = 0

\* A unit that has been learnt is remembered for the life of the process.
KnownUnitStays ==
    [][\A m \in Metrics : descriptors[m] = "By" => descriptors'[m] = "By"]_vars
=============================================================================
