---------------------------- MODULE GmpCollector ----------------------------
(***************************************************************************)
(* What becomes of the response of a GMP instant query:                    *)
(* parseQueryResponse (internal/gmp/client.go) reads its samples one by    *)
(* one, Collect (internal/gmp/collector.go) sorts them into metric         *)
(* families and normalises their labels.                                   *)
(*                                                                         *)
(* A sample is its labels and whether its value can be read.  Replacing    *)
(* ':' by '_' is a function on names, Sanitized.                           *)
(***************************************************************************)
EXTENDS Naturals, Sequences, SequenceFolds

CONSTANTS Labels,      \* label names, "__name__" and the two of the resource type
          Values,      \* label values, metric names among them
          Empty,       \* the empty value
          Sanitized,   \* metric name -> the name of its family
          Responses    \* the responses the upstream may give

LabelSets == UNION {[N -> Values] : N \in SUBSET Labels}
ApiSample == [labels : LabelSets, readable : BOOLEAN]

ASSUME GmpAssumption ==
    /\ {"__name__", "monitored_resource", "resource_type"} \subseteq Labels
    /\ Empty \in Values
    /\ Sanitized \in [Values -> Values]
    /\ Responses \subseteq Seq(ApiSample)

VARIABLES response,  \* the samples in the body
          at,        \* where the request is
          next,      \* the index of the sample that is looked at
          samples,   \* those that can be read, as Query returns them
          families,  \* the families, in the order of their first samples
          result     \* how Collect returned

vars == <<response, at, next, samples, families, result>>

Exported == Labels \ {"__name__"}
Pairs == UNION {[N -> Exported \X Values] : N \in SUBSET Exported}
MetricType == [sample : ApiSample, labels : Pairs]
Family == [name : Values, help : Values, metrics : Seq(MetricType)]

TypeOK ==
    /\ response \in Responses
    /\ at \in {"parsing", "collecting", "done"}
    /\ next \in Nat \ {0}
    /\ samples \in Seq(ApiSample)
    /\ families \in Seq(Family)
    /\ result \in {"none", "families", "error", "bad_gateway"}

Init ==
    /\ response \in Responses
    /\ at = "parsing"
    /\ next = 1
    /\ samples = <<>>
    /\ families = <<>>
    /\ result = "none"

-----------------------------------------------------------------------------
(* parseQueryResponse *)

\* The body is no envelope, or one that reports a failure.
EnvelopeFails ==
    /\ at = "parsing" /\ next = 1
    /\ at' = "done"
    /\ result' \in {"error", "bad_gateway"}
    /\ UNCHANGED <<response, next, samples, families>>

\* Fault: parsing ends at the first sample that cannot be read.
ParseSampleOrStop ==
    /\ at = "parsing"
    /\ next \in DOMAIN response
    /\ IF response[next].readable
       THEN /\ samples' = Append(samples, response[next])
            /\ next' = next + 1
            /\ UNCHANGED at
       ELSE /\ at' = "collecting"
            /\ next' = 1
            /\ UNCHANGED samples
    /\ UNCHANGED <<response, families, result>>

\* A sample that cannot be read is skipped.
ParseSample ==
    /\ at = "parsing"
    /\ next \in DOMAIN response
    /\ samples' = IF response[next].readable THEN Append(samples, response[next]) ELSE samples
    /\ next' = next + 1
    /\ UNCHANGED <<response, at, families, result>>

ParseEnds ==
    /\ at = "parsing"
    /\ next > Len(response)
    /\ at' = "collecting"
    /\ next' = 1
    /\ UNCHANGED <<response, samples, families, result>>

-----------------------------------------------------------------------------
(* Collect *)

\* Fault: monitored_resource is renamed without a look at the other labels.
NewLabelAlways(labels, k) == IF k = "monitored_resource" THEN "resource_type" ELSE k

NewLabel(labels, k) ==
    IF k = "monitored_resource" /\ "resource_type" \notin DOMAIN labels
    THEN "resource_type"
    ELSE k

\* Fault: monitored_resource gives way to resource_type where both come.
normalizeLabelsOneType(labels) ==
    LET dropped == IF "resource_type" \in DOMAIN labels
                   THEN {"__name__", "monitored_resource"} ELSE {"__name__"}
    IN  [k \in DOMAIN labels \ dropped |-> <<NewLabel(labels, k), labels[k]>>]

\* The label pairs, by the label each comes from.
normalizeLabels(labels) ==
    [k \in DOMAIN labels \ {"__name__"} |-> <<NewLabel(labels, k), labels[k]>>]

Named(x) == "__name__" \in DOMAIN x.labels /\ x.labels["__name__"] # Empty

FamilyName(x) == Sanitized[x.labels["__name__"]]

Metric(x) == [sample |-> x, labels |-> normalizeLabels(x.labels)]

NewFamily(x) == [name |-> FamilyName(x), help |-> x.labels["__name__"], metrics |-> <<Metric(x)>>]

\* Fault: families are told apart by the original name.
AddSampleByHelp(fams, x) ==
    IF \E i \in DOMAIN fams : fams[i].help = x.labels["__name__"]
    THEN [i \in DOMAIN fams |->
             IF fams[i].help = x.labels["__name__"]
             THEN [fams[i] EXCEPT !.metrics = Append(@, Metric(x))]
             ELSE fams[i]]
    ELSE Append(fams, NewFamily(x))

AddSample(fams, x) ==
    IF \E i \in DOMAIN fams : fams[i].name = FamilyName(x)
    THEN [i \in DOMAIN fams |->
             IF fams[i].name = FamilyName(x)
             THEN [fams[i] EXCEPT !.metrics = Append(@, Metric(x))]
             ELSE fams[i]]
    ELSE Append(fams, NewFamily(x))

\* A sample without a name is dropped.
CollectSample ==
    /\ at = "collecting"
    /\ next \in DOMAIN samples
    /\ families' = IF Named(samples[next]) THEN AddSample(families, samples[next]) ELSE families
    /\ next' = next + 1
    /\ UNCHANGED <<response, at, samples, result>>

CollectEnds ==
    /\ at = "collecting"
    /\ next > Len(samples)
    /\ at' = "done"
    /\ result' = "families"
    /\ UNCHANGED <<response, next, samples, families>>

Next == \/ EnvelopeFails
        \/ ParseSample
        \/ ParseEnds
        \/ CollectSample
        \/ CollectEnds

Spec == Init /\ [][Next]_vars

-----------------------------------------------------------------------------
(* Properties *)

\* The samples that belong in the family of a name.
Members(name) == {x \in ApiSample : Named(x) /\ FamilyName(x) = name}

\* Each family holds exactly the samples of its name, in their order, and no
\* name is missing.
AccountFor(fams, stream) ==
    /\ \A i \in DOMAIN fams :
           [j \in DOMAIN fams[i].metrics |-> fams[i].metrics[j].sample]
               = Only(stream, Members(fams[i].name))
    /\ {fams[i].name : i \in DOMAIN fams}
         = {FamilyName(x) : x \in {y \in Elements(stream) : Named(y)}}

Readable == {x \in ApiSample : x.readable}

\* The families account for the samples of the response that can be read.  A
\* malformed sample costs nothing but itself.
FamiliesMatchResponse ==
    result = "families" => AccountFor(families, Only(response, Readable))

\* The exposition format allows a name one family: samples that are merged by
\* the sanitising of their names are in one.
OneFamilyPerName ==
    \A i, j \in DOMAIN families : families[i].name = families[j].name => i = j

\* No metric has a label twice, though one label is renamed to another that
\* the upstream may send as well.
NoLabelTwice ==
    \A i \in DOMAIN families : \A j \in DOMAIN families[i].metrics :
        LET pairs == families[i].metrics[j].labels
        IN  \A k, l \in DOMAIN pairs : pairs[k][1] = pairs[l][1] => k = l

\* Both are exported as resource_type: the one has a label of that name, the
\* other has monitored_resource instead.
OneHasTheLabel(x, y) ==
    ~("monitored_resource" \in DOMAIN x.labels <=> "monitored_resource" \in DOMAIN y.labels)

\* Different samples of a metric are exported as different series, which a
\* scrape needs, unless the renaming of monitored_resource makes one of the
\* other: nothing else that normalising does merges two of them.
SeriesStayApart ==
    \A i \in DOMAIN families :
        LET metrics == families[i].metrics
        IN  \A j, k \in DOMAIN metrics :
                LET x == metrics[j].sample
                    y == metrics[k].sample
                IN  /\ x.labels["__name__"] = y.labels["__name__"]
                    /\ Elements(metrics[j].labels) = Elements(metrics[k].labels)
                    => x.labels = y.labels \/ OneHasTheLabel(x, y)
=============================================================================
