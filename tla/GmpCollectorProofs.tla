------------------------- MODULE GmpCollectorProofs -------------------------
(***************************************************************************)
(* The families that are made of a GMP response account for it and can be  *)
(* rendered, whatever the response.                                        *)
(*                                                                         *)
(* Each metric has the normalised labels of a named sample (FamilySound),  *)
(* from which those of the sample can be told (PairsTellLabels); the table *)
(* never has two families of a name because AddSample starts one only if   *)
(* there is none.                                                          *)
(* At each point the samples are those of the prefix of the response that  *)
(* has been parsed (Parsed), and the families account for the prefix of    *)
(* the samples that has been collected (Collected).                        *)
(***************************************************************************)
EXTENDS GmpCollector, SequenceFoldsProofs

\* What is true of a metric by itself.
LabelsDiffer(m) ==
    \A k, l \in DOMAIN m.labels : m.labels[k][1] = m.labels[l][1] => k = l

MetricSound(m) ==
    /\ m \in MetricType
    /\ LabelsDiffer(m)
    /\ m.labels = normalizeLabels(m.sample.labels)

\* What is true of a family by itself.
FamilySound(f) ==
    /\ f \in Family
    /\ \A j \in DOMAIN f.metrics : MetricSound(f.metrics[j]) /\ Named(f.metrics[j].sample)

FamiliesSound == \A i \in DOMAIN families : FamilySound(families[i])

GmpInv == TypeOK /\ FamiliesSound /\ OneFamilyPerName

\* What has been read of the response, while it is parsed and afterwards.
Parsed ==
    /\ at = "parsing" => /\ next <= Len(response) + 1
                         /\ samples = Only(SubSeq(response, 1, next - 1), Readable)
                         /\ families = <<>>
    /\ at = "collecting" \/ result = "families" => samples = Only(response, Readable)

\* What has been sorted into families, while it is done and afterwards.
Collected ==
    /\ at = "collecting" => /\ next <= Len(samples) + 1
                            /\ AccountFor(families, SubSeq(samples, 1, next - 1))
    /\ at # "done" => result = "none"
    /\ result = "families" => AccountFor(families, samples)

AccountInv == GmpInv /\ Parsed /\ Collected

-----------------------------------------------------------------------------
(* A metric *)

\* The labels of a sample are a function on some of the label names.
LEMMA LabelSetType ==
    ASSUME NEW labels \in LabelSets
    PROVE  /\ DOMAIN labels \subseteq Labels
           /\ labels \in [DOMAIN labels -> Values]
  BY DEF LabelSets

\* The renaming of one label keeps the labels of a sample apart: it is only
\* done when its target is not among them.
LEMMA NewLabelInjective ==
    ASSUME NEW labels \in LabelSets, NEW k \in DOMAIN labels, NEW l \in DOMAIN labels,
           NewLabel(labels, k) = NewLabel(labels, l)
    PROVE  k = l
  BY DEF NewLabel

\* What a renamed label can be.
LEMMA NewLabelType ==
    ASSUME NEW labels \in LabelSets, NEW k \in DOMAIN labels \ {"__name__"}
    PROVE  NewLabel(labels, k) \in Exported
  BY GmpAssumption, LabelSetType DEF NewLabel, Exported

\* The metric of a sample has labels that differ from each other.
LEMMA MetricIsSound ==
    ASSUME NEW x \in ApiSample
    PROVE  MetricSound(Metric(x)) /\ Metric(x).sample = x
  <1> DEFINE ls == x.labels
             N == DOMAIN ls \ {"__name__"}
             pairs == normalizeLabels(ls)
  <1>1. ls \in LabelSets
    BY DEF ApiSample
  <1>2. ls \in [DOMAIN ls -> Values] /\ DOMAIN ls \subseteq Labels
    BY <1>1, LabelSetType
  <1> HIDE DEF ls
  <1>3. pairs = [k \in N |-> <<NewLabel(ls, k), ls[k]>>]
    BY DEF normalizeLabels
  <1>4. N \in SUBSET Exported
    BY <1>2 DEF Exported
  <1>5. \A k \in N : <<NewLabel(ls, k), ls[k]>> \in Exported \X Values
    BY <1>1, <1>2, NewLabelType
  <1>6. pairs \in [N -> Exported \X Values]
    BY <1>3, <1>5
  <1>7. pairs \in Pairs
    BY <1>4, <1>6 DEF Pairs
  <1>8. \A k, l \in N : pairs[k][1] = pairs[l][1] => k = l
    BY <1>1, <1>3, NewLabelInjective
  <1>9. Metric(x) = [sample |-> x, labels |-> pairs]
    BY DEF Metric, ls
  <1>10. DOMAIN pairs = N
    BY <1>3
  <1> HIDE DEF pairs, N
  <1>11. Metric(x) \in MetricType
    BY <1>7, <1>9 DEF MetricType
  <1>12. Metric(x).labels = pairs /\ Metric(x).sample = x
    BY <1>9
  <1>13. LabelsDiffer(Metric(x))
    BY <1>8, <1>10, <1>12 DEF LabelsDiffer
  <1>14. Metric(x).labels = normalizeLabels(Metric(x).sample.labels)
    BY <1>12 DEF pairs, ls
  <1> QED BY <1>11, <1>12, <1>13, <1>14 DEF MetricSound

-----------------------------------------------------------------------------
(* The labels of a sample can be told from those of its metric *)

\* Two samples with the same exported pairs that agree on monitored_resource
\* agree on resource_type.
LEMMA SameTypeLabel ==
    ASSUME NEW x \in LabelSets, NEW y \in LabelSets,
           Elements(normalizeLabels(x)) = Elements(normalizeLabels(y)),
           "monitored_resource" \in DOMAIN x, "monitored_resource" \in DOMAIN y,
           "resource_type" \in DOMAIN x
    PROVE  "resource_type" \in DOMAIN y
  <1> DEFINE mr == "monitored_resource"
  <1>1. mr \in DOMAIN x \ {"__name__"} /\ NewLabel(x, mr) = mr
    BY DEF NewLabel
  <1>2. <<mr, x[mr]>> \in Elements(normalizeLabels(x))
    BY <1>1 DEF Elements, normalizeLabels
  <1>3. PICK l \in DOMAIN y \ {"__name__"} : <<mr, x[mr]>> = <<NewLabel(y, l), y[l]>>
    BY <1>2 DEF Elements, normalizeLabels
  <1>4. NewLabel(y, l) = mr
    BY <1>3
  <1> QED BY <1>4 DEF NewLabel

\* What one sample has, the other has.
LEMMA PairsTellLabel ==
    ASSUME NEW x \in LabelSets, NEW y \in LabelSets,
           Elements(normalizeLabels(x)) = Elements(normalizeLabels(y)),
           "monitored_resource" \in DOMAIN x <=> "monitored_resource" \in DOMAIN y,
           NEW k \in DOMAIN x \ {"__name__"}
    PROVE  k \in DOMAIN y /\ y[k] = x[k]
  <1>1. <<NewLabel(x, k), x[k]>> \in Elements(normalizeLabels(x))
    BY DEF Elements, normalizeLabels
  <1>2. PICK l \in DOMAIN y \ {"__name__"} :
            <<NewLabel(x, k), x[k]>> = <<NewLabel(y, l), y[l]>>
    BY <1>1 DEF Elements, normalizeLabels
  <1>3. NewLabel(x, k) = NewLabel(y, l) /\ x[k] = y[l]
    BY <1>2
  <1>4. k = l
    <2>1. CASE "monitored_resource" \notin DOMAIN x
      BY <1>3, <2>1 DEF NewLabel
    <2>2. CASE "monitored_resource" \in DOMAIN x
      <3>1. "resource_type" \in DOMAIN x <=> "resource_type" \in DOMAIN y
        BY <2>2, SameTypeLabel
      <3> QED BY <1>3, <3>1 DEF NewLabel
    <2> QED BY <2>1, <2>2
  <1> QED BY <1>3, <1>4

\* Samples of a metric that are exported with the same pairs are the same if
\* both have monitored_resource, or neither has.
LEMMA PairsTellLabels ==
    ASSUME NEW x \in LabelSets, NEW y \in LabelSets,
           "__name__" \in DOMAIN x, "__name__" \in DOMAIN y, x["__name__"] = y["__name__"],
           Elements(normalizeLabels(x)) = Elements(normalizeLabels(y)),
           "monitored_resource" \in DOMAIN x <=> "monitored_resource" \in DOMAIN y
    PROVE  x = y
  <1>1. \A k \in DOMAIN x : k \in DOMAIN y /\ y[k] = x[k]
    BY PairsTellLabel
  <1>2. \A k \in DOMAIN y : k \in DOMAIN x
    BY PairsTellLabel
  <1>3. x \in [DOMAIN x -> Values] /\ y \in [DOMAIN y -> Values] /\ DOMAIN x = DOMAIN y
    BY <1>1, <1>2, LabelSetType
  <1> QED BY <1>1, <1>3

-----------------------------------------------------------------------------
(* A family *)

\* The name and the HELP of a named sample are values.
LEMMA NamedType ==
    ASSUME NEW x \in ApiSample, Named(x)
    PROVE  x.labels["__name__"] \in Values /\ FamilyName(x) \in Values
  <1>1. x.labels \in LabelSets
    BY DEF ApiSample
  <1>2. x.labels["__name__"] \in Values
    BY <1>1, LabelSetType DEF Named
  <1> QED BY <1>2, GmpAssumption DEF FamilyName

\* A family of one sample is sound.
LEMMA NewFamilySound ==
    ASSUME NEW x \in ApiSample, Named(x)
    PROVE  FamilySound(NewFamily(x)) /\ NewFamily(x).name = FamilyName(x)
  <1> DEFINE m == Metric(x)
  <1>1. m \in MetricType /\ MetricSound(m) /\ m.sample = x
    BY MetricIsSound DEF MetricSound
  <1>2. x.labels["__name__"] \in Values /\ FamilyName(x) \in Values
    BY NamedType
  <1>3. NewFamily(x) = [name |-> FamilyName(x), help |-> x.labels["__name__"], metrics |-> <<m>>]
    BY DEF NewFamily
  <1> HIDE DEF m
  <1>4. <<m>> \in Seq(MetricType) /\ <<m>>[1] = m /\ DOMAIN <<m>> = {1}
    BY <1>1
  <1>5. /\ NewFamily(x) \in Family
        /\ NewFamily(x).name = FamilyName(x)
        /\ NewFamily(x).metrics = <<m>>
    BY <1>2, <1>3, <1>4 DEF Family
  <1> QED BY <1>1, <1>4, <1>5 DEF FamilySound

\* A family that a sample joins stays sound, under its name.
LEMMA JoinedFamilySound ==
    ASSUME NEW f, FamilySound(f), NEW x \in ApiSample, Named(x)
    PROVE  /\ FamilySound([f EXCEPT !.metrics = Append(@, Metric(x))])
           /\ [f EXCEPT !.metrics = Append(@, Metric(x))].name = f.name
  <1> DEFINE m == Metric(x)
             s == f.metrics
             g == [f EXCEPT !.metrics = Append(s, m)]
  <1>1. m \in MetricType /\ MetricSound(m) /\ Named(m.sample)
    BY MetricIsSound DEF MetricSound
  <1>2. /\ f \in Family /\ s \in Seq(MetricType)
        /\ \A j \in DOMAIN s : MetricSound(s[j]) /\ Named(s[j].sample)
    BY DEF FamilySound, Family
  <1> HIDE DEF m
  <1>3. g.metrics = Append(s, m) /\ g.name = f.name
    BY <1>2 DEF Family
  <1>4. Append(s, m) \in Seq(MetricType)
    BY <1>1, <1>2
  <1>5. g \in Family
    BY <1>2, <1>4 DEF Family
  <1> HIDE DEF s
  <1>6. /\ DOMAIN Append(s, m) = 1..(Len(s) + 1) /\ Len(s) \in Nat /\ DOMAIN s = 1..Len(s)
        /\ Append(s, m)[Len(s) + 1] = m
        /\ \A j \in 1..Len(s) : Append(s, m)[j] = s[j]
    BY <1>1, <1>2
  <1>7. \A j \in DOMAIN Append(s, m) :
            MetricSound(Append(s, m)[j]) /\ Named(Append(s, m)[j].sample)
    BY <1>1, <1>2, <1>6
  <1>8. FamilySound(g)
    BY <1>3, <1>5, <1>7 DEF FamilySound
  <1> QED BY <1>3, <1>8 DEF m, s

-----------------------------------------------------------------------------
(* The table *)

\* What one sample makes of a sound table of families.
LEMMA AddSampleSound ==
    ASSUME NEW fams \in Seq(Family), \A i \in DOMAIN fams : FamilySound(fams[i]),
           \A i, j \in DOMAIN fams : fams[i].name = fams[j].name => i = j,
           NEW x \in ApiSample, Named(x)
    PROVE  /\ AddSample(fams, x) \in Seq(Family)
           /\ \A i \in DOMAIN AddSample(fams, x) : FamilySound(AddSample(fams, x)[i])
           /\ \A i, j \in DOMAIN AddSample(fams, x) :
                  AddSample(fams, x)[i].name = AddSample(fams, x)[j].name => i = j
  <1> DEFINE new == AddSample(fams, x)
             Joined(f) == [f EXCEPT !.metrics = Append(@, Metric(x))]
  <1>1. CASE \E i \in DOMAIN fams : fams[i].name = FamilyName(x)
    <2>1. new = [i \in DOMAIN fams |->
                    IF fams[i].name = FamilyName(x) THEN Joined(fams[i]) ELSE fams[i]]
      BY <1>1 DEF AddSample
    <2>2. \A i \in DOMAIN fams : FamilySound(Joined(fams[i])) /\ Joined(fams[i]).name = fams[i].name
      BY JoinedFamilySound
    <2> HIDE DEF new, Joined
    <2>3. DOMAIN new = DOMAIN fams
      BY <2>1
    <2>4. \A i \in DOMAIN fams : FamilySound(new[i]) /\ new[i].name = fams[i].name
      BY <2>1, <2>2
    <2>5. \A i \in DOMAIN fams : new[i] \in Family
      BY <2>4 DEF FamilySound
    <2>6. DOMAIN fams = 1..Len(fams) /\ Len(fams) \in Nat
      OBVIOUS
    <2>7. \A i \in 1..Len(fams) : new[i] \in Family
      BY <2>5, <2>6
    <2>8. new = [i \in 1..Len(fams) |-> new[i]]
      BY <2>1, <2>6
    <2>9. new \in [1..Len(fams) -> Family]
      BY <2>7, <2>8
    <2>10. new \in Seq(Family)
      BY <2>6, <2>9
    <2> QED BY <2>3, <2>4, <2>10 DEF new
  <1>2. CASE ~ \E i \in DOMAIN fams : fams[i].name = FamilyName(x)
    <2> DEFINE f == NewFamily(x)
    <2>1. new = Append(fams, f)
      BY <1>2 DEF AddSample
    <2>2. FamilySound(f) /\ f.name = FamilyName(x)
      BY NewFamilySound
    <2>3. f \in Family
      BY <2>2 DEF FamilySound
    <2> HIDE DEF new, f
    <2>4. /\ new \in Seq(Family)
          /\ DOMAIN new = 1..(Len(fams) + 1) /\ DOMAIN fams = 1..Len(fams) /\ Len(fams) \in Nat
          /\ new[Len(fams) + 1] = f
          /\ \A i \in 1..Len(fams) : new[i] = fams[i]
      BY <2>1, <2>3
    <2>5. \A i \in 1..Len(fams) : new[i].name # FamilyName(x) /\ FamilySound(new[i])
      BY <1>2, <2>4
    <2>6. \A i \in DOMAIN new : FamilySound(new[i])
      BY <2>2, <2>4, <2>5
    <2>7. \A i, j \in DOMAIN new : new[i].name = new[j].name => i = j
      BY <2>2, <2>4, <2>5
    <2> QED BY <2>4, <2>6, <2>7 DEF new
  <1> QED BY <1>1, <1>2

-----------------------------------------------------------------------------
(* The inductive invariant *)

\* The inductive invariant holds initially.
LEMMA GmpInit == Init => GmpInv
  <1> SUFFICES ASSUME Init
               PROVE  GmpInv
    OBVIOUS
  <1>1. <<>> \in Seq(ApiSample) /\ <<>> \in Seq(Family)
    OBVIOUS
  <1>2. TypeOK
    BY <1>1 DEF Init, TypeOK
  <1>3. FamiliesSound /\ OneFamilyPerName
    BY DEF Init, FamiliesSound, OneFamilyPerName
  <1> QED BY <1>2, <1>3 DEF GmpInv

\* Parsing collects samples and makes no family.
LEMMA ParseKeeps ==
    ASSUME GmpInv, EnvelopeFails \/ ParseSample \/ ParseEnds
    PROVE  GmpInv'
  <1>1. TypeOK /\ response \in Seq(ApiSample)
    BY GmpAssumption DEF GmpInv, TypeOK
  <1>2. UNCHANGED <<response, families>>
    BY DEF EnvelopeFails, ParseSample, ParseEnds
  <1>3. samples' \in Seq(ApiSample)
    <2>1. CASE ParseSample
      <3>1. response[next] \in ApiSample
        BY <1>1, <2>1 DEF ParseSample
      <3> QED BY <1>1, <2>1, <3>1 DEF ParseSample, TypeOK
    <2>2. CASE EnvelopeFails \/ ParseEnds
      BY <1>1, <2>2 DEF EnvelopeFails, ParseEnds, TypeOK
    <2> QED BY <2>1, <2>2
  <1>4. TypeOK'
    BY <1>1, <1>2, <1>3 DEF EnvelopeFails, ParseSample, ParseEnds, TypeOK
  <1>5. FamiliesSound' /\ OneFamilyPerName'
    BY <1>2 DEF GmpInv, FamiliesSound, OneFamilyPerName
  <1> QED BY <1>4, <1>5 DEF GmpInv

\* A sample joins the table and leaves it sound.
LEMMA CollectSampleKeeps ==
    ASSUME GmpInv, CollectSample
    PROVE  GmpInv'
  <1>1. TypeOK /\ FamiliesSound /\ OneFamilyPerName
    BY DEF GmpInv
  <1>2. samples[next] \in ApiSample /\ families \in Seq(Family)
    BY <1>1 DEF TypeOK, CollectSample
  <1>3. UNCHANGED <<response, at, samples, result>> /\ next' = next + 1
    BY DEF CollectSample
  <1>4. CASE Named(samples[next])
    <2>1. families' = AddSample(families, samples[next])
      BY <1>4 DEF CollectSample
    <2>2. /\ families' \in Seq(Family)
          /\ \A i \in DOMAIN families' : FamilySound(families'[i])
          /\ \A i, j \in DOMAIN families' : families'[i].name = families'[j].name => i = j
      BY <1>1, <1>2, <1>4, <2>1, AddSampleSound DEF FamiliesSound, OneFamilyPerName
    <2>3. TypeOK'
      BY <1>1, <1>3, <2>2 DEF TypeOK
    <2> QED BY <2>2, <2>3 DEF GmpInv, FamiliesSound, OneFamilyPerName
  <1>5. CASE ~Named(samples[next])
    <2>1. UNCHANGED families
      BY <1>5 DEF CollectSample
    <2>2. TypeOK'
      BY <1>1, <1>3, <2>1 DEF TypeOK
    <2> QED BY <1>1, <2>1, <2>2 DEF GmpInv, FamiliesSound, OneFamilyPerName
  <1> QED BY <1>4, <1>5

\* The inductive invariant is kept by every step.
LEMMA GmpNext == GmpInv /\ [Next]_vars => GmpInv'
  <1> SUFFICES ASSUME GmpInv, [Next]_vars
               PROVE  GmpInv'
    OBVIOUS
  <1>1. CASE CollectEnds \/ UNCHANGED vars
    <2>1. UNCHANGED <<response, next, samples, families>>
      BY <1>1 DEF CollectEnds, vars
    <2>2. TypeOK'
      BY <1>1, <2>1 DEF GmpInv, TypeOK, CollectEnds, vars
    <2> QED BY <2>1, <2>2 DEF GmpInv, FamiliesSound, OneFamilyPerName
  <1> QED BY <1>1, ParseKeeps, CollectSampleKeeps DEF Next

\* The inductive invariant holds throughout.
THEOREM GmpInvariant == Spec => []GmpInv
  BY GmpInit, GmpNext, PTL DEF Spec

-----------------------------------------------------------------------------
(* Results *)

\* The samples and families keep their types.
THEOREM GmpTypeCorrect == Spec => []TypeOK
  BY GmpInvariant, PTL DEF GmpInv

\* Samples whose names become the same are in one family.
THEOREM OneFamilyPerNameHolds == Spec => []OneFamilyPerName
  BY GmpInvariant, PTL DEF GmpInv

\* The renaming of monitored_resource never makes a label appear twice.
THEOREM NoLabelTwiceHolds == Spec => []NoLabelTwice
  <1>1. GmpInv => NoLabelTwice
    BY DEF GmpInv, FamiliesSound, FamilySound, MetricSound, LabelsDiffer, NoLabelTwice
  <1> QED BY <1>1, GmpInvariant, PTL

\* The samples of a metric are exported as different series, but for one that
\* has monitored_resource where the other has resource_type.
THEOREM SeriesStayApartHolds == Spec => []SeriesStayApart
  <1>1. ASSUME GmpInv, NEW i \in DOMAIN families,
               NEW j \in DOMAIN families[i].metrics, NEW k \in DOMAIN families[i].metrics
        PROVE  LET m == families[i].metrics[j]
                   n == families[i].metrics[k]
               IN  /\ m.sample.labels["__name__"] = n.sample.labels["__name__"]
                   /\ Elements(m.labels) = Elements(n.labels)
                   => m.sample.labels = n.sample.labels \/ OneHasTheLabel(m.sample, n.sample)
    <2> DEFINE m == families[i].metrics[j]
               n == families[i].metrics[k]
    <2>1. MetricSound(m) /\ Named(m.sample) /\ MetricSound(n) /\ Named(n.sample)
      BY <1>1 DEF GmpInv, FamiliesSound, FamilySound
    <2> HIDE DEF m, n
    <2>2. /\ m.sample.labels \in LabelSets /\ n.sample.labels \in LabelSets
          /\ "__name__" \in DOMAIN m.sample.labels /\ "__name__" \in DOMAIN n.sample.labels
          /\ m.labels = normalizeLabels(m.sample.labels)
          /\ n.labels = normalizeLabels(n.sample.labels)
      BY <2>1 DEF MetricSound, MetricType, ApiSample, Named
    <2>3. /\ m.sample.labels["__name__"] = n.sample.labels["__name__"]
          /\ Elements(m.labels) = Elements(n.labels)
          => m.sample.labels = n.sample.labels \/ OneHasTheLabel(m.sample, n.sample)
      BY <2>2, PairsTellLabels DEF OneHasTheLabel
    <2> QED BY <2>3 DEF m, n
  <1>2. GmpInv => SeriesStayApart
    BY <1>1 DEF SeriesStayApart
  <1> QED BY <1>2, GmpInvariant, PTL

-----------------------------------------------------------------------------
(* The families account for the response *)

SamplesOf(f) == [j \in DOMAIN f.metrics |-> f.metrics[j].sample]

\* The samples of a family that one joins.
LEMMA SamplesOfJoined ==
    ASSUME NEW f \in Family, NEW x \in ApiSample
    PROVE  SamplesOf([f EXCEPT !.metrics = Append(@, Metric(x))]) = Append(SamplesOf(f), x)
  <1> DEFINE m == Metric(x)
             ms == f.metrics
             g == [f EXCEPT !.metrics = Append(ms, m)]
  <1>1. m \in MetricType /\ m.sample = x
    BY MetricIsSound DEF MetricSound
  <1>2. ms \in Seq(MetricType) /\ g.metrics = Append(ms, m)
    BY DEF Family
  <1>3. SamplesOf(f) = [j \in DOMAIN ms |-> ms[j].sample]
    BY DEF SamplesOf
  <1>4. SamplesOf(g) = [j \in DOMAIN Append(ms, m) |-> Append(ms, m)[j].sample]
    BY <1>2 DEF SamplesOf
  <1> HIDE DEF m, ms, g
  <1>5. \A j \in DOMAIN ms : ms[j].sample \in ApiSample
    <2>1. \A j \in DOMAIN ms : ms[j] \in MetricType
      BY <1>2
    <2> QED BY <2>1 DEF MetricType
  <1>6. /\ DOMAIN ms = 1..Len(ms) /\ Len(ms) \in Nat
        /\ DOMAIN Append(ms, m) = 1..(Len(ms) + 1) /\ Append(ms, m)[Len(ms) + 1] = m
        /\ \A j \in 1..Len(ms) : Append(ms, m)[j] = ms[j]
    BY <1>1, <1>2
  <1> DEFINE old == SamplesOf(f)
             new == SamplesOf(g)
  <1>7. old \in Seq(ApiSample) /\ Len(old) = Len(ms)
    BY <1>3, <1>5, <1>6
  <1>8. /\ new = [j \in 1..(Len(ms) + 1) |-> new[j]] /\ new[Len(ms) + 1] = x
        /\ \A j \in 1..Len(ms) : new[j] = old[j]
    BY <1>1, <1>3, <1>4, <1>6
  <1> HIDE DEF old, new
  <1>9. new = Append(old, x)
    <2> DEFINE longer == Append(old, x)
               n == Len(ms) + 1
    <2>1. longer \in Seq(ApiSample) /\ Len(longer) = n /\ longer[n] = x
          /\ \A j \in 1..Len(ms) : longer[j] = old[j]
      BY <1>7
    <2>2. n \in Nat /\ \A j \in 1..n : j = n \/ j \in 1..Len(ms)
      BY <1>6
    <2> HIDE DEF longer
    <2>3. longer = [j \in 1..n |-> longer[j]] /\ \A j \in 1..n : new[j] = longer[j]
      <3>1. new[n] = x /\ \A j \in 1..Len(ms) : new[j] = old[j]
        BY <1>8
      <3> HIDE DEF n
      <3>2. DOMAIN longer = 1..n
        BY <2>1
      <3>3. longer = [j \in 1..n |-> longer[j]]
        BY <2>1, <3>2
      <3>4. \A j \in 1..n : new[j] = longer[j]
        BY <2>1, <2>2, <3>1
      <3> QED BY <3>3, <3>4
    <2>4. new = longer
      BY <1>8, <2>3
    <2> QED BY <2>4 DEF longer
  <1> QED BY <1>9 DEF old, new, g, ms, m

\* The samples of a family that one starts.
LEMMA SamplesOfNew ==
    ASSUME NEW x \in ApiSample
    PROVE  SamplesOf(NewFamily(x)) = <<x>>
  <1> DEFINE m == Metric(x)
  <1>1. m.sample = x
    BY MetricIsSound
  <1>2. NewFamily(x).metrics = <<m>>
    BY DEF NewFamily
  <1> HIDE DEF m
  <1>3. DOMAIN <<m>> = {1} /\ <<m>>[1] = m
    OBVIOUS
  <1> QED BY <1>1, <1>2, <1>3 DEF SamplesOf

\* A table accounts for one more sample when the sample has joined it, or has
\* no name.
LEMMA AccountForOneMore ==
    ASSUME NEW fams \in Seq(Family), NEW stream \in Seq(ApiSample), NEW x \in ApiSample,
           AccountFor(fams, stream)
    PROVE  AccountFor(IF Named(x) THEN AddSample(fams, x) ELSE fams, Append(stream, x))
  <1> DEFINE Names(f) == {f[i].name : i \in DOMAIN f}
             NamesOf(st) == {FamilyName(y) : y \in {z \in Elements(st) : Named(z)}}
             longer == Append(stream, x)
  <1>1. /\ \A i \in DOMAIN fams : SamplesOf(fams[i]) = Only(stream, Members(fams[i].name))
        /\ Names(fams) = NamesOf(stream)
    BY DEF AccountFor, SamplesOf
  <1>2. Elements(longer) = Elements(stream) \cup {x}
    <2>1. /\ DOMAIN longer = 1..(Len(stream) + 1) /\ DOMAIN stream = 1..Len(stream)
          /\ Len(stream) \in Nat /\ longer[Len(stream) + 1] = x
          /\ \A j \in 1..Len(stream) : longer[j] = stream[j]
      OBVIOUS
    <2> HIDE DEF longer
    <2> QED BY <2>1 DEF Elements
  <1>3. \A S : Only(longer, S) = IF x \in S THEN Append(Only(stream, S), x) ELSE Only(stream, S)
    BY OnlyOfAppend
  <1> HIDE DEF longer
  <1>4. CASE ~Named(x)
    <2>1. NamesOf(longer) = NamesOf(stream)
      BY <1>2, <1>4
    <2>2. \A k : x \notin Members(k)
      BY <1>4 DEF Members
    <2>3. \A i \in DOMAIN fams : SamplesOf(fams[i]) = Only(longer, Members(fams[i].name))
      BY <1>1, <1>3, <2>2
    <2>4. AccountFor(fams, longer)
      BY <1>1, <2>1, <2>3 DEF AccountFor, SamplesOf
    <2> QED BY <1>4, <2>4 DEF longer
  <1>5. CASE Named(x) /\ \E i \in DOMAIN fams : fams[i].name = FamilyName(x)
    <2> DEFINE new == AddSample(fams, x)
    <2>1. /\ DOMAIN new = DOMAIN fams
          /\ \A i \in DOMAIN fams :
                new[i] = IF fams[i].name = FamilyName(x)
                         THEN [fams[i] EXCEPT !.metrics = Append(@, Metric(x))] ELSE fams[i]
      BY <1>5 DEF AddSample
    <2> HIDE DEF new
    <2>2. ASSUME NEW i \in DOMAIN fams
          PROVE  /\ new[i].name = fams[i].name
                 /\ SamplesOf(new[i]) = IF fams[i].name = FamilyName(x)
                                        THEN Append(SamplesOf(fams[i]), x)
                                        ELSE SamplesOf(fams[i])
      <3> DEFINE g == [fams[i] EXCEPT !.metrics = Append(@, Metric(x))]
      <3>1. fams[i] \in Family
        OBVIOUS
      <3>2. g.name = fams[i].name
        BY <3>1 DEF Family
      <3>3. SamplesOf(g) = Append(SamplesOf(fams[i]), x)
        BY <3>1, SamplesOfJoined
      <3>4. new[i] = IF fams[i].name = FamilyName(x) THEN g ELSE fams[i]
        BY <2>1
      <3> HIDE DEF g
      <3>5. CASE fams[i].name = FamilyName(x)
        <4>1. new[i] = g
          BY <3>4, <3>5
        <4> QED BY <3>2, <3>3, <3>5, <4>1
      <3>6. CASE fams[i].name # FamilyName(x)
        BY <3>4, <3>6
      <3> QED BY <3>5, <3>6
    <2>3. ASSUME NEW i \in DOMAIN fams
          PROVE  SamplesOf(new[i]) = Only(longer, Members(new[i].name))
      <3>1. x \in Members(fams[i].name) <=> fams[i].name = FamilyName(x)
        BY <1>5 DEF Members
      <3> QED BY <1>1, <1>3, <2>2, <3>1
    <2>4. Names(new) = Names(fams)
      BY <2>1, <2>2
    <2>5. NamesOf(longer) = NamesOf(stream) \cup {FamilyName(x)}
      BY <1>2, <1>5
    <2>6. FamilyName(x) \in Names(fams)
      BY <1>5
    <2>7. Names(new) = NamesOf(longer)
      BY <1>1, <2>4, <2>5, <2>6
    <2>8. AccountFor(new, longer)
      BY <2>1, <2>3, <2>7 DEF AccountFor, SamplesOf
    <2> QED BY <1>5, <2>8 DEF new, longer
  <1>6. CASE Named(x) /\ ~ \E i \in DOMAIN fams : fams[i].name = FamilyName(x)
    <2> DEFINE f == NewFamily(x)
               new == Append(fams, f)
               k == Members(FamilyName(x))
    <2>1. AddSample(fams, x) = new
      BY <1>6 DEF AddSample
    <2>2. f \in Family /\ f.name = FamilyName(x) /\ SamplesOf(f) = <<x>>
      BY <1>6, NewFamilySound, SamplesOfNew DEF FamilySound
    <2> HIDE DEF f
    <2>3. /\ DOMAIN new = 1..(Len(fams) + 1) /\ DOMAIN fams = 1..Len(fams) /\ Len(fams) \in Nat
          /\ new[Len(fams) + 1] = f
          /\ \A i \in 1..Len(fams) : new[i] = fams[i]
      BY <2>2
    <2> HIDE DEF new
    <2>4. Only(longer, k) = <<x>>
      <3>1. \A j \in DOMAIN stream : stream[j] \notin k
        <4> SUFFICES ASSUME NEW j \in DOMAIN stream, stream[j] \in k
                     PROVE  FALSE
          OBVIOUS
        <4>1. FamilyName(stream[j]) = FamilyName(x) /\ Named(stream[j])
              /\ stream[j] \in Elements(stream)
          BY DEF Members, Elements
        <4>2. FamilyName(x) \in NamesOf(stream)
          BY <4>1
        <4> QED BY <1>1, <1>6, <4>2
      <3>2. x \in k
        BY <1>6 DEF Members
      <3> HIDE DEF k
      <3>3. Only(stream, k) = <<>>
        BY <3>1, OnlyOfNone
      <3>4. Only(longer, k) = Append(Only(stream, k), x)
        BY <1>3, <3>2
      <3>5. Append(<<>>, x) = <<x>>
        OBVIOUS
      <3> QED BY <3>3, <3>4, <3>5
    <2>5. ASSUME NEW i \in DOMAIN new
          PROVE  SamplesOf(new[i]) = Only(longer, Members(new[i].name))
      <3>1. CASE i = Len(fams) + 1
        BY <2>2, <2>3, <2>4, <3>1
      <3>2. CASE i # Len(fams) + 1
        <4>1. i \in DOMAIN fams /\ new[i] = fams[i]
          BY <2>3, <2>5, <3>2
        <4>2. x \notin Members(fams[i].name)
          BY <1>6, <4>1 DEF Members
        <4> QED BY <1>1, <1>3, <4>1, <4>2
      <3> QED BY <3>1, <3>2
    <2>6. Names(new) = NamesOf(longer)
      <3>1. Names(new) = Names(fams) \cup {FamilyName(x)}
        BY <2>2, <2>3
      <3>2. NamesOf(longer) = NamesOf(stream) \cup {FamilyName(x)}
        BY <1>2, <1>6
      <3> QED BY <1>1, <3>1, <3>2
    <2>7. AccountFor(new, longer)
      BY <2>5, <2>6 DEF AccountFor, SamplesOf
    <2> QED BY <1>6, <2>1, <2>7 DEF longer
  <1> QED BY <1>4, <1>5, <1>6

\* No families account for no samples.
LEMMA NothingAccounted == AccountFor(<<>>, <<>>)
  BY DEF AccountFor, Elements

\* A sample that has been parsed is among the samples if it could be read.
LEMMA ParseSampleAccounts ==
    ASSUME AccountInv, ParseSample
    PROVE  Parsed' /\ Collected'
  <1>1. response \in Seq(ApiSample) /\ next \in DOMAIN response /\ next \in Nat
    BY GmpAssumption DEF AccountInv, GmpInv, TypeOK, ParseSample
  <1>2. /\ at = "parsing" /\ next' = next + 1 /\ UNCHANGED <<response, at, families, result>>
        /\ samples' = IF response[next].readable THEN Append(samples, response[next]) ELSE samples
    BY DEF ParseSample
  <1>3. /\ samples = Only(SubSeq(response, 1, next - 1), Readable)
        /\ families = <<>> /\ result = "none"
    BY <1>2 DEF AccountInv, Parsed, Collected
  <1> DEFINE p == SubSeq(response, 1, next - 1)
             x == response[next]
  <1>4. /\ p \in Seq(ApiSample) /\ x \in ApiSample
        /\ SubSeq(response, 1, next) = Append(p, x)
    BY <1>1, PrefixStep
  <1>5. samples = Only(p, Readable)
    BY <1>3
  <1>6. samples' = IF x.readable THEN Append(samples, x) ELSE samples
    BY <1>2
  <1> HIDE DEF p, x
  <1>7. samples' = Only(Append(p, x), Readable)
    <2>1. x \in Readable <=> x.readable
      BY <1>4 DEF Readable
    <2>2. Only(Append(p, x), Readable)
            = IF x \in Readable THEN Append(Only(p, Readable), x) ELSE Only(p, Readable)
      BY <1>4, OnlyOfAppend
    <2> QED BY <1>5, <1>6, <2>1, <2>2
  <1>8. next' - 1 = next /\ next' <= Len(response) + 1
    BY <1>1, <1>2
  <1>9. SubSeq(response', 1, next' - 1) = SubSeq(response, 1, next)
    BY <1>2, <1>8
  <1>10. Parsed'
    BY <1>2, <1>3, <1>4, <1>7, <1>8, <1>9 DEF Parsed
  <1>11. Collected'
    BY <1>2, <1>3 DEF Collected
  <1> QED BY <1>10, <1>11

\* At the end of the body the samples are all that can be read.
LEMMA ParseEndsAccounts ==
    ASSUME AccountInv, ParseEnds
    PROVE  Parsed' /\ Collected'
  <1>1. response \in Seq(ApiSample) /\ samples \in Seq(ApiSample) /\ next \in Nat
    BY GmpAssumption DEF AccountInv, GmpInv, TypeOK
  <1>2. /\ at = "parsing" /\ next > Len(response) /\ at' = "collecting" /\ next' = 1
        /\ UNCHANGED <<response, samples, families, result>>
    BY DEF ParseEnds
  <1>3. /\ samples = Only(SubSeq(response, 1, next - 1), Readable)
        /\ families = <<>> /\ result = "none" /\ next - 1 = Len(response)
    BY <1>1, <1>2 DEF AccountInv, Parsed, Collected
  <1>4. samples = Only(response, Readable)
    BY <1>1, <1>3, PrefixEnds
  <1>5. AccountFor(families, SubSeq(samples, 1, next' - 1))
    <2>1. SubSeq(samples, 1, next' - 1) = <<>>
      BY <1>1, <1>2, PrefixEnds
    <2> QED BY <1>3, <2>1, NothingAccounted
  <1>6. AccountFor(families, SubSeq(samples, 1, next - 1))'
    BY <1>2, <1>5
  <1>7. Parsed'
    BY <1>2, <1>4 DEF Parsed
  <1>8. Collected'
    BY <1>1, <1>2, <1>3, <1>6 DEF Collected
  <1> QED BY <1>7, <1>8

\* A sample that has been collected is accounted for.
LEMMA CollectSampleAccounts ==
    ASSUME AccountInv, CollectSample
    PROVE  Parsed' /\ Collected'
  <1>1. samples \in Seq(ApiSample) /\ families \in Seq(Family)
        /\ next \in DOMAIN samples /\ next \in Nat
    BY DEF AccountInv, GmpInv, TypeOK, CollectSample
  <1>2. /\ at = "collecting" /\ next' = next + 1 /\ UNCHANGED <<response, at, samples, result>>
        /\ families' = IF Named(samples[next]) THEN AddSample(families, samples[next]) ELSE families
    BY DEF CollectSample
  <1>3. /\ AccountFor(families, SubSeq(samples, 1, next - 1))
        /\ samples = Only(response, Readable) /\ result = "none"
    BY <1>2 DEF AccountInv, Parsed, Collected
  <1> DEFINE p == SubSeq(samples, 1, next - 1)
             x == samples[next]
  <1>4. p \in Seq(ApiSample) /\ x \in ApiSample /\ SubSeq(samples, 1, next) = Append(p, x)
    BY <1>1, PrefixStep
  <1>5. AccountFor(families, p) /\ families' = IF Named(x) THEN AddSample(families, x) ELSE families
    BY <1>2, <1>3
  <1> HIDE DEF p, x
  <1>6. AccountFor(families', Append(p, x))
    BY <1>1, <1>4, <1>5, AccountForOneMore
  <1>7. next' - 1 = next /\ next' <= Len(samples) + 1
    BY <1>1, <1>2
  <1>8. AccountFor(families, SubSeq(samples, 1, next - 1))'
    BY <1>2, <1>4, <1>6, <1>7
  <1>9. Parsed'
    BY <1>2, <1>3 DEF Parsed
  <1>10. Collected'
    BY <1>2, <1>3, <1>7, <1>8 DEF Collected
  <1> QED BY <1>9, <1>10

\* The end of the samples, and a body that is no envelope.
LEMMA EndsAccount ==
    ASSUME AccountInv, CollectEnds \/ EnvelopeFails
    PROVE  Parsed' /\ Collected'
  <1>1. samples \in Seq(ApiSample) /\ next \in Nat
    BY DEF AccountInv, GmpInv, TypeOK
  <1>2. CASE EnvelopeFails
    <2>1. at' = "done" /\ result' # "families"
      BY <1>2 DEF EnvelopeFails
    <2> QED BY <2>1 DEF Parsed, Collected
  <1>3. CASE CollectEnds
    <2>1. /\ at = "collecting" /\ next > Len(samples) /\ at' = "done" /\ result' = "families"
          /\ UNCHANGED <<response, next, samples, families>>
      BY <1>3 DEF CollectEnds
    <2>2. /\ next - 1 = Len(samples) /\ samples = Only(response, Readable)
          /\ AccountFor(families, SubSeq(samples, 1, next - 1))
      BY <1>1, <2>1 DEF AccountInv, Parsed, Collected
    <2>3. AccountFor(families, samples)
      BY <1>1, <2>2, PrefixEnds
    <2>4. AccountFor(families, samples)'
      BY <2>1, <2>3
    <2> QED BY <2>1, <2>2, <2>4 DEF Parsed, Collected
  <1> QED BY <1>2, <1>3

\* The invariant with the accounts in it holds throughout.
THEOREM AccountInvariant == Spec => []AccountInv
  <1>1. Init => AccountInv
    <2> SUFFICES ASSUME Init
                 PROVE  AccountInv
      OBVIOUS
    <2>1. /\ response \in Seq(ApiSample) /\ at = "parsing" /\ next = 1 /\ samples = <<>>
          /\ families = <<>> /\ result = "none" /\ next - 1 = 0
      BY GmpAssumption DEF Init
    <2>2. samples = Only(SubSeq(response, 1, next - 1), Readable)
      BY <2>1, PrefixEnds, OnlyOfEmpty
    <2>3. Parsed
      BY <2>1, <2>2 DEF Parsed
    <2>4. Collected
      BY <2>1 DEF Collected
    <2> QED BY <2>3, <2>4, GmpInit DEF AccountInv
  <1>2. AccountInv /\ [Next]_vars => AccountInv'
    <2> SUFFICES ASSUME AccountInv, [Next]_vars
                 PROVE  AccountInv'
      OBVIOUS
    <2>1. GmpInv'
      BY GmpNext DEF AccountInv
    <2>2. CASE UNCHANGED vars
      <3>1. Parsed' /\ Collected'
        BY <2>2 DEF vars, AccountInv, Parsed, Collected
      <3> QED BY <2>1, <3>1 DEF AccountInv
    <2> QED BY <2>1, <2>2, ParseSampleAccounts, ParseEndsAccounts, CollectSampleAccounts,
               EndsAccount DEF Next, AccountInv
  <1> QED BY <1>1, <1>2, PTL DEF Spec

\* Every sample of the response that can be read and has a name is in the
\* family of its name, once and in its order, and nothing else is.
THEOREM FamiliesMatchResponseHolds == Spec => []FamiliesMatchResponse
  <1>1. AccountInv => FamiliesMatchResponse
    BY DEF AccountInv, Parsed, Collected, FamiliesMatchResponse
  <1> QED BY <1>1, AccountInvariant, PTL

=============================================================================
