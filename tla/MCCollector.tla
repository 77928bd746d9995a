---------------------------- MODULE MCCollector -----------------------------
(***************************************************************************)
(* Two scrapes at a time, again and again, whose accounts have different   *)
(* rights, of one metric.  For the loop one of them reads, with a cap of   *)
(* three series and one time series of each sort, so that every response   *)
(* of at most four series over these sorts is read.                        *)
(***************************************************************************)
EXTENDS Collector

CONSTANTS s1, s2, m1

TwoScrapes == {s1, s2}
OneMetric == {m1}
OnlyFirst == {s1}

Series(k, v, p) == [kind |-> k, value |-> v, points |-> p]

\* Each branch of convertSeries, and series that share a kind or a value type
\* but not both.
AllSorts == {Series("GAUGE", "INT64", TRUE), Series("GAUGE", "DOUBLE", TRUE),
             Series("DELTA", "DOUBLE", TRUE), Series("CUMULATIVE", "DOUBLE", TRUE),
             Series("DELTA", "DISTRIBUTION", TRUE), Series("CUMULATIVE", "INT64", FALSE),
             Series("GAUGE", "STRING", TRUE), Series("UNSPECIFIED", "INT64", TRUE)}

OneSort == {Series("GAUGE", "DOUBLE", TRUE)}

\* The second scrape is there for the descriptor cache; its responses are empty.
SecondReadsNothing == seen[s2] = <<>>
=============================================================================
