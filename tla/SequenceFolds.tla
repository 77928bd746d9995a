---------------------------- MODULE SequenceFolds ---------------------------
(***************************************************************************)
(* Sums and subsequences of finite sequences, as recursive functions on    *)
(* the length of the prefix that has been gone through.  The specifications *)
(* use them to say what a loop ought to have computed; their lemmas are in *)
(* SequenceFoldsProofs.                                                    *)
(***************************************************************************)
EXTENDS Integers, Sequences

\* The sums of the prefixes of s, by their lengths.
PartialSums(s) ==
    LET sum[n \in 0..Len(s)] == IF n = 0 THEN 0 ELSE sum[n - 1] + s[n]
    IN  sum

Sum(s) == PartialSums(s)[Len(s)]

\* The elements of the first n places of s, and all its elements.
ElementsUpTo(s, n) == {s[j] : j \in 1..n}
Elements(s) == {s[j] : j \in DOMAIN s}

\* What is left of the prefixes of s, by their lengths, when only the
\* elements of S are kept.
Kept(s, S) ==
    LET kept[n \in 0..Len(s)] ==
            IF n = 0 THEN <<>>
            ELSE IF s[n] \in S THEN Append(kept[n - 1], s[n]) ELSE kept[n - 1]
    IN  kept

\* The subsequence of the elements of s that are in S.
Only(s, S) == Kept(s, S)[Len(s)]
=============================================================================
