------------------------ MODULE SequenceFoldsProofs -------------------------
(***************************************************************************)
(* Lemmas about the folds of SequenceFolds.                                *)
(*                                                                         *)
(* Induction over the natural numbers is used in a form that speaks of a   *)
(* set instead of a predicate (NatSetInduction), which follows from the    *)
(* well-foundedness of <.  From it comes that a function defined by        *)
(* recursion over a prefix of the naturals exists (RecursionExists) and    *)
(* that two functions that take the same steps agree (Lockstep).           *)
(***************************************************************************)
EXTENDS SequenceFolds, WellFoundedInduction, TLAPS

\* The order of the natural numbers, as a relation.
NatLess == {ss \in Nat \X Nat : ss[1] < ss[2]}

\* A set that has 0, and with a number the next one, has all numbers: its
\* complement would have a least element.
LEMMA NatSetInduction ==
    ASSUME NEW S, 0 \in S, \A n \in Nat : n \in S => n + 1 \in S
    PROVE  \A n \in Nat : n \in S
  <1> DEFINE T == {n \in Nat : n \notin S}
  <1>1. SUFFICES ASSUME T # {} PROVE FALSE
    OBVIOUS
  <1>2. IsWellFoundedOn(NatLess, Nat)
    BY NatLessThanWellFounded, Zenon DEF OpToRel, NatLess
  <1>3. PICK m \in T : \A y \in T : <<y, m>> \notin NatLess
    <2>1. T \subseteq Nat
      OBVIOUS
    <2> HIDE DEF T
    <2> QED BY <1>1, <1>2, <2>1, WFMin
  <1>4. m \in Nat /\ m \notin S /\ m # 0 /\ m - 1 \in Nat
    OBVIOUS
  <1>5. <<m - 1, m>> \in NatLess
    <2> HIDE DEF T
    <2> QED BY <1>4 DEF NatLess
  <1>6. m - 1 \in S /\ m = (m - 1) + 1
    BY <1>3, <1>4, <1>5
  <1> QED BY <1>4, <1>6

\* The same up to a bound.
LEMMA PrefixInduction ==
    ASSUME NEW top \in Nat, NEW S, 0 \in S, \A k \in 1..top : k - 1 \in S => k \in S
    PROVE  \A k \in 0..top : k \in S
  <1> DEFINE T == {k \in Nat : k <= top => k \in S}
  <1>1. 0 \in T
    OBVIOUS
  <1>2. ASSUME NEW k \in Nat, k \in T
        PROVE  k + 1 \in T
    <2>1. CASE k + 1 <= top
      <3>1. k \in S /\ k + 1 \in 1..top /\ (k + 1) - 1 = k
        BY <1>2, <2>1
      <3> QED BY <3>1
    <2>2. CASE ~(k + 1 <= top)
      BY <2>2
    <2> QED BY <2>1, <2>2
  <1>3. \A k \in Nat : k \in T
    <2> HIDE DEF T
    <2> QED BY <1>1, <1>2, NatSetInduction
  <1> QED BY <1>3

\* Two functions that start alike and go on alike are alike.
LEMMA Lockstep ==
    ASSUME NEW top \in Nat, NEW f, NEW h, f[0] = h[0],
           \A k \in 1..top : f[k - 1] = h[k - 1] => f[k] = h[k]
    PROVE  \A k \in 0..top : f[k] = h[k]
  <1> DEFINE S == {k \in 0..top : f[k] = h[k]}
  <1>1. 0 \in S
    OBVIOUS
  <1>2. \A k \in 1..top : k - 1 \in S => k \in S
    OBVIOUS
  <1>3. \A k \in 0..top : k \in S
    <2> HIDE DEF S
    <2> QED BY <1>1, <1>2, PrefixInduction
  <1> QED BY <1>3

Recursive(f, N, v0, g) == f[0] = v0 /\ \A n \in 1..N : f[n] = g[n][f[n - 1]]

\* A function can be defined by recursion over a prefix of the naturals; g[n]
\* makes its value at n of the one before.
LEMMA RecursionExists ==
    ASSUME NEW N \in Nat, NEW V, NEW v0 \in V, NEW g \in [1..N -> [V -> V]]
    PROVE  \E f \in [0..N -> V] : Recursive(f, N, v0, g)
  <1> DEFINE S == {m \in 0..N : \E f \in [0..m -> V] : Recursive(f, m, v0, g)}
  <1>1. 0 \in S
    <2> DEFINE f0 == [n \in 0..0 |-> v0]
    <2>1. f0 \in [0..0 -> V] /\ Recursive(f0, 0, v0, g)
      BY DEF Recursive
    <2> HIDE DEF f0
    <2> QED BY <2>1
  <1>2. ASSUME NEW m \in 1..N, m - 1 \in S
        PROVE  m \in S
    <2>1. PICK f \in [0..(m - 1) -> V] : Recursive(f, m - 1, v0, g)
      BY <1>2
    <2> DEFINE w == g[m][f[m - 1]]
               h == [n \in 0..m |-> IF n = m THEN w ELSE f[n]]
    <2>2. w \in V
      <3>1. f[m - 1] \in V
        OBVIOUS
      <3> QED BY <3>1
    <2> HIDE DEF w
    <2>3. h \in [0..m -> V]
      BY <2>2
    <2>4. h[0] = v0
      BY <2>1 DEF Recursive
    <2>5. ASSUME NEW n \in 1..m
          PROVE  h[n] = g[n][h[n - 1]]
      <3>1. h[n - 1] = f[n - 1] /\ n - 1 \in 0..m
        OBVIOUS
      <3>2. CASE n = m
        BY <3>1, <3>2 DEF w
      <3>3. CASE n # m
        <4>1. n \in 1..(m - 1) /\ h[n] = f[n]
          BY <3>3
        <4>2. f[n] = g[n][f[n - 1]]
          BY <2>1, <4>1 DEF Recursive
        <4> QED BY <3>1, <4>1, <4>2
      <3> QED BY <3>2, <3>3
    <2> HIDE DEF h
    <2>6. Recursive(h, m, v0, g)
      BY <2>4, <2>5 DEF Recursive
    <2> QED BY <2>3, <2>6
  <1>3. N \in S
    <2> HIDE DEF S
    <2>1. \A n \in 0..N : n \in S
      BY <1>1, <1>2, PrefixInduction
    <2> QED BY <2>1
  <1> QED BY <1>3

-----------------------------------------------------------------------------
(* Sums *)

\* The partial sums of a sequence of integers, step by step.
LEMMA PartialSumsStep ==
    ASSUME NEW s \in Seq(Int)
    PROVE  /\ PartialSums(s) \in [0..Len(s) -> Int]
           /\ PartialSums(s)[0] = 0
           /\ \A n \in 1..Len(s) : PartialSums(s)[n] = PartialSums(s)[n - 1] + s[n]
  <1> DEFINE next == [n \in 1..Len(s) |-> [v \in Int |-> v + s[n]]]
             Rec(f) == f = [n \in 0..Len(s) |-> IF n = 0 THEN 0 ELSE f[n - 1] + s[n]]
             sum == CHOOSE f : Rec(f)
             zero == 0
  <1>1. Len(s) \in Nat /\ \A n \in 1..Len(s) : s[n] \in Int
    OBVIOUS
  <1>2. next \in [1..Len(s) -> [Int -> Int]]
    BY <1>1
  <1>3. \A v \in Int, n \in 1..Len(s) : next[n][v] = v + s[n]
    OBVIOUS
  <1>4. PartialSums(s) = sum
    BY DEF PartialSums
  <1>5. PICK f \in [0..Len(s) -> Int] : Recursive(f, Len(s), zero, next)
    <2>1. zero \in Int
      OBVIOUS
    <2> HIDE DEF next, zero
    <2> QED BY <1>1, <1>2, <2>1, RecursionExists
  <1> HIDE DEF next
  <1>6. f[0] = 0 /\ \A n \in 1..Len(s) : f[n] = f[n - 1] + s[n]
    <2>1. f[0] = 0
      BY <1>5 DEF Recursive
    <2>2. ASSUME NEW n \in 1..Len(s)
          PROVE  f[n] = f[n - 1] + s[n]
      <3>1. n - 1 \in 0..Len(s)
        BY <1>1
      <3>2. f[n - 1] \in Int
        BY <3>1
      <3> QED BY <1>3, <1>5, <3>2 DEF Recursive
    <2> QED BY <2>1, <2>2
  <1>7. Rec(f)
    BY <1>1, <1>6
  <1>8. Rec(sum)
    BY <1>7
  <1> HIDE DEF sum
  <1>9. sum[0] = 0 /\ \A n \in 1..Len(s) : sum[n] = sum[n - 1] + s[n]
    BY <1>1, <1>8
  <1>10. \A n \in 0..Len(s) : sum[n] = f[n]
    <2>1. sum[0] = f[0] /\ \A n \in 1..Len(s) : sum[n - 1] = f[n - 1] => sum[n] = f[n]
      BY <1>6, <1>9
    <2> HIDE DEF Rec
    <2> QED BY <1>1, <2>1, Lockstep
  <1>11. sum \in [0..Len(s) -> Int]
    BY <1>8, <1>10
  <1> QED BY <1>4, <1>9, <1>11

\* Sequences that begin alike have the same partial sums so far.
LEMMA PartialSumsAgree ==
    ASSUME NEW s \in Seq(Int), NEW t \in Seq(Int), NEW n \in Nat,
           n <= Len(s), n <= Len(t), \A i \in 1..n : s[i] = t[i]
    PROVE  PartialSums(s)[n] = PartialSums(t)[n]
  <1> DEFINE p == PartialSums(s)
             q == PartialSums(t)
  <1>1. p[0] = 0 /\ \A i \in 1..Len(s) : p[i] = p[i - 1] + s[i]
    BY PartialSumsStep
  <1>2. q[0] = 0 /\ \A i \in 1..Len(t) : q[i] = q[i - 1] + t[i]
    BY PartialSumsStep
  <1> HIDE DEF p, q
  <1> DEFINE S == {i \in 0..n : p[i] = q[i]}
  <1>3. 0 \in S
    BY <1>1, <1>2
  <1>4. ASSUME NEW i \in 1..n, i - 1 \in S
        PROVE  i \in S
    <2>1. i \in 1..Len(s) /\ i \in 1..Len(t)
      OBVIOUS
    <2> QED BY <1>1, <1>2, <1>4, <2>1
  <1>5. n \in S
    <2> HIDE DEF S
    <2>1. \A i \in 0..n : i \in S
      BY <1>3, <1>4, PrefixInduction
    <2> QED BY <2>1
  <1> QED BY <1>5 DEF p, q

\* Zeroes at the end of a sequence add nothing to its sum.
LEMMA SumOfZeroTail ==
    ASSUME NEW s \in Seq(Int), NEW n \in 0..Len(s), \A i \in (n + 1)..Len(s) : s[i] = 0
    PROVE  Sum(s) = PartialSums(s)[n]
  <1> DEFINE p == PartialSums(s)
             S == {i \in 0..Len(s) : i >= n => p[i] = p[n]}
  <1>1. p \in [0..Len(s) -> Int] /\ \A i \in 1..Len(s) : p[i] = p[i - 1] + s[i]
    BY PartialSumsStep
  <1> HIDE DEF p
  <1>2. 0 \in S
    OBVIOUS
  <1>3. ASSUME NEW i \in 1..Len(s), i - 1 \in S
        PROVE  i \in S
    <2>1. CASE i <= n
      BY <2>1
    <2>2. CASE i > n
      <3>1. p[i - 1] = p[n] /\ s[i] = 0 /\ p[i] = p[i - 1] + s[i]
        BY <1>1, <1>3, <2>2
      <3>2. p[n] \in Int
        BY <1>1
      <3> QED BY <3>1, <3>2
    <2> QED BY <2>1, <2>2
  <1>4. \A i \in 0..Len(s) : i \in S
    <2>1. Len(s) \in Nat
      OBVIOUS
    <2> HIDE DEF S
    <2> QED BY <1>2, <1>3, <2>1, PrefixInduction
  <1>5. Len(s) \in S /\ Len(s) >= n
    BY <1>4
  <1> QED BY <1>5 DEF Sum, p

-----------------------------------------------------------------------------
(* Subsequences *)

\* What is kept of the prefixes of a sequence, step by step.
LEMMA KeptStep ==
    ASSUME NEW T, NEW s \in Seq(T), NEW S
    PROVE  /\ Kept(s, S) \in [0..Len(s) -> Seq(T)]
           /\ Kept(s, S)[0] = <<>>
           /\ \A n \in 1..Len(s) :
                 Kept(s, S)[n] = IF s[n] \in S THEN Append(Kept(s, S)[n - 1], s[n])
                                               ELSE Kept(s, S)[n - 1]
  <1> DEFINE V == Seq(T)
             Grown(v, n) == IF s[n] \in S THEN Append(v, s[n]) ELSE v
             next == [n \in 1..Len(s) |-> [v \in V |-> Grown(v, n)]]
             Rec(f) == f = [n \in 0..Len(s) |-> IF n = 0 THEN <<>> ELSE Grown(f[n - 1], n)]
             kept == CHOOSE f : Rec(f)
             empty == <<>>
  <1>1. Len(s) \in Nat /\ \A n \in 1..Len(s) : s[n] \in T
    OBVIOUS
  <1>2. empty \in V /\ \A v \in V, n \in 1..Len(s) : Grown(v, n) \in V
    BY <1>1
  <1>3. Kept(s, S) = kept
    BY DEF Kept
  <1> HIDE DEF V, Grown, empty
  <1>4. next \in [1..Len(s) -> [V -> V]]
    BY <1>2
  <1>5. \A v \in V, n \in 1..Len(s) : next[n][v] = Grown(v, n)
    OBVIOUS
  <1> HIDE DEF next
  <1>6. PICK f \in [0..Len(s) -> V] : Recursive(f, Len(s), empty, next)
    BY <1>1, <1>2, <1>4, RecursionExists
  <1>7. f[0] = empty /\ \A n \in 1..Len(s) : f[n] = Grown(f[n - 1], n)
    <2>1. f[0] = empty
      BY <1>6 DEF Recursive
    <2>2. ASSUME NEW n \in 1..Len(s)
          PROVE  f[n] = Grown(f[n - 1], n)
      <3>1. n - 1 \in 0..Len(s)
        BY <1>1
      <3>2. f[n - 1] \in V
        BY <3>1
      <3> QED BY <1>5, <1>6, <3>2 DEF Recursive
    <2> QED BY <2>1, <2>2
  <1>8. Rec(f)
    BY <1>1, <1>7 DEF empty
  <1>9. Rec(kept)
    BY <1>8
  <1> HIDE DEF kept
  <1>10. kept[0] = empty /\ \A n \in 1..Len(s) : kept[n] = Grown(kept[n - 1], n)
    BY <1>1, <1>9 DEF empty
  <1>11. \A n \in 0..Len(s) : kept[n] = f[n]
    <2>1. kept[0] = f[0] /\ \A n \in 1..Len(s) : kept[n - 1] = f[n - 1] => kept[n] = f[n]
      BY <1>7, <1>10
    <2> HIDE DEF Rec
    <2> QED BY <1>1, <2>1, Lockstep
  <1>12. kept \in [0..Len(s) -> V]
    BY <1>9, <1>11
  <1> QED BY <1>3, <1>10, <1>12 DEF V, Grown, empty

\* Nothing is kept of nothing.
LEMMA KeptOfEmpty ==
    ASSUME NEW T, NEW s \in Seq(T), NEW S
    PROVE  Kept(s, S)[0] = <<>>
  BY KeptStep

\* The subsequence of an empty sequence is empty.
LEMMA OnlyOfEmpty ==
    ASSUME NEW S
    PROVE  Only(<<>>, S) = <<>>
  <1> DEFINE empty == <<>>
             none == {}
  <1>1. empty \in Seq(none) /\ Len(empty) = 0
    OBVIOUS
  <1> HIDE DEF empty, none
  <1>2. Kept(empty, S)[0] = <<>>
    BY <1>1, KeptOfEmpty
  <1>3. Only(empty, S) = <<>>
    BY <1>1, <1>2 DEF Only
  <1> QED BY <1>3 DEF empty

\* A subsequence of elements of T is one.
LEMMA OnlyType ==
    ASSUME NEW T, NEW s \in Seq(T), NEW S
    PROVE  Only(s, S) \in Seq(T)
  <1>1. Len(s) \in 0..Len(s)
    OBVIOUS
  <1> QED BY <1>1, KeptStep DEF Only

\* One more element is kept or not.
LEMMA OnlyOfAppend ==
    ASSUME NEW T, NEW s \in Seq(T), NEW x \in T, NEW S
    PROVE  Only(Append(s, x), S) = IF x \in S THEN Append(Only(s, S), x) ELSE Only(s, S)
  <1> DEFINE t == Append(s, x)
             p == Kept(s, S)
             q == Kept(t, S)
             N == Len(s)
  <1>1. /\ t \in Seq(T) /\ Len(t) = N + 1 /\ N \in Nat /\ t[N + 1] = x
        /\ \A n \in 1..N : t[n] = s[n]
    OBVIOUS
  <1>2. /\ p[0] = <<>>
        /\ \A n \in 1..N : p[n] = IF s[n] \in S THEN Append(p[n - 1], s[n]) ELSE p[n - 1]
    BY KeptStep
  <1> HIDE DEF t
  <1>3. /\ q[0] = <<>>
        /\ \A n \in 1..(N + 1) : q[n] = IF t[n] \in S THEN Append(q[n - 1], t[n]) ELSE q[n - 1]
    BY <1>1, KeptStep
  <1> HIDE DEF p, q, N
  <1>4. q[0] = p[0] /\ \A n \in 1..N : q[n - 1] = p[n - 1] => q[n] = p[n]
    <2> SUFFICES ASSUME NEW n \in 1..N, q[n - 1] = p[n - 1]
                 PROVE  q[n] = p[n]
      BY <1>2, <1>3
    <2>1. n \in 1..(N + 1) /\ t[n] = s[n]
      BY <1>1
    <2> QED BY <1>2, <1>3, <2>1
  <1>5. \A n \in 0..N : q[n] = p[n]
    <2>1. N \in Nat
      BY <1>1
    <2> QED BY <1>4, <2>1, Lockstep
  <1>6. q[N] = p[N] /\ N + 1 \in 1..(N + 1) /\ (N + 1) - 1 = N
    BY <1>1, <1>5
  <1>7. q[N + 1] = IF x \in S THEN Append(p[N], x) ELSE p[N]
    BY <1>1, <1>3, <1>6
  <1>8. Only(t, S) = q[N + 1] /\ Only(s, S) = p[N]
    BY <1>1 DEF Only, p, q, N
  <1> QED BY <1>7, <1>8 DEF t

\* The elements of a prefix that are in S are those that are kept of it.
LEMMA KeptElements ==
    ASSUME NEW T, NEW s \in Seq(T), NEW S, NEW n \in 0..Len(s)
    PROVE  Elements(Kept(s, S)[n]) = ElementsUpTo(s, n) \cap S
  <1> DEFINE p == Kept(s, S)
             Before(i) == ElementsUpTo(s, i)
             I == {i \in 0..Len(s) : Elements(p[i]) = Before(i) \cap S}
  <1>1. /\ p \in [0..Len(s) -> Seq(T)] /\ p[0] = <<>>
        /\ \A i \in 1..Len(s) : p[i] = IF s[i] \in S THEN Append(p[i - 1], s[i]) ELSE p[i - 1]
    BY KeptStep
  <1> HIDE DEF p
  <1>2. 0 \in I
    BY <1>1 DEF Elements, ElementsUpTo
  <1>3. ASSUME NEW i \in 1..Len(s), i - 1 \in I
        PROVE  i \in I
    <2>1. Before(i) = Before(i - 1) \cup {s[i]}
      BY DEF ElementsUpTo
    <2>2. p[i - 1] \in Seq(T) /\ s[i] \in T
      <3>1. i - 1 \in 0..Len(s)
        OBVIOUS
      <3>2. p[i - 1] \in Seq(T)
        BY <1>1, <3>1
      <3>3. s[i] \in T
        OBVIOUS
      <3> QED BY <3>2, <3>3
    <2>3. ASSUME NEW v \in Seq(T), NEW x \in T
          PROVE  Elements(Append(v, x)) = Elements(v) \cup {x}
      <3>1. /\ DOMAIN Append(v, x) = 1..(Len(v) + 1) /\ DOMAIN v = 1..Len(v) /\ Len(v) \in Nat
            /\ Append(v, x)[Len(v) + 1] = x
            /\ \A j \in 1..Len(v) : Append(v, x)[j] = v[j]
        OBVIOUS
      <3> QED BY <3>1 DEF Elements
    <2>4. Elements(p[i - 1]) = Before(i - 1) \cap S
      BY <1>3
    <2> HIDE DEF Before
    <2>5. Elements(p[i]) = Before(i) \cap S
      BY <1>1, <2>1, <2>2, <2>3, <2>4
    <2> QED BY <2>5
  <1>4. n \in I
    <2> HIDE DEF I
    <2>1. \A i \in 0..Len(s) : i \in I
      <3>1. Len(s) \in Nat
        OBVIOUS
      <3> QED BY <1>2, <1>3, <3>1, PrefixInduction
    <2> QED BY <2>1
  <1> QED BY <1>4 DEF p

\* The elements of s that are in S are those of its subsequence.
LEMMA OnlyElements ==
    ASSUME NEW T, NEW s \in Seq(T), NEW S
    PROVE  Elements(Only(s, S)) = Elements(s) \cap S
  <1> DEFINE size == Len(s)
  <1>1. size \in 0..Len(s) /\ DOMAIN s = 1..size
    OBVIOUS
  <1> HIDE DEF size
  <1>2. Elements(Kept(s, S)[size]) = ElementsUpTo(s, size) \cap S
    BY <1>1, KeptElements
  <1>3. Elements(s) = ElementsUpTo(s, size)
    BY <1>1 DEF Elements, ElementsUpTo
  <1> QED BY <1>2, <1>3 DEF Only, size

\* Of a sequence without elements in S nothing is kept.
LEMMA OnlyOfNone ==
    ASSUME NEW T, NEW s \in Seq(T), NEW S, \A j \in DOMAIN s : s[j] \notin S
    PROVE  Only(s, S) = <<>>
  <1>1. Elements(Only(s, S)) = {}
    <2>1. Elements(s) \cap S = {}
      BY DEF Elements
    <2> QED BY <2>1, OnlyElements
  <1>2. Only(s, S) \in Seq(T)
    BY OnlyType
  <1>3. DOMAIN Only(s, S) = {}
    BY <1>1 DEF Elements
  <1> QED BY <1>2, <1>3

-----------------------------------------------------------------------------
(* Prefixes *)

\* A prefix of a sequence, its length, and the next longer one.
LEMMA PrefixStep ==
    ASSUME NEW T, NEW s \in Seq(T), NEW n \in DOMAIN s
    PROVE  /\ SubSeq(s, 1, n - 1) \in Seq(T)
           /\ s[n] \in T
           /\ SubSeq(s, 1, n) = Append(SubSeq(s, 1, n - 1), s[n])
  OBVIOUS

\* The empty prefix and the whole sequence.
LEMMA PrefixEnds ==
    ASSUME NEW T, NEW s \in Seq(T)
    PROVE  SubSeq(s, 1, 0) = <<>> /\ SubSeq(s, 1, Len(s)) = s
  OBVIOUS
=============================================================================
