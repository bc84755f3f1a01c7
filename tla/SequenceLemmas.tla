----------------------------- MODULE SequenceLemmas -----------------------------
(***************************************************************************)
(* Facts about numbers and sequences that several of the proofs need: what *)
(* a flattened sequence holds, and how a finite set is sorted.             *)
(***************************************************************************)
EXTENDS Sorting, SequencesExt, SequenceTheorems, FiniteSetTheorems, WellFoundedInduction, TLAPS

\* Every set of natural numbers has a least one.
LEMMA Least ==
  ASSUME NEW T, T \subseteq Nat, T # {}
  PROVE  \E x \in T : \A y \in T : ~(y < x)
<1> DEFINE R == OpToRel(<, Nat)
<1>1. IsWellFoundedOn(R, Nat)
  BY NatLessThanWellFounded
<1>2. \E x \in T : \A y \in T : <<y, x>> \notin R
  <2> HIDE DEF R
  <2> QED
    BY <1>1, WFMin
<1> QED
  BY <1>2 DEF OpToRel

\* Induction up to a bound, over a set: one that holds the first number, and with
\* each the next, holds all of them.
LEMMA UpTo ==
  ASSUME NEW n \in Nat, NEW S, 1 \in S, \A i \in 1..n : i \in S /\ i < n => i + 1 \in S
  PROVE  1..n \subseteq S
<1> DEFINE T == {i \in 1..n : i \notin S}
<1> SUFFICES ASSUME T # {} PROVE FALSE
  OBVIOUS
<1>1. T \subseteq Nat
  OBVIOUS
<1>2. PICK x \in T : \A y \in T : ~(y < x)
  <2> HIDE DEF T
  <2> QED
    BY <1>1, Least
<1>3. x \in 1..n /\ x \notin S /\ x # 1
  OBVIOUS
<1>4. x - 1 \in 1..n /\ x - 1 < x /\ x - 1 < n /\ (x - 1) + 1 = x
  BY <1>3
<1>5. x - 1 \notin T
  BY <1>2, <1>4
<1>6. x - 1 \in S
  BY <1>4, <1>5
<1> QED
  BY <1>3, <1>4, <1>6

\* What the amounts come to, up to each of them.
IsSum(f, amounts, n) ==
  f = [k \in 0..n |-> IF k = 0 THEN 0 ELSE f[k - 1] + amounts[k]]

\* What a function that is defined by recursion up to a bound gives.
LEMMA SumAt ==
  ASSUME NEW f, NEW amounts, NEW n \in Nat, IsSum(f, amounts, n), NEW k \in 0..n
  PROVE  f[k] = IF k = 0 THEN 0 ELSE f[k - 1] + amounts[k]
<1> DEFINE g == [j \in 0..n |-> IF j = 0 THEN 0 ELSE f[j - 1] + amounts[j]]
<1>1. f = g
  BY DEF IsSum
<1>2. g[k] = IF k = 0 THEN 0 ELSE f[k - 1] + amounts[k]
  OBVIOUS
<1> HIDE DEF g
<1> QED
  BY <1>1, <1>2

\* Such a function can be taken one further.
LEMMA SumGoesOn ==
  ASSUME NEW f, NEW amounts, NEW n \in Nat, IsSum(f, amounts, n)
  PROVE  \E g : IsSum(g, amounts, n + 1)
<1> DEFINE g == [j \in 0..(n + 1) |-> IF j = n + 1 THEN f[n] + amounts[j] ELSE f[j]]
<1>1. ASSUME NEW j \in 0..(n + 1)
      PROVE  g[j] = IF j = 0 THEN 0 ELSE g[j - 1] + amounts[j]
  <2>1. CASE j = n + 1
    <3>1. j # 0 /\ j - 1 = n /\ n \in 0..(n + 1) /\ n # n + 1
      BY <2>1
    <3> QED
      BY <2>1, <3>1
  <2>2. CASE j # n + 1
    <3>1. j \in 0..n /\ (j # 0 => j - 1 \in 0..(n + 1) /\ j - 1 # n + 1)
      BY <2>2
    <3>2. f[j] = IF j = 0 THEN 0 ELSE f[j - 1] + amounts[j]
      BY <3>1, SumAt
    <3> QED
      BY <2>2, <3>1, <3>2
  <2> QED
    BY <2>1, <2>2
<1>2. g = [j \in 0..(n + 1) |-> IF j = 0 THEN 0 ELSE g[j - 1] + amounts[j]]
  BY <1>1
<1> QED
  BY <1>2 DEF IsSum

\* There is such a function.
LEMMA SumExists ==
  ASSUME NEW amounts, NEW n \in Nat
  PROVE  \E f : IsSum(f, amounts, n)
<1> DEFINE z == [k \in 0..0 |-> 0]
           S == {m \in 1..n : \E f : IsSum(f, amounts, m)}
<1>1. IsSum(z, amounts, 0)
  <2>1. z = [k \in 0..0 |-> IF k = 0 THEN 0 ELSE z[k - 1] + amounts[k]]
    OBVIOUS
  <2> QED
    BY <2>1 DEF IsSum
<1> HIDE DEF z
<1>2. CASE n # 0
  <2>1. 1 \in S
    <3>1. \E g : IsSum(g, amounts, 0 + 1)
      BY <1>1, SumGoesOn
    <3> QED
      BY <1>2, <3>1
  <2>2. ASSUME NEW i \in 1..n, i \in S, i < n
        PROVE  i + 1 \in S
    <3>1. PICK f : IsSum(f, amounts, i)
      BY <2>2
    <3>2. \E g : IsSum(g, amounts, i + 1)
      BY <3>1, SumGoesOn
    <3> QED
      BY <2>2, <3>2
  <2>3. 1..n \subseteq S
    <3> HIDE DEF S
    <3> QED
      BY <2>1, <2>2, UpTo
  <2> QED
    BY <1>2, <2>3
<1> QED
  BY <1>1, <1>2

\* The length of what has a sequence's domain.
LEMMA LenOfDomain ==
  ASSUME NEW s, NEW n \in Nat, DOMAIN s = 1..n
  PROVE  Len(s) = n
OBVIOUS

\* A sequence over S holds elements of S.
LEMMA ElementsInSet ==
  ASSUME NEW S, NEW s \in Seq(S)
  PROVE  ToSet(s) \subseteq S
BY ElementOfSeq DEF ToSet

\* All but the last of a sequence: what it is over, and what it holds.
LEMMA FrontType ==
  ASSUME NEW S, NEW s \in Seq(S), s # <<>>
  PROVE  /\ Front(s) \in Seq(S) /\ Len(s) \in Nat /\ Len(s) # 0
         /\ Last(s) \in S /\ Last(s) \in ToSet(s) /\ ToSet(s) = ToSet(Front(s)) \union {Last(s)}
         /\ DOMAIN Front(s) = 1..(Len(s) - 1)
         /\ \A k \in DOMAIN Front(s) : k \in DOMAIN s /\ Front(s)[k] = s[k]
<1>1. Len(s) \in Nat /\ Len(s) # 0 /\ DOMAIN s = 1..Len(s)
  BY LenProperties, EmptySeq
<1>2. Len(s) - 1 \in 0..Len(s) /\ Len(s) \in 1..Len(s)
  BY <1>1
<1>3. /\ Front(s) \in Seq(S) /\ Len(Front(s)) = Len(s) - 1
      /\ \A k \in 1..(Len(s) - 1) : Front(s)[k] = s[k]
  <2>1. \A k \in 1..(Len(s) - 1) : k \in 1..Len(s)
    BY <1>1
  <2>2. \A k \in 1..((Len(s) - 1) - 1 + 1) : s[1 + k - 1] = s[k]
    BY <1>1
  <2> QED
    BY <1>1, <1>2, <2>1, <2>2, SubSeqProperties DEF Front
<1>4. DOMAIN Front(s) = 1..(Len(s) - 1)
  BY <1>3, LenProperties
<1>5. \A k \in 1..Len(s) : k \in 1..(Len(s) - 1) \/ k = Len(s)
  <2> DEFINE n == Len(s)
  <2>1. n \in Nat
    BY <1>1
  <2> HIDE DEF n
  <2>2. \A k \in 1..n : k \in 1..(n - 1) \/ k = n
    BY <2>1
  <2> QED
    BY <2>2 DEF n
<1>6. Last(s) \in S /\ Last(s) \in ToSet(s)
  BY <1>1, <1>2, ElementOfSeq DEF Last, ToSet
<1>7. \A k \in 1..(Len(s) - 1) : k \in 1..Len(s)
  BY <1>1
<1>8. ToSet(s) = ToSet(Front(s)) \union {Last(s)}
  BY <1>1, <1>2, <1>3, <1>4, <1>5, <1>7 DEF ToSet, Last
<1> QED
  BY <1>1, <1>3, <1>4, <1>6, <1>7, <1>8

\* What two sequences hold, put together, is what each of them holds.
LEMMA ConcatElements ==
  ASSUME NEW S, NEW s \in Seq(S), NEW t \in Seq(S)
  PROVE  ToSet(s \o t) = ToSet(s) \union ToSet(t)
<1>1. /\ Len(s) \in Nat /\ DOMAIN s = 1..Len(s) /\ Len(t) \in Nat /\ DOMAIN t = 1..Len(t)
      /\ s \o t \in Seq(S) /\ Len(s \o t) = Len(s) + Len(t)
  BY LenProperties, ConcatProperties
<1>2. DOMAIN (s \o t) = 1..(Len(s) + Len(t))
  BY <1>1, LenProperties
<1>3. \A i \in 1..(Len(s) + Len(t)) :
        (s \o t)[i] = IF i <= Len(s) THEN s[i] ELSE t[i - Len(s)]
  BY ConcatProperties
<1>4. \A i \in 1..Len(s) : i \in 1..(Len(s) + Len(t)) /\ (s \o t)[i] = s[i]
  BY <1>1, <1>3
<1>5. \A i \in 1..Len(t) :
        i + Len(s) \in 1..(Len(s) + Len(t)) /\ (s \o t)[i + Len(s)] = t[i]
  BY <1>1, <1>3
<1>6. \A i \in 1..(Len(s) + Len(t)) :
        \/ i \in 1..Len(s) /\ (s \o t)[i] = s[i]
        \/ i - Len(s) \in 1..Len(t) /\ (s \o t)[i] = t[i - Len(s)]
  BY <1>1, <1>3
<1> QED
  <2>1. ASSUME NEW x \in ToSet(s \o t) PROVE x \in ToSet(s) \union ToSet(t)
    BY <2>1, <1>1, <1>2, <1>6 DEF ToSet
  <2>2. ASSUME NEW x \in ToSet(s) PROVE x \in ToSet(s \o t)
    BY <2>2, <1>1, <1>2, <1>4 DEF ToSet
  <2>3. ASSUME NEW x \in ToSet(t) PROVE x \in ToSet(s \o t)
    BY <2>3, <1>1, <1>2, <1>5 DEF ToSet
  <2> QED
    BY <2>1, <2>2, <2>3

(***************************************************************************)
(* Flattening. FlattenSeq is recursive; what is recursive is a function,   *)
(* and that there is such a function is shown first.                       *)
(***************************************************************************)
IsFlat(f, seqs, n) ==
  f = [i \in 1..n |-> IF i = 1 THEN seqs[i] ELSE f[i - 1] \o seqs[i]]

\* The function FlattenSeq goes by exists.
LEMMA FlatExists ==
  ASSUME NEW seqs, NEW n \in Nat
  PROVE  \E f : IsFlat(f, seqs, n)
<1> DEFINE S == {m \in 1..n : \E f : IsFlat(f, seqs, m)}
<1>1. CASE n = 0
  <2> DEFINE e == [i \in 1..0 |-> {}]
  <2>1. e = [i \in 1..0 |-> IF i = 1 THEN seqs[i] ELSE e[i - 1] \o seqs[i]]
    OBVIOUS
  <2> QED
    BY <1>1, <2>1 DEF IsFlat
<1>2. CASE n # 0
  <2>1. 1 \in S
    <3> DEFINE e == [i \in 1..1 |-> seqs[1]]
    <3>1. e = [i \in 1..1 |-> IF i = 1 THEN seqs[i] ELSE e[i - 1] \o seqs[i]]
      OBVIOUS
    <3>2. IsFlat(e, seqs, 1)
      BY <3>1 DEF IsFlat
    <3>3. 1 \in 1..n
      BY <1>2
    <3> QED
      BY <3>2, <3>3
  <2>2. ASSUME NEW i \in 1..n, i \in S, i < n
        PROVE  i + 1 \in S
    <3>1. PICK f : IsFlat(f, seqs, i)
      BY <2>2
    <3> DEFINE g == [j \in 1..(i + 1) |-> IF j = i + 1 THEN f[i] \o seqs[j] ELSE f[j]]
    <3>2. \A j \in 1..i : f[j] = IF j = 1 THEN seqs[j] ELSE f[j - 1] \o seqs[j]
      <4> DEFINE h == [j \in 1..i |-> IF j = 1 THEN seqs[j] ELSE f[j - 1] \o seqs[j]]
      <4>1. f = h
        BY <3>1 DEF IsFlat
      <4>2. \A j \in 1..i : h[j] = IF j = 1 THEN seqs[j] ELSE f[j - 1] \o seqs[j]
        OBVIOUS
      <4> QED
        BY <4>1, <4>2
    <3>3. ASSUME NEW j \in 1..(i + 1)
          PROVE  g[j] = IF j = 1 THEN seqs[j] ELSE g[j - 1] \o seqs[j]
      <4>1. CASE j = i + 1
        <5>1. j # 1 /\ j - 1 = i /\ i \in 1..(i + 1) /\ i # i + 1
          BY <4>1
        <5> QED
          BY <4>1, <5>1
      <4>2. CASE j # i + 1
        <5>1. j \in 1..i /\ (j # 1 => j - 1 \in 1..(i + 1) /\ j - 1 # i + 1)
          BY <4>2
        <5> QED
          BY <4>2, <5>1, <3>2
      <4> QED
        BY <4>1, <4>2
    <3>4. g = [j \in 1..(i + 1) |-> IF j = 1 THEN seqs[j] ELSE g[j - 1] \o seqs[j]]
      BY <3>3
    <3>5. IsFlat(g, seqs, i + 1)
      BY <3>4 DEF IsFlat
    <3> QED
      BY <3>5, <2>2
  <2>3. 1..n \subseteq S
    <3> HIDE DEF S
    <3> QED
      BY <2>1, <2>2, UpTo
  <2> QED
    BY <1>2, <2>3
<1> QED
  BY <1>1, <1>2

\* Flattening sequences over S gives a sequence over S, and its elements are theirs.
LEMMA FlattenElements ==
  ASSUME NEW S, NEW seqs \in Seq(Seq(S))
  PROVE  /\ FlattenSeq(seqs) \in Seq(S)
         /\ ToSet(FlattenSeq(seqs)) = UNION {ToSet(seqs[i]) : i \in DOMAIN seqs}
<1> DEFINE n == Len(seqs)
<1>0. n \in Nat /\ DOMAIN seqs = 1..n /\ \A i \in 1..n : seqs[i] \in Seq(S)
  BY LenProperties, ElementOfSeq
<1>1. CASE n = 0
  <2>1. seqs = <<>>
    BY <1>1, EmptySeq
  <2>2. FlattenSeq(seqs) = seqs
    BY <1>1 DEF FlattenSeq
  <2>3. DOMAIN seqs = {}
    BY <1>0, <1>1
  <2>4. ToSet(seqs) = {} /\ UNION {ToSet(seqs[i]) : i \in DOMAIN seqs} = {}
    BY <2>3 DEF ToSet
  <2>5. seqs \in Seq(S)
    BY <2>1, EmptySeq
  <2> QED
    BY <2>2, <2>4, <2>5
<1>2. CASE n # 0
  <2> DEFINE f == CHOOSE f : f = [i \in 1..Len(seqs) |->
                               IF i = 1 THEN seqs[i] ELSE f[i - 1] \o seqs[i]]
  <2>1. FlattenSeq(seqs) = f[n]
    BY <1>2 DEF FlattenSeq
  <2>2. f = [i \in 1..n |-> IF i = 1 THEN seqs[i] ELSE f[i - 1] \o seqs[i]]
    <3>1. \E g : g = [i \in 1..n |-> IF i = 1 THEN seqs[i] ELSE g[i - 1] \o seqs[i]]
      BY <1>0, FlatExists DEF IsFlat
    <3> QED
      BY <3>1
  <2> HIDE DEF f
  <2>3. \A i \in 1..n : f[i] = IF i = 1 THEN seqs[i] ELSE f[i - 1] \o seqs[i]
    <3> DEFINE h == [j \in 1..n |-> IF j = 1 THEN seqs[j] ELSE f[j - 1] \o seqs[j]]
    <3>1. f = h
      BY <2>2
    <3>2. \A j \in 1..n : h[j] = IF j = 1 THEN seqs[j] ELSE f[j - 1] \o seqs[j]
      OBVIOUS
    <3> QED
      BY <3>1, <3>2
  <2> DEFINE Done == {i \in 1..n : /\ f[i] \in Seq(S)
                                   /\ \A x : x \in ToSet(f[i])
                                              <=> \E k \in 1..i : x \in ToSet(seqs[k])}
  <2>4. 1 \in Done
    <3>1. 1 \in 1..n /\ f[1] = seqs[1] /\ seqs[1] \in Seq(S)
      BY <1>0, <1>2, <2>3
    <3>2. 1..1 = {1}
      OBVIOUS
    <3>3. \A x : x \in ToSet(f[1]) <=> \E k \in 1..1 : x \in ToSet(seqs[k])
      BY <3>1, <3>2
    <3> QED
      BY <3>1, <3>3
  <2>5. ASSUME NEW i \in 1..n, i \in Done, i < n
        PROVE  i + 1 \in Done
    <3>1. i + 1 \in 1..n /\ i + 1 # 1 /\ (i + 1) - 1 = i
      BY <1>0, <2>5
    <3>2. f[i + 1] = f[i] \o seqs[i + 1]
      BY <3>1, <2>3
    <3>3. f[i] \in Seq(S) /\ seqs[i + 1] \in Seq(S)
      BY <2>5, <3>1, <1>0
    <3>4. f[i + 1] \in Seq(S)
      BY <3>2, <3>3, ConcatProperties
    <3>5. ToSet(f[i + 1]) = ToSet(f[i]) \union ToSet(seqs[i + 1])
      BY <3>2, <3>3, ConcatElements
    <3>6. \A k \in 1..(i + 1) : k \in 1..i \/ k = i + 1
      BY <1>0
    <3>7. i + 1 \in 1..(i + 1) /\ \A k \in 1..i : k \in 1..(i + 1)
      BY <1>0
    <3>8. \A x : x \in ToSet(f[i]) <=> \E k \in 1..i : x \in ToSet(seqs[k])
      BY <2>5
    <3>9. \A x : x \in ToSet(f[i + 1]) <=> \E k \in 1..(i + 1) : x \in ToSet(seqs[k])
      BY <3>5, <3>6, <3>7, <3>8
    <3> QED
      BY <3>1, <3>4, <3>9
  <2>6. 1..n \subseteq Done
    <3> HIDE DEF Done, n
    <3> QED
      BY <1>0, <2>4, <2>5, UpTo
  <2>7. n \in 1..n
    BY <1>0, <1>2
  <2>8. n \in Done
    BY <2>6, <2>7
  <2>9. /\ f[n] \in Seq(S)
        /\ \A x : x \in ToSet(f[n]) <=> \E k \in 1..n : x \in ToSet(seqs[k])
    BY <2>8
  <2> HIDE DEF n, Done
  <2> QED
    BY <2>1, <2>9, <1>0
<1> QED
  BY <1>1, <1>2

(***************************************************************************)
(* Sorting.                                                                *)
(***************************************************************************)
\* What is before each member of a set: never itself, one of any two, and all that is
\* before one that is.
PutsInTurn(before, S) ==
  /\ before \in [S -> SUBSET S]
  /\ \A i \in S : i \notin before[i]
  /\ \A i, j \in S : i # j => i \in before[j] \/ j \in before[i]
  /\ \A i, j \in S : j \in before[i] => before[j] \subseteq before[i]

\* Each member of a set in one place, with those before it in the places before.
InTurn(p, before, S) ==
  /\ Cardinality(S) \in Nat
  /\ p \in [1..Cardinality(S) -> S]
  /\ \A i \in S : \E k \in 1..Cardinality(S) : p[k] = i
  /\ \A k, l \in 1..Cardinality(S) : k < l <=> p[k] \in before[p[l]]

\* Sorting puts the members of a finite set in their places.
LEMMA SortedInTurn ==
  ASSUME NEW S, IsFiniteSet(S), NEW before, PutsInTurn(before, S)
  PROVE  InTurn(Sorted(S, before), before, S)
<1> DEFINE n == Cardinality(S)
<1> DEFINE rank == [i \in S |-> Cardinality(before[i]) + 1]
<1> DEFINE p == Sorted(S, before)
<1>0. /\ before \in [S -> SUBSET S]
      /\ \A i \in S : i \notin before[i]
      /\ \A i, j \in S : i # j => i \in before[j] \/ j \in before[i]
      /\ \A i, j \in S : j \in before[i] => before[j] \subseteq before[i]
  BY DEF PutsInTurn
<1> USE <1>0
<1>1. n \in Nat
  BY FS_CardinalityType
<1>2. ASSUME NEW i \in S
      PROVE  /\ IsFiniteSet(before[i]) /\ Cardinality(before[i]) \in Nat
             /\ Cardinality(before[i]) + 1 \in 1..n
  <2>1. before[i] \in SUBSET (S \ {i})
    OBVIOUS
  <2>2. IsFiniteSet(S \ {i}) /\ Cardinality(S \ {i}) = n - 1
    BY FS_RemoveElement
  <2>3. IsFiniteSet(before[i]) /\ Cardinality(before[i]) <= n - 1
    BY <2>1, <2>2, FS_Subset
  <2>4. Cardinality(before[i]) \in Nat
    BY <2>3, FS_CardinalityType
  <2> DEFINE c == Cardinality(before[i])
  <2>5. c \in Nat /\ c <= n - 1
    BY <2>3, <2>4
  <2> HIDE DEF c, n
  <2>6. c + 1 \in 1..n
    BY <2>5, <1>1
  <2> QED
    BY <2>3, <2>4, <2>6 DEF c
<1>3. ASSUME NEW i \in S, NEW j \in S, j \in before[i]
      PROVE  rank[j] < rank[i]
  <2>1. before[j] \in SUBSET (before[i] \ {j})
    BY <1>3
  <2>2. IsFiniteSet(before[i] \ {j}) /\ Cardinality(before[i] \ {j}) = Cardinality(before[i]) - 1
    BY <1>2, <1>3, FS_RemoveElement
  <2>3. Cardinality(before[j]) <= Cardinality(before[i]) - 1
    BY <2>1, <2>2, FS_Subset
  <2> DEFINE c == Cardinality(before[i]) d == Cardinality(before[j])
  <2>4. c \in Nat /\ d \in Nat /\ d <= c - 1 /\ rank[i] = c + 1 /\ rank[j] = d + 1
    BY <1>2, <2>3
  <2> HIDE DEF c, d, rank
  <2> QED
    BY <2>4
<1>4. rank \in [S -> 1..n]
  BY <1>2
<1> HIDE DEF rank
<1>5. ASSUME NEW i \in S, NEW j \in S, rank[i] = rank[j]
      PROVE  i = j
  <2>1. rank[i] \in Int
    BY <1>4
  <2> QED
    BY <1>3, <1>5, <2>1
<1>6. rank \in Injection(S, 1..n)
  BY <1>4, <1>5 DEF Injection, IsInjective
<1>7. IsFiniteSet(1..n) /\ Cardinality(1..n) = n
  <2> HIDE DEF n
  <2>1. 1 \in Int /\ n \in Int /\ (IF 1 > n THEN 0 ELSE n - 1 + 1) = n
    BY <1>1
  <2> QED
    BY <2>1, FS_Interval
<1>8. rank \in Surjection(S, 1..n)
  BY <1>6, <1>7, FS_Injection
<1>9. \A k \in 1..n : \E i \in S : rank[i] = k
  BY <1>8 DEF Surjection
<1>10. \A k \in 1..n : p[k] \in S /\ rank[p[k]] = k
  <2> SUFFICES ASSUME NEW k \in 1..n PROVE p[k] \in S /\ rank[p[k]] = k
    OBVIOUS
  <2>1. p[k] = CHOOSE i \in S : Cardinality(before[i]) = k - 1
    BY DEF Sorted
  <2>2. PICK i \in S : rank[i] = k
    BY <1>9
  <2>3. \A x \in S : Cardinality(before[x]) = k - 1 <=> rank[x] = k
    <3> TAKE x \in S
    <3> DEFINE c == Cardinality(before[x])
    <3>1. c \in Nat /\ rank[x] = c + 1 /\ k \in Int
      BY <1>2, <1>1 DEF rank
    <3> HIDE DEF c
    <3>2. c = k - 1 <=> rank[x] = k
      BY <3>1
    <3> QED
      BY <3>2 DEF c
  <2>4. \E x \in S : Cardinality(before[x]) = k - 1
    BY <2>2, <2>3
  <2>5. p[k] \in S /\ Cardinality(before[p[k]]) = k - 1
    BY <2>1, <2>4
  <2> QED
    BY <2>3, <2>5
<1>11. p \in [1..n -> S]
  BY <1>10 DEF Sorted
<1>12. \A i \in S : \E k \in 1..n : p[k] = i
  <2> TAKE i \in S
  <2>1. rank[i] \in 1..n
    BY <1>4
  <2>2. p[rank[i]] = i
    BY <2>1, <1>5, <1>10
  <2> QED
    BY <2>1, <2>2
<1>13. \A k, l \in 1..n : k < l <=> p[k] \in before[p[l]]
  <2> TAKE k, l \in 1..n
  <2>1. p[k] \in S /\ p[l] \in S /\ rank[p[k]] = k /\ rank[p[l]] = l /\ k \in Int /\ l \in Int
    BY <1>10, <1>1
  <2>2. p[k] \in before[p[l]] => k < l
    BY <1>3, <2>1
  <2>3. p[l] \in before[p[k]] => l < k
    BY <1>3, <2>1
  <2>4. k < l => p[k] # p[l]
    BY <2>1
  <2> QED
    BY <2>1, <2>2, <2>3, <2>4
<1> QED
  BY <1>1, <1>11, <1>12, <1>13 DEF InTurn
=============================================================================
