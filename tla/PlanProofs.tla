----------------------------- MODULE PlanProofs -----------------------------
(***************************************************************************)
(* What Planner promises of every plan, for any hosts, guests, groups and  *)
(* options.                                                                *)
(***************************************************************************)
EXTENDS Planner, SequenceLemmas

(***************************************************************************)
(* The least and the greatest of a set of numbers.                         *)
(***************************************************************************)

\* What Min takes of a set of positions.
LEMMA MinOf ==
  ASSUME NEW T, T \subseteq Nat, T # {}
  PROVE  Min(T) \in T /\ \A y \in T : Min(T) <= y
<1>1. PICK x \in T : \A y \in T : ~(y < x)
  BY Least
<1>2. \A y \in T : x <= y
  BY <1>1
<1> QED
  BY <1>2 DEF Min

\* What Max takes of a set of positions up to k.
LEMMA MaxOf ==
  ASSUME NEW k \in Nat, NEW T, T \subseteq 1..k, T # {}
  PROVE  Max(T) \in T /\ \A y \in T : Max(T) >= y
<1> DEFINE U == {k - t : t \in T}
<1>1. U \subseteq Nat /\ U # {}
  <2>1. \A t \in T : t \in 1..k
    OBVIOUS
  <2>2. \A t \in 1..k : k - t \in Nat
    OBVIOUS
  <2> QED
    BY <2>1, <2>2
<1>2. PICK x \in U : \A y \in U : ~(y < x)
  <2> HIDE DEF U
  <2> QED
    BY <1>1, Least
<1>3. PICK t \in T : x = k - t
  OBVIOUS
<1>4. \A y \in T : t >= y
  <2> TAKE y \in T
  <2>1. k - y \in U /\ y \in 1..k /\ t \in 1..k
    OBVIOUS
  <2>2. ~(k - y < k - t)
    BY <2>1, <1>2, <1>3
  <2> QED
    BY <2>1, <2>2
<1> QED
  BY <1>4 DEF Max

(***************************************************************************)
(* Groups, and the order the guests stop in.                               *)
(***************************************************************************)

\* The group an order falls in is the first that has it; 0 says that none has.
LEMMA GroupIndex ==
  ASSUME NEW groups \in Seq(OrderGroup), NEW order
  PROVE  /\ GroupIndexOf(groups, order) \in 0..Len(groups)
         /\ GroupIndexOf(groups, order) # 0
              => /\ GroupIndexOf(groups, order) \in DOMAIN groups
                 /\ InGroup(groups[GroupIndexOf(groups, order)], order)
         /\ \A k \in DOMAIN groups : InGroup(groups[k], order)
              => GroupIndexOf(groups, order) # 0 /\ GroupIndexOf(groups, order) <= k
<1> DEFINE T == {k \in DOMAIN groups : InGroup(groups[k], order)}
<1>1. Len(groups) \in Nat /\ DOMAIN groups = 1..Len(groups)
  BY LenProperties
<1>2. T \subseteq Nat /\ T \subseteq 1..Len(groups)
  BY <1>1
<1>3. CASE Covers(groups, order)
  <2>1. T # {}
    BY <1>3 DEF Covers
  <2>2. GroupIndexOf(groups, order) = Min(T)
    BY <1>3 DEF GroupIndexOf
  <2>3. Min(T) \in T /\ \A y \in T : Min(T) <= y
    <3> HIDE DEF T
    <3> QED
      BY <1>2, <2>1, MinOf
  <2>4. Min(T) \in 1..Len(groups) /\ InGroup(groups[Min(T)], order)
    BY <2>3, <1>1
  <2>5. \A m \in 1..Len(groups) : m \in 0..Len(groups) /\ m # 0
    BY <1>1
  <2>6. /\ GroupIndexOf(groups, order) \in 0..Len(groups)
        /\ GroupIndexOf(groups, order) # 0
    BY <2>2, <2>4, <2>5
  <2> QED
    BY <1>1, <2>2, <2>3, <2>4, <2>6
<1>4. CASE ~Covers(groups, order)
  <2>1. GroupIndexOf(groups, order) = 0
    BY <1>4 DEF GroupIndexOf
  <2> QED
    BY <1>1, <1>4, <2>1 DEF Covers
<1> QED
  BY <1>3, <1>4

LEMMA UsableType ==
  ASSUME NEW groups \in Seq(OrderGroup)
  PROVE  UsableGroups(groups) \in Seq(OrderGroup)
BY EmptySeq DEF UsableGroups

\* "Stops before" orders guests but for ties, and the ties are the tiers.
LEMMA StopsBeforeOrders ==
  ASSUME NEW groups \in Seq(OrderGroup), NEW a \in Guest, NEW b \in Guest, NEW c \in Guest
  PROVE  /\ StopsBefore(a, b, groups) => ~StopsBefore(b, a, groups)
         /\ ~StopsBefore(a, b, groups) /\ ~StopsBefore(b, c, groups)
              => ~StopsBefore(a, c, groups)
         /\ SameTier(a, b, groups)
              <=> ~StopsBefore(a, b, groups) /\ ~StopsBefore(b, a, groups)
<1>1. CASE groups # <<>>
  <2> DEFINE g(x) == GroupIndexOf(groups, x.order)
  <2>1. g(a) \in Int /\ g(b) \in Int /\ g(c) \in Int
    <3>1. \A n \in 0..Len(groups) : n \in Int
      BY LenProperties
    <3> QED
      BY <3>1, GroupIndex
  <2>2. /\ StopsBefore(a, b, groups) <=> g(a) < g(b)
        /\ StopsBefore(b, a, groups) <=> g(b) < g(a)
        /\ StopsBefore(b, c, groups) <=> g(b) < g(c)
        /\ StopsBefore(a, c, groups) <=> g(a) < g(c)
        /\ SameTier(a, b, groups) <=> g(a) = g(b)
    BY <1>1 DEF StopsBefore, SameTier
  <2> HIDE DEF g
  <2> QED
    BY <2>1, <2>2
<1>2. CASE groups = <<>>
  <2>1. a.order \in Int /\ b.order \in Int /\ c.order \in Int
    BY DEF Guest
  <2> QED
    BY <1>2, <2>1 DEF StopsBefore, SameTier, Unordered, OrderUnset
<1> QED
  BY <1>1, <1>2

\* ordered holds each of some positions of guests in one place, and none after one
\* that it stops before.
IsInOrder(ordered, guests, running, groups) ==
  /\ ordered \in Seq(Guest) /\ Len(ordered) = Cardinality(running)
  /\ \E p \in [1..Len(ordered) -> running] :
       /\ \A i \in running : \E k \in 1..Len(ordered) : p[k] = i
       /\ \A k, l \in 1..Len(ordered) : p[k] = p[l] => k = l
       /\ \A k \in 1..Len(ordered) : ordered[k] = guests[p[k]]
  /\ \A k, l \in 1..Len(ordered) :
       k < l => ~StopsBefore(ordered[l], ordered[k], groups)

RunningAt(guests) == {i \in DOMAIN guests : guests[i].running}

\* The guests that are stopped are the running ones, in their order.
LEMMA StopsInOrder ==
  ASSUME NEW guests \in Seq(Guest), NEW groups \in Seq(OrderGroup)
  PROVE  IsInOrder(ShutdownOrder(guests, groups), guests, RunningAt(guests), groups)
<1> DEFINE running == {i \in DOMAIN guests : guests[i].running}
           ordered == ShutdownOrder(guests, groups)
<1> DEFINE SB(i, j) == StopsBefore(guests[i], guests[j], groups)
<1> DEFINE before == [i \in running |-> {j \in running : SB(j, i) \/ (~SB(i, j) /\ j < i)}]
<1> DEFINE n == Cardinality(running)
<1> DEFINE p == Sorted(running, before)
<1>1. Len(guests) \in Nat /\ DOMAIN guests = 1..Len(guests)
  BY LenProperties
<1>2. \A i \in running : i \in DOMAIN guests /\ i \in Int /\ guests[i] \in Guest
  BY <1>1, ElementOfSeq
<1>3. IsFiniteSet(running)
  <2>1. IsFiniteSet(1..Len(guests))
    BY <1>1, FS_Interval
  <2> QED
    BY <1>1, <2>1, FS_Subset
<1>4. /\ \A i, j \in running : SB(i, j) => ~SB(j, i)
      /\ \A i, j, k \in running : ~SB(i, j) /\ ~SB(j, k) => ~SB(i, k)
  BY <1>2, StopsBeforeOrders
<1>5. before \in [running -> SUBSET running]
  OBVIOUS
<1>6. \A i, j \in running : j \in before[i] <=> SB(j, i) \/ (~SB(i, j) /\ j < i)
  OBVIOUS
<1> HIDE DEF before, SB, running
<1>7. \A i \in running : i \notin before[i]
  BY <1>2, <1>4, <1>6
<1>8. \A i, j \in running : i # j => i \in before[j] \/ j \in before[i]
  BY <1>2, <1>4, <1>6
<1>9. \A i, j \in running : j \in before[i] => before[j] \subseteq before[i]
  <2> SUFFICES ASSUME NEW i \in running, NEW j \in running, j \in before[i],
                      NEW k \in running, k \in before[j]
               PROVE  k \in before[i]
    BY <1>5
  <2>1. /\ SB(j, i) \/ (~SB(i, j) /\ j < i)
        /\ SB(k, j) \/ (~SB(j, k) /\ k < j)
    BY <1>6
  <2>2. i \in Int /\ j \in Int /\ k \in Int
    BY <1>2
  <2>3. ~SB(i, k)
    BY <2>1, <1>4
  <2>4. ~SB(k, i) => k < i
    BY <2>1, <2>2, <1>4
  <2> QED
    BY <2>3, <2>4, <1>6
<1>10. /\ n \in Nat /\ p \in [1..n -> running]
       /\ \A i \in running : \E k \in 1..n : p[k] = i
       /\ \A k, l \in 1..n : k < l <=> p[k] \in before[p[l]]
  <2>1. PutsInTurn(before, running)
    BY <1>5, <1>7, <1>8, <1>9 DEF PutsInTurn
  <2> HIDE DEF n, p
  <2>2. InTurn(Sorted(running, before), before, running)
    BY <1>3, <2>1, SortedInTurn
  <2> QED
    BY <2>2 DEF InTurn, n, p
<1>11. ordered = [k \in DOMAIN p |-> guests[p[k]]]
  BY DEF ShutdownOrder, before, SB, running
<1> HIDE DEF n, p, ordered
<1>12. DOMAIN ordered = 1..n /\ \A k \in 1..n : ordered[k] = guests[p[k]]
  BY <1>10, <1>11
<1>13. \A k \in 1..n : ordered[k] \in Guest
  BY <1>10, <1>12, <1>2
<1>14. ordered \in Seq(Guest) /\ Len(ordered) = n
  <2>1. ordered = [k \in 1..n |-> ordered[k]]
    BY <1>11, <1>12
  <2>2. ordered \in [1..n -> Guest]
    BY <2>1, <1>13
  <2>3. ordered \in Seq(Guest)
    BY <2>2, <1>10
  <2> QED
    BY <1>10, <1>12, <2>3, LenOfDomain
<1>15. \A k, l \in 1..n : p[k] = p[l] => k = l
  <2> TAKE k, l \in 1..n
  <2>1. k \in Int /\ l \in Int /\ p[k] \in running /\ p[l] \in running
    BY <1>10
  <2> QED
    BY <2>1, <1>7, <1>10
<1>16. \A k, l \in 1..n : k < l => ~StopsBefore(ordered[l], ordered[k], groups)
  <2> TAKE k, l \in 1..n
  <2> HAVE k < l
  <2>1. p[k] \in running /\ p[l] \in running /\ p[k] \in before[p[l]]
    BY <1>10
  <2>2. ~SB(p[l], p[k])
    BY <2>1, <1>4, <1>6
  <2> QED
    BY <2>2, <1>12 DEF SB
<1>17. \E q \in [1..Len(ordered) -> running] :
         /\ \A i \in running : \E k \in 1..Len(ordered) : q[k] = i
         /\ \A k, l \in 1..Len(ordered) : q[k] = q[l] => k = l
         /\ \A k \in 1..Len(ordered) : ordered[k] = guests[q[k]]
  <2>1. p \in [1..Len(ordered) -> running]
    BY <1>10, <1>14
  <2> QED
    BY <2>1, <1>10, <1>12, <1>14, <1>15
<1>18. IsInOrder(ordered, guests, running, groups)
  BY <1>10, <1>14, <1>16, <1>17 DEF IsInOrder, n
<1> QED
  BY <1>18 DEF RunningAt, running, ordered

(***************************************************************************)
(* Tiers and waves.                                                        *)
(***************************************************************************)

\* A tier starts at or before each of its guests, at one that is not of the tier of
\* the guest before it, and there is no such guest between.
LEMMA TierStarts ==
  ASSUME NEW ordered, NEW groups, NEW k \in Nat \ {0}
  PROVE  /\ TierStart(ordered, k, groups) \in 1..k
         /\ \A j \in 1..k :
              j = 1 \/ ~SameTier(ordered[j - 1], ordered[j], groups)
                => j <= TierStart(ordered, k, groups)
         /\ \/ TierStart(ordered, k, groups) = 1
            \/ ~SameTier(ordered[TierStart(ordered, k, groups) - 1],
                         ordered[TierStart(ordered, k, groups)], groups)
<1> DEFINE T == {j \in 1..k : j = 1 \/ ~SameTier(ordered[j - 1], ordered[j], groups)}
<1>1. 1 \in T /\ T \subseteq 1..k /\ T # {}
  OBVIOUS
<1>2. Max(T) \in T /\ \A y \in T : Max(T) >= y
  <2> HIDE DEF T
  <2> QED
    BY <1>1, MaxOf
<1>3. TierStart(ordered, k, groups) = Max(T)
  BY DEF TierStart
<1> DEFINE m == Max(T)
<1>4. /\ m \in 1..k /\ (m = 1 \/ ~SameTier(ordered[m - 1], ordered[m], groups))
      /\ \A j \in T : j <= m
  <2>1. \A j \in 1..k : m \in 1..k => (m >= j <=> j <= m)
    <3> HIDE DEF m
    <3> QED
      OBVIOUS
  <2> QED
    BY <1>2, <2>1
<1> HIDE DEF m
<1>5. \A j \in 1..k : (j = 1 \/ ~SameTier(ordered[j - 1], ordered[j], groups)) => j <= m
  BY <1>4
<1> HIDE DEF T
<1> QED
  BY <1>3, <1>4, <1>5 DEF m

\* Where a tier starts, there a wave does, whatever the concurrency.
LEMMA TierStartsWave ==
  ASSUME NEW ordered, NEW groups, NEW c \in Int \ {0}, NEW k \in Nat \ {0},
         k = 1 \/ ~SameTier(ordered[k - 1], ordered[k], groups)
  PROVE  StartsWave(ordered, k, c, groups)
<1> DEFINE t == TierStart(ordered, k, groups)
<1>1. t \in 1..k /\ k <= t
  BY TierStarts
<1>2. StartsWave(ordered, k, c, groups) <=> IF c < 0 THEN k - t = 0 ELSE (k - t) % c = 0
  BY DEF StartsWave
<1> HIDE DEF t
<1>3. k - t = 0
  BY <1>1
<1>4. c > 0 => 0 % c = 0
  OBVIOUS
<1> QED
  BY <1>2, <1>3, <1>4

\* A later guest is in no earlier wave, and in a later one where a wave starts
\* between; the guests' waves are counted from one.
LEMMA WavesGrow ==
  ASSUME NEW ordered, NEW groups, NEW c \in Int \ {0}, NEW k \in Nat, NEW l \in Nat, k <= l
  PROVE  /\ GuestWave(ordered, k, c, groups) \in Nat
         /\ GuestWave(ordered, l, c, groups) \in Nat
         /\ GuestWave(ordered, k, c, groups) <= GuestWave(ordered, l, c, groups)
         /\ (\E j \in (k + 1)..l : StartsWave(ordered, j, c, groups))
              <=> GuestWave(ordered, k, c, groups) < GuestWave(ordered, l, c, groups)
         /\ k # 0 => GuestWave(ordered, k, c, groups) >= 1
<1> DEFINE S(n) == {j \in 1..n : StartsWave(ordered, j, c, groups)}
<1>1. \A n \in Nat : IsFiniteSet(S(n)) /\ Cardinality(S(n)) \in Nat
                     /\ GuestWave(ordered, n, c, groups) = Cardinality(S(n))
  <2> TAKE n \in Nat
  <2>1. IsFiniteSet(1..n)
    BY FS_Interval
  <2>2. IsFiniteSet(S(n))
    BY <2>1, FS_Subset
  <2> QED
    BY <2>2, FS_CardinalityType DEF GuestWave
<1>2. S(k) \subseteq S(l)
  OBVIOUS
<1>3. \A j \in S(l) : j \in S(k) \/ j \in (k + 1)..l
  OBVIOUS
<1>4. \A j \in (k + 1)..l : StartsWave(ordered, j, c, groups) => j \in S(l) /\ j \notin S(k)
  OBVIOUS
<1>5. Cardinality(S(k)) <= Cardinality(S(l))
  BY <1>1, <1>2, FS_Subset
<1>6. Cardinality(S(k)) = Cardinality(S(l)) => S(k) = S(l)
  BY <1>1, <1>2, FS_Subset
<1>7. k # 0 => 1 \in S(k)
  BY TierStartsWave
<1>8. k # 0 => S(k) # {}
  BY <1>7
<1>9. S(k) = S(l) <=> ~\E j \in (k + 1)..l : StartsWave(ordered, j, c, groups)
  <2>1. S(k) = S(l) => ~\E j \in (k + 1)..l : StartsWave(ordered, j, c, groups)
    BY <1>4
  <2>2. S(k) # S(l) => \E j \in S(l) : j \notin S(k)
    BY <1>2
  <2>3. \A j \in S(l) : StartsWave(ordered, j, c, groups)
    OBVIOUS
  <2> QED
    BY <2>1, <2>2, <2>3, <1>3
<1>10. Cardinality(S(k)) = 0 <=> S(k) = {}
  BY <1>1, FS_EmptySet
<1> DEFINE a == Cardinality(S(k)) b == Cardinality(S(l))
<1>11. /\ a \in Nat /\ b \in Nat /\ a <= b
       /\ a = b <=> ~\E j \in (k + 1)..l : StartsWave(ordered, j, c, groups)
       /\ k # 0 => a # 0
       /\ GuestWave(ordered, k, c, groups) = a /\ GuestWave(ordered, l, c, groups) = b
  BY <1>1, <1>5, <1>6, <1>8, <1>9, <1>10
<1> HIDE DEF a, b
<1> QED
  BY <1>11

LEMMA NextMultiple ==
  ASSUME NEW p \in Nat, NEW c \in Nat \ {0}
  PROVE  p % c \in 0..(c - 1) /\ (p + c - (p % c)) % c = 0
<1>1. p % c \in 0..(c - 1)
  OBVIOUS
<1>2. (p + c - (p % c)) % c = 0
  OBVIOUS
<1> QED
  BY <1>1, <1>2

\* A wave has no more guests than may stop at once: between two of one wave are
\* fewer than that.
LEMMA WavesAreShort ==
  ASSUME NEW ordered, NEW groups, NEW c \in Nat \ {0}, NEW k \in Nat \ {0}, NEW l \in Nat,
         k <= l, GuestWave(ordered, k, c, groups) = GuestWave(ordered, l, c, groups)
  PROVE  l - k < c
<1> DEFINE t == TierStart(ordered, l, groups)
<1>1. \A j \in (k + 1)..l : ~StartsWave(ordered, j, c, groups)
  <2>1. c \in Int \ {0} /\ k \in Nat /\ GuestWave(ordered, k, c, groups) \in Nat
    BY WavesGrow
  <2> DEFINE u == GuestWave(ordered, k, c, groups)
  <2>2. u \in Nat /\ u = GuestWave(ordered, l, c, groups)
    BY <2>1
  <2> HIDE DEF u
  <2>3. ~(u < u)
    BY <2>2
  <2>4. ~(GuestWave(ordered, k, c, groups) < GuestWave(ordered, l, c, groups))
    BY <2>2, <2>3 DEF u
  <2> QED
    BY <2>1, <2>4, WavesGrow
<1>2. /\ t \in 1..l
      /\ t = 1 \/ ~SameTier(ordered[t - 1], ordered[t], groups)
      /\ \A j \in 1..l : j = 1 \/ ~SameTier(ordered[j - 1], ordered[j], groups) => j <= t
  BY TierStarts
<1> HIDE DEF t
<1>3. t \in Nat \ {0}
  BY <1>2
<1>4. StartsWave(ordered, t, c, groups)
  BY <1>2, <1>3, TierStartsWave
<1>5. t <= k
  BY <1>1, <1>2, <1>4
<1>6. \A j \in k..l : TierStart(ordered, j, groups) = t
  <2> TAKE j \in k..l
  <2> DEFINE u == TierStart(ordered, j, groups)
  <2>1. /\ u \in 1..j
        /\ u = 1 \/ ~SameTier(ordered[u - 1], ordered[u], groups)
        /\ \A i \in 1..j : i = 1 \/ ~SameTier(ordered[i - 1], ordered[i], groups) => i <= u
    BY TierStarts
  <2> HIDE DEF u
  <2>2. u \in 1..l /\ t \in 1..j
    BY <2>1, <1>2, <1>5
  <2>3. u <= t /\ t <= u
    BY <2>1, <2>2, <1>2
  <2> QED
    BY <2>2, <2>3 DEF u
<1>7. ASSUME l - k >= c PROVE FALSE
  <2> DEFINE p == k - t
  <2> DEFINE r == p % c
  <2>1. p \in Nat
    BY <1>3, <1>5
  <2>2. r \in 0..(c - 1) /\ (p + c - r) % c = 0
    BY <2>1, NextMultiple
  <2> HIDE DEF r
  <2> DEFINE j == k + c - r
  <2>3. j \in (k + 1)..l /\ j \in k..l /\ j - t = p + c - r
    BY <2>1, <2>2, <1>3, <1>5, <1>7
  <2>4. (j - t) % c = 0
    BY <2>2, <2>3
  <2>5. StartsWave(ordered, j, c, groups)
    <3> HIDE DEF j
    <3>1. TierStart(ordered, j, groups) = t
      BY <2>3, <1>6
    <3>2. ~(c < 0)
      OBVIOUS
    <3> QED
      BY <3>1, <3>2, <2>4 DEF StartsWave
  <2> QED
    BY <2>3, <2>5, <1>1
<1> QED
  BY <1>7

\* Where one guest stops before another, it is in an earlier wave: a wave starts
\* between them.
LEMMA TiersNeverMerge ==
  ASSUME NEW ordered \in Seq(Guest), NEW groups \in Seq(OrderGroup), NEW c \in Int \ {0},
         \A i, j \in 1..Len(ordered) : i < j => ~StopsBefore(ordered[j], ordered[i], groups),
         NEW k \in 1..Len(ordered), NEW l \in 1..Len(ordered),
         StopsBefore(ordered[k], ordered[l], groups)
  PROVE  GuestWave(ordered, k, c, groups) < GuestWave(ordered, l, c, groups)
<1> DEFINE SB(i, j) == StopsBefore(ordered[i], ordered[j], groups)
<1>1. Len(ordered) \in Nat /\ \A i \in 1..Len(ordered) : ordered[i] \in Guest
  BY LenProperties, ElementOfSeq
<1>2. /\ \A i, j \in 1..Len(ordered) : SB(i, j) => ~SB(j, i)
      /\ \A i, j, m \in 1..Len(ordered) : ~SB(i, j) /\ ~SB(j, m) => ~SB(i, m)
  BY <1>1, StopsBeforeOrders
<1>3. k < l
  <2>1. k # l
    BY <1>2
  <2>2. ~(l < k)
    OBVIOUS
  <2>3. k \in Int /\ l \in Int
    BY <1>1
  <2> QED
    BY <2>1, <2>2, <2>3
<1>4. SUFFICES ASSUME \A j \in (k + 1)..l : ~StartsWave(ordered, j, c, groups)
               PROVE  FALSE
  <2>1. k \in Nat /\ l \in Nat /\ k <= l
    BY <1>1, <1>3
  <2> QED
    BY <2>1, WavesGrow
<1> DEFINE T == {j \in k..l : SB(k, j)}
<1>5. T \subseteq Nat /\ l \in T
  BY <1>1, <1>3
<1>6. PICK m \in T : \A j \in T : ~(j < m)
  <2> HIDE DEF T
  <2> QED
    BY <1>5, Least
<1>7. m # k
  BY <1>2
<1>8. m \in (k + 1)..l /\ m - 1 \in k..l /\ m - 1 < m /\ m \in Nat \ {0} /\ m # 1
  BY <1>1, <1>7
<1>9. m \in 1..Len(ordered) /\ m - 1 \in 1..Len(ordered)
  BY <1>1, <1>8
<1>10. ~SB(k, m - 1)
  BY <1>6, <1>8
<1>11. SameTier(ordered[m - 1], ordered[m], groups)
  BY <1>4, <1>8, TierStartsWave
<1>12. ~SB(m - 1, m)
  BY <1>1, <1>9, <1>11, StopsBeforeOrders
<1>13. ~SB(k, m)
  <2> HIDE DEF SB
  <2> QED
    BY <1>2, <1>9, <1>10, <1>12
<1> QED
  BY <1>13

(***************************************************************************)
(* What Build puts together, and where each part of it is.                 *)
(***************************************************************************)

\* A function over a range from one.
FromOne(f, n) == f = [k \in 1..n |-> f[k]]

\* A sequence with three such functions as its parts.
InThree(p, f, g, h, a, b, c) ==
  /\ Len(p) = a + b + c
  /\ DOMAIN p = 1..(a + b + c)
  /\ \A k \in 1..a : p[k] = f[k]
  /\ \A k \in 1..b : p[a + k] = g[k]
  /\ \A k \in 1..c : p[a + b + k] = h[k]

\* Three functions over ranges from one, put together as sequences.
LEMMA ThreeParts ==
  ASSUME NEW a \in Nat, NEW b \in Nat, NEW c \in Nat, NEW f, NEW g, NEW h,
         FromOne(f, a), FromOne(g, b), FromOne(h, c)
  PROVE  InThree(f \o g \o h, f, g, h, a, b, c)
<1> DEFINE S == {f[k] : k \in 1..a} \union {g[k] : k \in 1..b} \union {h[k] : k \in 1..c}
<1>1. f \in Seq(S) /\ g \in Seq(S) /\ h \in Seq(S)
  <2>1. f \in [1..a -> S] /\ g \in [1..b -> S] /\ h \in [1..c -> S]
    BY DEF FromOne
  <2> HIDE DEF S
  <2> QED
    BY <2>1
<1> HIDE DEF S
<1>2. Len(f) = a /\ Len(g) = b /\ Len(h) = c
  <2>1. DOMAIN f = 1..a /\ DOMAIN g = 1..b /\ DOMAIN h = 1..c
    BY DEF FromOne
  <2> QED
    BY <2>1, LenOfDomain
<1>3. /\ f \o g \in Seq(S) /\ Len(f \o g) = a + b
      /\ \A i \in 1..(a + b) : (f \o g)[i] = IF i <= a THEN f[i] ELSE g[i - a]
  BY <1>1, <1>2, ConcatProperties
<1>4. /\ f \o g \o h \in Seq(S) /\ Len(f \o g \o h) = a + b + c
      /\ \A i \in 1..(a + b + c) :
           (f \o g \o h)[i] = IF i <= a + b THEN (f \o g)[i] ELSE h[i - (a + b)]
  <2> DEFINE fg == f \o g
  <2>1. fg \in Seq(S) /\ Len(fg) = a + b
    BY <1>3
  <2> HIDE DEF fg
  <2>2. h \in Seq(S) /\ Len(h) = c
    BY <1>1, <1>2
  <2>3. /\ fg \o h \in Seq(S) /\ Len(fg \o h) = Len(fg) + Len(h)
        /\ \A i \in 1 .. Len(fg) + Len(h) :
             (fg \o h)[i] = IF i <= Len(fg) THEN fg[i] ELSE h[i - Len(fg)]
    BY <2>1, <2>2, ConcatProperties
  <2>4. /\ fg \o h \in Seq(S) /\ Len(fg \o h) = a + b + c
        /\ \A i \in 1..(a + b + c) :
             (fg \o h)[i] = IF i <= a + b THEN fg[i] ELSE h[i - (a + b)]
    BY <2>1, <2>2, <2>3
  <2> QED
    BY <2>4 DEF fg
<1>5. DOMAIN (f \o g \o h) = 1..(a + b + c)
  BY <1>4, LenProperties
<1>6. \A k \in 1..a : (f \o g \o h)[k] = f[k]
  <2> TAKE k \in 1..a
  <2>1. k \in 1..(a + b) /\ k \in 1..(a + b + c) /\ k <= a + b /\ k <= a
    OBVIOUS
  <2> QED
    BY <2>1, <1>3, <1>4
<1>7. \A k \in 1..b : (f \o g \o h)[a + k] = g[k]
  <2> TAKE k \in 1..b
  <2>1. /\ a + k \in 1..(a + b) /\ a + k \in 1..(a + b + c) /\ a + k <= a + b
        /\ ~(a + k <= a) /\ a + k - a = k
    OBVIOUS
  <2> QED
    BY <2>1, <1>3, <1>4
<1>8. \A k \in 1..c : (f \o g \o h)[a + b + k] = h[k]
  <2> TAKE k \in 1..c
  <2> DEFINE i == a + b + k
  <2>1. i \in 1..(a + b + c) /\ ~(i <= a + b) /\ i - (a + b) = k
    OBVIOUS
  <2> HIDE DEF i
  <2>2. (f \o g \o h)[i] = h[i - (a + b)]
    BY <2>1, <1>4
  <2> QED
    BY <2>1, <2>2 DEF i
<1>9. Len(f \o g \o h) = a + b + c
  BY <1>4
<1> QED
  BY <1>5, <1>6, <1>7, <1>8, <1>9 DEF InThree

\* The steps before the guests: none of them stops a guest, and only the unmount
\* cannot be undone.
LEMMA PreludeSteps ==
  ASSUME NEW roles
  PROVE  /\ Len(Prelude(roles)) \in Nat
         /\ DOMAIN Prelude(roles) = 1..Len(Prelude(roles))
         /\ \A k \in 1..Len(Prelude(roles)) :
              /\ Prelude(roles)[k].action \in {Noout, QuorumNote, CordonNode, Unmount}
              /\ Prelude(roles)[k].back <=> Prelude(roles)[k].action # Unmount
<1> DEFINE a == [action |-> Noout, back |-> TRUE]
           b == [action |-> QuorumNote, back |-> TRUE]
           c == [action |-> CordonNode, back |-> TRUE]
           d == [action |-> Unmount, back |-> FALSE]
<1> DEFINE S == {a, b, c, d}
<1>1. \A x \in S : /\ x.action \in {Noout, QuorumNote, CordonNode, Unmount}
                   /\ x.back <=> x.action # Unmount
  BY DEF Noout, QuorumNote, CordonNode, Unmount
<1>2. a \in S /\ b \in S /\ c \in S /\ d \in S
  OBVIOUS
<1>3. /\ Prelude(roles) = (IF "ceph-osd" \in roles THEN <<a>> ELSE <<>>)
                          \o (IF "kubelet" \in roles THEN <<b, c, d>> ELSE <<>>)
  BY DEF Prelude
<1> HIDE DEF a, b, c, d, S
<1>4. <<>> \in Seq(S) /\ <<a>> \in Seq(S) /\ <<b, c, d>> \in Seq(S)
  BY <1>2
<1>5. Prelude(roles) \in Seq(S)
  BY <1>3, <1>4, ConcatProperties
<1> QED
  BY <1>1, <1>5, LenProperties, ElementOfSeq

\* The steps after the guests: the cut and the halt, the halt alone, or none.
LEMMA CodaSteps ==
  ASSUME NEW opts
  PROVE  /\ opts.omitHalt => Len(Coda(opts)) = 0
         /\ ~opts.omitHalt /\ opts.upsCut > 0
              => Len(Coda(opts)) = 2 /\ Coda(opts)[1] = UpsCut /\ Coda(opts)[2] = HostHalt
         /\ ~opts.omitHalt /\ ~(opts.upsCut > 0)
              => Len(Coda(opts)) = 1 /\ Coda(opts)[1] = HostHalt
         /\ DOMAIN Coda(opts) = 1..Len(Coda(opts))
<1> DEFINE u == UpsCut h == HostHalt
<1> DEFINE S == {u, h}
<1>1. Coda(opts) = IF opts.omitHalt THEN <<>>
                   ELSE (IF opts.upsCut > 0 THEN <<u>> ELSE <<>>) \o <<h>>
  BY DEF Coda
<1> HIDE DEF u, h
<1>2. /\ <<u>> \in Seq(S) /\ <<h>> \in Seq(S) /\ <<>> \in Seq(S)
      /\ Len(<<u>>) = 1 /\ Len(<<h>>) = 1 /\ Len(<<>>) = 0
      /\ <<u>>[1] = u /\ <<h>>[1] = h
  OBVIOUS
<1> HIDE DEF S
<1>3. CASE opts.omitHalt
  BY <1>1, <1>2, <1>3
<1>4. CASE ~opts.omitHalt /\ opts.upsCut > 0
  <2>1. Coda(opts) = <<u>> \o <<h>>
    BY <1>1, <1>4
  <2>2. /\ <<u>> \o <<h>> \in Seq(S) /\ Len(<<u>> \o <<h>>) = 1 + 1
        /\ \A i \in 1..(1 + 1) :
             (<<u>> \o <<h>>)[i] = IF i <= 1 THEN <<u>>[i] ELSE <<h>>[i - 1]
    BY <1>2, ConcatProperties
  <2>3. 1 \in 1..(1 + 1) /\ 2 \in 1..(1 + 1) /\ 1 <= 1 /\ ~(2 <= 1) /\ 2 - 1 = 1
    OBVIOUS
  <2>4. (<<u>> \o <<h>>)[1] = u /\ (<<u>> \o <<h>>)[2] = h
    BY <2>2, <2>3, <1>2
  <2> QED
    BY <1>4, <2>1, <2>2, <2>4, LenProperties DEF u, h
<1>5. CASE ~opts.omitHalt /\ ~(opts.upsCut > 0)
  <2>1. Coda(opts) = <<>> \o <<h>>
    BY <1>1, <1>5
  <2>2. <<>> \o <<h>> = <<h>>
    BY <1>2, ConcatEmptySeq
  <2> QED
    BY <1>2, <1>5, <2>1, <2>2, LenProperties DEF h
<1> QED
  BY <1>3, <1>4, <1>5

(***************************************************************************)
(* The parts of the plan of one host h.                                    *)
(***************************************************************************)
Before(h)  == Prelude(h.roles)
InUse(h)   == UsableGroups(h.opts.groups)
Stopped(h) == ShutdownOrder(h.guests, InUse(h))
After(h)   == Coda(WithDefaults(h.opts))
Limit(h)   == WithDefaults(h.opts).concurrency
Wave(h, k) == GuestWave(Stopped(h), k, Limit(h), InUse(h))

\* p is first what comes before the guests, then their stops, then what ends it.
InParts(p, h) ==
  LET a == Len(Before(h))
      b == Len(Stopped(h))
      c == Len(After(h))
  IN  /\ Len(p) = a + b + c /\ DOMAIN p = 1..(a + b + c)
      /\ \A k \in 1..a : p[k] = HostStep(Before(h)[k].action, Before(h)[k].back, k)
      /\ \A k \in 1..b : p[a + k] = StopStep(Stopped(h)[k], a + Wave(h, k),
                                             WithDefaults(h.opts), InUse(h))
      /\ \A k \in 1..c : p[a + b + k] = HostStep(After(h)[k], FALSE, a + Wave(h, b) + k)

\* What the planner is given, of one host.
LEMMA HostGiven ==
  ASSUME NEW h \in Hosts
  PROVE  /\ h.guests \in Seq(Guest) /\ h.opts.groups \in Seq(OrderGroup)
         /\ \A i, j \in DOMAIN h.guests : h.guests[i].id = h.guests[j].id => i = j
         /\ \A i \in DOMAIN h.guests : h.guests[i] \in Guest /\ h.guests[i].id # ThisHost
         /\ InUse(h) \in Seq(OrderGroup)
         /\ Limit(h) \in Int \ {0}
         /\ Limit(h) = IF h.opts.concurrency = 0 THEN 1 ELSE h.opts.concurrency
         /\ WithDefaults(h.opts).omitHalt = h.opts.omitHalt
         /\ WithDefaults(h.opts).upsCut = h.opts.upsCut
         /\ WithDefaults(h.opts).groups = h.opts.groups
         /\ h.opts.concurrency \in Int /\ h.opts.upsCut \in Int
<1>1. /\ h.guests \in Seq(Guest) /\ h.opts \in Options
      /\ \A i, j \in DOMAIN h.guests : h.guests[i].id = h.guests[j].id => i = j
  BY HostsAssumption
<1>2. h.opts.groups \in Seq(OrderGroup) /\ h.opts.concurrency \in Int /\ h.opts.upsCut \in Int
  BY <1>1 DEF Options
<1>3. /\ WithDefaults(h.opts).concurrency
           = IF h.opts.concurrency = 0 THEN 1 ELSE h.opts.concurrency
      /\ WithDefaults(h.opts).omitHalt = h.opts.omitHalt
      /\ WithDefaults(h.opts).upsCut = h.opts.upsCut
      /\ WithDefaults(h.opts).groups = h.opts.groups
  BY <1>1 DEF WithDefaults, Options
<1>4. \A i \in DOMAIN h.guests : h.guests[i] \in Guest /\ h.guests[i].id # ThisHost
  <2>1. \A i \in DOMAIN h.guests : h.guests[i] \in Guest
    BY <1>1, LenProperties, ElementOfSeq
  <2>2. \A g \in Guest : g.id \in GuestIds
    BY DEF Guest
  <2> QED
    BY <2>1, <2>2, GuestIdsAssumption
<1>5. InUse(h) \in Seq(OrderGroup)
  BY <1>2, UsableType DEF InUse
<1>6. Limit(h) \in Int \ {0} /\ Limit(h) = IF h.opts.concurrency = 0 THEN 1 ELSE h.opts.concurrency
  BY <1>2, <1>3 DEF Limit
<1> QED
  BY <1>1, <1>2, <1>3, <1>4, <1>5, <1>6

\* How long the parts are, and that the stops are of the running guests.
LEMMA Parts ==
  ASSUME NEW h \in Hosts
  PROVE  /\ Len(Before(h)) \in Nat /\ Len(Stopped(h)) \in Nat /\ Len(After(h)) \in Nat
         /\ Stopped(h) \in Seq(Guest)
         /\ \A k \in 1..Len(Stopped(h)) : Stopped(h)[k] \in Guest
         /\ \A i, j \in 1..Len(Stopped(h)) :
              i < j => ~StopsBefore(Stopped(h)[j], Stopped(h)[i], InUse(h))
<1>1. Len(Before(h)) \in Nat
  BY PreludeSteps DEF Before
<1>2. /\ Stopped(h) \in Seq(Guest)
      /\ \A i, j \in 1..Len(Stopped(h)) :
           i < j => ~StopsBefore(Stopped(h)[j], Stopped(h)[i], InUse(h))
  BY HostGiven, StopsInOrder DEF Stopped, IsInOrder
<1>3. Len(After(h)) \in Nat
  <2>1. Len(After(h)) \in {0, 1, 2}
    BY CodaSteps DEF After
  <2> QED
    BY <2>1
<1> QED
  BY <1>1, <1>2, <1>3, LenProperties, ElementOfSeq

\* Build puts those parts together.
LEMMA BuildInParts ==
  ASSUME NEW h \in Hosts
  PROVE  InParts(Build(h.roles, h.guests, h.opts), h)
<1> DEFINE a == Len(Before(h)) b == Len(Stopped(h)) c == Len(After(h))
<1> DEFINE opts == WithDefaults(h.opts)
           top == IF Stopped(h) = <<>> THEN a ELSE a + Wave(h, b)
           f == [k \in 1..a |-> HostStep(Before(h)[k].action, Before(h)[k].back, k)]
           g == [k \in 1..b |-> StopStep(Stopped(h)[k], a + Wave(h, k), opts, InUse(h))]
           e == [k \in 1..c |-> HostStep(After(h)[k], FALSE, CodaWave(top, k))]
<1>1. a \in Nat /\ b \in Nat /\ c \in Nat /\ Stopped(h) \in Seq(Guest)
  BY Parts
<1>2. DOMAIN Before(h) = 1..a /\ DOMAIN Stopped(h) = 1..b /\ DOMAIN After(h) = 1..c
  BY <1>1, LenProperties, PreludeSteps, CodaSteps DEF Before, After
<1>3. Build(h.roles, h.guests, h.opts) = f \o g \o e
  <2>1. opts.groups = h.opts.groups
    BY HostGiven
  <2> QED
    BY <1>2, <2>1 DEF Build, Before, InUse, Stopped, After, Limit, Wave
<1>4. top = a + Wave(h, b)
  <2>1. CASE Stopped(h) = <<>>
    <3>1. b = 0
      BY <2>1
    <3>2. Wave(h, 0) = 0
      <4>1. {j \in 1..0 : StartsWave(Stopped(h), j, Limit(h), InUse(h))} = {}
        OBVIOUS
      <4> QED
        BY <4>1, FS_EmptySet DEF Wave, GuestWave
    <3> QED
      BY <1>1, <2>1, <3>1, <3>2
  <2> QED
    BY <2>1
<1>5. /\ f = [k \in 1..a |-> f[k]] /\ g = [k \in 1..b |-> g[k]] /\ e = [k \in 1..c |-> e[k]]
      /\ \A k \in 1..a : f[k] = HostStep(Before(h)[k].action, Before(h)[k].back, k)
      /\ \A k \in 1..b : g[k] = StopStep(Stopped(h)[k], a + Wave(h, k), opts, InUse(h))
      /\ \A k \in 1..c : e[k] = HostStep(After(h)[k], FALSE, CodaWave(top, k))
  <2> HIDE DEF a, b, c, opts, top
  <2> QED
    OBVIOUS
<1> HIDE DEF a, b, c, f, g, e, top, opts
<1>6. /\ Len(f \o g \o e) = a + b + c
      /\ DOMAIN (f \o g \o e) = 1..(a + b + c)
      /\ \A k \in 1..a : (f \o g \o e)[k] = f[k]
      /\ \A k \in 1..b : (f \o g \o e)[a + k] = g[k]
      /\ \A k \in 1..c : (f \o g \o e)[a + b + k] = e[k]
  <2>1. FromOne(f, a) /\ FromOne(g, b) /\ FromOne(e, c)
    BY <1>5 DEF FromOne
  <2>2. InThree(f \o g \o e, f, g, e, a, b, c)
    BY <1>1, <2>1, ThreeParts
  <2> QED
    BY <2>2 DEF InThree
<1>7. \A k \in 1..c : e[k] = HostStep(After(h)[k], FALSE, a + Wave(h, b) + k)
  BY <1>4, <1>5 DEF CodaWave
<1>8. \A k \in 1..a : (f \o g \o e)[k] = HostStep(Before(h)[k].action, Before(h)[k].back, k)
  BY <1>5, <1>6
<1>9. \A k \in 1..b :
        (f \o g \o e)[a + k] = StopStep(Stopped(h)[k], a + Wave(h, k), opts, InUse(h))
  BY <1>5, <1>6
<1>10. \A k \in 1..c :
         (f \o g \o e)[a + b + k] = HostStep(After(h)[k], FALSE, a + Wave(h, b) + k)
  BY <1>6, <1>7
<1> QED
  BY <1>3, <1>6, <1>8, <1>9, <1>10 DEF InParts, a, b, c, opts

\* The waves of the guests: from one, growing, the last guest's the last.
LEMMA WavesOf ==
  ASSUME NEW h \in Hosts
  PROVE  /\ \A k \in 0..Len(Stopped(h)) : Wave(h, k) \in Nat
         /\ \A k \in 1..Len(Stopped(h)) : Wave(h, k) >= 1
         /\ \A k, l \in 0..Len(Stopped(h)) : k <= l => Wave(h, k) <= Wave(h, l)
         /\ \A k, l \in 1..Len(Stopped(h)) :
              StopsBefore(Stopped(h)[k], Stopped(h)[l], InUse(h)) => Wave(h, k) < Wave(h, l)
<1>1. Limit(h) \in Int \ {0} /\ InUse(h) \in Seq(OrderGroup)
  BY HostGiven
<1>2. Len(Stopped(h)) \in Nat
  BY Parts
<1>3. \A k \in 0..Len(Stopped(h)) : k \in Nat /\ k <= k
  BY <1>2
<1>4. \A k \in 1..Len(Stopped(h)) : k \in Nat /\ k <= k /\ k # 0
  BY <1>2
<1>5. \A k \in 0..Len(Stopped(h)) : Wave(h, k) \in Nat
  BY <1>1, <1>3, WavesGrow DEF Wave
<1>6. \A k \in 1..Len(Stopped(h)) : Wave(h, k) >= 1
  BY <1>1, <1>4, WavesGrow DEF Wave
<1>7. \A k, l \in 0..Len(Stopped(h)) : k <= l => Wave(h, k) <= Wave(h, l)
  BY <1>1, <1>3, WavesGrow DEF Wave
<1>8. \A k, l \in 1..Len(Stopped(h)) :
        StopsBefore(Stopped(h)[k], Stopped(h)[l], InUse(h)) => Wave(h, k) < Wave(h, l)
  <2> TAKE k, l \in 1..Len(Stopped(h))
  <2> HAVE StopsBefore(Stopped(h)[k], Stopped(h)[l], InUse(h))
  <2>1. /\ Stopped(h) \in Seq(Guest)
        /\ \A i, j \in 1..Len(Stopped(h)) :
             i < j => ~StopsBefore(Stopped(h)[j], Stopped(h)[i], InUse(h))
    BY Parts
  <2> QED
    BY <1>1, <2>1, TiersNeverMerge DEF Wave
<1> QED
  BY <1>5, <1>6, <1>7, <1>8

LEMMA HostStepFields ==
  ASSUME NEW action, NEW back, NEW w
  PROVE  /\ HostStep(action, back, w).action = action /\ HostStep(action, back, w).target = ThisHost
         /\ HostStep(action, back, w).reversible = back /\ HostStep(action, back, w).wave = w
BY DEF HostStep

\* Where a step of p stands says what it is, and in which wave: a of them, then b stops,
\* then c.
IsRead(p, h, a, b, c) ==
  /\ a \in Nat /\ b \in Nat /\ c \in Nat /\ Wave(h, b) \in Nat
  /\ Len(p) = a + b + c /\ DOMAIN p = 1..(a + b + c)
  /\ \A i \in DOMAIN p : \/ i \in 1..a
                         \/ \E k \in 1..b : i = a + k
                         \/ \E k \in 1..c : i = a + b + k
  /\ \A k \in 1..a :
       /\ k \in DOMAIN p
       /\ p[k].action \in {Noout, QuorumNote, CordonNode, Unmount}
       /\ p[k].reversible <=> p[k].action # Unmount
       /\ p[k].target = ThisHost /\ p[k].wave = k
  /\ \A k \in 1..b :
       /\ a + k \in DOMAIN p
       /\ p[a + k].action = GuestStop /\ p[a + k].reversible = TRUE
       /\ p[a + k].target = Stopped(h)[k].id /\ p[a + k].target # ThisHost
       /\ p[a + k].wave = a + Wave(h, k)
       /\ Wave(h, k) \in Nat /\ Wave(h, k) >= 1 /\ Wave(h, k) <= Wave(h, b)
  /\ \A k \in 1..c :
       /\ a + b + k \in DOMAIN p
       /\ p[a + b + k].action = After(h)[k] /\ After(h)[k] \in {UpsCut, HostHalt}
       /\ p[a + b + k].reversible = FALSE
       /\ p[a + b + k].target = ThisHost /\ p[a + b + k].wave = a + Wave(h, b) + k

LEMMA StepsRead ==
  ASSUME NEW h \in Hosts, NEW p, InParts(p, h)
  PROVE  IsRead(p, h, Len(Before(h)), Len(Stopped(h)), Len(After(h)))
<1> DEFINE a == Len(Before(h)) b == Len(Stopped(h)) c == Len(After(h))
<1>1. a \in Nat /\ b \in Nat /\ c \in Nat /\ \A k \in 1..b : Stopped(h)[k] \in Guest
  BY Parts
<1>2. /\ Len(p) = a + b + c /\ DOMAIN p = 1..(a + b + c)
      /\ \A k \in 1..a : p[k] = HostStep(Before(h)[k].action, Before(h)[k].back, k)
      /\ \A k \in 1..b : p[a + k] = StopStep(Stopped(h)[k], a + Wave(h, k),
                                             WithDefaults(h.opts), InUse(h))
      /\ \A k \in 1..c : p[a + b + k] = HostStep(After(h)[k], FALSE, a + Wave(h, b) + k)
  BY DEF InParts
<1>3. \A i \in DOMAIN p : \/ i \in 1..a
                          \/ \E k \in 1..b : i = a + k
                          \/ \E k \in 1..c : i = a + b + k
  <2> SUFFICES ASSUME NEW i \in 1..(a + b + c)
               PROVE  \/ i \in 1..a
                      \/ \E k \in 1..b : i = a + k
                      \/ \E k \in 1..c : i = a + b + k
    BY <1>2
  <2>1. \/ i \in 1..a
        \/ i - a \in 1..b /\ i = a + (i - a)
        \/ i - (a + b) \in 1..c /\ i = a + b + (i - (a + b))
    BY <1>1
  <2> QED
    BY <2>1
<1>4. /\ \A k \in 1..a : k \in DOMAIN p
      /\ \A k \in 1..b : a + k \in DOMAIN p
      /\ \A k \in 1..c : a + b + k \in DOMAIN p
  <2>1. /\ \A k \in 1..a : k \in 1..(a + b + c)
        /\ \A k \in 1..b : a + k \in 1..(a + b + c)
        /\ \A k \in 1..c : a + b + k \in 1..(a + b + c)
    BY <1>1
  <2> QED
    BY <1>2, <2>1
<1>5. \A k \in 1..a :
        /\ p[k].action \in {Noout, QuorumNote, CordonNode, Unmount}
        /\ p[k].reversible <=> p[k].action # Unmount
        /\ p[k].target = ThisHost /\ p[k].wave = k
  <2> TAKE k \in 1..a
  <2>1. /\ Before(h)[k].action \in {Noout, QuorumNote, CordonNode, Unmount}
        /\ Before(h)[k].back <=> Before(h)[k].action # Unmount
    BY PreludeSteps DEF Before
  <2>2. /\ p[k].action = Before(h)[k].action /\ p[k].reversible = Before(h)[k].back
        /\ p[k].target = ThisHost /\ p[k].wave = k
    BY <1>2, HostStepFields
  <2> QED
    BY <2>1, <2>2
<1>6. \A k \in 1..b :
        /\ p[a + k].action = GuestStop /\ p[a + k].reversible = TRUE
        /\ p[a + k].target = Stopped(h)[k].id
        /\ p[a + k].wave = a + Wave(h, k)
  <2> TAKE k \in 1..b
  <2> DEFINE s == p[a + k]
             w == a + Wave(h, k)
  <2>1. s = StopStep(Stopped(h)[k], w, WithDefaults(h.opts), InUse(h))
    BY <1>2
  <2> HIDE DEF s, w
  <2>2. /\ s.action = GuestStop /\ s.reversible = TRUE
        /\ s.target = Stopped(h)[k].id /\ s.wave = w
    BY <2>1 DEF StopStep
  <2> QED
    BY <2>2 DEF s, w
<1>7. \A k \in 1..b : Stopped(h)[k].id # ThisHost
  BY <1>1, GuestIdsAssumption DEF Guest
<1>8. /\ Wave(h, b) \in Nat
      /\ \A k \in 1..b : Wave(h, k) \in Nat /\ Wave(h, k) >= 1 /\ Wave(h, k) <= Wave(h, b)
  <2>1. b \in 0..b /\ \A k \in 1..b : k \in 0..b /\ k <= b
    BY <1>1
  <2> QED
    BY <2>1, WavesOf
<1>9. \A k \in 1..c : After(h)[k] \in {UpsCut, HostHalt}
  <2>1. \A k \in 1..0 : FALSE
    OBVIOUS
  <2>2. (\A k \in 1..1 : k = 1) /\ (\A k \in 1..2 : k = 1 \/ k = 2)
    OBVIOUS
  <2> QED
    BY <2>1, <2>2, CodaSteps DEF After
<1>10. \A k \in 1..c :
        /\ p[a + b + k].action = After(h)[k] /\ p[a + b + k].reversible = FALSE
        /\ p[a + b + k].target = ThisHost /\ p[a + b + k].wave = a + Wave(h, b) + k
  <2> TAKE k \in 1..c
  <2> DEFINE s == p[a + b + k]
             w == a + Wave(h, b) + k
  <2>1. s = HostStep(After(h)[k], FALSE, w)
    BY <1>2
  <2> HIDE DEF s, w
  <2>2. /\ s.action = After(h)[k] /\ s.reversible = FALSE
        /\ s.target = ThisHost /\ s.wave = w
    BY <2>1 DEF HostStep
  <2> QED
    BY <2>2 DEF s, w
<1> HIDE DEF a, b, c
<1>12. Len(p) = a + b + c /\ DOMAIN p = 1..(a + b + c) /\ a \in Nat /\ b \in Nat /\ c \in Nat
  BY <1>1, <1>2
<1>13. \A k \in 1..a :
         /\ k \in DOMAIN p
         /\ p[k].action \in {Noout, QuorumNote, CordonNode, Unmount}
         /\ p[k].reversible <=> p[k].action # Unmount
         /\ p[k].target = ThisHost /\ p[k].wave = k
  BY <1>4, <1>5
<1>14. \A k \in 1..b :
         /\ a + k \in DOMAIN p
         /\ p[a + k].action = GuestStop /\ p[a + k].reversible = TRUE
         /\ p[a + k].target = Stopped(h)[k].id /\ p[a + k].target # ThisHost
         /\ p[a + k].wave = a + Wave(h, k)
         /\ Wave(h, k) \in Nat /\ Wave(h, k) >= 1 /\ Wave(h, k) <= Wave(h, b)
  BY <1>4, <1>6, <1>7, <1>8
<1>15. \A k \in 1..c :
         /\ a + b + k \in DOMAIN p
         /\ p[a + b + k].action = After(h)[k] /\ After(h)[k] \in {UpsCut, HostHalt}
         /\ p[a + b + k].reversible = FALSE
         /\ p[a + b + k].target = ThisHost /\ p[a + b + k].wave = a + Wave(h, b) + k
  BY <1>4, <1>9, <1>10
<1>16. Wave(h, b) \in Nat
  BY <1>8
<1>11. IsRead(p, h, a, b, c)
  BY <1>12, <1>3, <1>13, <1>14, <1>15, <1>16, Zenon DEF IsRead
<1> QED
  BY <1>11 DEF a, b, c

(***************************************************************************)
(* The shape of every plan.                                                *)
(***************************************************************************)

\* What a step can be told by.
StepReads(step) ==
  /\ step.reversible <=> step.action \notin Irreversible
  /\ step.action = GuestStop <=> step.target # ThisHost

\* The waves of a plan by where its steps stand, w of them the guests'.
IsLaidOut(p, a, b, c, w) ==
  /\ \A i \in 1..a :
       /\ p[i].action \in {Noout, QuorumNote, CordonNode, Unmount}
       /\ p[i].wave = i
  /\ \A i \in (a + 1)..(a + b) :
       /\ p[i].action = GuestStop /\ p[i].reversible = TRUE
       /\ p[i].wave \in (a + 1)..(a + w)
  /\ \A i \in (a + b + 1)..(a + b + c) :
       /\ p[i].action \in {UpsCut, HostHalt} /\ p[i].reversible = FALSE
       /\ p[i].wave = i - b + w
  /\ \A i, j \in (a + 1)..(a + b) : i <= j => p[i].wave <= p[j].wave
  /\ \A i \in 1..(a + b + c) : StepReads(p[i])

LEMMA WavesRead ==
  ASSUME NEW h \in Hosts, NEW p, InParts(p, h),
         NEW a, a = Len(Before(h)), NEW b, b = Len(Stopped(h)), NEW c, c = Len(After(h)),
         NEW w, w = Wave(h, b)
  PROVE  IsLaidOut(p, a, b, c, w)
<1>0. IsRead(p, h, a, b, c)
  BY StepsRead
<1>1. /\ a \in Nat /\ b \in Nat /\ c \in Nat /\ w \in Nat
      /\ \A k \in 1..a :
           /\ p[k].action \in {Noout, QuorumNote, CordonNode, Unmount}
           /\ p[k].reversible <=> p[k].action # Unmount
           /\ p[k].target = ThisHost /\ p[k].wave = k
      /\ \A k \in 1..b :
           /\ p[a + k].action = GuestStop /\ p[a + k].reversible = TRUE
           /\ p[a + k].target # ThisHost
           /\ p[a + k].wave = a + Wave(h, k)
           /\ Wave(h, k) \in Nat /\ Wave(h, k) >= 1 /\ Wave(h, k) <= w
      /\ \A k \in 1..c :
           /\ p[a + b + k].action \in {UpsCut, HostHalt}
           /\ p[a + b + k].reversible = FALSE
           /\ p[a + b + k].target = ThisHost /\ p[a + b + k].wave = a + w + k
  BY <1>0 DEF IsRead
<1> DEFINE Numbers == a \in Nat /\ b \in Nat /\ c \in Nat /\ w \in Nat
<1>01. Numbers
  BY <1>1
<1>2. ASSUME NEW i \in (a + 1)..(a + b)
      PROVE  /\ i - a \in 1..b /\ a + (i - a) = i
             /\ p[i].action = GuestStop /\ p[i].reversible = TRUE /\ p[i].target # ThisHost
             /\ p[i].wave = a + Wave(h, i - a) /\ p[i].wave \in (a + 1)..(a + w)
  <2> DEFINE k == i - a
  <2>1. k \in 1..b /\ a + k = i
    BY <1>1
  <2> HIDE DEF k
  <2>2. /\ p[i].action = GuestStop /\ p[i].reversible = TRUE /\ p[i].target # ThisHost
        /\ p[i].wave = a + Wave(h, k) /\ Wave(h, k) \in 1..w
    BY <1>1, <2>1
  <2>3. \A v \in 1..w : a + v \in (a + 1)..(a + w)
    BY <1>1
  <2> QED
    BY <2>1, <2>2, <2>3 DEF k
<1>3. ASSUME NEW i \in (a + b + 1)..(a + b + c)
      PROVE  /\ p[i].action \in {UpsCut, HostHalt} /\ p[i].reversible = FALSE
             /\ p[i].target = ThisHost /\ p[i].wave = i - b + w
  <2> DEFINE k == i - (a + b)
  <2>1. k \in 1..c /\ a + b + k = i /\ a + w + k = i - b + w
    BY <1>01
  <2> HIDE DEF k
  <2>2. /\ p[a + b + k].action \in {UpsCut, HostHalt} /\ p[a + b + k].reversible = FALSE
        /\ p[a + b + k].target = ThisHost /\ p[a + b + k].wave = a + w + k
    BY <1>1, <2>1
  <2> QED
    BY <2>1, <2>2
<1>4. ASSUME NEW i \in (a + 1)..(a + b), NEW j \in (a + 1)..(a + b), i <= j
      PROVE  p[i].wave <= p[j].wave
  <2> DEFINE k == i - a l == j - a
  <2>1. k \in 0..b /\ l \in 0..b /\ k <= l
    BY <1>1, <1>4
  <2> HIDE DEF k, l
  <2>2. Wave(h, k) \in Nat /\ Wave(h, l) \in Nat /\ Wave(h, k) <= Wave(h, l)
    BY <2>1, WavesOf
  <2>3. p[i].wave = a + Wave(h, k) /\ p[j].wave = a + Wave(h, l)
    BY <1>2 DEF k, l
  <2> DEFINE u == Wave(h, k) v == Wave(h, l)
  <2>4. u \in Nat /\ v \in Nat /\ u <= v /\ p[i].wave = a + u /\ p[j].wave = a + v
    BY <2>2, <2>3
  <2> HIDE DEF u, v
  <2> QED
    BY <1>1, <2>4
<1>5. ASSUME NEW i \in 1..(a + b + c)
      PROVE  /\ p[i].reversible <=> p[i].action \notin Irreversible
             /\ p[i].action = GuestStop <=> p[i].target # ThisHost
  <2>1. i \in 1..a \/ i \in (a + 1)..(a + b) \/ i \in (a + b + 1)..(a + b + c)
    BY <1>1
  <2>2. CASE i \in 1..a
    BY <1>1, <2>2 DEF Irreversible, Noout, QuorumNote, CordonNode, Unmount, UpsCut, HostHalt,
                      GuestStop
  <2>3. CASE i \in (a + 1)..(a + b)
    BY <1>2, <2>3 DEF Irreversible, Unmount, UpsCut, HostHalt, GuestStop
  <2>4. CASE i \in (a + b + 1)..(a + b + c)
    BY <1>3, <2>4 DEF Irreversible, UpsCut, HostHalt, GuestStop
  <2> QED
    BY <2>1, <2>2, <2>3, <2>4
<1>6. \A i \in 1..a : /\ p[i].action \in {Noout, QuorumNote, CordonNode, Unmount}
                      /\ p[i].wave = i
  BY <1>1
<1>7. \A i \in (a + 1)..(a + b) : /\ p[i].action = GuestStop /\ p[i].reversible = TRUE
                                  /\ p[i].wave \in (a + 1)..(a + w)
  BY <1>2
<1>8. \A i \in (a + b + 1)..(a + b + c) :
        /\ p[i].action \in {UpsCut, HostHalt} /\ p[i].reversible = FALSE
        /\ p[i].wave = i - b + w
  BY <1>3
<1>9. \A i, j \in (a + 1)..(a + b) : i <= j => p[i].wave <= p[j].wave
  BY <1>4
<1>10. \A i \in 1..(a + b + c) : StepReads(p[i])
  BY <1>5 DEF StepReads
<1> QED
  BY <1>6, <1>7, <1>8, <1>9, <1>10 DEF IsLaidOut

\* A plan has the shape the executor is promised.
LEMMA BuildHasItsShape ==
  ASSUME NEW h \in Hosts, NEW p, InParts(p, h)
  PROVE  PlanShape(p)
<1> DEFINE a == Len(Before(h)) b == Len(Stopped(h)) c == Len(After(h)) w == Wave(h, b)
<1>1. a \in Nat /\ b \in Nat /\ c \in Nat /\ w \in Nat /\ DOMAIN p = 1..(a + b + c)
  <2>1. IsRead(p, h, a, b, c)
    BY StepsRead
  <2> HIDE DEF a, b, c
  <2> QED
    BY <2>1 DEF IsRead
<1>2. /\ \A i \in 1..a :
           /\ p[i].action \in {Noout, QuorumNote, CordonNode, Unmount}
           /\ p[i].wave = i
      /\ \A i \in (a + 1)..(a + b) :
           /\ p[i].action = GuestStop /\ p[i].reversible = TRUE
           /\ p[i].wave \in (a + 1)..(a + w)
      /\ \A i \in (a + b + 1)..(a + b + c) :
           /\ p[i].action \in {UpsCut, HostHalt} /\ p[i].reversible = FALSE
           /\ p[i].wave = i - b + w
      /\ \A i, j \in (a + 1)..(a + b) : i <= j => p[i].wave <= p[j].wave
      /\ \A i \in 1..(a + b + c) :
           /\ p[i].reversible <=> p[i].action \notin Irreversible
           /\ p[i].action = GuestStop <=> p[i].target # ThisHost
  <2>1. IsLaidOut(p, a, b, c, w)
    BY WavesRead
  <2> HIDE DEF a, b, c, w
  <2> QED
    BY <2>1 DEF IsLaidOut, StepReads
<1> HIDE DEF a, b, c, w
<1>3. SUFFICES ASSUME NEW i \in DOMAIN p, NEW j \in DOMAIN p
               PROVE  /\ i <= j => p[i].wave <= p[j].wave
                      /\ ~p[i].reversible /\ p[i].wave = p[j].wave => i = j
                      /\ p[i].action = Noout /\ p[j].action = GuestStop => i < j
                      /\ p[i].action = GuestStop /\ p[j].action \in {UpsCut, HostHalt}
                           => i < j /\ p[i].wave < p[j].wave
  BY <1>1, <1>2 DEF PlanShape
<1> DEFINE F(x) == x \in 1..a G(x) == x \in (a + 1)..(a + b)
           L(x) == x \in (a + b + 1)..(a + b + c)
<1>4. (F(i) \/ G(i) \/ L(i)) /\ (F(j) \/ G(j) \/ L(j))
  BY <1>1
<1> DEFINE u == p[i].wave v == p[j].wave
<1>5. \A x \in DOMAIN p :
        /\ F(x) => p[x].wave = x /\ p[x].action \notin {GuestStop, UpsCut, HostHalt}
        /\ G(x) => /\ p[x].wave \in (a + 1)..(a + w) /\ p[x].reversible
                   /\ p[x].action \notin {UpsCut, HostHalt, Noout}
        /\ L(x) => p[x].wave = x - b + w /\ p[x].action \notin {Noout, GuestStop}
  BY <1>2 DEF Noout, QuorumNote, CordonNode, Unmount, UpsCut, HostHalt, GuestStop
<1>6. G(i) /\ G(j) /\ i <= j => u <= v
  BY <1>2
<1>7. i <= j => u <= v
  <2> HIDE DEF u, v
  <2>1. F(i) => u = i
    BY <1>5 DEF u
  <2>2. F(j) => v = j
    BY <1>5 DEF v
  <2>3. G(i) => u \in (a + 1)..(a + w)
    BY <1>5 DEF u
  <2>4. G(j) => v \in (a + 1)..(a + w)
    BY <1>5 DEF v
  <2>5. L(i) => u = i - b + w
    BY <1>5 DEF u
  <2>6. L(j) => v = j - b + w
    BY <1>5 DEF v
  <2> QED
    BY <1>1, <1>4, <1>6, <2>1, <2>2, <2>3, <2>4, <2>5, <2>6
<1>8. ~p[i].reversible /\ u = v => i = j
  <2> SUFFICES ASSUME ~p[i].reversible, u = v PROVE i = j
    OBVIOUS
  <2>1. F(i) \/ L(i)
    BY <1>4, <1>5
  <2>2. /\ F(i) => u = i
        /\ F(j) => v = j
        /\ G(j) => v \in (a + 1)..(a + w)
        /\ L(i) => u = i - b + w
        /\ L(j) => v = j - b + w
    BY <1>5
  <2> HIDE DEF u, v
  <2> QED
    BY <1>1, <1>4, <2>1, <2>2
<1>9. p[i].action = Noout /\ p[j].action = GuestStop => i < j
  <2>1. p[i].action = Noout => F(i)
    BY <1>4, <1>5
  <2>2. p[j].action = GuestStop => G(j)
    BY <1>4, <1>5
  <2> QED
    BY <1>1, <2>1, <2>2
<1>10. p[i].action = GuestStop /\ p[j].action \in {UpsCut, HostHalt} => i < j /\ u < v
  <2>1. p[i].action = GuestStop => G(i) /\ u \in (a + 1)..(a + w)
    BY <1>4, <1>5
  <2>2. p[j].action \in {UpsCut, HostHalt} => L(j) /\ v = j - b + w
    BY <1>4, <1>5
  <2> HIDE DEF u, v
  <2> QED
    BY <1>1, <2>1, <2>2
<1> QED
  BY <1>7, <1>8, <1>9, <1>10

\* So has what conserve runs: one wave of guest stops.
LEMMA ShedHasItsShape ==
  ASSUME NEW h \in Hosts
  PROVE  PlanShape(Shed(h.guests, h.opts))
<1> DEFINE chosen == {i \in DOMAIN h.guests : h.guests[i].running /\ h.guests[i].shed}
           before == [i \in chosen |-> {j \in chosen : j < i}]
           listed == Sorted(chosen, before)
           p == Shed(h.guests, h.opts)
<1>1. DOMAIN h.guests = 1..Len(h.guests) /\ Len(h.guests) \in Nat
  <2>1. h.guests \in Seq(Guest)
    BY HostGiven
  <2> HIDE DEF chosen, before, listed, p
  <2> QED
    BY <2>1, LenProperties
<1>2. IsFiniteSet(chosen) /\ chosen \subseteq Nat
  <2>1. IsFiniteSet(1..Len(h.guests)) /\ 1..Len(h.guests) \subseteq Nat
    BY <1>1, FS_Interval
  <2>2. chosen \in SUBSET (1..Len(h.guests))
    BY <1>1
  <2> HIDE DEF chosen
  <2> QED
    BY <2>1, <2>2, FS_Subset
<1>3. \A i \in chosen : i \in DOMAIN h.guests
  OBVIOUS
<1> HIDE DEF chosen
<1>4. PutsInTurn(before, chosen)
  <2>1. before \in [chosen -> SUBSET chosen]
    OBVIOUS
  <2>2. \A i, j \in chosen : j \in before[i] <=> j < i
    OBVIOUS
  <2> HIDE DEF before
  <2>3. \A i \in chosen : i \notin before[i]
    BY <1>2, <2>2
  <2>4. \A i, j \in chosen : i # j => i \in before[j] \/ j \in before[i]
    BY <1>2, <2>2
  <2>5. \A i, j \in chosen : j \in before[i] => before[j] \subseteq before[i]
    <3> TAKE i, j \in chosen
    <3> HAVE j \in before[i]
    <3> SUFFICES ASSUME NEW k \in before[j] PROVE k \in before[i]
      OBVIOUS
    <3>1. k \in chosen /\ k < j /\ j < i
      BY <2>1, <2>2
    <3>2. k \in Nat /\ j \in Nat /\ i \in Nat
      BY <1>2, <3>1
    <3>3. k < i
      BY <3>1, <3>2
    <3> QED
      BY <2>2, <3>1, <3>3
  <2> QED
    BY <2>1, <2>3, <2>4, <2>5 DEF PutsInTurn
<1> HIDE DEF before
<1>5. listed \in [1..Cardinality(chosen) -> chosen]
  BY <1>2, <1>4, SortedInTurn DEF InTurn
<1>6. p = [k \in DOMAIN listed |->
             StopStep(h.guests[listed[k]], 1, WithDefaults(h.opts), <<>>)]
  BY DEF Shed, listed, before, chosen
<1> HIDE DEF listed, p
<1>7. \A k \in DOMAIN p : /\ p[k].action = GuestStop /\ p[k].target # ThisHost
                          /\ p[k].reversible = TRUE /\ p[k].wave = 1
  <2> TAKE k \in DOMAIN p
  <2>1. k \in DOMAIN listed /\ listed[k] \in chosen
    BY <1>5, <1>6
  <2>2. h.guests[listed[k]].id # ThisHost
    BY <2>1, <1>3, HostGiven
  <2>3. p[k] = StopStep(h.guests[listed[k]], 1, WithDefaults(h.opts), <<>>)
    BY <1>6, <2>1
  <2> QED
    BY <2>2, <2>3 DEF StopStep
<1>8. /\ GuestStop \notin Irreversible /\ GuestStop # Noout
      /\ GuestStop \notin {UpsCut, HostHalt}
  BY DEF Irreversible, Noout, GuestStop, Unmount, UpsCut, HostHalt
<1>9. \A i \in DOMAIN p : /\ p[i].reversible <=> p[i].action \notin Irreversible
                          /\ p[i].action = GuestStop <=> p[i].target # ThisHost
  BY <1>7, <1>8
<1>10. \A i, j \in DOMAIN p :
         /\ i <= j => p[i].wave <= p[j].wave
         /\ ~p[i].reversible /\ p[i].wave = p[j].wave => i = j
         /\ p[i].action = Noout /\ p[j].action = GuestStop => i < j
         /\ p[i].action = GuestStop /\ p[j].action \in {UpsCut, HostHalt}
              => i < j /\ p[i].wave < p[j].wave
  <2> TAKE i, j \in DOMAIN p
  <2>1. p[i].wave <= p[j].wave
    BY <1>7
  <2>2. p[i].reversible /\ p[i].action # Noout /\ p[j].action \notin {UpsCut, HostHalt}
    BY <1>7, <1>8
  <2> QED
    BY <2>1, <2>2
<1>11. PlanShape(p)
  BY <1>9, <1>10 DEF PlanShape
<1> QED
  BY <1>11 DEF p

(***************************************************************************)
(* The specification: a plan there is, is the plan of the host.            *)
(***************************************************************************)
PlanOfTheHost ==
  /\ host \in Hosts
  /\ steps = <<>> \/ steps = Build(host.roles, host.guests, host.opts)

THEOREM IsPlanOfTheHost == Spec => []PlanOfTheHost
<1>1. Init => PlanOfTheHost
  BY DEF Init, PlanOfTheHost
<1>2. PlanOfTheHost /\ [Next]_vars => PlanOfTheHost'
  BY DEF PlanOfTheHost, Next, BuildPlan, vars
<1> QED
  BY <1>1, <1>2, PTL DEF Spec

LEMMA PlannedInParts ==
  ASSUME PlanOfTheHost, Planned
  PROVE  host \in Hosts /\ InParts(steps, host)
BY BuildInParts DEF PlanOfTheHost, Planned

\* Every plan has the shape the executor's guarantees rest on, what conserve runs too:
\* the assumption about jobs that the executor's theorems begin from (JobsAssumption)
\* is what the planner delivers (plan.go Build, Shed).
THEOREM Shapes == Spec => []PlansHaveTheirShape
<1>1. PlanOfTheHost => PlansHaveTheirShape
  <2> SUFFICES ASSUME PlanOfTheHost PROVE PlansHaveTheirShape
    OBVIOUS
  <2>1. host \in Hosts
    BY DEF PlanOfTheHost
  <2>2. CASE steps = <<>>
    <3>1. DOMAIN steps = {}
      BY <2>2
    <3> QED
      BY <2>1, <3>1, ShedHasItsShape DEF PlansHaveTheirShape, PlanShape
  <2>3. CASE steps # <<>>
    BY <2>1, <2>3, PlannedInParts, BuildHasItsShape, ShedHasItsShape
       DEF PlansHaveTheirShape, Planned
  <2> QED
    BY <2>2, <2>3
<1> QED
  BY <1>1, IsPlanOfTheHost, PTL

\* In every plan the cut is second to last and the halt last, where there is a cut and
\* a halt at all, and neither is anywhere else (plan.go Build, Options.OmitHalt).
THEOREM CutThenHalt == Spec => []CutThenHaltEndsThePlan
<1>1. PlanOfTheHost => CutThenHaltEndsThePlan
  <2> SUFFICES ASSUME PlanOfTheHost, Planned PROVE CutThenHaltEndsThePlan
    BY DEF CutThenHaltEndsThePlan
  <2> DEFINE a == Len(Before(host)) b == Len(Stopped(host)) c == Len(After(host))
             At(x) == {i \in DOMAIN steps : steps[i].action = x}
             o == host.opts
  <2>1. host \in Hosts /\ InParts(steps, host)
    BY PlannedInParts
  <2>2. IsRead(steps, host, a, b, c)
    BY <2>1, StepsRead
  <2>3. /\ WithDefaults(o).omitHalt = o.omitHalt
        /\ WithDefaults(o).upsCut = o.upsCut /\ o.upsCut \in Int
    BY <2>1, HostGiven
  <2>4. /\ o.omitHalt => c = 0
        /\ ~o.omitHalt /\ ~(o.upsCut <= 0)
             => c = 2 /\ After(host)[1] = UpsCut /\ After(host)[2] = HostHalt
        /\ ~o.omitHalt /\ o.upsCut <= 0 => c = 1 /\ After(host)[1] = HostHalt
    <3> DEFINE d == WithDefaults(o)
    <3>1. After(host) = Coda(d)
      BY DEF After
    <3> HIDE DEF d
    <3>2. /\ d.omitHalt => Len(Coda(d)) = 0
          /\ ~d.omitHalt /\ d.upsCut > 0
               => Len(Coda(d)) = 2 /\ Coda(d)[1] = UpsCut /\ Coda(d)[2] = HostHalt
          /\ ~d.omitHalt /\ ~(d.upsCut > 0) => Len(Coda(d)) = 1 /\ Coda(d)[1] = HostHalt
      BY CodaSteps
    <3>3. d.omitHalt = o.omitHalt /\ d.upsCut = o.upsCut /\ o.upsCut \in Int
      BY <2>3 DEF d
    <3>4. d.upsCut > 0 <=> ~(o.upsCut <= 0)
      BY <3>3
    <3> QED
      BY <3>1, <3>2, <3>3, <3>4
  <2> HIDE DEF a, b, c
  <2>5. /\ a \in Nat /\ b \in Nat /\ c \in Nat
        /\ Len(steps) = a + b + c /\ DOMAIN steps = 1..(a + b + c)
    BY <2>2 DEF IsRead
  <2>6. \A k \in 1..c : steps[a + b + k].action = After(host)[k] /\ a + b + k \in DOMAIN steps
    BY <2>2 DEF IsRead
  <2>7. \A i \in DOMAIN steps : steps[i].action \in {UpsCut, HostHalt}
                                  => \E k \in 1..c : i = a + b + k
    <3> TAKE i \in DOMAIN steps
    <3>1. \/ i \in 1..a
          \/ \E k \in 1..b : i = a + k
          \/ \E k \in 1..c : i = a + b + k
      BY <2>2 DEF IsRead
    <3>2. i \in 1..a => steps[i].action \in {Noout, QuorumNote, CordonNode, Unmount}
      BY <2>2 DEF IsRead
    <3>3. \A k \in 1..b : steps[a + k].action = GuestStop
      BY <2>2 DEF IsRead
    <3> QED
      BY <3>1, <3>2, <3>3
         DEF Noout, QuorumNote, CordonNode, Unmount, GuestStop, UpsCut, HostHalt
  <2>8. CASE o.omitHalt
    <3>1. At(HostHalt) = {} /\ At(UpsCut) = {}
      <4>1. \A k \in 1..c : FALSE
        BY <2>4, <2>8
      <4> QED
        BY <2>7, <4>1
    <3> QED
      BY <2>8, <3>1 DEF CutThenHaltEndsThePlan
  <2>9. CASE ~o.omitHalt /\ o.upsCut <= 0
    <3>1. \A k \in 1..c : k = 1
      BY <2>4, <2>9
    <3>2. 1 \in 1..c /\ a + b + 1 = Len(steps)
      BY <2>4, <2>5, <2>9
    <3>3. steps[a + b + 1].action = HostHalt /\ a + b + 1 \in DOMAIN steps
      BY <2>4, <2>6, <2>9, <3>2
    <3>4. At(HostHalt) = {Len(steps)} /\ At(UpsCut) = {}
      BY <2>7, <3>1, <3>2, <3>3 DEF UpsCut, HostHalt
    <3> QED
      BY <2>9, <3>4 DEF CutThenHaltEndsThePlan
  <2>10. CASE ~o.omitHalt /\ ~(o.upsCut <= 0)
    <3>1. \A k \in 1..c : k = 1 \/ k = 2
      BY <2>4, <2>10
    <3>2. 1 \in 1..c /\ 2 \in 1..c /\ a + b + 2 = Len(steps) /\ a + b + 1 = Len(steps) - 1
      BY <2>4, <2>5, <2>10
    <3>3. /\ steps[a + b + 1].action = UpsCut /\ a + b + 1 \in DOMAIN steps
          /\ steps[a + b + 2].action = HostHalt /\ a + b + 2 \in DOMAIN steps
      BY <2>4, <2>6, <2>10, <3>2
    <3>4. At(HostHalt) = {Len(steps)} /\ At(UpsCut) = {Len(steps) - 1}
      BY <2>7, <3>1, <3>2, <3>3 DEF UpsCut, HostHalt
    <3> QED
      BY <2>10, <3>4 DEF CutThenHaltEndsThePlan
  <2> QED
    BY <2>8, <2>9, <2>10
<1> QED
  BY <1>1, IsPlanOfTheHost, PTL

(***************************************************************************)
(* The guests of a plan.                                                   *)
(***************************************************************************)

\* The stops of a plan are those between what comes before and what ends it, and the
\* guest of one is the guest in that place of the order.
LEMMA StopsRead ==
  ASSUME PlanOfTheHost, Planned, NEW a, a = Len(Before(host)), NEW b, b = Len(Stopped(host))
  PROVE  /\ a \in Nat /\ b \in Nat
         /\ \A i \in Stops : i - a \in 1..b /\ i = a + (i - a) /\ i \in DOMAIN steps
         /\ \A k \in 1..b : /\ a + k \in Stops /\ Stopped(host)[k] \in RunningGuests
                            /\ steps[a + k].target = Stopped(host)[k].id
                            /\ GuestOf(a + k) = Stopped(host)[k]
         /\ \A g \in RunningGuests : g \in Guest /\ \E k \in 1..b : Stopped(host)[k] = g
         /\ \A k, l \in 1..b : Stopped(host)[k].id = Stopped(host)[l].id => k = l
<1> DEFINE c == Len(After(host)) running == {i \in DOMAIN host.guests : host.guests[i].running}
<1>1. host \in Hosts /\ InParts(steps, host)
  BY PlannedInParts
<1>2. IsRead(steps, host, a, b, c)
  BY <1>1, StepsRead
<1>3. /\ host.guests \in Seq(Guest) /\ InUse(host) \in Seq(OrderGroup)
      /\ \A i, j \in DOMAIN host.guests : host.guests[i].id = host.guests[j].id => i = j
      /\ \A i \in DOMAIN host.guests : host.guests[i] \in Guest
  BY <1>1, HostGiven
<1>4. PICK f \in [1..b -> running] :
        /\ \A i \in running : \E k \in 1..b : f[k] = i
        /\ \A k, l \in 1..b : f[k] = f[l] => k = l
        /\ \A k \in 1..b : Stopped(host)[k] = host.guests[f[k]]
  <2>1. IsInOrder(Stopped(host), host.guests, running, InUse(host))
    BY <1>3, StopsInOrder DEF Stopped, RunningAt
  <2> QED
    BY <2>1 DEF IsInOrder
<1>5. RunningGuests = {host.guests[i] : i \in running}
  BY DEF RunningGuests
<1>6. \A i \in running : i \in DOMAIN host.guests
  OBVIOUS
<1> HIDE DEF running, c
<1>7. a \in Nat /\ b \in Nat
  BY <1>2 DEF IsRead
<1>8. \A k \in 1..b : a + k \in Stops /\ steps[a + k].target = Stopped(host)[k].id
  BY <1>2 DEF IsRead, Stops
<1>9. ASSUME NEW i \in Stops PROVE i - a \in 1..b /\ i = a + (i - a) /\ i \in DOMAIN steps
  <2>1. i \in DOMAIN steps /\ steps[i].action = GuestStop
    BY DEF Stops
  <2>2. \/ i \in 1..a
        \/ \E k \in 1..b : i = a + k
        \/ \E k \in 1..c : i = a + b + k
    BY <1>2, <2>1 DEF IsRead
  <2>3. i \in 1..a => steps[i].action \in {Noout, QuorumNote, CordonNode, Unmount}
    BY <1>2 DEF IsRead
  <2>4. \A k \in 1..c : steps[a + b + k].action \in {UpsCut, HostHalt}
    BY <1>2 DEF IsRead
  <2>5. PICK k \in 1..b : i = a + k
    BY <2>1, <2>2, <2>3, <2>4
       DEF Noout, QuorumNote, CordonNode, Unmount, GuestStop, UpsCut, HostHalt
  <2>6. i - a = k /\ a + k = a + (i - a)
    BY <1>7, <2>5
  <2> QED
    BY <2>1, <2>5, <2>6
<1>10. \A k \in 1..b : Stopped(host)[k] \in RunningGuests
  BY <1>4, <1>5
<1>11. \A g \in RunningGuests : g \in Guest /\ \E k \in 1..b : Stopped(host)[k] = g
  <2> TAKE g \in RunningGuests
  <2>1. PICK i \in running : g = host.guests[i]
    BY <1>5
  <2> QED
    BY <1>3, <1>4, <1>6, <2>1
<1>12. \A k, l \in 1..b : Stopped(host)[k].id = Stopped(host)[l].id => k = l
  <2> TAKE k, l \in 1..b
  <2>1. f[k] \in DOMAIN host.guests /\ f[l] \in DOMAIN host.guests
    BY <1>4, <1>6
  <2> QED
    BY <1>3, <1>4, <2>1
<1>13. \A k \in 1..b : GuestOf(a + k) = Stopped(host)[k]
  <2> TAKE k \in 1..b
  <2>1. \A g \in RunningGuests : g.id = Stopped(host)[k].id => g = Stopped(host)[k]
    BY <1>11, <1>12
  <2>2. steps[a + k].target = Stopped(host)[k].id
    BY <1>8
  <2> QED
    BY <1>10, <2>1, <2>2 DEF GuestOf
<1> QED
  BY <1>7, <1>8, <1>9, <1>10, <1>11, <1>12, <1>13

\* Every running guest is stopped once in every plan, and none that is not running,
\* whatever groups and concurrency do to the order (plan.go Build, shutdownOrder).
THEOREM StopsOnce == Spec => []EveryRunningGuestStopsOnce
<1>1. PlanOfTheHost => EveryRunningGuestStopsOnce
  <2> SUFFICES ASSUME PlanOfTheHost, Planned PROVE EveryRunningGuestStopsOnce
    BY DEF EveryRunningGuestStopsOnce
  <2> DEFINE a == Len(Before(host)) b == Len(Stopped(host))
  <2>1. /\ \A i \in Stops : i - a \in 1..b /\ i = a + (i - a)
        /\ \A k \in 1..b : /\ a + k \in Stops /\ Stopped(host)[k] \in RunningGuests
                           /\ steps[a + k].target = Stopped(host)[k].id
        /\ \A g \in RunningGuests : \E k \in 1..b : Stopped(host)[k] = g
        /\ \A k, l \in 1..b : Stopped(host)[k].id = Stopped(host)[l].id => k = l
    BY StopsRead
  <2> HIDE DEF a, b
  <2>2. ASSUME NEW g \in RunningGuests
        PROVE  Cardinality({i \in Stops : steps[i].target = g.id}) = 1
    <3>1. PICK k \in 1..b : Stopped(host)[k] = g
      BY <2>1
    <3>2. ASSUME NEW i \in Stops, steps[i].target = g.id PROVE i = a + k
      <4> DEFINE l == i - a
      <4>1. l \in 1..b /\ i = a + l
        BY <2>1
      <4> HIDE DEF l
      <4>2. Stopped(host)[l].id = Stopped(host)[k].id
        BY <2>1, <3>1, <3>2, <4>1
      <4> QED
        BY <2>1, <4>1, <4>2
    <3>3. a + k \in Stops /\ steps[a + k].target = g.id
      BY <2>1, <3>1
    <3>4. {i \in Stops : steps[i].target = g.id} = {a + k}
      BY <3>2, <3>3
    <3> QED
      BY <3>4, FS_Singleton
  <2>3. ASSUME NEW i \in Stops PROVE \E g \in RunningGuests : steps[i].target = g.id
    <3> DEFINE l == i - a
    <3>1. l \in 1..b /\ i = a + l
      BY <2>1
    <3> HIDE DEF l
    <3> QED
      BY <2>1, <3>1
  <2> QED
    BY <2>2, <2>3 DEF EveryRunningGuestStopsOnce
<1> QED
  BY <1>1, IsPlanOfTheHost, PTL

(***************************************************************************)
(* What must stop before what.                                             *)
(***************************************************************************)

\* The orders that a cover of groups is tested for, and none: "every order a guest
\* could hold" (plan.go usableGroups).
OrdersFit ==
  \A h \in Hosts : \A i \in DOMAIN h.guests :
    Unordered(h.guests[i].order) \/ h.guests[i].order \in 1..UnorderedOrder

\* What must precede another stops before it, where its order fits.
LEMMA PrecedingStopsBefore ==
  ASSUME NEW x \in Guest, NEW y \in Guest, MustPrecede(x, y), Groups \in Seq(OrderGroup),
         \A v \in {x, y} : Unordered(v.order) \/ v.order \in 1..UnorderedOrder
  PROVE  StopsBefore(x, y, Groups)
<1>1. x.order \in Int /\ y.order \in Int
  BY DEF Guest
<1>2. CASE Groups = <<>>
  <2>1. OrderOf(x.order) > OrderOf(y.order)
    BY <1>2 DEF MustPrecede
  <2> DEFINE m == x.order n == y.order
  <2>3. /\ m \in Int /\ n \in Int /\ OrderOf(m) > OrderOf(n)
        /\ Unordered(m) \/ m \in 1..UnorderedOrder
    BY <1>1, <2>1
  <2> HIDE DEF m, n
  <2>4. ~Unordered(n) /\ (Unordered(m) \/ m > n)
    BY <2>3 DEF OrderOf, Unordered, UnorderedOrder, OrderUnset
  <2>2. ~Unordered(y.order) /\ (Unordered(x.order) \/ x.order > y.order)
    BY <2>4 DEF m, n
  <2> QED
    BY <1>2, <2>2 DEF StopsBefore
<1>3. CASE Groups # <<>>
  <2>1. PICK k \in DOMAIN Groups : /\ InGroup(Groups[k], x.order)
                                   /\ \A j \in 1..k : ~InGroup(Groups[j], y.order)
    BY <1>3 DEF MustPrecede
  <2> DEFINE gx == GroupIndexOf(Groups, x.order) gy == GroupIndexOf(Groups, y.order)
  <2>2. OrderOf(y.order) \in 1..UnorderedOrder
    BY DEF OrderOf, UnorderedOrder
  <2>3. Covers(Groups, y.order)
    <3>1. Groups = host.opts.groups
          /\ \A o \in 1..UnorderedOrder : Covers(host.opts.groups, o)
      BY <1>3 DEF Groups, UsableGroups
    <3>2. Covers(Groups, OrderOf(y.order))
      BY <2>2, <3>1
    <3>3. \A o \in 1..UnorderedOrder : OrderOf(o) = o
      BY DEF OrderOf, Unordered, UnorderedOrder, OrderUnset
    <3>4. OrderOf(OrderOf(y.order)) = OrderOf(y.order)
      BY <2>2, <3>3
    <3> QED
      BY <3>2, <3>4 DEF Covers, InGroup
  <2>4. gx # 0 /\ gx <= k
    BY <2>1, GroupIndex
  <2>5. gy # 0 /\ gy \in DOMAIN Groups /\ InGroup(Groups[gy], y.order)
    BY <2>3, GroupIndex DEF Covers
  <2>6. DOMAIN Groups = 1..Len(Groups) /\ Len(Groups) \in Nat
    BY LenProperties
  <2>7. gx \in 0..Len(Groups)
    BY GroupIndex
  <2> HIDE DEF gx, gy
  <2>8. ~(gy <= k)
    <3>1. gy \in 1..Len(Groups) /\ k \in 1..Len(Groups)
      BY <2>1, <2>5, <2>6
    <3>2. gy <= k => gy \in 1..k
      BY <2>6, <3>1
    <3> QED
      BY <2>1, <2>5, <3>2
  <2>9. gx < gy
    BY <2>1, <2>4, <2>5, <2>6, <2>7, <2>8
  <2> QED
    BY <1>3, <2>9 DEF StopsBefore, gx, gy
<1> QED
  BY <1>2, <1>3

\* A guest whose order says it stops before another is in an earlier wave: no group,
\* no concurrency and no order of the list lets a dependency stop with, or before, what
\* needs it (plan.go shutdownOrder, guestWaves: "Tiers never merge").
THEOREM Dependencies == OrdersFit => (Spec => []DependenciesStopInOrder)
<1> SUFFICES ASSUME OrdersFit PROVE Spec => []DependenciesStopInOrder
  OBVIOUS
<1>1. PlanOfTheHost => DependenciesStopInOrder
  <2> SUFFICES ASSUME PlanOfTheHost, Planned, NEW i \in Stops, NEW j \in Stops,
                      MustPrecede(GuestOf(i), GuestOf(j))
               PROVE  steps[i].wave < steps[j].wave
    BY DEF DependenciesStopInOrder
  <2> DEFINE a == Len(Before(host)) b == Len(Stopped(host)) c == Len(After(host))
  <2> DEFINE k == i - a l == j - a
  <2>1. host \in Hosts /\ InParts(steps, host)
    BY PlannedInParts
  <2>2. /\ a \in Nat /\ b \in Nat
        /\ k \in 1..b /\ i = a + k /\ l \in 1..b /\ j = a + l
        /\ \A m \in 1..b : /\ Stopped(host)[m] \in RunningGuests
                           /\ GuestOf(a + m) = Stopped(host)[m]
        /\ \A g \in RunningGuests : g \in Guest
    BY StopsRead
  <2>3. IsRead(steps, host, a, b, c)
    BY <2>1, StepsRead
  <2> HIDE DEF a, b, c, k, l
  <2> DEFINE x == Stopped(host)[k] y == Stopped(host)[l]
  <2>4. x \in RunningGuests /\ y \in RunningGuests /\ x \in Guest /\ y \in Guest
    BY <2>2
  <2>5. MustPrecede(x, y)
    BY <2>2
  <2>6. \A v \in {x, y} : Unordered(v.order) \/ v.order \in 1..UnorderedOrder
    BY <2>1, <2>4 DEF RunningGuests, OrdersFit
  <2>7. Groups = InUse(host) /\ Groups \in Seq(OrderGroup)
    BY <2>1, HostGiven DEF Groups, InUse
  <2>8. StopsBefore(x, y, InUse(host))
    BY <2>4, <2>5, <2>6, <2>7, PrecedingStopsBefore
  <2>9. Wave(host, k) < Wave(host, l)
    BY <2>1, <2>2, <2>8, WavesOf DEF b
  <2>10. /\ steps[i].wave = a + Wave(host, k) /\ steps[j].wave = a + Wave(host, l)
         /\ Wave(host, k) \in Nat /\ Wave(host, l) \in Nat
    BY <2>2, <2>3 DEF IsRead
  <2> DEFINE u == Wave(host, k) v == Wave(host, l)
  <2>11. u \in Nat /\ v \in Nat /\ u < v
    BY <2>9, <2>10
  <2> HIDE DEF u, v
  <2>12. a + u < a + v
    BY <2>2, <2>11
  <2> QED
    BY <2>10, <2>12 DEF u, v
<1> QED
  BY <1>1, IsPlanOfTheHost, PTL

(***************************************************************************)
(* What a held wave waits for.                                             *)
(***************************************************************************)

\* A stop that is held is of a guest of a later group, and it waits for the earlier ones.
LEMMA HoldRead ==
  ASSUME NEW h \in Hosts, NEW p, InParts(p, h), NEW k \in 1..Len(Stopped(h)),
         p[Len(Before(h)) + k].notBefore > 0,
         NEW gi, gi = GroupIndexOf(InUse(h), Stopped(h)[k].order)
  PROVE  gi > 1 /\ p[Len(Before(h)) + k].clears = SubSeq(InUse(h), 1, gi - 1)
<1> DEFINE s == p[Len(Before(h)) + k]
           w == Len(Before(h)) + Wave(h, k)
           waits == gi > 1 /\ InUse(h)[gi].notBefore > 0
<1>1. s = StopStep(Stopped(h)[k], w, WithDefaults(h.opts), InUse(h))
  BY DEF InParts
<1> HIDE DEF s, w
<1>2. /\ s.notBefore = IF waits THEN InUse(h)[gi].notBefore ELSE 0
      /\ s.clears = IF waits THEN SubSeq(InUse(h), 1, gi - 1) ELSE <<>>
  BY <1>1 DEF StopStep, EarlierGroups
<1>3. s.notBefore > 0
  BY DEF s
<1>4. waits
  <2>1. ~waits => s.notBefore = 0
    BY <1>2
  <2>2. ~(0 > 0)
    OBVIOUS
  <2> QED
    BY <1>3, <2>1, <2>2
<1> QED
  BY <1>2, <1>4 DEF s

\* A held wave waits for every guest that must stop before its own and for no other:
\* for its own it would wait until the hold's ceiling (plan.go Build NotBefore, Clears).
THEOREM HoldsWait == Spec => []HoldsWaitForEarlierGroups
<1>1. PlanOfTheHost => HoldsWaitForEarlierGroups
  <2> SUFFICES ASSUME PlanOfTheHost, Planned, NEW i \in Stops, steps[i].notBefore > 0,
                      NEW j \in Stops
               PROVE  Covers(steps[i].clears, GuestOf(j).order)
                        <=> MustPrecede(GuestOf(j), GuestOf(i))
    BY DEF HoldsWaitForEarlierGroups
  <2> DEFINE a == Len(Before(host)) b == Len(Stopped(host)) k == i - a
  <2> DEFINE x == GuestOf(j) y == GuestOf(i) gi == GroupIndexOf(Groups, y.order)
  <2>1. host \in Hosts /\ InParts(steps, host)
    BY PlannedInParts
  <2>2. /\ a \in Nat /\ b \in Nat /\ k \in 1..b /\ i = a + k
        /\ \A m \in 1..b : GuestOf(a + m) = Stopped(host)[m]
    BY StopsRead
  <2>3. Groups = InUse(host) /\ Groups \in Seq(OrderGroup)
    BY <2>1, HostGiven DEF Groups, InUse
  <2> HIDE DEF k
  <2>4. y = Stopped(host)[k]
    BY <2>2
  <2>5. steps[a + k].notBefore > 0
    BY <2>2
  <2>6. gi > 1 /\ steps[a + k].clears = SubSeq(Groups, 1, gi - 1)
    BY <2>1, <2>2, <2>3, <2>4, <2>5, HoldRead
  <2>7. /\ gi \in 0..Len(Groups)
        /\ gi # 0 => gi \in DOMAIN Groups /\ InGroup(Groups[gi], y.order)
        /\ \A m \in DOMAIN Groups : InGroup(Groups[m], y.order) => gi # 0 /\ gi <= m
    BY <2>3, GroupIndex
  <2>8. Len(Groups) \in Nat /\ DOMAIN Groups = 1..Len(Groups)
    BY <2>3, LenProperties
  <2> HIDE DEF a, b, gi, x, y
  <2>9. gi \in 2..Len(Groups) /\ Groups # <<>>
    BY <2>6, <2>7, <2>8
  <2> DEFINE clears == SubSeq(Groups, 1, gi - 1)
  <2>10. /\ DOMAIN clears = 1..(gi - 1)
         /\ \A m \in 1..(gi - 1) : clears[m] = Groups[m] /\ m \in DOMAIN Groups
    <3> DEFINE n == gi - 1
    <3>1. n \in 1..Len(Groups) /\ n \in Int /\ \A m \in 1..n : m \in 1..Len(Groups)
      BY <2>8, <2>9
    <3> HIDE DEF n
    <3>2. SubSeq(Groups, 1, n) = [m \in 1..n |-> Groups[m]]
      BY <2>3, <2>8, <3>1
    <3>3. DOMAIN SubSeq(Groups, 1, n) = 1..n
          /\ \A m \in 1..n : SubSeq(Groups, 1, n)[m] = Groups[m]
      BY <3>2
    <3> QED
      BY <2>8, <3>1, <3>3 DEF n
  <2>11. Covers(clears, x.order) <=> \E m \in 1..(gi - 1) : InGroup(Groups[m], x.order)
    <3> HIDE DEF clears
    <3> QED
      BY <2>10 DEF Covers
  <2>12. MustPrecede(x, y)
           <=> \E m \in DOMAIN Groups : /\ InGroup(Groups[m], x.order)
                                        /\ \A l \in 1..m : ~InGroup(Groups[l], y.order)
    BY <2>9 DEF MustPrecede
  <2>13. \A m \in DOMAIN Groups :
           (\A l \in 1..m : ~InGroup(Groups[l], y.order)) <=> m \in 1..(gi - 1)
    <3> TAKE m \in DOMAIN Groups
    <3>1. m \in 1..Len(Groups)
      BY <2>8
    <3>2. ASSUME m \in 1..(gi - 1), NEW l \in 1..m PROVE ~InGroup(Groups[l], y.order)
      <4>1. l \in 1..Len(Groups) /\ ~(gi <= l)
        BY <2>8, <2>9, <3>1, <3>2
      <4> QED
        BY <2>7, <2>8, <4>1
    <3>3. ASSUME m \notin 1..(gi - 1) PROVE gi \in 1..m
      BY <2>8, <2>9, <3>1, <3>3
    <3>4. InGroup(Groups[gi], y.order)
      BY <2>7, <2>9
    <3> QED
      BY <3>2, <3>3, <3>4
  <2>14. \A m \in 1..(gi - 1) : m \in DOMAIN Groups
    BY <2>10
  <2>15. Covers(clears, x.order) <=> MustPrecede(x, y)
    <3> HIDE DEF clears
    <3> QED
      BY <2>11, <2>12, <2>13, <2>14
  <2> QED
    BY <2>2, <2>6, <2>15 DEF x, y
<1> QED
  BY <1>1, IsPlanOfTheHost, PTL

(***************************************************************************)
(* How large a wave is.                                                    *)
(***************************************************************************)

RunsForward(p, n) ==
  /\ n \in Nat /\ DOMAIN p = 1..n /\ Len(p) = n
  /\ \A i \in 1..n : p[i].wave \in Int
  /\ \A i, j \in 1..n : i <= j => p[i].wave <= p[j].wave

InOnePiece(p, i) ==
  {j \in DOMAIN p : p[j].wave = p[i].wave}
    = {j \in DOMAIN p : \E f \in 1..j : i \in WaveFrom(p, f) /\ j \in WaveFrom(p, f)}

\* Steps of one wave are issued together: where waves never run backwards, those of one
\* number follow each other, and a first of them reaches all the others.
LEMMA OneNumberOneWave ==
  ASSUME NEW p, NEW n, RunsForward(p, n), NEW i \in 1..n
  PROVE  InOnePiece(p, i)
<1>0. /\ n \in Nat /\ DOMAIN p = 1..n /\ Len(p) = n
      /\ \A k \in 1..n : p[k].wave \in Int
      /\ \A k, j \in 1..n : k <= j => p[k].wave <= p[j].wave
  BY DEF RunsForward
<1> USE <1>0
<1>1. ASSUME NEW j \in 1..n, p[j].wave = p[i].wave
      PROVE  \E f \in 1..j : i \in WaveFrom(p, f) /\ j \in WaveFrom(p, f)
  <2>1. PICK f \in 1..n : (f = i \/ f = j) /\ f <= i /\ f <= j
    <3>1. i <= j \/ j <= i
      OBVIOUS
    <3>2. i <= i /\ j <= j
      OBVIOUS
    <3> QED
      BY <3>1, <3>2
  <2>2. p[f].wave = p[i].wave
    BY <1>1, <2>1
  <2>3. \A x \in {i, j} : x \in f..n /\ \A k \in f..x : p[k].wave = p[f].wave
    <3> TAKE x \in {i, j}
    <3>1. x \in f..n /\ p[x].wave = p[f].wave
      BY <1>1, <2>1, <2>2
    <3>2. ASSUME NEW k \in f..x PROVE p[k].wave = p[f].wave
      <4>1. k \in 1..n /\ f <= k /\ k <= x /\ x \in 1..n
        BY <2>1, <3>1
      <4>2. p[f].wave <= p[k].wave /\ p[k].wave <= p[x].wave
        BY <4>1
      <4> QED
        BY <3>1, <4>1, <4>2
    <3> QED
      BY <3>1, <3>2
  <2>4. f \in 1..j
    BY <2>1
  <2> QED
    BY <2>3, <2>4 DEF WaveFrom
<1>2. ASSUME NEW j \in 1..n, NEW f \in 1..j, i \in WaveFrom(p, f), j \in WaveFrom(p, f)
      PROVE  p[j].wave = p[i].wave
  <2>1. \A x \in {i, j} : x \in f..x /\ \A k \in f..x : p[k].wave = p[f].wave
    BY <1>2 DEF WaveFrom
  <2>2. p[i].wave = p[f].wave /\ p[j].wave = p[f].wave
    BY <2>1
  <2> QED
    BY <2>2
<1> QED
  BY <1>1, <1>2 DEF InOnePiece

\* Of the guests of one wave there are no more than may stop at once.
LEMMA WaveIsSmall ==
  ASSUME NEW h \in Hosts, NEW a \in Nat, Limit(h) > 0, NEW k \in 1..Len(Stopped(h)),
         NEW T, T = {a + l : l \in {m \in 1..Len(Stopped(h)) : Wave(h, m) = Wave(h, k)}}
  PROVE  IsFiniteSet(T) /\ Cardinality(T) <= Limit(h)
<1> DEFINE M == {m \in 1..Len(Stopped(h)) : Wave(h, m) = Wave(h, k)}
<1>1. Len(Stopped(h)) \in Nat /\ Limit(h) \in Nat \ {0}
  BY Parts, HostGiven
<1>2. M \subseteq Nat /\ k \in M
  BY <1>1
<1>3. PICK f \in M : \A m \in M : ~(m < f)
  <2> HIDE DEF M
  <2> QED
    BY <1>2, Least
<1>4. f \in Nat \ {0}
  BY <1>1
<1>5. ASSUME NEW m \in M PROVE f <= m /\ m < f + Limit(h)
  <2>1. m \in Nat /\ f <= m
    BY <1>1, <1>2, <1>3, <1>4
  <2>2. GuestWave(Stopped(h), f, Limit(h), InUse(h)) = GuestWave(Stopped(h), m, Limit(h), InUse(h))
    BY DEF Wave
  <2>3. m - f < Limit(h)
    BY <1>1, <1>4, <2>1, <2>2, WavesAreShort
  <2> QED
    BY <1>1, <1>4, <2>1, <2>3
<1> DEFINE lo == a + f hi == a + f + Limit(h) - 1
<1>6. \A m \in M : a + m \in lo..hi
  <2> TAKE m \in M
  <2>1. m \in Nat /\ f <= m /\ m < f + Limit(h)
    BY <1>2, <1>5
  <2> HIDE DEF M
  <2> QED
    BY <1>1, <1>4, <2>1
<1>7. T = {a + m : m \in M}
  OBVIOUS
<1> HIDE DEF M
<1>8. T \in SUBSET (lo..hi)
  BY <1>6, <1>7
<1>9. lo \in Int /\ hi \in Int /\ (IF lo > hi THEN 0 ELSE hi - lo + 1) = Limit(h)
  BY <1>1, <1>4
<1> HIDE DEF lo, hi
<1>10. IsFiniteSet(lo..hi) /\ Cardinality(lo..hi) = Limit(h)
  BY <1>9, FS_Interval
<1> QED
  BY <1>8, <1>10, FS_Subset

\* No wave of any plan holds more guests than may be stopping at once, whatever does
\* not stop a guest is alone in its wave, and a wave is issued in one piece
\* (plan.go Options.GuestConcurrency, guestWaves).
THEOREM WavesBounded == Spec => []WavesAreBounded
<1>1. PlanOfTheHost => WavesAreBounded
  <2> DEFINE limit == host.opts.concurrency
             Same(i) == {j \in DOMAIN steps : steps[j].wave = steps[i].wave}
             Bound(i) == IF i \notin Stops THEN 1
                         ELSE IF limit < 0 THEN Cardinality(Stops)
                         ELSE IF limit = 0 THEN 1 ELSE limit
  <2> SUFFICES ASSUME PlanOfTheHost, Planned, NEW i \in DOMAIN steps
               PROVE  /\ Same(i) = {j \in DOMAIN steps : \E f \in 1..j :
                                      i \in WaveFrom(steps, f) /\ j \in WaveFrom(steps, f)}
                      /\ Cardinality(Same(i)) <= Bound(i)
    BY DEF WavesAreBounded
  <2> DEFINE a == Len(Before(host)) b == Len(Stopped(host)) c == Len(After(host))
             w == Wave(host, b)
  <2>1. host \in Hosts /\ InParts(steps, host)
    BY PlannedInParts
  <2>2. IsRead(steps, host, a, b, c) /\ IsLaidOut(steps, a, b, c, w) /\ PlanShape(steps)
    BY <2>1, StepsRead, WavesRead, BuildHasItsShape
  <2> HIDE DEF a, b, c, w
  <2>3. /\ a \in Nat /\ b \in Nat /\ c \in Nat
        /\ Len(steps) = a + b + c /\ DOMAIN steps = 1..(a + b + c)
    BY <2>2 DEF IsRead
  <2>4. w \in Nat
    BY <2>2 DEF IsRead, w
  <2>5. /\ \A j \in 1..a : /\ steps[j].action \in {Noout, QuorumNote, CordonNode, Unmount}
                           /\ steps[j].wave = j
        /\ \A j \in (a + 1)..(a + b) : /\ steps[j].action = GuestStop
                                       /\ steps[j].wave \in (a + 1)..(a + w)
        /\ \A j \in (a + b + 1)..(a + b + c) : /\ steps[j].action \in {UpsCut, HostHalt}
                                               /\ steps[j].wave = j - b + w
    BY <2>2 DEF IsLaidOut
  <2>6. \A j \in DOMAIN steps : \/ j \in 1..a
                                \/ j \in (a + 1)..(a + b)
                                \/ j \in (a + b + 1)..(a + b + c)
    BY <2>3
  <2>7. \A j \in DOMAIN steps : j \in Stops <=> j \in (a + 1)..(a + b)
    <3>1. \A j \in DOMAIN steps : j \in Stops <=> steps[j].action = GuestStop
      BY DEF Stops
    <3>2. GuestStop \notin {Noout, QuorumNote, CordonNode, Unmount, UpsCut, HostHalt}
      BY DEF Noout, QuorumNote, CordonNode, Unmount, GuestStop, UpsCut, HostHalt
    <3>3. \A j \in 1..a : ~(j \in (a + 1)..(a + b))
      BY <2>3
    <3>4. \A j \in (a + b + 1)..(a + b + c) : ~(j \in (a + 1)..(a + b))
      BY <2>3
    <3> QED
      BY <2>5, <2>6, <3>1, <3>2, <3>3, <3>4
  <2>8. \A j \in DOMAIN steps : steps[j].wave \in Int
    <3> TAKE j \in DOMAIN steps
    <3>1. CASE j \in 1..a
      BY <2>3, <2>5, <3>1
    <3>2. CASE j \in (a + 1)..(a + b)
      <4>1. \A v \in (a + 1)..(a + w) : v \in Int
        BY <2>3, <2>4
      <4> QED
        BY <2>5, <3>2, <4>1
    <3>3. CASE j \in (a + b + 1)..(a + b + c)
      <4>1. j - b + w \in Int
        BY <2>3, <2>4, <3>3
      <4> QED
        BY <2>5, <3>3, <4>1
    <3> QED
      BY <2>6, <3>1, <3>2, <3>3
  <2>9. \A j, k \in DOMAIN steps : j <= k => steps[j].wave <= steps[k].wave
    BY <2>2 DEF PlanShape
  <2>10. Same(i) = {j \in DOMAIN steps : \E f \in 1..j :
                      i \in WaveFrom(steps, f) /\ j \in WaveFrom(steps, f)}
    <3> DEFINE n == a + b + c
    <3>1. n \in Nat /\ DOMAIN steps = 1..n /\ Len(steps) = n /\ i \in 1..n
      BY <2>3
    <3> HIDE DEF n
    <3> QED
      <4>1. RunsForward(steps, n)
        BY <2>8, <2>9, <3>1 DEF RunsForward
      <4>2. InOnePiece(steps, i)
        BY <3>1, <4>1, OneNumberOneWave
      <4> QED
        BY <4>2 DEF InOnePiece
  <2>11. ASSUME i \notin Stops PROVE Cardinality(Same(i)) <= 1
    <3>1. ASSUME NEW j \in Same(i) PROVE j = i
      <4> DEFINE u == steps[i].wave v == steps[j].wave
      <4>1. j \in DOMAIN steps /\ u = v
        OBVIOUS
      <4>2. i \in 1..a \/ i \in (a + b + 1)..(a + b + c)
        BY <2>6, <2>7, <2>11
      <4>3. /\ j \in 1..a => v = j
            /\ j \in (a + 1)..(a + b) => v \in (a + 1)..(a + w)
            /\ j \in (a + b + 1)..(a + b + c) => v = j - b + w
            /\ i \in 1..a => u = i
            /\ i \in (a + b + 1)..(a + b + c) => u = i - b + w
        BY <2>5
      <4>4. j \in 1..a \/ j \in (a + 1)..(a + b) \/ j \in (a + b + 1)..(a + b + c)
        BY <2>6, <4>1
      <4> HIDE DEF u, v
      <4> QED
        BY <2>3, <2>4, <4>1, <4>2, <4>3, <4>4
    <3>2. Same(i) = {i}
      BY <3>1
    <3>3. Cardinality(Same(i)) = 1
      BY <3>2, FS_Singleton
    <3> QED
      BY <3>3
  <2>12. ASSUME i \in Stops
         PROVE  Same(i) \subseteq Stops
    <3> SUFFICES ASSUME NEW j \in Same(i) PROVE j \in Stops
      OBVIOUS
    <3> DEFINE u == steps[i].wave v == steps[j].wave
    <3>1. j \in DOMAIN steps /\ u = v /\ u \in (a + 1)..(a + w)
      BY <2>5, <2>7, <2>12
    <3>2. /\ j \in 1..a => v = j
          /\ j \in (a + b + 1)..(a + b + c) => v = j - b + w
      BY <2>5
    <3>3. j \in (a + 1)..(a + b)
      <4>1. j \in 1..a \/ j \in (a + 1)..(a + b) \/ j \in (a + b + 1)..(a + b + c)
        BY <2>6, <3>1
      <4> HIDE DEF u, v
      <4> QED
        BY <2>3, <2>4, <3>1, <3>2, <4>1
    <3> QED
      BY <2>7, <3>1, <3>3
  <2>13. ASSUME i \in Stops, limit < 0
         PROVE  Cardinality(Same(i)) <= Cardinality(Stops)
    <3>1. IsFiniteSet(1..(a + b + c))
      BY <2>3, FS_Interval
    <3>2. Stops \in SUBSET (1..(a + b + c))
      BY <2>3 DEF Stops
    <3>3. IsFiniteSet(Stops)
      BY <3>1, <3>2, FS_Subset
    <3> QED
      BY <2>12, <2>13, <3>3, FS_Subset
  <2>14. ASSUME i \in Stops, ~(limit < 0)
         PROVE  Cardinality(Same(i)) <= IF limit = 0 THEN 1 ELSE limit
    <3>1. /\ limit \in Int
          /\ Limit(host) = IF limit = 0 THEN 1 ELSE limit
      BY <2>1, HostGiven
    <3>2. Limit(host) > 0
      BY <2>14, <3>1
    <3> DEFINE k == i - a
    <3>3. k \in 1..b /\ i = a + k
      BY <2>3, <2>7, <2>14
    <3> HIDE DEF k
    <3> DEFINE T == {a + l : l \in {m \in 1..b : Wave(host, m) = Wave(host, k)}}
    <3>4. \A m \in 1..b : steps[a + m].wave = a + Wave(host, m) /\ Wave(host, m) \in Nat
      BY <2>2 DEF IsRead
    <3>5. \A m \in 1..b : steps[a + m].wave = steps[i].wave <=> Wave(host, m) = Wave(host, k)
      <4> TAKE m \in 1..b
      <4> DEFINE u == Wave(host, m) v == Wave(host, k)
      <4>1. /\ u \in Nat /\ v \in Nat
            /\ steps[a + m].wave = a + u /\ steps[i].wave = a + v
        BY <3>3, <3>4
      <4> HIDE DEF u, v
      <4>2. steps[a + m].wave = steps[i].wave <=> u = v
        BY <2>3, <4>1
      <4> QED
        BY <4>2 DEF u, v
    <3>6. Same(i) \subseteq T
      <4> SUFFICES ASSUME NEW j \in Same(i) PROVE j \in T
        OBVIOUS
      <4>1. j \in (a + 1)..(a + b) /\ steps[j].wave = steps[i].wave
        BY <2>7, <2>12, <2>14
      <4> DEFINE m == j - a
      <4>2. m \in 1..b /\ j = a + m
        BY <2>3, <4>1
      <4> HIDE DEF m
      <4> QED
        BY <3>5, <4>1, <4>2
    <3>7. IsFiniteSet(T) /\ Cardinality(T) <= Limit(host)
      BY <2>1, <2>3, <3>2, <3>3, WaveIsSmall DEF b
    <3> HIDE DEF T
    <3>8. IsFiniteSet(Same(i)) /\ Cardinality(Same(i)) <= Cardinality(T)
      BY <3>6, <3>7, FS_Subset
    <3> DEFINE y == Cardinality(Same(i)) z == Cardinality(T) q == Limit(host)
    <3>9. y \in Nat /\ z \in Nat /\ y <= z /\ z <= q /\ q \in Int
      BY <3>1, <3>7, <3>8, FS_CardinalityType
    <3> HIDE DEF y, z, q
    <3>10. y <= q
      BY <3>9
    <3> QED
      BY <3>1, <3>10 DEF y, q
  <2> HIDE DEF Same
  <2>15. Cardinality(Same(i)) <= Bound(i)
    BY <2>11, <2>13, <2>14
  <2> QED
    BY <2>10, <2>15 DEF Same
<1> QED
  BY <1>1, IsPlanOfTheHost, PTL

(***************************************************************************)
(* The worst case.                                                         *)
(***************************************************************************)
\* What is in a set of integers and not below any other, is its greatest.
LEMMA MaxIs ==
  ASSUME NEW T, T \subseteq Int, NEW x \in T, \A y \in T : y <= x
  PROVE  Max(T) = x
<1>1. \E m \in T : \A y \in T : m >= y
  <2>1. \A y \in T : x >= y
    OBVIOUS
  <2> QED
    BY <2>1
<1> DEFINE m == Max(T)
<1>2. m \in T /\ \A y \in T : m >= y
  BY <1>1 DEF Max
<1> HIDE DEF m
<1>3. m = x
  <2>1. m \in Int /\ x \in Int /\ m >= x /\ m <= x
    BY <1>2
  <2> QED
    BY <2>1
<1> QED
  BY <1>3 DEF m

Greater(x, y) == Max({x, y})

LEMMA MaxOfTwo ==
  ASSUME NEW x \in Int, NEW y \in Int
  PROVE  Greater(x, y) = IF x >= y THEN x ELSE y
<1>0. Greater(x, y) = Max({x, y})
  BY DEF Greater
<1>1. CASE x >= y
  <2>1. {x, y} \subseteq Int /\ \A z \in {x, y} : z <= x
    BY <1>1
  <2> QED
    BY <1>0, <1>1, <2>1, MaxIs
<1>2. CASE ~(x >= y)
  <2>1. {x, y} \subseteq Int /\ \A z \in {x, y} : z <= y
    BY <1>2
  <2> QED
    BY <1>0, <1>2, <2>1, MaxIs
<1> QED
  BY <1>1, <1>2

\* Of finitely many integers one is the greatest.
LEMMA MaxAmong ==
  ASSUME NEW n \in Nat, NEW U, U \subseteq 1..n, U # {}, NEW g, \A k \in U : g[k] \in Int
  PROVE  Max({g[k] : k \in U}) \in Int
<1> DEFINE Top(m) == \E x \in U : x <= m /\ \A y \in U : y <= m => g[y] <= g[x]
           None(m) == \A y \in U : ~(y <= m)
           S == {m \in 1..n : Top(m) \/ None(m)}
<1>1. n # 0 /\ n \in 1..n
  <2>1. 1..0 = {}
    OBVIOUS
  <2>2. n # 0
    BY <2>1
  <2> QED
    BY <2>2
<1>2. 1 \in S
  <2>1. CASE 1 \in U
    <3>1. \A y \in U : y <= 1 => y = 1
      OBVIOUS
    <3>2. g[1] \in Int /\ g[1] <= g[1]
      BY <2>1
    <3>3. Top(1)
      BY <2>1, <3>1, <3>2
    <3> QED
      BY <1>1, <3>3
  <2>2. CASE 1 \notin U
    <3>1. \A y \in U : ~(y <= 1)
      BY <2>2
    <3>2. None(1)
      BY <3>1
    <3> QED
      BY <1>1, <3>2
  <2> QED
    BY <2>1, <2>2
<1>3. ASSUME NEW i \in 1..n, i \in S, i < n PROVE i + 1 \in S
  <2>1. i + 1 \in 1..n /\ \A y \in U : y <= i + 1 <=> y <= i \/ y = i + 1
    BY <1>3
  <2>2. CASE i + 1 \notin U
    <3>1. \A y \in U : y <= i + 1 <=> y <= i
      BY <2>1, <2>2
    <3>2. Top(i) => Top(i + 1)
      BY <3>1
    <3>3. None(i) => None(i + 1)
      BY <3>1
    <3> QED
      BY <1>3, <2>1, <3>2, <3>3
  <2>3. CASE i + 1 \in U /\ None(i)
    <3>1. \A y \in U : y <= i + 1 <=> y = i + 1
      BY <2>1, <2>3
    <3>2. g[i + 1] \in Int /\ g[i + 1] <= g[i + 1] /\ i + 1 <= i + 1
      BY <2>3
    <3>3. Top(i + 1)
      BY <2>3, <3>1, <3>2
    <3> QED
      BY <2>1, <3>3
  <2>4. CASE i + 1 \in U /\ Top(i)
    <3>1. PICK x \in U : x <= i /\ \A y \in U : y <= i => g[y] <= g[x]
      BY <2>4
    <3> PICK z \in U : z = i + 1
      BY <2>4
    <3> DEFINE u == g[x] v == g[z]
    <3>2. u \in Int /\ v \in Int /\ z <= i + 1 /\ x <= i + 1
      BY <2>1, <3>1
    <3>3. CASE v <= u
      <4>1. \A y \in U : y <= i + 1 => g[y] <= g[x]
        BY <2>1, <3>1, <3>3
      <4>2. Top(i + 1)
        BY <3>2, <4>1
      <4> QED
        BY <2>1, <4>2
    <3>4. CASE ~(v <= u)
      <4>1. \A y \in U : y <= i => g[y] \in Int /\ g[y] <= u
        BY <3>1
      <4> HIDE DEF u, v
      <4>2. \A y \in U : y <= i => g[y] <= v
        BY <3>2, <3>4, <4>1
      <4>3. v <= v
        BY <3>2
      <4>4. \A y \in U : y <= i + 1 => g[y] <= v
        BY <2>1, <4>2, <4>3 DEF v
      <4>5. Top(i + 1)
        BY <3>2, <4>4 DEF v
      <4> QED
        BY <2>1, <4>5
    <3> QED
      BY <3>3, <3>4
  <2> QED
    BY <1>3, <2>2, <2>3, <2>4
<1>4. 1..n \subseteq S
  <2> HIDE DEF S
  <2> QED
    BY <1>2, <1>3, UpTo
<1>5. Top(n)
  <2>1. Top(n) \/ None(n)
    BY <1>1, <1>4
  <2>2. \A y \in U : y <= n
    OBVIOUS
  <2> QED
    BY <2>1, <2>2
<1>6. PICK x \in U : \A y \in U : g[y] <= g[x]
  BY <1>5
<1> DEFINE V == {g[k] : k \in U}
<1>7. V \subseteq Int /\ g[x] \in V /\ \A v \in V : v <= g[x]
  BY <1>6
<1> HIDE DEF V
<1>8. Max(V) = g[x]
  BY <1>7, MaxIs
<1> QED
  BY <1>7, <1>8 DEF V

\* When a wave may start at the latest: the waves W, their holds d, what they cost c.
IsLongest(f, W, d, c, n) ==
  f = [i \in 0..n |-> IF i = 0 THEN 0
                      ELSE IF i \in W THEN Greater(f[i - 1], d[i]) + c[i] ELSE f[i - 1]]

LEMMA LongestAt ==
  ASSUME NEW f, NEW W, NEW d, NEW c, NEW n \in Nat, IsLongest(f, W, d, c, n), NEW k \in 0..n
  PROVE  f[k] = IF k = 0 THEN 0
                ELSE IF k \in W THEN Greater(f[k - 1], d[k]) + c[k] ELSE f[k - 1]
<1> DEFINE g == [i \in 0..n |-> IF i = 0 THEN 0
                                ELSE IF i \in W THEN Greater(f[i - 1], d[i]) + c[i] ELSE f[i - 1]]
<1>1. f = g
  BY DEF IsLongest
<1>2. g[k] = IF k = 0 THEN 0
             ELSE IF k \in W THEN Greater(f[k - 1], d[k]) + c[k] ELSE f[k - 1]
  OBVIOUS
<1> HIDE DEF g
<1> QED
  BY <1>1, <1>2

LEMMA LongestGoesOn ==
  ASSUME NEW f, NEW W, NEW d, NEW c, NEW n \in Nat, IsLongest(f, W, d, c, n)
  PROVE  \E g : IsLongest(g, W, d, c, n + 1)
<1> DEFINE Then(x, i) == IF i \in W THEN Greater(x, d[i]) + c[i] ELSE x
           g == [i \in 0..(n + 1) |-> IF i = n + 1 THEN Then(f[n], i) ELSE f[i]]
<1>1. ASSUME NEW i \in 0..(n + 1)
      PROVE  g[i] = IF i = 0 THEN 0 ELSE Then(g[i - 1], i)
  <2>1. CASE i = n + 1
    <3>1. i # 0 /\ i - 1 = n /\ n \in 0..(n + 1) /\ n # n + 1
      BY <2>1
    <3> HIDE DEF Then
    <3>2. g[n] = f[n] /\ g[i] = Then(f[n], i)
      BY <2>1, <3>1
    <3> QED
      BY <3>1, <3>2
  <2>2. CASE i # n + 1
    <3>1. i \in 0..n /\ (i # 0 => i - 1 \in 0..(n + 1) /\ i - 1 # n + 1)
      BY <2>2
    <3>2. f[i] = IF i = 0 THEN 0 ELSE Then(f[i - 1], i)
      <4>1. i \in 0..n
        BY <3>1
      <4>2. f[i] = IF i = 0 THEN 0
                   ELSE IF i \in W THEN Greater(f[i - 1], d[i]) + c[i] ELSE f[i - 1]
        BY <4>1, LongestAt
      <4> QED
        BY <4>2
    <3> HIDE DEF Then
    <3> QED
      BY <2>2, <3>1, <3>2
  <2> QED
    BY <2>1, <2>2
<1>2. g = [i \in 0..(n + 1) |-> IF i = 0 THEN 0 ELSE Then(g[i - 1], i)]
  <2> HIDE DEF Then
  <2> QED
    BY <1>1
<1> HIDE DEF g
<1> QED
  BY <1>2 DEF IsLongest

LEMMA LongestExists ==
  ASSUME NEW W, NEW d, NEW c, NEW n \in Nat
  PROVE  \E f : IsLongest(f, W, d, c, n)
<1> DEFINE z == [k \in 0..0 |-> 0]
           S == {m \in 1..n : \E f : IsLongest(f, W, d, c, m)}
<1>1. IsLongest(z, W, d, c, 0)
  <2>1. z = [i \in 0..0 |-> IF i = 0 THEN 0
                            ELSE IF i \in W THEN Greater(z[i - 1], d[i]) + c[i] ELSE z[i - 1]]
    OBVIOUS
  <2> QED
    BY <2>1 DEF IsLongest
<1> HIDE DEF z
<1>2. CASE n # 0
  <2>1. 1 \in S
    <3>1. \E g : IsLongest(g, W, d, c, 0 + 1)
      BY <1>1, LongestGoesOn
    <3> QED
      BY <1>2, <3>1
  <2>2. ASSUME NEW i \in 1..n, i \in S, i < n
        PROVE  i + 1 \in S
    <3>1. PICK f : IsLongest(f, W, d, c, i)
      BY <2>2
    <3>2. \E g : IsLongest(g, W, d, c, i + 1)
      BY <3>1, LongestGoesOn
    <3> QED
      BY <2>2, <3>2
  <2>3. 1..n \subseteq S
    <3> HIDE DEF S
    <3> QED
      BY <2>1, <2>2, UpTo
  <2> QED
    BY <1>2, <2>3
<1> QED
  BY <1>1, <1>2

\* The sums of integers are integers.
LEMMA SumType ==
  ASSUME NEW s, NEW amounts, NEW n \in Nat, IsSum(s, amounts, n),
         \A k \in 1..n : amounts[k] \in Int
  PROVE  /\ s[0] = 0 /\ \A k \in 0..n : s[k] \in Int
         /\ \A k \in 1..n : s[k] = s[k - 1] + amounts[k]
<1>1. \A k \in 0..n : s[k] = IF k = 0 THEN 0 ELSE s[k - 1] + amounts[k]
  BY SumAt
<1>2. s[0] = 0
  BY <1>1
<1>3. \A k \in 1..n : s[k] = s[k - 1] + amounts[k]
  BY <1>1
<1> DEFINE S == {k \in 1..n : s[k] \in Int}
<1>4. n # 0 => 1..n \subseteq S
  <2> SUFFICES ASSUME n # 0 PROVE 1..n \subseteq S
    OBVIOUS
  <2>1. 1 \in S
    <3>1. 1 \in 1..n
      OBVIOUS
    <3>2. s[1] = s[1 - 1] + amounts[1] /\ 1 - 1 = 0
      BY <1>3, <3>1
    <3> QED
      BY <1>2, <3>1, <3>2
  <2>2. ASSUME NEW i \in 1..n, i \in S, i < n PROVE i + 1 \in S
    <3>1. i + 1 \in 1..n /\ (i + 1) - 1 = i
      BY <2>2
    <3>2. s[i + 1] = s[i] + amounts[i + 1]
      BY <1>3, <3>1
    <3> QED
      BY <2>2, <3>1, <3>2
  <2> HIDE DEF S
  <2> QED
    BY <2>1, <2>2, UpTo
<1>5. \A k \in 0..n : k = 0 \/ (n # 0 /\ k \in 1..n)
  OBVIOUS
<1> QED
  BY <1>2, <1>3, <1>4, <1>5

\* Up to the k-th step, nothing takes longer than x, and one path as long.
IsSlowest(x, k, W, d, s) ==
  /\ \A f \in W : f <= k => d[f] + s[k] - s[f - 1] <= x
  /\ \E f \in W : f <= k /\ x = d[f] + s[k] - s[f - 1]

\* A wave more, that starts at its hold or when the one before is over.
LEMMA OneWaveMore ==
  ASSUME NEW n \in Nat, NEW W, W \subseteq 1..n, NEW d, \A f \in W : d[f] \in Int,
         NEW s, \A i \in 0..n : s[i] \in Int, NEW k \in 0..n, k + 1 \in W,
         NEW x \in Int, k = 0 => x = 0 /\ d[1] >= 0,
         k # 0 => IsSlowest(x, k, W, d, s),
         NEW y, y = Greater(x, d[k + 1]) + (s[k + 1] - s[k])
  PROVE  y \in Int /\ IsSlowest(y, k + 1, W, d, s)
<1> PICK m \in 1..n : m = k + 1
  OBVIOUS
<1> DEFINE a == s[k]  b == s[m]  e == d[m]
<1>1. a \in Int /\ b \in Int /\ e \in Int /\ m \in W /\ m - 1 = k
  OBVIOUS
<1>2. y = Greater(x, e) + (b - a)
  OBVIOUS
<1>3. \A f \in W : /\ f \in 1..n /\ d[f] \in Int /\ s[f - 1] \in Int
                   /\ f <= m <=> f <= k \/ f = m
  <2> TAKE f \in W
  <2>1. f \in 1..n /\ f - 1 \in 0..n
    OBVIOUS
  <2> QED
    BY <2>1
<1> HIDE DEF a, b, e
<1>4. y = IF x >= e THEN x + (b - a) ELSE e + (b - a)
  BY <1>1, <1>2, MaxOfTwo
<1>5. y \in Int /\ x + (b - a) <= y /\ e + b - a <= y
  BY <1>1, <1>4
<1>6. ASSUME NEW f \in W, f <= m PROVE d[f] + b - s[f - 1] <= y
  <2> DEFINE u == d[f]  v == s[f - 1]
  <2>1. u \in Int /\ v \in Int
    BY <1>3
  <2>2. CASE f = m
    <3>1. u = e /\ v = a
      BY <1>1, <2>2 DEF a, e
    <3> HIDE DEF u, v
    <3> QED
      BY <1>1, <1>5, <3>1 DEF u, v
  <2>3. CASE f # m
    <3>1. f <= k /\ k # 0
      BY <1>3, <1>6, <2>3
    <3>2. u + a - v <= x
      BY <3>1 DEF IsSlowest, a
    <3> HIDE DEF u, v
    <3>3. u + b - v <= y
      BY <1>1, <1>5, <2>1, <3>2
    <3> QED
      BY <3>3 DEF u, v
  <2> QED
    BY <2>2, <2>3
<1>7. \E f \in W : f <= m /\ y = d[f] + b - s[f - 1]
  <2>1. CASE ~(x >= e)
    <3>1. y = e + b - a
      BY <1>1, <1>4, <2>1
    <3> QED
      BY <1>1, <3>1 DEF a, e
  <2>2. CASE x >= e /\ k = 0
    <3>1. m = 1 /\ x = e
      <4>1. m = 1 /\ e >= 0 /\ x = 0
        BY <1>1, <2>2 DEF e
      <4> QED
        BY <1>1, <2>2, <4>1
    <3>2. y = e + b - a
      BY <1>1, <1>4, <3>1
    <3> QED
      BY <1>1, <3>2 DEF a, e
  <2>3. CASE x >= e /\ k # 0
    <3>1. PICK f \in W : f <= k /\ x = d[f] + a - s[f - 1]
      BY <2>3 DEF IsSlowest, a
    <3> DEFINE u == d[f]  v == s[f - 1]
    <3>2. u \in Int /\ v \in Int /\ x = u + a - v /\ f <= m
      BY <1>3, <3>1
    <3> HIDE DEF u, v
    <3>3. y = u + b - v
      BY <1>1, <1>4, <2>3, <3>2
    <3> QED
      BY <3>2, <3>3 DEF u, v
  <2> QED
    BY <2>1, <2>2, <2>3
<1> QED
  BY <1>5, <1>6, <1>7 DEF IsSlowest, b

\* A step of a wave under way adds nothing.
LEMMA NoWaveMore ==
  ASSUME NEW n \in Nat, NEW W, W \subseteq 1..n, NEW d, NEW s, NEW k \in 1..n, k + 1 \notin W,
         NEW x, IsSlowest(x, k, W, d, s), s[k + 1] = s[k]
  PROVE  IsSlowest(x, k + 1, W, d, s)
<1>1. \A f \in W : f <= k + 1 <=> f <= k
  OBVIOUS
<1> QED
  BY <1>1 DEF IsSlowest

\* Step by step, what the waves cost: a wave's first step stands for all of it.
Costs(W, c, n) == [k \in 1..n |-> IF k \in W THEN c[k] ELSE 0]

\* The waves W of n steps, by their first steps, with their holds d and costs c.
AreWaves(n, W, d, c) ==
  /\ n \in Nat /\ W \subseteq 1..n /\ 1 \in W
  /\ \A f \in W : d[f] \in Int /\ c[f] \in Int
  /\ d[1] >= 0

\* What the paths take that start at the hold of some wave.
Paths(n, W, d, s) == {d[f] + s[n] - s[f - 1] : f \in W}

\* What the recursion gives is the slowest path.
LEMMA LongestIsSlowest ==
  ASSUME NEW n, NEW W, NEW d, NEW c, AreWaves(n, W, d, c),
         NEW s, IsSum(s, Costs(W, c, n), n), NEW t, IsLongest(t, W, d, c, n)
  PROVE  t[n] = Max(Paths(n, W, d, s))
<1>0. /\ n \in Nat /\ W \subseteq 1..n /\ 1 \in W
      /\ \A f \in W : d[f] \in Int /\ c[f] \in Int
      /\ d[1] >= 0
  BY DEF AreWaves
<1> USE <1>0
<1> DEFINE amounts == Costs(W, c, n)
<1>1. \A k \in 1..n : amounts[k] = (IF k \in W THEN c[k] ELSE 0) /\ amounts[k] \in Int
  BY DEF Costs
<1> HIDE DEF amounts
<1>2. /\ s[0] = 0 /\ \A k \in 0..n : s[k] \in Int
      /\ \A k \in 1..n : s[k] = s[k - 1] + amounts[k]
  BY <1>1, SumType DEF amounts
<1>3. \A k \in 1..n : /\ k \in W => s[k] - s[k - 1] = c[k]
                      /\ k \notin W => s[k] = s[k - 1]
  <2> TAKE k \in 1..n
  <2>1. s[k] \in Int /\ s[k - 1] \in Int /\ amounts[k] \in Int
    <3>1. k \in 0..n /\ k - 1 \in 0..n
      OBVIOUS
    <3> QED
      BY <1>1, <1>2, <3>1
  <2>2. s[k] = s[k - 1] + amounts[k]
    BY <1>2
  <2>3. s[k] - s[k - 1] = amounts[k] /\ (amounts[k] = 0 => s[k] = s[k - 1])
    BY <2>1, <2>2
  <2> QED
    BY <1>1, <2>3
<1>4. t[0] = 0 /\ \A k \in 1..n : t[k] = IF k \in W THEN Greater(t[k - 1], d[k]) + c[k] ELSE t[k - 1]
  <2>1. \A k \in 0..n : t[k] = IF k = 0 THEN 0
                               ELSE IF k \in W THEN Greater(t[k - 1], d[k]) + c[k] ELSE t[k - 1]
    BY LongestAt
  <2>2. 0 \in 0..n /\ \A k \in 1..n : k \in 0..n /\ k # 0
    OBVIOUS
  <2> QED
    BY <2>1, <2>2
<1> DEFINE S == {k \in 1..n : t[k] \in Int /\ IsSlowest(t[k], k, W, d, s)}
<1>5. n \in 1..n /\ 1 \in 1..n
  OBVIOUS
<1>6. ASSUME NEW k \in 0..n, k + 1 \in W, t[k] \in Int, k = 0 => t[k] = 0,
             k # 0 => IsSlowest(t[k], k, W, d, s)
      PROVE  k + 1 \in S
  <2>1. k + 1 \in 1..n /\ (k + 1) - 1 = k
    BY <1>6
  <2> DEFINE x == t[k]  y == t[k + 1]
  <2>2. y = Greater(x, d[k + 1]) + (s[k + 1] - s[k])
    BY <1>3, <1>4, <1>6, <2>1
  <2>3. x \in Int /\ (k = 0 => x = 0 /\ d[1] >= 0) /\ (k # 0 => IsSlowest(x, k, W, d, s))
    BY <1>6
  <2> HIDE DEF x, y
  <2>4. y \in Int /\ IsSlowest(y, k + 1, W, d, s)
    BY <1>2, <1>6, <2>2, <2>3, OneWaveMore
  <2> QED
    BY <2>1, <2>4 DEF y
<1>7. 1 \in S
  <2>1. 0 \in 0..n /\ 0 + 1 = 1
    OBVIOUS
  <2> HIDE DEF S
  <2> QED
    BY <1>4, <1>6, <2>1
<1>8. ASSUME NEW k \in 1..n, k \in S, k < n PROVE k + 1 \in S
  <2>1. k + 1 \in 1..n /\ (k + 1) - 1 = k /\ k \in 0..n /\ k # 0
    BY <1>8
  <2>2. t[k] \in Int /\ IsSlowest(t[k], k, W, d, s)
    BY <1>8
  <2>3. CASE k + 1 \in W
    BY <1>6, <2>1, <2>2, <2>3
  <2>4. CASE k + 1 \notin W
    <3>1. s[k + 1] = s[k] /\ t[k + 1] = t[k]
      BY <1>3, <1>4, <2>1, <2>4
    <3>2. IsSlowest(t[k], k + 1, W, d, s)
      BY <2>2, <2>4, <3>1, NoWaveMore
    <3> QED
      BY <2>1, <2>2, <3>1, <3>2
  <2> QED
    BY <2>3, <2>4
<1>9. 1..n \subseteq S
  <2> HIDE DEF S
  <2> QED
    BY <1>7, <1>8, UpTo
<1>10. t[n] \in Int /\ IsSlowest(t[n], n, W, d, s)
  BY <1>5, <1>9
<1> DEFINE V == Paths(n, W, d, s)
<1>11. V \subseteq Int /\ t[n] \in V /\ \A v \in V : v <= t[n]
  <2>1. \A f \in W : f <= n /\ f - 1 \in 0..n /\ n \in 0..n
    OBVIOUS
  <2>2. \A f \in W : d[f] + s[n] - s[f - 1] \in Int
    BY <1>2, <2>1
  <2>3. \A f \in W : d[f] + s[n] - s[f - 1] <= t[n]
    BY <1>10, <2>1 DEF IsSlowest
  <2>4. \E f \in W : t[n] = d[f] + s[n] - s[f - 1]
    BY <1>10 DEF IsSlowest
  <2> QED
    BY <2>2, <2>3, <2>4 DEF Paths
<1> HIDE DEF V
<1>12. Max(V) = t[n]
  BY <1>11, MaxIs
<1> QED
  BY <1>12 DEF V

\* The point of no return is in a wave if a step of it cannot be undone, and none before
\* the wave cannot.
LEMMA CommitsHere ==
  ASSUME NEW p, NEW n \in Nat, Len(p) = n, NEW f \in 1..n
  PROVE  PointOfNoReturn(p) \in WaveFrom(p, f)
           <=> \E j \in WaveFrom(p, f) : ~p[j].reversible /\ ~Committed(p, f)
<1> DEFINE q == PointOfNoReturn(p)
           Is(x) == /\ \A i \in 1..(x - 1) : p[i].reversible
                    /\ x <= n => ~p[x].reversible
           T == {i \in 1..n : ~p[i].reversible}
<1>1. \E x \in 1..(n + 1) : Is(x)
  <2>1. CASE T = {}
    <3>1. n + 1 \in 1..(n + 1) /\ ~(n + 1 <= n) /\ (n + 1) - 1 = n
      OBVIOUS
    <3>2. \A i \in 1..n : p[i].reversible
      BY <2>1
    <3>3. Is(n + 1)
      BY <3>1, <3>2
    <3> QED
      BY <3>1, <3>3
  <2>2. CASE T # {}
    <3>1. T \subseteq Nat
      OBVIOUS
    <3>2. PICK x \in T : \A y \in T : ~(y < x)
      <4> HIDE DEF T
      <4> QED
        BY <2>2, <3>1, Least
    <3>3. x \in 1..n /\ ~p[x].reversible
      OBVIOUS
    <3>4. \A i \in 1..(x - 1) : i \in 1..n /\ i < x
      BY <3>3
    <3>5. \A i \in 1..(x - 1) : p[i].reversible
      BY <3>2, <3>4
    <3>6. x \in 1..(n + 1)
      BY <3>3
    <3> QED
      BY <3>3, <3>5, <3>6
  <2> QED
    BY <2>1, <2>2
<1>2. q = CHOOSE x \in 1..(n + 1) : Is(x)
  BY DEF PointOfNoReturn
<1> HIDE DEF q
<1>3. q \in 1..(n + 1) /\ Is(q)
  <2> HIDE DEF Is
  <2> QED
    BY <1>1, <1>2
<1>4. ASSUME q \in WaveFrom(p, f)
      PROVE  \E j \in WaveFrom(p, f) : ~p[j].reversible /\ ~Committed(p, f)
  <2>1. q \in f..n
    BY <1>4 DEF WaveFrom
  <2>2. ~p[q].reversible
    BY <1>3, <2>1
  <2>3. \A i \in 1..(f - 1) : i \in 1..(q - 1)
    BY <2>1
  <2>4. ~Committed(p, f)
    BY <1>3, <2>3 DEF Committed
  <2> QED
    BY <1>4, <2>2, <2>4
<1>5. ASSUME NEW j \in WaveFrom(p, f), ~p[j].reversible, ~Committed(p, f)
      PROVE  q \in WaveFrom(p, f)
  <2>1. j \in f..n /\ \A k \in f..j : p[k].wave = p[f].wave
    BY DEF WaveFrom
  <2>2. q <= j
    <3>1. ~(j \in 1..(q - 1))
      BY <1>3, <1>5
    <3> QED
      BY <1>3, <2>1, <3>1
  <2>3. q <= n /\ q \in 1..n
    BY <1>3, <2>1, <2>2
  <2>4. ~p[q].reversible
    BY <1>3, <2>3
  <2>5. ~(q \in 1..(f - 1))
    BY <1>5, <2>4 DEF Committed
  <2>6. q \in f..n /\ \A k \in f..q : k \in f..j
    BY <2>1, <2>2, <2>3, <2>5
  <2> QED
    BY <2>1, <2>6 DEF WaveFrom
<1> QED
  BY <1>4, <1>5 DEF q

\* What a step may take and how long it is held are numbers.
LEMMA NumbersRead ==
  ASSUME NEW h \in Hosts, NEW p, InParts(p, h), NEW i \in DOMAIN p
  PROVE  p[i].timeout \in Int /\ p[i].notBefore \in Int /\ p[i].notBefore >= 0
<1> DEFINE a == Len(Before(h)) b == Len(Stopped(h)) c == Len(After(h))
<1>1. IsRead(p, h, a, b, c)
  BY StepsRead
<1>2. /\ \A k \in 1..a : p[k] = HostStep(Before(h)[k].action, Before(h)[k].back, k)
      /\ \A k \in 1..b : p[a + k] = StopStep(Stopped(h)[k], a + Wave(h, k),
                                             WithDefaults(h.opts), InUse(h))
      /\ \A k \in 1..c : p[a + b + k] = HostStep(After(h)[k], FALSE, a + Wave(h, b) + k)
  BY DEF InParts
<1>3. \A action, back, w : /\ HostStep(action, back, w).timeout = 0
                           /\ HostStep(action, back, w).notBefore = 0
  BY DEF HostStep
<1>4. \A k \in 1..b : Stopped(h)[k] \in Guest
  BY Parts
<1> HIDE DEF a, b, c
<1>5. \/ i \in 1..a
      \/ \E k \in 1..b : i = a + k
      \/ \E k \in 1..c : i = a + b + k
  BY <1>1 DEF IsRead
<1>6. CASE i \in 1..a \/ \E k \in 1..c : i = a + b + k
  <2>1. \E action, back, w : p[i] = HostStep(action, back, w)
    <3>1. CASE i \in 1..a
      BY <1>2, <3>1
    <3>2. ASSUME NEW k \in 1..c, i = a + b + k
          PROVE  \E action, back, w : p[i] = HostStep(action, back, w)
      <4>1. p[i] = HostStep(After(h)[k], FALSE, a + Wave(h, b) + k)
        BY <1>2, <3>2
      <4> QED
        BY <4>1
    <3> QED
      BY <1>6, <3>1, <3>2
  <2>2. p[i].timeout = 0 /\ p[i].notBefore = 0
    BY <1>3, <2>1
  <2> QED
    BY <2>2
<1>7. ASSUME NEW k \in 1..b, i = a + k
      PROVE  p[i].timeout \in Int /\ p[i].notBefore \in Int /\ p[i].notBefore >= 0
  <2> DEFINE g == Stopped(h)[k] w == a + Wave(h, k) opts == WithDefaults(h.opts)
             gi == GroupIndexOf(InUse(h), g.order)
  <2>1. opts.guestTimeout \in Int
    <3>1. h.opts \in Options
      BY HostsAssumption
    <3>2. opts.guestTimeout = IF h.opts.guestTimeout <= 0 THEN DefaultGuestTimeout
                              ELSE h.opts.guestTimeout
      BY <3>1 DEF WithDefaults, Options
    <3> HIDE DEF opts
    <3>3. h.opts.guestTimeout \in Int
      BY <3>1 DEF Options
    <3> QED
      BY <3>2, <3>3 DEF DefaultGuestTimeout
  <2>2. g.down \in Int
    BY <1>4 DEF Guest
  <2>3. gi > 1 => gi \in DOMAIN InUse(h)
    <3>1. /\ gi \in 0..Len(InUse(h))
          /\ gi # 0 => gi \in DOMAIN InUse(h)
      BY HostGiven, GroupIndex
    <3>2. gi > 1 => gi # 0
      BY <3>1
    <3> QED
      BY <3>1, <3>2
  <2>4. gi > 1 => InUse(h)[gi].notBefore \in Int
    <3>1. gi > 1 => InUse(h)[gi] \in OrderGroup
      BY <2>3, HostGiven, LenProperties, ElementOfSeq
    <3> QED
      BY <3>1 DEF OrderGroup
  <2>5. p[i] = StopStep(g, w, opts, InUse(h))
    BY <1>2, <1>7
  <2> HIDE DEF g, w, opts
  <2>6. /\ p[i].timeout = IF g.down > 0 THEN g.down ELSE opts.guestTimeout
        /\ p[i].notBefore = IF gi > 1 /\ InUse(h)[gi].notBefore > 0
                            THEN InUse(h)[gi].notBefore ELSE 0
    BY <2>5 DEF StopStep, Budget
  <2>7. p[i].timeout \in Int
    BY <2>1, <2>2, <2>6
  <2> HIDE DEF gi
  <2> DEFINE u == InUse(h)[gi].notBefore
  <2>8. gi > 1 => u \in Int
    BY <2>4
  <2>9. p[i].notBefore = IF gi > 1 /\ u > 0 THEN u ELSE 0
    BY <2>6
  <2> HIDE DEF u
  <2>10. p[i].notBefore \in Int /\ p[i].notBefore >= 0
    BY <2>8, <2>9
  <2> QED
    BY <2>7, <2>10
<1> QED
  BY <1>5, <1>6, <1>7

HoldsOf(p, H) == [f \in WaveStarts(p) |-> NotBefore(p, f, H)]
BudgetsOf(p)  == [f \in WaveStarts(p) |-> Slowest(p, f)]

\* The worst case is where the recursion over the waves ends.
LEMMA WorstCaseIs ==
  ASSUME NEW p, NEW H, NEW n \in Nat, Len(p) = n, NEW W, W = WaveStarts(p),
         NEW d, d = HoldsOf(p, H), NEW c, c = BudgetsOf(p)
  PROVE  \E t : IsLongest(t, W, d, c, n) /\ WorstCase(p, H) = t[n]
<1> DEFINE Body(t) == [i \in 0..n |->
              IF i = 0 THEN 0
              ELSE IF i \in W THEN Max({t[i - 1], NotBefore(p, i, H)}) + Slowest(p, i)
                   ELSE t[i - 1]]
           T == CHOOSE t : t = Body(t)
<1>1. \A t : t = Body(t) <=> IsLongest(t, W, d, c, n)
  <2> TAKE t
  <2> DEFINE L == [i \in 0..n |-> IF i = 0 THEN 0
                                  ELSE IF i \in W THEN Greater(t[i - 1], d[i]) + c[i] ELSE t[i - 1]]
  <2>1. \A i \in W : d[i] = NotBefore(p, i, H) /\ c[i] = Slowest(p, i)
    BY DEF HoldsOf, BudgetsOf
  <2>2. \A i \in W : Greater(t[i - 1], d[i]) = Max({t[i - 1], NotBefore(p, i, H)})
    BY <2>1 DEF Greater
  <2>3. L = Body(t)
    BY <2>1, <2>2
  <2> HIDE DEF Body
  <2>4. IsLongest(t, W, d, c, n) <=> t = L
    BY DEF IsLongest
  <2> QED
    BY <2>3, <2>4
<1>2. \E t : IsLongest(t, W, d, c, n)
  BY LongestExists
<1>3. WorstCase(p, H) = T[n]
  BY DEF WorstCase
<1> HIDE DEF Body
<1>4. T = Body(T)
  BY <1>1, <1>2
<1> HIDE DEF T
<1>5. IsLongest(T, W, d, c, n)
  BY <1>1, <1>4
<1> QED
  BY <1>3, <1>5

\* What is spent up to a step, is the sum of what the waves cost.
LEMMA SpentIsTheSum ==
  ASSUME NEW n \in Nat, Len(steps) = n, NEW W, W = WaveStarts(steps),
         NEW c, c = BudgetsOf(steps)
  PROVE  IsSum(Spent, Costs(W, c, n), n)
<1> DEFINE amounts == Costs(W, c, n)
           Body(s) == [k \in 0..n |->
             IF k = 0 THEN 0
             ELSE s[k - 1] + IF k \in W THEN Max({steps[j].timeout : j \in WaveFrom(steps, k)})
                             ELSE 0]
           S == CHOOSE s : s = Body(s)
<1>1. \A s : s = Body(s) <=> IsSum(s, amounts, n)
  <2> TAKE s
  <2> DEFINE L == [k \in 0..n |-> IF k = 0 THEN 0 ELSE s[k - 1] + amounts[k]]
  <2>1. \A k \in W : c[k] = Max({steps[j].timeout : j \in WaveFrom(steps, k)})
    BY DEF BudgetsOf, Slowest
  <2>2. \A k \in 0..n : k # 0 =>
          amounts[k] = IF k \in W THEN Max({steps[j].timeout : j \in WaveFrom(steps, k)}) ELSE 0
    <3>1. \A k \in 0..n : k # 0 => k \in 1..n
      OBVIOUS
    <3> QED
      BY <2>1, <3>1 DEF Costs
  <2> HIDE DEF amounts
  <2>3. L = Body(s)
    BY <2>2
  <2> HIDE DEF Body
  <2>4. IsSum(s, amounts, n) <=> s = L
    BY DEF IsSum
  <2> QED
    BY <2>3, <2>4
<1>2. \E s : IsSum(s, amounts, n)
  <2> HIDE DEF amounts
  <2> QED
    BY SumExists
<1>3. Spent = S
  BY DEF Spent
<1> HIDE DEF Body, amounts
<1>4. S = Body(S)
  BY <1>1, <1>2
<1> HIDE DEF S
<1>5. IsSum(S, amounts, n)
  BY <1>1, <1>4
<1> QED
  BY <1>3, <1>5 DEF amounts

\* A wave starts with its first step, whatever follows.
LEMMA FirstOfWave ==
  ASSUME NEW p, NEW n \in Nat, Len(p) = n, NEW f \in 1..n
  PROVE  f \in WaveFrom(p, f) /\ WaveFrom(p, f) \subseteq 1..n
<1>1. f \in f..n /\ \A k \in f..f : k = f
  OBVIOUS
<1>2. \A j \in f..n : j \in 1..n
  OBVIOUS
<1> QED
  BY <1>1, <1>2 DEF WaveFrom

\* The worst case of every plan is what its slowest path takes: from the ceiling of some
\* wave's hold on, every wave that is left uses its whole budget. Nothing a run can do
\* within its budgets takes longer, and the figure is not put higher than what some run
\* can take (plan.go WorstCase).
THEOREM WorstCaseHolds == Spec => []WorstCaseIsTheSlowestPath
<1>1. PlanOfTheHost => WorstCaseIsTheSlowestPath
  <2> DEFINE H == host.opts.holdUntil
             Hold(f) == IF \E j \in WaveFrom(steps, f) :
                             ~steps[j].reversible /\ ~Committed(steps, f)
                        THEN Max({steps[f].notBefore, H})
                        ELSE steps[f].notBefore
             Path(f) == Hold(f) + Spent[Len(steps)] - Spent[f - 1]
  <2> SUFFICES ASSUME PlanOfTheHost, Planned
               PROVE  WorstCase(steps, H) = Max({Path(f) : f \in WaveStarts(steps)})
    BY DEF WorstCaseIsTheSlowestPath
  <2> DEFINE W == WaveStarts(steps)
             n == Len(steps)
             d == HoldsOf(steps, H)
             c == BudgetsOf(steps)
  <2>1. host \in Hosts /\ InParts(steps, host)
    BY PlannedInParts
  <2>2. n \in Nat /\ DOMAIN steps = 1..n /\ n # 0
    <3>1. IsRead(steps, host, Len(Before(host)), Len(Stopped(host)), Len(After(host)))
      BY <2>1, StepsRead
    <3>2. n \in Nat /\ DOMAIN steps = 1..n
      BY <3>1 DEF IsRead
    <3>3. n # 0
      <4>1. PlanOfTheHost /\ steps # <<>>
        BY DEF Planned
      <4> QED
        BY <4>1, <3>2
    <3> QED
      BY <3>2, <3>3
  <2>3. H \in Int
    <3>1. host.opts \in Options
      BY <2>1, HostsAssumption
    <3> QED
      BY <3>1 DEF Options
  <2>4. \A i \in 1..n : /\ steps[i].timeout \in Int
                        /\ steps[i].notBefore \in Int /\ steps[i].notBefore >= 0
    BY <2>1, <2>2, NumbersRead
  <2> HIDE DEF H, n
  <2>5. W \subseteq 1..n /\ 1 \in W
    <3>1. 1 \in 1..n
      BY <2>2
    <3> QED
      BY <2>2, <3>1 DEF WaveStarts
  <2>6. \A f \in 1..n : Slowest(steps, f) \in Int
    <3> TAKE f \in 1..n
    <3> DEFINE U == WaveFrom(steps, f)
               g == [j \in 1..n |-> steps[j].timeout]
    <3>1. U \subseteq 1..n /\ U # {}
      BY <2>2, FirstOfWave DEF n
    <3>2. \A j \in U : g[j] = steps[j].timeout /\ g[j] \in Int
      BY <2>4, <3>1
    <3> HIDE DEF U, g
    <3>3. Max({g[j] : j \in U}) \in Int
      BY <2>2, <3>1, <3>2, MaxAmong
    <3>4. {g[j] : j \in U} = {steps[j].timeout : j \in U}
      BY <3>2
    <3>5. Slowest(steps, f) = Max({steps[j].timeout : j \in U})
      BY DEF Slowest, U
    <3> QED
      BY <3>3, <3>4, <3>5
  <2>7. \A f \in 1..n : /\ NotBefore(steps, f, H) = Hold(f)
                        /\ NotBefore(steps, f, H) \in Int /\ NotBefore(steps, f, H) >= 0
    <3> TAKE f \in 1..n
    <3> DEFINE q == steps[f].notBefore
    <3>1. PointOfNoReturn(steps) \in WaveFrom(steps, f)
            <=> \E j \in WaveFrom(steps, f) : ~steps[j].reversible /\ ~Committed(steps, f)
      BY <2>2, CommitsHere DEF n
    <3>2. NotBefore(steps, f, H) = Hold(f)
      BY <3>1 DEF NotBefore
    <3>3. NotBefore(steps, f, H) \in {Greater(q, H), q}
      BY DEF NotBefore, Greater
    <3>4. q \in Int /\ q >= 0
      BY <2>4
    <3> HIDE DEF q
    <3>5. Greater(q, H) = IF q >= H THEN q ELSE H
      BY <2>3, <3>4, MaxOfTwo
    <3>6. Greater(q, H) \in Int /\ Greater(q, H) >= 0
      BY <2>3, <3>4, <3>5
    <3> QED
      BY <3>2, <3>3, <3>4, <3>6
  <2> HIDE DEF Hold
  <2>8. PICK t : IsLongest(t, W, d, c, n) /\ WorstCase(steps, H) = t[n]
    <3> HIDE DEF W, c, d
    <3>1. /\ W = WaveStarts(steps) /\ Len(steps) = n
          /\ d = HoldsOf(steps, H) /\ c = BudgetsOf(steps)
      BY DEF W, n, c, d
    <3> QED
      BY <2>2, <3>1, WorstCaseIs
  <2>9. IsSum(Spent, Costs(W, c, n), n)
    <3> HIDE DEF W, c
    <3>1. W = WaveStarts(steps) /\ Len(steps) = n /\ c = BudgetsOf(steps)
      BY DEF W, n, c
    <3> QED
      BY <2>2, <3>1, SpentIsTheSum
  <2>10. /\ \A f \in W : d[f] = Hold(f) /\ d[f] \in Int /\ c[f] \in Int
         /\ d[1] >= 0
    <3>1. \A f \in W : d[f] = NotBefore(steps, f, H) /\ c[f] = Slowest(steps, f)
      BY DEF HoldsOf, BudgetsOf
    <3> HIDE DEF W, d, c
    <3> QED
      BY <2>5, <2>6, <2>7, <3>1
  <2> HIDE DEF W, d, c
  <2>11. t[n] = Max(Paths(n, W, d, Spent))
    <3>1. AreWaves(n, W, d, c)
      BY <2>2, <2>5, <2>10 DEF AreWaves
    <3> QED
      BY <2>8, <2>9, <3>1, LongestIsSlowest
  <2>12. Paths(n, W, d, Spent) = {Path(f) : f \in W}
    BY <2>10 DEF n, Paths
  <2>13. WorstCase(steps, H) = Max({Path(f) : f \in W})
    BY <2>8, <2>11, <2>12
  <2> QED
    BY <2>13 DEF W, H
<1> QED
  BY <1>1, IsPlanOfTheHost, PTL
=============================================================================
