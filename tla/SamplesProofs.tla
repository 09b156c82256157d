---------------------------- MODULE SamplesProofs ----------------------------
(***************************************************************************)
(* Proofs about Samples: what the firmware measures is what took place,    *)
(* for registers of any width, and what lat_test reports of it is in order *)
(* for tests of any length.                                                *)
(***************************************************************************)
EXTENDS SamplesInv, NumberLemmas, FiniteSetTheorems

-----------------------------------------------------------------------------
(* Sums.                                                                   *)

\* f gives the sums of the first 0, 1, ..., m elements.
SumsUpto(f, s, m) ==
    /\ f \in [0 .. m -> Nat] /\ f[0] = 0
    /\ \A k \in 1 .. m : f[k] = f[k-1] + s[k]

\* The recursive definition has the solution its lines describe.
LEMMA SumsFacts ==
    ASSUME NEW s \in Seq(Nat)
    PROVE  /\ Sums(s) \in [0 .. Len(s) -> Nat] /\ Sums(s)[0] = 0
           /\ \A k \in 1 .. Len(s) : Sums(s)[k] = Sums(s)[k-1] + s[k]
<1> DEFINE n == Len(s)
           F == CHOOSE sum : sum = [k \in 0 .. Len(s) |->
                                        IF k = 0 THEN 0 ELSE sum[k - 1] + s[k]]
           S == {m \in Nat : m <= n => \E f : SumsUpto(f, s, m)}
<1>1. n \in Nat /\ \A k \in 1 .. n : s[k] \in Nat
  OBVIOUS
<1>2. 0 \in S
  <2> DEFINE f == [k \in 0 .. 0 |-> 0]
  <2>1. f \in [0 .. 0 -> Nat] /\ f[0] = 0 /\ \A k \in 1 .. 0 : f[k] = f[k-1] + s[k]
    OBVIOUS
  <2> HIDE DEF f
  <2>2. SumsUpto(f, s, 0)
    BY <2>1 DEF SumsUpto
  <2>3. QED BY <2>2
<1>3. ASSUME NEW m \in Nat, m \in S PROVE m + 1 \in S
  <2> SUFFICES ASSUME m + 1 <= n PROVE \E g : SumsUpto(g, s, m + 1)
    OBVIOUS
  <2>1. m <= n /\ m + 1 \in 1 .. n
    BY <1>1
  <2>2. PICK f : SumsUpto(f, s, m)
    BY <2>1, <1>3
  <2> DEFINE x == f[m] + s[m+1]
             g == [k \in 0 .. m+1 |-> IF k <= m THEN f[k] ELSE x]
  <2>3. /\ f \in [0 .. m -> Nat] /\ f[0] = 0 /\ x \in Nat
        /\ \A k \in 1 .. m : f[k] = f[k-1] + s[k]
    <3>1. f[m] \in Nat /\ s[m+1] \in Nat
      BY <1>1, <2>1, <2>2 DEF SumsUpto
    <3>2. QED BY <2>2, <3>1 DEF SumsUpto
  <2>4. g[m+1] = x /\ \A k \in 0 .. m : g[k] = f[k]
    OBVIOUS
  <2>5. g \in [0 .. m+1 -> Nat]
    <3> HIDE DEF x
    <3>1. QED BY <2>3
  <2>6. \A k \in 1 .. m+1 : g[k] = g[k-1] + s[k]
    <3>1. ASSUME NEW k \in 1 .. m PROVE g[k] = g[k-1] + s[k]
      <4>1. k \in 0 .. m /\ k - 1 \in 0 .. m
        OBVIOUS
      <4> HIDE DEF g
      <4>2. QED BY <2>3, <2>4, <4>1
    <3>2. g[m+1] = g[(m+1)-1] + s[m+1]
      <4>1. g[(m+1)-1] = f[m]
        BY <2>4
      <4>2. QED BY <2>4, <4>1
    <3>3. \A k \in 1 .. m+1 : k \in 1 .. m \/ k = m + 1
      OBVIOUS
    <3> HIDE DEF g
    <3>4. QED BY <3>1, <3>2, <3>3
  <2> HIDE DEF g
  <2>7. SumsUpto(g, s, m + 1)
    BY <2>3, <2>4, <2>5, <2>6 DEF SumsUpto
  <2>8. QED BY <2>7
<1>4. Nat \subseteq S
  <2> HIDE DEF S
  <2>1. QED BY <1>2, <1>3, SetInduction
<1>5. PICK f : SumsUpto(f, s, n)
  <2> HIDE DEF n
  <2>1. QED BY <1>1, <1>4
<1>6. f = [k \in 0 .. Len(s) |-> IF k = 0 THEN 0 ELSE f[k - 1] + s[k]]
  <2>1. \A k \in 0 .. n : f[k] = IF k = 0 THEN 0 ELSE f[k - 1] + s[k]
    BY <1>1, <1>5 DEF SumsUpto
  <2>2. f = [k \in 0 .. n |-> f[k]]
    BY <1>5 DEF SumsUpto
  <2>3. QED BY <2>1, <2>2
<1>7. F = [k \in 0 .. Len(s) |-> IF k = 0 THEN 0 ELSE F[k - 1] + s[k]]
  <2>1. \E h : h = [k \in 0 .. Len(s) |-> IF k = 0 THEN 0 ELSE h[k - 1] + s[k]]
    BY <1>6
  <2>2. QED BY <2>1, Zenon
<1>8. Sums(s) = F
  BY DEF Sums
<1> HIDE DEF F
<1> DEFINE T == {m \in Nat : m <= n => F[m] \in Nat}
<1>9. 0 \in T
  BY <1>1, <1>7
<1>10. ASSUME NEW m \in Nat, m \in T PROVE m + 1 \in T
  <2>1. m + 1 <= n => F[m+1] = F[m] + s[m+1] /\ F[m] \in Nat /\ s[m+1] \in Nat
    BY <1>1, <1>7, <1>10
  <2>2. QED BY <2>1
<1>11. Nat \subseteq T
  <2> HIDE DEF T
  <2>1. QED BY <1>9, <1>10, SetInduction
<1>12. F \in [0 .. n -> Nat]
  <2>1. F = [k \in 0 .. n |-> F[k]]
    BY <1>7
  <2>2. \A k \in 0 .. n : F[k] \in Nat
    BY <1>11
  <2>3. QED BY <2>1, <2>2
<1>13. F[0] = 0 /\ \A k \in 1 .. n : F[k] = F[k-1] + s[k]
  BY <1>1, <1>7
<1>14. QED BY <1>8, <1>12, <1>13

LEMMA TotalType ==
    ASSUME NEW s \in Seq(Nat)
    PROVE  Total(s) \in Nat
<1>1. Len(s) \in Nat /\ Sums(s) \in [0 .. Len(s) -> Nat]
  BY SumsFacts
<1>2. QED BY <1>1 DEF Total

LEMMA TotalOfNone == Total(<<>>) = 0
<1>1. <<>> \in Seq(Nat) /\ Len(<<>>) = 0
  OBVIOUS
<1>2. QED BY <1>1, SumsFacts DEF Total

\* The sums of a sequence are those of a beginning of it, times a factor.
LEMMA SumsScale ==
    ASSUME NEW s \in Seq(Nat), NEW t \in Seq(Nat), NEW c \in Nat, Len(s) <= Len(t),
           \A k \in 1 .. Len(s) : t[k] = c * s[k]
    PROVE  \A k \in 0 .. Len(s) : Sums(t)[k] = c * Sums(s)[k]
<1> DEFINE S == {m \in Nat : m <= Len(s) => Sums(t)[m] = c * Sums(s)[m]}
<1>1. Len(s) \in Nat /\ Len(t) \in Nat /\ \A k \in 1 .. Len(s) : s[k] \in Nat
  OBVIOUS
<1>2. /\ Sums(s) \in [0 .. Len(s) -> Nat] /\ Sums(s)[0] = 0 /\ Sums(t)[0] = 0
      /\ \A k \in 1 .. Len(s) : Sums(s)[k] = Sums(s)[k-1] + s[k]
      /\ \A k \in 1 .. Len(t) : Sums(t)[k] = Sums(t)[k-1] + t[k]
  BY SumsFacts
<1>3. 0 \in S
  BY <1>1, <1>2
<1>4. ASSUME NEW m \in Nat, m \in S PROVE m + 1 \in S
  <2> SUFFICES ASSUME m + 1 <= Len(s) PROVE Sums(t)[m+1] = c * Sums(s)[m+1]
    OBVIOUS
  <2>1. m + 1 \in 1 .. Len(s) /\ m + 1 \in 1 .. Len(t) /\ m \in 0 .. Len(s)
    BY <1>1
  <2>2. /\ Sums(s)[m+1] = Sums(s)[m] + s[m+1] /\ Sums(t)[m+1] = Sums(t)[m] + t[m+1]
    BY <1>2, <2>1
  <2>3. Sums(s)[m] \in Nat /\ s[m+1] \in Nat /\ t[m+1] = c * s[m+1]
    BY <1>1, <1>2, <2>1
  <2>4. Sums(t)[m] = c * Sums(s)[m]
    BY <1>4, <2>1
  <2>5. \A a, b \in Nat : c * a + c * b = c * (a + b)
    OBVIOUS
  <2>6. QED BY <2>2, <2>3, <2>4, <2>5
<1>5. Nat \subseteq S
  <2> HIDE DEF S
  <2>1. QED BY <1>3, <1>4, SetInduction
<1>6. QED BY <1>1, <1>5

LEMMA TotalAppend ==
    ASSUME NEW s \in Seq(Nat), NEW x \in Nat
    PROVE  Total(Append(s, x)) = Total(s) + x
<1> DEFINE t == Append(s, x)
           n == Len(s)
<1>1. /\ t \in Seq(Nat) /\ n \in Nat /\ Len(t) = n + 1 /\ t[n + 1] = x
      /\ \A k \in 1 .. n : t[k] = s[k] /\ s[k] \in Nat
  OBVIOUS
<1> HIDE DEF t
<1>2. Sums(t)[n] = Sums(s)[n]
  <2>1. \A k \in 1 .. n : t[k] = 1 * s[k]
    BY <1>1
  <2>2. n <= Len(t) /\ n \in 0 .. n
    BY <1>1
  <2>3. Sums(t)[n] = 1 * Sums(s)[n]
    <3>1. \A k \in 0 .. Len(s) : Sums(t)[k] = 1 * Sums(s)[k]
      <4>1. 1 \in Nat /\ Len(s) <= Len(t) /\ \A k \in 1 .. Len(s) : t[k] = 1 * s[k]
        BY <2>1, <2>2
      <4>2. QED BY <1>1, <4>1, SumsScale, Zenon
    <3>2. QED BY <2>2, <3>1, Zenon
  <2>4. Sums(s)[n] \in Nat
    BY <2>2, SumsFacts
  <2>5. QED BY <2>3, <2>4
<1>3. Sums(t)[n + 1] = Sums(t)[(n + 1) - 1] + t[n + 1]
  <2>1. n + 1 \in 1 .. Len(t)
    BY <1>1
  <2>2. \A k \in 1 .. Len(t) : Sums(t)[k] = Sums(t)[k-1] + t[k]
    BY <1>1, SumsFacts
  <2> HIDE DEF n
  <2>3. QED BY <2>1, <2>2
<1>4. (n + 1) - 1 = n
  BY <1>1
<1>5. Sums(t)[n + 1] = Sums(s)[n] + x
  BY <1>1, <1>2, <1>3, <1>4
<1>6. QED BY <1>1, <1>5 DEF Total, t

\* A sum lies between as many times the smallest element and the largest one, and no
\* element is above it.
LEMMA SumsBounded ==
    ASSUME NEW s \in Seq(Nat), NEW a \in Nat, NEW b \in Nat,
           \A k \in 1 .. Len(s) : a <= s[k] /\ s[k] <= b
    PROVE  a * Len(s) <= Total(s) /\ Total(s) <= b * Len(s)
<1> DEFINE S == {m \in Nat : m <= Len(s) => a * m <= Sums(s)[m] /\ Sums(s)[m] <= b * m}
<1>1. Len(s) \in Nat /\ \A k \in 1 .. Len(s) : s[k] \in Nat
  OBVIOUS
<1>2. /\ Sums(s) \in [0 .. Len(s) -> Nat] /\ Sums(s)[0] = 0
      /\ \A k \in 1 .. Len(s) : Sums(s)[k] = Sums(s)[k-1] + s[k]
  BY SumsFacts
<1>3. 0 \in S
  BY <1>1, <1>2
<1>4. ASSUME NEW m \in Nat, m \in S PROVE m + 1 \in S
  <2> SUFFICES ASSUME m + 1 <= Len(s)
               PROVE  a * (m + 1) <= Sums(s)[m+1] /\ Sums(s)[m+1] <= b * (m + 1)
    OBVIOUS
  <2>1. m + 1 \in 1 .. Len(s) /\ m \in 0 .. Len(s)
    BY <1>1
  <2>2. /\ Sums(s)[m+1] = Sums(s)[m] + s[m+1] /\ Sums(s)[m] \in Nat /\ s[m+1] \in Nat
        /\ a <= s[m+1] /\ s[m+1] <= b
    <3>1. a <= s[m+1] /\ s[m+1] <= b
      BY <2>1
    <3>2. Sums(s)[m+1] = Sums(s)[(m+1)-1] + s[m+1] /\ (m+1) - 1 = m
      BY <1>2, <2>1
    <3>3. Sums(s)[m] \in Nat /\ s[m+1] \in Nat
      BY <1>1, <1>2, <2>1
    <3>4. QED BY <3>1, <3>2, <3>3
  <2>3. a * m <= Sums(s)[m] /\ Sums(s)[m] <= b * m
    BY <1>4, <2>1
  <2>4. /\ a * (m + 1) = a * m + a /\ b * (m + 1) = b * m + b
        /\ a * m \in Nat /\ b * m \in Nat
    OBVIOUS
  <2>5. QED BY <2>2, <2>3, <2>4
<1>5. Nat \subseteq S
  <2> HIDE DEF S
  <2>1. QED BY <1>3, <1>4, SetInduction
<1>6. QED BY <1>1, <1>5 DEF Total

LEMMA ElementsBounded ==
    ASSUME NEW s \in Seq(Nat)
    PROVE  \A k \in 1 .. Len(s) : s[k] <= Total(s)
<1> DEFINE S == {m \in Nat : m <= Len(s) => \A k \in 1 .. m : s[k] <= Sums(s)[m]}
<1>1. Len(s) \in Nat /\ \A k \in 1 .. Len(s) : s[k] \in Nat
  OBVIOUS
<1>2. /\ Sums(s) \in [0 .. Len(s) -> Nat] /\ Sums(s)[0] = 0
      /\ \A k \in 1 .. Len(s) : Sums(s)[k] = Sums(s)[k-1] + s[k]
  BY SumsFacts
<1>3. 0 \in S
  BY <1>1, <1>2
<1>4. ASSUME NEW m \in Nat, m \in S PROVE m + 1 \in S
  <2> SUFFICES ASSUME m + 1 <= Len(s), NEW k \in 1 .. m+1 PROVE s[k] <= Sums(s)[m+1]
    OBVIOUS
  <2>1. m + 1 \in 1 .. Len(s) /\ m \in 0 .. Len(s)
    BY <1>1
  <2>2. Sums(s)[m+1] = Sums(s)[m] + s[m+1] /\ Sums(s)[m] \in Nat /\ s[m+1] \in Nat
    <3>1. Sums(s)[m+1] = Sums(s)[(m+1)-1] + s[m+1] /\ (m+1) - 1 = m
      BY <1>2, <2>1
    <3>2. Sums(s)[m] \in Nat /\ s[m+1] \in Nat
      BY <1>1, <1>2, <2>1
    <3>3. QED BY <3>1, <3>2
  <2>3. k \in 1 .. m => s[k] <= Sums(s)[m] /\ s[k] \in Nat
    BY <1>1, <1>4, <2>1
  <2>4. k \in 1 .. m \/ k = m + 1
    OBVIOUS
  <2>5. QED BY <2>2, <2>3, <2>4
<1>5. Nat \subseteq S
  <2> HIDE DEF S
  <2>1. QED BY <1>3, <1>4, SetInduction
<1>6. QED BY <1>1, <1>5 DEF Total

-----------------------------------------------------------------------------
(* Order.                                                                  *)

Below(s, v)  == {i \in DOMAIN s : s[i] < v}
AtMost(s, v) == {i \in DOMAIN s : s[i] <= v}

LEMMA Indices ==
    ASSUME NEW s \in Seq(Nat), NEW T \in SUBSET DOMAIN s
    PROVE  /\ IsFiniteSet(T) /\ Cardinality(T) \in 0 .. Len(s)
           /\ IsFiniteSet(DOMAIN s) /\ Cardinality(DOMAIN s) = Len(s)
           /\ Cardinality(T) = Len(s) => T = DOMAIN s
<1>1. DOMAIN s = 1 .. Len(s) /\ Len(s) \in Nat
  OBVIOUS
<1>2. IsFiniteSet(DOMAIN s) /\ Cardinality(DOMAIN s) = Len(s)
  <2>1. /\ IsFiniteSet(1 .. Len(s))
        /\ Cardinality(1 .. Len(s)) = IF 1 > Len(s) THEN 0 ELSE Len(s) - 1 + 1
    BY <1>1, FS_Interval
  <2>2. QED BY <1>1, <2>1
<1>3. /\ IsFiniteSet(T) /\ Cardinality(T) <= Cardinality(DOMAIN s)
      /\ Cardinality(DOMAIN s) = Cardinality(T) => DOMAIN s = T
  BY <1>2, FS_Subset, Zenon
<1>4. Cardinality(T) \in Nat
  BY <1>3, FS_CardinalityType
<1>5. QED BY <1>1, <1>2, <1>3, <1>4

LEMMA FewerIndices ==
    ASSUME NEW s \in Seq(Nat), NEW T \in SUBSET DOMAIN s, NEW U \in SUBSET T
    PROVE  Cardinality(U) <= Cardinality(T)
<1>1. IsFiniteSet(T)
  BY Indices
<1>2. QED BY <1>1, FS_Subset

\* Every set of numbers that has an element has a least one.
LEMMA Least ==
    ASSUME NEW T \in SUBSET Nat, T # {}
    PROVE  \E x \in T : \A y \in T : x <= y
<1> DEFINE R == {ss \in Nat \X Nat : ss[1] < ss[2]}
<1>1. IsWellFoundedOn(R, Nat)
  BY NatLessThanWellFounded DEF OpToRel
<1>2. PICK x \in T : \A y \in T : ~(<<y, x>> \in R)
  BY <1>1, WFMin, Zenon
<1>3. ASSUME NEW y \in T PROVE x <= y
  <2>1. x \in Nat /\ y \in Nat
    OBVIOUS
  <2>2. y < x => <<y, x>> \in R
    BY <2>1
  <2>3. QED BY <1>2, <2>1, <2>2
<1>4. QED BY <1>3

\* At every rank there is an element: the least number that enough elements are not
\* above is one of them.
LEMMA RankTaken ==
    ASSUME NEW s \in Seq(Nat), NEW k \in DOMAIN s
    PROVE  \E v \in ToSet(s) : Cardinality(Below(s, v)) < k /\ k <= Cardinality(AtMost(s, v))
<1> DEFINE T == {x \in Nat : k <= Cardinality(AtMost(s, x))}
<1>1. /\ DOMAIN s = 1 .. Len(s) /\ Len(s) \in Nat /\ k \in 1 .. Len(s)
      /\ \A i \in DOMAIN s : s[i] \in Nat
  OBVIOUS
<1>2. Total(s) \in T
  <2>1. AtMost(s, Total(s)) = DOMAIN s
    BY <1>1, ElementsBounded DEF AtMost
  <2>2. Cardinality(AtMost(s, Total(s))) = Len(s)
    BY <2>1, Indices
  <2>3. QED BY <1>1, <2>2, TotalType
<1>3. PICK x \in T : \A y \in T : x <= y
  BY <1>2, Least
<1>4. x \in Nat /\ k <= Cardinality(AtMost(s, x))
  OBVIOUS
<1>5. Cardinality(Below(s, x)) < k
  <2>1. Cardinality(Below(s, x)) \in Nat /\ Below(s, x) \in SUBSET DOMAIN s
    BY Indices DEF Below
  <2>2. CASE x = 0
    <3>1. Below(s, x) = {}
      BY <1>1, <2>2 DEF Below
    <3>2. QED BY <1>1, <3>1, FS_EmptySet
  <2>3. CASE x # 0
    <3>1. x - 1 \in Nat /\ ~(x <= x - 1)
      BY <1>4, <2>3
    <3>2. x - 1 \notin T
      BY <1>3, <3>1
    <3>3. Below(s, x) = AtMost(s, x - 1)
      BY <1>1, <1>4 DEF Below, AtMost
    <3>4. QED BY <1>1, <2>1, <3>1, <3>2, <3>3
  <2>4. QED BY <2>2, <2>3
<1>6. x \in ToSet(s)
  <2> SUFFICES ASSUME x \notin ToSet(s) PROVE FALSE
    OBVIOUS
  <2>1. \A i \in DOMAIN s : s[i] # x
    BY DEF ToSet
  <2>2. AtMost(s, x) = Below(s, x)
    BY <1>1, <1>4, <2>1 DEF AtMost, Below
  <2>3. Cardinality(Below(s, x)) \in Nat
    BY Indices DEF Below
  <2>4. QED BY <1>1, <1>4, <1>5, <2>2, <2>3
<1>7. QED BY <1>4, <1>5, <1>6

LEMMA SortedFacts ==
    ASSUME NEW s \in Seq(Nat)
    PROVE  /\ DOMAIN Sorted(s) = 1 .. Len(s) /\ Sorted(s) \in [1 .. Len(s) -> Nat]
           /\ \A k \in 1 .. Len(s) :
                  /\ Sorted(s)[k] \in ToSet(s)
                  /\ Cardinality(Below(s, Sorted(s)[k])) < k
                  /\ k <= Cardinality(AtMost(s, Sorted(s)[k]))
<1>1. DOMAIN s = 1 .. Len(s) /\ ToSet(s) \subseteq Nat
  BY DEF ToSet
<1>2. ASSUME NEW k \in DOMAIN s
      PROVE  /\ Sorted(s)[k] \in ToSet(s)
             /\ Cardinality(Below(s, Sorted(s)[k])) < k
             /\ k <= Cardinality(AtMost(s, Sorted(s)[k]))
  <2>1. Sorted(s)[k] = CHOOSE v \in ToSet(s) : /\ Cardinality(Below(s, v)) < k
                                               /\ k <= Cardinality(AtMost(s, v))
    BY DEF Sorted, Below, AtMost
  <2>2. QED BY <2>1, RankTaken, Zenon
<1>3. DOMAIN Sorted(s) = 1 .. Len(s) /\ Sorted(s) = [k \in 1 .. Len(s) |-> Sorted(s)[k]]
  <2> DEFINE At(k) == CHOOSE v \in ToSet(s) :
                          /\ Cardinality({i \in DOMAIN s : s[i] < v}) < k
                          /\ k <= Cardinality({i \in DOMAIN s : s[i] <= v})
  <2>1. Sorted(s) = [k \in DOMAIN s |-> At(k)]
    BY DEF Sorted
  <2> HIDE DEF At
  <2>2. QED BY <1>1, <2>1
<1>4. Sorted(s) \in [1 .. Len(s) -> Nat]
  BY <1>1, <1>2, <1>3
<1>5. QED BY <1>1, <1>2, <1>3, <1>4

\* A sorted sequence never decreases: no more than j - 1 elements are below the one of
\* rank j.
LEMMA SortedAscends ==
    ASSUME NEW s \in Seq(Nat), NEW j \in 1 .. Len(s), NEW k \in 1 .. Len(s), j <= k
    PROVE  Sorted(s)[j] <= Sorted(s)[k]
<1> DEFINE v == Sorted(s)[j]
           w == Sorted(s)[k]
<1>1. /\ v \in Nat /\ w \in Nat /\ Len(s) \in Nat
      /\ Cardinality(Below(s, v)) < j /\ k <= Cardinality(AtMost(s, w))
  <2>1. Cardinality(Below(s, v)) < j /\ k <= Cardinality(AtMost(s, w))
    BY SortedFacts, Zenon
  <2>2. Sorted(s) \in [1 .. Len(s) -> Nat]
    BY SortedFacts, Zenon
  <2>3. v \in Nat /\ w \in Nat
    BY <2>2
  <2>4. Len(s) \in Nat
    OBVIOUS
  <2>5. QED BY <2>1, <2>3, <2>4
<1> HIDE DEF v, w
<1> SUFFICES ASSUME w < v PROVE FALSE
  BY <1>1 DEF v, w
<1>2. \A i \in DOMAIN s : s[i] \in Nat
  OBVIOUS
<1>3. AtMost(s, w) \in SUBSET Below(s, v) /\ Below(s, v) \in SUBSET DOMAIN s
  BY <1>1, <1>2 DEF AtMost, Below
<1>4. Cardinality(AtMost(s, w)) <= Cardinality(Below(s, v))
  BY <1>3, FewerIndices
<1>5. Cardinality(AtMost(s, w)) \in Nat /\ Cardinality(Below(s, v)) \in Nat
  BY Indices DEF AtMost, Below
<1>6. QED BY <1>1, <1>4, <1>5

\* The first is the smallest and the last the largest.
LEMMA SortedEnds ==
    ASSUME NEW s \in Seq(Nat), Len(s) # 0
    PROVE  /\ Sorted(s)[1] = Min(ToSet(s)) /\ Sorted(s)[Len(s)] = Max(ToSet(s))
           /\ \A i \in 1 .. Len(s) : Min(ToSet(s)) <= s[i] /\ s[i] <= Max(ToSet(s))
<1> DEFINE n == Len(s)
           a == Sorted(s)[1]
           b == Sorted(s)[n]
<1>1. /\ n \in Nat \ {0} /\ 1 \in 1 .. n /\ n \in 1 .. n /\ DOMAIN s = 1 .. n
      /\ \A i \in 1 .. n : s[i] \in Nat
  OBVIOUS
<1>2. /\ a \in ToSet(s) /\ Cardinality(Below(s, a)) < 1 /\ a \in Nat
      /\ b \in ToSet(s) /\ n <= Cardinality(AtMost(s, b)) /\ b \in Nat
  BY <1>1, SortedFacts
<1> HIDE DEF a, b
<1>3. ASSUME NEW i \in 1 .. n PROVE a <= s[i]
  <2>1. IsFiniteSet(Below(s, a)) /\ Cardinality(Below(s, a)) \in Nat
    BY Indices DEF Below
  <2>2. Below(s, a) = {}
    <3>1. Cardinality(Below(s, a)) = 0
      BY <1>2, <2>1
    <3>2. QED BY <2>1, <3>1, FS_EmptySet
  <2>3. QED BY <1>1, <1>2, <2>2 DEF Below
<1>4. ASSUME NEW i \in 1 .. n PROVE s[i] <= b
  <2>1. AtMost(s, b) \in SUBSET DOMAIN s
    BY DEF AtMost
  <2>2. Cardinality(AtMost(s, b)) = n
    <3>1. Cardinality(AtMost(s, b)) \in 0 .. n
      BY <2>1, Indices
    <3>2. QED BY <1>1, <1>2, <3>1
  <2>3. AtMost(s, b) = DOMAIN s
    BY <2>1, <2>2, Indices
  <2>4. QED BY <1>1, <2>3 DEF AtMost
<1>5. \A y \in ToSet(s) : y \in Nat /\ a <= y /\ b >= y
  BY <1>1, <1>2, <1>3, <1>4 DEF ToSet
<1>6. a = Min(ToSet(s))
  <2>1. \A x \in ToSet(s) : (\A y \in ToSet(s) : x <= y) => x = a
    BY <1>2, <1>5
  <2>2. \A y \in ToSet(s) : a <= y
    BY <1>5
  <2>3. QED BY <1>2, <2>1, <2>2 DEF Min
<1>7. b = Max(ToSet(s))
  <2>1. \A x \in ToSet(s) : (\A y \in ToSet(s) : x >= y) => x = b
    BY <1>2, <1>5
  <2>2. \A y \in ToSet(s) : b >= y
    BY <1>5
  <2>3. QED BY <1>2, <2>1, <2>2 DEF Max
<1>8. QED BY <1>3, <1>4, <1>6, <1>7 DEF a, b

-----------------------------------------------------------------------------
(* Percentiles.                                                            *)

Ascending(t, n) ==
    /\ n \in Nat \ {0} /\ t \in [1 .. n -> Nat] /\ DOMAIN t = 1 .. n /\ Len(t) = n
    /\ \A j, k \in 1 .. n : j <= k => t[j] <= t[k]

\* A weighted mean of two numbers lies between them, and grows with the weight of
\* the larger.
LEMMA Weighted ==
    ASSUME NEW a \in Nat, NEW b \in Nat, a <= b, NEW w \in 0 .. Scale, NEW x \in w .. Scale
    PROVE  /\ a * (Scale - w) + b * w \in Nat
           /\ a * Scale <= a * (Scale - w) + b * w
           /\ a * (Scale - w) + b * w <= a * (Scale - x) + b * x
           /\ a * (Scale - w) + b * w <= b * Scale
<1> USE DEF Scale
<1>1. PICK d \in Nat : b = a + d
  <2>1. b - a \in Nat /\ b = a + (b - a)
    OBVIOUS
  <2>2. QED BY <2>1
<1>2. \A y \in 0 .. 1000 : a * (1000 - y) + b * y = a * 1000 + d * y
  BY <1>1
<1>3. w \in Nat /\ x \in Nat /\ w <= x /\ x <= 1000
  OBVIOUS
<1>4. d * w \in Nat /\ d * x \in Nat /\ d * w <= d * x /\ d * w <= d * 1000
  <2>1. w * d <= x * d /\ w * d <= 1000 * d /\ w * d \in Nat /\ x * d \in Nat
    BY <1>3, ProductGrows
  <2>2. \A y \in Nat : y * d = d * y
    OBVIOUS
  <2>3. QED BY <1>3, <2>1, <2>2
<1>5. b * 1000 = a * 1000 + d * 1000
  BY <1>1
<1>6. /\ a * (1000 - w) + b * w = a * 1000 + d * w
      /\ a * (1000 - x) + b * x = a * 1000 + d * x
  BY <1>2, <1>3
<1>7. a * 1000 \in Nat /\ d * 1000 \in Nat
  BY <1>1
<1>8. QED BY <1>4, <1>5, <1>6, <1>7

\* The code's two cases are one: the percentile is the mean of two neighbours, by
\* the remainder of its index.
LEMMA PercentileForm ==
    ASSUME NEW t, NEW n, Ascending(t, n), NEW p \in 0 .. Scale,
           NEW q \in Nat, NEW r \in Nat, r < Scale, (n - 1) * p = q * Scale + r
    PROVE  /\ q + 1 \in 1 .. n
           /\ r # 0 => q + 2 \in 1 .. n
           /\ Percentile(t, p) = IF r = 0 THEN t[q + 1] * Scale
                                 ELSE t[q + 1] * (Scale - r) + t[q + 2] * r
<1> USE DEF Scale
<1>1. n - 1 \in Nat /\ p \in Nat /\ p <= 1000 /\ Len(t) = n /\ n \in Nat
  BY DEF Ascending
<1>2. q * 1000 + r <= (n - 1) * 1000
  <2>1. p * (n - 1) <= 1000 * (n - 1)
    BY <1>1, ProductGrows
  <2>2. \A y \in Nat : y * (n - 1) = (n - 1) * y
    BY <1>1
  <2>3. QED BY <1>1, <2>1, <2>2
<1>3. q + 1 \in 1 .. n /\ (r # 0 => q + 2 \in 1 .. n)
  BY <1>1, <1>2
<1>4. (n - 1) * p \in Nat /\ Floor((n - 1) * p) = q
  <2>1. (q * 1000 + r) \div 1000 = q /\ q * 1000 + r \in Nat
    OBVIOUS
  <2>2. QED BY <2>1 DEF Floor
<1>5. Ceil((n - 1) * p) = IF r = 0 THEN q ELSE q + 1
  BY DEF Ceil
<1> DEFINE idx == (n - 1) * p
<1>6. /\ r = 0 => Percentile(t, p) = t[q + 1] * 1000
      /\ r # 0 => Percentile(t, p) = t[q + 1] * ((q + 1) * 1000 - idx)
                                     + t[(q + 1) + 1] * (idx - q * 1000)
  <2>1. q # q + 1
    OBVIOUS
  <2>2. QED BY <1>1, <1>4, <1>5, <2>1 DEF Percentile
<1>7. (q + 1) * 1000 - idx = 1000 - r /\ idx - q * 1000 = r /\ (q + 1) + 1 = q + 2
  BY <1>1
<1> HIDE DEF idx
<1>8. QED BY <1>3, <1>6, <1>7

LEMMA PercentileBounds ==
    ASSUME NEW t, NEW n, Ascending(t, n), NEW p \in 0 .. Scale
    PROVE  /\ Percentile(t, p) \in Nat /\ t[1] * Scale <= Percentile(t, p)
           /\ Percentile(t, p) <= t[n] * Scale
           /\ \A v \in p .. Scale : Percentile(t, p) <= Percentile(t, v)
<1> DEFINE Mean(k, r) == IF r = 0 THEN t[k + 1] * Scale
                         ELSE t[k + 1] * (Scale - r) + t[k + 2] * r
           In(k, r) == /\ k \in Nat /\ r \in Nat /\ r < Scale /\ k + 1 \in 1 .. n
                       /\ r # 0 => k + 2 \in 1 .. n
<1>1. /\ n \in Nat \ {0} /\ n - 1 \in Nat /\ 1 \in 1 .. n /\ n \in 1 .. n
      /\ \A k \in 1 .. n : t[k] \in Nat
      /\ \A j, k \in 1 .. n : j <= k => t[j] <= t[k]
  BY DEF Ascending
<1>2. ASSUME NEW v \in 0 .. Scale
      PROVE  \E q, r \in Nat : /\ r < Scale /\ (n - 1) * v = q * Scale + r
                               /\ Percentile(t, v) = Mean(q, r) /\ In(q, r)
  <2>1. (n - 1) * v \in Nat /\ Scale \in Nat \ {0}
    <3>1. v \in Nat
      BY DEF Scale
    <3>2. QED BY <1>1, <3>1, ProductGrows DEF Scale
  <2>2. PICK q, r \in Nat : (n - 1) * v = q * Scale + r /\ r < Scale
    BY <2>1, Split
  <2>3. Percentile(t, v) = Mean(q, r) /\ In(q, r)
    <3>1. n - 1 \in Nat /\ n \in Nat
      BY <1>1
    <3>2. QED BY <2>2, <3>1, PercentileForm
  <2> HIDE DEF Mean, In
  <2>4. QED BY <2>2, <2>3
<1>3. ASSUME NEW k, NEW r, In(k, r)
      PROVE  /\ Mean(k, r) \in Nat
             /\ \A j \in 1 .. k+1 : t[j] * Scale <= Mean(k, r)
             /\ \A j \in k+1 .. n : (r # 0 => k + 2 <= j) => Mean(k, r) <= t[j] * Scale
  <2>1. Scale \in Nat /\ k \in Nat /\ r \in 0 .. Scale /\ k + 1 \in 1 .. n
    BY <1>3 DEF Scale
  <2>2. \A i, j \in 1 .. n : i <= j => t[i] * Scale \in Nat /\ t[j] * Scale \in Nat
                                       /\ t[i] * Scale <= t[j] * Scale
    BY <1>1, <2>1, ProductGrows
  <2>3. CASE r = 0
    <3>1. Mean(k, r) = t[k + 1] * Scale
      BY <2>3
    <3> HIDE DEF Mean
    <3>2. /\ \A j \in 1 .. k+1 : j \in 1 .. n /\ j <= k + 1
          /\ \A j \in k+1 .. n : j \in 1 .. n /\ k + 1 <= j
      BY <1>1, <2>1
    <3>3. QED BY <2>1, <2>2, <3>1, <3>2
  <2>4. CASE r # 0
    <3>1. k + 2 \in 1 .. n /\ k + 1 <= k + 2
      BY <1>3, <2>1, <2>4
    <3>2. t[k + 1] \in Nat /\ t[k + 2] \in Nat /\ t[k + 1] <= t[k + 2] /\ r \in r .. Scale
      BY <1>1, <2>1, <3>1
    <3>3. /\ Mean(k, r) \in Nat /\ t[k + 1] * Scale <= Mean(k, r)
          /\ Mean(k, r) <= t[k + 2] * Scale
      BY <2>1, <2>4, <3>2, Weighted
    <3> HIDE DEF Mean
    <3>4. ASSUME NEW j \in 1 .. k+1 PROVE t[j] * Scale <= Mean(k, r)
      <4>1. j \in 1 .. n /\ j <= k + 1
        BY <1>1, <2>1
      <4>2. t[j] * Scale \in Nat /\ t[k + 1] * Scale \in Nat /\ t[j] * Scale <= t[k + 1] * Scale
        BY <2>1, <2>2, <4>1
      <4>3. QED BY <3>3, <4>2
    <3>5. ASSUME NEW j \in k+1 .. n, k + 2 <= j PROVE Mean(k, r) <= t[j] * Scale
      <4>1. j \in 1 .. n
        BY <1>1, <2>1
      <4>2. /\ t[k + 2] * Scale \in Nat /\ t[j] * Scale \in Nat
            /\ t[k + 2] * Scale <= t[j] * Scale
        BY <2>2, <3>1, <3>5, <4>1
      <4>3. QED BY <3>3, <4>2
    <3>6. QED BY <2>4, <3>3, <3>4, <3>5
  <2>5. QED BY <2>3, <2>4
<1>4. PICK q \in Nat, r \in Nat : /\ r < Scale /\ (n - 1) * p = q * Scale + r
                                  /\ Percentile(t, p) = Mean(q, r) /\ In(q, r)
  BY <1>2
<1>5. /\ Percentile(t, p) \in Nat /\ t[1] * Scale <= Percentile(t, p)
      /\ Percentile(t, p) <= t[n] * Scale
  <2>1. 1 \in 1 .. q+1 /\ n \in q+1 .. n /\ (r # 0 => q + 2 <= n)
    BY <1>1, <1>4
  <2> HIDE DEF Mean, In
  <2>2. QED BY <1>3, <1>4, <2>1
<1>6. ASSUME NEW v \in p .. Scale PROVE Percentile(t, p) <= Percentile(t, v)
  <2>1. v \in 0 .. Scale /\ p \in Nat /\ v \in Nat /\ p <= v
    BY DEF Scale
  <2>2. PICK k \in Nat, x \in Nat : /\ x < Scale /\ (n - 1) * v = k * Scale + x
                                    /\ Percentile(t, v) = Mean(k, x) /\ In(k, x)
    BY <1>2, <2>1
  <2>3. q * Scale + r <= k * Scale + x
    <3>1. p * (n - 1) <= v * (n - 1)
      BY <1>1, <2>1, ProductGrows
    <3>2. \A y \in Nat : y * (n - 1) = (n - 1) * y
      BY <1>1
    <3>3. QED BY <1>4, <2>1, <2>2, <3>1, <3>2
  <2>4. q < k \/ (q = k /\ r <= x)
    BY <1>4, <2>2, <2>3 DEF Scale
  <2>5. /\ Mean(q, r) \in Nat /\ Mean(k, x) \in Nat
    <3> HIDE DEF Mean, In
    <3>1. QED BY <1>3, <1>4, <2>2
  <2>6. CASE q < k
    <3>1. /\ k + 1 \in 1 .. k+1 /\ k + 1 \in q+1 .. n /\ q + 2 <= k + 1
          /\ k + 1 \in 1 .. n
      BY <1>1, <1>4, <2>2, <2>6
    <3>2. t[k + 1] * Scale \in Nat
      BY <1>1, <3>1 DEF Scale
    <3> HIDE DEF Mean, In
    <3>3. Mean(q, r) <= t[k + 1] * Scale /\ t[k + 1] * Scale <= Mean(k, x)
      BY <1>3, <1>4, <2>2, <3>1
    <3>4. QED BY <1>4, <2>2, <2>5, <3>2, <3>3
  <2>7. CASE q = k /\ r <= x
    <3>1. CASE r = 0
      <4>1. q + 1 \in 1 .. k+1 /\ Mean(q, r) = t[q + 1] * Scale
        BY <1>4, <2>7, <3>1
      <4> HIDE DEF Mean, In
      <4>2. t[q + 1] * Scale <= Mean(k, x)
        BY <1>3, <2>2, <4>1
      <4>3. QED BY <1>4, <2>2, <4>1, <4>2
    <3>2. CASE r # 0
      <4>1. /\ x # 0 /\ r \in 0 .. Scale /\ x \in r .. Scale
            /\ q + 1 \in 1 .. n /\ q + 2 \in 1 .. n /\ q + 1 <= q + 2
        BY <1>4, <2>2, <2>7, <3>2 DEF Scale
      <4>2. t[q + 1] \in Nat /\ t[q + 2] \in Nat /\ t[q + 1] <= t[q + 2]
        BY <1>1, <4>1
      <4>3. t[q + 1] * (Scale - r) + t[q + 2] * r <= t[q + 1] * (Scale - x) + t[q + 2] * x
        BY <4>1, <4>2, Weighted
      <4>4. QED BY <1>4, <2>2, <2>7, <3>2, <4>1, <4>3
    <3>3. QED BY <3>1, <3>2
  <2>8. QED BY <2>4, <2>6, <2>7
<1>7. QED BY <1>5, <1>6

\* The median, computed by different code, is the 50th percentile.
LEMMA MedianAgrees ==
    ASSUME NEW t, NEW n, Ascending(t, n)
    PROVE  TwiceMedian(t) * Scale = 2 * Percentile(t, 500)
<1>1. n \in Nat \ {0} /\ Len(t) = n /\ \A k \in 1 .. n : t[k] \in Nat
  BY DEF Ascending
<1>2. 500 \in 0 .. Scale /\ 0 < Scale /\ 500 < Scale /\ 0 \in Nat /\ 500 \in Nat /\ 500 # 0
  BY DEF Scale
<1>3. PICK h, e \in Nat : n = h * 2 + e /\ e < 2 /\ n \div 2 = h /\ n % 2 = e
  <2>1. 2 \in Nat \ {0} /\ n \in Nat
    BY <1>1
  <2>2. QED BY <2>1, Split
<1>4. CASE e = 1
  <2>1. (n - 1) * 500 = h * Scale + 0
    BY <1>3, <1>4 DEF Scale
  <2>2. Percentile(t, 500) = t[h + 1] * Scale /\ h + 1 \in 1 .. n
    BY <1>2, <2>1, PercentileForm
  <2>3. TwiceMedian(t) = 2 * t[h + 1]
    BY <1>1, <1>3, <1>4 DEF TwiceMedian
  <2>4. t[h + 1] \in Nat
    BY <1>1, <2>2
  <2>5. QED BY <2>2, <2>3, <2>4 DEF Scale
<1>5. CASE e = 0
  <2>1. PICK g \in Nat : h = g + 1
    <3>1. h # 0
      BY <1>1, <1>3, <1>5
    <3>2. h - 1 \in Nat /\ h = (h - 1) + 1
      BY <3>1
    <3>3. QED BY <3>2
  <2>2. (n - 1) * 500 = g * Scale + 500
    BY <1>3, <1>5, <2>1 DEF Scale
  <2>3. /\ Percentile(t, 500) = t[g + 1] * (Scale - 500) + t[g + 2] * 500
        /\ g + 1 \in 1 .. n /\ g + 2 \in 1 .. n
    BY <1>2, <2>2, PercentileForm
  <2>4. h + 1 = g + 2
    BY <2>1
  <2>5. TwiceMedian(t) = t[g + 2] + t[g + 1]
    BY <1>1, <1>3, <1>5, <2>1, <2>4 DEF TwiceMedian
  <2>6. t[g + 1] \in Nat /\ t[g + 2] \in Nat
    BY <1>1, <2>3
  <2>7. QED BY <2>3, <2>5, <2>6 DEF Scale
<1>6. QED BY <1>3, <1>4, <1>5

-----------------------------------------------------------------------------
(* Distributions.                                                          *)

\* The elements of a finite set, each once.
LEMMA Listed ==
    ASSUME NEW S \in SUBSET Nat, IsFiniteSet(S)
    PROVE  /\ SetToSeq(S) \in Seq(Nat) /\ Len(SetToSeq(S)) = Cardinality(S)
           /\ ToSet(SetToSeq(S)) = S
           /\ \A i, j \in DOMAIN SetToSeq(S) : SetToSeq(S)[i] = SetToSeq(S)[j] => i = j
<1> DEFINE n == Cardinality(S)
           u == SetToSeq(S)
<1>1. n \in Nat /\ ExistsBijection(1 .. n, S) /\ IsFiniteSet(1 .. n) /\ Cardinality(1 .. n) = n
  <2>1. n \in Nat /\ ExistsBijection(1 .. n, S)
    BY FS_CardinalityType
  <2>2. IsFiniteSet(1 .. n) /\ Cardinality(1 .. n) = IF 1 > n THEN 0 ELSE n - 1 + 1
    BY <2>1, FS_Interval
  <2>3. QED BY <2>1, <2>2
<1>2. \E f \in [1 .. n -> S] : IsInjective(f)
  BY <1>1 DEF ExistsBijection, Bijection, Injection
<1>3. u \in [1 .. n -> S] /\ IsInjective(u)
  BY <1>2, Zenon DEF SetToSeq
<1> HIDE DEF u
<1>4. u \in Surjection(1 .. n, S)
  <2>1. u \in Injection(1 .. n, S)
    BY <1>3 DEF Injection
  <2>2. QED BY <1>1, <2>1, FS_Injection
<1>5. u \in Seq(Nat) /\ Len(u) = n /\ DOMAIN u = 1 .. n
  <2> HIDE DEF n
  <2>1. u \in [1 .. n -> Nat]
    BY <1>3
  <2>2. QED BY <1>1, <2>1
<1>6. ToSet(u) = S
  BY <1>3, <1>4, <1>5 DEF ToSet, Surjection
<1>7. QED BY <1>3, <1>5, <1>6 DEF u, IsInjective

\* Of different numbers one more is at most v than below it.
LEMMA OneMore ==
    ASSUME NEW u \in Seq(Nat), \A i, j \in DOMAIN u : u[i] = u[j] => i = j, NEW v \in ToSet(u)
    PROVE  Cardinality(AtMost(u, v)) = Cardinality(Below(u, v)) + 1
<1>1. PICK i \in DOMAIN u : u[i] = v
  BY DEF ToSet
<1>2. \A j \in DOMAIN u : u[j] \in Nat
  OBVIOUS
<1>3. AtMost(u, v) = Below(u, v) \cup {i} /\ i \notin Below(u, v)
  BY <1>1, <1>2 DEF AtMost, Below
<1>4. IsFiniteSet(Below(u, v))
  BY Indices DEF Below
<1>5. QED BY <1>3, <1>4, FS_AddElement

\* The keys of a histogram are its values in order, each once.
LEMMA KeysFacts ==
    ASSUME NEW h, DOMAIN h \in SUBSET Nat, IsFiniteSet(DOMAIN h)
    PROVE  \E n \in Nat :
               /\ Keys(h) \in [1 .. n -> Nat] /\ DOMAIN Keys(h) = 1 .. n
               /\ \A k \in 1 .. n : Keys(h)[k] \in DOMAIN h
               /\ \A v \in DOMAIN h : \E k \in 1 .. n : Keys(h)[k] = v
               /\ \A j, k \in 1 .. n : j < k => Keys(h)[j] < Keys(h)[k]
<1> DEFINE S == DOMAIN h
           u == SetToSeq(S)
           n == Len(u)
           K == Sorted(u)
<1>1. /\ u \in Seq(Nat) /\ n = Cardinality(S) /\ ToSet(u) = S
      /\ \A i, j \in DOMAIN u : u[i] = u[j] => i = j
  BY Listed
<1>2. Keys(h) = K
  BY DEF Keys
<1> HIDE DEF u
<1>3. n \in Nat
  BY <1>1
<1>4. /\ DOMAIN K = 1 .. n /\ K \in [1 .. n -> Nat]
      /\ \A k \in 1 .. n : /\ K[k] \in S
                           /\ Cardinality(Below(u, K[k])) < k
                           /\ k <= Cardinality(AtMost(u, K[k]))
  BY <1>1, SortedFacts
<1>5. ASSUME NEW k \in 1 .. n PROVE Cardinality(AtMost(u, K[k])) = k
  <2>1. Cardinality(AtMost(u, K[k])) = Cardinality(Below(u, K[k])) + 1
    BY <1>1, <1>4, OneMore
  <2>2. Cardinality(Below(u, K[k])) \in Nat
    BY <1>1, Indices DEF Below
  <2> HIDE DEF K
  <2>3. QED BY <1>4, <2>1, <2>2
<1>6. ASSUME NEW j \in 1 .. n, NEW k \in 1 .. n, j < k PROVE K[j] < K[k]
  <2>1. K[j] <= K[k]
    BY <1>1, <1>6, SortedAscends
  <2>2. K[j] # K[k]
    <3>1. Cardinality(AtMost(u, K[j])) = j /\ Cardinality(AtMost(u, K[k])) = k
      BY <1>5
    <3> HIDE DEF K
    <3>2. QED BY <1>6, <3>1
  <2> HIDE DEF K
  <2>3. QED BY <1>4, <2>1, <2>2
<1>7. \A v \in S : \E k \in 1 .. n : K[k] = v
  <2>1. K \in [1 .. n -> S]
    <3> HIDE DEF K, S
    <3>1. QED BY <1>4
  <2>2. \A j, k \in 1 .. n : K[j] = K[k] => j = k
    <3> HIDE DEF K
    <3>1. QED BY <1>3, <1>4, <1>6
  <2>3. K \in Injection(1 .. n, S)
    <3> HIDE DEF K, S
    <3>1. QED BY <2>1, <2>2 DEF Injection, IsInjective
  <2>4. Cardinality(1 .. n) = n
    <3>1. Cardinality(1 .. n) = IF 1 > n THEN 0 ELSE n - 1 + 1
      BY <1>3, FS_Interval
    <3>2. QED BY <1>3, <3>1
  <2>5. K \in Surjection(1 .. n, S)
    BY <1>1, <2>3, <2>4, FS_Injection
  <2>6. QED BY <2>5 DEF Surjection
<1> HIDE DEF K, n
<1>8. QED BY <1>2, <1>3, <1>4, <1>6, <1>7

LEMMA Apart ==
    ASSUME NEW A, NEW B, IsFiniteSet(A), IsFiniteSet(B), A \cap B = {}
    PROVE  Cardinality(A \cup B) = Cardinality(A) + Cardinality(B)
<1>1. Cardinality(A) \in Nat /\ Cardinality(B) \in Nat /\ Cardinality({}) = 0
  BY FS_CardinalityType, FS_EmptySet
<1>2. Cardinality(A \cup B) = Cardinality(A) + Cardinality(B) - Cardinality(A \cap B)
  BY FS_Union
<1>3. Cardinality(A \cap B) = 0
  BY <1>1
<1> DEFINE a == Cardinality(A)
           b == Cardinality(B)
           c == Cardinality(A \cup B)
           d == Cardinality(A \cap B)
<1>4. a \in Nat /\ b \in Nat /\ c = a + b - d /\ d = 0
  BY <1>1, <1>2, <1>3
<1> HIDE DEF a, b, c, d
<1>5. c = a + b
  BY <1>4
<1>6. QED BY <1>5 DEF a, b, c

Equal(s, v)    == {i \in DOMAIN s : s[i] = v}
First(s, K, m) == {i \in DOMAIN s : \E k \in 1 .. m : s[i] = K[k]}

LEMMA HistoFacts ==
    ASSUME NEW s \in Seq(Nat)
    PROVE  /\ DOMAIN Histo(s) = ToSet(s) /\ ToSet(s) \in SUBSET Nat /\ IsFiniteSet(ToSet(s))
           /\ \A v \in ToSet(s) : Histo(s)[v] = Cardinality(Equal(s, v))
<1>1. DOMAIN Histo(s) = ToSet(s)
      /\ \A v \in ToSet(s) : Histo(s)[v] = Cardinality(Equal(s, v))
  BY DEF Histo, Equal
<1>2. ToSet(s) \in SUBSET Nat
  BY DEF ToSet
<1>3. IsFiniteSet(ToSet(s))
  <2>1. \A y \in ToSet(s) : y <= Total(s)
    BY ElementsBounded DEF ToSet
  <2>2. QED BY <1>2, <2>1, TotalType, FS_BoundedSetOfNaturals
<1>4. QED BY <1>1, <1>2, <1>3

\* The sum of the first counts is the number of samples that have one of the first
\* values.
LEMMA CountsAdd ==
    ASSUME NEW s \in Seq(Nat), NEW n \in Nat, NEW K \in [1 .. n -> Nat],
           \A j, k \in 1 .. n : j < k => K[j] < K[k],
           NEW c \in Seq(Nat), Len(c) = n,
           \A k \in 1 .. n : c[k] = Cardinality(Equal(s, K[k]))
    PROVE  \A m \in 0 .. n : Sums(c)[m] = Cardinality(First(s, K, m))
<1> DEFINE S == {m \in Nat : m <= n => Sums(c)[m] = Cardinality(First(s, K, m))}
<1>1. Sums(c)[0] = 0 /\ \A k \in 1 .. n : Sums(c)[k] = Sums(c)[k-1] + c[k]
  BY SumsFacts
<1>2. 0 \in S
  <2>1. First(s, K, 0) = {}
    BY DEF First
  <2>2. QED BY <1>1, <2>1, FS_EmptySet
<1>3. ASSUME NEW m \in Nat, m \in S PROVE m + 1 \in S
  <2> SUFFICES ASSUME m + 1 <= n PROVE Sums(c)[m + 1] = Cardinality(First(s, K, m + 1))
    OBVIOUS
  <2>1. m + 1 \in 1 .. n /\ (m + 1) - 1 = m /\ m <= n
    OBVIOUS
  <2>2. First(s, K, m + 1) = First(s, K, m) \cup Equal(s, K[m + 1])
    <3>1. \A k : k \in 1 .. m+1 <=> k \in 1 .. m \/ k = m + 1
      OBVIOUS
    <3>2. QED BY <3>1 DEF First, Equal
  <2>3. First(s, K, m) \cap Equal(s, K[m + 1]) = {}
    <3>1. \A k \in 1 .. m : K[k] # K[m + 1]
      <4>1. ASSUME NEW k \in 1 .. m PROVE K[k] # K[m + 1]
        <5>1. k \in 1 .. n /\ k < m + 1 /\ m + 1 \in 1 .. n
          BY <2>1
        <5>2. K[k] \in Nat /\ K[m + 1] \in Nat /\ K[k] < K[m + 1]
          BY <5>1
        <5>3. QED BY <5>2
      <4>2. QED BY <4>1
    <3>2. QED BY <3>1 DEF First, Equal
  <2>4. Equal(s, K[m + 1]) \in SUBSET DOMAIN s /\ First(s, K, m) \in SUBSET DOMAIN s
    BY DEF First, Equal
  <2> DEFINE A == First(s, K, m)
             B == Equal(s, K[m + 1])
  <2>5. c[m + 1] = Cardinality(B)
    BY <2>1
  <2>6. Sums(c)[m + 1] = Sums(c)[m] + c[m + 1]
    BY <1>1, <2>1
  <2>7. Sums(c)[m] = Cardinality(A)
    BY <1>3, <2>1
  <2> HIDE DEF A, B
  <2>8. /\ IsFiniteSet(A) /\ IsFiniteSet(B)
        /\ Cardinality(A) \in Nat /\ Cardinality(B) \in Nat
    <3>1. A \in SUBSET DOMAIN s /\ B \in SUBSET DOMAIN s
      BY <2>4 DEF A, B
    <3>2. QED BY <3>1, Indices
  <2>9. A \cap B = {}
    BY <2>3 DEF A, B
  <2>10. Cardinality(A \cup B) = Cardinality(A) + Cardinality(B)
    BY <2>8, <2>9, Apart
  <2>11. Cardinality(First(s, K, m + 1)) = Cardinality(A) + Cardinality(B)
    <3>1. First(s, K, m + 1) = A \cup B
      BY <2>2 DEF A, B
    <3>2. QED BY <2>10, <3>1
  <2>12. QED BY <2>5, <2>6, <2>7, <2>11
<1>4. Nat \subseteq S
  <2> HIDE DEF S
  <2>1. QED BY <1>2, <1>3, SetInduction
<1>5. QED BY <1>4

\* The distribution of samples gives for each value how many are not above it.
LEMMA CdfCounts ==
    ASSUME NEW s \in Seq(Nat)
    PROVE  /\ DOMAIN Histo2Cdf(Histo(s)) = ToSet(s)
           /\ \A v \in ToSet(s) : Histo2Cdf(Histo(s))[v] = Cardinality(AtMost(s, v))
<1> DEFINE h == Histo(s)
           K == Keys(h)
           c == [k \in DOMAIN K |-> h[K[k]]]
           sums == Sums(c)
<1>1. /\ DOMAIN h = ToSet(s) /\ ToSet(s) \in SUBSET Nat /\ IsFiniteSet(ToSet(s))
      /\ \A v \in ToSet(s) : h[v] = Cardinality(Equal(s, v))
  BY HistoFacts
<1>2. Histo2Cdf(h) = [v \in ToSet(s) |-> sums[CHOOSE k \in DOMAIN K : K[k] = v]]
  BY <1>1 DEF Histo2Cdf
<1> HIDE DEF h
<1>3. PICK n \in Nat :
          /\ K \in [1 .. n -> Nat] /\ DOMAIN K = 1 .. n
          /\ \A k \in 1 .. n : K[k] \in ToSet(s)
          /\ \A v \in ToSet(s) : \E k \in 1 .. n : K[k] = v
          /\ \A j, k \in 1 .. n : j < k => K[j] < K[k]
  BY <1>1, KeysFacts
<1> HIDE DEF K
<1>4. /\ c \in Seq(Nat) /\ Len(c) = n
      /\ \A k \in 1 .. n : c[k] = Cardinality(Equal(s, K[k]))
  <2>1. \A k \in 1 .. n : /\ h[K[k]] = Cardinality(Equal(s, K[k]))
                          /\ h[K[k]] \in Nat
    <3>1. ASSUME NEW k \in 1 .. n
          PROVE  h[K[k]] = Cardinality(Equal(s, K[k])) /\ h[K[k]] \in Nat
      <4>1. h[K[k]] = Cardinality(Equal(s, K[k]))
        BY <1>1, <1>3
      <4>2. Equal(s, K[k]) \in SUBSET DOMAIN s
        BY DEF Equal
      <4>3. Cardinality(Equal(s, K[k])) \in Nat
        BY <4>2, Indices
      <4>4. QED BY <4>1, <4>3
    <3>2. QED BY <3>1
  <2>2. c = [k \in 1 .. n |-> h[K[k]]]
    BY <1>3
  <2>3. c \in [1 .. n -> Nat]
    BY <2>1, <2>2
  <2>4. QED BY <2>1, <2>2, <2>3
<1> HIDE DEF c
<1>5. \A m \in 0 .. n : sums[m] = Cardinality(First(s, K, m))
  <2>1. K \in [1 .. n -> Nat] /\ \A j, k \in 1 .. n : j < k => K[j] < K[k]
    BY <1>3
  <2>2. \A m \in 0 .. n : Sums(c)[m] = Cardinality(First(s, K, m))
    BY <2>1, <1>4, CountsAdd
  <2>3. QED BY <2>2
<1>6. ASSUME NEW v \in ToSet(s) PROVE Histo2Cdf(h)[v] = Cardinality(AtMost(s, v))
  <2> DEFINE m == CHOOSE k \in DOMAIN K : K[k] = v
  <2>1. m \in 1 .. n /\ K[m] = v
    BY <1>3
  <2> HIDE DEF m
  <2>2. Histo2Cdf(h)[v] = sums[m]
    BY <1>2 DEF m
  <2>3. First(s, K, m) = AtMost(s, v)
    <3>1. ASSUME NEW i \in DOMAIN s, NEW k \in 1 .. m, s[i] = K[k] PROVE s[i] <= v
      <4>1. k \in 1 .. n /\ (k = m \/ k < m)
        BY <1>3, <2>1
      <4>2. K[k] \in Nat /\ K[m] \in Nat /\ (K[k] = K[m] \/ K[k] < K[m])
        BY <1>3, <2>1, <4>1
      <4>3. QED BY <2>1, <3>1, <4>2
    <3>2. ASSUME NEW i \in DOMAIN s, s[i] <= v PROVE \E k \in 1 .. m : s[i] = K[k]
      <4>1. s[i] \in ToSet(s)
        BY DEF ToSet
      <4>2. PICK k \in 1 .. n : K[k] = s[i]
        BY <1>3, <4>1
      <4>3. K[k] \in Nat /\ K[m] \in Nat /\ ~(K[m] < K[k])
        BY <1>3, <2>1, <3>2, <4>2
      <4>4. ~(m < k)
        BY <1>3, <2>1, <4>3
      <4>5. k \in 1 .. m
        BY <1>3, <2>1, <4>4
      <4>6. QED BY <4>2, <4>5
    <3>3. QED BY <3>1, <3>2 DEF AtMost, First
  <2>4. m \in 0 .. n
    BY <2>1
  <2>5. QED BY <1>5, <2>2, <2>3, <2>4
<1>7. DOMAIN Histo2Cdf(h) = ToSet(s)
  BY <1>2
<1>8. QED BY <1>6, <1>7 DEF h

-----------------------------------------------------------------------------
(* Registers.                                                              *)

LEMMA Registers ==
    ASSUME NEW t \in Nat
    PROVE  /\ LowOf(t) \in Nat /\ LowOf(t) < Lo /\ HighOf(t) \in Nat
           /\ t = HighOf(t) * Lo + LowOf(t) /\ HighOf(t) * Lo \in Nat
<1>1. Lo \in Nat \ {0}
  BY SamplesAssumption
<1>2. PICK q, r \in Nat : /\ t = q * Lo + r /\ r < Lo /\ q * Lo \in Nat
                          /\ t \div Lo = q /\ t % Lo = r
  BY <1>1, Split
<1>3. QED BY <1>2 DEF LowOf, HighOf

\* A difference below a turn of the register comes out whole when it wraps.
LEMMA Wrapped ==
    ASSUME NEW d \in Nat, d < Lo
    PROVE  d % Lo = d /\ (d - Lo) % Lo = d
<1>1. Lo \in Nat \ {0}
  BY SamplesAssumption
<1>2. d % Lo = d
  BY <1>1, Small
<1>3. (d - Lo) % Lo = d
  BY <1>1, SMTT(30)
<1>4. QED BY <1>2, <1>3

LEMMA DifferenceIsTrue ==
    ASSUME NEW t \in Nat, NEW d \in Nat, d < Lo
    PROVE  Difference(LowOf(t + d), LowOf(t)) = d
<1> DEFINE q == HighOf(t)
           r == LowOf(t)
           p == HighOf(t + d)
           s == LowOf(t + d)
<1>1. /\ q \in Nat /\ r \in Nat /\ r < Lo /\ t = q * Lo + r /\ q * Lo \in Nat
      /\ p \in Nat /\ s \in Nat /\ s < Lo /\ t + d = p * Lo + s /\ p * Lo \in Nat
      /\ Lo \in Nat
  <2>1. t + d \in Nat /\ Lo \in Nat
    BY SamplesAssumption
  <2>2. QED BY <2>1, Registers
<1> HIDE DEF q, r, p, s
<1>2. s - r = d \/ s - r = d - Lo
  <2>1. CASE p = q
    BY <1>1, <2>1
  <2>2. CASE q < p
    <3>1. CASE q + 1 < p
      <4>1. (q + 1) * Lo + Lo <= p * Lo /\ (q + 1) * Lo = q * Lo + Lo
        BY <1>1, <3>1, NextMultiple
      <4>2. QED BY <1>1, <4>1
    <3>2. CASE p = q + 1
      <4>1. p * Lo = q * Lo + Lo
        BY <1>1, <3>2
      <4>2. QED BY <1>1, <4>1
    <3>3. QED BY <1>1, <2>2, <3>1, <3>2
  <2>3. CASE p < q
    <3>1. p * Lo + Lo <= q * Lo
      BY <1>1, <2>3, NextMultiple
    <3>2. QED BY <1>1, <3>1
  <2>4. QED BY <1>1, <2>1, <2>2, <2>3
<1>3. QED BY <1>2, Wrapped DEF Difference, r, s

LEMMA Bounds ==
    /\ Lo \in Nat \ {0}
    /\ \A n \in Counts : n \in Nat \ {0}
    /\ \A d \in Gaps : d \in Nat
    /\ \A d \in Latencies : d \in Nat /\ d < Lo
<1>1. QED BY SamplesAssumption

-----------------------------------------------------------------------------
(* Steps.                                                                  *)

\* What lat_test reports depends on the stamps and the journal alone.
LEMMA FiguresKept ==
    ASSUME UNCHANGED <<start, end, max_trans, test_journal>>
    PROVE  Figures' = Figures
<1>1. Cycles' = Cycles /\ Cyc' = Cyc
  BY DEF Cycles, Ticks, Cyc
<1>2. QED BY <1>1 DEF Figures

LEMMA TookType ==
    ASSUME TypeOK
    PROVE  took \in Seq(Nat) /\ Total(took) \in Nat
<1>1. took \in Seq(Nat)
  BY Bounds DEF TypeOK
<1>2. QED BY <1>1, TotalType

\* A step that only lets time pass keeps what is known about time.
LEMMA TimeStep ==
    ASSUME SamplesInv, UNCHANGED <<took, began, max_trans>>, tick' \in Nat, tick <= tick',
           pc # "start_lo", pc' # "start_lo",
           pc' \in {"end_hi", "host", "done"} =>
               pc \in {"end_hi", "host", "done"} /\ ended' = ended
    PROVE  TimePassed'
<1> DEFINE total == Total(took)
<1>1. total' = total
  BY DEF Total, Sums
<1>2. total \in Nat /\ tick \in Nat /\ began \in Nat /\ ended \in Nat
  BY TookType DEF SamplesInv, TypeOK
<1> HIDE DEF total
<1>3. /\ began + total <= tick
      /\ pc \in {"end_hi", "host", "done"} =>
             began + total <= ended /\ ended <= tick /\ Len(took) = max_trans
  BY DEF SamplesInv, TimePassed, total
<1>4. QED BY <1>1, <1>2, <1>3 DEF TimePassed, total

LEMMA StartStep ==
    ASSUME SamplesInv, StartLo \/ StartHi
    PROVE  SamplesInv'
<1> USE Bounds
<1>1. CASE StartLo
  <2>1. /\ pc = "start_lo" /\ pc' = "start_hi" /\ start' = [start EXCEPT !.lo = LowOf(tick)]
        /\ began' = tick /\ high' = HighOf(tick)
        /\ UNCHANGED <<latches, max_trans, tick, end, t0, test_journal, ended, took, report>>
    BY <1>1 DEF StartLo, env, ReadLow
  <2>2. tick \in Nat /\ start \in Stamps /\ LowOf(tick) \in Nat /\ HighOf(tick) \in Nat
    BY Registers DEF SamplesInv, TypeOK
  <2>3. start' \in Stamps /\ start'.lo = LowOf(tick)
    BY <2>1, <2>2 DEF Stamps
  <2>4. TypeOK'
    BY <2>1, <2>2, <2>3 DEF SamplesInv, TypeOK
  <2>5. JournalKept'
    BY <2>1 DEF SamplesInv, JournalKept
  <2>6. StampsTaken'
    BY <2>1, <2>3 DEF StampsTaken, HalfStamp
  <2>7. TimePassed'
    <3>1. took' = <<>>
      BY <2>1 DEF SamplesInv, TimePassed
    <3>2. Total(took') = 0
      BY <3>1, TotalOfNone
    <3>3. began' + Total(took') <= tick'
      BY <2>1, <2>2, <3>2
    <3>4. QED BY <2>1, <3>3 DEF TimePassed
  <2>8. QED BY <2>4, <2>5, <2>6, <2>7 DEF SamplesInv
<1>2. CASE StartHi
  <2>1. PICK d \in Gaps : tick' = tick + d
    BY <1>2 DEF StartHi
  <2>2. /\ pc = "start_hi" /\ pc' = "t0" /\ start' = [start EXCEPT !.hi = ReadHigh(tick')]
        /\ UNCHANGED <<latches, max_trans, high, end, t0, test_journal, began, ended, took, report>>
    BY <1>2 DEF StartHi, env, history
  <2>3. /\ tick' \in Nat /\ start \in Stamps /\ high \in Nat /\ ReadHigh(tick') \in Nat
        /\ latches => ReadHigh(tick') = high
    <3>1. tick' \in Nat /\ start \in Stamps /\ high \in Nat
      BY <2>1 DEF SamplesInv, TypeOK
    <3>2. HighOf(tick') \in Nat
      BY <3>1, Registers
    <3>3. QED BY <3>1, <3>2 DEF ReadHigh
  <2>4. start' \in Stamps /\ start'.lo = start.lo /\ start'.hi = ReadHigh(tick')
    BY <2>2, <2>3 DEF Stamps
  <2>5. TypeOK'
    BY <2>2, <2>3, <2>4 DEF SamplesInv, TypeOK
  <2>6. JournalKept'
    BY <2>2 DEF SamplesInv, JournalKept
  <2>7. start.lo = LowOf(began) /\ high = HighOf(began)
    BY <2>2 DEF SamplesInv, StampsTaken, HalfStamp
  <2>8. StampsTaken'
    BY <2>2, <2>3, <2>4, <2>7 DEF StampsTaken, WholeStamp
  <2>9. TimePassed'
    <3>1. tick <= tick'
      BY <2>1, <2>3 DEF SamplesInv, TypeOK
    <3>2. QED BY <2>2, <2>3, <3>1, TimeStep
  <2>10. QED BY <2>5, <2>6, <2>8, <2>9 DEF SamplesInv
<1>3. QED BY <1>1, <1>2

LEMMA TransactionStep ==
    ASSUME SamplesInv, T0 \/ T1
    PROVE  SamplesInv'
<1> USE Bounds
<1>1. CASE T0
  <2>1. PICK d \in Gaps : tick' = tick + d
    BY <1>1 DEF T0
  <2>2. /\ pc = "t0" /\ pc' = "t1" /\ Len(test_journal) < max_trans /\ t0' = LowOf(tick')
        /\ high' = HighOf(tick')
        /\ UNCHANGED <<latches, max_trans, start, end, test_journal, began, ended, took, report>>
    BY <1>1 DEF T0, env, history, ReadLow
  <2>3. tick' \in Nat /\ t0' \in Nat /\ high' \in Nat
    <3>1. tick' \in Nat
      BY <2>1 DEF SamplesInv, TypeOK
    <3>2. QED BY <2>2, <3>1, Registers
  <2>4. TypeOK'
    BY <2>2, <2>3 DEF SamplesInv, TypeOK
  <2>5. JournalKept'
    BY <2>2 DEF SamplesInv, JournalKept
  <2>6. StampsTaken'
    BY <2>2 DEF SamplesInv, StampsTaken, WholeStamp
  <2>7. TimePassed'
    <3>1. tick <= tick'
      BY <2>1, <2>3 DEF SamplesInv, TypeOK
    <3>2. QED BY <2>2, <2>3, <3>1, TimeStep
  <2>8. QED BY <2>4, <2>5, <2>6, <2>7 DEF SamplesInv
<1>2. CASE T1
  <2>1. PICK d \in Latencies : tick' = tick + d /\ took' = Append(took, d)
    BY <1>2 DEF T1
  <2>2. /\ pc = "t1" /\ pc' = "t0" /\ high' = HighOf(tick')
        /\ test_journal' = Append(test_journal, Difference(LowOf(tick'), t0))
        /\ UNCHANGED <<latches, max_trans, start, end, t0, began, ended, report>>
    BY <1>2 DEF T1, env, ReadLow
  <2>3. tick \in Nat /\ tick' \in Nat /\ high' \in Nat /\ d \in Nat /\ d < Lo
    <3>1. tick \in Nat /\ tick' \in Nat /\ d \in Nat /\ d < Lo
      BY <2>1 DEF SamplesInv, TypeOK
    <3>2. QED BY <2>2, <3>1, Registers
  <2>4. Difference(LowOf(tick'), t0) = d
    BY <2>1, <2>2, <2>3, DifferenceIsTrue DEF SamplesInv, JournalKept
  <2>5. test_journal' = Append(test_journal, d)
    BY <2>2, <2>4
  <2>6. /\ test_journal \in Seq(Nat) /\ took \in Seq(Latencies)
        /\ Len(test_journal) < max_trans /\ Len(test_journal) = Len(took)
        /\ \A i \in 1 .. Len(took) : test_journal[i] = took[i]
    BY <2>2 DEF SamplesInv, TypeOK, JournalKept
  <2>7. /\ test_journal' \in Seq(Nat) /\ took' \in Seq(Latencies)
        /\ Len(test_journal') = Len(test_journal) + 1 /\ Len(took') = Len(took) + 1
    BY <2>1, <2>3, <2>5, <2>6
  <2>8. \A i \in 1 .. Len(took') : test_journal'[i] = took'[i]
    BY <2>1, <2>3, <2>5, <2>6, <2>7
  <2>9. TypeOK'
    <3>1. max_trans \in Nat /\ Len(test_journal) \in Nat
      BY <2>6 DEF SamplesInv, TypeOK
    <3>2. Len(test_journal') <= max_trans
      BY <2>6, <2>7, <3>1
    <3>3. QED BY <2>2, <2>3, <2>7, <3>2 DEF SamplesInv, TypeOK
  <2>10. JournalKept'
    BY <2>2, <2>6, <2>7, <2>8 DEF JournalKept
  <2>11. StampsTaken'
    BY <2>2 DEF SamplesInv, StampsTaken, WholeStamp
  <2>12. TimePassed'
    <3>1. Total(took') = Total(took) + d
      BY <2>1, <2>3, TookType, TotalAppend DEF SamplesInv
    <3>2. Total(took) \in Nat /\ began \in Nat
      BY TookType DEF SamplesInv, TypeOK
    <3>3. began + Total(took) <= tick
      BY <2>2 DEF SamplesInv, TimePassed
    <3>4. began' + Total(took') <= tick'
      BY <2>1, <2>2, <2>3, <3>1, <3>2, <3>3
    <3>5. QED BY <2>2, <3>4 DEF TimePassed
  <2>13. QED BY <2>9, <2>10, <2>11, <2>12 DEF SamplesInv
<1>3. QED BY <1>1, <1>2

LEMMA EndStep ==
    ASSUME SamplesInv, EndLo \/ EndHi
    PROVE  SamplesInv'
<1> USE Bounds
<1>1. CASE EndLo
  <2>1. PICK d \in Gaps : tick' = tick + d
    BY <1>1 DEF EndLo
  <2>2. /\ pc = "t0" /\ Len(test_journal) = max_trans /\ pc' = "end_hi" 
        /\ end' = [end EXCEPT !.lo = LowOf(tick')] /\ ended' = tick' /\ high' = HighOf(tick')
        /\ UNCHANGED <<latches, max_trans, start, t0, test_journal, began, took, report>>
    BY <1>1 DEF EndLo, env, ReadLow
  <2>3. /\ tick' \in Nat /\ end \in Stamps /\ LowOf(tick') \in Nat /\ high' \in Nat
    <3>1. tick' \in Nat /\ end \in Stamps
      BY <2>1 DEF SamplesInv, TypeOK
    <3>2. QED BY <2>2, <3>1, Registers
  <2>4. end' \in Stamps /\ end'.lo = LowOf(tick')
    BY <2>2, <2>3 DEF Stamps
  <2>5. TypeOK'
    BY <2>2, <2>3, <2>4 DEF SamplesInv, TypeOK
  <2>6. JournalKept'
    BY <2>2 DEF SamplesInv, JournalKept
  <2>7. StampsTaken'
    BY <2>2, <2>4 DEF SamplesInv, StampsTaken, WholeStamp, HalfStamp
  <2>8. TimePassed'
    <3>1. Total(took) \in Nat /\ began \in Nat /\ tick \in Nat /\ tick <= tick'
      BY <2>1, <2>3, TookType DEF SamplesInv, TypeOK
    <3>2. began + Total(took) <= tick /\ Len(took) = max_trans
      BY <2>2 DEF SamplesInv, TimePassed, JournalKept
    <3>3. began + Total(took) <= tick' /\ tick' <= tick'
      BY <2>3, <3>1, <3>2
    <3>4. began' + Total(took') <= tick' /\ began' + Total(took') <= ended' /\ ended' <= tick'
      BY <2>2, <3>3
    <3>5. QED BY <2>2, <3>2, <3>4 DEF TimePassed
  <2>9. QED BY <2>5, <2>6, <2>7, <2>8 DEF SamplesInv
<1>2. CASE EndHi
  <2>1. PICK d \in Gaps : tick' = tick + d
    BY <1>2 DEF EndHi
  <2>2. /\ pc = "end_hi" /\ pc' = "host" /\ end' = [end EXCEPT !.hi = ReadHigh(tick')]
        /\ UNCHANGED <<latches, max_trans, high, start, t0, test_journal, began, ended, took, report>>
    BY <1>2 DEF EndHi, env, history
  <2>3. /\ tick' \in Nat /\ end \in Stamps /\ high \in Nat /\ ReadHigh(tick') \in Nat
        /\ latches => ReadHigh(tick') = high
    <3>1. tick' \in Nat /\ end \in Stamps /\ high \in Nat
      BY <2>1 DEF SamplesInv, TypeOK
    <3>2. HighOf(tick') \in Nat
      BY <3>1, Registers
    <3>3. QED BY <3>1, <3>2 DEF ReadHigh
  <2>4. end' \in Stamps /\ end'.lo = end.lo /\ end'.hi = ReadHigh(tick')
    BY <2>2, <2>3 DEF Stamps
  <2>5. TypeOK'
    BY <2>2, <2>3, <2>4 DEF SamplesInv, TypeOK
  <2>6. JournalKept'
    BY <2>2 DEF SamplesInv, JournalKept
  <2>7. end.lo = LowOf(ended) /\ high = HighOf(ended) /\ WholeStamp(start, began)
    BY <2>2 DEF SamplesInv, StampsTaken, HalfStamp
  <2>8. StampsTaken'
    BY <2>2, <2>3, <2>4, <2>7 DEF StampsTaken, WholeStamp
  <2>9. TimePassed'
    <3>1. tick <= tick'
      BY <2>1, <2>3 DEF SamplesInv, TypeOK
    <3>2. QED BY <2>2, <2>3, <3>1, TimeStep
  <2>10. QED BY <2>5, <2>6, <2>8, <2>9 DEF SamplesInv
<1>3. QED BY <1>1, <1>2

LEMMA ReportStep ==
    ASSUME SamplesInv, Report
    PROVE  SamplesInv'
<1>1. /\ pc = "host" /\ pc' = "done" /\ report' = Figures
      /\ UNCHANGED <<latches, max_trans, tick, high, start, end, t0, test_journal, began, ended, took>>
  BY DEF Report, env, history
<1>2. TypeOK' /\ JournalKept'
  BY <1>1 DEF SamplesInv, TypeOK, JournalKept
<1>3. Figures' = Figures
  BY <1>1, FiguresKept
<1>4. StampsTaken'
  BY <1>1, <1>3 DEF SamplesInv, StampsTaken, WholeStamp
<1>5. TimePassed'
  <2>1. tick' \in Nat /\ tick <= tick'
    BY <1>1 DEF SamplesInv, TypeOK
  <2>2. QED BY <1>1, <2>1, TimeStep
<1>6. QED BY <1>2, <1>4, <1>5 DEF SamplesInv

LEMMA Start == Init => SamplesInv
<1> SUFFICES ASSUME Init PROVE SamplesInv
  OBVIOUS
<1>1. /\ latches \in BOOLEAN /\ max_trans \in Counts /\ pc = "start_lo" /\ tick \in Starts
      /\ high = 0 /\ start = NoStamp /\ end = NoStamp /\ t0 = 0 /\ test_journal = << >>
      /\ took = << >> /\ began = 0 /\ ended = 0
  BY DEF Init
<1>2. NoStamp \in Stamps /\ tick \in Nat /\ max_trans \in Nat
  BY <1>1, SamplesAssumption DEF NoStamp, Stamps
<1>3. /\ << >> \in Seq(Nat) /\ << >> \in Seq(Latencies) /\ Len(<< >>) = 0
  OBVIOUS
<1>4. TypeOK
  BY <1>1, <1>2, <1>3 DEF TypeOK
<1>5. JournalKept
  BY <1>1, <1>3 DEF JournalKept
<1>6. StampsTaken
  BY <1>1 DEF StampsTaken
<1>7. TimePassed
  BY <1>1 DEF TimePassed
<1>8. QED BY <1>4, <1>5, <1>6, <1>7 DEF SamplesInv

LEMMA Step == SamplesInv /\ [Next]_vars => SamplesInv'
<1> SUFFICES ASSUME SamplesInv, [Next]_vars PROVE SamplesInv'
  OBVIOUS
<1>1. CASE UNCHANGED vars
  <2>1. UNCHANGED <<latches, max_trans, pc, tick, high, start, end, t0, test_journal, began, ended,
                    took, report>>
    BY <1>1 DEF vars, env, history
  <2>2. Figures' = Figures
    BY <2>1, FiguresKept
  <2>3. TypeOK' /\ JournalKept' /\ TimePassed'
    BY <2>1 DEF SamplesInv, TypeOK, JournalKept, TimePassed
  <2>4. StampsTaken'
    BY <2>1, <2>2 DEF SamplesInv, StampsTaken, HalfStamp, WholeStamp
  <2>5. QED BY <2>3, <2>4 DEF SamplesInv
<1>2. QED BY <1>1, StartStep, TransactionStep, EndStep, ReportStep DEF Next

-----------------------------------------------------------------------------
(* The theorems.                                                           *)

\* The invariant of a test that is timed holds of every behaviour, for registers of
\* any width (SamplesInv).
THEOREM Invariance == Spec => []SamplesInv
<1>1. QED BY Start, Step, PTL DEF Spec

\* Whatever the low register did between the two readings, an entry of the journal
\* is what the transaction took (SamplesAreTrue; pcie_dma.c 177-206).
THEOREM JournalIsTrue == Spec => []SamplesAreTrue
<1>1. SamplesInv => SamplesAreTrue
  BY DEF SamplesInv, TypeOK, JournalKept, SamplesAreTrue
<1>2. QED BY <1>1, Invariance, PTL

LEMMA CyclesTrue == SamplesInv => TotalIsTrue
<1> SUFFICES ASSUME SamplesInv, pc = "done" PROVE TotalIsTrue
  BY DEF TotalIsTrue
<1>1. /\ start \in Stamps /\ end \in Stamps /\ began \in Nat /\ ended \in Nat
      /\ latches \in BOOLEAN /\ start.lo = LowOf(began) /\ end.lo = LowOf(ended)
      /\ latches => start.hi = HighOf(began) /\ end.hi = HighOf(ended)
      /\ report.cycles = Cycles /\ Lo \in Nat
  BY Bounds DEF SamplesInv, TypeOK, StampsTaken, WholeStamp, Figures
<1> DEFINE a == HighOf(began)
           b == HighOf(ended)
           h == start.hi
           g == end.hi
           k == LowOf(began)
           l == LowOf(ended)
<1>2. /\ a \in Nat /\ b \in Nat /\ h \in Nat /\ g \in Nat /\ k \in Nat /\ l \in Nat
      /\ began = a * Lo + k /\ ended = b * Lo + l
  BY <1>1, Registers DEF Stamps
<1>3. Cycles = ((g * Lo + l) - (h * Lo + k)) * 16
  BY <1>1 DEF Cycles, Ticks, CyclesPerTick
<1> HIDE DEF a, b, h, g, k, l
<1>4. (g * Lo + l) - (h * Lo + k) = ((b * Lo + l) - (a * Lo + k)) + Lo * ((g - b) - (h - a))
  BY <1>1, <1>2
<1>5. Cycles = (ended - began) * 16 + (Lo * 16) * ((g - b) - (h - a))
  BY <1>1, <1>2, <1>3, <1>4
<1>6. latches => Cycles = (ended - began) * 16
  <2>1. latches => g = b /\ h = a
    BY <1>1 DEF a, b, g, h
  <2>2. QED BY <1>1, <1>2, <1>3, <2>1
<1>7. QED BY <1>1, <1>5, <1>6 DEF TotalIsTrue, CyclesPerTick, a, b, g, h

\* The cycles reported for the whole test are true, or off by exactly one turn of
\* the low register for each stamp that a wrap tore (TotalIsTrue; nfpbench.py 335-348).
THEOREM CyclesAreTrue == Spec => []TotalIsTrue
<1>1. QED BY CyclesTrue, Invariance, PTL

\* The samples that lat_test computes with, once it is done.
LEMMA Measured ==
    ASSUME SamplesInv, pc = "done"
    PROVE  /\ Cyc \in Seq(Nat) /\ Len(Cyc) = max_trans /\ max_trans \in Nat \ {0}
           /\ DOMAIN Cyc = DOMAIN test_journal
           /\ \A i \in DOMAIN test_journal : Cyc[i] = test_journal[i] * CyclesPerTick
           /\ Total(Cyc) = CyclesPerTick * Total(took) /\ report = Figures
<1>1. /\ test_journal \in Seq(Nat) /\ took \in Seq(Nat) /\ max_trans \in Nat \ {0}
      /\ Len(test_journal) = Len(took) /\ Len(took) = max_trans
      /\ \A i \in 1 .. Len(took) : test_journal[i] = took[i]
      /\ report = Figures
  BY TookType, Bounds DEF SamplesInv, TypeOK, JournalKept, TimePassed, StampsTaken
<1>2. /\ DOMAIN test_journal = 1 .. max_trans /\ \A i \in 1 .. max_trans : test_journal[i] \in Nat
  BY <1>1
<1>3. /\ DOMAIN Cyc = 1 .. max_trans /\ Cyc \in Seq(Nat) /\ Len(Cyc) = max_trans
      /\ \A i \in 1 .. max_trans : Cyc[i] = test_journal[i] * 16
  <2>1. Cyc = [i \in 1 .. max_trans |-> test_journal[i] * 16]
    BY <1>2 DEF Cyc, CyclesPerTick
  <2>2. \A i \in 1 .. max_trans : test_journal[i] * 16 \in Nat
    BY <1>2
  <2>3. Cyc \in [1 .. max_trans -> Nat]
    BY <2>1, <2>2
  <2>4. QED BY <1>1, <2>1, <2>3
<1>4. Sums(Cyc)[Len(took)] = 16 * Sums(took)[Len(took)]
  <2>1. \A k \in 1 .. Len(took) : Cyc[k] = 16 * took[k]
    BY <1>1, <1>2, <1>3
  <2>2. Len(took) <= Len(Cyc) /\ Len(took) \in 0 .. Len(took) /\ 16 \in Nat
    BY <1>1, <1>3
  <2>3. QED BY <1>1, <1>3, <2>1, <2>2, SumsScale
<1>5. Total(Cyc) = 16 * Total(took)
  BY <1>1, <1>3, <1>4 DEF Total
<1>6. QED BY <1>1, <1>2, <1>3, <1>5 DEF CyclesPerTick

\* Whole stamps give a total of cycles in which the transactions took place.
LEMMA TotalCovers ==
    ASSUME SamplesInv, pc = "done", latches
    PROVE  report.cycles \in Nat /\ CyclesPerTick * Total(took) <= report.cycles
<1>1. TotalIsTrue
  BY CyclesTrue
<1>2. report.cycles = (ended - began) * CyclesPerTick
  BY <1>1 DEF TotalIsTrue
<1>3. /\ began \in Nat /\ ended \in Nat /\ Total(took) \in Nat /\ began + Total(took) <= ended
  BY TookType DEF SamplesInv, TypeOK, TimePassed
<1>4. PICK t \in Nat : t = Total(took)
  BY <1>3
<1>5. report.cycles = (ended - began) * 16 /\ began + t <= ended
  BY <1>2, <1>3, <1>4 DEF CyclesPerTick
<1>6. report.cycles \in Nat /\ 16 * t <= report.cycles
  BY <1>3, <1>4, <1>5
<1>7. QED BY <1>4, <1>6 DEF CyclesPerTick

\* However long the transactions take, the order of the smallest sample, the median,
\* the percentiles, the largest one and the averages is as it must be, and the two
\* computations of the median agree (StatisticsAgree; stats.py 29-65, nfpbench.py
\* 505-536).
THEOREM FiguresAgree == Spec => []StatisticsAgree
<1>1. SamplesInv => StatisticsAgree
  <2> SUFFICES ASSUME SamplesInv, pc = "done" PROVE StatisticsAgree
    BY DEF StatisticsAgree
  <2> DEFINE t == Sorted(Cyc)
             n == max_trans
             a == Min(ToSet(Cyc))
             b == Max(ToSet(Cyc))
             sum == Total(Cyc)
  <2>1. Cyc \in Seq(Nat) /\ Len(Cyc) = n /\ n \in Nat \ {0} /\ report = Figures
    BY Measured
  <2>2. /\ DOMAIN t = 1 .. n /\ t \in [1 .. n -> Nat] /\ t[1] = a /\ t[n] = b
        /\ \A i \in 1 .. Len(Cyc) : a <= Cyc[i] /\ Cyc[i] <= b
    BY <2>1, SortedFacts, SortedEnds
  <2>3. Ascending(t, n)
    <3>1. Len(t) = n
      <4> HIDE DEF t
      <4>1. QED BY <2>1, <2>2
    <3>2. \A j, k \in 1 .. n : j <= k => t[j] <= t[k]
      BY <2>1, SortedAscends
    <3> HIDE DEF t
    <3>3. QED BY <2>1, <2>2, <3>1, <3>2 DEF Ascending
  <2>4. a \in Nat /\ b \in Nat
    <3>1. 1 \in 1 .. n /\ n \in 1 .. n
      BY <2>1
    <3> HIDE DEF a, b, t
    <3>2. QED BY <2>2, <3>1
  <2> HIDE DEF t, a, b, sum
  <2>5. /\ 500 \in 0 .. Scale /\ 950 \in 0 .. Scale /\ 999 \in 0 .. Scale
        /\ 950 \in 500 .. Scale /\ 999 \in 950 .. Scale
    BY DEF Scale
  <2>6. /\ TwiceMedian(t) * Scale = 2 * Percentile(t, 500)
        /\ a * Scale <= Percentile(t, 500) /\ Percentile(t, 500) <= Percentile(t, 950)
        /\ Percentile(t, 950) <= Percentile(t, 999) /\ Percentile(t, 999) <= b * Scale
    <3>1. TwiceMedian(t) * Scale = 2 * Percentile(t, 500)
      BY <2>3, MedianAgrees
    <3>2. t[1] * Scale <= Percentile(t, 500) /\ Percentile(t, 500) <= Percentile(t, 950)
      BY <2>3, <2>5, PercentileBounds
    <3>3. Percentile(t, 950) <= Percentile(t, 999) /\ Percentile(t, 999) <= t[n] * Scale
      BY <2>3, <2>5, PercentileBounds
    <3>4. t[1] = a /\ t[n] = b
      BY <2>2
    <3>5. QED BY <3>1, <3>2, <3>3, <3>4
  <2>7. a * n <= sum /\ sum <= b * n
    BY <2>1, <2>2, <2>4, SumsBounded DEF sum
  <2>8. latches => sum < ((report.cycles \div n) + 1) * n
    <3> SUFFICES ASSUME latches PROVE sum < ((report.cycles \div n) + 1) * n
      OBVIOUS
    <3>1. report.cycles \in Nat /\ sum <= report.cycles
      BY TotalCovers, Measured DEF sum
    <3>2. PICK q, r \in Nat : /\ report.cycles = q * n + r /\ r < n /\ q * n \in Nat
                              /\ report.cycles \div n = q
      BY <2>1, <3>1, Split
    <3>3. (q + 1) * n = q * n + n
      BY <2>1
    <3>4. sum \in Nat
      BY <2>1, TotalType DEF sum
    <3>5. QED BY <2>1, <3>1, <3>2, <3>3, <3>4
  <2>9. /\ report.med2 = TwiceMedian(t) /\ report.per50 = Percentile(t, 500)
        /\ report.per95 = Percentile(t, 950) /\ report.per99 = Percentile(t, 999)
        /\ report.min = a /\ report.max = b /\ report.samples = n /\ report.sum = sum
        /\ report.tavg = report.cycles \div n
    BY <2>1 DEF Figures, t, a, b, sum
  <2>10. QED BY <2>6, <2>7, <2>8, <2>9 DEF StatisticsAgree
<1>2. QED BY <1>1, Invariance, PTL

\* For every value that occurs the distribution gives how many samples are not above
\* it, and all of them for the largest (CdfCountsSamples; stats.py 68-95).
THEOREM DistributionCounts == Spec => []CdfCountsSamples
<1>1. SamplesInv => CdfCountsSamples
  <2> SUFFICES ASSUME SamplesInv, pc = "done", NEW v \in DOMAIN report.cdf
               PROVE  /\ report.cdf[v] = Cardinality({i \in DOMAIN test_journal :
                                                   test_journal[i] * CyclesPerTick <= v})
                      /\ v = report.max => report.cdf[v] = report.samples
    BY DEF CdfCountsSamples
  <2>1. /\ Cyc \in Seq(Nat) /\ Len(Cyc) = max_trans /\ max_trans \in Nat \ {0}
        /\ report = Figures /\ DOMAIN Cyc = DOMAIN test_journal
        /\ \A i \in DOMAIN test_journal : Cyc[i] = test_journal[i] * CyclesPerTick
    BY Measured
  <2>2. /\ report.cdf = Histo2Cdf(Histo(Cyc)) /\ report.max = Max(ToSet(Cyc))
        /\ report.samples = max_trans
    BY <2>1 DEF Figures
  <2>3. v \in ToSet(Cyc) /\ report.cdf[v] = Cardinality(AtMost(Cyc, v))
    BY <2>1, <2>2, CdfCounts
  <2>4. AtMost(Cyc, v) = {i \in DOMAIN test_journal : test_journal[i] * CyclesPerTick <= v}
    BY <2>1 DEF AtMost
  <2>5. v = report.max => report.cdf[v] = report.samples
    <3> SUFFICES ASSUME v = Max(ToSet(Cyc)) PROVE Cardinality(AtMost(Cyc, v)) = max_trans
      BY <2>2, <2>3
    <3>1. DOMAIN Cyc = 1 .. Len(Cyc)
      BY <2>1
    <3>2. Len(Cyc) # 0
      BY <2>1
    <3>3. \A i \in 1 .. Len(Cyc) : Cyc[i] <= v
      BY <2>1, <3>2, SortedEnds
    <3>4. AtMost(Cyc, v) = DOMAIN Cyc
      BY <3>1, <3>3 DEF AtMost
    <3>5. Cardinality(DOMAIN Cyc) = Len(Cyc)
      BY <2>1, Indices
    <3>6. QED BY <2>1, <3>4, <3>5
  <2>6. QED BY <2>3, <2>4, <2>5
<1>2. QED BY <1>1, Invariance, PTL
=============================================================================
