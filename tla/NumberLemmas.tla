---------------------------- MODULE NumberLemmas ----------------------------
(***************************************************************************)
(* Facts about natural numbers that the proofs of the address arithmetic   *)
(* need: induction, iteration, quotients, remainders and blocks.           *)
(***************************************************************************)
EXTENDS Integers, WellFoundedInduction, TLAPS

-----------------------------------------------------------------------------
(* Induction and recursion over the natural numbers, stated about sets and *)
(* functions.                                                              *)

\* A set that begins with 0 and contains every successor of its elements contains
\* every number: there is no least one outside.
LEMMA SetInduction ==
    ASSUME NEW S, 0 \in S, \A n \in Nat : n \in S => n + 1 \in S
    PROVE  Nat \subseteq S
<1> DEFINE R == {ss \in Nat \X Nat : ss[1] < ss[2]}
           T == Nat \ S
<1>1. IsWellFoundedOn(R, Nat)
  BY NatLessThanWellFounded DEF OpToRel
<1>2. ASSUME T # {} PROVE FALSE
  <2>1. PICK x \in T : \A y \in T : ~(<<y, x>> \in R)
    BY <1>1, <1>2, WFMin, Zenon
  <2>2. x # 0 /\ x \in Nat
    OBVIOUS
  <2>3. x - 1 \in Nat /\ x - 1 < x
    BY <2>2
  <2>4. x - 1 \notin S
    BY <2>2
  <2>5. <<x-1, x>> \in R
    BY <2>2, <2>3
  <2>6. QED BY <2>1, <2>3, <2>4, <2>5
<1>3. QED BY <1>2

\* f[n] is what n applications of g make of the first element.
Iterates(f, N, D, g, first) ==
    /\ f \in [0 .. N -> D] /\ f[0] = first
    /\ \A i \in 1 .. N : f[i] = g[f[i-1]]

\* What a recursive definition over 0 .. N describes exists.
LEMMA Iteration ==
    ASSUME NEW N \in Nat, NEW D, NEW g \in [D -> D], NEW first \in D
    PROVE  \E f : Iterates(f, N, D, g, first)
<1> DEFINE S == {n \in Nat : \E f : Iterates(f, n, D, g, first)}
<1>1. 0 \in S
  <2> DEFINE h == [i \in 0 .. 0 |-> first]
  <2>1. h \in [0 .. 0 -> D] /\ h[0] = first /\ \A i \in 1 .. 0 : h[i] = g[h[i-1]]
    OBVIOUS
  <2> HIDE DEF h
  <2>2. Iterates(h, 0, D, g, first)
    BY <2>1 DEF Iterates
  <2>3. QED BY <2>2
<1>2. ASSUME NEW n \in Nat, n \in S PROVE n + 1 \in S
  <2>1. PICK f : Iterates(f, n, D, g, first)
    BY <1>2
  <2> DEFINE h == [i \in 0 .. n+1 |-> IF i <= n THEN f[i] ELSE g[f[n]]]
  <2>2. h \in [0 .. n+1 -> D] /\ h[0] = first
    BY <2>1 DEF Iterates
  <2>3. \A i \in 1 .. n+1 : h[i] = g[h[i-1]]
    BY <2>1 DEF Iterates
  <2> HIDE DEF h
  <2>4. Iterates(h, n+1, D, g, first)
    BY <2>2, <2>3 DEF Iterates
  <2>5. QED BY <2>4
<1>3. Nat \subseteq S
  <2> HIDE DEF S
  <2>1. QED BY <1>1, <1>2, SetInduction
<1>4. QED BY <1>3

-----------------------------------------------------------------------------
(* Quotients and remainders.                                               *)

LEMMA ProductGrows ==
    ASSUME NEW m \in Nat, NEW n \in Nat, NEW k \in Nat, m <= n
    PROVE  m * k \in Nat /\ n * k \in Nat /\ m * k <= n * k
<1>1. PICK d \in Nat : n = m + d
  <2>1. n - m \in Nat /\ n = m + (n - m)
    OBVIOUS
  <2>2. QED BY <2>1
<1>2. n * k = m * k + d * k /\ m * k \in Nat /\ d * k \in Nat
  BY <1>1
<1>3. QED BY <1>2

LEMMA DivModUnique ==
    ASSUME NEW n \in Nat \ {0}, NEW q \in Nat, NEW r \in Nat, r < n
    PROVE  (q * n + r) \div n = q /\ (q * n + r) % n = r
<1>1. QED BY SMTT(30)

LEMMA Split ==
    ASSUME NEW n \in Nat, NEW d \in Nat \ {0}
    PROVE  \E q, r \in Nat : /\ n = q * d + r /\ r < d /\ q * d \in Nat
                             /\ n \div d = q /\ n % d = r
<1>1. /\ n \div d \in Nat /\ n % d \in Nat /\ n % d < d
      /\ n = (n \div d) * d + (n % d) /\ (n \div d) * d \in Nat
  BY SMTT(30)
<1>2. QED BY <1>1

LEMMA Multiple ==
    ASSUME NEW n \in Nat, NEW d \in Nat \ {0}, n % d = 0
    PROVE  \E k \in Nat : n = k * d /\ n \div d = k
<1>1. QED BY Split

LEMMA IsMultiple ==
    ASSUME NEW k \in Nat, NEW d \in Nat \ {0}
    PROVE  k * d \in Nat /\ (k * d) % d = 0 /\ (k * d) \div d = k
<1>1. (k * d + 0) \div d = k /\ (k * d + 0) % d = 0
  BY DivModUnique
<1>2. k * d \in Nat
  BY ProductGrows
<1>3. QED BY <1>1, <1>2

\* Of two multiples the smaller is smaller by a step at least.
LEMMA NextMultiple ==
    ASSUME NEW j \in Nat, NEW k \in Nat, NEW d \in Nat, j < k
    PROVE  j * d + d <= k * d /\ j * d \in Nat /\ k * d \in Nat
<1>1. (j + 1) * d <= k * d /\ j * d \in Nat /\ k * d \in Nat
  BY ProductGrows
<1>2. (j + 1) * d = j * d + d
  OBVIOUS
<1>3. QED BY <1>1, <1>2

\* Two numbers in the same block of d are in the same greater one.
SameBlock(d, a, b) == a \div d = b \div d

LEMMA SameInGreater ==
    ASSUME NEW d \in Nat \ {0}, NEW m \in Nat \ {0}, m % d = 0,
           NEW a \in Nat, NEW b \in Nat, SameBlock(d, a, b)
    PROVE  SameBlock(m, a, b)
<1> USE DEF SameBlock
<1>1. PICK k \in Nat : m = k * d
  BY Multiple
<1>2. k # 0
  BY <1>1
<1>3. PICK n \in Nat : n = a \div d
  BY Split
<1>4. PICK c, e \in Nat : n = c * k + e /\ e < k
  BY <1>2, Split
<1>5. ASSUME NEW x \in Nat, x \div d = n PROVE x \div m = c
  <2>1. PICK r \in Nat : x = n * d + r /\ r < d
    <3>1. PICK q, r \in Nat : x = q * d + r /\ r < d /\ x \div d = q
      BY Split
    <3>2. QED BY <3>1, <1>5
  <2>2. e * d + d <= k * d /\ e * d \in Nat
    BY <1>4, NextMultiple
  <2>3. e * d + r \in Nat /\ e * d + r < m
    BY <1>1, <2>1, <2>2
  <2>4. x = c * m + (e * d + r)
    <3>1. (c * k + e) * d = c * (k * d) + e * d
      OBVIOUS
    <3>2. QED BY <3>1, <2>1, <1>1, <1>4
  <2>5. QED BY <2>3, <2>4, DivModUnique
<1>6. QED BY <1>3, <1>5

LEMMA DivMonotone ==
    ASSUME NEW a \in Nat, NEW b \in Nat, NEW d \in Nat \ {0}, a <= b
    PROVE  a \div d <= b \div d
<1>1. PICK q, r \in Nat : a = q * d + r /\ r < d /\ a \div d = q
  BY Split
<1>2. PICK s, t \in Nat : b = s * d + t /\ t < d /\ b \div d = s
  BY Split
<1>3. ASSUME s < q PROVE FALSE
  <2>1. s * d + d <= q * d /\ s * d \in Nat /\ q * d \in Nat
    BY <1>3, NextMultiple
  <2>2. QED BY <1>1, <1>2, <2>1
<1>4. QED BY <1>1, <1>2, <1>3

\* What fits in the rest of a block begins and ends in the same block.
LEMMA StaysInBlock ==
    ASSUME NEW a \in Nat, NEW n \in Nat \ {0}, NEW d \in Nat \ {0}, d - (a % d) >= n
    PROVE  a \div d = (a + n - 1) \div d /\ (a + n - 1) % d = (a % d) + n - 1
<1>1. PICK q, r \in Nat : a = q * d + r /\ r < d /\ a \div d = q /\ a % d = r
  BY Split
<1>2. a + n - 1 = q * d + (r + n - 1) /\ r + n - 1 \in Nat /\ r + n - 1 < d
  BY <1>1
<1>3. (q * d + (r + n - 1)) \div d = q /\ (q * d + (r + n - 1)) % d = r + n - 1
  BY <1>2, DivModUnique
<1>4. QED BY <1>1, <1>2, <1>3

LEMMA Small ==
    ASSUME NEW n \in Nat, NEW d \in Nat \ {0}, n < d
    PROVE  n % d = n /\ n \div d = 0
<1>1. (0 * d + n) \div d = 0 /\ (0 * d + n) % d = n
  BY DivModUnique
<1>2. 0 * d + n = n
  OBVIOUS
<1>3. QED BY <1>1, <1>2

LEMMA MultipleOfMultiple ==
    ASSUME NEW c \in Nat, NEW b \in Nat \ {0}, NEW a \in Nat \ {0},
           c % b = 0, b % a = 0
    PROVE  c % a = 0
<1>1. PICK k \in Nat : c = k * b
  BY Multiple
<1>2. PICK j \in Nat : b = j * a
  BY Multiple
<1>3. c = (k * j) * a /\ k * j \in Nat
  <2>1. k * j \in Nat
    BY ProductGrows
  <2>2. k * (j * a) = (k * j) * a
    OBVIOUS
  <2>3. QED BY <1>1, <1>2, <2>1, <2>2
<1>4. QED BY <1>3, IsMultiple

LEMMA Ceiling ==
    ASSUME NEW r \in Nat, NEW n \in Nat \ {0}
    PROVE  \E c \in Nat : c * n \in Nat /\ r <= c * n /\ c * n <= r + n - 1
<1>1. r + n - 1 \in Nat
  OBVIOUS
<1>2. PICK c, e \in Nat : /\ r + n - 1 = c * n + e /\ e < n /\ c * n \in Nat
                         /\ (r + n - 1) \div n = c /\ (r + n - 1) % n = e
  BY <1>1, Split, Zenon
<1>3. QED BY <1>2

LEMMA ScaledMod ==
    ASSUME NEW t \in Nat, NEW j \in Nat \ {0}, NEW d \in Nat \ {0}
    PROVE  (t * d) % (j * d) \in 0 .. (j * d)-1 /\ ((t * d) % (j * d)) % d = 0
<1>1. PICK c, r \in Nat : t = c * j + r /\ r < j /\ c * j \in Nat /\ t \div j = c /\ t % j = r
  BY Split
<1>2. r * d + d <= j * d /\ r * d \in Nat /\ j * d \in Nat
  BY <1>1, NextMultiple
<1> DEFINE m == j * d
           e == r * d
<1>3. m \in Nat \ {0} /\ e \in Nat /\ e < m
  BY <1>2
<1>4. t * d = c * m + e
  <2>1. (c * j + r) * d = c * (j * d) + r * d
    OBVIOUS
  <2>2. QED BY <2>1, <1>1
<1>5. e % d = 0
  BY <1>1, IsMultiple
<1> HIDE DEF m, e
<1>6. (t * d) % m = e
  BY <1>3, <1>4, DivModUnique
<1>7. QED BY <1>3, <1>5, <1>6 DEF m
=============================================================================
