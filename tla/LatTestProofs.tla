---------------------------- MODULE LatTestProofs ----------------------------
(***************************************************************************)
(* Proofs about LatTest and about the division it computes with.           *)
(***************************************************************************)
EXTENDS LatTestInv, NumberLemmas

-----------------------------------------------------------------------------
(* Words.                                                                  *)

\* Pow2 is what its definition says.
LEMMA Pow2Facts ==
    /\ Pow2 \in [0 .. WordBits -> Nat \ {0}] /\ Pow2[0] = 1
    /\ \A i \in 1 .. WordBits : Pow2[i] = 2 * Pow2[i-1]
<1> USE NfccAssumption
<1> DEFINE D == Nat \ {0}
           g == [v \in D |-> 2 * v]
<1>1. PICK f : Iterates(f, WordBits, D, g, 1)
  <2>1. g \in [D -> D] /\ 1 \in D /\ WordBits \in Nat
    OBVIOUS
  <2> HIDE DEF g, D
  <2>2. QED BY <2>1, Iteration
<1>2. \A i \in 1 .. WordBits : f[i] = 2 * f[i-1]
  <2>1. \A i \in 1 .. WordBits : f[i-1] \in D
    BY <1>1 DEF Iterates
  <2>2. QED BY <1>1, <2>1 DEF Iterates
<1>3. f = [n \in 0 .. WordBits |-> IF n = 0 THEN 1 ELSE 2 * f[n-1]]
  <2>1. \A i \in 0 .. WordBits : f[i] = IF i = 0 THEN 1 ELSE 2 * f[i-1]
    BY <1>1, <1>2 DEF Iterates
  <2>2. f = [i \in 0 .. WordBits |-> f[i]]
    BY <1>1 DEF Iterates
  <2>3. QED BY <2>1, <2>2
<1>4. Pow2 = [n \in 0 .. WordBits |-> IF n = 0 THEN 1 ELSE 2 * Pow2[n-1]]
  BY <1>3 DEF Pow2
<1> DEFINE S == {n \in Nat : n <= WordBits => Pow2[n] \in D}
<1>5. 0 \in S
  BY <1>4
<1>6. ASSUME NEW n \in Nat, n \in S PROVE n + 1 \in S
  <2>1. n + 1 <= WordBits => Pow2[n+1] = 2 * Pow2[n] /\ Pow2[n] \in D
    BY <1>4, <1>6
  <2>2. QED BY <2>1
<1>7. Nat \subseteq S
  <2> HIDE DEF S
  <2>1. QED BY <1>5, <1>6, SetInduction
<1>8. \A n \in 0 .. WordBits : Pow2[n] \in D
  BY <1>7
<1>9. Pow2 = [n \in 0 .. WordBits |-> Pow2[n]]
  BY <1>4
<1>10. Pow2 \in [0 .. WordBits -> D]
  BY <1>8, <1>9
<1>11. Pow2[0] = 1
  BY <1>4
<1>12. \A i \in 1 .. WordBits : Pow2[i] = 2 * Pow2[i-1]
  BY <1>4
<1>13. QED BY <1>10, <1>11, <1>12

LEMMA WordFacts == Word \in Nat /\ Word > 1 /\ Pow2[WordBits-1] \in Nat
                   /\ Word = 2 * Pow2[WordBits-1] /\ Word \div 2 = Pow2[WordBits-1]
<1> USE NfccAssumption
<1>1. WordBits - 1 \in 0 .. WordBits /\ WordBits \in 1 .. WordBits
  OBVIOUS
<1>2. Pow2[WordBits-1] \in Nat \ {0} /\ Pow2[WordBits] = 2 * Pow2[WordBits-1]
  BY <1>1, Pow2Facts
<1>3. \A h \in Nat : (2 * h) \div 2 = h
  OBVIOUS
<1>4. QED BY <1>2, <1>3 DEF Word

-----------------------------------------------------------------------------
(* The loop of _div_mod_32.                                                *)

States == [hi : Nat, lo : Nat]

LEMMA DivStepType ==
    ASSUME NEW s \in States, NEW y \in Nat
    PROVE  DivStep(s, y) \in States
<1>1. (2 * s.lo) % Word \in Nat /\ ShiftIn(s.hi, s.lo) \in Nat
  <2>1. \A a \in Nat : a % Word \in Nat
    BY WordFacts
  <2>2. s.lo \div (Word \div 2) \in Nat
    BY WordFacts DEF States
  <2>3. QED BY <2>1, <2>2 DEF ShiftIn, States
<1>2. QED BY <1>1 DEF DivStep, Subtracted, States

LEMMA DivLoop ==
    ASSUME NEW x \in Nat, NEW y \in Nat
    PROVE  \E f : /\ f \in [0 .. WordBits -> States] /\ f[0] = [hi |-> 0, lo |-> x]
                  /\ \A i \in 1 .. WordBits : f[i] = DivStep(f[i-1], y)
                  /\ Divided(x, y) = f[WordBits]
<1> USE NfccAssumption
<1> DEFINE g == [s \in States |-> DivStep(s, y)]
           start == [hi |-> 0, lo |-> x]
           F == CHOOSE hilo : hilo = [i \in 0 .. WordBits |->
                    IF i = 0 THEN [hi |-> 0, lo |-> x] ELSE DivStep(hilo[i-1], y)]
<1>1. PICK f : Iterates(f, WordBits, States, g, start)
  <2>1. g \in [States -> States]
    BY DivStepType
  <2>2. start \in States
    BY DEF States
  <2> HIDE DEF g, start
  <2>3. QED BY <2>1, <2>2, Iteration
<1>2. \A i \in 1 .. WordBits : f[i] = DivStep(f[i-1], y)
  <2>1. \A i \in 1 .. WordBits : f[i-1] \in States
    BY <1>1 DEF Iterates
  <2>2. QED BY <1>1, <2>1 DEF Iterates
<1>3. f = [i \in 0 .. WordBits |-> IF i = 0 THEN [hi |-> 0, lo |-> x] ELSE DivStep(f[i-1], y)]
  <2>1. \A i \in 0 .. WordBits :
            f[i] = IF i = 0 THEN [hi |-> 0, lo |-> x] ELSE DivStep(f[i-1], y)
    BY <1>1, <1>2 DEF Iterates
  <2>2. f = [i \in 0 .. WordBits |-> f[i]]
    BY <1>1 DEF Iterates
  <2>3. QED BY <2>1, <2>2
<1>4. F = [i \in 0 .. WordBits |-> IF i = 0 THEN [hi |-> 0, lo |-> x] ELSE DivStep(F[i-1], y)]
  <2>1. \E h : h = [i \in 0 .. WordBits |->
                       IF i = 0 THEN [hi |-> 0, lo |-> x] ELSE DivStep(h[i-1], y)]
    BY <1>3
  <2>2. QED BY <2>1, Zenon
<1>5. Divided(x, y) = F[WordBits]
  BY DEF Divided
<1> HIDE DEF F
\* The definition has one solution: f and F agree everywhere.
<1> DEFINE S == {n \in Nat : n <= WordBits => F[n] = f[n]}
<1>6. 0 \in S
  BY <1>3, <1>4
<1>7. ASSUME NEW n \in Nat, n \in S PROVE n + 1 \in S
  <2>1. n + 1 <= WordBits => F[n+1] = DivStep(F[n], y) /\ f[n+1] = DivStep(f[n], y)
    BY <1>3, <1>4
  <2>2. QED BY <1>7, <2>1
<1>8. Nat \subseteq S
  <2> HIDE DEF S
  <2>1. QED BY <1>6, <1>7, SetInduction
<1>9. Divided(x, y) = f[WordBits]
  BY <1>5, <1>8
<1>10. QED BY <1>1, <1>2, <1>9 DEF Iterates

\* Where the loop stands with a bits of the dividend taken in: a is x without its
\* last bits b, of which P values are possible; q is the quotient of a so far, of
\* which Q values are possible, and hi its remainder; lo holds b above q.
Dividing(x, y, P, Q, s) ==
    \E a, b, q \in Nat :
        /\ x = a * P + b /\ b < P
        /\ s.lo = b * Q + q /\ q < Q
        /\ a = q * y + s.hi /\ s.hi < y /\ a < Q

\* One turn of the loop takes one more bit in.
LEMMA DivTurn ==
    ASSUME NEW x \in Nat, NEW y \in Nat \ {0}, NEW s \in States,
           NEW P \in Nat \ {0}, NEW Q \in Nat \ {0}, Word = 2 * (P * Q),
           Dividing(x, y, 2 * P, Q, s)
    PROVE  Dividing(x, y, P, 2 * Q, DivStep(s, y))
<1>1. PICK a \in Nat, b \in Nat, q \in Nat :
        /\ x = a * (2 * P) + b /\ b < 2 * P
        /\ s.lo = b * Q + q /\ q < Q
        /\ a = q * y + s.hi /\ s.hi < y /\ a < Q
  BY DEF Dividing
<1> DEFINE H == P * Q
<1>2. H \in Nat \ {0} /\ Word = 2 * H /\ Word \div 2 = H /\ Q <= H
  <2>1. 1 * Q <= P * Q /\ P * Q \in Nat
    BY ProductGrows
  <2>2. \A h \in Nat : (2 * h) \div 2 = h
    OBVIOUS
  <2>3. QED BY <2>1, <2>2
\* The bit that moves is the first of b.
<1>3. PICK c \in {0, 1}, b1 \in Nat : b = c * P + b1 /\ b1 < P
  <2>1. CASE b < P
    BY <2>1
  <2>2. CASE b >= P
    <3>1. b - P \in Nat /\ b = 1 * P + (b - P) /\ b - P < P
      BY <2>2, <1>1
    <3>2. QED BY <3>1
  <2>3. QED BY <2>1, <2>2
<1> DEFINE r == b1 * Q + q
           h == 2 * s.hi + c
<1>4. r \in Nat /\ r < H /\ s.lo = c * H + r
  <2>1. b1 * Q \in Nat /\ b1 * Q + Q <= H
    <3>1. (b1 + 1) * Q <= P * Q
      BY <1>3, ProductGrows
    <3>2. (b1 + 1) * Q = b1 * Q + Q /\ b1 * Q \in Nat
      OBVIOUS
    <3>3. QED BY <3>1, <3>2
  <2>2. b * Q = c * H + b1 * Q
    <3>1. CASE c = 0
      BY <3>1, <1>3
    <3>2. CASE c = 1
      BY <3>2, <1>3
    <3>3. QED BY <3>1, <3>2
  <2>3. QED BY <2>1, <2>2, <1>1
<1>5. s.lo \div H = c /\ (2 * s.lo) % Word = 2 * r
  <2>1. s.lo \div H = c
    <3>1. H \in Nat \ {0} /\ c \in Nat /\ r \in Nat /\ r < H /\ s.lo = c * H + r
      BY <1>2, <1>4
    <3> HIDE DEF H, r
    <3>2. (c * H + r) \div H = c
      BY <3>1, DivModUnique, Zenon
    <3>3. QED BY <3>1, <3>2, Zenon
  <2>2. 2 * s.lo = c * Word + 2 * r /\ 2 * r < Word /\ 2 * r \in Nat /\ Word \in Nat \ {0}
    BY <1>2, <1>4
  <2>3. QED BY <2>1, <2>2, DivModUnique
<1>6. ShiftIn(s.hi, s.lo) = h /\ h \in Nat /\ h = 2 * s.hi + c
  <2>1. s.hi \in Nat /\ q * y \in Nat
    BY DEF States
  <2>2. h \in Nat /\ h < Word
    BY <2>1, <1>1, <1>2, <1>3
  <2>3. h % Word = h
    BY <2>2
  <2>4. QED BY <2>2, <2>3, <1>2, <1>5 DEF ShiftIn
<1>7. x = (2 * a + c) * P + b1
  <2>1. CASE c = 0
    BY <2>1, <1>1, <1>3
  <2>2. CASE c = 1
    BY <2>2, <1>1, <1>3
  <2>3. QED BY <2>1, <2>2
<1>8. 2 * a + c \in Nat /\ 2 * a + c < 2 * Q /\ 2 * a + c = 2 * (q * y) + h
  <2>1. s.hi \in Nat /\ q * y \in Nat
    BY DEF States
  <2>2. QED BY <2>1, <1>1, <1>3, <1>6
<1>9. 2 * r = b1 * (2 * Q) + 2 * q /\ 2 * r \in Nat
  BY <1>4
<1>10. CASE h >= y
  <2>1. DivStep(s, y) = [hi |-> h - y, lo |-> 2 * r + 1]
    BY <1>10, <1>5, <1>6 DEF DivStep, Subtracted
  <2>2. 2 * a + c = (2 * q + 1) * y + (h - y)
    <3>1. (2 * q + 1) * y = 2 * (q * y) + y
      OBVIOUS
    <3>2. QED BY <3>1, <1>6, <1>8
  <2>3. h - y < y /\ 2 * q + 1 \in Nat /\ 2 * q + 1 < 2 * Q
    BY <1>1, <1>3, <1>6, <1>10 DEF States
  <2>4. 2 * r + 1 = b1 * (2 * Q) + (2 * q + 1)
    BY <1>9
  <2> HIDE DEF r, h, H
  <2>5. QED
    <3>1. 2 * a + c \in Nat /\ 2 * q + 1 \in Nat
      BY <1>8, <2>3
    <3> USE DEF Dividing
    <3> WITNESS 2 * a + c \in Nat, b1 \in Nat, 2 * q + 1 \in Nat
    <3>2. QED BY <2>1, <2>2, <2>3, <2>4, <1>3, <1>7, <1>8
<1>11. CASE h < y
  <2>1. DivStep(s, y) = [hi |-> h, lo |-> 2 * r]
    BY <1>11, <1>5, <1>6 DEF DivStep, Subtracted
  <2>2. 2 * a + c = (2 * q) * y + h
    <3>1. (2 * q) * y = 2 * (q * y)
      OBVIOUS
    <3>2. QED BY <3>1, <1>8
  <2>3. 2 * q \in Nat /\ 2 * q < 2 * Q
    BY <1>1
  <2> HIDE DEF r, h, H
  <2>4. QED
    <3>1. 2 * a + c \in Nat /\ 2 * q \in Nat
      BY <1>8, <2>3
    <3> USE DEF Dividing
    <3> WITNESS 2 * a + c \in Nat, b1 \in Nat, 2 * q \in Nat
    <3>2. 2 * r = b1 * (2 * Q) + 2 * q
      BY <1>9
    <3>3. QED BY <2>1, <2>2, <2>3, <3>2, <1>3, <1>7, <1>8, <1>11
<1>12. QED BY <1>6, <1>10, <1>11

\* After WordBits turns nothing is left of x.
LEMMA DivIsExact ==
    ASSUME NEW x \in Words, NEW y \in Words \ {0}
    PROVE  Divided(x, y).lo = x \div y /\ Divided(x, y).hi = x % y
<1> USE NfccAssumption
<1> DEFINE d == Divided(x, y)
           W == WordBits
<1>1. x \in Nat /\ x < Word /\ y \in Nat \ {0} /\ Word \in Nat /\ W \in Nat
  BY WordFacts DEF Words, AllOnes
<1>2. PICK f : /\ f \in [0 .. W -> States] /\ f[0] = [hi |-> 0, lo |-> x]
               /\ \A i \in 1 .. W : f[i] = DivStep(f[i-1], y)
               /\ d = f[W]
  BY <1>1, DivLoop
<1> HIDE DEF d
<1> DEFINE Turn(n) == Pow2[W-n] * Pow2[n] = Word /\ Dividing(x, y, Pow2[W-n], Pow2[n], f[n])
           S == {n \in Nat : n <= W => Turn(n)}
<1>3. 0 \in S
  <2>1. Pow2[W-0] = Word /\ Pow2[0] = 1
    BY Pow2Facts DEF Word
  <2>2. Dividing(x, y, Word, 1, f[0])
    <3> USE DEF Dividing
    <3> x \in Nat
      BY <1>1
    <3> WITNESS 0 \in Nat, x \in Nat, 0 \in Nat
    <3>1. QED BY <1>1, <1>2
  <2>3. Turn(0)
    BY <1>1, <2>1, <2>2
  <2>4. QED BY <2>3
<1>4. ASSUME NEW n \in Nat, n \in S PROVE n + 1 \in S
  <2> SUFFICES ASSUME n + 1 <= W PROVE Turn(n+1)
    OBVIOUS
  <2> DEFINE P == Pow2[W-(n+1)]
             Q == Pow2[n]
  <2>1. P \in Nat \ {0} /\ Q \in Nat \ {0} /\ Pow2[W-n] = 2 * P /\ Pow2[n+1] = 2 * Q
    <3>1. W - n \in 1 .. W /\ W - (n+1) \in 0 .. W /\ n \in 0 .. W /\ n + 1 \in 1 .. W
          /\ (W - n) - 1 = W - (n+1) /\ (n + 1) - 1 = n
      OBVIOUS
    <3>2. QED BY <3>1, Pow2Facts
  <2>2. (2 * P) * Q = Word /\ Dividing(x, y, 2 * P, Q, f[n])
    <3>1. Turn(n)
      BY <1>4
    <3>2. QED BY <2>1, <3>1
  <2>3. f[n] \in States /\ f[n+1] = DivStep(f[n], y)
    BY <1>2
  <2> HIDE DEF P, Q
  <2>4. Word = 2 * (P * Q) /\ P * (2 * Q) = Word
    BY <2>1, <2>2
  <2>5. Dividing(x, y, P, 2 * Q, DivStep(f[n], y))
    BY <1>1, <2>1, <2>2, <2>3, <2>4, DivTurn
  <2>6. QED BY <2>1, <2>3, <2>4, <2>5 DEF P
<1>5. Nat \subseteq S
  <2> HIDE DEF S
  <2>1. QED BY <1>3, <1>4, SetInduction
<1>6. Dividing(x, y, 1, Word, f[W])
  <2>1. Turn(W)
    BY <1>5
  <2>2. Pow2[W-W] = 1 /\ Pow2[W] = Word
    BY Pow2Facts DEF Word
  <2>3. QED BY <2>1, <2>2
<1>7. d.hi \in Nat /\ d.lo \in Nat /\ d.hi < y /\ x = d.lo * y + d.hi
  <2>1. PICK a \in Nat, b \in Nat, q \in Nat :
            /\ x = a * 1 + b /\ b < 1
            /\ f[W].lo = b * Word + q /\ q < Word
            /\ a = q * y + f[W].hi /\ f[W].hi < y /\ a < Word
    BY <1>6 DEF Dividing
  <2>2. b = 0 /\ f[W].lo = q /\ x = a
    BY <1>1, <2>1
  <2>3. f[W].hi \in Nat
    BY <1>1, <1>2 DEF States
  <2>4. QED BY <1>2, <2>1, <2>2, <2>3
<1>8. d.lo = x \div y /\ d.hi = x % y
  BY <1>1, <1>7, DivModUnique
<1>9. QED BY <1>8 DEF d

\* Division as the firmware computes it is the division C promises, for words of
\* every width (libnfcc.c, 27-58).
THEOREM DivisionExact == Exact
<1> SUFFICES ASSUME NEW x \in Words, NEW y \in Words
             PROVE  IF y = 0 THEN Div[x][y] = AllOnes /\ Mod[x][y] = AllOnes
                             ELSE Div[x][y] = x \div y /\ Mod[x][y] = x % y
  BY DEF Exact
<1>1. Div[x][y] = (IF y = 0 THEN AllOnes ELSE Divided(x, y).lo)
      /\ Mod[x][y] = (IF y = 0 THEN AllOnes ELSE Divided(x, y).hi)
  BY DEF Div, Mod
<1>2. QED BY <1>1, DivIsExact

-----------------------------------------------------------------------------
(* Sizes.                                                                  *)

LEMMA Sizes ==
    /\ MaxMem \in Nat \ {0} /\ MaxMem % LineSz = 0
    /\ ArraySz \in Nat \ {0} /\ ArraySz * LineSz = MaxMem
    /\ LinesInPage \in Nat \ {0} /\ LinesInPage * LineSz = PageSz
    /\ ArraySz * LinesInPage <= Word
    /\ ChunkSz % LineSz = 0
<1> USE LatTestAssumption
<1>1. ChunkSz % LineSz = 0
  BY MultipleOfMultiple
<1>2. MaxMem \in Nat \ {0} /\ MaxMem % ChunkSz = 0
  <2>1. Chunks * ChunkSz \in Nat /\ (Chunks * ChunkSz) % ChunkSz = 0
    BY IsMultiple
  <2>2. 1 * ChunkSz <= Chunks * ChunkSz
    BY ProductGrows
  <2>3. QED BY <2>1, <2>2 DEF MaxMem
<1>3. MaxMem % LineSz = 0
  BY <1>1, <1>2, MultipleOfMultiple
<1>4. PICK k \in Nat : MaxMem = k * LineSz /\ MaxMem \div LineSz = k
  BY <1>2, <1>3, Multiple
<1>5. PICK j \in Nat : PageSz = j * LineSz /\ PageSz \div LineSz = j
  BY Multiple
<1>6. k # 0 /\ j # 0
  BY <1>2, <1>4, <1>5
<1>7. ArraySz = k /\ LinesInPage = j
  BY <1>4, <1>5 DEF ArraySz, LinesInPage
<1>8. k * j <= Word
  BY <1>4, <1>5 DEF MaxMem
<1>9. QED BY <1>1, <1>2, <1>3, <1>4, <1>5, <1>6, <1>7, <1>8

LEMMA RoundsUp ==
    ASSUME NEW n \in Nat
    PROVE  /\ RoundUp(n) \in Nat /\ n <= RoundUp(n) /\ RoundUp(n) % LineSz = 0
           /\ n = 0 => RoundUp(n) = 0
           /\ \A m \in Nat : n <= m /\ m % LineSz = 0 => RoundUp(n) <= m
<1> USE LatTestAssumption
<1>1. PICK k, r \in Nat : /\ n + LineSz - 1 = k * LineSz + r /\ r < LineSz
                         /\ (n + LineSz - 1) \div LineSz = k
  <2>1. n + LineSz - 1 \in Nat
    OBVIOUS
  <2>2. QED BY <2>1, Split
<1>2. RoundUp(n) = k * LineSz /\ k * LineSz \in Nat /\ (k * LineSz) % LineSz = 0
  BY <1>1, IsMultiple DEF RoundUp
<1>3. ASSUME NEW m \in Nat, n <= m, m % LineSz = 0 PROVE k * LineSz <= m
  <2>1. PICK j \in Nat : m = j * LineSz
    BY <1>3, Multiple
  <2>2. CASE k <= j
    BY <2>1, <2>2, ProductGrows
  <2>3. CASE j < k
    <3>1. j * LineSz + LineSz <= k * LineSz
      BY <2>3, NextMultiple
    <3>2. QED BY <3>1, <2>1, <1>1, <1>2, <1>3
  <2>4. QED BY <2>2, <2>3
<1>4. n = 0 => k * LineSz = 0
  <2>1. 0 % LineSz = 0
    BY DivModUnique
  <2>2. n = 0 => k * LineSz <= 0
    BY <1>3, <2>1
  <2>3. QED BY <2>2, <1>2
<1>5. n <= k * LineSz
  BY <1>1, <1>2
<1>6. QED BY <1>2, <1>3, <1>4, <1>5

-----------------------------------------------------------------------------
(* Units.                                                                  *)

\* Parameters both sides accepted.
Accepted(q) ==
    /\ q \in ParamBlock /\ q.win % LineSz = 0 /\ q.win <= MaxMem
    /\ q.sz + q.hoff < Word /\ (q.sz = 0 => q.hoff = 0) /\ Sane(q)

\* A unit holds its transaction; a page and the window hold a unit at least.
LEMMA Units ==
    ASSUME NEW q, Accepted(q)
    PROVE  /\ q.sz \in Nat /\ q.hoff \in Nat /\ q.win \in Words
           /\ UnitSz(q) \in 0 .. PageSz /\ UnitSz(q) \in Words
           /\ UnitSz(q) % LineSz = 0
           /\ q.sz + q.hoff <= UnitSz(q) /\ q.sz + q.hoff <= PageSz
           /\ UnitsInWin(q) \in Words \ {0}
           /\ UnitSz(q) = 0 => q.sz = 0 /\ q.hoff = 0 /\ UnitsInWin(q) = AllOnes
           /\ UnitSz(q) > 0 => q.sz > 0 /\ UnitsInWin(q) * UnitSz(q) <= q.win
<1> USE LatTestAssumption
<1> DEFINE n == q.sz + q.hoff
<1>1. /\ q.sz \in Nat /\ q.hoff \in Nat /\ q.win \in Words /\ q.win \in Nat
      /\ q.win <= AllOnes /\ n \in Nat /\ n < Word /\ Word \in Nat /\ Word > 1
  <2>1. Word \in Nat /\ Word > 1
    BY WordFacts
  <2>2. q.sz \in Words /\ q.hoff \in Words /\ q.win \in Words /\ q.sz + q.hoff < Word
    <3> HIDE LatTestAssumption
    <3>1. QED BY DEF Accepted, ParamBlock, Words, AllOnes
  <2> HIDE LatTestAssumption
  <2>3. QED BY <2>1, <2>2 DEF Words, AllOnes
<1>2. n % Word = n /\ n <= PageSz /\ n <= q.win
  <2>1. n % Word = n
    BY <1>1, Small
  <2>2. QED BY <2>1 DEF Accepted, Sane
<1> DEFINE u == RoundUp(n)
<1>3. u \in Nat /\ n <= u /\ u % LineSz = 0 /\ u <= PageSz /\ u <= q.win /\ (n = 0 => u = 0)
  BY <1>1, <1>2, RoundsUp DEF Accepted
<1>4. UnitSz(q) = u
  <2>1. u < Word
    BY <1>1, <1>3, WordFacts
  <2>2. u % Word = u
    BY <2>1, <1>1, <1>3, Small
  <2>3. QED BY <1>2, <2>2 DEF UnitSz
<1>5. u \in 0 .. PageSz /\ u \in Words
  BY <1>1, <1>3 DEF Words, AllOnes
<1> HIDE DEF u
<1>6. Div[q.win][u] = IF u = 0 THEN AllOnes ELSE q.win \div u
  BY <1>1, <1>5, DivisionExact DEF Exact
<1>7. CASE u = 0
  <2>1. q.sz = 0 /\ q.hoff = 0
    BY <1>1, <1>3, <1>7
  <2>2. UnitsInWin(q) = AllOnes /\ AllOnes \in Words \ {0}
    BY <1>1, <1>4, <1>6, <1>7 DEF UnitsInWin, Words, AllOnes
  <2>3. QED BY <1>1, <1>2, <1>3, <1>4, <1>5, <1>7, <2>1, <2>2
<1>8. CASE u > 0
  <2>1. PICK k, r \in Nat : /\ q.win = k * u + r /\ r < u /\ k * u \in Nat
                           /\ q.win \div u = k /\ q.win % u = r
    <3>1. q.win \in Nat /\ u \in Nat \ {0}
      BY <1>1, <1>3, <1>8
    <3>2. QED BY <3>1, Split, Zenon
  <2>2. UnitsInWin(q) = k
    BY <1>4, <1>6, <1>8, <2>1 DEF UnitsInWin
  <2>3. k # 0
    BY <2>1, <1>3
  <2>4. k \in Words
    <3>1. k * 1 <= k * u
      <4>1. 1 * k <= u * k
        BY <1>3, <1>8, ProductGrows
      <4>2. QED BY <4>1, <1>3
    <3>2. k <= AllOnes /\ AllOnes \in Nat
      BY <3>1, <2>1, <1>1 DEF AllOnes
    <3>3. QED BY <3>2 DEF Words
  <2>5. q.sz > 0
    BY <1>1, <1>3, <1>8 DEF Accepted
  <2>6. QED BY <1>1, <1>2, <1>3, <1>4, <1>5, <1>8, <2>1, <2>2, <2>3, <2>4, <2>5
<1>9. QED BY <1>3, <1>7, <1>8

\* Every draw gives a place of the window.
LEMMA Places ==
    ASSUME NEW q, Accepted(q), NEW t \in Words
    PROVE  /\ LinAddr(q, t) = (t % UnitsInWin(q)) * UnitSz(q) + q.hoff
           /\ LinAddr(q, t) \in 0 .. MaxMem-1
           /\ q.sz > 0 => LinAddr(q, t) + q.sz <= q.win
<1> DEFINE u == UnitSz(q)
           k == UnitsInWin(q)
           h == q.hoff
           z == q.sz
           w == q.win
<1>1. /\ z \in Nat /\ h \in Nat /\ u \in Nat /\ k \in Nat \ {0} /\ k \in Words /\ t \in Nat
      /\ w \in Nat /\ w <= MaxMem /\ z + h <= u /\ (u = 0 => h = 0) /\ (u > 0 => z > 0 /\ k * u <= w)
  BY Units DEF Words, Accepted
<1>2. LinAddr(q, t) = (t % k) * u + h
  BY <1>1, DivisionExact DEF Exact, LinAddr
<1>3. PICK j, r \in Nat : t = j * k + r /\ r < k /\ j * k \in Nat /\ t \div k = j /\ t % k = r
  BY <1>1, Split
<1>4. MaxMem \in Nat \ {0}
  BY Sizes
<1> HIDE DEF u, k, h, z, w
<1>5. r * u + u <= k * u /\ r * u \in Nat
  BY <1>1, <1>3, NextMultiple
<1>6. CASE u = 0
  <2>1. z = 0 /\ h = 0 /\ r * u = 0
    BY <1>1, <1>3, <1>6
  <2>2. LinAddr(q, t) = 0
    BY <1>2, <1>3, <2>1
  <2>3. 0 \in 0 .. MaxMem-1
    BY <1>4
  <2>4. QED BY <1>2, <2>1, <2>2, <2>3 DEF z, u, k, h
<1>7. CASE u > 0
  <2>1. r * u + h + z <= w /\ z > 0
    BY <1>1, <1>5, <1>7
  <2>2. r * u + h \in 0 .. MaxMem-1
    BY <2>1, <1>1, <1>4, <1>5
  <2>3. LinAddr(q, t) = r * u + h
    BY <1>2, <1>3
  <2>4. LinAddr(q, t) + q.sz <= q.win
    BY <2>1, <2>3 DEF z, w
  <2>5. QED BY <1>2, <2>2, <2>3, <2>4 DEF u, k, h
<1>8. QED BY <1>1, <1>6, <1>7 DEF u, k, h

-----------------------------------------------------------------------------
(* Chunks and BARs.                                                        *)

\* Bases the host accepted.
BasesOK(b) == b \in [0 .. Chunks-1 -> Nat] /\ HostChecksBases(b)

LEMMA InChunk ==
    ASSUME NEW b, BasesOK(b), NEW lin \in 0 .. MaxMem-1
    PROVE  /\ Located(b, lin).chunk \in 0 .. Chunks-1
           /\ Located(b, lin) \in [chunk : Nat, addr : Nat, lin : Nat]
           /\ Located(b, lin).lin = lin
           /\ Located(b, lin).addr = b[Located(b, lin).chunk] + (lin % ChunkSz)
           /\ lin % ChunkSz \in 0 .. ChunkSz-1
<1> USE LatTestAssumption
<1>1. MaxMem \in Nat \ {0} /\ MaxMem = Chunks * ChunkSz /\ lin \in Nat
  BY Sizes DEF MaxMem
<1>2. PICK q, r \in Nat : /\ lin = q * ChunkSz + r /\ r < ChunkSz /\ q * ChunkSz \in Nat
                         /\ lin \div ChunkSz = q /\ lin % ChunkSz = r
  BY <1>1, Split
<1>3. q < Chunks
  <2>1. CASE Chunks <= q
    <3>1. Chunks * ChunkSz <= q * ChunkSz
      BY <2>1, ProductGrows
    <3>2. QED BY <3>1, <1>1, <1>2
  <2>2. QED BY <2>1
<1>4. q \in 0 .. Chunks-1 /\ b[q] \in Nat
  BY <1>3 DEF BasesOK
<1>5. Located(b, lin) = [chunk |-> q, addr |-> b[q] + r, lin |-> lin]
  BY <1>2 DEF Located
<1>6. b[q] + r \in Nat
  BY <1>4
<1> DEFINE a == Located(b, lin)
<1>7. a.chunk = q /\ a.lin = lin /\ a.addr = b[q] + r /\ a \in [chunk : Nat, addr : Nat, lin : Nat]
  BY <1>1, <1>5, <1>6
<1> HIDE DEF a
<1>8. a.chunk \in 0 .. Chunks-1 /\ a.addr = b[a.chunk] + (lin % ChunkSz)
  BY <1>2, <1>4, <1>7
<1>9. lin % ChunkSz \in 0 .. ChunkSz-1
  BY <1>2
<1>10. QED BY <1>7, <1>8, <1>9 DEF a

\* A chunk is in one BAR.
LEMMA OneBar ==
    ASSUME NEW b, BasesOK(b), NEW c \in 0 .. Chunks-1, NEW n \in 0 .. ChunkSz-1
    PROVE  Through(BarOf(b[c]), b[c] + n) = b[c] + n /\ BarOf(b[c] + n) = BarOf(b[c])
           /\ BarOf(b[c]) \in Nat
<1> USE LatTestAssumption
<1>1. b[c] \in Nat /\ b[c] + n \in Nat /\ b[c] + ChunkSz - 1 \in Nat
  BY DEF BasesOK
<1>2. b[c] \div BarSz = (b[c] + ChunkSz - 1) \div BarSz
  BY DEF BasesOK, HostChecksBases
<1>3. PICK q, r \in Nat : /\ b[c] + n = q * BarSz + r /\ r < BarSz /\ q * BarSz \in Nat
                         /\ (b[c] + n) \div BarSz = q /\ (b[c] + n) % BarSz = r
  BY <1>1, Split
<1>4. b[c] \div BarSz <= q /\ q <= (b[c] + ChunkSz - 1) \div BarSz
  <2>1. b[c] <= b[c] + n /\ b[c] + n <= b[c] + ChunkSz - 1
    BY <1>1
  <2>2. b[c] \div BarSz <= (b[c] + n) \div BarSz
    BY <1>1, <2>1, DivMonotone
  <2>3. (b[c] + n) \div BarSz <= (b[c] + ChunkSz - 1) \div BarSz
    BY <1>1, <2>1, DivMonotone
  <2>4. QED BY <2>2, <2>3, <1>3
<1>5. \E j \in Nat : b[c] \div BarSz = j
  BY <1>1, Split
<1>6. b[c] \div BarSz = q
  BY <1>2, <1>4, <1>5
<1>7. QED BY <1>3, <1>6 DEF Through, BarOf

-----------------------------------------------------------------------------
(* The order of the units.                                                 *)

\* The unit a draw stands for, and the draws that stand for the same one.
LEMMA UnitOf ==
    ASSUME NEW q, Accepted(q), UnitSz(q) > 0, NEW t \in Words
    PROVE  /\ t % UnitsInWin(q) \in 0 .. UnitsInWin(q)-1 /\ t % UnitsInWin(q) \in Words
           /\ LinAddr(q, t) = LinAddr(q, t % UnitsInWin(q))
           /\ LinAddr(q, t) \div UnitSz(q) = t % UnitsInWin(q)
<1> DEFINE u == UnitSz(q)
           k == UnitsInWin(q)
           h == q.hoff
<1>1. /\ h \in Nat /\ u \in Nat \ {0} /\ k \in Nat \ {0} /\ k <= AllOnes /\ AllOnes \in Nat
      /\ t \in Nat /\ h < u
  BY Units, WordFacts DEF Words, AllOnes
<1>2. PICK j, r \in Nat : t = j * k + r /\ r < k /\ j * k \in Nat /\ t \div k = j /\ t % k = r
  BY <1>1, Split
<1> HIDE DEF u, k, h
<1>3. r \in Words /\ r % k = r
  <2>1. r % k = r
    BY <1>1, <1>2, Small
  <2>2. r \in 0 .. AllOnes
    BY <1>1, <1>2
  <2>3. QED BY <2>1, <2>2 DEF Words
<1>4. LinAddr(q, t) = r * u + h /\ LinAddr(q, r) = r * u + h
  BY <1>2, <1>3, Places DEF u, k, h
<1>5. (r * u + h) \div u = r
  BY <1>1, DivModUnique
<1>6. r \in 0 .. k-1
  BY <1>1, <1>2
<1>7. QED BY <1>2, <1>3, <1>4, <1>5, <1>6 DEF u, k

\* A draw of a multiple of LinesInPage fits, and so does the first of every turn:
\* of LinesInPage draws one fits.
LEMMA SoonOneFits ==
    ASSUME NEW q, Accepted(q), UnitSz(q) > 0, NEW t \in Nat,
           t + LinesInPage - 1 <= AllOnes
    PROVE  \E v \in t .. t + LinesInPage - 1 : FitsPage(q, LinAddr(q, v))
<1> DEFINE u == UnitSz(q)
           k == UnitsInWin(q)
           h == q.hoff
           z == q.sz
           N == LinesInPage
<1>1. /\ h \in Nat /\ z \in Nat /\ u \in Nat \ {0} /\ k \in Nat \ {0} /\ z > 0
      /\ z + h <= PageSz /\ u % LineSz = 0 /\ N \in Nat \ {0} /\ N * LineSz = PageSz
      /\ AllOnes \in Nat
  BY Units, Sizes, WordFacts DEF Words, AllOnes
<1> USE LatTestAssumption
<1> HIDE DEF u, k, h, z, N
<1>2. PICK e \in Nat : u = e * LineSz
  <2>1. u \in Nat /\ LineSz \in Nat \ {0} /\ u % LineSz = 0
    BY <1>1
  <2> HIDE LatTestAssumption
  <2>2. QED BY <2>1, Multiple
<1>3. PICK j, r \in Nat : t = j * k + r /\ r < k /\ j * k \in Nat /\ t \div k = j /\ t % k = r
  BY <1>1, Split
<1>4. PICK c \in Nat : c * N \in Nat /\ r <= c * N /\ c * N <= r + N - 1
  BY <1>1, Ceiling
<1>5. ASSUME NEW v \in t .. t + N - 1, NEW m \in Nat, v % k = m * N
      PROVE  FitsPage(q, LinAddr(q, v))
  <2>1. v \in Words
    BY <1>1 DEF Words, N
  <2>2. LinAddr(q, v) = (m * N) * u + h
    BY <2>1, <1>5, Places DEF u, k, h
  <2>3. (m * N) * u = (m * e) * PageSz /\ m * e \in Nat
    <3>1. (m * N) * (e * LineSz) = (m * e) * (N * LineSz)
      BY <1>1
    <3>2. QED BY <3>1, <1>1, <1>2
  <2>4. LinAddr(q, v) % PageSz = h
    <3>1. h < PageSz
      BY <1>1
    <3> HIDE LatTestAssumption
    <3>2. PageSz \in Nat \ {0}
      BY LatTestAssumption
    <3>3. \A g \in Nat : (g * PageSz + h) % PageSz = h
      BY <3>1, <3>2, <1>1, DivModUnique
    <3>4. QED BY <3>3, <2>2, <2>3
  <2>5. QED BY <2>4, <1>1 DEF FitsPage, h, z
<1>6. CASE c * N < k
  <2> DEFINE v == j * k + c * N
  <2>1. v \in t .. t + N - 1
    BY <1>1, <1>3, <1>4
  <2>2. v % k = c * N
    <3>1. PICK m \in Nat : m = c * N
      BY <1>4
    <3>2. (j * k + m) % k = m
      <4>1. k \in Nat \ {0} /\ j \in Nat /\ m < k
        BY <3>1, <1>1, <1>6
      <4>2. QED BY <4>1, DivModUnique, Zenon
    <3>3. QED BY <3>1, <3>2
  <2> HIDE DEF v
  <2>3. QED BY <2>1, <2>2, <1>5 DEF N
<1>7. CASE k <= c * N
  <2> DEFINE v == (j + 1) * k
  <2>1. v = j * k + k
    BY <1>1
  <2>2. v \in t .. t + N - 1
    BY <2>1, <1>1, <1>3, <1>4, <1>7
  <2>3. v % k = 0 * N
    BY <1>1, IsMultiple
  <2> HIDE DEF v
  <2>4. QED BY <2>2, <2>3, <1>5 DEF N
<1>8. QED BY <1>1, <1>4, <1>6, <1>7

\* Between two draws every unit between theirs has been drawn.
LEMMA NoneLost ==
    ASSUME NEW k \in Nat \ {0}, NEW s \in Nat, NEW t \in Nat, s < t,
           NEW w \in 0 .. k-1, \A v \in s+1 .. t-1 : v % k # w
    PROVE  ~Between(s % k, w, t % k)
<1> SUFFICES ASSUME Between(s % k, w, t % k) PROVE \E v \in s+1 .. t-1 : v % k = w
  OBVIOUS
<1>1. PICK i, a \in Nat : s = i * k + a /\ a < k /\ i * k \in Nat /\ s \div k = i /\ s % k = a
  BY Split
<1>2. PICK j, b \in Nat : t = j * k + b /\ b < k /\ j * k \in Nat /\ t \div k = j /\ t % k = b
  BY Split
<1>3. i <= j
  <2>1. CASE j < i
    <3>1. j * k + k <= i * k
      BY <2>1, NextMultiple
    <3>2. QED BY <3>1, <1>1, <1>2
  <2>2. QED BY <2>1
<1>4. i < j => i * k + k <= j * k
  BY NextMultiple
<1>5. (i * k + w) % k = w /\ ((i + 1) * k + w) % k = w
  <2>1. w \in Nat /\ w < k /\ i + 1 \in Nat
    OBVIOUS
  <2>2. QED BY <2>1, DivModUnique
<1>6. (i + 1) * k = i * k + k
  OBVIOUS
<1>7. CASE a < b
  <2>1. i * k + w \in s+1 .. t-1
    <3>1. CASE i = j
      BY <3>1, <1>1, <1>2, <1>7 DEF Between
    <3>2. CASE i < j
      BY <3>2, <1>1, <1>2, <1>4, <1>7 DEF Between
    <3>3. QED BY <3>1, <3>2, <1>3
  <2>2. QED BY <2>1, <1>5
<1>8. CASE b <= a
  <2>1. i < j
    BY <1>1, <1>2, <1>3, <1>8
  <2>2. CASE a < w
    <3>1. i * k + w \in s+1 .. t-1
      BY <2>1, <2>2, <1>1, <1>2, <1>4
    <3>2. QED BY <3>1, <1>5
  <2>3. CASE w < b
    <3>1. (i + 1) * k + w \in s+1 .. t-1
      BY <2>1, <2>3, <1>1, <1>2, <1>4, <1>6
    <3>2. QED BY <3>1, <1>5
  <2>4. QED BY <2>2, <2>3, <1>1, <1>2, <1>8 DEF Between
<1>9. QED BY <1>7, <1>8

LEMMA NextUnit ==
    ASSUME NEW q, Accepted(q), UnitSz(q) > 0, NEW s \in Nat, NEW t \in Words, s < t,
           \A v \in s+1 .. t-1 : ~FitsPage(q, LinAddr(q, v)),
           NEW w \in 0 .. UnitsInWin(q)-1, FitsPage(q, LinAddr(q, w))
    PROVE  ~Between(s % UnitsInWin(q), w, t % UnitsInWin(q))
<1> DEFINE k == UnitsInWin(q)
<1>1. k \in Words \ {0} /\ AllOnes \in Nat
  BY Units, WordFacts DEF AllOnes
<1> HIDE DEF k
<1>2. k \in Nat \ {0} /\ t \in Nat /\ w \in 0 .. k-1
  BY <1>1 DEF Words, k
<1>3. ASSUME NEW v \in s+1 .. t-1 PROVE v % k # w
  <2>1. v \in Words
    BY <1>1, <1>2 DEF Words
  <2>2. v % k = w => LinAddr(q, v) = LinAddr(q, w)
    BY <2>1, UnitOf DEF k
  <2>3. QED BY <2>2
<1>4. ~Between(s % k, w, t % k)
  BY <1>2, <1>3, NoneLost
<1>5. QED BY <1>4 DEF k

-----------------------------------------------------------------------------
(* The inductive invariant.                                                *)

LEMMA Context ==
    ASSUME LatInv
    PROVE  /\ BasesOK(bases) /\ p \in ParamBlock
           /\ pc \notin {"check", "done"} => Accepted(p)
<1> USE LatTestAssumption DEF LatInv, Checked
<1>1. BasesOK(bases) /\ p \in ParamBlock
  BY DEF BasesOK
<1>2. pc \notin {"check", "done"} => Accepted(p)
  BY <1>1 DEF Accepted, HostChecksParams
<1>3. QED BY <1>1, <1>2

LEMMA DrawsAreWords ==
    ASSUME LatInv, pc \notin {"check", "done"}, NEW t \in Draws
    PROVE  t \in Words
<1>1. Accepted(p)
  BY Context
<1>2. CASE p.random
  <2>1. t \in 0 .. UnitsInWin(p)-1 /\ UnitsInWin(p) \in 0 .. AllOnes
    BY <1>1, <1>2, Units DEF Draws, Words
  <2> AllOnes \in Nat
    BY WordFacts DEF AllOnes
  <2>2. t \in 0 .. AllOnes
    BY <2>1
  <2>3. QED BY <2>2 DEF Words
<1>3. CASE ~p.random
  <2>1. t = (idx + add) % Word /\ idx + add \in Nat
    BY <1>3 DEF Draws, LatInv, TypeOK
  <2>2. (idx + add) % Word \in 0 .. Word-1
    BY <2>1, WordFacts, Split
  <2>3. Word-1 = AllOnes
    BY DEF AllOnes
  <2>4. QED BY <2>1, <2>2, <2>3 DEF Words
<1>4. QED BY <1>2, <1>3

\* The size of what write_region writes: whole lines.
LEMMA Region ==
    ASSUME LatInv, pc \in {"thrash", "warm"}
    PROVE  /\ RegionSz \in 0 .. MaxMem /\ RegionSz % LineSz = 0
           /\ RegionSz \div LineSz \in 0 .. ArraySz
           /\ RegionSz = (RegionSz \div LineSz) * LineSz
<1> USE LatTestAssumption
<1>1. Accepted(p) /\ MaxMem \in Nat /\ MaxMem % LineSz = 0
  BY Context, Sizes
<1>2. RegionSz \in Nat /\ RegionSz <= MaxMem /\ RegionSz % LineSz = 0
  BY <1>1 DEF RegionSz, Accepted, ParamBlock
<1>3. RegionSz \div LineSz \in Nat /\ RegionSz = (RegionSz \div LineSz) * LineSz
  BY <1>2, Multiple
<1>4. RegionSz \div LineSz <= MaxMem \div LineSz
  BY <1>1, <1>2, DivMonotone
<1>5. MaxMem \div LineSz = ArraySz /\ ArraySz \in Nat
  BY Sizes DEF ArraySz
<1>6. QED BY <1>2, <1>3, <1>4, <1>5

\* A transaction's place, as FillStore stores it.
LEMMA Stored ==
    ASSUME LatInv, pc \notin {"check", "done"}, NEW t \in Words, FitsPage(p, LinAddr(p, t))
    PROVE  LET a == Located(bases, LinAddr(p, t))
           IN  /\ Entry(a) /\ a.lin = LinAddr(p, t) /\ a # NoAddr
               /\ a \in [chunk : Nat, addr : Nat, lin : Nat]
<1> DEFINE l == LinAddr(p, t)
           a == Located(bases, l)
<1>1. Accepted(p) /\ BasesOK(bases)
  BY Context
<1>2. l \in 0 .. MaxMem-1 /\ (p.sz > 0 => l + p.sz <= p.win)
  BY <1>1, Places
<1> HIDE DEF l
<1>3. a.lin = l /\ a \in [chunk : Nat, addr : Nat, lin : Nat]
  BY <1>1, <1>2, InChunk
<1>4. a # NoAddr
  <2>1. NoAddr.chunk = -1 /\ a.chunk \in Nat
    BY <1>3 DEF NoAddr
  <2>2. QED BY <2>1
<1>5. Entry(a)
  BY <1>2, <1>3 DEF Entry, Placed, l
<1>6. QED BY <1>3, <1>4, <1>5 DEF l

\* What is true of an address that is used next.
LEMMA NextAddress ==
    ASSUME LatInv, NEW a, Placed(a)
    PROVE  /\ a.chunk \in 0 .. Chunks-1 /\ BarOf(a.addr) = BarOf(bases[a.chunk])
           /\ BarOf(a.addr) \in Nat
<1>1. BasesOK(bases)
  BY Context
<1>2. a = Located(bases, a.lin) /\ a.lin \in 0 .. MaxMem-1
  BY DEF Placed
<1>3. /\ a.chunk \in 0 .. Chunks-1 /\ a.addr = bases[a.chunk] + (a.lin % ChunkSz)
      /\ a.lin % ChunkSz \in 0 .. ChunkSz-1
  BY <1>1, <1>2, InChunk
<1>4. QED BY <1>1, <1>3, OneBar

\* What write_region draws next is a line of the region.
LEMMA Lines ==
    ASSUME LatInv, pc \in {"thrash", "warm"}, wr > 0, NEW t \in Nat
    PROVE  LET a == Located(bases, (t * LineSz) % RegionSz)
           IN  Placed(a) /\ a.lin % LineSz = 0
<1> USE LatTestAssumption
<1> DEFINE j == RegionSz \div LineSz
           l == (t * LineSz) % RegionSz
<1>1. j \in Nat /\ RegionSz = j * LineSz /\ RegionSz \in 0 .. MaxMem /\ MaxMem \in Nat
  BY Region, Sizes
<1>2. j # 0
  <2>1. wr <= 2 * j
    BY DEF LatInv, InRegion
  <2>2. wr \in -1 .. 2 * ArraySz /\ ArraySz \in Nat
    BY Sizes DEF LatInv, TypeOK
  <2> HIDE DEF j
  <2>3. QED BY <1>1, <2>1, <2>2
<1> HIDE DEF j
<1>3. l \in 0 .. RegionSz-1 /\ l % LineSz = 0
  <2>1. (t * LineSz) % (j * LineSz) \in 0 .. (j * LineSz)-1
        /\ ((t * LineSz) % (j * LineSz)) % LineSz = 0
    BY <1>1, <1>2, ScaledMod
  <2>2. QED BY <2>1, <1>1
<1>4. l \in 0 .. MaxMem-1
  BY <1>1, <1>3
<1> HIDE DEF l
<1>5. Located(bases, l).lin = l
  BY <1>4, Context, InChunk
<1>6. QED BY <1>3, <1>4, <1>5 DEF Placed, l

LEMMA FirstLine ==
    ASSUME LatInv
    PROVE  Placed(Located(bases, 0)) /\ Located(bases, 0).lin = 0
           /\ Located(bases, 0).chunk = 0 /\ 0 % LineSz = 0
<1> USE LatTestAssumption
<1>1. 0 \in 0 .. MaxMem-1
  BY Sizes
<1>2. Located(bases, 0).lin = 0
  BY <1>1, Context, InChunk
<1>3. 0 \div ChunkSz = 0 /\ 0 % LineSz = 0
  BY Small
<1>4. Located(bases, 0).chunk = 0
  BY <1>3 DEF Located
<1>5. QED BY <1>1, <1>2, <1>3, <1>4 DEF Placed

\* The array is full when it is used.
LEMMA FromArray ==
    ASSUME LatInv, pc \in {"first", "loop"}, NEW i \in Nat
    PROVE  Entry(FromIdx(i)) /\ Placed(FromIdx(i))
<1>1. ArraySz \in Nat \ {0} /\ idx = ArraySz
  BY Sizes DEF LatInv, Filled
<1>2. i % ArraySz \in 0 .. ArraySz-1
  BY <1>1, Split
<1>3. Entry(arr[i % ArraySz])
  BY <1>1, <1>2 DEF LatInv, Filled
<1>4. QED BY <1>3 DEF FromIdx, Entry

-----------------------------------------------------------------------------
(* It holds at first.                                                      *)

LEMMA MaxTransType == ASSUME NEW q PROVE MaxTrans(q) \in Nat \ {0}
<1>1. QED BY LatTestAssumption DEF MaxTrans

LEMMA InitHolds == Init => LatInv
<1> SUFFICES ASSUME Init PROVE LatInv
  OBVIOUS
<1> USE LatTestAssumption DEF Init
<1>1. ArraySz \in Nat \ {0} /\ LinesInPage \in Nat \ {0}
  BY Sizes
<1>2. TypeOK
  BY <1>1, MaxTransType DEF TypeOK
<1>3. Checked
  BY DEF Checked
<1>4. Filled
  BY <1>1 DEF Filled
<1>5. InRegion /\ InLoop
  BY DEF InRegion, InLoop
<1>6. InOrder
  <2>1. LastDraw(-1) /\ -1 \in -1 .. idx+add-1
    BY <1>1 DEF LastDraw
  <2>2. QED BY <2>1 DEF InOrder
<1>7. CyclesInOrder
  BY DEF CyclesInOrder
<1>8. Swept /\ Performed
  BY <1>1 DEF Swept, Performed
<1>9. QED BY <1>2, <1>3, <1>4, <1>5, <1>6, <1>7, <1>8 DEF LatInv

-----------------------------------------------------------------------------
(* Every step preserves it.                                                *)

LEMMA Stays == [Next]_vars => test' = test /\ p' = p /\ bases' = bases
<1>1. QED BY DEF Next, vars, chosen, Check, FillSkip, FillStore, FillDone, RegionStart,
                 RegionWrite, RegionDone, First, Transaction, Finish

LEMMA CheckedStep == LatInv /\ [Next]_vars => Checked'
<1> SUFFICES ASSUME LatInv, [Next]_vars PROVE Checked'
  OBVIOUS
<1>1. test' = test /\ p' = p /\ bases' = bases
  BY Stays
<1>2. pc' \notin {"check", "done"} => Sane(p)
  BY DEF LatInv, Checked, Next, vars, Check, FillSkip, FillStore, FillDone, RegionStart,
         RegionWrite, RegionDone, First, Transaction, Finish
<1>3. QED BY <1>1, <1>2 DEF LatInv, Checked

LEMMA TypeStep == LatInv /\ [Next]_vars => TypeOK'
<1> SUFFICES ASSUME LatInv, [Next]_vars PROVE TypeOK'
  OBVIOUS
<1> USE DEF chosen, fillVars
<1>1. TypeOK /\ p' = p /\ bases' = bases /\ ArraySz \in Nat \ {0} /\ Chunks \in Nat \ {0}
  BY Stays, Sizes, LatTestAssumption DEF LatInv
<1>2. MaxTrans(p) \in Nat /\ MaxTrans(p') = MaxTrans(p)
  BY <1>1, MaxTransType
<1>3. CASE Check
  BY <1>1, <1>2, <1>3 DEF Check, TypeOK
<1>4. CASE FillSkip
  <2>1. (add + 1) % Word \in Nat
    BY <1>1, WordFacts, Split DEF TypeOK
  <2>2. add' \in Nat
    BY <1>1, <1>4, <2>1 DEF FillSkip, TypeOK
  <2>3. QED BY <1>1, <1>2, <1>4, <2>2 DEF FillSkip, TypeOK
<1>5. CASE FillStore
  <2>1. PICK t \in Draws : FitsPage(p, LinAddr(p, t))
                          /\ arr' = [arr EXCEPT ![idx] = Located(bases, LinAddr(p, t))]
    BY <1>5 DEF FillStore
  <2>2. t \in Words /\ pc = "fill" /\ idx < ArraySz
    BY <1>5, DrawsAreWords DEF FillStore
  <2> DEFINE a == Located(bases, LinAddr(p, t))
  <2>3. a # NoAddr
    BY <2>1, <2>2, Stored
  <2> HIDE DEF a
  <2>4. arr' = [arr EXCEPT ![idx] = a] /\ idx' = idx + 1
    BY <1>5, <2>1 DEF FillStore, a
  <2>5. \A i \in 0 .. ArraySz-1 : arr'[i] = NoAddr <=> i >= idx'
    BY <1>1, <2>2, <2>3, <2>4 DEF LatInv, Filled, TypeOK
  <2>6. idx' \in 0 .. ArraySz
    BY <1>1, <2>2, <2>4 DEF TypeOK
  <2>7. QED BY <1>1, <1>2, <1>5, <2>5, <2>6 DEF FillStore, TypeOK
<1>6. CASE FillDone
  BY <1>1, <1>2, <1>6 DEF FillDone, TypeOK
<1>7. CASE RegionStart
  <2>1. RegionSz \div LineSz \in 0 .. ArraySz
    BY <1>7, Region DEF RegionStart
  <2>2. wr' \in -1 .. 2 * ArraySz
    BY <1>1, <1>7, <2>1 DEF RegionStart
  <2>3. bar' \in Nat
    <3>1. 0 \in 0 .. Chunks-1 /\ 0 \in 0 .. ChunkSz-1
      BY LatTestAssumption
    <3>2. BarOf(bases[0]) \in Nat
      BY <3>1, Context, OneBar
    <3>3. QED BY <3>2, <1>7 DEF RegionStart
  <2>4. QED BY <1>1, <1>2, <1>7, <2>2, <2>3 DEF RegionStart, TypeOK
<1>8. CASE RegionWrite
  <2>1. wr \in Nat /\ wr > 0 /\ wr' = wr - 1 /\ pc \in {"thrash", "warm"}
    BY <1>1, <1>8 DEF RegionWrite, TypeOK
  <2>2. wr' \in -1 .. 2 * ArraySz
    BY <1>1, <2>1 DEF TypeOK
  <2>3. old' \in 0 .. Chunks-1 /\ bar' \in Nat \cup {-1}
    <3>1. PICK t \in Nat : LET a == Located(bases, (t * LineSz) % RegionSz)
                           IN  old' = a.chunk /\ bar' = NextBar(a)
      <4>1. RegionSz \div LineSz \in Nat /\ wr <= 2 * (RegionSz \div LineSz)
        BY <2>1, Region, Sizes DEF LatInv, InRegion
      <4>2. 2 * (RegionSz \div LineSz) - wr + 1 \in Nat
        BY <2>1, <4>1
      <4>3. QED BY <1>8, <4>2 DEF RegionWrite
    <3> DEFINE a == Located(bases, (t * LineSz) % RegionSz)
    <3>2. Placed(a)
      BY <2>1, Lines
    <3> HIDE DEF a
    <3>3. a.chunk \in 0 .. Chunks-1 /\ BarOf(a.addr) \in Nat
      BY <3>2, NextAddress
    <3>4. old' = a.chunk /\ bar' = NextBar(a)
      BY <3>1 DEF a
    <3>5. QED BY <1>1, <3>3, <3>4 DEF NextBar, TypeOK
  <2>4. QED BY <1>1, <1>2, <1>8, <2>2, <2>3 DEF RegionWrite, TypeOK
<1>9. CASE RegionDone
  BY <1>1, <1>2, <1>9 DEF RegionDone, TypeOK
<1>10. CASE First
  <2>1. Placed(FromIdx(0))
    BY <1>10, FromArray DEF First
  <2>2. FromIdx(0).chunk \in 0 .. Chunks-1 /\ BarOf(FromIdx(0).addr) \in Nat
    BY <2>1, NextAddress
  <2>3. old' \in 0 .. Chunks-1 /\ bar' \in Nat \cup {-1}
    BY <1>1, <1>10, <2>2 DEF First, TypeOK
  <2>4. QED BY <1>1, <1>2, <1>10, <2>3 DEF First, TypeOK
<1>11. CASE Transaction
  <2>1. trans \in Nat /\ pc = "loop"
    BY <1>1, <1>2, <1>11 DEF Transaction, TypeOK
  <2>2. Placed(FromIdx(trans))
    BY <2>1, FromArray
  <2>3. FromIdx(trans).chunk \in 0 .. Chunks-1 /\ BarOf(FromIdx(trans).addr) \in Nat
    BY <2>2, NextAddress
  <2>4. old' \in 0 .. Chunks-1 /\ bar' \in Nat \cup {-1}
    BY <1>1, <1>11, <2>3 DEF Transaction, NextBar, TypeOK
  <2>5. trans' \in 0 .. MaxTrans(p) /\ journal' = trans'
    BY <1>1, <1>2, <1>11 DEF Transaction, More, TypeOK
  <2>6. QED BY <1>1, <1>2, <1>11, <2>4, <2>5 DEF Transaction, TypeOK
<1>12. CASE Finish
  BY <1>1, <1>2, <1>12 DEF Finish, TypeOK
<1>13. CASE UNCHANGED vars
  BY <1>1, <1>2, <1>13 DEF vars, TypeOK
<1>14. QED BY <1>3, <1>4, <1>5, <1>6, <1>7, <1>8, <1>9, <1>10, <1>11, <1>12, <1>13 DEF Next

\* The actions that leave the array alone.
Others == \/ Check \/ FillSkip \/ FillDone \/ RegionStart \/ RegionWrite \/ RegionDone
          \/ First \/ Transaction \/ Finish

LEMMA FilledStep == LatInv /\ [Next]_vars => Filled'
<1> SUFFICES ASSUME LatInv, [Next]_vars PROVE Filled'
  OBVIOUS
<1>1. Filled /\ p' = p /\ bases' = bases /\ idx \in 0 .. ArraySz /\ ArraySz \in Nat
  BY Stays, Sizes DEF LatInv, TypeOK
<1>2. \A a : Entry(a)' <=> Entry(a)
  BY <1>1 DEF Entry, Placed
<1>3. CASE FillStore
  <2>1. PICK t \in Draws : FitsPage(p, LinAddr(p, t))
                          /\ arr' = [arr EXCEPT ![idx] = Located(bases, LinAddr(p, t))]
    BY <1>3 DEF FillStore
  <2>2. t \in Words /\ pc = "fill" /\ pc' = pc /\ idx < ArraySz /\ idx' = idx + 1
    BY <1>3, DrawsAreWords DEF FillStore
  <2> DEFINE a == Located(bases, LinAddr(p, t))
  <2>3. Entry(a) /\ a \in [chunk : Nat, addr : Nat, lin : Nat]
    BY <2>1, <2>2, Stored
  <2>4. arr' = [arr EXCEPT ![idx] = a]
    BY <2>1
  <2> HIDE DEF a
  <2>5. arr' \in [0 .. ArraySz-1 -> {NoAddr} \cup [chunk : Nat, addr : Nat, lin : Nat]]
    BY <1>1, <2>3, <2>4 DEF Filled
  <2>6. \A i \in 0 .. idx'-1 : Entry(arr'[i])
    <3>1. \A i \in 0 .. idx : arr'[i] = IF i = idx THEN a ELSE arr[i]
      BY <1>1, <2>2, <2>4 DEF Filled
    <3>2. \A i \in 0 .. idx-1 : Entry(arr[i])
      BY <1>1 DEF Filled
    <3>3. QED BY <1>1, <2>2, <2>3, <3>1, <3>2
  <2>7. QED BY <1>2, <2>2, <2>5, <2>6 DEF Filled
<1>4. CASE Others \/ UNCHANGED vars
  <2>1. arr' = arr /\ idx' = idx
    BY <1>4 DEF Others, vars, fillVars, Check, FillSkip, FillDone, RegionStart,
                RegionWrite, RegionDone, First, Transaction, Finish
  <2>2. /\ pc' = "check" => pc = "check"
        /\ pc' \in {"thrash", "warm", "first", "loop"} =>
               pc \in {"thrash", "warm", "first", "loop"} \/ idx = ArraySz
    BY <1>1, <1>4 DEF Others, vars, Check, FillSkip, FillDone, RegionStart,
                      RegionWrite, RegionDone, First, Transaction, Finish
  <2>3. QED BY <1>1, <1>2, <2>1, <2>2 DEF Filled
<1>5. QED BY <1>3, <1>4 DEF Next, Others

LEMMA RegionStep == LatInv /\ [Next]_vars => InRegion'
<1> SUFFICES ASSUME LatInv, [Next]_vars PROVE InRegion'
  OBVIOUS
<1>1. InRegion /\ p' = p /\ bases' = bases
  BY Stays DEF LatInv
<1>2. wr \in -1 .. 2 * ArraySz /\ ArraySz \in Nat
  BY Sizes DEF LatInv, TypeOK
<1>3. pc' = pc => RegionSz' = RegionSz
  BY <1>1 DEF RegionSz
<1>4. ASSUME pc' \in {"thrash", "warm"}, wr' = -1 PROVE InRegion'
  <2>1. RegionSz' \in Nat
    <3>1. p.win \in Nat /\ MaxMem \in Nat
      BY Context, Sizes DEF ParamBlock
    <3>2. QED BY <1>1, <3>1 DEF RegionSz
  <2>2. RegionSz' \div LineSz \in Nat
    BY <2>1, Split, LatTestAssumption
  <2>3. QED BY <1>4, <2>2 DEF InRegion
<1>5. CASE RegionStart
  <2>1. Placed(Located(bases, 0)) /\ Located(bases, 0).lin = 0
        /\ Located(bases, 0).chunk = 0 /\ 0 % LineSz = 0
    BY FirstLine
  <2> DEFINE a == Located(bases, 0)
  <2>2. cur' = a /\ old' = 0 /\ bar' = BarOf(bases[0])
        /\ wr' = 2 * (RegionSz \div LineSz) /\ pc' = pc /\ pc \in {"thrash", "warm"}
    BY <1>5 DEF RegionStart
  <2>3. RegionSz \div LineSz \in Nat
    BY <2>2, Region, Sizes
  <2> HIDE DEF a
  <2>4. Placed(a)' <=> Placed(a)
    BY <1>1 DEF Placed, a
  <2>5. Mapped' /\ cur'.lin % LineSz = 0
    BY <1>1, <2>1, <2>2, <2>4 DEF Mapped, Placed, a
  <2>6. wr' <= 2 * (RegionSz' \div LineSz)
    BY <1>3, <2>2, <2>3
  <2>7. QED BY <2>2, <2>5, <2>6 DEF InRegion
<1>6. CASE RegionWrite
  <2>1. wr \in Nat /\ wr > 0 /\ wr' = wr - 1 /\ pc \in {"thrash", "warm"} /\ pc' = pc
    BY <1>2, <1>6 DEF RegionWrite
  <2>2. RegionSz \div LineSz \in Nat /\ wr <= 2 * (RegionSz \div LineSz)
    BY <1>1, <2>1, Region, Sizes DEF InRegion
  <2>3. PICK t \in Nat : LET a == Located(bases, (t * LineSz) % RegionSz)
                         IN  cur' = a /\ old' = a.chunk /\ bar' = NextBar(a)
    <3>1. 2 * (RegionSz \div LineSz) - wr + 1 \in Nat
      BY <2>1, <2>2
    <3>2. QED BY <1>6, <3>1 DEF RegionWrite
  <2> DEFINE a == Located(bases, (t * LineSz) % RegionSz)
  <2>4. Placed(a) /\ a.lin % LineSz = 0
    BY <2>1, Lines
  <2>5. cur' = a /\ old' = a.chunk /\ bar' = NextBar(a)
    BY <2>3
  <2> HIDE DEF a
  <2>6. BarOf(a.addr) = BarOf(bases[a.chunk])
    BY <2>4, NextAddress
  <2>7. bar = BarOf(bases[old])
    BY <1>1, <2>1 DEF InRegion, Mapped
  <2>8. Mapped'
    BY <1>1, <2>4, <2>5, <2>6, <2>7 DEF Mapped, NextBar, Placed
  <2>9. wr' <= 2 * (RegionSz' \div LineSz)
    BY <1>3, <2>1, <2>2
  <2>10. QED BY <2>1, <2>4, <2>5, <2>8, <2>9 DEF InRegion
<1>7. CASE RegionDone \/ FillDone
  <2>1. wr' = -1
    BY <1>1, <1>7 DEF RegionDone, FillDone, InRegion
  <2>2. CASE pc' \in {"thrash", "warm"}
    BY <1>4, <2>1, <2>2
  <2>3. CASE pc' \notin {"thrash", "warm"}
    BY <2>1, <2>3 DEF InRegion
  <2>4. QED BY <2>2, <2>3
<1>8. CASE Check \/ FillSkip \/ FillStore \/ First \/ Transaction \/ Finish
  <2>1. wr' = wr /\ pc \notin {"thrash", "warm"} /\ pc' \notin {"thrash", "warm"}
    BY <1>8 DEF Check, FillSkip, FillStore, First, Transaction, Finish
  <2>2. QED BY <1>1, <2>1 DEF InRegion
<1>9. CASE UNCHANGED vars
  <2>1. pc' = pc /\ wr' = wr /\ cur' = cur /\ old' = old /\ bar' = bar
    BY <1>9 DEF vars
  <2>2. Mapped' <=> Mapped
    BY <1>1, <2>1 DEF Mapped, Placed
  <2>3. QED BY <1>1, <1>3, <2>1, <2>2 DEF InRegion
<1>10. QED BY <1>5, <1>6, <1>7, <1>8, <1>9 DEF Next

LEMMA LoopStep == LatInv /\ [Next]_vars => InLoop'
<1> SUFFICES ASSUME LatInv, [Next]_vars, pc' = "loop"
             PROVE  Entry(cur)' /\ (IsCmd(test)' => Mapped')
  BY DEF InLoop
<1>1. InLoop /\ p' = p /\ bases' = bases /\ test' = test
  BY Stays DEF LatInv
<1>2. \A a : Entry(a)' <=> Entry(a)
  BY <1>1 DEF Entry, Placed
<1>3. IsCmd(test') <=> IsCmd(test)
  BY <1>1
<1>4. CASE First
  <2> DEFINE a == FromIdx(0)
  <2>1. Entry(a) /\ Placed(a)
    BY <1>4, FromArray DEF First
  <2>2. cur' = a /\ (IsCmd(test) => old' = a.chunk /\ bar' = BarOf(a.addr))
    BY <1>4 DEF First
  <2> HIDE DEF a
  <2>3. BarOf(a.addr) = BarOf(bases[a.chunk])
    BY <2>1, NextAddress
  <2>4. QED BY <1>1, <1>2, <2>1, <2>2, <2>3 DEF Mapped, Placed
<1>5. CASE Transaction
  <2> DEFINE a == FromIdx(trans)
  <2>1. trans \in Nat
    BY MaxTransType DEF LatInv, TypeOK
  <2>2. Entry(a) /\ Placed(a)
    BY <1>5, <2>1, FromArray DEF Transaction
  <2>3. cur' = a /\ pc = "loop" /\ (IsCmd(test) => old' = a.chunk /\ bar' = NextBar(a))
    BY <1>5 DEF Transaction
  <2> HIDE DEF a
  <2>4. BarOf(a.addr) = BarOf(bases[a.chunk])
    BY <2>2, NextAddress
  <2>5. IsCmd(test) => bar = BarOf(bases[old])
    BY <1>1, <2>3 DEF InLoop, Mapped
  <2>6. QED BY <1>1, <1>2, <2>2, <2>3, <2>4, <2>5 DEF Mapped, Placed, NextBar
<1>6. CASE UNCHANGED vars
  <2>1. pc' = pc /\ cur' = cur /\ old' = old /\ bar' = bar
    BY <1>6 DEF vars
  <2>2. QED BY <1>1, <1>2, <2>1 DEF InLoop, Mapped, Placed
<1>7. CASE \/ Check \/ FillSkip \/ FillStore \/ FillDone
           \/ RegionStart \/ RegionWrite \/ RegionDone \/ Finish
  BY <1>7 DEF Check, FillSkip, FillStore, FillDone, RegionStart, RegionWrite,
              RegionDone, Finish
<1>8. QED BY <1>4, <1>5, <1>6, <1>7 DEF Next

\* A sequential draw is idx + add: the sum does not overflow while the array fills.
LEMMA SequentialDraw ==
    ASSUME LatInv, pc = "fill", idx < ArraySz,
           NEW s \in -1 .. idx+add-1, LastDraw(s)
    PROVE  /\ idx \in Nat /\ add \in Nat /\ LinesInPage \in Nat \ {0} /\ AllOnes \in Nat
           /\ s + LinesInPage <= AllOnes /\ idx + add \in Words
           /\ ~p.random => Draws = {idx + add}
<1> DEFINE N == LinesInPage
<1>1. /\ idx \in Nat /\ add \in Nat /\ N \in Nat \ {0} /\ AllOnes \in Nat
      /\ ArraySz \in Nat /\ ArraySz * N <= Word /\ Word \in Nat \ {0}
  BY Sizes, WordFacts DEF LatInv, TypeOK, AllOnes
<1>2. s < idx * N /\ idx + add <= s + N
  BY DEF LastDraw
<1> HIDE DEF N
<1>3. idx * N + N <= ArraySz * N /\ idx * N \in Nat /\ ArraySz * N \in Nat
  BY <1>1, NextMultiple
<1>4. s + N <= Word - 1 /\ idx + add <= Word - 1 /\ idx + add \in Nat
  BY <1>1, <1>2, <1>3
<1>5. idx + add \in Words /\ s + N <= AllOnes
  BY <1>1, <1>4 DEF Words, AllOnes
<1>6. (idx + add) % Word = idx + add
  BY <1>1, <1>4, Small
<1>7. QED BY <1>1, <1>5, <1>6 DEF Draws, N

\* A skipped draw does not fit, and the counter of the skipped ones is below a page's
\* lines: it does not overflow.
LEMMA Skipped ==
    ASSUME LatInv, FillSkip, ~p.random, UnitSz(p) > 0,
           NEW s \in -1 .. idx+add-1, LastDraw(s)
    PROVE  /\ pc = "fill" /\ idx' = idx /\ arr' = arr /\ add' = add + 1
           /\ idx \in Nat /\ add \in Nat /\ ~Fits(idx + add)
           /\ \A u \in s+1 .. idx+add : ~Fits(u)
           /\ idx + add + 1 <= s + LinesInPage
<1>1. pc = "fill" /\ idx < ArraySz /\ idx' = idx /\ arr' = arr /\ add' = (add + 1) % Word
      /\ \E t \in Draws : ~Fits(t)
  BY DEF FillSkip, Fits
<1>2. /\ LinesInPage \in Nat \ {0} /\ AllOnes \in Nat /\ s + LinesInPage <= AllOnes
      /\ Draws = {idx + add} /\ idx \in Nat /\ add \in Nat
  BY <1>1, SequentialDraw
<1>3. ~Fits(idx + add)
  BY <1>1, <1>2
<1>4. \A u \in s+1 .. idx+add : ~Fits(u)
  BY <1>2, <1>3 DEF LastDraw
<1>5. idx + add + 1 <= s + LinesInPage
  <2>1. PICK v \in s+1 .. s+1 + LinesInPage-1 : FitsPage(p, LinAddr(p, v))
    <3>1. Accepted(p) /\ s + 1 \in Nat /\ (s + 1) + LinesInPage - 1 <= AllOnes
      BY <1>1, <1>2, Context
    <3>2. QED BY <3>1, SoonOneFits
  <2>2. v > idx + add
    BY <1>2, <1>4, <2>1 DEF Fits
  <2>3. QED BY <1>2, <2>1, <2>2
<1>6. add' = add + 1
  <2>1. add + 1 < Word /\ Word \in Nat \ {0}
    BY <1>2, <1>5, WordFacts DEF AllOnes
  <2>2. (add + 1) % Word = add + 1
    BY <1>2, <2>1, Small
  <2>3. QED BY <1>1, <2>2
<1>7. QED BY <1>1, <1>2, <1>3, <1>4, <1>5, <1>6

LEMMA OrderStep == LatInv /\ [Next]_vars => InOrder'
<1> SUFFICES ASSUME LatInv, [Next]_vars, ~p.random, UnitSz(p) > 0
             PROVE  (\E t \in -1 .. idx+add-1 : LastDraw(t))'
  <2>1. LatInv /\ [Next]_vars => p' = p
    BY Stays
  <2>2. QED BY <2>1 DEF InOrder
<1>1. p' = p /\ idx \in Nat /\ add \in Nat /\ arr \in [0 .. ArraySz-1 ->
                {NoAddr} \cup [chunk : Nat, addr : Nat, lin : Nat]]
  BY Stays, Sizes DEF LatInv, TypeOK, Filled
<1>2. PICK s \in -1 .. idx+add-1 : LastDraw(s)
  BY DEF LatInv, InOrder
<1>3. \A t : Fits(t)' <=> Fits(t)
  BY <1>1 DEF Fits
<1>4. CASE FillSkip
  <2>1. /\ idx' = idx /\ arr' = arr /\ add' = add + 1 /\ add \in Nat
        /\ \A u \in s+1 .. idx+add : ~Fits(u)
        /\ idx + add + 1 <= s + LinesInPage /\ LinesInPage \in Nat
    BY <1>2, <1>4, Skipped, Sizes
  <2>2. s \in -1 .. idx'+add'-1 /\ LastDraw(s)'
    BY <1>1, <1>2, <1>3, <2>1 DEF LastDraw
  <2>3. QED BY <2>2
<1>5. CASE FillStore
  <2>1. PICK t \in Draws : FitsPage(p, LinAddr(p, t))
                          /\ arr' = [arr EXCEPT ![idx] = Located(bases, LinAddr(p, t))]
    BY <1>5 DEF FillStore
  <2>2. pc = "fill" /\ idx < ArraySz /\ idx' = idx + 1 /\ add' = add /\ idx \in 0 .. ArraySz-1
    BY <1>1, <1>5, Sizes DEF FillStore
  <2>3. LinesInPage \in Nat \ {0} /\ t = idx + add /\ t \in Words
    BY <1>2, <2>1, <2>2, SequentialDraw
  <2> DEFINE a == Located(bases, LinAddr(p, t))
  <2>4. a.lin = LinAddr(p, t)
    BY <2>1, <2>2, <2>3, Stored
  <2> HIDE DEF a
  <2>5. arr'[idx] = a
    BY <1>1, <2>1, <2>2 DEF a
  <2>6. t < (idx + 1) * LinesInPage
    <3>1. t <= s + LinesInPage /\ s < idx * LinesInPage
      BY <1>2, <2>3 DEF LastDraw
    <3>2. (idx + 1) * LinesInPage = idx * LinesInPage + LinesInPage /\ idx * LinesInPage \in Nat
      BY <1>1, <2>3
    <3>3. QED BY <1>1, <1>2, <2>3, <3>1, <3>2
  <2>7. t \in Nat
    BY <1>1, <2>3
  <2>8. LastDraw(t)'
    BY <1>1, <2>2, <2>3, <2>4, <2>5, <2>6, <2>7 DEF LastDraw
  <2>9. t \in -1 .. idx'+add'-1
    BY <1>1, <2>2, <2>3
  <2>10. QED BY <2>8, <2>9
<1>6. CASE \/ Check \/ FillDone \/ RegionStart \/ RegionWrite \/ RegionDone
           \/ First \/ Transaction \/ Finish \/ UNCHANGED vars
  <2>1. arr' = arr /\ idx' = idx /\ add' = add
    BY <1>6 DEF vars, fillVars, Check, FillDone, RegionStart, RegionWrite, RegionDone,
                First, Transaction, Finish
  <2>2. LastDraw(s)'
    BY <1>1, <1>2, <1>3, <2>1 DEF LastDraw
  <2>3. QED BY <1>2, <2>1, <2>2
<1>7. QED BY <1>4, <1>5, <1>6 DEF Next

LEMMA CyclesStep == LatInv /\ [Next]_vars => CyclesInOrder'
<1> SUFFICES ASSUME LatInv, [Next]_vars PROVE CyclesInOrder'
  OBVIOUS
<1>1. p' = p /\ idx \in Nat /\ arr \in [0 .. ArraySz-1 ->
                {NoAddr} \cup [chunk : Nat, addr : Nat, lin : Nat]]
  BY Stays, Sizes DEF LatInv, TypeOK, Filled
<1>2. CyclesInOrder /\ Fitting' = Fitting
  BY <1>1 DEF LatInv, Fitting
<1>3. CASE FillStore
  <2> SUFFICES ASSUME ~p.random, UnitSz(p) > 0, NEW i \in 0 .. idx'-1
               PROVE  /\ UnitAt(i)' \in Fitting
                      /\ i = 0 => \A u \in Fitting : UnitAt(0)' <= u
                      /\ i > 0 => \A u \in Fitting : ~Between(UnitAt(i-1)', u, UnitAt(i)')
    BY <1>1, <1>2 DEF CyclesInOrder
  <2>1. PICK t \in Draws : FitsPage(p, LinAddr(p, t))
                          /\ arr' = [arr EXCEPT ![idx] = Located(bases, LinAddr(p, t))]
    BY <1>3 DEF FillStore
  <2>2. pc = "fill" /\ idx < ArraySz /\ idx' = idx + 1 /\ idx \in 0 .. ArraySz-1
    BY <1>1, <1>3, Sizes DEF FillStore
  <2>3. \A j \in 0 .. idx-1 : UnitAt(j)' = UnitAt(j)
    BY <1>1, <2>1, <2>2, Sizes DEF UnitAt
  <2>4. CASE i < idx
    <3>1. i \in 0 .. idx-1 /\ (i > 0 => i - 1 \in 0 .. idx-1)
      BY <1>1, <2>2, <2>4
    <3>2. /\ UnitAt(i) \in Fitting
          /\ i = 0 => \A u \in Fitting : UnitAt(0) <= u
          /\ i > 0 => \A u \in Fitting : ~Between(UnitAt(i-1), u, UnitAt(i))
      BY <1>2, <3>1 DEF CyclesInOrder
    <3>3. UnitAt(i)' = UnitAt(i) /\ (i > 0 => UnitAt(i-1)' = UnitAt(i-1))
      BY <2>3, <3>1
    <3>4. QED BY <3>2, <3>3
  <2>5. CASE i = idx
    <3>1. PICK s \in -1 .. idx+add-1 : LastDraw(s)
      BY DEF LatInv, InOrder
    <3>2. t = idx + add /\ t \in Words /\ add \in Nat /\ t \in Nat /\ AllOnes \in Nat
      BY <1>1, <2>1, <2>2, <3>1, SequentialDraw
    <3> DEFINE k == UnitsInWin(p)
    <3>3. Accepted(p) /\ k \in Words \ {0} /\ k \in Nat
      BY <2>2, Context, Units DEF Words
    <3>4. t % k \in 0 .. k-1 /\ LinAddr(p, t) = LinAddr(p, t % k)
          /\ LinAddr(p, t) \div UnitSz(p) = t % k
      BY <3>2, <3>3, UnitOf
    <3>5. UnitAt(i)' = t % k
      <4>1. Located(bases, LinAddr(p, t)).lin = LinAddr(p, t)
        BY <2>1, <2>2, <3>2, Stored
      <4>2. arr'[i] = Located(bases, LinAddr(p, t))
        BY <1>1, <2>1, <2>2, <2>5
      <4>3. QED BY <1>1, <3>4, <4>1, <4>2 DEF UnitAt
    <3> HIDE DEF k
    <3>6. t % k \in Fitting
      BY <2>1, <3>4 DEF Fitting, k
    <3>7. ASSUME i = 0, NEW u \in Fitting PROVE t % k <= u
      <4>1. u \in 0 .. k-1 /\ Fits(u)
        BY DEF Fitting, Fits, k
      <4>2. s = -1 /\ \A v \in 0 .. t-1 : ~Fits(v)
        BY <2>5, <3>1, <3>2, <3>7 DEF LastDraw
      <4>3. t <= u
        BY <3>2, <3>3, <4>1, <4>2
      <4>4. t % k = t
        BY <3>2, <3>3, <4>1, <4>3, Small
      <4>5. QED BY <4>3, <4>4
    <3>8. ASSUME i > 0, NEW u \in Fitting PROVE ~Between(UnitAt(i-1)', u, t % k)
      <4>1. u \in 0 .. k-1 /\ FitsPage(p, LinAddr(p, u))
        BY DEF Fitting, k
      <4>2. s >= 0 /\ arr[i-1].lin = LinAddr(p, s) /\ \A v \in s+1 .. t-1 : ~Fits(v)
        BY <2>5, <3>1, <3>2, <3>8 DEF LastDraw
      <4>3. s \in Nat /\ s < t /\ s \in Words
        BY <1>1, <3>2, <4>2 DEF Words
      <4>4. UnitAt(i-1)' = s % k
        <5>1. i - 1 \in 0 .. idx-1
          BY <1>1, <2>5, <3>8
        <5>2. UnitAt(i-1)' = UnitAt(i-1)
          BY <2>3, <5>1
        <5>3. LinAddr(p, s) \div UnitSz(p) = s % k
          BY <3>3, <4>3, UnitOf DEF k
        <5>4. QED BY <4>2, <5>2, <5>3 DEF UnitAt
      <4>5. ~Between(s % k, u, t % k)
        BY <3>2, <3>3, <4>1, <4>2, <4>3, NextUnit DEF Fits, k
      <4>6. QED BY <4>4, <4>5
    <3>9. QED BY <2>5, <3>5, <3>6, <3>7, <3>8
  <2>6. QED BY <1>1, <2>2, <2>4, <2>5
<1>4. CASE Others \/ UNCHANGED vars
  <2>1. arr' = arr /\ idx' = idx
    BY <1>4 DEF Others, vars, fillVars, Check, FillSkip, FillDone, RegionStart,
                RegionWrite, RegionDone, First, Transaction, Finish
  <2>2. QED BY <1>1, <1>2, <2>1 DEF CyclesInOrder, UnitAt
<1>5. QED BY <1>3, <1>4 DEF Next, Others

\* Every draw up to now that fits is in the array.
LEMMA SweptStep == LatInv /\ [Next]_vars => Swept'
<1> SUFFICES ASSUME LatInv, [Next]_vars, ~p.random, UnitSz(p) > 0, NEW t \in 0 .. idx'+add'-1,
                    Fits(t)
             PROVE  \E i \in 0 .. idx'-1 : arr'[i].lin = LinAddr(p, t)
  <2>1. LatInv /\ [Next]_vars => p' = p
    BY Stays
  <2>2. QED BY <2>1 DEF Swept, Fits
<1>1. p' = p /\ idx \in Nat /\ add \in Nat /\ arr \in [0 .. ArraySz-1 ->
                {NoAddr} \cup [chunk : Nat, addr : Nat, lin : Nat]]
  BY Stays, Sizes DEF LatInv, TypeOK, Filled
<1>2. PICK s \in -1 .. idx+add-1 : LastDraw(s)
  BY DEF LatInv, InOrder
<1>3. ASSUME t \in 0 .. idx+add-1 PROVE \E i \in 0 .. idx-1 : arr[i].lin = LinAddr(p, t)
  BY <1>3 DEF LatInv, Swept
<1>4. CASE FillSkip
  <2>1. idx' = idx /\ arr' = arr /\ add' = add + 1 /\ ~Fits(idx + add)
    BY <1>2, <1>4, Skipped
  <2>2. t \in 0 .. idx+add-1
    BY <1>1, <2>1
  <2>3. QED BY <1>3, <2>1, <2>2
<1>5. CASE FillStore
  <2>1. PICK v \in Draws : FitsPage(p, LinAddr(p, v))
                          /\ arr' = [arr EXCEPT ![idx] = Located(bases, LinAddr(p, v))]
    BY <1>5 DEF FillStore
  <2>2. pc = "fill" /\ idx < ArraySz /\ idx' = idx + 1 /\ add' = add /\ idx \in 0 .. ArraySz-1
    BY <1>1, <1>5, Sizes DEF FillStore
  <2>3. v = idx + add /\ v \in Words
    BY <1>2, <2>1, <2>2, SequentialDraw
  <2>4. CASE t = v
    <3>1. Located(bases, LinAddr(p, v)).lin = LinAddr(p, v)
      BY <2>1, <2>2, <2>3, Stored
    <3>2. arr'[idx] = Located(bases, LinAddr(p, v))
      BY <1>1, <2>1, <2>2
    <3>3. QED BY <1>1, <2>2, <2>4, <3>1, <3>2
  <2>5. CASE t # v
    <3>1. t \in 0 .. idx+add-1
      BY <1>1, <2>2, <2>3, <2>5
    <3>2. PICK i \in 0 .. idx-1 : arr[i].lin = LinAddr(p, t)
      BY <1>3, <3>1
    <3>3. arr'[i] = arr[i] /\ i \in 0 .. idx'-1
      BY <1>1, <2>1, <2>2
    <3>4. QED BY <3>2, <3>3
  <2>6. QED BY <2>4, <2>5
<1>6. CASE \/ Check \/ FillDone \/ RegionStart \/ RegionWrite \/ RegionDone
           \/ First \/ Transaction \/ Finish \/ UNCHANGED vars
  <2>1. arr' = arr /\ idx' = idx /\ add' = add
    BY <1>6 DEF vars, fillVars, Check, FillDone, RegionStart, RegionWrite, RegionDone,
                First, Transaction, Finish
  <2>2. QED BY <1>3, <2>1
<1>7. QED BY <1>4, <1>5, <1>6 DEF Next

\* There are no more units in the window than entries in the array.
LEMMA UnitsFit ==
    ASSUME NEW q, Accepted(q), UnitSz(q) > 0
    PROVE  UnitsInWin(q) \in 0 .. ArraySz
<1> USE LatTestAssumption
<1> DEFINE u == UnitSz(q)
           k == UnitsInWin(q)
<1>1. /\ u \in Nat \ {0} /\ u % LineSz = 0 /\ k \in Nat /\ k * u <= q.win
      /\ q.win \in Nat /\ q.win <= MaxMem
  BY Units DEF Words, Accepted
<1>2. ArraySz \in Nat /\ ArraySz * LineSz = MaxMem
  BY Sizes
<1> HIDE DEF u, k
<1>3. PICK j \in Nat : u = j * LineSz
  BY <1>1, Multiple
<1>4. 1 * LineSz <= j * LineSz
  <2>1. j # 0
    BY <1>1, <1>3
  <2>2. QED BY <2>1, ProductGrows
<1>5. LineSz * k <= u * k /\ LineSz * k \in Nat /\ u * k \in Nat
  BY <1>1, <1>3, <1>4, ProductGrows
<1>6. ASSUME ArraySz < k PROVE FALSE
  <2>1. ArraySz * LineSz + LineSz <= k * LineSz
    BY <1>1, <1>2, <1>6, NextMultiple
  <2>2. k * LineSz = LineSz * k /\ k * u = u * k
    BY <1>1
  <2>3. k * LineSz <= q.win /\ k * LineSz \in Nat
    BY <1>1, <1>5, <2>2
  <2>4. QED BY <1>1, <1>2, <2>1, <2>3
<1>7. QED BY <1>1, <1>2, <1>6 DEF k

\* The unit a transaction at an entry of the array is counted for.
LEMMA CountedFor ==
    ASSUME LatInv, pc = "loop", ~p.random, UnitSz(p) > 0, NEW i \in 0 .. ArraySz-1
    PROVE  /\ UnitAt(i) \in 0 .. ArraySz-1
           /\ Div[arr[i].lin][UnitSz(p)] % ArraySz = UnitAt(i)
<1>1. Accepted(p) /\ idx = ArraySz /\ ArraySz \in Nat \ {0}
  BY Context, Sizes DEF LatInv, Filled
<1>2. UnitAt(i) \in 0 .. UnitsInWin(p)-1
  BY <1>1 DEF LatInv, CyclesInOrder, Fitting
<1>3. UnitAt(i) \in 0 .. ArraySz-1
  BY <1>1, <1>2, UnitsFit
<1>4. arr[i].lin \in Words
  <2>1. Entry(arr[i]) /\ p.win \in Words /\ p.sz \in Nat /\ p.sz > 0 /\ AllOnes \in Nat
    BY <1>1, Units, WordFacts DEF LatInv, Filled, AllOnes
  <2>2. arr[i].lin \in 0 .. MaxMem-1 /\ arr[i].lin + p.sz <= p.win /\ MaxMem \in Nat
    BY <2>1, Sizes DEF Entry, Placed
  <2>3. arr[i].lin \in Nat /\ arr[i].lin <= AllOnes
    <3>1. p.win \in Nat /\ p.win <= AllOnes
      BY <2>1 DEF Words
    <3> HIDE DEF AllOnes
    <3>2. QED BY <2>1, <2>2, <3>1
  <2>4. QED BY <2>1, <2>3 DEF Words
<1>5. Div[arr[i].lin][UnitSz(p)] = UnitAt(i)
  <2>1. UnitSz(p) \in Words
    BY <1>1, Units
  <2>2. QED BY <1>4, <2>1, DivisionExact DEF Exact, UnitAt
<1>6. UnitAt(i) % ArraySz = UnitAt(i)
  BY <1>1, <1>3, Small
<1>7. QED BY <1>3, <1>5, <1>6

\* Every transaction is counted for the unit of the entry before the next one's.
LEMMA PerformedStep == LatInv /\ [Next]_vars => Performed'
<1> SUFFICES ASSUME LatInv, [Next]_vars PROVE Performed'
  OBVIOUS
<1>1. /\ Performed /\ p' = p /\ ArraySz \in Nat \ {0} /\ idx \in Nat
      /\ trans \in 0 .. MaxTrans(p) /\ MaxTrans(p) \in Nat
  BY Stays, Sizes, MaxTransType DEF LatInv, TypeOK
<1> DEFINE Seen == ~p.random /\ UnitSz(p) > 0 =>
                       \A i \in 0 .. idx-1 : i <= trans-2 => hits[UnitAt(i)] > 0
<1>2. Seen
  BY <1>1 DEF Performed
<1>3. CASE Transaction
  <2>1. /\ pc = "loop" /\ pc' = "loop" /\ trans' = trans + 1 /\ trans < MaxTrans(p)
        /\ cur' = FromIdx(trans) /\ arr' = arr /\ idx' = idx /\ idx = ArraySz
        /\ hits' = [hits EXCEPT ![Div[cur.lin][UnitSz(p)] % ArraySz] = @ + 1]
        /\ cur = FromIdx(IF trans = 0 THEN 0 ELSE trans - 1)
    BY <1>1, <1>3 DEF Transaction, More, fillVars, LatInv, Filled, Performed
  <2> DEFINE e == Div[cur.lin][UnitSz(p)] % ArraySz
  <2>2. hits \in [0 .. ArraySz-1 -> Nat]
    BY <1>1 DEF Performed
  <2>3. hits' \in [0 .. ArraySz-1 -> Nat] /\ \A v \in 0 .. ArraySz-1 : hits'[v] >= hits[v]
    <3>1. hits' = [hits EXCEPT ![e] = @ + 1]
      BY <2>1
    <3> HIDE DEF e
    <3>2. hits' = [v \in 0 .. ArraySz-1 |-> IF v = e THEN hits[v] + 1 ELSE hits[v]]
      BY <2>2, <3>1
    <3>3. \A v \in 0 .. ArraySz-1 : hits[v] \in Nat
      BY <2>2
    <3>4. QED BY <3>2, <3>3
  <2>4. (cur = FromIdx(IF trans = 0 THEN 0 ELSE trans - 1))'
    <3>1. trans' # 0 /\ trans' - 1 = trans
      BY <1>1, <2>1
    <3>2. cur' = arr'[trans % ArraySz]
      BY <2>1 DEF FromIdx
    <3>3. QED BY <3>1, <3>2 DEF FromIdx
  <2>5. ASSUME ~p.random, UnitSz(p) > 0, NEW i \in 0 .. idx-1, i <= trans-1
        PROVE  hits'[UnitAt(i)] > 0
    <3>1. UnitAt(i) \in 0 .. ArraySz-1 /\ Div[arr[i].lin][UnitSz(p)] % ArraySz = UnitAt(i)
      BY <2>1, <2>5, CountedFor
    <3>2. CASE i <= trans-2
      <4>1. hits[UnitAt(i)] > 0
        BY <1>2, <2>5, <3>2
      <4>2. hits[UnitAt(i)] \in Nat /\ hits'[UnitAt(i)] \in Nat /\ hits'[UnitAt(i)] >= hits[UnitAt(i)]
        BY <2>2, <2>3, <3>1
      <4>3. QED BY <4>1, <4>2
    <3>3. CASE i = trans-1
      <4>1. i % ArraySz = i
        BY <1>1, <2>1, <2>5, Small
      <4>2. cur = arr[i]
        <5>1. trans # 0 /\ trans - 1 = i
          BY <1>1, <2>5, <3>3
        <5>2. cur = FromIdx(i)
          BY <2>1, <5>1
        <5>3. QED BY <4>1, <5>2 DEF FromIdx
      <4>3. e = UnitAt(i)
        BY <3>1, <4>2
      <4> HIDE DEF e
      <4>4. hits' = [hits EXCEPT ![e] = @ + 1]
        BY <2>1 DEF e
      <4>5. hits'[UnitAt(i)] = hits[UnitAt(i)] + 1 /\ hits[UnitAt(i)] \in Nat
        BY <2>2, <3>1, <4>3, <4>4
      <4>6. QED BY <4>5
    <3>4. QED BY <1>1, <2>5, <3>2, <3>3
  <2>6. \A i \in 0 .. idx'-1 : UnitAt(i)' = UnitAt(i)
    BY <1>1, <2>1 DEF UnitAt
  <2> HIDE DEF e
  <2>7. Seen'
    <3> SUFFICES ASSUME ~p.random, UnitSz(p) > 0, NEW i \in 0 .. idx'-1, i <= trans'-2
                 PROVE  hits'[UnitAt(i)'] > 0
      BY <1>1
    <3>1. i \in 0 .. idx-1 /\ i <= trans-1
      BY <1>1, <2>1
    <3>2. QED BY <2>5, <2>6, <3>1
  <2>8. QED BY <2>1, <2>3, <2>4, <2>7 DEF Performed
<1>4. CASE First
  <2>1. /\ pc = "first" /\ pc' = "loop" /\ trans' = trans /\ hits' = hits /\ arr' = arr
        /\ idx' = idx /\ cur' = FromIdx(0)
    BY <1>4 DEF First, fillVars
  <2>2. trans = 0
    BY <1>1, <2>1 DEF Performed
  <2>3. (cur = FromIdx(IF trans = 0 THEN 0 ELSE trans - 1))'
    BY <2>1, <2>2 DEF FromIdx
  <2>4. Seen'
    BY <1>1, <2>1, <2>2
  <2>5. QED BY <1>1, <2>1, <2>3, <2>4 DEF Performed
<1>5. CASE FillStore
  <2>1. trans' = trans /\ hits' = hits /\ pc = "fill" /\ pc' = "fill" /\ idx' = idx + 1
    BY <1>5 DEF FillStore
  <2>2. trans = 0
    BY <1>1, <2>1 DEF Performed
  <2>3. Seen'
    BY <1>1, <2>1, <2>2
  <2>4. QED BY <1>1, <2>1, <2>2, <2>3 DEF Performed
<1>6. CASE Finish
  <2>1. /\ pc = "loop" /\ pc' = "done" /\ trans' = trans /\ hits' = hits /\ arr' = arr
        /\ idx' = idx /\ ~(trans < MaxTrans(p)) /\ Sane(p) /\ idx = ArraySz
    BY <1>6 DEF Finish, More, fillVars, LatInv, Checked, Filled
  <2>2. trans = MaxTrans(p)
    BY <1>1, <2>1
  <2>3. Seen'
    BY <1>1, <1>2, <2>1 DEF UnitAt
  <2>4. QED BY <1>1, <2>1, <2>2, <2>3 DEF Performed
<1>7. CASE Check
  <2>1. /\ pc = "check" /\ pc' \in {"fill", "done"} /\ (pc' = "done" => res' = -1)
        /\ trans' = trans /\ hits' = hits /\ arr' = arr /\ idx' = idx
    BY <1>7 DEF Check, fillVars
  <2>2. trans = 0
    BY <1>1, <2>1 DEF Performed
  <2>3. Seen'
    BY <1>1, <2>1, <2>2
  <2>4. QED BY <1>1, <2>1, <2>2, <2>3 DEF Performed
<1>8. CASE FillSkip \/ FillDone \/ RegionStart \/ RegionWrite \/ RegionDone
  <2>1. /\ pc \notin {"loop", "done"} /\ pc' \notin {"loop", "done"}
        /\ trans' = trans /\ hits' = hits /\ arr' = arr /\ idx' = idx
    BY <1>8 DEF fillVars, FillSkip, FillDone, RegionStart, RegionWrite, RegionDone
  <2>2. trans = 0
    BY <1>1, <2>1 DEF Performed
  <2>3. Seen'
    BY <1>1, <2>1, <2>2
  <2>4. QED BY <1>1, <2>1, <2>2, <2>3 DEF Performed
<1>9. CASE UNCHANGED vars
  <2>1. /\ pc' = pc /\ cur' = cur /\ res' = res /\ trans' = trans /\ hits' = hits
        /\ arr' = arr /\ idx' = idx
    BY <1>9 DEF vars, fillVars
  <2>2. Seen'
    BY <1>1, <1>2, <2>1 DEF UnitAt
  <2>3. QED BY <1>1, <2>1, <2>2 DEF Performed, FromIdx
<1>10. QED BY <1>3, <1>4, <1>5, <1>6, <1>7, <1>8, <1>9 DEF Next

-----------------------------------------------------------------------------
(* The theorems.                                                           *)

\* Every reachable state satisfies the inductive invariant.
THEOREM Invariance == Spec => []LatInv
<1>1. LatInv /\ [Next]_vars => LatInv'
  BY TypeStep, CheckedStep, FilledStep, RegionStep, LoopStep, OrderStep, CyclesStep,
     SweptStep, PerformedStep DEF LatInv
<1>2. QED BY InitHolds, <1>1, PTL DEF Spec

\* The type invariant, of every latency test on buffers of every size.
THEOREM TypeCorrect == Spec => []TypeOK
<1>1. LatInv => TypeOK
  BY DEF LatInv
<1>2. QED BY Invariance, <1>1, PTL

LEMMA InOneChunk ==
    ASSUME NEW a \in Nat, NEW n \in Nat \ {0}, a \div ChunkSz = (a + n - 1) \div ChunkSz
    PROVE  a % ChunkSz \in 0 .. ChunkSz-1 /\ (a % ChunkSz) + n - 1 \in 0 .. ChunkSz-1
<1> USE LatTestAssumption
<1>1. PICK q, r \in Nat : /\ a = q * ChunkSz + r /\ r < ChunkSz /\ q * ChunkSz \in Nat
                         /\ a \div ChunkSz = q /\ a % ChunkSz = r
  BY Split
<1>2. a + n - 1 \in Nat
  OBVIOUS
<1>3. PICK c, e \in Nat : /\ a + n - 1 = c * ChunkSz + e /\ e < ChunkSz /\ c * ChunkSz \in Nat
                         /\ (a + n - 1) \div ChunkSz = c /\ (a + n - 1) % ChunkSz = e
  BY <1>2, Split
<1>4. c = q
  BY <1>1, <1>3
<1>5. QED BY <1>1, <1>3, <1>4

\* A transaction within a page is within a chunk.
LEMMA PageInChunk ==
    ASSUME NEW a \in Nat, NEW n \in Nat \ {0}, PageSz - (a % PageSz) >= n
    PROVE  /\ a \div PageSz = (a + n - 1) \div PageSz
           /\ a \div ChunkSz = (a + n - 1) \div ChunkSz
<1> USE LatTestAssumption
<1>1. a \div PageSz = (a + n - 1) \div PageSz
  BY StaysInBlock
<1>2. a + n - 1 \in Nat
  OBVIOUS
<1>3. SameBlock(ChunkSz, a, a + n - 1)
  <2>1. SameBlock(PageSz, a, a + n - 1)
    BY <1>1 DEF SameBlock
  <2>2. QED BY <1>2, <2>1, SameInGreater
<1>4. QED BY <1>1, <1>3 DEF SameBlock

\* The addresses the array offers are transactions inside the window, a page and a
\* chunk, at the place the host reserved, whatever the sizes and wherever the chunks
\* are (utils.c, 58-80).
THEOREM Contained == Spec => []AddrsContained
<1>1. LatInv => AddrsContained
  <2> SUFFICES ASSUME LatInv, p.sz > 0, NEW i \in 0 .. idx-1
               PROVE  LET a == arr[i]  last == a.lin + p.sz - 1
                      IN  /\ a.lin >= 0 /\ last < p.win
                          /\ a.lin \div PageSz = last \div PageSz
                          /\ a.lin \div ChunkSz = last \div ChunkSz
                          /\ a.addr = bases[a.lin \div ChunkSz] + (a.lin % ChunkSz)
    BY DEF AddrsContained
  <2> DEFINE a == arr[i]
  <2>1. Entry(a) /\ p.sz \in Nat \ {0} /\ p.win \in Nat
    BY Context DEF LatInv, Filled, ParamBlock
  <2> HIDE DEF a
  <2>2. a.lin \in Nat /\ a.lin + p.sz <= p.win /\ PageSz - (a.lin % PageSz) >= p.sz
    BY <2>1, Sizes DEF Entry, Placed, FitsPage
  <2>3. a.lin \div PageSz = (a.lin + p.sz - 1) \div PageSz
        /\ a.lin \div ChunkSz = (a.lin + p.sz - 1) \div ChunkSz
    BY <2>1, <2>2, PageInChunk
  <2>4. a = Located(bases, a.lin)
    BY <2>1 DEF Entry, Placed
  <2>5. a.addr = bases[a.lin \div ChunkSz] + (a.lin % ChunkSz)
    BY <2>4 DEF Located
  <2>6. a.lin >= 0 /\ a.lin + p.sz - 1 < p.win
    BY <2>1, <2>2
  <2>7. QED BY <2>3, <2>5, <2>6 DEF a
<1>2. QED BY Invariance, <1>1, PTL

\* Every command reaches the address it is meant for through the one BAR, which is
\* moved only when the chunk changes (utils.c, 119-159; pcie_cmd.c, 69-120).
THEOREM BarCovers == Spec => []BarCoversAccess
<1>1. ASSUME LatInv, NEW n \in Nat \ {0}, Mapped,
             cur.lin \div ChunkSz = (cur.lin + n - 1) \div ChunkSz
      PROVE  Through(bar, cur.addr) = cur.addr
             /\ Through(bar, cur.addr + n - 1) = cur.addr + n - 1
  <2>1. BasesOK(bases) /\ cur.lin \in 0 .. MaxMem-1 /\ cur = Located(bases, cur.lin)
        /\ bar = BarOf(bases[cur.chunk])
    BY <1>1, Context DEF Mapped, Placed
  <2> DEFINE c == cur.chunk
             o == cur.lin % ChunkSz
  <2>2. c \in 0 .. Chunks-1 /\ cur.addr = bases[c] + o
    BY <2>1, InChunk
  <2>3. o \in 0 .. ChunkSz-1 /\ o + n - 1 \in 0 .. ChunkSz-1
    BY <1>1, <2>1, Sizes, InOneChunk
  <2>4. bases[c] \in Nat
    BY <2>1, <2>2 DEF BasesOK
  <2> HIDE DEF c, o
  <2>5. Through(BarOf(bases[c]), bases[c] + o) = bases[c] + o
    BY <2>1, <2>2, <2>3, OneBar
  <2>6. Through(BarOf(bases[c]), bases[c] + (o + n - 1)) = bases[c] + (o + n - 1)
    BY <2>1, <2>2, <2>3, OneBar
  <2>7. bases[c] + (o + n - 1) = cur.addr + n - 1
    BY <2>2, <2>3, <2>4
  <2>8. bar = BarOf(bases[c])
    BY <2>1 DEF c
  <2>9. QED BY <2>2, <2>5, <2>6, <2>7, <2>8
<1>2. LatInv => BarCoversAccess
  <2> SUFFICES ASSUME LatInv, Writing \/ Measuring
               PROVE  LET last == cur.addr + (IF Writing THEN LineSz ELSE p.sz) - 1
                      IN  Through(bar, cur.addr) = cur.addr /\ Through(bar, last) = last
    BY DEF BarCoversAccess
  <2> USE LatTestAssumption
  <2>1. CASE Writing
    <3>1. Mapped /\ cur.lin % LineSz = 0
      BY <2>1 DEF Writing, LatInv, InRegion
    <3>2. cur.lin \in Nat
      BY <3>1, Sizes DEF Mapped, Placed
    <3>3. cur.lin \div LineSz = (cur.lin + LineSz - 1) \div LineSz /\ cur.lin + LineSz - 1 \in Nat
      <4>1. cur.lin % LineSz = 0 /\ LineSz - 0 >= LineSz /\ cur.lin + LineSz - 1 \in Nat
        BY <3>1, <3>2
      <4>2. LineSz - (cur.lin % LineSz) >= LineSz
        BY <4>1, Zenon
      <4>3. QED BY <3>2, <4>1, <4>2, StaysInBlock
    <3>4. cur.lin \div ChunkSz = (cur.lin + LineSz - 1) \div ChunkSz
      <4>1. SameBlock(LineSz, cur.lin, cur.lin + LineSz - 1)
        BY <3>3 DEF SameBlock
      <4>2. SameBlock(ChunkSz, cur.lin, cur.lin + LineSz - 1)
        BY <3>2, <3>3, <4>1, Sizes, SameInGreater
      <4>3. QED BY <4>2 DEF SameBlock
    <3>5. QED BY <1>1, <2>1, <3>1, <3>4
  <2>2. CASE ~Writing
    <3>1. Entry(cur) /\ Mapped /\ p.sz \in Nat \ {0}
      BY <2>2, Context DEF Measuring, LatInv, InLoop, ParamBlock
    <3>2. cur.lin \in Nat /\ PageSz - (cur.lin % PageSz) >= p.sz
      BY <3>1, Sizes DEF Entry, Placed, FitsPage
    <3>3. cur.lin \div ChunkSz = (cur.lin + p.sz - 1) \div ChunkSz
      BY <3>1, <3>2, PageInChunk
    <3>4. QED BY <1>1, <2>2, <3>1, <3>3
  <2>3. QED BY <2>1, <2>2
<1>3. QED BY Invariance, <1>2, PTL

\* Sequential addresses visit the units that fit a page in order and lose none; the
\* counter that is added to the index does not overflow (utils.c, 50-69).
THEOREM VisitsInOrder == Spec => []CyclesInOrder
<1>1. LatInv => CyclesInOrder
  BY DEF LatInv
<1>2. QED BY Invariance, <1>1, PTL

\* A sequential test accesses every unit of its window that fits a page, although it
\* uses index 0 twice: every draw of the first turn that fits is in the array, and
\* the array is gone through once before the test ends (pcie_cmd.c, 69 and 115;
\* utils.c, 84-98).
THEOREM Sweeps == Spec => []WindowSwept
<1>1. ASSUME LatInv PROVE WindowSwept
  <2> SUFFICES ASSUME pc = "done", res = 0, ~p.random, UnitSz(p) > 0, NEW u \in Fitting
               PROVE  hits[u] > 0
    BY DEF WindowSwept
  <2> DEFINE k == UnitsInWin(p)
  <2>1. /\ Sane(p) /\ idx = ArraySz /\ trans = MaxTrans(p) /\ add \in Nat
        /\ p \in ParamBlock
    BY <1>1, Context DEF LatInv, Performed, TypeOK
  <2>2. Accepted(p)
    BY <1>1, <2>1 DEF Accepted, LatInv, Checked, HostChecksParams
  <2>3. k \in Words \ {0} /\ k \in 0 .. ArraySz /\ ArraySz \in Nat \ {0}
    BY <2>2, Units, UnitsFit, Sizes
  <2> HIDE DEF k
  <2>4. u \in 0 .. k-1 /\ Fits(u)
    BY DEF Fitting, Fits, k
  <2>5. u \in 0 .. idx+add-1
    BY <2>1, <2>3, <2>4
  <2>6. PICK i \in 0 .. idx-1 : arr[i].lin = LinAddr(p, u)
    BY <1>1, <2>4, <2>5 DEF LatInv, Swept
  <2>7. UnitAt(i) = u
    <3>1. u \in Words /\ u % k = u
      <4>1. u \in Nat /\ u < k /\ k \in Nat \ {0}
        BY <2>3, <2>4 
      <4>2. k <= AllOnes /\ AllOnes \in Nat
        BY <2>3, WordFacts DEF Words, AllOnes
      <4>3. QED BY <4>1, <4>2, Small DEF Words
    <3>2. LinAddr(p, u) \div UnitSz(p) = u
      BY <2>2, <3>1, UnitOf DEF k
    <3>3. QED BY <2>6, <3>2 DEF UnitAt
  <2>8. i <= trans-2
    <3>1. MaxTrans(p) \in Nat /\ MaxTrans(p) > ArraySz
      BY TestsAreLonger, MaxTransType DEF MaxTrans
    <3>2. QED BY <2>1, <2>3, <3>1
  <2>9. QED BY <1>1, <2>6, <2>7, <2>8 DEF LatInv, Performed
<1>2. QED BY Invariance, <1>1, PTL

\* Division is division, as DivisionExact says, in every state of the test.
THEOREM DividesExactly == Spec => []DivisionIsExact
<1>1. LatInv => DivisionIsExact
  BY DivisionExact DEF DivisionIsExact
<1>2. QED BY Invariance, <1>1, PTL
=============================================================================
