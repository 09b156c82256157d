----------------------------- MODULE BufOpProofs -----------------------------
(***************************************************************************)
(* Proofs about BufOp: its invariants, and that the chunks are one file.   *)
(***************************************************************************)
EXTENDS BufOpInv, NumberLemmas

-----------------------------------------------------------------------------
(* Places.                                                                 *)

LEMMA Place ==
    ASSUME NEW x \in 0 .. MaxMem-1
    PROVE  \E c \in 0 .. NumChunks-1, o \in Offsets :
               x = c * ChunkSz + o /\ x \div ChunkSz = c /\ x % ChunkSz = o
<1> USE BufOpAssumption
<1>1. MaxMem \in Nat /\ MaxMem = NumChunks * ChunkSz
  BY ProductGrows DEF MaxMem
<1>2. PICK c, o \in Nat : /\ x = c * ChunkSz + o /\ o < ChunkSz /\ c * ChunkSz \in Nat
                        /\ x \div ChunkSz = c /\ x % ChunkSz = o
  BY <1>1, Split
<1>3. c < NumChunks
  <2>1. CASE NumChunks <= c
    <3>1. NumChunks * ChunkSz <= c * ChunkSz
      BY <2>1, ProductGrows
    <3>2. QED BY <3>1, <1>1, <1>2
  <2>2. QED BY <2>1
<1>4. QED BY <1>2, <1>3 DEF Offsets

LEMMA Memory == MaxMem \in Nat /\ MaxMem > 0
<1>1. 1 * ChunkSz <= NumChunks * ChunkSz /\ NumChunks * ChunkSz \in Nat
  BY ProductGrows, BufOpAssumption
<1>2. QED BY <1>1, BufOpAssumption DEF MaxMem

LEMMA CallFacts ==
    ASSUME BufInv, NEW u \in Procs
    PROVE  /\ call[u].write \in BOOLEAN /\ call[u].count \in Nat /\ call[u].pos \in Nat
           /\ call[u].got \in Seq(Bytes) /\ offp[u] \in Nat
           /\ call[u].pos <= call[u].count
           /\ InCall(u) => call[u].count > 0 /\ offp[u] + call[u].count <= MaxMem
           /\ ~InCall(u) => call[u] = NoCall /\ call[u].count = 0 /\ call[u].pos = 0
<1> USE BufOpAssumption
<1>1. call[u] \in [write : BOOLEAN, count : Nat, pos : Nat, got : Seq(Bytes)]
  BY DEF BufInv, CallsMove
<1>2. offp[u] \in Nat
  <2>1. offp \in [Procs -> (0 .. MaxMem) \cup Seeks]
    BY DEF BufInv, TypeOK
  <2>2. offp[u] \in (0 .. MaxMem) \cup Seeks
    BY <2>1
  <2>3. Seeks \subseteq Nat
    OBVIOUS
  <2>4. offp[u] \in 0 .. MaxMem => offp[u] \in Nat
    BY Memory
  <2>5. QED BY <2>2, <2>3, <2>4
<1>3. ~InCall(u) => call[u] = NoCall /\ call[u].count = 0 /\ call[u].pos = 0
  BY DEF InCall, NoCall
<1>4. call[u].pos <= call[u].count
  BY <1>1 DEF BufInv, TypeOK
<1>5. InCall(u) => call[u].count > 0 /\ offp[u] + call[u].count <= MaxMem
  BY DEF BufInv, TypeOK, CallsMove
<1>6. QED BY <1>1, <1>2, <1>3, <1>4, <1>5

\* The piece copied next is inside the range and inside one chunk.
LEMMA Piece ==
    ASSUME BufInv, NEW u \in Procs, InCall(u), call[u].pos < call[u].count
    PROVE  /\ PieceLen(u) \in 1 .. call[u].count - call[u].pos
           /\ ChunkIdx(u) \in 0 .. NumChunks-1 /\ ChunkOff(u) \in Nat
           /\ ChunkOff(u) + PieceLen(u) <= ChunkSz
           /\ offp[u] + call[u].pos = ChunkIdx(u) * ChunkSz + ChunkOff(u)
<1> USE BufOpAssumption
<1> DEFINE x == offp[u] + call[u].pos
           rest == call[u].count - call[u].pos
<1>1. x \in 0 .. MaxMem-1 /\ rest \in Nat /\ rest > 0
  BY CallFacts, Memory
<1>2. PICK c \in 0 .. NumChunks-1, o \in Offsets :
          x = c * ChunkSz + o /\ x \div ChunkSz = c /\ x % ChunkSz = o
  BY <1>1, Place
<1>3. ChunkIdx(u) = c /\ ChunkOff(u) = o
  BY <1>2 DEF ChunkIdx, ChunkOff
<1>4. PieceLen(u) = IF o + rest > ChunkSz THEN ChunkSz - o ELSE rest
  BY <1>3 DEF PieceLen
<1> HIDE DEF x, rest
<1>5. PieceLen(u) \in 1 .. rest /\ o + PieceLen(u) <= ChunkSz /\ o \in Nat
  <2>1. o \in Nat /\ o < ChunkSz
    BY <1>2 DEF Offsets
  <2>2. CASE o + rest > ChunkSz
    <3>1. PieceLen(u) = ChunkSz - o
      BY <1>4, <2>2
    <3>2. QED BY <1>1, <2>1, <2>2, <3>1
  <2>3. CASE ~(o + rest > ChunkSz)
    <3>1. PieceLen(u) = rest
      BY <1>4, <2>3
    <3>2. QED BY <1>1, <2>1, <2>3, <3>1
  <2>4. QED BY <2>2, <2>3
<1>6. QED BY <1>2, <1>3, <1>5 DEF x, rest

\* What writing part of a piece does to the bytes of the file.
LEMMA WrittenAt ==
    ASSUME BufInv, NEW u \in Procs, InCall(u), call[u].pos < call[u].count,
           NEW m \in Nat, NEW n \in Nat, m <= n, n <= PieceLen(u),
           NEW x \in 0 .. MaxMem-1
    PROVE  Written(u, m, n)[x \div ChunkSz][x % ChunkSz] =
               LET k == x - offp[u]
               IN  IF k \in call[u].pos .. call[u].pos + m - 1 THEN Data(u, k)
                   ELSE IF k \in call[u].pos .. call[u].pos + n - 1 THEN Zero
                   ELSE mem[x \div ChunkSz][x % ChunkSz]
<1> USE BufOpAssumption
<1>1. PICK c \in 0 .. NumChunks-1, o \in Offsets :
          x = c * ChunkSz + o /\ x \div ChunkSz = c /\ x % ChunkSz = o
  BY Place
<1> DEFINE i == ChunkIdx(u)
           f == ChunkOff(u)
           l == PieceLen(u)
           a == offp[u]
           p == call[u].pos
<1>2. /\ l \in Nat /\ i \in 0 .. NumChunks-1 /\ f \in Nat /\ f + l <= ChunkSz
      /\ a + p = i * ChunkSz + f /\ a \in Nat /\ p \in Nat /\ n <= l
  BY CallFacts, Piece
<1>3. mem \in [0 .. NumChunks-1 -> [Offsets -> Bytes]]
  BY DEF BufInv, TypeOK
<1>4. Written(u, m, n)[c][o] =
          IF c = i THEN IF o - f \in 0 .. m-1 THEN Data(u, p + (o - f))
                        ELSE IF o - f \in 0 .. n-1 THEN Zero ELSE mem[c][o]
          ELSE mem[c][o]
  BY <1>1, <1>3 DEF Written
<1> HIDE DEF i, f, l, a, p
<1>5. CASE c = i
  <2>1. x - a = p + (o - f)
    BY <1>1, <1>2, <1>5, ProductGrows DEF Offsets
  <2>2. /\ o - f \in 0 .. m-1 <=> x - a \in p .. p + m - 1
        /\ o - f \in 0 .. n-1 <=> x - a \in p .. p + n - 1
    BY <2>1, <1>2 DEF Offsets
  <2>3. QED BY <1>1, <1>4, <1>5, <2>1, <2>2 DEF a, p
<1>6. CASE c # i
  <2>1. x - a \notin p .. p + n - 1
    <3>1. CASE c < i
      <4>1. c * ChunkSz + ChunkSz <= i * ChunkSz /\ c * ChunkSz \in Nat /\ i * ChunkSz \in Nat
        BY <3>1, NextMultiple, <1>2
      <4>2. QED BY <4>1, <1>1, <1>2 DEF Offsets
    <3>2. CASE i < c
      <4>1. i * ChunkSz + ChunkSz <= c * ChunkSz /\ c * ChunkSz \in Nat /\ i * ChunkSz \in Nat
        BY <3>2, NextMultiple, <1>2
      <4>2. QED BY <4>1, <1>1, <1>2 DEF Offsets
    <3>3. QED BY <3>1, <3>2, <1>2, <1>6
  <2>2. x - a \notin p .. p + m - 1
    BY <2>1, <1>1, <1>2, Memory
  <2>3. QED BY <1>1, <1>4, <1>6, <2>1, <2>2 DEF a, p
<1>7. QED BY <1>5, <1>6

-----------------------------------------------------------------------------
(* Calls.                                                                  *)

CallRec == [write : BOOLEAN, count : Nat, pos : Nat, got : Seq(Bytes)]
CallOK(c, a) ==
    /\ c.pos <= c.count /\ Len(c.got) = IF c.write THEN 0 ELSE c.pos
    /\ c # NoCall => c.count > 0 /\ a + c.count <= MaxMem

Places == (0 .. MaxMem) \cup Seeks

LEMMA CallsAre ==
    ASSUME BufInv
    PROVE  /\ call \in [Procs -> CallRec] /\ offp \in [Procs -> Places]
           /\ \A u \in Procs : CallOK(call[u], offp[u])
<1>1. call \in [Procs -> CallRec] /\ offp \in [Procs -> Places]
  BY DEF BufInv, TypeOK, CallsMove, CallRec, Places
<1>2. ASSUME NEW u \in Procs PROVE CallOK(call[u], offp[u])
  <2>1. Len(call[u].got) = IF call[u].write THEN 0 ELSE call[u].pos
    BY DEF BufInv, TypeOK
  <2>2. QED BY <2>1, CallFacts DEF CallOK, InCall
<1>3. QED BY <1>1, <1>2

CallsOK ==
    \A v \in Procs : /\ call[v].pos \in 0 .. call[v].count
                     /\ InCall(v) => offp[v] + call[v].count <= MaxMem
                     /\ Len(call[v].got) = IF call[v].write THEN 0 ELSE call[v].pos

\* A step changes one call and one position.
LEMMA OneCall ==
    ASSUME BufInv, NEW u \in Procs, NEW c \in CallRec, NEW a \in Places, CallOK(c, a),
           call' = [call EXCEPT ![u] = c], offp' = [offp EXCEPT ![u] = a]
    PROVE  offp' \in [Procs -> Places] /\ CallsMove' /\ CallsOK'
<1>1. call' \in [Procs -> CallRec] /\ offp' \in [Procs -> Places]
  BY CallsAre
<1>2. \A v \in Procs : CallOK(call'[v], offp'[v])
  BY CallsAre
<1>3. \A v \in Procs : call'[v].pos \in Nat /\ call'[v].count \in Nat
  BY <1>1 DEF CallRec
<1>4. CallsMove'
  BY <1>1, <1>2 DEF CallsMove, CallRec, CallOK, InCall, NoCall
<1>5. QED BY <1>1, <1>2, <1>3, <1>4 DEF CallsOK, CallOK, InCall, NoCall

LEMMA TypesNext ==
    ASSUME offp' \in [Procs -> Places], CallsOK',
           mem' \in [0 .. NumChunks-1 -> [Offsets -> Bytes]],
           calls' \in [Users -> 0 .. MaxCalls], win' \in Wins,
           wpc' \in {"seek", "write", "done"}, pass' \in 0 .. Passes, page' \in Nat
    PROVE  TypeOK'
<1>1. QED BY DEF TypeOK, CallsOK, Places

LEMMA NoCallOK == NoCall \in CallRec /\ \A a : CallOK(NoCall, a)
<1>1. << >> \in Seq(Bytes) /\ Len(<< >>) = 0
  OBVIOUS
<1>2. QED BY <1>1 DEF NoCall, CallRec, CallOK

LEMMA ClippedFacts ==
    ASSUME NEW a \in Nat, NEW n \in Nat
    PROVE  /\ Clipped(a, n) \in 0 .. n
           /\ Clipped(a, n) > 0 => a + Clipped(a, n) <= MaxMem
<1>1. QED BY Memory DEF Clipped

\* What a call begins with, if anything.
LEMMA Entered ==
    ASSUME BufInv, NEW u \in Procs, NEW w \in BOOLEAN, NEW n \in Nat, Enter(u, w, n)
    PROVE  \E c \in CallRec :
              /\ CallOK(c, offp[u]) /\ call' = [call EXCEPT ![u] = c]
              /\ offp' = offp /\ mem' = mem /\ call[u] = NoCall
              /\ offp' = [offp EXCEPT ![u] = offp[u]] /\ offp[u] \in Places
              /\ c.pos = 0 /\ c.count = Clipped(offp[u], n) /\ offp[u] \in Nat
              /\ \/ c = NoCall
                 \/ c = [write |-> w, count |-> Clipped(offp[u], n), pos |-> 0, got |-> <<>>]
                    /\ c.count > 0
<1> DEFINE k == Clipped(offp[u], n)
           c == IF k = 0 THEN NoCall ELSE [write |-> w, count |-> k, pos |-> 0, got |-> <<>>]
<1>1. offp[u] \in Nat /\ offp \in [Procs -> Places]
  BY CallFacts, CallsAre
<1>2. k \in 0 .. n /\ (k > 0 => offp[u] + k <= MaxMem)
  BY <1>1, ClippedFacts
<1> HIDE DEF k
<1>3. << >> \in Seq(Bytes) /\ Len(<< >>) = 0
  OBVIOUS
<1>4. c \in CallRec /\ CallOK(c, offp[u]) /\ c.pos = 0 /\ c.count = k
  BY <1>2, <1>3, NoCallOK DEF CallRec, CallOK, NoCall
<1>5. call' = [call EXCEPT ![u] = c] /\ offp' = offp /\ mem' = mem /\ call[u] = NoCall
  BY DEF Enter, InCall, k
<1>6. offp' = [offp EXCEPT ![u] = offp[u]] /\ offp[u] \in Places
  BY <1>1, <1>5
<1>7. \/ c = NoCall
      \/ c = [write |-> w, count |-> k, pos |-> 0, got |-> <<>>] /\ c.count > 0
  BY <1>2, <1>4
<1> HIDE DEF c
<1>8. QED BY <1>1, <1>4, <1>5, <1>6, <1>7 DEF k

\* What a call is after a piece was copied.
LEMMA Copied ==
    ASSUME BufInv, NEW u \in Procs, Copy(u)
    PROVE  /\ InCall(u) /\ call[u].pos < call[u].count /\ offp' = offp
           /\ mem' = IF call[u].write THEN Written(u, PieceLen(u), PieceLen(u)) ELSE mem
           /\ \E c \in CallRec :
                 /\ CallOK(c, offp[u]) /\ call' = [call EXCEPT ![u] = c]
                 /\ offp' = [offp EXCEPT ![u] = offp[u]] /\ offp[u] \in Places
                 /\ c.pos = call[u].pos + PieceLen(u) /\ c.count = call[u].count
                 /\ c.write = call[u].write /\ c # NoCall
<1> DEFINE m == PieceLen(u)
           copied == [k \in 1 .. m |-> mem[ChunkIdx(u)][ChunkOff(u) + k - 1]]
           c == [call[u] EXCEPT !.pos = @ + m,
                                !.got = IF call[u].write THEN @ ELSE @ \o copied]
<1>1. InCall(u) /\ call[u].pos < call[u].count /\ offp' = offp
      /\ mem' = (IF call[u].write THEN Written(u, m, m) ELSE mem)
  BY DEF Copy
<1>2. call \in [Procs -> CallRec] /\ offp \in [Procs -> Places] /\ CallOK(call[u], offp[u])
  BY CallsAre
<1>3. call' = [call EXCEPT ![u] = c]
  BY <1>2 DEF Copy, CallRec
<1>4. /\ m \in 1 .. call[u].count - call[u].pos /\ m \in Nat
      /\ ChunkIdx(u) \in 0 .. NumChunks-1 /\ ChunkOff(u) \in Nat
      /\ ChunkOff(u) + m <= ChunkSz
  BY <1>1, Piece, CallFacts
<1>5. copied \in Seq(Bytes) /\ Len(copied) = m
  <2>1. \A k \in 1 .. m : mem[ChunkIdx(u)][ChunkOff(u) + k - 1] \in Bytes
    <3>1. \A k \in 1 .. m : ChunkOff(u) + k - 1 \in Offsets
      BY <1>4, BufOpAssumption DEF Offsets
    <3>2. mem \in [0 .. NumChunks-1 -> [Offsets -> Bytes]]
      BY DEF BufInv, TypeOK
    <3>3. QED BY <1>4, <3>1, <3>2
  <2> HIDE DEF m
  <2>2. copied \in [1 .. m -> Bytes]
    BY <2>1
  <2>3. QED BY <1>4, <2>2
<1> HIDE DEF m, copied
<1>6. call[u] \in CallRec
  BY <1>2
<1>7. c \in CallRec
  <2>1. call[u].got \in Seq(Bytes) /\ call[u].got \o copied \in Seq(Bytes)
    BY <1>5, <1>6 DEF CallRec
  <2> DEFINE g == IF call[u].write THEN call[u].got ELSE call[u].got \o copied
  <2>2. g \in Seq(Bytes)
    BY <2>1
  <2>3. call[u].pos + m \in Nat
    BY <1>4, <1>6 DEF CallRec
  <2>4. c = [call[u] EXCEPT !.pos = call[u].pos + m, !.got = g]
    OBVIOUS
  <2> HIDE DEF g, c
  <2>5. QED BY <1>6, <2>2, <2>3, <2>4 DEF CallRec
<1>8. c.pos = call[u].pos + m /\ c.count = call[u].count /\ c.write = call[u].write
      /\ c.got = IF call[u].write THEN call[u].got ELSE call[u].got \o copied
  BY <1>6 DEF CallRec
<1> HIDE DEF c
<1>9. Len(c.got) = IF c.write THEN 0 ELSE c.pos
  <2>1. CASE call[u].write
    BY <1>2, <1>8, <2>1 DEF CallOK
  <2>2. CASE ~call[u].write
    <3>1. Len(call[u].got \o copied) = Len(call[u].got) + m
      <4>1. call[u].got \in Seq(Bytes)
        BY <1>6 DEF CallRec
      <4>2. copied \in Seq(Bytes) /\ Len(copied) = m
        BY <1>5
      <4>3. \A x, y \in Seq(Bytes) : Len(x \o y) = Len(x) + Len(y)
        OBVIOUS
      <4>4. QED BY <4>1, <4>2, <4>3
    <3>2. QED BY <1>2, <1>8, <2>2, <3>1 DEF CallOK
  <2>3. QED BY <2>1, <2>2
<1>10. call[u].count \in Nat /\ call[u].pos \in Nat /\ call[u].count > 0
       /\ offp[u] + call[u].count <= MaxMem
  BY <1>1, CallFacts
<1>11. CallOK(c, offp[u])
  BY <1>4, <1>8, <1>9, <1>10 DEF CallOK
<1>12. c # NoCall
  BY <1>8, <1>10 DEF NoCall
<1>13. offp' = [offp EXCEPT ![u] = offp[u]] /\ offp[u] \in Places
  BY <1>1, <1>2
<1>14. QED BY <1>1, <1>3, <1>7, <1>8, <1>11, <1>12, <1>13 DEF m

-----------------------------------------------------------------------------
(* The bytes.                                                              *)

\* A byte that is warm stays warm.
StaysWarm == \A x \in 0 .. MaxMem-1 : FirmwareSees(x) # Cold => FirmwareSees(x)' # Cold

LEMMA NotCold ==
    /\ Zero # Cold /\ Zero \in Bytes
    /\ \A u \in Procs : \A k : Data(u, k) # Cold
    /\ \A u \in Procs, k \in 0 .. MaxMem-1 : Data(u, k) \in Bytes
<1>1. Zero # Cold /\ Zero \in Bytes
  BY DEF Zero, Cold, Byte, Bytes
<1>2. \A u \in Procs : \A k : Data(u, k) # Cold
  BY BufOpAssumption DEF Data, Cold, Byte
<1>3. \A u \in Procs, k \in 0 .. MaxMem-1 : Data(u, k) \in Bytes
  BY DEF Bytes
<1>4. QED BY <1>1, <1>2, <1>3

LEMMA MemMoves ==
    ASSUME BufInv, NEW u \in Procs, InCall(u), call[u].pos < call[u].count,
           NEW m \in Nat, NEW n \in Nat, m <= n, n <= PieceLen(u),
           mem' = IF call[u].write THEN Written(u, m, n) ELSE mem
    PROVE  mem' \in [0 .. NumChunks-1 -> [Offsets -> Bytes]] /\ StaysWarm
<1>1. mem \in [0 .. NumChunks-1 -> [Offsets -> Bytes]]
  BY DEF BufInv, TypeOK
<1>2. Written(u, m, n) \in [0 .. NumChunks-1 -> [Offsets -> Bytes]]
  <2> DEFINE p == call[u].pos
             f == ChunkOff(u)
             i == ChunkIdx(u)
             W == [o \in Offsets |-> IF o - f \in 0 .. m-1 THEN Data(u, p + (o - f))
                                     ELSE IF o - f \in 0 .. n-1 THEN Zero ELSE mem[i][o]]
  <2>1. /\ i \in 0 .. NumChunks-1 /\ p \in Nat /\ f \in Nat
        /\ \A k \in 0 .. m-1 : p + k \in 0 .. MaxMem-1
    <3>1. /\ PieceLen(u) \in 1 .. call[u].count - call[u].pos /\ i \in 0 .. NumChunks-1
          /\ f \in Nat
      BY Piece
    <3>2. /\ call[u].count \in Nat /\ p \in Nat /\ offp[u] \in Nat
          /\ offp[u] + call[u].count <= MaxMem
      BY CallFacts
    <3>3. QED BY <3>1, <3>2, Memory
  <2>2. Written(u, m, n) = [mem EXCEPT ![i] = W]
    BY <1>1, <2>1 DEF Written
  <2> HIDE DEF p, f, i
  <2>3. W \in [Offsets -> Bytes]
    <3>1. ASSUME NEW o \in Offsets PROVE W[o] \in Bytes
      <4>1. CASE o - f \in 0 .. m-1
        BY <2>1, <4>1, NotCold
      <4>2. CASE o - f \notin 0 .. m-1
        BY <1>1, <2>1, <4>2, NotCold
      <4>3. QED BY <4>1, <4>2
    <3>2. QED BY <3>1
  <2> HIDE DEF W
  <2>4. QED BY <1>1, <2>1, <2>2, <2>3
<1>3. ASSUME NEW x \in 0 .. MaxMem-1, FirmwareSees(x) # Cold
      PROVE  FirmwareSees(x)' # Cold
  <2>1. CASE call[u].write
    <3>1. FirmwareSees(x)' = Written(u, m, n)[x \div ChunkSz][x % ChunkSz]
      BY <2>1 DEF FirmwareSees
    <3>2. QED BY <1>3, <3>1, WrittenAt, NotCold DEF FirmwareSees
  <2>2. CASE ~call[u].write
    BY <1>3, <2>2 DEF FirmwareSees
  <2>3. QED BY <2>1, <2>2
<1>4. mem' \in [0 .. NumChunks-1 -> [Offsets -> Bytes]]
  BY <1>1, <1>2
<1>5. QED BY <1>3, <1>4 DEF StaysWarm

\* The bytes before the position of a writer that has copied a piece are warm.
LEMMA WrittenIsWarm ==
    ASSUME BufInv, NEW u \in Procs, Copy(u), call[u].write,
           WarmedUpTo(offp[u] + call[u].pos)
    PROVE  \A x \in 0 .. MaxMem-1 :
               x < offp[u] + call[u].pos + PieceLen(u) => FirmwareSees(x)' # Cold
<1> DEFINE m == PieceLen(u)
           p == call[u].pos
           a == offp[u]
<1>1. InCall(u) /\ p < call[u].count /\ mem' = Written(u, m, m)
  BY DEF Copy
<1>2. m \in Nat /\ p \in Nat /\ a \in Nat /\ m <= PieceLen(u)
  BY <1>1, Piece, CallFacts
<1>3. ASSUME NEW x \in 0 .. MaxMem-1, x < a + p + m PROVE FirmwareSees(x)' # Cold
  <2>1. FirmwareSees(x)' = Written(u, m, m)[x \div ChunkSz][x % ChunkSz]
    BY <1>1 DEF FirmwareSees
  <2>2. FirmwareSees(x)' = IF x - a \in p .. p + m - 1 THEN Data(u, x - a)
                           ELSE FirmwareSees(x)
    BY <1>1, <1>2, <2>1, WrittenAt DEF FirmwareSees
  <2>3. x - a \notin p .. p + m - 1 => x < a + p
    BY <1>2, <1>3
  <2>4. x < a + p => FirmwareSees(x) # Cold
    BY DEF WarmedUpTo
  <2>5. QED BY <2>2, <2>3, <2>4, NotCold
<1>4. QED BY <1>3

-----------------------------------------------------------------------------
(* The warming.                                                            *)

\* Steps of others do not disturb it.
LEMMA Undisturbed ==
    ASSUME WarmsInOrder, StaysWarm, UNCHANGED warmVars,
           call'[Warmer] = call[Warmer], offp'[Warmer] = offp[Warmer]
    PROVE  WarmsInOrder'
<1>1. ASSUME NEW n, WarmedUpTo(n)
      PROVE  \A x \in 0 .. MaxMem-1 : x < n => FirmwareSees(x)' # Cold
  BY <1>1 DEF StaysWarm, WarmedUpTo
<1>2. UNCHANGED <<win, wpc, pass, page, NumPages, InCall(Warmer), Reached(page * PageSz)>>
  BY DEF warmVars, NumPages, InCall, Reached
<1>3. pass' > 0 => WarmedUpTo(win)'
  <2>1. pass > 0 => WarmedUpTo(win)
    BY DEF WarmsInOrder
  <2>2. QED BY <1>1, <1>2, <2>1 DEF WarmedUpTo
<1>4. wpc = "write" => WarmedUpTo(offp[Warmer] + call[Warmer].pos)'
  <2>1. wpc = "write" => WarmedUpTo(offp[Warmer] + call[Warmer].pos)
    BY DEF WarmsInOrder
  <2>2. QED BY <1>1, <2>1 DEF WarmedUpTo
<1>5. QED BY <1>2, <1>3, <1>4 DEF WarmsInOrder

LEMMA WinFacts ==
    ASSUME BufInv
    PROVE  /\ win \in Nat \ {0} /\ NumPages \in Nat \ {0} /\ NumPages * PageSz \in Nat
           /\ win <= NumPages * PageSz /\ page \in Nat /\ page * PageSz \in Nat
           /\ (page + 1) * PageSz = page * PageSz + PageSz /\ PageSz \in Nat \ {0}
<1> USE BufOpAssumption
<1>1. win \in Nat \ {0} /\ page \in Nat
  BY DEF BufInv, TypeOK
<1>2. PICK q, r \in Nat : /\ win - 1 = q * PageSz + r /\ r < PageSz /\ q * PageSz \in Nat
                          /\ (win - 1) \div PageSz = q /\ (win - 1) % PageSz = r
  BY <1>1, Split
<1>3. NumPages = q + 1 /\ (q + 1) * PageSz = q * PageSz + PageSz
  BY <1>2 DEF NumPages
<1>4. page * PageSz \in Nat /\ (page + 1) * PageSz = page * PageSz + PageSz
  BY <1>1, ProductGrows
<1>5. QED BY <1>1, <1>2, <1>3, <1>4

\* A page begins where the last one ended, if there is room.
LEMMA NextPage ==
    ASSUME BufInv, offp[Warmer] = Reached(page * PageSz)
    PROVE  offp[Warmer] + Clipped(offp[Warmer], PageSz) = Reached((page + 1) * PageSz)
<1>1. QED BY WinFacts, Memory DEF Reached, Clipped

\* What the Warmer does to its own position, page and pass.
LEMMA WarmerStep ==
    ASSUME BufInv, WarmSeek \/ WarmPage \/ WarmPass
    PROVE  /\ WarmsInOrder' /\ TypeOK' /\ CallsMove'
<1> USE BufOpAssumption
<1>0. /\ Warmer \in Procs /\ WarmsInOrder /\ call \in [Procs -> CallRec]
      /\ offp \in [Procs -> Places] /\ win \in Wins /\ calls \in [Users -> 0 .. MaxCalls]
      /\ mem \in [0 .. NumChunks-1 -> [Offsets -> Bytes]] /\ pass \in 0 .. Passes
      /\ wpc \in {"seek", "write", "done"}
  BY CallsAre DEF BufInv, TypeOK, Procs
<1>1. CASE WarmSeek
  <2>1. ~InCall(Warmer) /\ call[Warmer] = NoCall
    BY <1>0, <1>1 DEF WarmSeek, WarmsInOrder, InCall
  <2>2. /\ offp' = [offp EXCEPT ![Warmer] = 0] /\ call' = [call EXCEPT ![Warmer] = NoCall]
        /\ 0 \in Places
    BY <1>0, <1>1, <2>1, Memory DEF WarmSeek, Places
  <2>3. CallsMove' /\ TypeOK'
    <3>1. offp' \in [Procs -> Places] /\ CallsMove' /\ CallsOK'
      BY <1>0, <2>2, OneCall, NoCallOK
    <3>2. QED BY <1>0, <1>1, <3>1, TypesNext DEF WarmSeek
  <2>4. offp'[Warmer] = 0 /\ call'[Warmer] = NoCall /\ page' = 0 /\ wpc' = "write"
        /\ pass' = pass /\ win' = win /\ mem' = mem /\ wpc = "seek"
    BY <1>0, <1>1, <2>2 DEF WarmSeek
  <2>5. pass' > 0 => WarmedUpTo(win)'
    BY <1>0, <2>4 DEF WarmsInOrder, WarmedUpTo, FirmwareSees
  <2>6. WarmedUpTo(offp[Warmer] + call[Warmer].pos)'
    BY <2>4 DEF WarmedUpTo, NoCall
  <2>7. (offp[Warmer] + call[Warmer].count)' = Reached(page * PageSz)'
    BY <2>4, Memory DEF Reached, NoCall
  <2>8. page' <= NumPages'
    BY <2>4, WinFacts DEF NumPages
  <2>9. ~InCall(Warmer)'
    BY <2>4 DEF InCall
  <2>10. pass' < Passes
    BY <1>0, <2>4 DEF WarmsInOrder
  <2>11. QED BY <2>3, <2>4, <2>5, <2>6, <2>7, <2>8, <2>9, <2>10 DEF WarmsInOrder
<1>2. CASE WarmPage
  <2>0. Enter(Warmer, TRUE, PageSz) /\ wpc = "write" /\ page < NumPages /\ page' = page + 1
        /\ UNCHANGED <<calls, win, wpc, pass>>
    BY <1>2 DEF WarmPage
  <2>1. PICK c \in CallRec :
              /\ CallOK(c, offp[Warmer]) /\ call' = [call EXCEPT ![Warmer] = c]
              /\ offp' = offp /\ mem' = mem /\ call[Warmer] = NoCall
              /\ offp' = [offp EXCEPT ![Warmer] = offp[Warmer]] /\ offp[Warmer] \in Places
              /\ c.pos = 0 /\ c.count = Clipped(offp[Warmer], PageSz) /\ offp[Warmer] \in Nat
              /\ c = NoCall \/ c.write = TRUE
    <3>1. Warmer \in Procs /\ PageSz \in Nat
      BY <1>0
    <3>2. PICK w \in BOOLEAN : w = TRUE
      OBVIOUS
    <3>3. Enter(Warmer, w, PageSz)
      BY <2>0, <3>2
    <3> HIDE BufOpAssumption
    <3>4. PICK c \in CallRec :
              /\ CallOK(c, offp[Warmer]) /\ call' = [call EXCEPT ![Warmer] = c]
              /\ offp' = offp /\ mem' = mem /\ call[Warmer] = NoCall
              /\ offp' = [offp EXCEPT ![Warmer] = offp[Warmer]] /\ offp[Warmer] \in Places
              /\ c.pos = 0 /\ c.count = Clipped(offp[Warmer], PageSz) /\ offp[Warmer] \in Nat
              /\ \/ c = NoCall
                 \/ c = [write |-> w, count |-> Clipped(offp[Warmer], PageSz), pos |-> 0,
                         got |-> <<>>] /\ c.count > 0
      BY <3>1, <3>3, Entered
    <3>5. c = NoCall \/ c.write = w
      BY <3>4
    <3>6. QED BY <3>2, <3>4, <3>5
  <2>2. CallsMove' /\ TypeOK'
    <3>1. offp' \in [Procs -> Places] /\ CallsMove' /\ CallsOK'
      BY <1>0, <2>1, OneCall
    <3>2. /\ mem' \in [0 .. NumChunks-1 -> [Offsets -> Bytes]] /\ win' \in Wins
          /\ calls' \in [Users -> 0 .. MaxCalls] /\ wpc' \in {"seek", "write", "done"}
          /\ pass' \in 0 .. Passes
      BY <1>0, <2>0, <2>1
    <3>3. page' \in Nat
      BY <2>0, WinFacts
    <3>4. QED BY <3>1, <3>2, <3>3, TypesNext
  <2>3. call'[Warmer] = c /\ offp'[Warmer] = offp[Warmer]
    BY <1>0, <2>1
  <2>4. offp[Warmer] = Reached(page * PageSz) /\ WarmedUpTo(offp[Warmer])
    BY <1>0, <2>0, <2>1 DEF WarmsInOrder, NoCall
  <2>5. pass' > 0 => WarmedUpTo(win)'
    BY <1>0, <2>0, <2>1 DEF WarmsInOrder, WarmedUpTo, FirmwareSees
  <2>6. WarmedUpTo(offp[Warmer] + call[Warmer].pos)'
    BY <2>1, <2>3, <2>4 DEF WarmedUpTo, FirmwareSees
  <2>7. (offp[Warmer] + call[Warmer].count)' = Reached(page * PageSz)'
    <3>1. offp[Warmer] + Clipped(offp[Warmer], PageSz) = Reached((page + 1) * PageSz)
      BY <2>4, NextPage
    <3>2. QED BY <2>0, <2>1, <2>3, <3>1 DEF Reached
  <2>8. page' <= NumPages' /\ page' > 0
    BY <2>0, WinFacts DEF NumPages
  <2>9. InCall(Warmer)' => call'[Warmer].write
    BY <2>1, <2>3 DEF InCall
  <2>10. wpc' = "write" /\ pass' < Passes
    BY <1>0, <2>0 DEF WarmsInOrder
  <2>11. QED BY <2>2, <2>5, <2>6, <2>7, <2>8, <2>9, <2>10 DEF WarmsInOrder
<1>3. CASE WarmPass
  <2>1. /\ wpc = "write" /\ ~InCall(Warmer) /\ page = NumPages /\ pass' = pass + 1
        /\ wpc' = (IF pass + 1 < Passes THEN "seek" ELSE "done")
        /\ UNCHANGED <<mem, offp, call, calls, win, page>>
    BY <1>3 DEF WarmPass
  <2>2. pass \in Nat /\ pass < Passes
    BY <1>0, <2>1 DEF WarmsInOrder
  <2>3. CallsMove' /\ TypeOK'
    <3>1. CallsMove'
      BY <2>1 DEF BufInv, CallsMove, InCall
    <3>2. pass' \in 0 .. Passes /\ wpc' \in {"seek", "write", "done"}
      BY <2>1, <2>2
    <3>3. QED BY <2>1, <3>1, <3>2 DEF BufInv, TypeOK, InCall
  <2>4. WarmedUpTo(win)
    <3>1. WarmedUpTo(offp[Warmer]) /\ offp[Warmer] = Reached(NumPages * PageSz)
      BY <1>0, <2>1, CallFacts DEF WarmsInOrder
    <3>2. ASSUME NEW x \in 0 .. MaxMem-1, x < win PROVE x < offp[Warmer]
      BY <3>1, <3>2, WinFacts, Memory DEF Reached
    <3>3. QED BY <3>1, <3>2 DEF WarmedUpTo
  <2>5. WarmedUpTo(win)' /\ ~InCall(Warmer)' /\ pass' > 0 /\ wpc' # "write"
        /\ (wpc' # "done" => pass' < Passes)
    BY <2>1, <2>2, <2>4 DEF WarmedUpTo, FirmwareSees, InCall
  <2>6. QED BY <2>3, <2>5 DEF WarmsInOrder
<1>4. QED BY <1>1, <1>2, <1>3

-----------------------------------------------------------------------------
(* Calls' steps.                                                           *)

LEMMA SeekStep ==
    ASSUME BufInv, NEW u \in Users, UserSeek(u)
    PROVE  BufInv'
<1>1. /\ ~InCall(u) /\ UNCHANGED <<mem, call, calls, warmVars>> /\ u \in Procs /\ u # Warmer
      /\ Warmer \in Procs
  BY BufOpAssumption DEF UserSeek, Procs
<1>2. PICK x \in Seeks : offp' = [offp EXCEPT ![u] = x]
  BY DEF UserSeek
<1>3. call[u] = NoCall /\ call \in [Procs -> CallRec] /\ offp \in [Procs -> Places]
      /\ x \in Places
  BY <1>1, CallsAre DEF InCall, Places
<1>4. call' = [call EXCEPT ![u] = NoCall]
  BY <1>1, <1>3
<1>5. offp' \in [Procs -> Places] /\ CallsMove' /\ CallsOK'
  BY <1>1, <1>2, <1>3, <1>4, NoCallOK, OneCall
<1>6. TypeOK'
  BY <1>1, <1>5, TypesNext DEF BufInv, TypeOK, warmVars
<1>7. StaysWarm
  BY <1>1 DEF StaysWarm, FirmwareSees
<1>8. WarmsInOrder'
  BY <1>1, <1>2, <1>3, <1>7, Undisturbed DEF BufInv
<1>9. QED BY <1>5, <1>6, <1>8 DEF BufInv

LEMMA CallStep ==
    ASSUME BufInv, NEW u \in Users, UserCall(u)
    PROVE  BufInv'
<1>1. /\ calls[u] < MaxCalls /\ calls' = [calls EXCEPT ![u] = @ + 1] /\ UNCHANGED warmVars
      /\ u \in Procs /\ u # Warmer /\ Warmer \in Procs
  BY BufOpAssumption DEF UserCall, Procs
<1>2. PICK w \in BOOLEAN, n \in Counts : Enter(u, w, n)
  BY DEF UserCall
<1>3. n \in Nat
  BY BufOpAssumption
<1>4. PICK c \in CallRec :
              /\ CallOK(c, offp[u]) /\ call' = [call EXCEPT ![u] = c]
              /\ offp' = offp /\ mem' = mem /\ call[u] = NoCall
              /\ offp' = [offp EXCEPT ![u] = offp[u]] /\ offp[u] \in Places
              /\ c.pos = 0 /\ c.count = Clipped(offp[u], n) /\ offp[u] \in Nat
              /\ \/ c = NoCall
                 \/ c = [write |-> w, count |-> Clipped(offp[u], n), pos |-> 0, got |-> <<>>]
                    /\ c.count > 0
  BY <1>1, <1>2, <1>3, Entered
<1>5. offp' \in [Procs -> Places] /\ CallsMove' /\ CallsOK'
  BY <1>1, <1>4, OneCall
<1>6. calls \in [Users -> 0 .. MaxCalls] /\ calls' \in [Users -> 0 .. MaxCalls]
  BY <1>1, BufOpAssumption DEF BufInv, TypeOK
<1>7. TypeOK'
  BY <1>1, <1>4, <1>5, <1>6, TypesNext DEF BufInv, TypeOK, warmVars
<1>8. StaysWarm
  BY <1>4 DEF StaysWarm, FirmwareSees
<1>9. call'[Warmer] = call[Warmer] /\ offp'[Warmer] = offp[Warmer]
  BY <1>1, <1>4, CallsAre
<1>10. WarmsInOrder'
  BY <1>1, <1>8, <1>9, Undisturbed DEF BufInv
<1>11. QED BY <1>5, <1>7, <1>10 DEF BufInv

LEMMA FaultStep ==
    ASSUME BufInv, NEW u \in Users, CopyFaults(u)
    PROVE  BufInv'
<1>1. /\ InCall(u) /\ call[u].pos < call[u].count /\ UNCHANGED <<offp, calls, warmVars>>
      /\ call' = [call EXCEPT ![u] = NoCall]
      /\ u \in Procs /\ u # Warmer /\ Warmer \in Procs
  BY BufOpAssumption DEF CopyFaults, Procs
<1>2. PICK m \in 0 .. PieceLen(u)-1 : \E n \in {m, PieceLen(u)} :
          mem' = IF call[u].write THEN Written(u, m, n) ELSE mem
  BY DEF CopyFaults
<1>3. PICK n \in {m, PieceLen(u)} : mem' = IF call[u].write THEN Written(u, m, n) ELSE mem
  BY <1>2
<1>4. PieceLen(u) \in 1 .. call[u].count - call[u].pos /\ call[u].count \in Nat
      /\ call[u].pos \in Nat
  BY <1>1, Piece, CallFacts
<1>5. m \in Nat /\ n \in Nat /\ m <= n /\ n <= PieceLen(u)
  BY <1>4
<1>6. mem' \in [0 .. NumChunks-1 -> [Offsets -> Bytes]] /\ StaysWarm
  BY <1>1, <1>3, <1>5, MemMoves
<1>7. offp' = [offp EXCEPT ![u] = offp[u]] /\ offp[u] \in Places
  BY <1>1, CallsAre
<1>8. offp' \in [Procs -> Places] /\ CallsMove' /\ CallsOK'
  BY <1>1, <1>7, NoCallOK, OneCall
<1>9. TypeOK'
  BY <1>1, <1>6, <1>8, TypesNext DEF BufInv, TypeOK, warmVars
<1>10. call'[Warmer] = call[Warmer] /\ offp'[Warmer] = offp[Warmer]
  BY <1>1, CallsAre
<1>11. WarmsInOrder'
  BY <1>1, <1>6, <1>10, Undisturbed DEF BufInv
<1>12. QED BY <1>8, <1>9, <1>11 DEF BufInv

\* What the Warmer wrote is warm, and so is all before it.
LEMMA WarmerCopied ==
    ASSUME BufInv, StaysWarm, Copy(Warmer), call'[Warmer].count = call[Warmer].count,
           call'[Warmer].pos = call[Warmer].pos + PieceLen(Warmer),
           call'[Warmer].write = call[Warmer].write
    PROVE  WarmsInOrder'
<1>1. InCall(Warmer) /\ UNCHANGED <<offp, warmVars>> /\ Warmer \in Procs /\ WarmsInOrder
  BY DEF Copy, Procs, BufInv
<1>2. wpc = "write" /\ call[Warmer].write /\ page > 0
      /\ WarmedUpTo(offp[Warmer] + call[Warmer].pos)
      /\ offp[Warmer] + call[Warmer].count = Reached(page * PageSz) /\ page <= NumPages
  BY <1>1 DEF WarmsInOrder
<1>3. /\ call[Warmer].pos \in Nat /\ PieceLen(Warmer) \in Nat /\ offp[Warmer] \in Nat
  BY <1>1, Piece, CallFacts DEF Copy
<1>4. WarmedUpTo(offp[Warmer] + call[Warmer].pos)'
  <2>1. \A x \in 0 .. MaxMem-1 :
            x < offp[Warmer] + call[Warmer].pos + PieceLen(Warmer) => FirmwareSees(x)' # Cold
    BY <1>1, <1>2, WrittenIsWarm
  <2>2. (offp[Warmer] + call[Warmer].pos)' = offp[Warmer] + call[Warmer].pos + PieceLen(Warmer)
    BY <1>1, <1>3
  <2>3. QED BY <2>1, <2>2 DEF WarmedUpTo
<1>5. UNCHANGED <<win, wpc, pass, page, NumPages, Reached(page * PageSz)>>
  BY <1>1 DEF warmVars, NumPages, Reached
<1>6. pass' > 0 => WarmedUpTo(win)'
  BY <1>1, <1>5 DEF WarmsInOrder, WarmedUpTo, StaysWarm
<1>7. (offp[Warmer] + call[Warmer].count)' = offp[Warmer] + call[Warmer].count
  BY <1>1
<1>8. QED BY <1>1, <1>2, <1>4, <1>5, <1>6, <1>7 DEF WarmsInOrder

LEMMA CopyStep ==
    ASSUME BufInv, NEW u \in Procs, Copy(u)
    PROVE  BufInv'
<1>1. /\ InCall(u) /\ call[u].pos < call[u].count /\ offp' = offp
      /\ mem' = IF call[u].write THEN Written(u, PieceLen(u), PieceLen(u)) ELSE mem
  BY Copied
<1>2. PICK c \in CallRec :
                 /\ CallOK(c, offp[u]) /\ call' = [call EXCEPT ![u] = c]
                 /\ offp' = [offp EXCEPT ![u] = offp[u]] /\ offp[u] \in Places
                 /\ c.pos = call[u].pos + PieceLen(u) /\ c.count = call[u].count
                 /\ c.write = call[u].write /\ c # NoCall
  BY Copied
<1>3. UNCHANGED <<calls, warmVars>> /\ Warmer \in Procs
  BY DEF Copy, Procs
<1>4. PieceLen(u) \in 1 .. call[u].count - call[u].pos /\ call[u].count \in Nat
      /\ call[u].pos \in Nat
  BY <1>1, Piece, CallFacts
<1>5. mem' \in [0 .. NumChunks-1 -> [Offsets -> Bytes]] /\ StaysWarm
  BY <1>1, <1>4, MemMoves
<1>6. offp' \in [Procs -> Places] /\ CallsMove' /\ CallsOK'
  BY <1>2, OneCall
<1>7. TypeOK'
  BY <1>3, <1>5, <1>6, TypesNext DEF BufInv, TypeOK, warmVars
<1>8. WarmsInOrder'
  <2>1. CASE u = Warmer
    <3>1. call'[Warmer] = c
      BY <1>2, <2>1, CallsAre
    <3>2. QED BY <1>2, <1>5, <2>1, <3>1, WarmerCopied
  <2>2. CASE u # Warmer
    <3>1. call'[Warmer] = call[Warmer] /\ offp'[Warmer] = offp[Warmer]
      BY <1>1, <1>2, <1>3, <2>2, CallsAre
    <3>2. QED BY <1>3, <1>5, <3>1, Undisturbed DEF BufInv
  <2>3. QED BY <2>1, <2>2
<1>9. QED BY <1>6, <1>7, <1>8 DEF BufInv

LEMMA LeaveStep ==
    ASSUME BufInv, NEW u \in Procs, Leave(u)
    PROVE  BufInv'
<1>1. /\ InCall(u) /\ call[u].pos = call[u].count
      /\ offp' = [offp EXCEPT ![u] = @ + call[u].pos] /\ call' = [call EXCEPT ![u] = NoCall]
      /\ UNCHANGED <<mem, calls, warmVars>> /\ Warmer \in Procs
  BY DEF Leave, Procs
<1>2. /\ offp[u] \in Nat /\ call[u].pos \in Nat /\ call[u].count \in Nat
      /\ offp[u] + call[u].count <= MaxMem
  BY <1>1, CallFacts
<1>3. offp[u] + call[u].pos \in Places
  BY <1>1, <1>2, Memory DEF Places
<1>4. offp \in [Procs -> Places] /\ call \in [Procs -> CallRec]
  BY CallsAre
<1>5. offp' = [offp EXCEPT ![u] = offp[u] + call[u].pos]
  BY <1>1
<1>6. offp' \in [Procs -> Places] /\ CallsMove' /\ CallsOK'
  BY <1>1, <1>3, <1>5, NoCallOK, OneCall
<1>7. TypeOK'
  BY <1>1, <1>6, TypesNext DEF BufInv, TypeOK, warmVars
<1>8. StaysWarm
  BY <1>1 DEF StaysWarm, FirmwareSees
<1>9. WarmsInOrder'
  <2>1. CASE u = Warmer
    <3>1. call'[Warmer] = NoCall /\ offp'[Warmer] = offp[Warmer] + call[Warmer].pos
      BY <1>1, <1>4, <1>5, <2>1
    <3>2. wpc = "write" /\ WarmedUpTo(offp[Warmer] + call[Warmer].pos)
          /\ offp[Warmer] + call[Warmer].count = Reached(page * PageSz) /\ page <= NumPages
      BY <1>1, <2>1 DEF BufInv, WarmsInOrder
    <3>3. (offp[Warmer] + call[Warmer].pos)' = offp[Warmer] + call[Warmer].pos
          /\ (offp[Warmer] + call[Warmer].count)' = offp[Warmer] + call[Warmer].count
      BY <1>1, <1>2, <2>1, <3>1 DEF NoCall
    <3>4. UNCHANGED <<win, wpc, pass, page, NumPages, Reached(page * PageSz)>> /\ ~InCall(Warmer)'
      BY <1>1, <3>1 DEF warmVars, NumPages, Reached, InCall
    <3>5. WarmedUpTo(offp[Warmer] + call[Warmer].pos)'
      BY <1>1, <3>2, <3>3 DEF WarmedUpTo, FirmwareSees
    <3>6. pass' > 0 => WarmedUpTo(win)'
      BY <1>1, <3>4 DEF BufInv, WarmsInOrder, WarmedUpTo, FirmwareSees
    <3>7. QED BY <3>2, <3>3, <3>4, <3>5, <3>6 DEF BufInv, WarmsInOrder
  <2>2. CASE u # Warmer
    <3>1. call'[Warmer] = call[Warmer] /\ offp'[Warmer] = offp[Warmer]
      BY <1>1, <1>4, <2>2
    <3>2. QED BY <1>1, <1>8, <3>1, Undisturbed DEF BufInv
  <2>3. QED BY <2>1, <2>2
<1>10. QED BY <1>6, <1>7, <1>9 DEF BufInv

-----------------------------------------------------------------------------
(* The theorems.                                                           *)

LEMMA Start == Init => BufInv
<1> SUFFICES ASSUME Init PROVE BufInv
  OBVIOUS
<1> USE BufOpAssumption
<1>1. /\ mem = [c \in 0 .. NumChunks-1 |-> [o \in Offsets |-> Cold]]
      /\ offp = [u \in Procs |-> 0] /\ call = [u \in Procs |-> NoCall]
      /\ calls = [u \in Users |-> 0]
      /\ win \in Wins /\ wpc = "seek" /\ pass = 0 /\ page = 0
  BY DEF Init
<1>2. \A u \in Procs : call[u] = NoCall /\ ~InCall(u)
  BY <1>1 DEF InCall
<1>3. TypeOK
  <2>1. Cold \in Bytes
    BY DEF Bytes
  <2>2. mem \in [0 .. NumChunks-1 -> [Offsets -> Bytes]]
    BY <1>1, <2>1
  <2>3. offp \in [Procs -> (0 .. MaxMem) \cup Seeks]
    BY <1>1, Memory
  <2>4. \A u \in Procs : /\ call[u].pos \in 0 .. call[u].count
                         /\ Len(call[u].got) = IF call[u].write THEN 0 ELSE call[u].pos
    BY <1>2 DEF NoCall
  <2>5. calls \in [Users -> 0 .. MaxCalls] /\ pass \in 0 .. Passes /\ page \in Nat
    BY <1>1
  <2>6. QED BY <1>1, <1>2, <2>2, <2>3, <2>4, <2>5 DEF TypeOK
<1>4. CallsMove
  <2>1. call \in [Procs -> CallRec]
    BY <1>1, NoCallOK
  <2>2. QED BY <1>2, <2>1 DEF CallsMove, CallRec
<1>5. WarmsInOrder
  <2>1. Warmer \in Procs
    BY DEF Procs
  <2>2. QED BY <1>1, <1>2, <2>1 DEF WarmsInOrder
<1>6. QED BY <1>3, <1>4, <1>5 DEF BufInv

LEMMA Step == BufInv /\ [Next]_vars => BufInv'
<1> SUFFICES ASSUME BufInv, [Next]_vars PROVE BufInv'
  OBVIOUS
<1>1. CASE UNCHANGED vars
  <2>1. UNCHANGED <<mem, offp, call, calls, win, wpc, pass, page>>
    BY <1>1 DEF vars, warmVars
  <2>2. TypeOK' /\ CallsMove'
    BY <2>1 DEF BufInv, TypeOK, CallsMove, InCall
  <2>3. StaysWarm
    BY <2>1 DEF StaysWarm, FirmwareSees
  <2>4. WarmsInOrder'
    BY <2>1, <2>3, Undisturbed DEF BufInv, warmVars
  <2>5. QED BY <2>2, <2>4 DEF BufInv
<1>2. ASSUME NEW u \in Users, UserSeek(u) \/ UserCall(u) \/ CopyFaults(u) PROVE BufInv'
  BY <1>2, SeekStep, CallStep, FaultStep
<1>3. ASSUME NEW u \in Procs, Copy(u) \/ Leave(u) PROVE BufInv'
  BY <1>3, CopyStep, LeaveStep
<1>4. CASE Warm
  BY <1>4, WarmerStep DEF Warm, BufInv
<1>5. QED BY <1>1, <1>2, <1>3, <1>4 DEF Next

\* The invariant of the buffer file and the warming holds of every behaviour, for
\* buffers, windows and pages of any size and any number of users (BufInv).
THEOREM Invariance == Spec => []BufInv
<1>1. QED BY Start, Step, PTL DEF Spec

\* When warming is over, every byte a test with this window can access was written,
\* whatever the users' calls did in between (WindowIsWarm; nfp-pciebench-helper.c, 76-111).
THEOREM Warmed == Spec => []WindowIsWarm
<1>1. BufInv => WindowIsWarm
  BY DEF BufInv, WarmsInOrder, WarmedUpTo, WindowIsWarm
<1>2. QED BY <1>1, Invariance, PTL

-----------------------------------------------------------------------------
(* The chunks are one file.                                                *)

File == [x \in 0 .. MaxMem-1 |-> mem[x \div ChunkSz][x % ChunkSz]]
FlatStep == [Flat!Next]_<<File, offp, call>>

\* Writing a part of a piece writes the same bytes of the file.
LEMMA FileMoves ==
    ASSUME BufInv, NEW u \in Procs, InCall(u), call[u].pos < call[u].count,
           NEW m \in Nat, NEW n \in Nat, m <= n, n <= PieceLen(u),
           mem' = IF call[u].write THEN Written(u, m, n) ELSE mem
    PROVE  File' = IF call[u].write THEN Flat!Moved(u, m, n) ELSE File
<1>1. CASE call[u].write
  <2>1. File' = [x \in 0 .. MaxMem-1 |-> Written(u, m, n)[x \div ChunkSz][x % ChunkSz]]
    BY <1>1 DEF File
  <2>2. Flat!Moved(u, m, n) =
          [x \in 0 .. MaxMem-1 |->
               LET k == x - offp[u]
               IN  IF k \in call[u].pos .. call[u].pos + m - 1 THEN Data(u, k)
                   ELSE IF k \in call[u].pos .. call[u].pos + n - 1 THEN Zero
                   ELSE mem[x \div ChunkSz][x % ChunkSz]]
    BY DEF Flat!Moved
  <2>3. QED BY <1>1, <2>1, <2>2, WrittenAt
<1>2. CASE ~call[u].write
  BY <1>2 DEF File
<1>3. QED BY <1>1, <1>2

\* A piece of a chunk is a piece of the file.
LEMMA FilePiece ==
    ASSUME BufInv, NEW u \in Procs, InCall(u), call[u].pos < call[u].count
    PROVE  [k \in 1 .. PieceLen(u) |-> mem[ChunkIdx(u)][ChunkOff(u) + k - 1]] =
               [k \in 1 .. PieceLen(u) |-> File[offp[u] + call[u].pos + k - 1]]
<1> USE BufOpAssumption
<1> DEFINE i == ChunkIdx(u)
           f == ChunkOff(u)
           l == PieceLen(u)
           a == offp[u] + call[u].pos
<1>1. /\ l \in 1 .. call[u].count - call[u].pos /\ i \in 0 .. NumChunks-1 /\ f \in Nat
      /\ f + l <= ChunkSz /\ a = i * ChunkSz + f
  BY Piece
<1>2. a \in Nat /\ a + l <= MaxMem /\ l \in Nat /\ MaxMem \in Nat /\ i \in Nat
  <2>1. /\ offp[u] \in Nat /\ call[u].pos \in Nat /\ call[u].count \in Nat
        /\ offp[u] + call[u].count <= MaxMem
    BY CallFacts
  <2> HIDE DEF i, f, l
  <2>2. QED BY <1>1, <2>1, Memory
<1> HIDE DEF i, f, l, a
<1>3. ASSUME NEW k \in 1 .. l PROVE mem[i][f + k - 1] = File[a + k - 1]
  <2>1. a + k - 1 \in 0 .. MaxMem-1 /\ f + k - 1 \in Nat /\ f + k - 1 < ChunkSz
    BY <1>1, <1>2
  <2>2. PICK e \in Nat : e = f + k - 1
    BY <2>1
  <2>3. a + k - 1 = i * ChunkSz + e
    BY <1>1, <1>2, <2>2, ProductGrows
  <2>4. (i * ChunkSz + e) \div ChunkSz = i /\ (i * ChunkSz + e) % ChunkSz = e
    BY <1>2, <2>1, <2>2, DivModUnique
  <2>5. QED BY <2>1, <2>2, <2>3, <2>4 DEF File
<1>4. QED BY <1>3 DEF i, f, l, a

LEMMA FlatNoCall == Flat!NoCall = NoCall
<1>1. QED BY DEF Flat!NoCall, NoCall

LEMMA FlatSeeks ==
    ASSUME NEW u \in Procs, ~InCall(u), NEW x \in Seeks \cup {0},
           offp' = [offp EXCEPT ![u] = x], UNCHANGED <<mem, call>>
    PROVE  FlatStep
<1>1. Flat!Seek(u)
  BY FlatNoCall DEF Flat!Seek, InCall, File
<1>2. QED BY <1>1 DEF FlatStep, Flat!Next

LEMMA FlatBegins ==
    ASSUME BufInv, NEW u \in Procs, NEW w \in BOOLEAN, NEW n \in Nat, Enter(u, w, n)
    PROVE  FlatStep
<1>1. PICK c \in CallRec :
              /\ CallOK(c, offp[u]) /\ call' = [call EXCEPT ![u] = c]
              /\ offp' = offp /\ mem' = mem /\ call[u] = NoCall
              /\ offp' = [offp EXCEPT ![u] = offp[u]] /\ offp[u] \in Places
              /\ c.pos = 0 /\ c.count = Clipped(offp[u], n) /\ offp[u] \in Nat
              /\ \/ c = NoCall
                 \/ c = [write |-> w, count |-> Clipped(offp[u], n), pos |-> 0, got |-> <<>>]
                    /\ c.count > 0
  BY Entered
<1>2. File' = File
  BY <1>1 DEF File
<1>3. CASE c = NoCall
  <2>1. call' = call
    BY <1>1, <1>3, CallsAre
  <2>2. QED BY <1>1, <1>2, <2>1 DEF FlatStep
<1>4. CASE c # NoCall
  <2>1. c = [write |-> w, count |-> c.count, pos |-> 0, got |-> <<>>] /\ c.count > 0
        /\ offp[u] + c.count <= MaxMem /\ c.count \in Nat
    BY <1>1, <1>4 DEF CallOK, CallRec
  <2>2. c.count \in 1 .. MaxMem - offp[u]
    BY <1>1, <2>1, Memory
  <2>3. c = [NoCall EXCEPT !.write = w, !.count = c.count]
    <3> DEFINE b == [NoCall EXCEPT !.write = w, !.count = c.count]
    <3>1. b \in CallRec
      BY <2>1, NoCallOK DEF CallRec
    <3>2. b.write = w /\ b.count = c.count /\ b.pos = 0 /\ b.got = <<>>
      BY DEF NoCall
    <3>3. c.write = w /\ c.pos = 0 /\ c.got = <<>>
      BY <2>1
    <3> HIDE DEF b
    <3>4. b = c
      BY <3>1, <3>2, <3>3 DEF CallRec
    <3>5. QED BY <3>4 DEF b
  <2>4. call' = [call EXCEPT ![u] = [Flat!NoCall EXCEPT !.write = w, !.count = c.count]]
    BY <1>1, <2>3, FlatNoCall
  <2>5. Flat!Begin(u)
    BY <1>1, <1>2, <2>2, <2>4, FlatNoCall DEF Flat!Begin, File
  <2>6. QED BY <2>5 DEF FlatStep, Flat!Next
<1>5. QED BY <1>3, <1>4

LEMMA FlatMoves ==
    ASSUME BufInv, NEW u \in Procs, Copy(u)
    PROVE  FlatStep
<1> DEFINE m == PieceLen(u)
<1>1. /\ InCall(u) /\ call[u].pos < call[u].count /\ offp' = offp
      /\ mem' = IF call[u].write THEN Written(u, m, m) ELSE mem
  BY Copied
<1>2. m \in 1 .. call[u].count - call[u].pos /\ m \in Nat
  BY <1>1, Piece, CallFacts
<1>3. File' = IF call[u].write THEN Flat!Moved(u, m, m) ELSE File
  BY <1>1, <1>2, FileMoves
<1>4. call' = [call EXCEPT ![u].pos = @ + m,
                           ![u].got = IF call[u].write THEN @ ELSE
                 @ \o [k \in 1 .. m |-> File[offp[u] + call[u].pos + k - 1]]]
  <2>1. call' = [call EXCEPT ![u].pos = @ + m,
                             ![u].got = IF call[u].write THEN @ ELSE
                   @ \o [k \in 1 .. m |-> mem[ChunkIdx(u)][ChunkOff(u) + k - 1]]]
    BY DEF Copy
  <2>2. QED BY <1>1, <2>1, FilePiece
<1>5. Flat!Move(u)
  BY <1>1, <1>2, <1>3, <1>4 DEF Flat!Move, File
<1>6. QED BY <1>5 DEF FlatStep, Flat!Next

LEMMA FlatFails ==
    ASSUME BufInv, NEW u \in Procs, CopyFaults(u)
    PROVE  FlatStep
<1>1. /\ InCall(u) /\ call[u].pos < call[u].count /\ UNCHANGED <<offp, calls, warmVars>>
      /\ call' = [call EXCEPT ![u] = NoCall]
  BY DEF CopyFaults
<1>2. PICK m \in 0 .. PieceLen(u)-1 : \E n \in {m, PieceLen(u)} :
          mem' = IF call[u].write THEN Written(u, m, n) ELSE mem
  BY DEF CopyFaults
<1>3. PICK n \in {m, PieceLen(u)} : mem' = IF call[u].write THEN Written(u, m, n) ELSE mem
  BY <1>2
<1>4. PieceLen(u) \in 1 .. call[u].count - call[u].pos /\ call[u].count \in Nat
      /\ call[u].pos \in Nat
  BY <1>1, Piece, CallFacts
<1>5. m \in Nat /\ n \in Nat /\ m <= n /\ n <= PieceLen(u)
  BY <1>4
<1>6. File' = IF call[u].write THEN Flat!Moved(u, m, n) ELSE File
  BY <1>1, <1>3, <1>5, FileMoves
<1>7. n \in 0 .. call[u].count - call[u].pos /\ m \in 0 .. n
  BY <1>4, <1>5
<1>8. Flat!Fail(u)
  BY <1>1, <1>6, <1>7, FlatNoCall DEF Flat!Fail, InCall, File
<1>9. QED BY <1>8 DEF FlatStep, Flat!Next

LEMMA FlatReturns ==
    ASSUME BufInv, NEW u \in Procs, Leave(u)
    PROVE  FlatStep
<1>1. Flat!Return(u)
  BY FlatNoCall DEF Leave, Flat!Return, InCall, File
<1>2. QED BY <1>1 DEF FlatStep, Flat!Next

LEMMA FlatNext == BufInv /\ [Next]_vars => FlatStep
<1> SUFFICES ASSUME BufInv, [Next]_vars PROVE FlatStep
  OBVIOUS
<1>1. CASE UNCHANGED <<mem, offp, call>>
  BY <1>1 DEF FlatStep, File
<1>2. ASSUME NEW u \in Users, UserSeek(u) \/ UserCall(u) \/ CopyFaults(u) PROVE FlatStep
  <2>1. u \in Procs
    BY DEF Procs
  <2>2. CASE UserSeek(u)
    BY <2>1, <2>2, FlatSeeks DEF UserSeek
  <2>3. CASE UserCall(u)
    <3>1. PICK w \in BOOLEAN, n \in Counts : Enter(u, w, n)
      BY <2>3 DEF UserCall
    <3>2. QED BY <2>1, <3>1, FlatBegins, BufOpAssumption
  <2>4. QED BY <1>2, <2>1, <2>2, <2>3, FlatFails
<1>3. ASSUME NEW u \in Procs, Copy(u) \/ Leave(u) PROVE FlatStep
  BY <1>3, FlatMoves, FlatReturns
<1>4. CASE WarmSeek
  <2>1. Warmer \in Procs /\ ~InCall(Warmer)
    BY <1>4 DEF Procs, WarmSeek, BufInv, WarmsInOrder
  <2>2. QED BY <1>4, <2>1, FlatSeeks DEF WarmSeek
<1>5. CASE WarmPage
  <2>1. Warmer \in Procs /\ Enter(Warmer, TRUE, PageSz) /\ PageSz \in Nat
    BY <1>5, BufOpAssumption DEF Procs, WarmPage
  <2>2. QED BY <2>1, FlatBegins
<1>6. CASE WarmPass \/ UNCHANGED vars
  BY <1>1, <1>6 DEF WarmPass, vars
<1>7. QED BY <1>2, <1>3, <1>4, <1>5, <1>6 DEF Next, Warm

LEMMA FlatInit == Init => Flat!Init
<1> SUFFICES ASSUME Init PROVE Flat!Init
  OBVIOUS
<1>1. ASSUME NEW x \in 0 .. MaxMem-1 PROVE mem[x \div ChunkSz][x % ChunkSz] = Cold
  <2>1. PICK c \in 0 .. NumChunks-1, o \in Offsets :
            x = c * ChunkSz + o /\ x \div ChunkSz = c /\ x % ChunkSz = o
    BY Place
  <2>2. QED BY <2>1 DEF Init
<1>2. QED BY <1>1, FlatNoCall DEF Init, Flat!Init

\* The separately allocated chunks, copied a piece at a time without a lock, are for
\* every user the one file that npb_buf_op means to provide (ImplementsFlat).
THEOREM FlatImplemented == Spec => ImplementsFlat
<1>1. BufInv /\ [Next]_vars =>
        [Flat!Next]_<<[x \in 0 .. MaxMem-1 |-> mem[x \div ChunkSz][x % ChunkSz]], offp, call>>
  BY FlatNext DEF FlatStep, File
<1>2. QED BY <1>1, FlatInit, Invariance, PTL DEF Spec, ImplementsFlat, Flat!Spec
=============================================================================
