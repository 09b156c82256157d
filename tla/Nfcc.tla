-------------------------------- MODULE Nfcc --------------------------------
(***************************************************************************)
(* Division as the firmware has it: microengines cannot divide, and the    *)
(* compiler turns / and % into calls of me/libnfcc.c, which shifts and     *)
(* subtracts in words of WordBits bits.                                    *)
(***************************************************************************)
EXTENDS Integers

CONSTANT WordBits     \* 32 in the code

ASSUME NfccAssumption == WordBits \in Nat \ {0}

Pow2[n \in 0 .. WordBits] == IF n = 0 THEN 1 ELSE 2 * Pow2[n - 1]
Word == Pow2[WordBits]
AllOnes == Word - 1

\* hi <<= 1, with the top bit of lo moving in.
ShiftsInZero(hi, lo) == (2 * hi) % Word                             \* mutant
ShiftIn(hi, lo) == (2 * hi + (lo \div (Word \div 2))) % Word

\* The loop of _div_mod_32: hi becomes the remainder, lo the quotient.
Subtracted(hi, lo, y) == IF hi >= y THEN [hi |-> hi - y, lo |-> lo + 1]
                                    ELSE [hi |-> hi, lo |-> lo]
DivStep(s, y) == Subtracted(ShiftIn(s.hi, s.lo), (2 * s.lo) % Word, y)
Divided(x, y) ==
    LET hilo[i \in 0 .. WordBits] ==
            IF i = 0 THEN [hi |-> 0, lo |-> x] ELSE DivStep(hilo[i-1], y)
    IN  hilo[WordBits]

Words == 0 .. AllOnes
Div == [x \in Words |-> [y \in Words |-> IF y = 0 THEN AllOnes ELSE Divided(x, y).lo]]
Mod == [x \in Words |-> [y \in Words |-> IF y = 0 THEN AllOnes ELSE Divided(x, y).hi]]

\* What C promises of division, and all ones where it promises nothing.
Exact == \A x, y \in Words :
    IF y = 0 THEN Div[x][y] = AllOnes /\ Mod[x][y] = AllOnes
             ELSE Div[x][y] = x \div y /\ Mod[x][y] = x % y
=============================================================================
