------------------------------ MODULE MCLatTest ------------------------------
(* Small instances of LatTest: lines of 2 units, pages of 4 lines, chunks   *)
(* of a page, BARs of two pages, three chunks.                              *)
EXTENDS LatTestInv

P(random, sz, win, hoff, flag) ==
    [random |-> random, long |-> flag = "long", warm |-> flag = "warm",
     thrash |-> flag = "thrash", sz |-> sz, win |-> win, hoff |-> hoff]

\* Sequential: units of 1 to 4 lines, aligned or not; 3-line units do not
\* divide a page, so some are skipped.  Windows of part of a chunk, of a chunk
\* and a bit, and of all three.  Too large an offset is refused.
MCSeqParams == {P(FALSE, s, w, h, f) :
                    s \in {1, 2, 5, 8}, w \in {4, 14, 24}, h \in {0, 1, 4},
                    f \in {"none", "long", "warm", "thrash"}}

\* Random, few units, because every sequence of draws is a behaviour: one unit
\* of two crosses a page; two units in different chunks and BARs.
MCRandomParams == {P(TRUE, 5, 16, 0, "none"), P(TRUE, 2, 14, 4, "none")}
\* Nothing at no offset: a unit of size 0.
MCNothing == P(FALSE, 0, 14, 0, "none")

MCParams == MCSeqParams \cup MCRandomParams \cup {MCNothing}

\* Chunks side by side, two to a BAR, and scattered in reverse order; and two
\* placements the host refuses: across two BARs and off the page grid.
Base(a, b, c) == [k \in 0 .. 2 |-> IF k = 0 THEN a ELSE IF k = 1 THEN b ELSE c]
MCBases == {Base(0, 8, 16), Base(56, 40, 24), Base(12, 24, 32), Base(0, 9, 24)}
=============================================================================
