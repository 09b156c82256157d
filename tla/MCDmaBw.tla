------------------------------- MODULE MCDmaBw -------------------------------
(* Small instances of DmaBw and the properties they are checked for.       *)
EXTENDS DmaBwReuseInv

P(long, sz, win, hoff, doff) ==
    [long |-> long, sz |-> sz, win |-> win, hoff |-> hoff, doff |-> doff]

\* Pages of 4 units, 4-bit words.
Default  == P(FALSE, 2, 8, 0, 0)
Long     == P(TRUE, 1, 8, 1, 1)
Crossing == P(FALSE, 3, 8, 2, 0)      \* refused: size and offset exceed a page
Wrapping == P(FALSE, 2, 8, 15, 0)     \* accepted: size + offset wraps to 1

MCParams    == {Default, Long, Crossing}
MCParamsAll == MCParams \cup {Wrapping}
MCParams2   == {Default, Crossing}
MCParams1   == {Default}
=============================================================================
