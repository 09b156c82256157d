------------------------------- MODULE MCBufOp -------------------------------
(* Two chunks of two pages of two bytes, and a byte of windows more.        *)
EXTENDS BufOpInv

MCUsers  == {"user"}
MCWarmer == "warmer"
\* A page and a bit, and more than there is.
MCWins   == {3, 9}
\* None, within a chunk or over its border, and more than there is.
MCCounts == {0, 3, 6, 9}
MCSeeks  == {3, 7, 9}
=============================================================================
