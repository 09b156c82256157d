------------------------------ MODULE MCSamples ------------------------------
(* Registers of 8 values, tests of up to 4 transactions that begin shortly  *)
(* before or after the low register wraps, and latencies up to nearly a     *)
(* whole turn of it.                                                        *)
EXTENDS SamplesInv

MCLo        == 8
MCCounts    == 1 .. 4
MCStarts    == {0, 6, 7}
MCGaps      == {0, 1}
MCLatencies == {0, 1, 4, 7}
=============================================================================
