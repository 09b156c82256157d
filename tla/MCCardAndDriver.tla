--------------------------- MODULE MCCardAndDriver ---------------------------
(* Two runs of a latency or a bandwidth test, and the device bound twice.   *)
EXTENDS CardAndDriverInv

MCTests  == {3, 5}
MCFaults == {{"unload", "read", "interrupt"}, {"load", "interrupt"}}
=============================================================================
