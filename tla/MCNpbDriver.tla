----------------------------- MODULE MCNpbDriver -----------------------------
(* Small instances of NpbDriver.                                            *)
EXTENDS NpbDriverInv

CONSTANTS u1, u2
MCUsers == {u1, u2}
MCAlloc == {"alloc"}
MCBoth  == {"alloc", "map"}
=============================================================================
