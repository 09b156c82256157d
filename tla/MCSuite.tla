------------------------------- MODULE MCSuite -------------------------------
(* All ways to start the suite without parameters of the user's own.        *)
EXTENDS Suite

MCModes == {"full", "short", "dbg_bw", "dbg_details", "dbg_mem"}
=============================================================================
