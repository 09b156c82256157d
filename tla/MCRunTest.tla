------------------------------ MODULE MCRunTest ------------------------------
(* Small instances of RunTest: one latency and one bandwidth test.          *)
EXTENDS RunTestInv

MCTests == {3, 5}

\* Users interrupt, commands fail and writes get lost, but the old firmware is
\* unloaded; or unloading and loading fail, so that tests run on the same firmware.
MCFaults == {{"load", "read", "write", "interrupt"}, {"unload", "load"}}
=============================================================================
