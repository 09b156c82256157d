--------------------------- MODULE CardAndDriverInv ---------------------------
(***************************************************************************)
(* What CardAndDriver keeps between its two parts: while a script runs or  *)
(* the firmware has a test number the device stays bound, and the          *)
(* addresses on their way to the firmware are those of this binding.       *)
(***************************************************************************)
EXTENDS CardAndDriver

TypeOK ==
    /\ binding \in 0 .. MaxBindings
    /\ read \in [0 .. MaxRuns -> 0 .. MaxBindings]

\* run_test has written the addresses and not yet the test number.
Prepared == hpc \in {"params", "open", "hstart", "start"}

Coupling ==
    /\ TypeOK
    /\ hpc # "idle" => test \in Tests
    /\ ~Quiet => dpc = "bound"
    /\ dpc # "unbound" => binding > 0
    /\ up /\ fpc # "poll" => test_ctrl > 0
    /\ up /\ (test_ctrl > 0 \/ Prepared) => read[host_dma_addrs] = binding
    /\ up /\ fpc \in {"switch", "exec", "lat"} => read[chunk_dma_addrs] = binding
===============================================================================
