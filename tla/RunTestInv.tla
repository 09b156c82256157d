------------------------------ MODULE RunTestInv ------------------------------
(***************************************************************************)
(* The inductive invariant of RunTest, for the behaviours of UnloadAlone.  *)
(* From the load on, run_test meets a firmware that is idle: a new one, or *)
(* an old one whose last test was answered (Quiet, Fresh).  So the mailbox *)
(* holds what this run_test put there (Setup), the firmware works on that  *)
(* (Working), and the answer it gives, which also says where in the        *)
(* journal the samples are, is this run's (Good, Reported).                *)
(***************************************************************************)
EXTENDS RunTest

\* run_test between the load and the write of the test number, while it waits,
\* and while it reads the results.
Preparing  == {"symtab", "addrs", "params", "open", "hstart", "start"}
Waiting    == {"poll", "hpoll"}
Collecting == {"getctrl", "result", "journal"}

Called == hpc # "idle" => run > 0 /\ test \in Tests

FirmwareIdle == fpc = "poll" /\ test_ctrl <= 0

Quiet ==
    /\ up /\ hpc \in Preparing \cup Collecting => FirmwareIdle
    /\ up /\ "unload" \in faults /\ hpc \in Idle \cup {"unload", "load"} => FirmwareIdle
    /\ hpc = "load" /\ up => "unload" \in faults
    /\ hpc \in {"hstart", "hpoll"} \cup Collecting => up
    /\ hpc = "hpoll" /\ opt <= 0 => FirmwareIdle

\* What Load leaves, until run_test writes to it.
Fresh ==
    "unload" \notin faults /\ up /\ hpc \in Preparing =>
        /\ test_ctrl = 0 /\ test_result = NoResult /\ wp = 0
        /\ hpc \in {"symtab", "addrs"} => host_dma_addrs = 0
        /\ hpc \in {"symtab", "addrs", "params"} => test_params = NoParams

Setup ==
    up => /\ hpc \in {"params", "open", "hstart", "start"} \cup Waiting => Own(host_dma_addrs)
          /\ hpc \in {"open", "hstart", "start"} \cup Waiting => Own(test_params.run)

\* An answer of this run: of a latency test also the samples in the ring, which
\* starts anew with a load.
Ring(r) == \A s \in Slots : s < r.samples => journal[s] = r.run
Good(r) ==
    /\ Own(r.run)
    /\ IsLat(test) /\ "unload" \notin faults =>
           Ring(r) /\ (r.run = run => r.samples > 0)

\* The firmware while run_test waits for it.
Working ==
    up /\ hpc \in Waiting =>
        /\ fpc # "poll" \/ test_ctrl > 0 => test_ctrl = test
        /\ fpc # "poll" => Own(params.run)
        /\ fpc \in {"switch", "exec", "lat"} => Own(chunk_dma_addrs)
        /\ fpc = "lat" => result.run = params.run /\ result.samples <= MaxTrans(params)
        /\ fpc \in {"result", "ctrl"} /\ res = 0 => Good(result)
        /\ fpc = "ctrl" /\ res = 0 => test_result = result
        /\ FirmwareIdle /\ test_ctrl = 0 => Good(test_result)

\* Where its latency test is in the ring.
Sampling ==
    up /\ hpc \in Waiting /\ "unload" \notin faults =>
        /\ fpc \in {"addrs", "switch", "exec"} \/ (fpc = "poll" /\ test_ctrl > 0) => wp = 0
        /\ fpc = "lat" => /\ result.samples < JournalSz => wp = result.samples
                          /\ Ring(result)

\* From the answer to what run_test returns.
Reported ==
    /\ hpc \in Collecting /\ test_ctrl = 0 => Good(test_result)
    /\ hpc \in {"result", "journal"} => test_ctrl = 0
    /\ hpc = "journal" => report.run = test_result.run /\ report.samples = test_result.samples
    /\ hpc = "done" =>
           /\ Own(report.run)
           /\ IsLat(test) /\ "unload" \notin faults =>
                  /\ \A r \in report.journal : Own(r)
                  /\ report.run = run => report.journal = {run}

RunInv == Called /\ Quiet /\ Fresh /\ Setup /\ Working /\ Sampling /\ Reported
MailInv == TypeOK /\ (UnloadAlone => RunInv)
===============================================================================
