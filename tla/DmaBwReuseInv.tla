---------------------------- MODULE DmaBwReuseInv ----------------------------
(***************************************************************************)
(* The inductive invariant of DmaBw when the firmware may not have been    *)
(* reloaded before a test (SpecReuse).  Registers, templates, results and  *)
(* answers of former tests are then still in place, and a worker that      *)
(* waits may have run before, so what its own variables say does not tell  *)
(* whether the chain has reached it in this test.  Hence the workers it    *)
(* has reached are a set R, of which the invariant says that it exists.    *)
(***************************************************************************)
EXTENDS DmaBwInv

\* The workers of this test may be running: from the kick until the host's next call.
Running ==
    \/ mpc = "wait"
    \/ res = 0 /\ mpc \in {"result", "ctrl"}
    \/ res = 0 /\ mpc = "poll" /\ hpc \in {"poll", "idle"} /\ test_ctrl <= 0

Parked(w) == pc[w] = "wait" /\ ~sig[w] /\ dma[w] = NoDma

\* How far a worker that was reached is, when it may be through already.
HasCtrl(w)   == ~sig[w] /\ pc[w] # "getctrl"
HasParams(w) == ~sig[w] /\ pc[w] \notin {"getctrl", "getparams"}
HasPinged(w) == ~sig[w] /\ pc[w] \notin {"getctrl", "getparams", "ping"}
HasCmd(w)    == ~sig[w] /\ pc[w] \notin {"getctrl", "getparams", "ping", "setup"}

\* A worker's own variables fit its place, whatever ran before.
Fits ==
    \A w \in Workers :
        /\ sig[w] => pc[w] = "wait"
        /\ pc[w] \in {"take", "enq", "dma"} => cmd[w] # NoCmd
        /\ pc[w] \in {"getctrl", "getparams"} => w[2] = 0
        /\ dma[w] # NoDma => pc[w] = "dma" /\ dma[w].idx = trans[w]

\* The order in which workers are reached; all others wait, without a signal.
ChainOf(R) ==
    /\ \A w \in Workers \ R : Parked(w)
    /\ \A w \in Workers : Follower(w) \in R => w \in R /\ HasPinged(w)
    /\ \A w \in R : w[2] # 0 /\ w[1] # 0 => <<w[1], 0>> \in R /\ HasPinged(<<w[1], 0>>)
    /\ R # {} => Running

\* What they have copied.
CopiesOf(R) ==
    /\ R # {} => gpr[0] = GprOf(req) /\ dma_addrs = req.params
    /\ \A w \in R : w[2] = 0 /\ HasCtrl(w) => gpr[w[1]].test = req.test \/ num_dma_trans = 0
    /\ \A w \in R : w[2] = 0 /\ HasParams(w) => gpr[w[1]].sz = req.params.sz
                                             /\ gpr[w[1]].doff = req.params.doff
    /\ \A w \in R : HasCmd(w) => cmd[w] = CmdOf(req)

\* The DMAs made from it.
Issued ==
    /\ \A w \in Workers : Holds(w) => gpr[w[1]].test = req.test
    /\ CountedDmaMatchesTest

\* The host, the mailbox and the master; the former test's answer stays until the
\* host asks for the next one.
MailAgain ==
    /\ hpc \in {"params", "ctrl", "idle"} => mpc = "poll" /\ test_ctrl <= 0
    /\ hpc \in {"ctrl", "poll"} => req.test \in BwTests
    /\ hpc # "params" => test_params = req.params
    /\ mpc # "poll" => hpc = "poll" /\ test_ctrl = req.test /\ params = req.params
    /\ mpc \in {"addrs", "arm", "kick", "wait"} =>
          res = 0 /\ Sane(params) /\ gpr[0] = GprOf(req)
    /\ mpc \in {"arm", "kick", "wait"} => dma_addrs = params
    /\ mpc \in {"result", "ctrl"} =>
          IF res = 0 THEN Sane(params) /\ result = MaxTrans(params) ELSE ~Sane(params)
    /\ mpc = "ctrl" => test_result = result
    /\ hpc = "poll" /\ test_ctrl > 0 => test_ctrl = req.test
    /\ hpc = "poll" /\ test_ctrl <= 0 =>
          /\ mpc = "poll"
          /\ IF Sane(req.params) THEN test_ctrl = 0 /\ test_result = MaxTrans(req.params)
                                 ELSE test_ctrl = -1
    /\ HostReadsOwnResult

\* The counter and the indices taken from it.
CounterAgain ==
    /\ sig[Master] => mpc = "wait"
    /\ sig[Master] \/ mpc \notin {"kick", "wait"} => num_dma_trans = 0
    /\ sig[Master] \/ mpc # "wait" => \A w \in Workers : Holds(w) => trans[w] # 1
    /\ \A w \in Workers : Holds(w) => num_dma_trans < trans[w]
    /\ \A v, w \in Workers : Holds(v) /\ Holds(w) /\ v # w => trans[v] # trans[w]

\* None of them is beyond what the test armed; and a worker that is not parked is one
\* of a test that was set up since the firmware was loaded.
ArmedAgain ==
    /\ num_dma_trans <= MaxTrans(params)
    /\ \A w \in Workers : Holds(w) => trans[w] <= MaxTrans(params)
    /\ \A w \in Workers : Parked(w) \/ mpc # "poll" \/ result # Garbage

Reaches(R) == ChainOf(R) /\ CopiesOf(R)

\* What holds of every state when tests follow each other on one firmware, the
\* exit codes of nfp-nffw being ignored (nfpbench.py): each step preserves it.
ReuseInv ==
    /\ TypeOK /\ Fits /\ MailAgain /\ CounterAgain /\ ArmedAgain /\ Issued
    /\ \E R \in SUBSET Workers : Reaches(R)

\* NoSignalLost of such tests: a worker that is signalled is waiting, without a
\* signal and without a DMA in flight, and so is the master, although both may have
\* run before (dma_bw_worker, 355-362 and 403-406).
NoSignalLostAgain ==
    /\ \A w \in Workers : pc[w] = "ping" /\ Follower(w) \in Workers => Parked(Follower(w))
    /\ \A w \in Workers : pc[w] = "dma" /\ trans[w] = 1 => mpc = "wait" /\ ~sig[Master]

\* From the answer to the host's next call nobody writes to the mailbox, although
\* workers may still be running: the host reads test_ctrl and then, by another
\* command, the result (nfpbench.py, 435-442), which HFinish does at once.
AnswerStays == [][hpc = "poll" /\ test_ctrl <= 0 => UNCHANGED mailVars]_vars
=============================================================================
