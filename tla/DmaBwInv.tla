------------------------------ MODULE DmaBwInv ------------------------------
(***************************************************************************)
(* The inductive invariant of DmaBw: what is true in every state of a test *)
(* and strong enough to be preserved by every single step.  The argument:  *)
(* workers are reached one after the other along the chain of signals; no  *)
(* worker is reached before the master has set the test up (Chain); what   *)
(* the master and the host keep agrees with the request (Mail); indices    *)
(* are handed out downwards, so a completed 1 means the counter is 0       *)
(* (Counter); and a register block is copied before any other context of   *)
(* its ME runs, from a mailbox that still holds the test unless the        *)
(* counter is exhausted (Copies).                                          *)
(***************************************************************************)
EXTENDS DmaBw

\* The first worker has been signalled since the firmware was loaded.
Kicked == mpc = "wait" \/ result # Garbage

\* A worker has been signalled; it has signalled the next one.
Reached(w) == sig[w] \/ Started(w)
Passed(w)  == pc[w] = "setup" \/ cmd[w] # NoCmd

\* The arguments of a request as a register block and as a template hold them.
GprOf(r) == [test |-> r.test, sz |-> r.params.sz, doff |-> r.params.doff]
CmdOf(r) == [sz |-> r.params.sz, doff |-> r.params.doff]

\* How far context 0 of a worker ME is with its copy.
CtrlRead(m)   == pc[<<m, 0>>] \in {"getparams", "ping"} \/ Passed(<<m, 0>>)
ParamsRead(m) == pc[<<m, 0>>] = "ping" \/ Passed(<<m, 0>>)

\* One worker: its own variables fit together.
Local ==
    \A w \in Workers :
        /\ sig[w] => pc[w] = "wait" /\ cmd[w] = NoCmd
        /\ pc[w] \in {"getctrl", "getparams", "ping", "setup"} => cmd[w] = NoCmd
        /\ pc[w] \in {"take", "enq", "dma"} => cmd[w] # NoCmd
        /\ pc[w] \in {"getctrl", "getparams"} => w[2] = 0
        /\ dma[w] # NoDma => pc[w] = "dma" /\ dma[w].idx = trans[w]

\* The order in which workers are reached.
Chain ==
    /\ \A w \in Workers : Reached(w) => Kicked
    /\ \A w \in Workers : Follower(w) \in Workers /\ Reached(Follower(w)) => Passed(w)
    /\ \A w \in Workers : w[2] # 0 /\ w[1] # 0 /\ Reached(w) => Passed(<<w[1], 0>>)

\* The host, the mailbox and the master.
Mail ==
    /\ hpc \in {"params", "ctrl"} => mpc = "poll" /\ test_ctrl = 0 /\ ~Kicked
    /\ hpc = "idle" => mpc = "poll" /\ test_ctrl <= 0
    /\ hpc \in {"ctrl", "poll"} => req.test \in BwTests /\ test_params = req.params
    /\ mpc # "poll" => hpc = "poll" /\ test_ctrl = req.test /\ params = req.params
    /\ mpc \in {"switch", "addrs", "arm", "kick", "wait"} => result = Garbage
    /\ mpc \in {"addrs", "arm", "kick", "wait"} => res = 0 /\ Sane(params)
    /\ mpc \in {"addrs", "arm", "kick", "wait"} \/ Kicked => gpr[0] = GprOf(req)
    /\ mpc \in {"arm", "kick"} \/ Kicked => dma_addrs = params
    /\ Kicked => test_params = req.params /\ params = req.params
    /\ mpc \in {"result", "ctrl"} =>
          IF res = 0 THEN Sane(params) /\ result = MaxTrans(params)
                     ELSE ~Sane(params) /\ result = Garbage
    /\ mpc = "ctrl" => test_result = result
    /\ mpc = "poll" /\ Kicked => test_ctrl <= 0
    /\ hpc = "poll" /\ test_ctrl > 0 => test_ctrl = req.test
    /\ hpc = "poll" /\ test_ctrl <= 0 =>
          IF Sane(req.params) THEN test_ctrl = 0 /\ test_result = MaxTrans(req.params)
                              ELSE test_ctrl = -1
    /\ HostReadsOwnResult

\* The counter and the indices taken from it.
Counter ==
    /\ sig[Master] => mpc = "wait"
    /\ sig[Master] \/ result # Garbage =>
          num_dma_trans = 0 /\ \A w \in Workers : Holds(w) => trans[w] # 1
    /\ \A w \in Workers : Holds(w) => num_dma_trans < trans[w]
    /\ \A v, w \in Workers : Holds(v) /\ Holds(w) /\ v # w => trans[v] # trans[w]

\* What the workers have copied, and the DMAs made from it.
Copies ==
    /\ \A m \in MEs \ {0} : CtrlRead(m) => gpr[m].test = req.test \/ num_dma_trans = 0
    /\ \A m \in MEs \ {0} : ParamsRead(m) => gpr[m].sz = req.params.sz
                                          /\ gpr[m].doff = req.params.doff
    /\ \A w \in Workers : cmd[w] # NoCmd => cmd[w] = CmdOf(req)
    /\ \A w \in Workers : Holds(w) => gpr[w[1]].test = req.test
    /\ CountedDmaMatchesTest

IInv == TypeOK /\ Local /\ Chain /\ Mail /\ Counter /\ Copies
=============================================================================
