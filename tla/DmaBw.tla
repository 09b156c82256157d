-------------------------------- MODULE DmaBw --------------------------------
(***************************************************************************)
(* The DMA bandwidth tests (me/pcie_dma.c: dma_bw, dma_bw_worker) under    *)
(* the poll loop of me/pciebench_main.c and the host's run_test            *)
(* (python/pciebench/nfpbench.py).                                         *)
(*                                                                         *)
(* A context is a pair <<microengine, context>>.  <<0,0>> is the master:   *)
(* it polls the mailbox test_ctrl, sets a test up, arms num_dma_trans,     *)
(* starts the first worker and waits.  Every other context of the          *)
(* microengines 0..LastME is a worker.  Workers start each other in a      *)
(* chain of one-bit signals, take indices from num_dma_trans and issue one *)
(* DMA per index.                                                          *)
(*                                                                         *)
(* Steps are cut where a context may be swapped out or where another       *)
(* microengine, the DMA engine or the host can see a difference: at        *)
(* accesses of the cluster-local scratch (test_ctrl, test_params,          *)
(* test_result, num_dma_trans), at signals and at the enqueue of a DMA.    *)
(***************************************************************************)
EXTENDS Integers

CONSTANTS LastME,     \* PCIEBENCH_LAST_WORKER_ME: 7 or 11 in the code
          NumCtx,     \* contexts of a microengine: 8 in the code
          MENums,     \* __ME() keeps the number of the ME modulo this: 8
          PageSz,     \* 4096
          Word,       \* 2^32: the parameters are uint32_t
          BwTrans,    \* PCIEBENCH_BW_TRANS
          JournalSz,  \* PCIEBENCH_JOURNAL_SZ
          Params,     \* the parameter blocks a host may write
          MaxTests    \* bound: tests the host runs

\* struct test_params, the flag word p0 reduced to LAT_FLAGS_LONG
ParamBlock == [long : BOOLEAN, sz : 0 .. Word-1, win : 0 .. Word-1,
               hoff : 0 .. Word-1, doff : 0 .. Word-1]

ASSUME DmaBwAssumption ==
    /\ LastME \in Nat \ {0} /\ NumCtx \in Nat \ {0, 1} /\ MENums \in Nat \ {0}
    /\ PageSz \in Nat \ {0} /\ Word \in Nat \ {0}
    /\ BwTrans \in Nat \ {0} /\ JournalSz \in Nat \ {0}
    /\ Params \subseteq ParamBlock
    /\ MaxTests \in Nat

\* Scripts refuse sizes above a page (nfpbench.py, 587-590); the firmware would
\* look for ever for an address that has room for one.  No proof needs it.
ASSUME SizesFitPages == \A p \in Params : p.sz <= PageSz

-----------------------------------------------------------------------------
MEs     == 0 .. LastME
Master  == <<0, 0>>
Workers == (MEs \X (0 .. NumCtx-1)) \ {Master}
Beyond  == <<LastME + 1, 0>>          \* the ME after the last one: not ours
Signalled == Workers \cup {Master, Beyond}

BW_DMA_RD == 5
BW_DMA_WR == 6
BW_DMA_RW == 7
BwTests   == {BW_DMA_RD, BW_DMA_WR, BW_DMA_RW}

\* The number of its own ME that a context sees (libnfp.c, 3 bits are kept).
MENum(m) == m % MENums

\* The checks dma_bw makes in 32-bit arithmetic before it starts a test.
Sane(p) == LET last == (p.sz + p.hoff) % Word
           IN  last <= PageSz /\ last <= p.win

MaxTrans(p) == IF p.long THEN JournalSz ELSE BwTrans

Max2(a, b) == IF a >= b THEN a ELSE b
TransMax == Max2(JournalSz, BwTrans)

\* cls_test_sub(&num_dma_trans, 1) leaves this behind and returns the old value:
\* the subtraction saturates.
TestSubWraps(n) == IF n = 0 THEN Word - 1 ELSE n - 1                \* mutant
TestSub(n) == Max2(n - 1, 0)

\* A worker stops after index 1 or 0; the one that had 1 tells the master.
StopsAtZero(idx) == idx = 0                                         \* mutant
StopsAtOne(idx)  == idx = 1                                         \* mutant
StopsAfter(idx)  == idx <= 1
TellsIfStopped(idx) == idx <= 1                                     \* mutant
TellsMaster(idx) == idx = 1

\* The context a worker starts before it begins its own work; none for the
\* last context of the ME whose number is LastME.
PingsNext(w) == w[2] # NumCtx-1 \/ MENum(w[1]) # LastME
Follower(w)  == IF w[2] # NumCtx-1 THEN <<w[1], w[2]+1>> ELSE <<w[1]+1, 0>>

Direction(test, idx) ==
    IF test = BW_DMA_RD THEN "read"
    ELSE IF test = BW_DMA_WR THEN "write"
    ELSE IF idx % 2 = 1 THEN "read" ELSE "write"

\* The descriptor handed to the DMA engine: entry idx of the address array
\* computed for addrs, size and card-side offset as pcie_dma_setup left them.
Descriptor(idx, test, cmd, addrs) ==
    [idx |-> idx, dir |-> Direction(test, idx),
     sz |-> cmd.sz, doff |-> cmd.doff, addrs |-> addrs]

NoParams == [long |-> FALSE, sz |-> 0, win |-> 0, hoff |-> 0, doff |-> 0]
NoCmd    == [sz |-> -1, doff |-> -1]
NoDma    == [idx |-> -1, dir |-> "none", sz |-> -1, doff |-> -1,
             addrs |-> NoParams]
NoResult == -1       \* test_result as loaded
Garbage  == -2       \* the local result before a test has filled it in

-----------------------------------------------------------------------------
VARIABLES
    hpc,            \* host: "idle", "params", "ctrl", "poll"
    req,            \* host: the test it asked for, [test, params]
    tests,          \* host: tests started so far
    hres,           \* host: [ctrl, r0] read when the last test ended
    test_ctrl, test_params, test_result,   \* mailbox (r0 of the result)
    num_dma_trans,  \* transactions still to be taken
    dma_addrs,      \* the parameters the address array was computed from
    gpr,            \* per ME: test_no, arg_trans_sz, arg_doff
    mpc,            \* master: where it is
    params, res, result,   \* master: locals of main()
    sig,            \* the control signal of each context, one bit
    pc,             \* worker: where it is
    trans,          \* worker: the index it took
    cmd,            \* worker: the descriptor template
    dma             \* DMA engine: the descriptor in flight for each worker

hostVars   == <<hpc, req, tests, hres>>
mailVars   == <<test_ctrl, test_params, test_result>>
masterVars == <<mpc, params, res, result>>
workerVars == <<pc, trans, cmd>>
vars == <<hostVars, mailVars, num_dma_trans, dma_addrs, gpr, masterVars, sig,
          workerVars, dma>>

GprBlock   == [test : -1 .. BW_DMA_RW, sz : 0 .. Word-1, doff : 0 .. Word-1]
CmdBlock   == [sz : 0 .. Word-1, doff : 0 .. Word-1]
DmaBlock   == [idx : 0 .. TransMax, dir : {"read", "write"}, sz : 0 .. Word-1,
               doff : 0 .. Word-1, addrs : Params \cup {NoParams}]
Results    == {NoResult, Garbage} \cup (1 .. TransMax)

TypeOK ==
    /\ hpc \in {"idle", "params", "ctrl", "poll"}
    /\ req \in [test : BwTests \cup {0}, params : Params \cup {NoParams}]
    /\ tests \in 0 .. MaxTests
    /\ hres \in [ctrl : {-1, 0}, r0 : Results]
    /\ test_ctrl \in {-1, 0} \cup BwTests
    /\ test_params \in Params \cup {NoParams}
    /\ test_result \in Results
    /\ num_dma_trans \in 0 .. TransMax
    /\ dma_addrs \in Params \cup {NoParams}
    /\ gpr \in [MEs -> GprBlock]
    /\ mpc \in {"poll", "switch", "addrs", "arm", "kick", "wait",
                "result", "ctrl"}
    /\ params \in Params \cup {NoParams}
    /\ res \in {-1, 0}
    /\ result \in Results
    /\ sig \in [Signalled -> BOOLEAN]
    /\ pc \in [Workers -> {"wait", "getctrl", "getparams", "ping", "setup",
                           "take", "enq", "dma"}]
    /\ trans \in [Workers -> 0 .. TransMax]
    /\ cmd \in [Workers -> CmdBlock \cup {NoCmd}]
    /\ dma \in [Workers -> DmaBlock \cup {NoDma}]

-----------------------------------------------------------------------------
(* The firmware as it is just after it was loaded.                         *)
NoGpr == [test |-> 0, sz |-> 0, doff |-> 0]

FirmwareInit ==
    /\ test_ctrl = 0 /\ test_params = NoParams /\ test_result = NoResult
    /\ num_dma_trans = 0 /\ dma_addrs = NoParams
    /\ gpr = [m \in MEs |-> NoGpr]
    /\ mpc = "poll" /\ params = NoParams /\ res = 0 /\ result = Garbage
    /\ sig = [x \in Signalled |-> FALSE]
    /\ pc = [w \in Workers |-> "wait"]
    /\ trans = [w \in Workers |-> 0]
    /\ cmd = [w \in Workers |-> NoCmd]
    /\ dma = [w \in Workers |-> NoDma]

Init ==
    /\ hpc = "idle" /\ tests = 0
    /\ req = [test |-> 0, params |-> NoParams]
    /\ hres = [ctrl |-> 0, r0 |-> NoResult]
    /\ FirmwareInit

-----------------------------------------------------------------------------
(* The host: BenchBase.run_test.                                           *)

HReloadKeepsRunning ==                                              \* mutant
    /\ hpc = "idle" /\ tests < MaxTests
    /\ hpc' = "params" /\ tests' = tests + 1
    /\ UNCHANGED <<req, hres, mailVars, num_dma_trans, dma_addrs, gpr,
                   masterVars, sig, workerVars, dma>>

\* The exit codes of nfp-nffw are ignored, so a test may run on firmware that
\* has run others. TIMING ASSUMPTION, not a guard of the code: by then the
\* workers of the last test, a few microseconds late at most, are back at
\* their wait.
Drained == \A w \in Workers : pc[w] = "wait" /\ ~sig[w] /\ dma[w] = NoDma

HReloadFails ==
    /\ hpc = "idle" /\ tests < MaxTests
    /\ Drained
    /\ hpc' = "params" /\ tests' = tests + 1
    /\ UNCHANGED <<req, hres, mailVars, num_dma_trans, dma_addrs, gpr,
                   masterVars, sig, workerVars, dma>>

\* The firmware is unloaded and loaded, whatever it was doing.
HReload ==
    /\ hpc = "idle" /\ tests < MaxTests
    /\ hpc' = "params" /\ tests' = tests + 1
    /\ test_ctrl' = 0 /\ test_params' = NoParams /\ test_result' = NoResult
    /\ num_dma_trans' = 0 /\ dma_addrs' = NoParams
    /\ gpr' = [m \in MEs |-> NoGpr]
    /\ mpc' = "poll" /\ params' = NoParams /\ res' = 0 /\ result' = Garbage
    /\ sig' = [x \in Signalled |-> FALSE]
    /\ pc' = [w \in Workers |-> "wait"]
    /\ trans' = [w \in Workers |-> 0]
    /\ cmd' = [w \in Workers |-> NoCmd]
    /\ dma' = [w \in Workers |-> NoDma]
    /\ UNCHANGED <<req, hres>>

HSetParams(t, p) ==
    /\ hpc = "params"
    /\ hpc' = "ctrl"
    /\ req' = [test |-> t, params |-> p]
    /\ test_params' = p
    /\ UNCHANGED <<tests, hres, test_ctrl, test_result, num_dma_trans,
                   dma_addrs, gpr, masterVars, sig, workerVars, dma>>

HSetCtrl ==
    /\ hpc = "ctrl"
    /\ hpc' = "poll"
    /\ test_ctrl' = req.test
    /\ UNCHANGED <<req, tests, hres, test_params, test_result, num_dma_trans,
                   dma_addrs, gpr, masterVars, sig, workerVars, dma>>

\* The poll of test_ctrl ends at a value that is not positive; the host
\* keeps it and, for 0, the result.
HFinish ==
    /\ hpc = "poll" /\ test_ctrl <= 0
    /\ hpc' = "idle"
    /\ hres' = [ctrl |-> test_ctrl, r0 |-> test_result]
    /\ UNCHANGED <<req, tests, mailVars, num_dma_trans, dma_addrs, gpr,
                   masterVars, sig, workerVars, dma>>

-----------------------------------------------------------------------------
(* The master: the poll loop of main() and dma_bw.                         *)

\* test_ctrl is positive: copy the parameters.
MPoll ==
    /\ mpc = "poll" /\ test_ctrl > 0
    /\ mpc' = "switch"
    /\ params' = test_params
    /\ UNCHANGED <<hostVars, mailVars, num_dma_trans, dma_addrs, gpr, res,
                   result, sig, workerVars, dma>>

\* test_ctrl is read again; dma_bw copies the arguments to the registers the
\* worker contexts of this ME share, and checks them.
MSwitch ==
    /\ mpc = "switch"
    /\ gpr' = [gpr EXCEPT ![0] = [test |-> test_ctrl, sz |-> params.sz,
                                  doff |-> params.doff]]
    /\ \/ Sane(params) /\ mpc' = "addrs" /\ res' = 0
       \/ ~Sane(params) /\ mpc' = "result" /\ res' = -1
    /\ UNCHANGED <<hostVars, mailVars, num_dma_trans, dma_addrs, params,
                   result, sig, workerVars, dma>>

\* dma_addr_init, then thrashing and warming, which change no state here.
MAddrs ==
    /\ mpc = "addrs"
    /\ mpc' = "arm"
    /\ dma_addrs' = params
    /\ UNCHANGED <<hostVars, mailVars, num_dma_trans, gpr, params, res,
                   result, sig, workerVars, dma>>

MArm ==
    /\ mpc = "arm"
    /\ mpc' = "kick"
    /\ num_dma_trans' = MaxTrans(params)
    /\ UNCHANGED <<hostVars, mailVars, dma_addrs, gpr, params, res, result,
                   sig, workerVars, dma>>

MKick ==
    /\ mpc = "kick"
    /\ mpc' = "wait"
    /\ sig' = [sig EXCEPT ![Follower(Master)] = TRUE]
    /\ UNCHANGED <<hostVars, mailVars, num_dma_trans, dma_addrs, gpr, params,
                   res, result, workerVars, dma>>

MWake ==
    /\ mpc = "wait" /\ sig[Master]
    /\ mpc' = "result"
    /\ sig' = [sig EXCEPT ![Master] = FALSE]
    /\ result' = MaxTrans(params)
    /\ UNCHANGED <<hostVars, mailVars, num_dma_trans, dma_addrs, gpr, params,
                   res, workerVars, dma>>

\* main() stores the result, filled in or not, before it answers.
MResult ==
    /\ mpc = "result"
    /\ mpc' = "ctrl"
    /\ test_result' = result
    /\ UNCHANGED <<hostVars, test_ctrl, test_params, num_dma_trans, dma_addrs,
                   gpr, params, res, result, sig, workerVars, dma>>

MCtrl ==
    /\ mpc = "ctrl"
    /\ mpc' = "poll"
    /\ test_ctrl' = res
    /\ UNCHANGED <<hostVars, test_params, test_result, num_dma_trans,
                   dma_addrs, gpr, params, res, result, sig, workerVars, dma>>

MAnswersFirst ==                                                    \* mutant
    /\ \/ /\ mpc = "result" /\ mpc' = "ctrl"
          /\ test_ctrl' = res /\ UNCHANGED test_result
       \/ /\ mpc = "ctrl" /\ mpc' = "poll"
          /\ test_result' = result /\ UNCHANGED test_ctrl
    /\ UNCHANGED <<hostVars, test_params, num_dma_trans, dma_addrs, gpr, params,
                   res, result, sig, workerVars, dma>>

-----------------------------------------------------------------------------
(* A worker: dma_bw_worker.                                                *)

\* Where a started worker begins: context 0 of an ME first copies the test.
NeverCopies(w) == "ping"                                            \* mutant
CopiesOnce(w) ==                                                    \* mutant
    IF w[2] = 0 /\ cmd[w] = NoCmd THEN "getctrl" ELSE "ping"
EntryPoint(w) == IF w[2] = 0 THEN "getctrl" ELSE "ping"

WStart(w) ==
    /\ pc[w] = "wait" /\ sig[w]
    /\ sig' = [sig EXCEPT ![w] = FALSE]
    /\ pc' = [pc EXCEPT ![w] = EntryPoint(w)]
    /\ UNCHANGED <<hostVars, mailVars, num_dma_trans, dma_addrs, gpr,
                   masterVars, trans, cmd, dma>>

\* Context 0 of a worker ME copies the test number and then the parameters
\* to the registers of its ME.
WGetCtrl(w) ==
    /\ pc[w] = "getctrl"
    /\ pc' = [pc EXCEPT ![w] = "getparams"]
    /\ gpr' = [gpr EXCEPT ![w[1]].test = test_ctrl]
    /\ UNCHANGED <<hostVars, mailVars, num_dma_trans, dma_addrs, masterVars,
                   sig, trans, cmd, dma>>

WGetParams(w) ==
    /\ pc[w] = "getparams"
    /\ pc' = [pc EXCEPT ![w] = "ping"]
    /\ gpr' = [gpr EXCEPT ![w[1]].sz = test_params.sz,
                          ![w[1]].doff = test_params.doff]
    /\ UNCHANGED <<hostVars, mailVars, num_dma_trans, dma_addrs, masterVars,
                   sig, trans, cmd, dma>>

WPing(w) ==
    /\ pc[w] = "ping"
    /\ pc' = [pc EXCEPT ![w] = "setup"]
    /\ sig' = IF PingsNext(w) THEN [sig EXCEPT ![Follower(w)] = TRUE] ELSE sig
    /\ UNCHANGED <<hostVars, mailVars, num_dma_trans, dma_addrs, gpr,
                   masterVars, trans, cmd, dma>>

WSetup(w) ==
    /\ pc[w] = "setup"
    /\ pc' = [pc EXCEPT ![w] = "take"]
    /\ cmd' = [cmd EXCEPT ![w] = [sz |-> gpr[w[1]].sz, doff |-> gpr[w[1]].doff]]
    /\ UNCHANGED <<hostVars, mailVars, num_dma_trans, dma_addrs, gpr,
                   masterVars, sig, trans, dma>>

\* cls_test_sub: an atomic, saturating decrement that returns the old value.
WTake(w) ==
    /\ pc[w] = "take"
    /\ pc' = [pc EXCEPT ![w] = "enq"]
    /\ trans' = [trans EXCEPT ![w] = num_dma_trans]
    /\ num_dma_trans' = TestSub(num_dma_trans)
    /\ UNCHANGED <<hostVars, mailVars, dma_addrs, gpr, masterVars, sig, cmd,
                   dma>>

\* The DMA is issued whatever the index is, 0 included.
WEnq(w) ==
    /\ pc[w] = "enq"
    /\ pc' = [pc EXCEPT ![w] = "dma"]
    /\ dma' = [dma EXCEPT ![w] = Descriptor(trans[w], gpr[w[1]].test, cmd[w],
                                            dma_addrs)]
    /\ UNCHANGED <<hostVars, mailVars, num_dma_trans, dma_addrs, gpr,
                   masterVars, sig, trans, cmd>>

\* The DMA engine completes a transfer and signals the context that issued it.
DmaComplete(w) ==
    /\ dma[w] # NoDma
    /\ dma' = [dma EXCEPT ![w] = NoDma]
    /\ UNCHANGED <<hostVars, mailVars, num_dma_trans, dma_addrs, gpr,
                   masterVars, sig, workerVars>>

\* After its DMA: go on, or stop at an index of 0 or 1; the context that had
\* index 1 signals the master.
WRetire(w) ==
    /\ pc[w] = "dma" /\ dma[w] = NoDma
    /\ pc' = [pc EXCEPT ![w] = IF StopsAfter(trans[w]) THEN "wait" ELSE "take"]
    /\ sig' = IF StopsAfter(trans[w]) /\ TellsMaster(trans[w])
              THEN [sig EXCEPT ![Master] = TRUE] ELSE sig
    /\ UNCHANGED <<hostVars, mailVars, num_dma_trans, dma_addrs, gpr,
                   masterVars, trans, cmd, dma>>

-----------------------------------------------------------------------------
Host   == \/ \E t \in BwTests, p \in Params : HSetParams(t, p)
          \/ HSetCtrl
          \/ HFinish
MStepAnswersFirst ==                                                \* mutant
    MPoll \/ MSwitch \/ MAddrs \/ MArm \/ MKick \/ MWake \/ MAnswersFirst
MStep  == MPoll \/ MSwitch \/ MAddrs \/ MArm \/ MKick \/ MWake \/ MResult \/ MCtrl
WStep(w) == WStart(w) \/ WGetCtrl(w) \/ WGetParams(w) \/ WPing(w) \/ WSetup(w)
            \/ WTake(w) \/ WEnq(w) \/ WRetire(w)

Next == \/ HReload
        \/ Host
        \/ MStep
        \/ \E w \in Workers : WStep(w) \/ DmaComplete(w)

\* The hardware schedules the ready contexts of a microengine round-robin, the
\* microengines run in parallel and the DMA engine completes what it accepted:
\* each of them goes on while it can.  The host polls until the test ends.
Fairness == /\ WF_vars(MStep)
            /\ \A w \in Workers : WF_vars(WStep(w)) /\ WF_vars(DmaComplete(w))
            /\ WF_vars(HFinish)

Spec     == Init /\ [][Next]_vars
FairSpec == Spec /\ Fairness

\* The same program when loading the firmware may fail unnoticed.
NextReuse == Next \/ HReloadFails
SpecReuse == Init /\ [][NextReuse]_vars

-----------------------------------------------------------------------------
(* What is checked.                                                        *)

Started(w) == pc[w] # "wait" \/ cmd[w] # NoCmd     \* since the last reload
Counts(d)  == d # NoDma /\ d.idx >= 1

\* Every DMA that counts towards the test (index 1 or more) is the one the
\* host asked for: its direction, size and card offset, and the address
\* computed for the host's window -- although the test number and the
\* arguments travel through the mailbox, the master's registers and, on every
\* other ME, a late second read of the mailbox by its context 0
\* (dma_bw_worker, 342-366).
CountedDmaMatchesTest ==
    \A w \in Workers : Counts(dma[w]) =>
        dma[w] = Descriptor(dma[w].idx, req.test, req.params, req.params)

\* When the poll ends, what the host has read is the answer to its own
\* request: refused parameters give an error, a test that ran gives its own
\* number of transactions and never the result storage of before
\* (main.c, 109-110; nfpbench.py, 435-442).
HostReadsOwnResult ==
    hpc = "idle" /\ tests > 0 =>
        IF Sane(req.params) THEN hres = [ctrl |-> 0, r0 |-> MaxTrans(req.params)]
                            ELSE hres.ctrl = -1

\* While the master rewrites what the workers share (arguments, address
\* array, counter) no worker runs, has a start signal pending or has a DMA in
\* flight (dma_bw, 261-299).
SetupAlone ==
    mpc \in {"switch", "addrs", "arm", "kick"} => Drained

\* The control signal is one bit, so a second one before the first is
\* consumed would be lost. A worker about to signal another finds it fresh,
\* and the worker about to signal the master finds it waiting, without a
\* pending signal (dma_bw_worker, 355-362 and 403-406).
NoSignalLost ==
    /\ \A w \in Workers : pc[w] = "ping" /\ Follower(w) \in Workers =>
           ~Started(Follower(w)) /\ ~sig[Follower(w)]
    /\ \A w \in Workers : pc[w] = "dma" /\ trans[w] = 1 =>
           mpc = "wait" /\ ~sig[Master]

\* A test implements the pool of transactions: each of 1 .. MaxTrans is taken
\* once, highest first, and the result is reported only after number 1 has
\* completed. DMAs issued with index 0 are invisible to the pool. After a refused
\* test the local result still holds that of the test before, hence res.
Holds(w) == pc[w] \in {"enq", "dma"} /\ trans[w] >= 1

PoolPhase ==
    CASE mpc \in {"kick", "wait"}                      -> "armed"
      [] mpc \in {"result", "ctrl"} /\ res = 0        -> "armed"
      [] mpc = "poll" /\ res = 0 /\ result # Garbage -> "reported"
      [] OTHER                                         -> "idle"

Pool == INSTANCE BwPool WITH
    Takers   <- Workers,
    Limits   <- {BwTrans, JournalSz},
    phase    <- PoolPhase,
    todo     <- IF PoolPhase = "idle" THEN {} ELSE 1 .. num_dma_trans,
    held     <- [w \in Workers |-> IF Holds(w) THEN trans[w] ELSE 0],
    finished <- IF PoolPhase = "idle" THEN {}
                ELSE {i \in num_dma_trans + 1 .. MaxTrans(params) :
                        \A w \in Workers : Holds(w) => trans[w] # i}
ImplementsPool == Pool!Spec

\* Every test the host starts ends for the host: the last transaction is
\* taken, completed, signalled and reported (nfpbench.py, 435).
TestTerminates == hpc = "poll" ~> hpc = "idle"

\* Once a test runs, every worker context comes back to waiting for a start
\* signal, with no DMA in flight: also those the chain reaches after the
\* counter was exhausted (dma_bw_worker, 369-401).
WorkersPark == mpc = "wait" ~> Drained

\* pcie_dma.c, 234-236: "After setting everything up, it waits to be
\* signalled that all DMAs have been completed." The worker with index 1
\* signals when its own DMA is complete.
MasterWaitsForAll ==
    mpc \in {"result", "ctrl"} /\ res = 0 => \A w \in Workers : ~Counts(dma[w])
=============================================================================
