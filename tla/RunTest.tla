------------------------------- MODULE RunTest -------------------------------
(***************************************************************************)
(* A test seen from the host: run_test and its callers in                  *)
(* python/pciebench/nfpbench.py, with or without the helper program        *)
(* (user/nfp-pciebench-helper.c), and the poll loop of the firmware        *)
(* (me/pciebench_main.c), which talk through symbols of the firmware.      *)
(* The tests themselves are one step here, except for their journal; the   *)
(* modules DmaBw and LatTest look inside them.                             *)
(*                                                                         *)
(* The host reaches the card by running commands.  Most of their exit      *)
(* codes are ignored; what is noticed raises an exception, which ends the  *)
(* script.  A user may also interrupt it.  In both cases the firmware goes *)
(* on with what it was doing until somebody reloads it.                    *)
(***************************************************************************)
EXTENDS Integers

CONSTANTS Tests,       \* the test numbers in use, of 1 .. 7
          JournalSz,   \* PCIEBENCH_JOURNAL_SZ
          LatTrans,    \* PCIEBENCH_LAT_TRANS
          Faults,      \* what may go wrong: sets of faults, one for a behaviour
          MaxRuns      \* bound: calls of run_test

ASSUME RunTestAssumption ==
    /\ Tests \subseteq 1 .. 7
    /\ LatTrans \in Nat \ {0} /\ JournalSz \in Nat /\ LatTrans <= JournalSz
    /\ Faults \subseteq SUBSET {"unload", "load", "write", "read", "interrupt"}
    /\ MaxRuns \in Nat

IsLat(t) == t \in 1 .. 4
KnownLat == 1 .. 4                                                  \* mutant
Known    == 1 .. 7

\* What the properties tell apart: whose parameters they are (the number of the
\* run), whether they ask for a long test and whether they are in range.
\* Parameters nobody wrote are zeroes, which are in range.
NoParams == [run |-> 0, long |-> FALSE, sane |-> TRUE]
ParamBlock(r) == [run : {r}, long : BOOLEAN, sane : BOOLEAN]
MaxTrans(p) == IF p.long THEN JournalSz ELSE LatTrans

NoReport == [run |-> 0, samples |-> 0, journal |-> {}]

VARIABLES
    faults,     \* the commands that may fail, and whether users are patient
    hpc,        \* host: where run_test is
    run, test,  \* host: number of the call, its test
    symtab,     \* host: the symbol table was read, once per script
    helper,     \* host: a helper is used
    opt,        \* helper: opt_test
    report,     \* host: what it returned last
    up,         \* the firmware is loaded
    fpc,        \* firmware: where main() is
    params, chunk_dma_addrs, result, res,        \* firmware: its own
    test_ctrl, test_params, test_result, host_dma_addrs,   \* symbols
    journal, wp \* the ring of test_journal: the run an entry is of; where it is

hostVars == <<faults, hpc, run, test, symtab, helper, opt, report>>
mailVars == <<test_ctrl, test_params, test_result, host_dma_addrs>>
ownVars  == <<up, fpc, params, chunk_dma_addrs, result, res>>
fwVars   == <<ownVars, journal, wp>>
vars     == <<hostVars, mailVars, fwVars>>

Slots == 0 .. JournalSz-1
Idle  == {"idle", "raised", "done"}

Blocks  == [run : 0 .. MaxRuns, long : BOOLEAN, sane : BOOLEAN]
Results == [run : 0 .. MaxRuns, samples : 0 .. JournalSz]

TypeOK ==
    /\ faults \in Faults
    /\ hpc \in Idle \cup {"unload", "load", "symtab", "addrs", "params", "open",
                          "hstart", "hpoll", "start", "poll", "getctrl",
                          "result", "journal"}
    /\ run \in 0 .. MaxRuns /\ test \in Tests \cup {0}
    /\ symtab \in BOOLEAN /\ helper \in BOOLEAN /\ up \in BOOLEAN
    /\ opt \in {-1, 0} \cup Tests
    /\ report \in [run : 0 .. MaxRuns, samples : 0 .. JournalSz,
                   journal : SUBSET (0 .. MaxRuns)]
    /\ fpc \in {"poll", "addrs", "switch", "exec", "lat", "result", "ctrl"}
    /\ res \in {-1, 0} /\ test_ctrl \in {-1, 0} \cup Tests
    /\ {params, test_params} \subseteq Blocks
    /\ {chunk_dma_addrs, host_dma_addrs} \subseteq 0 .. MaxRuns
    /\ {result, test_result} \subseteq Results
    /\ journal \in [Slots -> 0 .. MaxRuns] /\ wp \in Slots

NoResult == [run |-> 0, samples |-> 0]

\* Loading sets the ring up; an entry advances it.
RingStart  == 0
NextSlotUnbounded(s) == s + 1                                       \* mutant
NextSlot(s) == (s + 1) % JournalSz

Init ==
    /\ faults \in Faults
    /\ hpc = "idle" /\ run = 0 /\ test = 0 /\ symtab = FALSE
    /\ helper \in BOOLEAN /\ opt = 0 /\ report = NoReport
    /\ up = FALSE /\ fpc = "poll" /\ params = NoParams /\ chunk_dma_addrs = 0
    /\ result = NoResult /\ res = 0
    /\ test_ctrl = 0 /\ test_params = NoParams /\ test_result = NoResult
    /\ host_dma_addrs = 0
    /\ journal = [s \in Slots |-> 0] /\ wp = 0

-----------------------------------------------------------------------------
(* Commands.  Without a firmware there are no symbols and they fail.       *)

May(fault) == fault \in faults
Fails(fault) == May(fault) \/ ~up
Works == up

Raise == hpc' = "raised"

-----------------------------------------------------------------------------
(* The host.                                                               *)

\* run_test is called by a script that goes on, or by a new one after the old
\* one has ended. A number outside 1 .. 7 is refused before anything is done.
Call ==
    /\ hpc \in Idle /\ run < MaxRuns
    /\ hpc' = "unload" /\ run' = run + 1
    /\ test' \in Tests
    /\ symtab' \in IF hpc = "done" THEN {symtab} ELSE {FALSE}
    /\ UNCHANGED <<faults, helper, opt, report, mailVars, fwVars>>

\* Exit codes are ignored.
Unload ==
    /\ hpc = "unload"
    /\ hpc' = "load"
    /\ \/ up' = FALSE
       \/ May("unload") /\ UNCHANGED up
    /\ UNCHANGED <<faults, run, test, symtab, helper, opt, report, mailVars, fpc, params,
                   chunk_dma_addrs, result, res, journal, wp>>

\* A load succeeds only where nothing is loaded.  It initialises the symbols
\* and the ring's descriptor, not what the journal holds.
Load ==
    /\ hpc = "load" /\ ~up
    /\ hpc' = "symtab"
    /\ up' = TRUE /\ fpc' = "poll" /\ params' = NoParams /\ chunk_dma_addrs' = 0
    /\ result' = NoResult /\ res' = 0 /\ wp' = RingStart
    /\ test_ctrl' = 0 /\ test_params' = NoParams /\ test_result' = NoResult
    /\ host_dma_addrs' = 0
    /\ UNCHANGED <<faults, run, test, symtab, helper, opt, report, journal>>

LoadFails ==
    /\ hpc = "load" /\ (up \/ May("load"))
    /\ hpc' = "symtab"
    /\ UNCHANGED <<faults, run, test, symtab, helper, opt, report, mailVars, fwVars>>

\* An empty table is noticed at its first use.
GetSymtab ==
    /\ hpc = "symtab"
    /\ \/ (symtab \/ Works) /\ hpc' = "addrs" /\ symtab' = TRUE
       \/ ~symtab /\ Fails("read") /\ Raise /\ UNCHANGED symtab
    /\ UNCHANGED <<faults, run, test, helper, opt, report, mailVars, fwVars>>

\* nfp-rtsym writes a symbol, or fails and nobody notices.
SetDmaAddrs ==
    /\ hpc = "addrs"
    /\ hpc' = "params"
    /\ \/ Works /\ host_dma_addrs' = run
       \/ Fails("write") /\ UNCHANGED host_dma_addrs
    /\ UNCHANGED <<faults, run, test, symtab, helper, opt, report, test_ctrl, test_params,
                   test_result, fwVars>>

SetParams ==
    /\ hpc = "params"
    /\ hpc' = IF helper THEN "open" ELSE "start"
    /\ \/ Works /\ test_params' \in ParamBlock(run)
       \/ Fails("write") /\ UNCHANGED test_params
    /\ UNCHANGED <<faults, run, test, symtab, helper, opt, report, test_ctrl,
                   test_result, host_dma_addrs, fwVars>>

WriteCtrl == \/ Works /\ test_ctrl' = test
             \/ Fails("write") /\ UNCHANGED test_ctrl

SetTestCtrl ==
    /\ hpc = "start"
    /\ hpc' = "poll"
    /\ WriteCtrl
    /\ UNCHANGED <<faults, run, test, symtab, helper, opt, report, test_params,
                   test_result, host_dma_addrs, fwVars>>

Poll ==
    /\ hpc = "poll"
    /\ \/ Works /\ hpc' = IF test_ctrl > 0 THEN "poll" ELSE "getctrl"
       \/ Fails("read") /\ Raise
    /\ UNCHANGED <<faults, run, test, symtab, helper, opt, report, mailVars, fwVars>>

-----------------------------------------------------------------------------
(* The helper.  Its first two calls are checked, the others are not.       *)

HelperOpen ==
    /\ hpc = "open"
    /\ \/ Works /\ hpc' = "hstart"
       \/ Fails("read") /\ Raise
    /\ UNCHANGED <<faults, run, test, symtab, helper, opt, report, mailVars, fwVars>>

HelperStart ==
    /\ hpc = "hstart"
    /\ hpc' = "hpoll"
    /\ opt' = test
    /\ WriteCtrl
    /\ UNCHANGED <<faults, run, test, symtab, helper, report, test_params, test_result,
                   host_dma_addrs, fwVars>>

\* A failed read leaves opt_test as it was.
HelperPoll ==
    /\ hpc = "hpoll" /\ opt > 0
    /\ \/ Works /\ opt' = test_ctrl
       \/ Fails("read") /\ UNCHANGED opt
    /\ UNCHANGED <<faults, hpc, run, test, symtab, helper, report, mailVars, fwVars>>

HelperExit ==
    /\ hpc = "hpoll" /\ opt <= 0
    /\ hpc' = "getctrl"
    /\ UNCHANGED <<faults, run, test, symtab, helper, opt, report, mailVars, fwVars>>

-----------------------------------------------------------------------------
\* The answer is read again; a negative one raises.
GetTestCtrl ==
    /\ hpc = "getctrl"
    /\ \/ Works /\ hpc' = IF test_ctrl < 0 THEN "raised" ELSE "result"
       \/ Fails("read") /\ Raise
    /\ UNCHANGED <<faults, run, test, symtab, helper, opt, report, mailVars, fwVars>>

GetResult ==
    /\ hpc = "result"
    /\ \/ /\ Works
          /\ hpc' = IF IsLat(test) THEN "journal" ELSE "done"
          /\ report' = [run |-> test_result.run, samples |-> test_result.samples,
                        journal |-> {}]
       \/ Fails("read") /\ Raise /\ UNCHANGED report
    /\ UNCHANGED <<faults, run, test, symtab, helper, opt, mailVars, fwVars>>

\* lat_test reads as many entries as there were samples from the start of the
\* journal.
GetJournal ==
    /\ hpc = "journal"
    /\ \/ /\ Works /\ hpc' = "done"
          /\ report' = [report EXCEPT !.journal =
                           {journal[s] : s \in {t \in Slots : t < report.samples}}]
       \/ Fails("read") /\ Raise /\ UNCHANGED report
    /\ UNCHANGED <<faults, run, test, symtab, helper, opt, mailVars, fwVars>>

\* While a test runs the user ends the script.
Interrupt ==
    /\ May("interrupt") /\ hpc \in {"poll", "hpoll"}
    /\ Raise
    /\ UNCHANGED <<faults, run, test, symtab, helper, opt, report, mailVars, fwVars>>

-----------------------------------------------------------------------------
(* The firmware: the poll loop of main().                                  *)

SkipsAddrs == "switch"                                              \* mutant
AfterParams == "addrs"

FPoll ==
    /\ up /\ fpc = "poll" /\ test_ctrl > 0
    /\ fpc' = AfterParams /\ params' = test_params
    /\ UNCHANGED <<hostVars, mailVars, up, chunk_dma_addrs, result, res, journal, wp>>

FAddrs ==
    /\ up /\ fpc = "addrs"
    /\ fpc' = "switch" /\ chunk_dma_addrs' = host_dma_addrs
    /\ UNCHANGED <<hostVars, mailVars, up, params, result, res, journal, wp>>

\* An unknown number goes back to the poll without an answer.
FSwitch ==
    /\ up /\ fpc = "switch"
    /\ IF test_ctrl \in Known THEN fpc' = "exec" /\ UNCHANGED res
                              ELSE fpc' = "poll" /\ res' = -1
    /\ UNCHANGED <<hostVars, mailVars, up, params, chunk_dma_addrs, result, journal, wp>>

\* A test refuses its parameters, or runs to its end and fills in the result.
FExec ==
    /\ up /\ fpc = "exec"
    /\ IF params.sane
       THEN /\ fpc' = IF IsLat(test_ctrl) THEN "lat" ELSE "result"
            /\ res' = 0
            /\ result' = [run |-> params.run, samples |-> 0]
       ELSE fpc' = "result" /\ res' = -1 /\ UNCHANGED result
    /\ UNCHANGED <<hostVars, mailVars, up, params, chunk_dma_addrs, journal, wp>>

\* A sample of a latency test goes to the ring.
FSample ==
    /\ up /\ fpc = "lat" /\ result.samples < MaxTrans(params)
    /\ journal' = [journal EXCEPT ![wp] = params.run]
    /\ wp' = NextSlot(wp)
    /\ result' = [result EXCEPT !.samples = @ + 1]
    /\ UNCHANGED <<hostVars, mailVars, up, fpc, params, chunk_dma_addrs, res>>

FSampled ==
    /\ up /\ fpc = "lat" /\ result.samples = MaxTrans(params)
    /\ fpc' = "result"
    /\ UNCHANGED <<hostVars, mailVars, up, params, chunk_dma_addrs, result, res,
                   journal, wp>>

FResult ==
    /\ up /\ fpc = "result"
    /\ fpc' = "ctrl" /\ test_result' = result
    /\ UNCHANGED <<hostVars, test_ctrl, test_params, host_dma_addrs, up, params,
                   chunk_dma_addrs, result, res, journal, wp>>

FAnswersGood ==                                                     \* mutant
    /\ up /\ fpc = "ctrl"
    /\ fpc' = "poll" /\ test_ctrl' = IF res = 0 THEN res ELSE test_ctrl
    /\ UNCHANGED <<hostVars, test_params, test_result, host_dma_addrs, up, params,
                   chunk_dma_addrs, result, res, journal, wp>>
FCtrl ==
    /\ up /\ fpc = "ctrl"
    /\ fpc' = "poll" /\ test_ctrl' = res
    /\ UNCHANGED <<hostVars, test_params, test_result, host_dma_addrs, up, params,
                   chunk_dma_addrs, result, res, journal, wp>>

FAnswersFirst ==                                                    \* mutant
    /\ up
    /\ \/ fpc = "result" /\ fpc' = "ctrl" /\ test_ctrl' = res /\ UNCHANGED test_result
       \/ fpc = "ctrl" /\ fpc' = "poll" /\ test_result' = result /\ UNCHANGED test_ctrl
    /\ UNCHANGED <<hostVars, test_params, host_dma_addrs, up, params, chunk_dma_addrs,
                   result, res, journal, wp>>

-----------------------------------------------------------------------------
Prepare  == Unload \/ Load \/ LoadFails \/ GetSymtab \/ SetDmaAddrs \/ SetParams
Polls    == SetTestCtrl \/ Poll
Helper   == HelperOpen \/ HelperStart \/ HelperPoll \/ HelperExit
Collect  == GetTestCtrl \/ GetResult \/ GetJournal
FirmwareAnswersFirst ==                                             \* mutant
    FPoll \/ FAddrs \/ FSwitch \/ FExec \/ FSample \/ FSampled \/ FAnswersFirst
Firmware == FPoll \/ FAddrs \/ FSwitch \/ FExec \/ FSample \/ FSampled \/ FResult
            \/ FCtrl

Next == Call \/ Prepare \/ Polls \/ Helper \/ Collect \/ Interrupt \/ Firmware

\* Scripts and firmware go on while they can.  A poll that fails changes
\* nothing, so this includes that a read tried again and again succeeds.
Fairness == WF_vars(Prepare \/ Polls \/ Helper \/ Collect) /\ WF_vars(Firmware)

Spec     == Init /\ [][Next]_vars
FairSpec == Spec /\ Fairness

-----------------------------------------------------------------------------
(* What is checked.                                                        *)

\* A write that fails is not noticed, so the firmware may work with the zeroes
\* that loading it left, or not at all; it must not be an earlier call's leavings.
Own(r) == r = run \/ ("write" \in faults /\ r = 0)

\* Where the old firmware may stay loaded, nothing but loading may fail besides:
\* a test that its script has given up, and a write that is lost, would
\* otherwise be found by the next run_test as its own.
UnloadAlone == "unload" \in faults => faults \subseteq {"unload", "load"}

\* What run_test returns are the results of its own test, however the scripts
\* before it ended, whatever the firmware was doing when it was reloaded and
\* however often reading failed -- or, where writes fail, results that say they
\* are of no test (nfpbench.py, 416-445; helper, 168-184).  So are the samples that
\* lat_test takes from the journal, which is not cleared between tests: its ring
\* starts anew where every test is preceded by a load, so that is only claimed
\* where unloading works (nfpbench.py, 508-511).
ReportIsOfThisRun ==
    UnloadAlone /\ hpc = "done" =>
        /\ Own(report.run)
        /\ IsLat(test) /\ "unload" \notin faults =>
               /\ \A r \in report.journal : Own(r)
               /\ report.run = run => report.journal = {run}

\* While the firmware executes a test that somebody waits for, it works on the
\* addresses and the parameters that were set for it (main.c, 66-79).
UsesThisRunsSetup ==
    UnloadAlone /\ up /\ fpc \in {"exec", "lat"} /\ hpc \in {"poll", "hpoll"} =>
        Own(chunk_dma_addrs) /\ Own(params.run)

\* Every call of run_test returns or raises (nfpbench.py, 435-440).
RunTestEnds == hpc \notin Idle ~> hpc \in Idle
=============================================================================
