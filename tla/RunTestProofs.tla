---------------------------- MODULE RunTestProofs ----------------------------
(***************************************************************************)
(* Machine-checked proofs about RunTest, for every set of tests, size of   *)
(* the journal, number of calls and set of fault behaviours.               *)
(***************************************************************************)
EXTENDS RunTestInv, TLAPS

\* A step is one of the actions, spelled out for case distinctions.
LEMMA StepCases ==
    ASSUME [Next]_vars
    PROVE  \/ Call \/ Unload \/ Load \/ LoadFails \/ GetSymtab \/ SetDmaAddrs \/ SetParams
           \/ SetTestCtrl \/ Poll \/ HelperOpen \/ HelperStart \/ HelperPoll \/ HelperExit
           \/ GetTestCtrl \/ GetResult \/ GetJournal \/ Interrupt
           \/ FPoll \/ FAddrs \/ FSwitch \/ FExec \/ FSample \/ FSampled \/ FResult \/ FCtrl
           \/ UNCHANGED vars
BY DEF Next, Prepare, Polls, Helper, Collect, Firmware

-----------------------------------------------------------------------------
(* Type correctness.                                                       *)

\* The initial values of symbols and host variables are of their types.
LEMMA Zeroes ==
    /\ NoParams \in Blocks /\ NoResult \in Results
    /\ NoReport \in [run : 0 .. MaxRuns, samples : 0 .. JournalSz, journal : SUBSET (0 .. MaxRuns)]
    /\ 0 \in 0 .. MaxRuns /\ 0 \in Slots
BY RunTestAssumption DEF NoParams, Blocks, NoResult, Results, NoReport, Slots

\* A number of transactions fits the journal, and is not zero.
LEMMA MaxTransBound ==
    ASSUME NEW p PROVE MaxTrans(p) \in 1 .. JournalSz
BY RunTestAssumption DEF MaxTrans

\* A block of parameters is a record with the fields the code reads.
LEMMA BlockFields ==
    ASSUME NEW p \in Blocks
    PROVE  p.run \in 0 .. MaxRuns
BY DEF Blocks

\* The ring advances within the journal, by one until it wraps.
LEMMA NextSlotFacts ==
    ASSUME NEW s \in Slots
    PROVE  NextSlot(s) \in Slots /\ (s + 1 < JournalSz => NextSlot(s) = s + 1)
<1>1. JournalSz \in Nat /\ JournalSz > 0
  BY RunTestAssumption
<1>2. \A a \in Nat : a % JournalSz \in 0 .. JournalSz-1 /\ (a < JournalSz => a % JournalSz = a)
  BY <1>1
<1>3. QED BY <1>1, <1>2 DEF NextSlot, Slots

\* All is zero before the first load.
LEMMA TypeInit == Init => TypeOK
<1> SUFFICES ASSUME Init PROVE TypeOK
  OBVIOUS
<1>1. journal \in [Slots -> 0 .. MaxRuns]
  BY Zeroes DEF Init
<1>2. QED BY <1>1, Zeroes DEF Init, TypeOK, Idle

\* Every step keeps every variable within its type.
LEMMA TypeStep == TypeOK /\ [Next]_vars => TypeOK'
<1> SUFFICES ASSUME TypeOK, [Next]_vars PROVE TypeOK'
  OBVIOUS
<1> USE RunTestAssumption DEF Idle, hostVars, mailVars, ownVars, fwVars
<1>1. CASE Call
  <2>1. symtab' \in BOOLEAN
    <3>1. symtab' = symtab \/ symtab' = FALSE
      BY <1>1 DEF Call
    <3>2. QED BY <3>1 DEF TypeOK
  <2>2. run' \in 0 .. MaxRuns
    BY <1>1 DEF Call, TypeOK
  <2>3. QED BY <1>1, <2>1, <2>2 DEF Call, TypeOK
<1>2. CASE Unload
  <2>1. up' \in BOOLEAN
    BY <1>2 DEF Unload, TypeOK
  <2>2. QED BY <1>2, <2>1 DEF Unload, TypeOK
<1>3. CASE Load
  <2>1. {params', test_params'} \subseteq Blocks /\ {result', test_result'} \subseteq Results
        /\ wp' \in Slots /\ host_dma_addrs' \in 0 .. MaxRuns /\ chunk_dma_addrs' \in 0 .. MaxRuns
    BY <1>3, Zeroes DEF Load, RingStart
  <2>2. QED BY <1>3, <2>1 DEF Load, TypeOK
<1>4. CASE LoadFails \/ Poll \/ HelperOpen \/ HelperExit \/ GetTestCtrl \/ Interrupt
           \/ SetDmaAddrs
  BY <1>4 DEF LoadFails, Poll, HelperOpen, HelperExit, GetTestCtrl, Interrupt,
              Raise, SetDmaAddrs, TypeOK
<1>14. CASE GetSymtab
  <2>1. symtab' \in BOOLEAN
    <3>1. symtab' = symtab \/ symtab' = TRUE
      BY <1>14 DEF GetSymtab
    <3>2. QED BY <3>1 DEF TypeOK
  <2>2. QED BY <1>14, <2>1 DEF GetSymtab, Raise, TypeOK
<1>5. CASE SetParams
  <2>1. test_params' \in Blocks
    BY <1>5 DEF SetParams, ParamBlock, Blocks, TypeOK
  <2>2. QED BY <1>5, <2>1 DEF SetParams, TypeOK
<1>6. CASE SetTestCtrl \/ HelperStart \/ HelperPoll
  BY <1>6 DEF SetTestCtrl, HelperStart, HelperPoll, WriteCtrl, TypeOK
<1>7. CASE GetResult
  <2>1. report' \in [run : 0 .. MaxRuns, samples : 0 .. JournalSz, journal : SUBSET (0 .. MaxRuns)]
    BY <1>7 DEF GetResult, TypeOK, Results
  <2>2. QED BY <1>7, <2>1 DEF GetResult, Raise, TypeOK
<1>8. CASE GetJournal
  <2>1. report'.journal \subseteq 0 .. MaxRuns /\ report'.run = report.run
        /\ report'.samples = report.samples
    BY <1>8 DEF GetJournal, TypeOK
  <2>2. report' \in [run : 0 .. MaxRuns, samples : 0 .. JournalSz, journal : SUBSET (0 .. MaxRuns)]
    BY <1>8, <2>1 DEF GetJournal, TypeOK
  <2>3. QED BY <1>8, <2>2 DEF GetJournal, Raise, TypeOK
<1>9. CASE FPoll \/ FAddrs \/ FSwitch \/ FResult \/ FCtrl \/ FSampled
  BY <1>9 DEF FPoll, AfterParams, FAddrs, FSwitch, FResult, FCtrl, FSampled, TypeOK
<1>10. CASE FExec
  <2>1. params.run \in 0 .. MaxRuns
    BY BlockFields DEF TypeOK
  <2>2. result' \in Results
    BY <1>10, <2>1 DEF FExec, TypeOK, Results
  <2>3. QED BY <1>10, <2>2 DEF FExec, TypeOK
<1>11. CASE FSample
  <2>1. params.run \in 0 .. MaxRuns
    BY BlockFields DEF TypeOK
  <2>2. wp' \in Slots
    BY <1>11, NextSlotFacts DEF FSample, TypeOK
  <2>3. journal' \in [Slots -> 0 .. MaxRuns]
    BY <1>11, <2>1 DEF FSample, TypeOK
  <2>4. result' \in Results
    BY <1>11, MaxTransBound DEF FSample, TypeOK, Results
  <2>5. QED BY <1>11, <2>2, <2>3, <2>4 DEF FSample, TypeOK
<1>12. CASE UNCHANGED vars
  BY <1>12 DEF vars, TypeOK
<1>13. QED
  BY <1>1, <1>2, <1>3, <1>4, <1>14, <1>5, <1>6, <1>7, <1>8, <1>9, <1>10, <1>11, <1>12, StepCases

-----------------------------------------------------------------------------
(* The behaviours of UnloadAlone.                                          *)

\* What the steps below start from.
Now == TypeOK /\ UnloadAlone /\ RunInv

\* Faults are there from the start; where unloading may fail, a loaded firmware
\* takes every write and answers every read, and nobody interrupts.
LEMMA FaultsStay ==
    ASSUME [Next]_vars
    PROVE  faults' = faults /\ (UnloadAlone' <=> UnloadAlone)
<1>1. faults' = faults
  BY StepCases DEF Call, Unload, Load, LoadFails, GetSymtab, SetDmaAddrs, SetParams,
     SetTestCtrl, Poll, HelperOpen, HelperStart, HelperPoll, HelperExit, GetTestCtrl, GetResult,
     GetJournal, Interrupt, FPoll, FAddrs, FSwitch, FExec, FSample, FSampled, FResult, FCtrl,
     vars, hostVars
<1>2. QED BY <1>1 DEF UnloadAlone

LEMMA OldFirmwareWorks ==
    ASSUME UnloadAlone, "unload" \in faults
    PROVE  ~May("write") /\ ~May("read") /\ ~May("interrupt")
BY DEF UnloadAlone, May

\* A host step that does not begin a call keeps its number and its test.
LEMMA CalledStep == Now /\ [Next]_vars => Called'
<1> SUFFICES ASSUME Now, [Next]_vars PROVE Called'
  OBVIOUS
<1>0. TypeOK /\ Called
  BY DEF Now, RunInv
<1>1. CASE Call
  BY <1>0, <1>1 DEF Call, Called, TypeOK
<1>2. CASE ~Call
  <2>1. UNCHANGED <<run, test>> /\ (hpc = "idle" => hpc' = "idle")
    BY <1>2, StepCases DEF Unload, Load, LoadFails, GetSymtab, SetDmaAddrs, SetParams,
       SetTestCtrl, Poll, HelperOpen, HelperStart, HelperPoll, HelperExit, GetTestCtrl,
       GetResult, GetJournal, Interrupt, FPoll, FAddrs, FSwitch, FExec, FSample, FSampled,
       FResult, FCtrl, vars, hostVars
  <2>2. QED BY <1>0, <2>1 DEF Called
<1>3. QED BY <1>1, <1>2

\* From the load to the write of the test number, and from the answer to the
\* next call, the firmware has nothing to do.
LEMMA QuietStep == Now /\ [Next]_vars => Quiet'
<1> SUFFICES ASSUME Now, [Next]_vars PROVE Quiet'
  OBVIOUS
<1> USE RunTestAssumption DEF Idle, Preparing, Waiting, Collecting, FirmwareIdle, hostVars,
        mailVars, ownVars, fwVars
<1>0. TypeOK /\ Called /\ Quiet
  BY DEF Now, RunInv
<1>b. up /\ hpc \in Waiting => (fpc # "poll" \/ test_ctrl > 0 => test_ctrl = test)
  BY DEF Now, RunInv, Working
<1>c. "unload" \in faults => ~May("write") /\ ~May("read") /\ ~May("interrupt")
  BY OldFirmwareWorks DEF Now
<1>1. CASE Call \/ Unload \/ Load \/ LoadFails \/ GetSymtab
  <2>1. CASE Call
    BY <1>0, <2>1 DEF Call, Quiet
  <2>2. CASE Unload
    BY <1>0, <2>2 DEF Unload, Quiet, May
  <2>3. CASE Load
    BY <1>0, <2>3 DEF Load, Quiet
  <2>4. CASE LoadFails
    BY <1>0, <2>4 DEF LoadFails, Quiet
  <2>5. CASE GetSymtab
    BY <1>0, <2>5 DEF GetSymtab, Raise, Quiet
  <2>6. QED BY <1>1, <2>1, <2>2, <2>3, <2>4, <2>5
<1>2. CASE SetDmaAddrs \/ SetParams \/ SetTestCtrl \/ HelperOpen \/ HelperStart
  <2>1. CASE SetDmaAddrs
    BY <1>0, <2>1 DEF SetDmaAddrs, Quiet
  <2>2. CASE SetParams
    <3>1. hpc' \in {"open", "start"}
      BY <2>2 DEF SetParams
    <3>2. QED BY <1>0, <2>2, <3>1 DEF SetParams, Quiet
  <2>3. CASE SetTestCtrl
    BY <1>0, <2>3 DEF SetTestCtrl, Quiet
  <2>4. CASE HelperOpen
    BY <1>0, <2>4 DEF HelperOpen, Raise, Quiet, Works
  <2>5. CASE HelperStart
    <3>1. up' /\ hpc' = "hpoll" /\ opt' = test /\ faults' = faults
      BY <1>0, <2>5 DEF HelperStart, Quiet
    <3>2. test \in 1 .. 7
      BY <1>0, <2>5 DEF HelperStart, Called
    <3>3. QED BY <3>1, <3>2 DEF Quiet
  <2>6. QED BY <1>2, <2>1, <2>2, <2>3, <2>4, <2>5
<1>3. CASE Poll \/ HelperPoll \/ HelperExit \/ Interrupt
  BY <1>0, <1>b, <1>c, <1>3 DEF Poll, HelperPoll, HelperExit, Interrupt, Raise,
     Quiet, Works, Fails, Called, TypeOK
<1>4. CASE GetTestCtrl \/ GetResult \/ GetJournal
  BY <1>0, <1>c, <1>4 DEF GetTestCtrl, GetResult, GetJournal, Raise, Quiet, Works, Fails
<1>5. CASE FPoll \/ FAddrs \/ FSwitch \/ FExec \/ FSample \/ FSampled \/ FResult \/ FCtrl
  <2>1. up /\ ~FirmwareIdle /\ UNCHANGED <<hostVars, up>>
    <3>1. test_ctrl \in Int
      BY <1>0 DEF TypeOK
    <3>2. QED
      BY <1>5, <3>1 DEF FPoll, FAddrs, FSwitch, FExec, FSample, FSampled, FResult, FCtrl
  <2>2. \/ hpc = "poll"
        \/ hpc = "hpoll" /\ opt > 0
        \/ "unload" \notin faults /\ hpc \in Idle \cup {"unload"}
    BY <1>0, <2>1 DEF Quiet, TypeOK
  <2>3. QED BY <1>0, <2>1, <2>2 DEF Quiet, TypeOK
<1>6. CASE UNCHANGED vars
  BY <1>0, <1>6 DEF vars, Quiet
<1>7. QED BY <1>1, <1>2, <1>3, <1>4, <1>5, <1>6, StepCases

\* Where unloading works, what Load leaves stays until run_test writes to it.
LEMMA FreshStep == Now /\ [Next]_vars => Fresh'
<1> SUFFICES ASSUME Now, [Next]_vars PROVE Fresh'
  OBVIOUS
<1> USE RunTestAssumption DEF Idle, Preparing, Waiting, Collecting, FirmwareIdle, hostVars,
        mailVars, ownVars, fwVars
<1>0. TypeOK /\ Quiet /\ Fresh
  BY DEF Now, RunInv
<1>1. CASE Call \/ Unload \/ Load \/ LoadFails
  BY <1>0, <1>1 DEF Call, Unload, Load, LoadFails, RingStart, Quiet, Fresh
<1>2. CASE GetSymtab \/ SetDmaAddrs \/ SetParams \/ SetTestCtrl \/ HelperOpen \/ HelperStart
  BY <1>0, <1>2 DEF GetSymtab, SetDmaAddrs, SetParams, SetTestCtrl, HelperOpen, HelperStart,
     Raise, Fresh
<1>3. CASE Poll \/ HelperPoll \/ HelperExit \/ Interrupt \/ GetTestCtrl \/ GetResult \/ GetJournal
  BY <1>0, <1>3 DEF Poll, HelperPoll, HelperExit, Interrupt, Raise, GetTestCtrl, GetResult,
     GetJournal, Fresh
<1>4. CASE FPoll \/ FAddrs \/ FSwitch \/ FExec \/ FSample \/ FSampled \/ FResult \/ FCtrl
  BY <1>0, <1>4 DEF FPoll, FAddrs, FSwitch, FExec, FSample, FSampled, FResult, FCtrl,
     Quiet, Fresh
<1>5. CASE UNCHANGED vars
  BY <1>0, <1>5 DEF vars, Fresh
<1>6. QED BY <1>1, <1>2, <1>3, <1>4, <1>5, StepCases

\* The addresses and the parameters in the mailbox are this call's, or what Load
\* left where writes get lost.
LEMMA SetupStep == Now /\ [Next]_vars => Setup'
<1> SUFFICES ASSUME Now, [Next]_vars PROVE Setup'
  OBVIOUS
<1> USE RunTestAssumption DEF Waiting, hostVars, mailVars, ownVars, fwVars, Own
<1>0. TypeOK /\ Fresh /\ Setup
  BY DEF Now, RunInv
<1>c. "unload" \in faults => ~May("write") /\ ~May("read") /\ ~May("interrupt")
  BY OldFirmwareWorks DEF Now
<1>1. CASE Call \/ Unload \/ Load \/ LoadFails \/ GetSymtab
  BY <1>1 DEF Call, Unload, Load, LoadFails, GetSymtab, Raise, Setup
<1>2. CASE SetDmaAddrs
  BY <1>0, <1>c, <1>2 DEF SetDmaAddrs, Setup, Fresh, Preparing, Works, Fails, May
<1>3. CASE SetParams
  <2>1. CASE Works /\ test_params' \in ParamBlock(run)
    BY <1>0, <1>3, <2>1 DEF SetParams, Setup, ParamBlock
  <2>2. CASE Fails("write") /\ UNCHANGED test_params
    BY <1>0, <1>c, <1>3, <2>2 DEF SetParams, Setup, Fresh, Preparing, Fails, May, NoParams
  <2>3. QED BY <1>3, <2>1, <2>2 DEF SetParams
<1>4. CASE SetTestCtrl \/ HelperOpen \/ HelperStart
  BY <1>0, <1>4 DEF SetTestCtrl, HelperOpen, HelperStart, Raise, Setup
<1>5. CASE Poll \/ HelperPoll \/ HelperExit \/ Interrupt \/ GetTestCtrl \/ GetResult \/ GetJournal
  BY <1>0, <1>5 DEF Poll, HelperPoll, HelperExit, Interrupt, Raise, GetTestCtrl, GetResult,
     GetJournal, Setup
<1>6. CASE FPoll \/ FAddrs \/ FSwitch \/ FExec \/ FSample \/ FSampled \/ FResult \/ FCtrl
  BY <1>0, <1>6 DEF FPoll, FAddrs, FSwitch, FExec, FSample, FSampled, FResult, FCtrl, Setup
<1>7. CASE UNCHANGED vars
  BY <1>0, <1>7 DEF vars, Setup
<1>8. QED BY <1>1, <1>2, <1>3, <1>4, <1>5, <1>6, <1>7, StepCases

-----------------------------------------------------------------------------
(* The firmware's test and its answer.                                     *)

\* A new firmware has no answer, which is no answer of a test, but is good.
LEMMA NoAnswer ==
    ASSUME Called, hpc # "idle", "write" \in faults
    PROVE  Good(NoResult)
BY RunTestAssumption DEF Called, Good, Own, Ring, NoResult, Slots

\* Where the journal and the call stay, so does what makes an answer good.
LEMMA GoodStays ==
    ASSUME UNCHANGED <<run, test, faults, journal>>, NEW r, Good(r)
    PROVE  Good(r)'
BY DEF Good, Own, Ring

\* While run_test waits, the firmware executes its test with its parameters and
\* answers with that test's result.
LEMMA WorkingStep == Now /\ [Next]_vars => Working'
<1> SUFFICES ASSUME Now, [Next]_vars PROVE Working'
  OBVIOUS
<1> USE RunTestAssumption DEF hostVars, mailVars, ownVars, fwVars
<1>0. TypeOK /\ Called /\ Quiet /\ Fresh /\ Setup /\ Working /\ Sampling
  BY DEF Now, RunInv
<1>c. "unload" \in faults => ~May("write") /\ ~May("read") /\ ~May("interrupt")
  BY OldFirmwareWorks DEF Now
\* The test number is written to an idle firmware, unless the write gets lost.
<1>1. CASE SetTestCtrl \/ HelperStart
  <2>1. /\ hpc \in {"start", "hstart"} /\ WriteCtrl
        /\ UNCHANGED <<faults, run, test, test_params, test_result, host_dma_addrs, fwVars>>
    BY <1>1 DEF SetTestCtrl, HelperStart
  <2>2. test \in 1 .. 7
    BY <1>0, <2>1 DEF Called
  <2>3. (up => fpc = "poll" /\ test_ctrl <= 0) /\ test_ctrl \in Int
    BY <1>0, <2>1 DEF Quiet, Preparing, FirmwareIdle, TypeOK
  <2>4. CASE test_ctrl' = test
    BY <2>1, <2>2, <2>3, <2>4 DEF Working, FirmwareIdle
  <2>5. CASE up /\ May("write") /\ UNCHANGED test_ctrl
    <3>1. test_result = NoResult /\ "write" \in faults /\ UNCHANGED journal
      BY <1>0, <1>c, <2>1, <2>5 DEF Fresh, Preparing, May
    <3>2. Good(NoResult)
      BY <1>0, <2>1, <3>1, NoAnswer
    <3>3. Good(NoResult)'
      BY <2>1, <3>1, <3>2, GoodStays
    <3>4. Good(test_result)'
      BY <2>1, <3>1, <3>3 DEF Good, Ring, Own
    <3>5. QED BY <2>1, <2>3, <2>5, <3>4 DEF Working, FirmwareIdle
  <2>6. CASE ~up
    BY <2>1, <2>6 DEF Working
  <2>7. QED BY <2>1, <2>4, <2>5, <2>6 DEF WriteCtrl, Fails
\* Host steps that do not touch the card while it works.
<1>2. CASE Poll \/ HelperPoll \/ UNCHANGED vars
  <2>1. UNCHANGED <<faults, run, test, mailVars, fwVars>> /\ (hpc' \in Waiting => hpc \in Waiting)
    BY <1>2 DEF Poll, HelperPoll, Raise, vars, Waiting
  <2>2. (Good(result) => Good(result)') /\ (Good(test_result) => Good(test_result)')
    BY <2>1 DEF Good, Ring, Own
  <2>3. QED BY <1>0, <2>1, <2>2 DEF Working, Own, FirmwareIdle
<1>3. CASE Call \/ Unload \/ Load \/ LoadFails \/ GetSymtab \/ SetDmaAddrs \/ SetParams
           \/ HelperOpen \/ HelperExit \/ Interrupt \/ GetTestCtrl \/ GetResult \/ GetJournal
  <2>1. hpc' \notin Waiting
    BY <1>3 DEF Call, Unload, Load, LoadFails, GetSymtab, SetDmaAddrs, SetParams, HelperOpen,
       HelperExit, Interrupt, GetTestCtrl, GetResult, GetJournal, Raise, Waiting
  <2>2. QED BY <2>1 DEF Working
\* The firmware.
<1>4. ASSUME up, hpc \in Waiting, UNCHANGED <<hostVars, up>>,
             FPoll \/ FAddrs \/ FSwitch \/ FExec \/ FSample \/ FSampled \/ FResult \/ FCtrl
      PROVE  Working'
  <2>0. test \in 1 .. 7 /\ test_ctrl \in Int
    BY <1>0, <1>4 DEF Called, Waiting, TypeOK
  <2>1. CASE FPoll
    BY <1>0, <1>4, <2>0, <2>1 DEF FPoll, AfterParams, Working, Setup, Own, FirmwareIdle
  <2>2. CASE FAddrs
    BY <1>0, <1>4, <2>0, <2>2 DEF FAddrs, Working, Setup, Own, FirmwareIdle
  <2>3. CASE FSwitch
    BY <1>0, <1>4, <2>0, <2>3 DEF FSwitch, Known, Working, Own, FirmwareIdle
  <2>4. CASE FExec
    BY <1>0, <1>4, <2>0, <2>4, MaxTransBound DEF FExec, Working, Own, Good, FirmwareIdle
  <2>5. CASE FSample
    BY <1>0, <1>4, <2>0, <2>5, MaxTransBound DEF FSample, Working, Own, FirmwareIdle, TypeOK, Results
  <2>6. CASE FSampled
    BY <1>0, <1>4, <2>0, <2>6, MaxTransBound DEF FSampled, Working, Sampling, Own, Good, Ring, FirmwareIdle
  <2>7. CASE FResult
    <3>1. Good(result) => Good(result)' /\ Good(test_result)'
      BY <1>4, <2>7 DEF FResult, Good, Ring, Own
    <3>2. /\ test_ctrl = test /\ Own(params.run) /\ (res = 0 => Good(result))
          /\ fpc' = "ctrl" /\ test_result' = result
          /\ UNCHANGED <<result, res, test_ctrl, test, params>>
      BY <1>0, <1>4, <2>7 DEF FResult, Working
    <3>3. Own(params.run)'
      BY <1>4, <3>2 DEF Own
    <3>4. QED BY <2>0, <3>1, <3>2, <3>3 DEF Working, FirmwareIdle
  <2>8. CASE FCtrl
    <3>1. Good(test_result) => Good(test_result)'
      BY <1>4, <2>8 DEF FCtrl, Good, Ring, Own
    <3>2. /\ res = 0 => Good(test_result)
          /\ fpc' = "poll" /\ test_ctrl' = res /\ res \in {-1, 0}
      BY <1>0, <1>4, <2>8 DEF FCtrl, Working, TypeOK
    <3>3. QED BY <3>1, <3>2 DEF Working, FirmwareIdle
  <2>9. QED BY <1>4, <2>1, <2>2, <2>3, <2>4, <2>5, <2>6, <2>7, <2>8
<1>5. CASE FPoll \/ FAddrs \/ FSwitch \/ FExec \/ FSample \/ FSampled \/ FResult \/ FCtrl
  <2>1. UNCHANGED <<hostVars, up>>
    BY <1>5 DEF FPoll, FAddrs, FSwitch, FExec, FSample, FSampled, FResult, FCtrl
  <2>2. QED BY <1>4, <1>5, <2>1 DEF Working
<1>6. QED BY <1>1, <1>2, <1>3, <1>5, StepCases

\* Where every test is preceded by a load, a latency test fills the ring from
\* its start.
LEMMA SamplingStep == Now /\ [Next]_vars => Sampling'
<1> SUFFICES ASSUME Now, [Next]_vars PROVE Sampling'
  OBVIOUS
<1> USE RunTestAssumption DEF hostVars, mailVars, ownVars, fwVars
<1>0. TypeOK /\ Called /\ Quiet /\ Fresh /\ Working /\ Sampling
  BY DEF Now, RunInv
<1>1. CASE SetTestCtrl \/ HelperStart
  <2>1. /\ hpc \in {"start", "hstart"}
        /\ UNCHANGED <<faults, fwVars>>
    BY <1>1 DEF SetTestCtrl, HelperStart
  <2>2. up => fpc = "poll"
    BY <1>0, <2>1 DEF Quiet, Preparing, FirmwareIdle
  <2>3. up /\ "unload" \notin faults => wp = 0
    BY <1>0, <2>1 DEF Fresh, Preparing
  <2>4. QED BY <2>1, <2>2, <2>3 DEF Sampling
<1>2. CASE Poll \/ HelperPoll \/ UNCHANGED vars
  <2>1. UNCHANGED <<faults, run, test, mailVars, fwVars>> /\ (hpc' \in Waiting => hpc \in Waiting)
    BY <1>2 DEF Poll, HelperPoll, Raise, vars, Waiting
  <2>2. Ring(result) => Ring(result)'
    BY <2>1 DEF Ring
  <2>3. QED BY <1>0, <2>1, <2>2 DEF Sampling
<1>3. CASE Call \/ Unload \/ Load \/ LoadFails \/ GetSymtab \/ SetDmaAddrs \/ SetParams
           \/ HelperOpen \/ HelperExit \/ Interrupt \/ GetTestCtrl \/ GetResult \/ GetJournal
  <2>1. hpc' \notin Waiting
    BY <1>3 DEF Call, Unload, Load, LoadFails, GetSymtab, SetDmaAddrs, SetParams, HelperOpen,
       HelperExit, Interrupt, GetTestCtrl, GetResult, GetJournal, Raise, Waiting
  <2>2. QED BY <2>1 DEF Sampling
<1>4. ASSUME FPoll \/ FAddrs \/ FSwitch \/ FSampled \/ FResult \/ FCtrl
      PROVE  Sampling'
  <2>1. /\ up /\ UNCHANGED <<hostVars, up, wp>> /\ fpc' # "lat"
        /\ fpc' \in {"addrs", "switch", "exec"} \/ (fpc' = "poll" /\ test_ctrl' > 0) =>
               fpc \in {"addrs", "switch"} \/ (fpc = "poll" /\ test_ctrl > 0)
    <3>1. res \in {-1, 0}
      BY <1>0 DEF TypeOK
    <3>2. QED
      BY <1>4, <3>1 DEF FPoll, AfterParams, FAddrs, FSwitch, FSampled, FResult, FCtrl
  <2>2. QED BY <1>0, <2>1 DEF Sampling
<1>5. CASE FExec
  <2>1. /\ up /\ UNCHANGED <<hostVars, up, wp>> /\ fpc = "exec"
        /\ fpc' \in {"lat", "result"}
        /\ fpc' = "lat" => result' = [run |-> params.run, samples |-> 0]
    BY <1>5 DEF FExec
  <2>2. fpc' = "lat" => Ring(result)' /\ result'.samples = 0
    BY <2>1 DEF Ring, Slots
  <2>3. QED BY <1>0, <2>1, <2>2 DEF Sampling
\* The sample goes to the slot after those that are filled.
<1>6. CASE FSample
  <2> SUFFICES ASSUME hpc \in Waiting, "unload" \notin faults
               PROVE  /\ result'.samples < JournalSz => wp' = result'.samples
                      /\ Ring(result)'
    BY <1>6 DEF FSample, Sampling
  <2>1. /\ up /\ fpc = "lat" /\ result.samples < MaxTrans(params)
        /\ journal' = [journal EXCEPT ![wp] = params.run] /\ wp' = NextSlot(wp)
        /\ result' = [result EXCEPT !.samples = @ + 1]
    BY <1>6 DEF FSample
  <2>2. result \in Results /\ journal \in [Slots -> 0 .. MaxRuns] /\ wp \in Slots
    BY <1>0 DEF TypeOK
  <2>3. /\ result'.run = result.run /\ result'.samples = result.samples + 1
        /\ result.samples \in Nat /\ result.samples < JournalSz
    BY <2>1, <2>2, MaxTransBound DEF Results
  <2>4. wp = result.samples /\ Ring(result) /\ params.run = result.run
    BY <1>0, <2>1, <2>3 DEF Sampling, Working
  <2>5. result'.samples < JournalSz => wp' = result'.samples
    BY <2>1, <2>2, <2>3, <2>4, NextSlotFacts
  <2>6. ASSUME NEW s \in Slots, s < result'.samples
        PROVE  journal'[s] = result'.run
    <3>1. CASE s = wp
      BY <2>1, <2>2, <2>3, <2>4, <3>1
    <3>2. CASE s # wp
      <4>1. s < result.samples
        BY <2>3, <2>4, <2>6, <3>2 DEF Slots
      <4>2. QED BY <2>1, <2>2, <2>3, <2>4, <3>2, <4>1 DEF Ring
    <3>3. QED BY <3>1, <3>2
  <2>7. QED BY <2>5, <2>6 DEF Ring
<1>7. QED BY <1>1, <1>2, <1>3, <1>4, <1>5, <1>6, StepCases

\* What run_test reads after the answer belongs to it, since the firmware waits.
LEMMA ReportedStep == Now /\ [Next]_vars => Reported'
<1> SUFFICES ASSUME Now, [Next]_vars PROVE Reported'
  OBVIOUS
<1> USE RunTestAssumption DEF hostVars, mailVars, ownVars, fwVars, Idle, Collecting
<1>0. TypeOK /\ Called /\ Quiet /\ Working /\ Reported
  BY DEF Now, RunInv
<1>1. CASE Poll \/ HelperExit
  <2>1. /\ hpc \in Waiting /\ UNCHANGED <<faults, run, test, mailVars, fwVars>>
        /\ hpc' \in {"poll", "raised"} \/ (hpc' = "getctrl" /\ up /\ FirmwareIdle)
    BY <1>0, <1>1 DEF Poll, HelperExit, Raise, Works, Waiting, Working, Quiet, Called, TypeOK,
       FirmwareIdle
  <2>2. Good(test_result) => Good(test_result)'
    BY <2>1 DEF Good, Ring, Own
  <2>3. QED BY <1>0, <2>1, <2>2 DEF Working, Reported
<1>2. CASE GetTestCtrl
  <2>1. /\ hpc = "getctrl" /\ UNCHANGED <<faults, run, test, mailVars, fwVars>>
        /\ hpc' = "raised" \/ (hpc' = "result" /\ test_ctrl = 0)
    BY <1>0, <1>2 DEF GetTestCtrl, Raise, Quiet, FirmwareIdle, TypeOK
  <2>2. Good(test_result) => Good(test_result)'
    BY <2>1 DEF Good, Ring, Own
  <2>3. QED BY <1>0, <2>1, <2>2 DEF Reported
<1>3. CASE GetResult
  <2>1. hpc = "result" /\ test_ctrl = 0 /\ Good(test_result)
    BY <1>0, <1>3 DEF GetResult, Reported
  <2>2. /\ UNCHANGED <<faults, run, test, mailVars, fwVars>>
        /\ \/ hpc' = "raised"
           \/ /\ hpc' = IF IsLat(test) THEN "journal" ELSE "done"
              /\ report'.run = test_result.run /\ report'.samples = test_result.samples
    BY <1>3 DEF GetResult, Raise
  <2>3. Good(test_result)'
    BY <2>1, <2>2 DEF Good, Ring, Own
  <2>4. Own(test_result.run) /\ (Own(test_result.run) => Own(report.run)' \/ hpc' = "raised")
    BY <2>1, <2>2 DEF Good, Own
  <2>5. QED BY <2>1, <2>2, <2>3, <2>4 DEF Reported
<1>4. CASE GetJournal
  <2>1. /\ hpc = "journal" /\ test_ctrl = 0 /\ Good(test_result)
        /\ report.run = test_result.run /\ report.samples = test_result.samples
    BY <1>0, <1>4 DEF GetJournal, Reported
  <2>2. UNCHANGED <<faults, run, test, mailVars, fwVars>>
    BY <1>4 DEF GetJournal
  <2>3. CASE hpc' = "raised"
    BY <2>3 DEF Reported
  <2>4. CASE /\ hpc' = "done"
             /\ report' = [report EXCEPT !.journal =
                              {journal[s] : s \in {t \in Slots : t < report.samples}}]
    <3>1. /\ report'.run = test_result.run
          /\ report'.journal = {journal[s] : s \in {t \in Slots : t < test_result.samples}}
      BY <1>0, <2>1, <2>4 DEF TypeOK
    <3>2. Own(report.run)'
      BY <2>1, <2>2, <3>1 DEF Good, Own
    <3>3. ASSUME IsLat(test), "unload" \notin faults
          PROVE  \A r \in report'.journal : r = test_result.run
      BY <2>1, <3>1, <3>3 DEF Good, Ring
    <3>4. ASSUME IsLat(test), "unload" \notin faults, test_result.run = run
          PROVE  run \in report'.journal
      <4>1. 0 \in Slots /\ 0 < test_result.samples /\ journal[0] = run
        BY <2>1, <3>4, Zeroes DEF Good, Ring
      <4>2. QED BY <3>1, <4>1
    <3>5. QED BY <2>2, <2>4, <3>1, <3>2, <3>3, <3>4 DEF Reported, Own
  <2>5. QED BY <1>4, <2>3, <2>4 DEF GetJournal, Raise
\* Steps of run_test elsewhere, and of a firmware that nobody reads from.
<1>5. CASE Call \/ Unload \/ Load \/ LoadFails \/ GetSymtab \/ SetDmaAddrs \/ SetParams
           \/ SetTestCtrl \/ HelperOpen \/ HelperStart \/ HelperPoll \/ Interrupt
  <2>1. hpc' \notin Collecting \cup {"done"}
    BY <1>5 DEF Call, Unload, Load, LoadFails, GetSymtab, SetDmaAddrs, SetParams, SetTestCtrl,
       HelperOpen, HelperStart, HelperPoll, Interrupt, Raise
  <2>2. QED BY <2>1 DEF Reported
<1>6. CASE FPoll \/ FAddrs \/ FSwitch \/ FExec \/ FSample \/ FSampled \/ FResult \/ FCtrl
  <2>1. up /\ ~FirmwareIdle /\ UNCHANGED hostVars
    <3>1. test_ctrl \in Int
      BY <1>0 DEF TypeOK
    <3>2. QED
      BY <1>6, <3>1 DEF FPoll, FAddrs, FSwitch, FExec, FSample, FSampled, FResult, FCtrl,
                        FirmwareIdle
  <2>2. hpc \notin Collecting
    BY <1>0, <2>1 DEF Quiet
  <2>3. QED BY <1>0, <2>1, <2>2 DEF Reported, Own
<1>7. CASE UNCHANGED vars
  <2>1. Good(test_result) => Good(test_result)'
    BY <1>7 DEF vars, Good, Ring, Own
  <2>2. QED BY <1>0, <1>7, <2>1 DEF vars, Reported, Own
<1>8. QED BY <1>1, <1>2, <1>3, <1>4, <1>5, <1>6, <1>7, StepCases

-----------------------------------------------------------------------------
(* The theorems.                                                           *)

\* No test has been called.
LEMMA RunInit == Init => RunInv
BY DEF Init, RunInv, Called, Quiet, Fresh, Setup, Working, Sampling, Reported, Preparing,
       Waiting, Collecting, Idle

\* The inductive invariant: run_test meets an idle firmware, the mailbox holds
\* what run_test put there, and the firmware works on that.
THEOREM MailInvariance == Spec => []MailInv
<1>1. Init => MailInv
  BY TypeInit, RunInit DEF MailInv
<1>2. MailInv /\ [Next]_vars => MailInv'
  BY FaultsStay, TypeStep, CalledStep, QuietStep, FreshStep, SetupStep, WorkingStep,
     SamplingStep, ReportedStep DEF MailInv, Now, RunInv
<1>3. QED BY <1>1, <1>2, PTL DEF Spec

\* Every variable keeps to its type, and so does what passes through the symbols
\* of the firmware.
THEOREM TypeCorrect == Spec => []TypeOK
<1>1. MailInv => TypeOK
  BY DEF MailInv
<1>2. QED BY <1>1, MailInvariance, PTL

\* What run_test returns, the samples from the journal included, is the result
\* of the test it started, for any sequence of calls, interrupts and failures
\* (ReportIsOfThisRun).
THEOREM ReportsAreTrue == Spec => []ReportIsOfThisRun
<1>1. MailInv => ReportIsOfThisRun
  BY DEF MailInv, RunInv, Reported, ReportIsOfThisRun
<1>2. QED BY <1>1, MailInvariance, PTL

\* A test that somebody waits for runs on the addresses and the parameters that
\* were set for it (UsesThisRunsSetup).
THEOREM SetupIsTrue == Spec => []UsesThisRunsSetup
<1>1. MailInv => UsesThisRunsSetup
  BY DEF MailInv, RunInv, Working, Waiting, UsesThisRunsSetup
<1>2. QED BY <1>1, MailInvariance, PTL
=============================================================================
