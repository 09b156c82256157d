------------------------- MODULE CardAndDriverProofs -------------------------
(***************************************************************************)
(* Machine-checked proofs about CardAndDriver, for every number of chunks, *)
(* of runs and of bindings.  What each part keeps by itself is cited from  *)
(* its own proofs: a step of the whole is a step or a stutter of the       *)
(* kernel module (DriverMoves), and one of run_test and the firmware       *)
(* (CardMoves).                                                            *)
(***************************************************************************)
EXTENDS CardAndDriverInv, TLAPS

NpbP == INSTANCE NpbDriverProofs WITH Users <- {}, Missed <- {}
RTP  == INSTANCE RunTestProofs

IInv == NpbP!DriverInv /\ RTP!TypeOK /\ Coupling

\* What the two parts assume of their constants.
LEMMA PartAssumptions == NpbP!NpbDriverAssumption /\ RTP!RunTestAssumption
BY CardAssumption DEF NpbP!NpbDriverAssumption, RTP!RunTestAssumption

-----------------------------------------------------------------------------
(* The kernel module, part of the whole.                                   *)

\* Steps of scripts and firmware change nothing of the kernel module; the
\* others are its own.
LEMMA DriverMoves ==
    ASSUME [Next]_vars
    PROVE  [NpbP!Next]_NpbP!vars
<1> USE DEF Npb!fields, NpbP!fields, Npb!devVars, NpbP!devVars, Npb!handed, NpbP!handed
<1>1. CASE UNCHANGED npbVars
  BY <1>1 DEF npbVars, NpbP!vars
<1>2. Npb!ModInit => NpbP!ModInit
  BY DEF Npb!ModInit, NpbP!ModInit
<1>3. Npb!ModExit => NpbP!ModExit
  BY DEF Npb!ModExit, NpbP!ModExit
<1>4. Npb!Module => NpbP!Module
  BY DEF Npb!Module, NpbP!Module, Npb!ModCppcoreInit, NpbP!ModCppcoreInit,
         Npb!ModDevCppInit, NpbP!ModDevCppInit, Npb!ModRegister, NpbP!ModRegister,
         Npb!ModUnregister, NpbP!ModUnregister, Npb!ModDevCppExit, NpbP!ModDevCppExit,
         Npb!ModCppcoreExit, NpbP!ModCppcoreExit
<1>5. Npb!Probe => NpbP!Probe
  BY DEF Npb!Probe, NpbP!Probe
<1>6. Npb!Remove => NpbP!Remove
  BY DEF Npb!Remove, NpbP!Remove, Npb!NpbRemove, NpbP!NpbRemove
<1>7. Npb!Device => NpbP!Device
  <2>1. Npb!Acquire => NpbP!Acquire
    BY DEF Npb!Acquire, NpbP!Acquire, Npb!Gives, NpbP!Gives, Npb!After, NpbP!After,
           Npb!Acquiring, NpbP!Acquiring, Npb!Chunks, NpbP!Chunks, Npb!Entries, NpbP!Entries
  <2>2. Npb!AcquireFails => NpbP!AcquireFails
    BY DEF Npb!AcquireFails, NpbP!AcquireFails, Npb!Label, NpbP!Label, Npb!Acquiring,
           NpbP!Acquiring
  <2>3. Npb!Alloc \/ Npb!Map => NpbP!Alloc \/ NpbP!Map
    BY DEF Npb!Alloc, NpbP!Alloc, Npb!Map, NpbP!Map, Npb!InitFails, NpbP!InitFails,
           Npb!NpbRemove, NpbP!NpbRemove
  <2>4. Npb!Fill => NpbP!Fill
    BY DEF Npb!Fill, NpbP!Fill, Npb!More, NpbP!More
  <2>5. Npb!CreateEntry => NpbP!CreateEntry
    BY DEF Npb!CreateEntry, NpbP!CreateEntry, Npb!Creating, NpbP!Creating, Npb!EntryOf,
           NpbP!EntryOf, Npb!AfterCreate, NpbP!AfterCreate, Npb!InitFails, NpbP!InitFails,
           Npb!NpbRemove, NpbP!NpbRemove
  <2>6. Npb!RemoveEntry \/ Npb!NoEntryToRemove => NpbP!RemoveEntry \/ NpbP!NoEntryToRemove
    BY DEF Npb!RemoveEntry, NpbP!RemoveEntry, Npb!NoEntryToRemove, NpbP!NoEntryToRemove,
           Npb!Removing, NpbP!Removing, Npb!EntryOf, NpbP!EntryOf, Npb!AfterRemove,
           NpbP!AfterRemove, Npb!Idle, NpbP!Idle
  <2>7. Npb!Unmap \/ Npb!Free => NpbP!Unmap \/ NpbP!Free
    BY DEF Npb!Unmap, NpbP!Unmap, Npb!Free, NpbP!Free
  <2>8. Npb!Release => NpbP!Release
    BY DEF Npb!Release, NpbP!Release, Npb!Releasing, NpbP!Releasing, Npb!Drops, NpbP!Drops,
           Npb!AfterRelease, NpbP!AfterRelease
  <2>9. QED
    BY <2>1, <2>2, <2>3, <2>4, <2>5, <2>6, <2>7, <2>8 DEF Npb!Device, NpbP!Device
<1>8. QED
  BY <1>1, <1>2, <1>3, <1>4, <1>5, <1>6, <1>7
     DEF Next, vars, NpbP!Next, Call, SetDmaAddrs, Script, Interrupt, Firmware, Probe, Remove,
         ModInit, ModExit, Module, Device

-----------------------------------------------------------------------------
(* run_test and the firmware, part of the whole.                           *)

\* Steps of the kernel module change nothing of scripts and firmware; the
\* others are theirs.
LEMMA CardMoves ==
    ASSUME [Next]_vars
    PROVE  [RTP!Next]_RTP!vars
<1> USE DEF RT!hostVars, RTP!hostVars, RT!mailVars, RTP!mailVars, RT!ownVars, RTP!ownVars,
            RT!fwVars, RTP!fwVars, RT!Raise, RTP!Raise, RT!Works, RTP!Works, RT!May, RTP!May,
            RT!Fails, RTP!Fails, RT!WriteCtrl, RTP!WriteCtrl
<1>1. CASE UNCHANGED runVars
  BY <1>1 DEF runVars, RTP!vars
<1>2. RT!Call => RTP!Call
  BY DEF RT!Call, RTP!Call, RT!Idle, RTP!Idle
<1>3. OtherPrepare \/ RT!SetDmaAddrs => RTP!Prepare
  <2>1. RT!Unload \/ RT!LoadFails \/ RT!GetSymtab \/ RT!SetDmaAddrs =>
            RTP!Unload \/ RTP!LoadFails \/ RTP!GetSymtab \/ RTP!SetDmaAddrs
    BY DEF RT!Unload, RTP!Unload, RT!LoadFails, RTP!LoadFails, RT!GetSymtab, RTP!GetSymtab,
           RT!SetDmaAddrs, RTP!SetDmaAddrs
  <2>2. RT!Load => RTP!Load
    BY DEF RT!Load, RTP!Load, RT!NoParams, RTP!NoParams, RT!NoResult, RTP!NoResult,
           RT!RingStart, RTP!RingStart
  <2>3. RT!SetParams => RTP!SetParams
    BY DEF RT!SetParams, RTP!SetParams, RT!ParamBlock, RTP!ParamBlock
  <2>4. QED BY <2>1, <2>2, <2>3 DEF OtherPrepare, RTP!Prepare
<1>4. RT!Polls \/ RT!Helper => RTP!Polls \/ RTP!Helper
  BY DEF RT!Polls, RTP!Polls, RT!Helper, RTP!Helper, RT!SetTestCtrl, RTP!SetTestCtrl, RT!Poll,
         RTP!Poll, RT!HelperOpen, RTP!HelperOpen, RT!HelperStart, RTP!HelperStart,
         RT!HelperPoll, RTP!HelperPoll, RT!HelperExit, RTP!HelperExit
<1>5. RT!Collect \/ RT!Interrupt => RTP!Collect \/ RTP!Interrupt
  BY DEF RT!Collect, RTP!Collect, RT!GetTestCtrl, RTP!GetTestCtrl, RT!GetResult,
         RTP!GetResult, RT!GetJournal, RTP!GetJournal, RT!Interrupt, RTP!Interrupt,
         RT!IsLat, RTP!IsLat, RT!Slots, RTP!Slots
<1>6. RT!Firmware => RTP!Firmware
  <2>1. RT!FPoll \/ RT!FAddrs \/ RT!FSwitch \/ RT!FResult \/ RT!FCtrl =>
            RTP!FPoll \/ RTP!FAddrs \/ RTP!FSwitch \/ RTP!FResult \/ RTP!FCtrl
    BY DEF RT!FPoll, RTP!FPoll, RT!AfterParams, RTP!AfterParams, RT!FAddrs, RTP!FAddrs,
           RT!FSwitch, RTP!FSwitch, RT!Known, RTP!Known, RT!FResult, RTP!FResult,
           RT!FCtrl, RTP!FCtrl
  <2>2. RT!FExec => RTP!FExec
    BY DEF RT!FExec, RTP!FExec, RT!IsLat, RTP!IsLat
  <2>3. RT!FSample \/ RT!FSampled => RTP!FSample \/ RTP!FSampled
    BY DEF RT!FSample, RTP!FSample, RT!FSampled, RTP!FSampled, RT!MaxTrans, RTP!MaxTrans,
           RT!NextSlot, RTP!NextSlot
  <2>4. QED BY <2>1, <2>2, <2>3 DEF RT!Firmware, RTP!Firmware
<1>7. QED
  BY <1>1, <1>2, <1>3, <1>4, <1>5, <1>6
     DEF Next, vars, RTP!Next, Call, SetDmaAddrs, Script, Interrupt, Firmware, Probe, Remove,
         ModInit, ModExit, Module, Device

-----------------------------------------------------------------------------
(* The parts keep their invariants.                                        *)

\* Before the first probe and the first call all is as the parts begin.
LEMMA PartsInit == Init => NpbP!DriverInv /\ RTP!TypeOK
<1> SUFFICES ASSUME Init PROVE NpbP!DriverInv /\ RTP!TypeOK
  OBVIOUS
<1>1. NpbP!Init
  BY DEF Init, Npb!Init, NpbP!Init, Npb!Chunks, NpbP!Chunks, Npb!Entries, NpbP!Entries,
         Npb!NoOp, NpbP!NoOp
<1>2. RTP!Init
  BY DEF Init, RT!Init, RTP!Init, RT!NoReport, RTP!NoReport, RT!NoParams, RTP!NoParams,
         RT!NoResult, RTP!NoResult, RT!Slots, RTP!Slots
<1>3. NpbP!DriverInv
  BY <1>1, PartAssumptions, NpbP!TypeInit, NpbP!StaircaseInit, NpbP!FieldsInit,
     NpbP!UsableInit, NpbP!OpsInit DEF NpbP!DriverInv
<1>4. QED BY <1>2, <1>3, PartAssumptions, RTP!TypeInit

\* Every step of the whole is one that the part's own proof has seen.
LEMMA PartsStep ==
    NpbP!DriverInv /\ RTP!TypeOK /\ [Next]_vars => NpbP!DriverInv' /\ RTP!TypeOK'
<1> SUFFICES ASSUME NpbP!DriverInv, RTP!TypeOK, [Next]_vars
             PROVE  NpbP!DriverInv' /\ RTP!TypeOK'
  OBVIOUS
<1>1. [NpbP!Next]_NpbP!vars /\ [RTP!Next]_RTP!vars
  BY DriverMoves, CardMoves
<1>2. NpbP!TypeOK /\ NpbP!Fields
  BY DEF NpbP!DriverInv
<1>3. NpbP!DriverInv'
  BY <1>1, <1>2, PartAssumptions, NpbP!TypeStep, NpbP!StaircaseStep, NpbP!FieldsStep,
     NpbP!UsableStep, NpbP!OpsStep DEF NpbP!DriverInv
<1>4. QED BY <1>1, <1>3, PartAssumptions, RTP!TypeStep

-----------------------------------------------------------------------------
(* Coupling is preserved.                                                  *)

\* A step is one of these.
LEMMA StepCases ==
    ASSUME [Next]_vars
    PROVE  \/ Call \/ SetDmaAddrs \/ Script \/ Interrupt \/ Firmware
           \/ Probe \/ Remove \/ ModInit \/ ModExit \/ Module \/ Device
           \/ UNCHANGED vars
BY DEF Next

\* What Coupling needs to know of run_test's variables.
LEMMA CardTypes ==
    ASSUME RTP!TypeOK
    PROVE  /\ run \in 0 .. MaxRuns /\ test \in Tests \cup {0}
           /\ test_ctrl \in Int /\ res \in {-1, 0}
           /\ host_dma_addrs \in 0 .. MaxRuns /\ chunk_dma_addrs \in 0 .. MaxRuns
           /\ "write" \notin faults
BY CardAssumption DEF RTP!TypeOK

\* No device is bound to begin with.
LEMMA CouplingInit == Init => Coupling
<1> SUFFICES ASSUME Init PROVE Coupling
  OBVIOUS
<1>1. /\ hpc = "idle" /\ dpc = "unbound" /\ up = FALSE /\ binding = 0
      /\ read = [r \in 0 .. MaxRuns |-> 0]
  BY DEF Init, RT!Init, Npb!Init
<1>2. 0 \in 0 .. MaxBindings
  BY CardAssumption
<1>3. read \in [0 .. MaxRuns -> 0 .. MaxBindings]
  BY <1>1, <1>2
<1>4. QED BY <1>1, <1>2, <1>3 DEF Coupling, TypeOK, Quiet, RT!Idle

\* The steps of run_test: a call needs a bound device, and a script, once called,
\* goes on while it is bound; it starts a test on the addresses of this binding.
LEMMA ScriptStep ==
    ASSUME Coupling, RTP!TypeOK, Call \/ SetDmaAddrs \/ Script \/ Interrupt
    PROVE  Coupling'
<1> USE CardAssumption DEF Coupling, RT!hostVars, RT!mailVars, RT!ownVars, RT!fwVars, RT!Raise
<1>0. UNCHANGED <<dpc, binding>>
  BY DEF Call, SetDmaAddrs, Script, Interrupt, npbVars
<1>1. CASE Call
  <2>1. dpc = "bound" /\ hpc' = "unload" /\ test' \in Tests
        /\ UNCHANGED <<read, up, fpc, test_ctrl, chunk_dma_addrs, host_dma_addrs>>
    BY <1>1 DEF Call, RT!Call
  <2>2. QED BY <1>0, <2>1 DEF TypeOK, Prepared
\* From here on a script is at work, so the device is bound and stays so.
<1>2. CASE SetDmaAddrs \/ Script \/ Interrupt
  <2>1. /\ hpc \notin RT!Idle /\ test' = test /\ test \in Tests /\ dpc = "bound"
        /\ hpc' # "idle"
    <3>1. hpc \notin RT!Idle
      BY <1>2 DEF SetDmaAddrs, Script, Interrupt, OtherPrepare, RT!Unload, RT!Load,
         RT!LoadFails, RT!GetSymtab, RT!SetDmaAddrs, RT!SetParams, RT!Polls, RT!SetTestCtrl,
         RT!Poll, RT!Helper, RT!HelperOpen, RT!HelperStart, RT!HelperPoll, RT!HelperExit,
         RT!Collect, RT!GetTestCtrl, RT!GetResult, RT!GetJournal, RT!Interrupt, RT!Idle
    <3>2. test' = test /\ hpc' # "idle"
      BY <1>2, <3>1 DEF SetDmaAddrs, Script, Interrupt, OtherPrepare, RT!Unload, RT!Load,
         RT!LoadFails, RT!GetSymtab, RT!SetDmaAddrs, RT!SetParams, RT!Polls, RT!SetTestCtrl,
         RT!Poll, RT!Helper, RT!HelperOpen, RT!HelperStart, RT!HelperPoll, RT!HelperExit,
         RT!Collect, RT!GetTestCtrl, RT!GetResult, RT!GetJournal, RT!Interrupt, RT!Idle
    <3>3. hpc # "idle"
      BY <3>1 DEF RT!Idle
    <3>4. QED BY <3>1, <3>2, <3>3 DEF Quiet
  <2> SUFFICES ASSUME TypeOK
               PROVE  /\ TypeOK'
                      /\ up' /\ fpc' # "poll" => test_ctrl' > 0
                      /\ up' /\ (test_ctrl' > 0 \/ Prepared') => read'[host_dma_addrs'] = binding
                      /\ up' /\ fpc' \in {"switch", "exec", "lat"} =>
                             read'[chunk_dma_addrs'] = binding
    BY <1>0, <2>1 DEF Quiet
  <2>2. CASE SetDmaAddrs
    <3>1. /\ hpc' = "params" /\ read' = [read EXCEPT ![run] = binding]
          /\ UNCHANGED <<up, fpc, test_ctrl, chunk_dma_addrs>>
          /\ up => host_dma_addrs' = run
      BY <2>2, CardTypes DEF SetDmaAddrs, RT!SetDmaAddrs, AddrsRead, RT!Fails, RT!May, RT!Works
    <3>2. \A r \in 0 .. MaxRuns : r = run \/ read[r] = binding => read'[r] = binding
      BY <3>1 DEF TypeOK
    <3>3. TypeOK'
      BY <1>0, <3>1 DEF TypeOK
    <3>4. QED BY <3>1, <3>2, <3>3, CardTypes
  <2>3. CASE RT!SetTestCtrl \/ RT!HelperStart
    <3>1. Prepared /\ hpc' \notin {"params", "open", "hstart", "start"}
          /\ test_ctrl' \in {test, test_ctrl}
          /\ UNCHANGED <<up, fpc, host_dma_addrs, chunk_dma_addrs>>
      BY <2>3 DEF RT!SetTestCtrl, RT!HelperStart, RT!WriteCtrl, Prepared
    <3>2. UNCHANGED read /\ test > 0
      BY <1>2, <2>1, <2>3 DEF SetDmaAddrs, Script, Interrupt, RT!SetDmaAddrs, RT!Interrupt,
                              RT!SetTestCtrl, RT!HelperStart
    <3>3. test_ctrl' > 0 \/ test_ctrl' = test_ctrl
      BY <2>1, <3>1, <3>2
    <3>4. QED BY <1>0, <3>1, <3>2, <3>3 DEF TypeOK
  <2>4. CASE RT!Load
    <3>1. up' = TRUE /\ fpc' = "poll" /\ test_ctrl' = 0 /\ hpc' = "symtab"
      BY <2>4 DEF RT!Load
    <3>2. UNCHANGED read
      BY <1>2, <2>4 DEF SetDmaAddrs, Script, Interrupt, RT!SetDmaAddrs, RT!Load
    <3>3. QED BY <1>0, <3>1, <3>2 DEF TypeOK, Prepared
  <2>5. CASE /\ Script \/ Interrupt
             /\ ~(RT!SetTestCtrl \/ RT!HelperStart \/ RT!Load)
    <3>1. /\ UNCHANGED <<read, fpc, test_ctrl, chunk_dma_addrs, host_dma_addrs>>
          /\ up' => up /\ (Prepared' => Prepared)
      BY <2>5 DEF Script, Interrupt, OtherPrepare, RT!Unload, RT!LoadFails, RT!GetSymtab,
         RT!SetParams, RT!Polls, RT!Poll, RT!Helper, RT!HelperOpen, RT!HelperPoll,
         RT!HelperExit, RT!Collect, RT!GetTestCtrl, RT!GetResult, RT!GetJournal, RT!Interrupt,
         Prepared
    <3>2. QED BY <1>0, <3>1 DEF TypeOK
  <2>6. QED BY <1>2, <2>2, <2>3, <2>4, <2>5
<1>3. QED BY <1>1, <1>2

\* The firmware takes the addresses over from the mailbox and keeps them until it
\* answers.
LEMMA FirmwareStep ==
    ASSUME Coupling, RTP!TypeOK, Firmware
    PROVE  Coupling'
<1> USE DEF Coupling, RT!hostVars, RT!mailVars, RT!ownVars, RT!fwVars
<1>1. UNCHANGED <<hpc, test, up, host_dma_addrs, dpc, binding, read>>
  BY DEF Firmware, npbVars, RT!Firmware, RT!FPoll, RT!FAddrs, RT!FSwitch, RT!FExec,
         RT!FSample, RT!FSampled, RT!FResult, RT!FCtrl
<1>2. /\ test_ctrl' = test_ctrl \/ (test_ctrl' \in {-1, 0} /\ fpc' = "poll")
      /\ fpc' # "poll" => test_ctrl > 0
      /\ fpc' \in {"switch", "exec", "lat"} =>
             \/ fpc \in {"switch", "exec", "lat"} /\ chunk_dma_addrs' = chunk_dma_addrs
             \/ chunk_dma_addrs' = host_dma_addrs
  BY CardTypes DEF Firmware, RT!Firmware, RT!FPoll, RT!AfterParams, RT!FAddrs, RT!FSwitch,
     RT!FExec, RT!FSample, RT!FSampled, RT!FResult, RT!FCtrl
<1>3. test_ctrl' > 0 => test_ctrl > 0
  BY <1>2, CardTypes
<1>4. up /\ fpc' # "poll" => test_ctrl' > 0
  BY <1>2, CardTypes
<1>5. ~Quiet' => ~Quiet
  BY <1>1, <1>2, CardTypes DEF Quiet
<1>6. QED BY <1>1, <1>2, <1>3, <1>4, <1>5 DEF TypeOK, Prepared

\* The kernel module: the device is released, and is bound anew, only while no
\* test runs.
LEMMA DriverStep ==
    ASSUME Coupling, RTP!TypeOK,
           Probe \/ Remove \/ ModInit \/ ModExit \/ Module \/ Device
    PROVE  Coupling'
<1> USE CardAssumption DEF Coupling
<1>1. UNCHANGED <<runVars, read>>
  BY DEF Probe, Remove, ModInit, ModExit, Module, Device
<1>2. UNCHANGED <<Quiet, Prepared, up, fpc, test_ctrl, hpc, test, host_dma_addrs, chunk_dma_addrs>>
  BY <1>1 DEF runVars, Quiet, Prepared
<1>3. CASE Probe
  <2>1. dpc = "unbound" /\ binding' = binding + 1 /\ binding < MaxBindings
    BY <1>3 DEF Probe, Npb!Probe
  <2>2. binding' \in 0 .. MaxBindings /\ binding' > 0
    BY <2>1 DEF TypeOK
  <2>3. Quiet
    BY <2>1
  <2>4. ~(up /\ test_ctrl > 0) /\ ~Prepared
    BY <2>3, CardTypes DEF Quiet, Prepared, RT!Idle
  <2>5. QED BY <1>1, <1>2, <2>2, <2>3, <2>4 DEF TypeOK
<1>4. CASE Remove
  <2>1. dpc = "bound" /\ Quiet /\ UNCHANGED binding
    BY <1>4 DEF Remove, Npb!Remove
  <2>2. QED BY <1>1, <1>2, <2>1 DEF TypeOK
<1>5. CASE ModInit \/ ModExit \/ Module
  <2>1. UNCHANGED <<dpc, binding>>
    BY <1>5 DEF ModInit, ModExit, Module, Npb!ModInit, Npb!ModExit, Npb!Module,
       Npb!ModCppcoreInit, Npb!ModDevCppInit, Npb!ModRegister, Npb!ModUnregister,
       Npb!ModDevCppExit, Npb!ModCppcoreExit, Npb!devVars
  <2>2. QED BY <1>1, <1>2, <2>1 DEF TypeOK
<1>6. CASE Device
  <2>1. dpc \notin {"bound", "unbound"} /\ UNCHANGED binding
    BY <1>6 DEF Device, Npb!Device, Npb!Acquire, Npb!AcquireFails, Npb!Alloc, Npb!Map,
       Npb!Fill, Npb!CreateEntry, Npb!RemoveEntry, Npb!NoEntryToRemove, Npb!Unmap, Npb!Free,
       Npb!Release, Npb!Acquiring, Npb!Creating, Npb!Removing, Npb!Releasing
  <2>2. Quiet /\ binding > 0
    BY <2>1
  <2>3. QED BY <1>1, <1>2, <2>1, <2>2 DEF TypeOK
<1>7. QED BY <1>3, <1>4, <1>5, <1>6

\* Every step keeps the two parts coupled.
LEMMA CouplingStep == Coupling /\ RTP!TypeOK /\ [Next]_vars => Coupling'
<1> SUFFICES ASSUME Coupling, RTP!TypeOK, [Next]_vars PROVE Coupling'
  OBVIOUS
<1>1. CASE UNCHANGED vars
  BY <1>1 DEF vars, runVars, npbVars, Coupling, TypeOK, Quiet, Prepared
<1>2. QED BY <1>1, StepCases, ScriptStep, FirmwareStep, DriverStep

-----------------------------------------------------------------------------
(* The theorems.                                                           *)

\* The inductive invariant of the composition: those of its parts, and that a
\* device stays bound as long as something works with its addresses.
THEOREM Invariance == Spec => []IInv
<1>1. Init => IInv
  BY PartsInit, CouplingInit DEF IInv
<1>2. IInv /\ [Next]_vars => IInv'
  BY PartsStep, CouplingStep DEF IInv
<1>3. QED BY <1>1, <1>2, PTL DEF Spec

\* The firmware touches the host's memory only through addresses of the binding
\* that lasts, all chunks allocated and mapped (AccessesOwnBuffers).
THEOREM OwnBuffers == Spec => []AccessesOwnBuffers
<1>1. IInv => AccessesOwnBuffers
  <2> SUFFICES ASSUME IInv, up, fpc \in {"exec", "lat"}
               PROVE  /\ binding > 0 /\ read[chunk_dma_addrs] = binding
                      /\ pages = Npb!Chunks /\ mappings = Npb!Chunks
                      /\ "master" \in held
    BY DEF AccessesOwnBuffers
  <2>0. NpbP!TypeOK /\ NpbP!Staircase /\ NpbP!Fields /\ NpbP!Usable /\ Coupling
    BY DEF IInv, NpbP!DriverInv
  <2>1. test_ctrl > 0 /\ read[chunk_dma_addrs] = binding
    BY <2>0 DEF Coupling
  <2>2. ~Quiet
    BY <2>1, CardTypes DEF Quiet, IInv
  <2>3. dpc = "bound" /\ binding > 0
    BY <2>0, <2>2 DEF Coupling
  <2>4. dpc \in NpbP!Live
    BY <2>3 DEF NpbP!Live, NpbP!Serving
  <2>5. "master" \in held
    <3>1. NpbP!DeviceHolds(dpc, leaving) = NpbP!DeviceOwn
      BY <2>3, <2>4 DEF NpbP!DeviceHolds
    <3>2. "master" \in NpbP!DeviceOwn
      BY DEF NpbP!DeviceOwn
    <3>3. QED BY <2>0, <3>1, <3>2 DEF NpbP!Staircase
  <2>6. pages = NpbP!Chunks /\ \A c \in NpbP!Chunks : dma[c]
    BY <2>0, <2>3 DEF NpbP!Usable
  <2>7. missed = {} /\ mappings \subseteq NpbP!Chunks
    BY <2>0 DEF NpbP!TypeOK
  <2>8. \A c \in NpbP!Chunks : c \in mappings
    BY <2>0, <2>3, <2>4, <2>6, <2>7 DEF NpbP!Fields, NpbP!Unmapped, NpbP!Undoing
  <2>9. NpbP!Chunks = Npb!Chunks
    BY DEF NpbP!Chunks, Npb!Chunks
  <2>10. QED BY <2>1, <2>3, <2>5, <2>6, <2>7, <2>8, <2>9
<1>2. QED BY <1>1, Invariance, PTL
=============================================================================
