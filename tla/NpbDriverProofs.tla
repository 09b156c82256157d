---------------------------- MODULE NpbDriverProofs ----------------------------
(***************************************************************************)
(* Machine-checked proofs about NpbDriver, for every number of chunks and  *)
(* of processes and whatever failures the kernel reports unnoticed.        *)
(***************************************************************************)
EXTENDS NpbDriverInv, TLAPS

\* A step is one of the actions, spelled out for case distinctions.
LEMMA StepCases ==
    ASSUME [Next]_vars
    PROVE  \/ ModInit \/ ModExit \/ ModCppcoreInit \/ ModDevCppInit \/ ModRegister
           \/ ModUnregister \/ ModDevCppExit \/ ModCppcoreExit
           \/ Probe \/ Acquire \/ AcquireFails \/ Alloc \/ Map \/ Fill \/ CreateEntry
           \/ Remove \/ RemoveEntry \/ NoEntryToRemove \/ Unmap \/ Free \/ Release
           \/ \E u \in Users : OpChunk(u) \/ OpEnd(u) \/ \E e \in Entries : OpStart(u, e)
           \/ UNCHANGED vars
BY DEF Next, Module, Device, UserStep

-----------------------------------------------------------------------------
(* Type correctness.                                                       *)

\* The module is out, no device is bound and nothing is held.
LEMMA TypeInit == Init => TypeOK
BY NpbDriverAssumption DEF Init, TypeOK, NoOp, Chunks

\* Fields bounds the loop over the chunks, Ops the entries that are in use.
LEMMA TypeStep == TypeOK /\ Fields /\ [Next]_vars => TypeOK'
<1> SUFFICES ASSUME TypeOK, Fields, [Next]_vars PROVE TypeOK'
  OBVIOUS
<1> USE NpbDriverAssumption
<1>1. CASE ModInit \/ ModExit \/ ModCppcoreInit \/ ModDevCppInit \/ ModRegister
           \/ ModUnregister \/ ModDevCppExit \/ ModCppcoreExit
  BY <1>1 DEF ModInit, ModExit, ModCppcoreInit, ModDevCppInit, ModRegister, ModUnregister,
              ModDevCppExit, ModCppcoreExit, TypeOK, devVars, fields, handed, Resources
<1>0. 0 \in 0 .. NumChunks
  OBVIOUS
<1>2. CASE Probe \/ Remove
  BY <1>0, <1>2 DEF Probe, Remove, NpbRemove, TypeOK, fields, handed, Acquiring, Removing
<1>3. CASE Acquire
  <2>1. dpc' \in Acquiring \cup {"alloc"} /\ Gives(dpc) \subseteq Resources
    BY <1>3 DEF Acquire, After, Gives, Acquiring, Resources
  <2>2. buf' \in [Chunks -> BOOLEAN] /\ dma' \in [Chunks -> BOOLEAN]
        /\ proc' \in [Entries -> BOOLEAN]
    BY <1>3 DEF Acquire, TypeOK, fields
  <2>3. QED BY <1>0, <1>3, <2>1, <2>2 DEF Acquire, TypeOK
<1>4. CASE AcquireFails
  BY <1>4 DEF AcquireFails, Label, TypeOK, fields, handed, Acquiring, Releasing
<1>5. CASE Alloc
  <2>1. i \in Chunks
    BY <1>5 DEF Alloc, TypeOK, Fields, InInit, Chunks
  <2>2. pages' \subseteq Chunks /\ buf' \in [Chunks -> BOOLEAN]
    BY <1>5, <2>1 DEF Alloc, TypeOK
  <2>3. dpc' \in {"map", "remove_buffer"} /\ leaving' \in {"failed", "removed"}
        /\ i' \in 0 .. NumChunks
    BY <1>0, <1>5 DEF Alloc, InitFails, NpbRemove, TypeOK
  <2>4. QED BY <1>5, <2>2, <2>3 DEF Alloc, TypeOK, Removing
<1>6. CASE Map
  <2>1. i \in Chunks
    BY <1>6 DEF Map, TypeOK, Fields, InInit, Chunks
  <2>2. mappings' \subseteq Chunks /\ dma' \in [Chunks -> BOOLEAN]
    BY <1>6, <2>1 DEF Map, TypeOK
  <2>3. dpc' \in {"fill", "remove_buffer"} /\ leaving' \in {"failed", "removed"}
        /\ i' \in 0 .. NumChunks
    BY <1>0, <1>6 DEF Map, InitFails, NpbRemove, TypeOK
  <2>4. QED BY <1>6, <2>2, <2>3 DEF Map, TypeOK, Removing
<1>7. CASE Fill
  <2>1. dpc' \in {"alloc", "create_dma_addrs", "oops"} /\ i' \in 0 .. NumChunks
    BY <1>7 DEF Fill, TypeOK, Fields, InInit
  <2>2. QED BY <1>7, <2>1 DEF Fill, TypeOK, fields, handed, Creating
<1>8. CASE CreateEntry
  <2>1. /\ dpc' \in Creating \cup {"bound", "remove_buffer"} /\ i' \in 0 .. NumChunks
        /\ leaving' \in {"failed", "removed"}
    BY <1>0, <1>8 DEF CreateEntry, AfterCreate, InitFails, NpbRemove, TypeOK, Creating
  <2>2. EntryOf(dpc) \in Entries
    BY <1>8 DEF CreateEntry, EntryOf, Creating, Entries
  <2>3. entries' \subseteq Entries /\ proc' \in [Entries -> BOOLEAN]
    BY <1>8, <2>2 DEF CreateEntry, TypeOK
  <2>4. QED
    BY <1>8, <2>1, <2>3 DEF CreateEntry, TypeOK, Removing
<1>9. CASE RemoveEntry \/ NoEntryToRemove
  BY <1>9 DEF RemoveEntry, NoEntryToRemove, AfterRemove, TypeOK, fields, handed, Removing
<1>10. CASE Unmap
  BY <1>10 DEF Unmap, TypeOK, fields
<1>11. CASE Free
  BY <1>11 DEF Free, TypeOK, fields, Fields, Undoing, Releasing
<1>12. CASE Release
  BY <1>12 DEF Release, AfterRelease, TypeOK, fields, Releasing
<1>13. ASSUME NEW u \in Users, OpChunk(u) \/ OpEnd(u) \/ \E e \in Entries : OpStart(u, e)
       PROVE  TypeOK'
  <2>1. CASE OpChunk(u)
    BY <1>13, <2>1 DEF OpChunk, Walks, NextChunk, TypeOK, devVars, fields, handed
  <2>2. CASE OpEnd(u)
    BY <1>13, <2>2 DEF OpEnd, NoOp, TypeOK, devVars, fields, handed
  <2>3. ASSUME NEW e \in Entries, OpStart(u, e) PROVE TypeOK'
    BY <2>3 DEF OpStart, TypeOK, devVars, fields, handed, Chunks
  <2>4. QED BY <1>13, <2>1, <2>2, <2>3
<1>14. CASE UNCHANGED vars
  BY <1>14 DEF vars, TypeOK, devVars, fields, handed
<1>15. QED
  BY <1>1, <1>2, <1>3, <1>4, <1>5, <1>6, <1>7, <1>8, <1>9, <1>10, <1>11, <1>12,
     <1>13, <1>14, StepCases

-----------------------------------------------------------------------------
(* Staircase is preserved.                                                 *)

Reasons == {"failed", "removed"}

\* What the module and the device hold does not overlap.
LEMMA HoldsApart ==
    /\ \A m : ModuleHolds(m) \subseteq ModuleOwn
    /\ \A d, why : DeviceHolds(d, why) \subseteq DeviceOwn
    /\ ModuleOwn \cap DeviceOwn = {}
BY DEF ModuleHolds, DeviceHolds, ModuleOwn, DeviceOwn

\* A step of probe that works adds what the next place has more, one that fails
\* jumps to a place that holds the same.
LEMMA AcquireStairs ==
    ASSUME NEW s \in Acquiring, NEW why
    PROVE  /\ Gives(s) \subseteq DeviceOwn
           /\ DeviceHolds(After(s), why) = DeviceHolds(s, why) \cup Gives(s)
           /\ s # "master" => DeviceHolds(Label(s), "failed") = DeviceHolds(s, why)
BY DEF Acquiring, Gives, After, Label, DeviceHolds, DeviceOwn, Live, InInit, Serving,
       Creating, Removing, Undoing

\* A release takes away what the next place has less, on both ways down.
LEMMA ReleaseStairs ==
    ASSUME NEW s \in Releasing, leaving \in Reasons
    PROVE  /\ Drops(s) \subseteq DeviceHolds(s, leaving)
           /\ DeviceHolds(AfterRelease(s), leaving) = DeviceHolds(s, leaving) \ Drops(s)
BY DEF Releasing, Reasons, Drops, AfterRelease, DeviceHolds, DeviceOwn, Live, InInit, Serving,
       Creating, Removing, Undoing

\* The two ends of the staircase: nothing, and everything.
LEMMA Ends ==
    /\ \A why : DeviceHolds("unbound", why) = {} /\ DeviceHolds("enable", why) = {}
    /\ \A d \in Live : \A why : DeviceHolds(d, why) = DeviceOwn
    /\ "unbound" \notin Live
    /\ ModuleHolds("out") = {} /\ ModuleHolds("cppcore_init") = {}
BY DEF DeviceHolds, ModuleHolds, Live, InInit, Serving, Creating, Removing, Undoing

\* Nothing is held before the module is loaded.
LEMMA StaircaseInit == Init => Staircase
<1> SUFFICES ASSUME Init PROVE Staircase
  OBVIOUS
<1>1. mpc = "out" /\ dpc = "unbound" /\ held = {}
  BY DEF Init
<1>2. QED BY <1>1, Ends DEF Staircase

\* Wherever init, probe and remove go on or jump to, what is held there is what
\* belongs to that place: every label releases exactly what was acquired before it.
LEMMA StaircaseStep == DriverInv /\ [Next]_vars => Staircase'
<1> SUFFICES ASSUME DriverInv, [Next]_vars PROVE Staircase'
  OBVIOUS
<1>0. /\ held = ModuleHolds(mpc) \cup DeviceHolds(dpc, leaving)
      /\ dpc # "unbound" => mpc \in {"in", "unregister"}
      /\ leaving \in Reasons
  BY DEF DriverInv, Staircase, TypeOK, Reasons
\* Steps between places where the same is held.
<1>1. ASSUME ModuleHolds(mpc') = ModuleHolds(mpc),
             DeviceHolds(dpc', leaving') = DeviceHolds(dpc, leaving), held' = held,
             dpc' # "unbound" => mpc' \in {"in", "unregister"}
      PROVE  Staircase'
  BY <1>0, <1>1 DEF Staircase
<1>2. CASE ModInit \/ ModExit
  BY <1>0, <1>1, <1>2 DEF ModInit, ModExit, ModuleHolds, devVars, handed
<1>3. CASE ModCppcoreInit \/ ModDevCppInit \/ ModRegister
  <2>1. dpc = "unbound" /\ UNCHANGED <<dpc, leaving>>
    BY <1>0, <1>3 DEF ModCppcoreInit, ModDevCppInit, ModRegister, devVars
  <2>2. ModuleHolds(mpc') \cup held = ModuleHolds(mpc') /\ held' = ModuleHolds(mpc')
    BY <1>0, <1>3, <2>1, Ends
       DEF ModCppcoreInit, ModDevCppInit, ModRegister, ModuleHolds, ModuleOwn
  <2>3. QED BY <2>1, <2>2, Ends DEF Staircase
<1>4. CASE ModUnregister \/ ModDevCppExit \/ ModCppcoreExit
  <2>1. dpc = "unbound" /\ UNCHANGED <<dpc, leaving>>
    BY <1>0, <1>4 DEF ModUnregister, ModDevCppExit, ModCppcoreExit, devVars
  <2>2. held' = ModuleHolds(mpc')
    BY <1>0, <1>4, <2>1, Ends
       DEF ModUnregister, ModDevCppExit, ModCppcoreExit, ModuleHolds, ModuleOwn
  <2>3. QED BY <2>1, <2>2, Ends DEF Staircase
<1>5. CASE Probe
  <2>1. /\ mpc = "in" /\ dpc = "unbound" /\ dpc' = "enable"
        /\ UNCHANGED <<mpc, leaving, held>>
    BY <1>5 DEF Probe, handed
  <2>2. QED BY <1>0, <1>1, <2>1, Ends
<1>6. CASE Acquire
  <2>1. UNCHANGED <<mpc, leaving>> /\ held' = held \cup Gives(dpc) /\ dpc' = After(dpc)
        /\ dpc \in Acquiring
    BY <1>6 DEF Acquire
  <2>2. dpc # "unbound"
    BY <2>1 DEF Acquiring
  <2>3. QED BY <1>0, <2>1, <2>2, AcquireStairs DEF Staircase
<1>7. CASE AcquireFails
  <2>1. /\ dpc \in Acquiring /\ dpc # "master" /\ dpc' = Label(dpc) /\ leaving' = "failed"
        /\ UNCHANGED <<mpc, held>>
    BY <1>7 DEF AcquireFails, handed
  <2>2. dpc # "unbound"
    BY <2>1 DEF Acquiring
  <2>3. QED BY <1>0, <1>1, <2>1, <2>2, AcquireStairs
<1>8. CASE Alloc \/ Map \/ Fill \/ CreateEntry \/ Remove \/ RemoveEntry \/ NoEntryToRemove
           \/ Unmap
  <2>1. dpc \in Live /\ dpc' \in Live /\ UNCHANGED <<mpc, held>>
    BY <1>8 DEF Alloc, Map, Fill, CreateEntry, AfterCreate, InitFails, NpbRemove, Remove,
                RemoveEntry, NoEntryToRemove, AfterRemove, Unmap, handed,
                Live, InInit, Serving, Creating, Removing, Undoing
  <2>2. QED BY <1>0, <1>1, <2>1, Ends
<1>9. CASE Free
  <2>1. /\ dpc = "free" /\ UNCHANGED <<mpc, held, leaving>>
        /\ dpc' = "unmap" \/ (dpc' = "kfree" /\ leaving = "failed")
           \/ (dpc' = "unregister" /\ leaving = "removed")
    BY <1>0, <1>9 DEF Free, Reasons
  <2>2. DeviceHolds(dpc', leaving') = DeviceHolds(dpc, leaving)
    BY <2>1 DEF DeviceHolds, Live, InInit, Serving, Creating, Removing, Undoing
  <2>3. QED BY <1>0, <1>1, <2>1, <2>2
<1>10. CASE Release
  <2>1. /\ dpc \in Releasing /\ held' = held \ Drops(dpc) /\ dpc' = AfterRelease(dpc)
        /\ UNCHANGED <<mpc, leaving>>
    BY <1>10 DEF Release
  <2>2. dpc # "unbound"
    BY <2>1 DEF Releasing
  <2>3. QED BY <1>0, <2>1, <2>2, ReleaseStairs, HoldsApart DEF Staircase
<1>11. ASSUME NEW u \in Users, OpChunk(u) \/ OpEnd(u) \/ \E e \in Entries : OpStart(u, e)
       PROVE  Staircase'
  BY <1>0, <1>1, <1>11 DEF OpChunk, OpEnd, OpStart, devVars, handed
<1>12. CASE UNCHANGED vars
  BY <1>0, <1>1, <1>12 DEF vars, devVars, handed
<1>13. QED
  BY <1>2, <1>3, <1>4, <1>5, <1>6, <1>7, <1>8, <1>9, <1>10, <1>11, <1>12, StepCases

-----------------------------------------------------------------------------
(* Fields is preserved.                                                    *)

\* The steps that leave the struct and the chunks alone.
QuietStep == UNCHANGED <<missed, dpc, leaving, i, buf, dma, proc, pages, mappings, entries>>

LEMMA QuietCases ==
    ASSUME [Next]_vars
    PROVE  \/ QuietStep
           \/ Probe \/ Acquire \/ AcquireFails \/ Alloc \/ Map \/ Fill \/ CreateEntry
           \/ Remove \/ RemoveEntry \/ NoEntryToRemove \/ Unmap \/ Free \/ Release
<1>1. CASE ModInit \/ ModExit \/ ModCppcoreInit \/ ModDevCppInit \/ ModRegister
           \/ ModUnregister \/ ModDevCppExit \/ ModCppcoreExit
  BY <1>1 DEF ModInit, ModExit, ModCppcoreInit, ModDevCppInit, ModRegister, ModUnregister,
              ModDevCppExit, ModCppcoreExit, QuietStep, devVars, fields, handed
<1>2. ASSUME NEW u \in Users, OpChunk(u) \/ OpEnd(u) \/ \E e \in Entries : OpStart(u, e)
      PROVE  QuietStep
  BY <1>2 DEF OpChunk, OpEnd, OpStart, QuietStep, devVars, fields, handed
<1>3. CASE UNCHANGED vars
  BY <1>3 DEF vars, QuietStep, devVars, fields, handed
<1>4. QED BY <1>1, <1>2, <1>3, StepCases

\* No chunk is handed out before the first probe.
LEMMA FieldsInit == Init => Fields
BY DEF Init, Fields, Live, InInit, Serving, Creating, Removing, Undoing

\* npb_init and npb_remove keep the fields of the struct in step with what the
\* kernel handed out, but for failures that go unnoticed.
LEMMA FieldsStep == DriverInv /\ [Next]_vars => Fields'
<1> SUFFICES ASSUME DriverInv, [Next]_vars PROVE Fields'
  OBVIOUS
<1> USE NpbDriverAssumption DEF Live, InInit, Serving, Creating, Removing, Undoing, Freed, Unmapped
<1>0. TypeOK /\ Fields /\ Usable
  BY DEF DriverInv
<1>1. CASE QuietStep
  BY <1>0, <1>1 DEF QuietStep, Fields
<1>2. CASE Probe
  BY <1>0, <1>2 DEF Probe, Fields, fields, handed
<1>3. CASE Acquire
  <2>1. /\ dpc \notin Live /\ i' = 0 /\ UNCHANGED <<missed, pages, mappings>>
        /\ IF dpc = "kzalloc" THEN dpc' = "alloc" /\ \A c \in Chunks : ~buf'[c] /\ ~dma'[c]
                              ELSE dpc' \notin Live
    BY <1>3 DEF Acquire, After, Acquiring
  <2>2. QED BY <1>0, <2>1 DEF Fields
<1>4. CASE AcquireFails
  <2>1. dpc \notin Live /\ dpc' \notin Live /\ UNCHANGED <<missed, pages, mappings>>
    BY <1>4 DEF AcquireFails, Label, Acquiring, handed
  <2>2. QED BY <1>0, <2>1 DEF Fields
<1>5. CASE Alloc
  <2>1. /\ dpc \in InInit /\ UNCHANGED <<missed, dma, mappings>>
        /\ \/ /\ dpc' = "map" /\ i' = i
              /\ buf' = [buf EXCEPT ![i] = TRUE]
              /\ pages' = pages \cup {i} \/ ("alloc" \in missed /\ pages' = pages)
           \/ dpc' = "remove_buffer" /\ i' = 0 /\ UNCHANGED <<buf, pages>>
    BY <1>5 DEF Alloc, InitFails, NpbRemove
  <2>0. i \in Chunks /\ buf \in [Chunks -> BOOLEAN] /\ pages \subseteq Chunks
    BY <1>0, <2>1 DEF TypeOK, Fields, Chunks
  <2>2. \A c \in Chunks : buf'[c] => buf[c] \/ (c = i /\ (i \in pages' \/ "alloc" \in missed))
    BY <1>0, <2>1 DEF TypeOK
  <2>3. \A c \in pages' : buf'[c]
    <3>1. \A c \in pages : buf[c] /\ c \in Chunks
      BY <1>0, <2>0 DEF Fields
    <3>2. QED BY <2>0, <2>1, <3>1
  <2>4. pages \subseteq pages' /\ dpc' \notin Undoing /\ dpc' \in InInit \cup Removing
    BY <2>1
  <2>5. dpc' \in Live /\ dpc \in Live /\ (\A c \in Chunks : ~Freed(c) /\ ~Unmapped(c))
        /\ (\A c \in Chunks : ~Freed(c)' /\ ~Unmapped(c)')
    BY <2>1, <2>4
  <2>6. \A c \in Chunks : buf'[c] => c \in pages' \/ "alloc" \in missed'
    BY <1>0, <2>1, <2>2, <2>4, <2>5 DEF Fields
  <2>7. \A c \in mappings' : dma'[c] /\ c \in Chunks
    BY <1>0, <2>1 DEF Fields, TypeOK
  <2>8. \A c \in Chunks : dma'[c] => c \in mappings' \/ "map" \in missed'
    BY <1>0, <2>1, <2>5 DEF Fields
  <2>9. pages' \subseteq Chunks
    BY <2>0, <2>1
  <2>10. /\ dpc' \in InInit \cup Undoing => i' < NumChunks
         /\ dpc' \in Removing => i' = 0
    BY <1>0, <2>1 DEF Fields
  <2>11. QED BY <2>3, <2>5, <2>6, <2>7, <2>8, <2>9, <2>10 DEF Fields
<1>6. CASE Map
  <2>1. /\ dpc \in InInit /\ UNCHANGED <<missed, buf, pages>>
        /\ \/ /\ dpc' = "fill" /\ i' = i
              /\ dma' = [dma EXCEPT ![i] = TRUE]
              /\ mappings' = mappings \cup {i} \/ ("map" \in missed /\ mappings' = mappings)
           \/ dpc' = "remove_buffer" /\ i' = 0 /\ UNCHANGED <<dma, mappings>>
    BY <1>6 DEF Map, InitFails, NpbRemove
  <2>0. i \in Chunks /\ dma \in [Chunks -> BOOLEAN] /\ mappings \subseteq Chunks
    BY <1>0, <2>1 DEF TypeOK, Fields, Chunks
  <2>2. \A c \in Chunks : dma'[c] => dma[c] \/ (c = i /\ (i \in mappings' \/ "map" \in missed))
    BY <1>0, <2>1 DEF TypeOK
  <2>3. \A c \in mappings' : dma'[c]
    <3>1. \A c \in mappings : dma[c] /\ c \in Chunks
      BY <1>0, <2>0 DEF Fields
    <3>2. QED BY <2>0, <2>1, <3>1
  <2>4. mappings \subseteq mappings' /\ dpc' \notin Undoing /\ dpc' \in InInit \cup Removing
    BY <2>1
  <2>5. dpc' \in Live /\ dpc \in Live /\ (\A c \in Chunks : ~Freed(c) /\ ~Unmapped(c))
        /\ (\A c \in Chunks : ~Freed(c)' /\ ~Unmapped(c)')
    BY <2>1, <2>4
  <2>6. \A c \in Chunks : dma'[c] => c \in mappings' \/ "map" \in missed'
    BY <1>0, <2>1, <2>2, <2>4, <2>5 DEF Fields
  <2>7. \A c \in pages' : buf'[c] /\ c \in Chunks
    BY <1>0, <2>1 DEF Fields, TypeOK
  <2>8. \A c \in Chunks : buf'[c] => c \in pages' \/ "alloc" \in missed'
    BY <1>0, <2>1, <2>5 DEF Fields
  <2>9. mappings' \subseteq Chunks
    BY <2>0, <2>1
  <2>10. /\ dpc' \in InInit \cup Undoing => i' < NumChunks
         /\ dpc' \in Removing => i' = 0
    BY <1>0, <2>1 DEF Fields
  <2>11. QED BY <2>3, <2>5, <2>6, <2>7, <2>8, <2>9, <2>10 DEF Fields
<1>7. CASE Fill
  BY <1>0, <1>7 DEF Fill, More, Fields, TypeOK, fields, handed
<1>8. CASE CreateEntry
  <2>1. /\ dpc \in Creating /\ dpc' \in Creating \cup {"bound", "remove_buffer"}
        /\ dpc' = "remove_buffer" => i' = 0
        /\ UNCHANGED <<missed, buf, dma, pages, mappings>>
    BY <1>8 DEF CreateEntry, AfterCreate, InitFails, NpbRemove
  <2>2. QED BY <1>0, <2>1 DEF Fields
<1>9. CASE Remove
  BY <1>0, <1>9 DEF Remove, NpbRemove, Fields, fields, handed
<1>10. CASE RemoveEntry \/ NoEntryToRemove
  <2>1. /\ dpc \in Removing /\ dpc' \in Removing \cup {"unmap"}
        /\ UNCHANGED <<missed, i, buf, dma, pages, mappings>>
    BY <1>10 DEF RemoveEntry, NoEntryToRemove, AfterRemove, fields, handed
  <2>2. QED BY <1>0, <2>1 DEF Fields, TypeOK, Chunks
<1>11. CASE Unmap
  BY <1>0, <1>11 DEF Unmap, Fields, TypeOK, Chunks, fields
<1>12. CASE Free
  BY <1>0, <1>12 DEF Free, Fields, TypeOK, Chunks, fields
<1>13. CASE Release
  <2>1. dpc \notin Live /\ dpc' \notin Live /\ UNCHANGED <<missed, pages, mappings>>
    BY <1>0, <1>13 DEF Release, AfterRelease, Releasing, TypeOK
  <2>2. QED BY <1>0, <2>1 DEF Fields
<1>14. QED
  BY <1>1, <1>2, <1>3, <1>4, <1>5, <1>6, <1>7, <1>8, <1>9, <1>10, <1>11, <1>12, <1>13,
     QuietCases

-----------------------------------------------------------------------------
(* Usable is preserved.                                                    *)

\* No probe is under way.
LEMMA UsableInit == Init => Usable
BY DEF Init, Usable, InInit, Creating, Removing

\* npb_init comes to the entries with every chunk allocated and mapped, and as
\* long as there is an entry npb_remove has not come to the chunks.
LEMMA UsableStep == DriverInv /\ [Next]_vars => Usable'
<1> SUFFICES ASSUME DriverInv, [Next]_vars PROVE Usable'
  OBVIOUS
<1> USE NpbDriverAssumption DEF InInit, Creating, Removing
<1>0. TypeOK /\ Fields /\ Usable
  BY DEF DriverInv
<1>1. CASE QuietStep
  BY <1>0, <1>1 DEF QuietStep, Usable
<1>2. CASE Acquire
  <2>1. \/ dpc' \notin InInit \cup Creating \cup Removing \cup {"bound", "oops"}
        \/ dpc' = "alloc" /\ i' = 0 /\ \A e \in Entries : ~proc'[e]
    BY <1>2 DEF Acquire, After, Acquiring
  <2>2. QED BY <2>1 DEF Usable, Chunks
<1>3. CASE Probe \/ AcquireFails \/ Unmap \/ Free \/ Release
  <2>1. dpc' \notin InInit \cup Creating \cup Removing \cup {"bound", "oops"}
    BY <1>0, <1>3 DEF Probe, AcquireFails, Label, Acquiring, Unmap, Free, Release,
                      AfterRelease, Releasing, TypeOK
  <2>2. QED BY <2>1 DEF Usable
\* Where npb_init fails before the first entry, no entry is left to remove.
<1>4. ASSUME dpc \in InInit, dpc' = "remove_buffer", UNCHANGED proc
      PROVE  Usable'
  BY <1>0, <1>4 DEF Usable
<1>5. CASE Alloc
  <2>1. CASE dpc' = "remove_buffer"
    BY <1>4, <1>5, <2>1 DEF Alloc
  <2>2. CASE dpc' # "remove_buffer"
    <3>1. /\ dpc = "alloc" /\ dpc' = "map" /\ pages \subseteq pages'
          /\ UNCHANGED <<i, dma, proc>>
      BY <1>5, <2>2 DEF Alloc, InitFails, NpbRemove
    <3>2. QED BY <1>0, <3>1 DEF Usable
  <2>3. QED BY <2>1, <2>2
<1>6. CASE Map
  <2>1. CASE dpc' = "remove_buffer"
    BY <1>4, <1>6, <2>1 DEF Map
  <2>2. CASE dpc' # "remove_buffer"
    <3>1. /\ dpc = "map" /\ dpc' = "fill" /\ dma' = [dma EXCEPT ![i] = TRUE]
          /\ UNCHANGED <<i, pages, proc>>
      BY <1>6, <2>2 DEF Map, InitFails, NpbRemove
    <3>2. i \in Chunks /\ dma \in [Chunks -> BOOLEAN]
      BY <1>0, <3>1 DEF TypeOK, Fields, Chunks
    <3>3. dma'[i] /\ \A c \in Chunks : dma[c] => dma'[c]
      BY <3>1, <3>2
    <3>4. QED BY <1>0, <3>1, <3>3 DEF Usable
  <2>3. QED BY <2>1, <2>2
<1>7. CASE Fill
  <2>1. /\ dpc = "fill" /\ UNCHANGED <<dma, proc, pages>>
        /\ i \in Nat /\ \A c \in Chunks : c < i => c \in pages /\ dma[c]
        /\ dma[i] /\ \A e \in Entries : ~proc[e]
    BY <1>0, <1>7 DEF Fill, fields, handed, TypeOK, Usable
  <2>2. CASE dpc' = "oops"
    BY <2>1, <2>2 DEF Usable
  <2>3. CASE dpc' # "oops"
    <3>1. i \in pages /\ i' = i + 1
      BY <1>7, <2>3 DEF Fill
    <3>2. \A c \in Chunks : c < i' => c \in pages /\ dma[c]
      BY <2>1, <3>1 DEF Chunks
    <3>3. CASE dpc' = "alloc"
      BY <2>1, <3>2, <3>3 DEF Usable
    <3>4. CASE dpc' = "create_dma_addrs" /\ ~More(i + 1)
      <4>1. \A c \in Chunks : c \in pages /\ dma[c]
        BY <2>1, <3>1, <3>2, <3>4 DEF More, Chunks
      <4>2. pages \subseteq Chunks
        BY <1>0 DEF TypeOK
      <4>3. QED BY <2>1, <3>4, <4>1, <4>2 DEF Usable
    <3>5. QED BY <1>7, <2>3, <3>3, <3>4 DEF Fill
  <2>4. QED BY <2>2, <2>3
<1>8. CASE CreateEntry \/ Remove
  <2>1. /\ dpc \in Creating \cup {"bound"} /\ UNCHANGED <<dma, pages>>
        /\ dpc' \in Creating \cup {"bound"} \cup Removing
    BY <1>8 DEF CreateEntry, AfterCreate, InitFails, Remove, NpbRemove, fields, handed
  <2>2. QED BY <1>0, <2>1 DEF Usable
<1>9. CASE RemoveEntry \/ NoEntryToRemove
  <2>1. /\ dpc \in Removing /\ dpc' \in Removing \cup {"unmap"}
        /\ UNCHANGED <<dma, proc, pages>>
    BY <1>9 DEF RemoveEntry, NoEntryToRemove, AfterRemove, fields, handed
  <2>2. QED BY <1>0, <2>1 DEF Usable
<1>10. QED
  BY <1>1, <1>2, <1>3, <1>5, <1>6, <1>7, <1>8, <1>9, QuietCases

-----------------------------------------------------------------------------
(* Ops is preserved.                                                       *)

\* npb_remove puts one entry after the other out of use, and all of them before
\* it comes to the chunks.
LEMMA GoneStairs ==
    /\ \A s \in Removing : /\ EntryOf(s) \in Entries
                           /\ Gone(AfterRemove(s)) = Gone(s) \cup {EntryOf(s)}
    /\ \A d \in Creating \cup {"bound", "remove_buffer"} : Gone(d) = {}
    /\ \A d : d \notin Serving => Gone(d) = Entries
<1>1. \A s \in Removing : Gone(s) = CASE s = "remove_buffer"    -> {}
                                      [] s = "remove_buf_sz"    -> {"buffer"}
                                      [] s = "remove_dma_addrs" -> {"buffer", "buf_sz"}
  BY DEF Gone, Serving, Removing
<1>2. \A d : d \notin Serving => Gone(d) = Entries
  BY DEF Gone, Serving, Removing
<1>3. \A d \in Creating \cup {"bound", "remove_buffer"} : Gone(d) = {}
  BY DEF Gone, Serving, Creating, Removing
<1>4. ASSUME NEW s \in Removing
      PROVE  EntryOf(s) \in Entries /\ Gone(AfterRemove(s)) = Gone(s) \cup {EntryOf(s)}
  <2>1. CASE s = "remove_buffer"
    BY <1>1, <2>1 DEF EntryOf, AfterRemove, Entries, Removing
  <2>2. CASE s = "remove_buf_sz"
    BY <1>1, <2>2 DEF EntryOf, AfterRemove, Entries, Removing
  <2>3. CASE s = "remove_dma_addrs"
    BY <1>1, <1>2, <2>3 DEF EntryOf, AfterRemove, Entries, Serving, Creating, Removing
  <2>4. QED BY <2>1, <2>2, <2>3 DEF Removing
<1>5. QED BY <1>2, <1>3, <1>4

\* There is no entry and no process is in one.
LEMMA OpsInit == Init => Ops
BY DEF Init, Ops

\* An operation runs only on an entry that is in use, from its creation to its
\* removal, which waits for the operation.
LEMMA OpsStep == DriverInv /\ [Next]_vars => Ops'
<1> SUFFICES ASSUME DriverInv, [Next]_vars PROVE Ops'
  OBVIOUS
<1>0. TypeOK /\ Ops
  BY DEF DriverInv
<1>a. entries \subseteq Entries
  BY <1>0 DEF TypeOK
\* Outside npb_init's last part and npb_remove's first, nobody is inside.
<1>1. dpc \notin Serving => entries = {} /\ \A u \in Users : op[u] = NoOp
  BY <1>0, <1>a, GoneStairs DEF Ops
<1>2. ASSUME dpc \notin Serving, UNCHANGED <<entries, op>>
      PROVE  Ops'
  BY <1>1, <1>2 DEF Ops
<1>3. ASSUME Gone(dpc') = Gone(dpc), UNCHANGED <<entries, proc, op>>
      PROVE  Ops'
  BY <1>0, <1>3 DEF Ops
<1>4. CASE ModInit \/ ModExit \/ ModCppcoreInit \/ ModDevCppInit \/ ModRegister
           \/ ModUnregister \/ ModDevCppExit \/ ModCppcoreExit \/ UNCHANGED vars
  BY <1>3, <1>4 DEF ModInit, ModExit, ModCppcoreInit, ModDevCppInit, ModRegister,
                    ModUnregister, ModDevCppExit, ModCppcoreExit, vars, devVars, fields, handed
<1>5. CASE Probe \/ Acquire \/ AcquireFails \/ Alloc \/ Map \/ Fill \/ Unmap \/ Free \/ Release
  <2>1. dpc \notin Serving /\ UNCHANGED <<entries, op>>
    BY <1>5 DEF Probe, Acquire, AcquireFails, Alloc, Map, Fill, Unmap, Free, Release, handed,
                Serving, Creating, Removing, Acquiring, Releasing
  <2>2. QED BY <1>2, <2>1
<1>6. CASE CreateEntry
  <2>1. /\ dpc \in Creating /\ dpc' \in Creating \cup {"bound", "remove_buffer"}
        /\ UNCHANGED op
    BY <1>6 DEF CreateEntry, AfterCreate, InitFails, NpbRemove, Creating
  <2>2. Gone(dpc') = {} /\ Gone(dpc) = {}
    BY <2>1, GoneStairs
  <2>3. EntryOf(dpc) \in Entries /\ proc \in [Entries -> BOOLEAN]
    BY <1>0, <2>1 DEF EntryOf, Creating, Entries, TypeOK
  <2>4. \/ entries' = entries \cup {EntryOf(dpc)}
           /\ proc' = [proc EXCEPT ![EntryOf(dpc)] = TRUE]
        \/ UNCHANGED <<entries, proc>>
    BY <1>6 DEF CreateEntry
  <2>5. /\ \A e \in Entries : proc[e] => proc'[e]
        /\ \A e \in entries' : e \in entries \/ proc'[e]
    BY <2>3, <2>4
  <2>6. QED BY <1>0, <1>a, <2>1, <2>2, <2>5 DEF Ops
<1>7. CASE Remove
  <2>1. dpc = "bound" /\ dpc' = "remove_buffer" /\ UNCHANGED <<entries, proc, op>>
    BY <1>7 DEF Remove, NpbRemove, fields, handed
  <2>2. QED BY <1>3, <2>1, GoneStairs
<1>8. CASE RemoveEntry
  <2>1. dpc \in Removing /\ UNCHANGED <<proc, op>>
    BY <1>8 DEF RemoveEntry, fields
  <2>2. CASE UNCHANGED dpc /\ entries' \subseteq entries
    BY <1>0, <2>1, <2>2 DEF Ops
  <2>3. CASE /\ EntryOf(dpc) \notin entries /\ Idle(EntryOf(dpc))
             /\ dpc' = AfterRemove(dpc) /\ UNCHANGED entries
    BY <1>0, <2>1, <2>3, GoneStairs DEF Ops, Idle
  <2>4. QED BY <1>8, <2>2, <2>3 DEF RemoveEntry
<1>9. CASE NoEntryToRemove
  <2>1. /\ dpc \in Removing /\ ~proc[EntryOf(dpc)] /\ dpc' = AfterRemove(dpc)
        /\ UNCHANGED <<entries, proc, op>>
    BY <1>9 DEF NoEntryToRemove, fields, handed
  <2>2. QED BY <1>0, <2>1, GoneStairs DEF Ops
<1>10. ASSUME NEW u \in Users, OpChunk(u) \/ OpEnd(u) \/ \E e \in Entries : OpStart(u, e)
       PROVE  Ops'
  <2>1. UNCHANGED <<dpc, proc, entries>>
    BY <1>10 DEF OpChunk, OpEnd, OpStart, devVars, fields, handed
  <2>2. op[u] \in [entry : Entries \cup {"none"}, at : 0 .. NumChunks]
    BY <1>0 DEF TypeOK
  <2>3. \A v \in Users : \/ op'[v] = NoOp
                         \/ op[v] # NoOp /\ op'[v].entry = op[v].entry
                         \/ op'[v].entry \in entries
    <3>1. CASE OpChunk(u)
      BY <1>0, <2>2, <3>1 DEF OpChunk, Walks, NoOp, TypeOK
    <3>2. CASE OpEnd(u)
      BY <1>0, <3>2 DEF OpEnd, NoOp, TypeOK
    <3>3. ASSUME NEW e \in Entries, OpStart(u, e)
          PROVE  \A v \in Users : \/ op'[v] = op[v]
                                  \/ op'[v].entry \in entries
      BY <1>0, <3>3 DEF OpStart, TypeOK
    <3>4. QED BY <1>10, <3>1, <3>2, <3>3
  <2>4. QED BY <1>0, <1>a, <2>1, <2>3 DEF Ops
<1>11. QED
  BY <1>4, <1>5, <1>6, <1>7, <1>8, <1>9, <1>10, StepCases

-----------------------------------------------------------------------------
(* The theorems.                                                           *)

\* The inductive invariant: what is held is what belongs to the place where
\* init, exit, probe and remove are, the struct agrees with the kernel, and the
\* procfs operations run only on entries that npb_remove has not passed.
THEOREM DriverInvariance == Spec => []DriverInv
<1>1. Init => DriverInv
  BY TypeInit, StaircaseInit, FieldsInit, UsableInit, OpsInit DEF DriverInv
<1>2. DriverInv /\ [Next]_vars => DriverInv'
  BY TypeStep, StaircaseStep, FieldsStep, UsableStep, OpsStep DEF DriverInv
<1>3. QED BY <1>1, <1>2, PTL DEF Spec

\* Every variable keeps to its type, the loop over the chunks to the chunks
\* (npb_init, 319-343; npb_remove, 287-299).
THEOREM TypeCorrect == Spec => []TypeOK
<1>1. DriverInv => TypeOK
  BY DEF DriverInv
<1>2. QED BY <1>1, DriverInvariance, PTL

\* A device that is not bound leaves nothing behind, and neither does a module
\* that is not loaded, whichever step of init or probe failed and whatever
\* failure went unnoticed (NothingLeaks).
THEOREM NoLeak == Spec => []NothingLeaks
<1>1. DriverInv => NothingLeaks
  <2> SUFFICES ASSUME DriverInv PROVE NothingLeaks
    OBVIOUS
  <2>0. TypeOK /\ Staircase /\ Fields /\ Usable /\ Ops
    BY DEF DriverInv
  <2>1. mpc = "out" => dpc = "unbound" /\ held = {}
    BY <2>0, Ends DEF Staircase
  <2>2. dpc = "unbound" => held \subseteq ModuleOwn
    BY <2>0, Ends, HoldsApart DEF Staircase
  <2>3. dpc = "unbound" => pages = {} /\ mappings = {}
    BY <2>0, Ends DEF Fields
  <2>4. dpc = "unbound" => entries = {}
    BY <2>0, Ends, GoneStairs DEF Ops, TypeOK, Live
  <2>5. QED BY <2>1, <2>2, <2>3, <2>4 DEF NothingLeaks
<1>2. QED BY <1>1, DriverInvariance, PTL

\* Nothing is released that was not acquired or was released before, on any way
\* down from probe, npb_init or remove (ReleasesItsOwn).
THEOREM ReleasesOnlyHeld == Spec => []ReleasesItsOwn
<1>1. DriverInv => ReleasesItsOwn
  <2> SUFFICES ASSUME DriverInv PROVE ReleasesItsOwn
    OBVIOUS
  <2>0. TypeOK /\ Staircase /\ Fields
    BY DEF DriverInv
  <2>1. dpc \in Releasing => Drops(dpc) \subseteq held
    BY <2>0, ReleaseStairs DEF Staircase, TypeOK, Reasons
  <2>2. dpc \in Undoing => i \in Chunks
    BY <2>0, NpbDriverAssumption DEF TypeOK, Fields, Chunks
  <2>3. dpc = "unmap" /\ dma[i] => i \in mappings \/ "map" \in missed
    BY <2>0, <2>2 DEF Fields, Unmapped, Live, Undoing, Chunks
  <2>4. dpc = "free" /\ buf[i] => i \in pages \/ "alloc" \in missed
    BY <2>0, <2>2 DEF Fields, Freed, Live, Undoing, Chunks
  <2>5. ASSUME leaving = "removed", dpc \in {"unregister", "cpp_free"}
        PROVE  "npb" \in held
    <3>1. "npb" \in DeviceHolds(dpc, leaving)
      BY <2>5 DEF DeviceHolds, DeviceOwn, Live, InInit, Serving, Creating, Removing, Undoing
    <3>2. QED BY <2>0, <3>1 DEF Staircase
  <2>6. QED BY <2>1, <2>3, <2>4, <2>5 DEF ReleasesItsOwn
<1>2. QED BY <1>1, DriverInvariance, PTL

\* Whenever a procfs operation runs, also after a later step of probe failed or
\* while the device is being removed, the struct and all chunks are there
\* (OpsFindBuffers).
THEOREM OpsAreSafe == Spec => []OpsFindBuffers
<1>1. DriverInv => OpsFindBuffers
  <2> SUFFICES ASSUME DriverInv, NEW u \in Users, op[u] # NoOp
               PROVE  /\ "npb" \in held
                      /\ pages = Chunks
                      /\ mappings = Chunks \/ "map" \in missed
    BY DEF OpsFindBuffers
  <2>0. TypeOK /\ Staircase /\ Fields /\ Usable /\ Ops
    BY DEF DriverInv
  <2>1. \E e \in Entries : proc[e] /\ e \notin Gone(dpc)
    BY <2>0 DEF Ops
  <2>2. dpc \in Serving /\ dpc \in Live
    BY <2>1, GoneStairs DEF Live
  <2>3. "npb" \in held
    BY <2>0, <2>2, Ends DEF Staircase, DeviceOwn
  <2>4. pages = Chunks /\ \A c \in Chunks : dma[c]
    BY <2>0, <2>1, <2>2 DEF Usable, Serving
  <2>5. \A c \in Chunks : c \in mappings \/ "map" \in missed
    BY <2>0, <2>2, <2>4 DEF Fields, Unmapped, Serving, Creating, Removing, Undoing
  <2>6. mappings \subseteq Chunks
    BY <2>0 DEF TypeOK
  <2>7. QED BY <2>3, <2>4, <2>5, <2>6
<1>2. QED BY <1>1, DriverInvariance, PTL
=============================================================================
