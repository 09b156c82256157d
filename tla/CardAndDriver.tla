---------------------------- MODULE CardAndDriver ----------------------------
(***************************************************************************)
(* The two halves of the benchmark that meet in the host's memory: the     *)
(* kernel module that allocates, maps and frees the buffers (NpbDriver)    *)
(* and the firmware that reads and writes them on behalf of run_test       *)
(* (RunTest).  Nothing but addresses passes between them: a script copies  *)
(* them from the module's procfs entry to the firmware, and the module     *)
(* frees the buffers before it disables the device, without asking whether *)
(* a test is still running.  "We make no attempt to control concurrency    *)
(* [...].  It's up to the user" (nfp_pciebench_main.c, 43-45), so the user *)
(* is a part of this module: scripts run while the device is bound, and it *)
(* is released when no script runs and test_ctrl is not positive.          *)
(***************************************************************************)
EXTENDS Integers

CONSTANTS Tests, JournalSz, LatTrans, Faults, MaxRuns,     \* of RunTest
          NumChunks,     \* of NpbDriver; no other process uses procfs here
          MaxBindings    \* bound: how often the device is bound

\* Writes to the firmware do not get lost: it would use addresses that were
\* never written, which are 0.
ASSUME CardAssumption ==
    /\ Tests \subseteq 1 .. 7
    /\ LatTrans \in Nat \ {0} /\ JournalSz \in Nat /\ LatTrans <= JournalSz
    /\ Faults \subseteq SUBSET {"unload", "load", "read", "interrupt"}
    /\ MaxRuns \in Nat /\ NumChunks \in Nat \ {0} /\ MaxBindings \in Nat

VARIABLES faults, hpc, run, test, symtab, helper, opt, report, up, fpc, params,
          chunk_dma_addrs, result, res, test_ctrl, test_params, test_result,
          host_dma_addrs, journal, wp,
          missed, mpc, dpc, leaving, i, buf, dma, proc, held, pages, mappings,
          entries, op,
          binding,    \* how often the device was bound: whose buffers these are
          read        \* read[r]: the binding whose addresses run r has read

runVars == <<faults, hpc, run, test, symtab, helper, opt, report, up, fpc, params,
             chunk_dma_addrs, result, res, test_ctrl, test_params, test_result,
             host_dma_addrs, journal, wp>>
npbVars == <<missed, mpc, dpc, leaving, i, buf, dma, proc, held, pages, mappings,
             entries, op>>
vars == <<runVars, npbVars, binding, read>>

RT  == INSTANCE RunTest
Npb == INSTANCE NpbDriver WITH Users <- {}, Missed <- {}

\* Run 0 is nobody's: the addresses of a firmware that was just loaded.
Init == /\ RT!Init /\ Npb!Init
        /\ binding = 0 /\ read = [r \in 0 .. MaxRuns |-> 0]

-----------------------------------------------------------------------------
(* Scripts and the firmware.                                               *)

\* The file is opened and read anew for every run.
ReadOncePerScript == IF symtab /\ run > 1 /\ read[run - 1] > 0      \* mutant
                     THEN read[run - 1] ELSE binding
AddrsRead == binding

Call == /\ mpc = "in" /\ dpc = "bound"
        /\ RT!Call
        /\ UNCHANGED <<npbVars, binding, read>>

SetDmaAddrs == /\ RT!SetDmaAddrs
               /\ read' = [read EXCEPT ![run] = AddrsRead]
               /\ UNCHANGED <<npbVars, binding>>

OtherPrepare == RT!Unload \/ RT!Load \/ RT!LoadFails \/ RT!GetSymtab \/ RT!SetParams

Script == /\ OtherPrepare \/ RT!Polls \/ RT!Helper \/ RT!Collect
          /\ UNCHANGED <<npbVars, binding, read>>

Interrupt == RT!Interrupt /\ UNCHANGED <<npbVars, binding, read>>

Firmware == RT!Firmware /\ UNCHANGED <<npbVars, binding, read>>

-----------------------------------------------------------------------------
(* The kernel module and its user, who looks at test_ctrl before releasing *)
(* the device (by rmmod or through sysfs).  A user who only waits for the  *)
(* scripts frees the buffers under an interrupted test.                    *)

Quiet == hpc \in RT!Idle /\ (~up \/ test_ctrl <= 0)

Probe == /\ binding < MaxBindings
         /\ Npb!Probe
         /\ binding' = binding + 1
         /\ UNCHANGED <<runVars, read>>

Remove == /\ Quiet
          /\ Npb!Remove
          /\ UNCHANGED <<runVars, binding, read>>

\* rmmod releases the device if it is bound.
ModExit == /\ Quiet /\ dpc \in {"bound", "unbound"}
           /\ Npb!ModExit
           /\ UNCHANGED <<runVars, binding, read>>

ModInit == Npb!ModInit /\ UNCHANGED <<runVars, binding, read>>
Module  == Npb!Module /\ UNCHANGED <<runVars, binding, read>>
Device  == Npb!Device /\ UNCHANGED <<runVars, binding, read>>

Next == \/ Call \/ SetDmaAddrs \/ Script \/ Interrupt \/ Firmware
        \/ Probe \/ Remove \/ ModInit \/ ModExit \/ Module \/ Device

\* As in the two parts.
Fairness == /\ WF_vars(SetDmaAddrs \/ Script) /\ WF_vars(Firmware)
            /\ WF_vars(Module) /\ WF_vars(Device)
            /\ WF_vars(mpc = "unregister" /\ Remove)

Spec     == Init /\ [][Next]_vars
FairSpec == Spec /\ Fairness

-----------------------------------------------------------------------------
(* What is checked.                                                        *)

\* The firmware touches the host's memory only through addresses of the binding
\* that lasts, whose chunks are all allocated and mapped and whose device may
\* master the bus -- also when scripts were interrupted, firmware was not
\* reloaded and the device was released and bound again in between
\* (npb_pci_remove, 473-487; npb_pci_probe, 381-457; run_test, 416-417).
AccessesOwnBuffers ==
    up /\ fpc \in {"exec", "lat"} /\ params.sane =>
        /\ binding > 0 /\ read[chunk_dma_addrs] = binding
        /\ pages = Npb!Chunks /\ mappings = Npb!Chunks
        /\ "master" \in held

\* A user who looks at test_ctrl need not wait for ever: once no script runs,
\* an interrupted test ends and its answer is written, unless a new script is
\* started (main.c, 66-113).
QuietComes == hpc \in RT!Idle ~> Quiet \/ hpc \notin RT!Idle
=============================================================================
