------------------------------ MODULE NpbDriver ------------------------------
(***************************************************************************)
(* The host's kernel module (kernel/nfp_pciebench_main.c): loading and     *)
(* unloading it, binding one PCI device to it and releasing it, and the    *)
(* processes that read and write the buffers through procfs meanwhile.     *)
(*                                                                         *)
(* probe acquires resources one after the other, each of which may fail    *)
(* and then jumps to the label that releases the ones before it; npb_init  *)
(* and npb_remove decide what to release by the fields of struct           *)
(* nfp_pciebench.  The kernel around the module is external: it calls one  *)
(* of probe and remove at a time, it runs the procfs operations at any     *)
(* time between the creation of an entry and its removal, and proc_remove  *)
(* waits for the operations that are running.                              *)
(***************************************************************************)
EXTENDS Integers

CONSTANTS NumChunks,   \* NFP_PCIEBENCH_CHUNKS: 16
          Users,       \* processes that use the procfs entries
          Missed       \* failures that may not look like one to the module

ASSUME NpbDriverAssumption ==
    /\ NumChunks \in Nat \ {0}
    /\ Missed \subseteq {"alloc", "map"}

Chunks  == 0 .. NumChunks-1
Entries == {"dma_addrs", "buf_sz", "buffer"}

VARIABLES missed,     \* the failures that this kernel reports in such a way
          mpc,        \* the module: where its init or exit function is
          dpc,        \* the device: where its probe or remove function is
          leaving,    \* why npb_remove runs: "failed" probe or "removed" device
          i,          \* the loop over the chunks
          buf, dma, proc,   \* fields of struct nfp_pciebench, TRUE if not NULL
          held, pages, mappings, entries,   \* what the kernel has handed out and
                      \* not got back; the last three by chunk and by name
          op          \* op[u]: the entry and chunk u is working on

fields  == <<buf, dma, proc>>
devVars == <<dpc, leaving, i, fields>>
handed  == <<held, pages, mappings, entries>>
vars    == <<missed, mpc, devVars, handed, op>>

NoOp == [entry |-> "none", at |-> 0]

Acquiring == {"enable", "master", "masks", "regions", "cpp", "dev_cpp", "kzalloc"}
Creating  == {"create_dma_addrs", "create_buf_sz", "create_buffer"}
Removing  == {"remove_buffer", "remove_buf_sz", "remove_dma_addrs"}
Releasing == {"kfree", "unregister", "cpp_free", "release_regions", "disable"}

Resources == {"cppcore", "dev_cpp_core", "driver"}
             \cup {"enabled", "master", "regions", "cpp", "dev_cpp", "npb"}
ModuleOwn == {"cppcore", "dev_cpp_core", "driver"}

TypeOK ==
    /\ missed \subseteq Missed
    /\ mpc \in {"out", "cppcore_init", "dev_cpp_init", "register", "in",
                "unregister", "dev_cpp_exit", "cppcore_exit"}
    /\ dpc \in {"unbound", "bound", "alloc", "map", "fill", "unmap", "free", "oops"}
               \cup Acquiring \cup Creating \cup Removing \cup Releasing
    /\ leaving \in {"failed", "removed"}
    /\ i \in 0 .. NumChunks
    /\ buf \in [Chunks -> BOOLEAN] /\ dma \in [Chunks -> BOOLEAN]
    /\ proc \in [Entries -> BOOLEAN]
    /\ held \subseteq Resources /\ entries \subseteq Entries
    /\ pages \subseteq Chunks /\ mappings \subseteq Chunks
    /\ op \in [Users -> [entry : Entries \cup {"none"}, at : 0 .. NumChunks]]

Init ==
    /\ missed \in SUBSET Missed
    /\ mpc = "out" /\ dpc = "unbound" /\ leaving = "failed" /\ i = 0
    /\ buf = [c \in Chunks |-> FALSE] /\ dma = [c \in Chunks |-> FALSE]
    /\ proc = [e \in Entries |-> FALSE]
    /\ held = {} /\ pages = {} /\ mappings = {} /\ entries = {}
    /\ op = [u \in Users |-> NoOp]

-----------------------------------------------------------------------------
(* Module init and exit.                                                   *)

ModInit == mpc = "out" /\ mpc' = "cppcore_init" /\ UNCHANGED <<missed, devVars, handed, op>>

ModCppcoreInit ==
    /\ mpc = "cppcore_init"
    /\ \/ mpc' = "dev_cpp_init" /\ held' = held \cup {"cppcore"}
       \/ mpc' = "out" /\ UNCHANGED held
    /\ UNCHANGED <<missed, devVars, pages, mappings, entries, op>>

ModDevCppInit ==
    /\ mpc = "dev_cpp_init"
    /\ \/ mpc' = "register" /\ held' = held \cup {"dev_cpp_core"}
       \/ mpc' = "cppcore_exit" /\ UNCHANGED held
    /\ UNCHANGED <<missed, devVars, pages, mappings, entries, op>>

\* Whether a device is then bound does not matter to the module's init.
ModRegister ==
    /\ mpc = "register"
    /\ \/ mpc' = "in" /\ held' = held \cup {"driver"}
       \/ mpc' = "dev_cpp_exit" /\ UNCHANGED held
    /\ UNCHANGED <<missed, devVars, pages, mappings, entries, op>>

ModExit == mpc = "in" /\ mpc' = "unregister" /\ UNCHANGED <<missed, devVars, handed, op>>

\* pci_unregister_driver returns when the device is unbound.
ModUnregister ==
    /\ mpc = "unregister" /\ dpc = "unbound"
    /\ mpc' = "dev_cpp_exit" /\ held' = held \ {"driver"}
    /\ UNCHANGED <<missed, devVars, pages, mappings, entries, op>>

ModDevCppExit ==
    /\ mpc = "dev_cpp_exit"
    /\ mpc' = "cppcore_exit" /\ held' = held \ {"dev_cpp_core"}
    /\ UNCHANGED <<missed, devVars, pages, mappings, entries, op>>

ModCppcoreExit ==
    /\ mpc = "cppcore_exit"
    /\ mpc' = "out" /\ held' = held \ {"cppcore"}
    /\ UNCHANGED <<missed, devVars, pages, mappings, entries, op>>

-----------------------------------------------------------------------------
(* npb_pci_probe.                                                          *)

\* A device appears or is bound by hand while the driver is registered.
Probe ==
    /\ mpc = "in" /\ dpc = "unbound"
    /\ dpc' = "enable"
    /\ UNCHANGED <<missed, mpc, leaving, i, fields, handed, op>>

Gives(s) == CASE s = "enable"  -> {"enabled"}
              [] s = "master"  -> {"master"}
              [] s = "masks"   -> {}
              [] s = "regions" -> {"regions"}
              [] s = "cpp"     -> {"cpp"}
              [] s = "dev_cpp" -> {"dev_cpp"}
              [] s = "kzalloc" -> {"npb"}

After(s) == CASE s = "enable"  -> "master"
              [] s = "master"  -> "masks"
              [] s = "masks"   -> "regions"
              [] s = "regions" -> "cpp"
              [] s = "cpp"     -> "dev_cpp"
              [] s = "dev_cpp" -> "kzalloc"
              [] s = "kzalloc" -> "alloc"

\* Where a failed step jumps: the release of what was acquired last.
LabelOneOff(s) == CASE s = "enable"  -> "unbound"                   \* mutant
                    [] s = "masks"   -> "disable"
                    [] s = "regions" -> "disable"
                    [] s = "cpp"     -> "cpp_free"
                    [] s = "dev_cpp" -> "cpp_free"
                    [] s = "kzalloc" -> "unregister"
LabelTooLate(s) == CASE s = "enable"  -> "unbound"                  \* mutant
                     [] s = "masks"   -> "disable"
                     [] s = "regions" -> "disable"
                     [] s = "cpp"     -> "release_regions"
                     [] s = "dev_cpp" -> "release_regions"
                     [] s = "kzalloc" -> "unregister"
Label(s) == CASE s = "enable"  -> "unbound"
              [] s = "masks"   -> "disable"
              [] s = "regions" -> "disable"
              [] s = "cpp"     -> "release_regions"
              [] s = "dev_cpp" -> "cpp_free"
              [] s = "kzalloc" -> "unregister"

Acquire ==
    /\ dpc \in Acquiring
    /\ held' = held \cup Gives(dpc)
    /\ dpc' = After(dpc)
    /\ i' = 0
    /\ IF dpc = "kzalloc"                \* zeroed
       THEN /\ buf' = [c \in Chunks |-> FALSE] /\ dma' = [c \in Chunks |-> FALSE]
            /\ proc' = [e \in Entries |-> FALSE]
       ELSE UNCHANGED fields
    /\ UNCHANGED <<missed, mpc, leaving, pages, mappings, entries, op>>

AcquireFails ==
    /\ dpc \in Acquiring \ {"master"}
    /\ dpc' = Label(dpc)
    /\ leaving' = "failed"
    /\ UNCHANGED <<missed, mpc, i, fields, handed, op>>

-----------------------------------------------------------------------------
(* npb_init: the chunks, then the procfs entries.                          *)

\* Where npb_remove begins: with the entries.
BeginsWithChunks == "unmap"                                         \* mutant
NpbRemove == "remove_buffer"

InitFails == dpc' = NpbRemove /\ leaving' = "failed" /\ i' = 0

MoreToLast(n) == n <= NumChunks                                     \* mutant
More(n) == n < NumChunks

\* A failure the module sees leaves NULL in the field.  One it does not see
\* leaves an address nobody gave it: page_address() of no page, or the error
\* code of the DMA API.
Alloc ==
    /\ dpc = "alloc"
    /\ \/ /\ dpc' = "map"
          /\ pages' = pages \cup {i}
          /\ buf' = [buf EXCEPT ![i] = TRUE]
          /\ UNCHANGED <<leaving, i>>
       \/ /\ "alloc" \in missed
          /\ dpc' = "map" /\ buf' = [buf EXCEPT ![i] = TRUE]
          /\ UNCHANGED <<leaving, i, pages>>
       \/ /\ "alloc" \notin missed
          /\ InitFails
          /\ UNCHANGED <<buf, pages>>
    /\ UNCHANGED <<missed, mpc, dma, proc, held, mappings, entries, op>>

Map ==
    /\ dpc = "map"
    /\ \/ /\ dpc' = "fill"
          /\ mappings' = mappings \cup {i}
          /\ dma' = [dma EXCEPT ![i] = TRUE]
          /\ UNCHANGED <<leaving, i>>
       \/ /\ "map" \in missed
          /\ dpc' = "fill" /\ dma' = [dma EXCEPT ![i] = TRUE]
          /\ UNCHANGED <<leaving, i, mappings>>
       \/ /\ "map" \notin missed
          /\ InitFails
          /\ UNCHANGED <<dma, mappings>>
    /\ UNCHANGED <<missed, mpc, buf, proc, held, pages, entries, op>>

\* Every word of the chunk is written.  Without a page that is the end.
Fill ==
    /\ dpc = "fill"
    /\ \/ i \in pages /\ i' = i + 1
          /\ dpc' = IF More(i + 1) THEN "alloc" ELSE "create_dma_addrs"
       \/ i \notin pages /\ dpc' = "oops" /\ UNCHANGED i
    /\ UNCHANGED <<missed, mpc, leaving, fields, handed, op>>

EntryOf(s) == CASE s \in {"create_dma_addrs", "remove_dma_addrs"} -> "dma_addrs"
                [] s \in {"create_buf_sz", "remove_buf_sz"}       -> "buf_sz"
                [] s \in {"create_buffer", "remove_buffer"}       -> "buffer"

\* probe is done with npb_init's last entry.
AfterCreate(s) == CASE s = "create_dma_addrs" -> "create_buf_sz"
                    [] s = "create_buf_sz"    -> "create_buffer"
                    [] s = "create_buffer"    -> "bound"

\* proc_create_data makes the entry usable at once.
CreateEntry ==
    /\ dpc \in Creating
    /\ \/ /\ entries' = entries \cup {EntryOf(dpc)}
          /\ proc' = [proc EXCEPT ![EntryOf(dpc)] = TRUE]
          /\ dpc' = AfterCreate(dpc)
          /\ UNCHANGED <<leaving, i>>
       \/ InitFails /\ UNCHANGED <<entries, proc>>
    /\ UNCHANGED <<missed, mpc, buf, dma, held, pages, mappings, op>>

-----------------------------------------------------------------------------
(* npb_remove and the releases after it.                                   *)

\* The device is taken away, released by hand or by the module's exit.
Remove ==
    /\ dpc = "bound"
    /\ dpc' = NpbRemove /\ leaving' = "removed" /\ i' = 0
    /\ UNCHANGED <<missed, mpc, fields, handed, op>>

AfterRemove(s) == CASE s = "remove_buffer"    -> "remove_buf_sz"
                    [] s = "remove_buf_sz"    -> "remove_dma_addrs"
                    [] s = "remove_dma_addrs" -> "unmap"

Idle(e) == \A u \in Users : op[u].entry # e

\* No operation starts on a removed entry; the removal waits for those that
\* have started.
RemoveEntry ==
    /\ dpc \in Removing /\ proc[EntryOf(dpc)]
    /\ \/ /\ EntryOf(dpc) \in entries
          /\ entries' = entries \ {EntryOf(dpc)}
          /\ UNCHANGED dpc
       \/ /\ EntryOf(dpc) \notin entries /\ Idle(EntryOf(dpc))
          /\ dpc' = AfterRemove(dpc)
          /\ UNCHANGED entries
    /\ UNCHANGED <<missed, mpc, leaving, i, fields, held, pages, mappings, op>>

NoEntryToRemove ==
    /\ dpc \in Removing /\ ~proc[EntryOf(dpc)]
    /\ dpc' = AfterRemove(dpc)
    /\ UNCHANGED <<missed, mpc, leaving, i, fields, handed, op>>

Unmap ==
    /\ dpc = "unmap"
    /\ mappings' = IF dma[i] THEN mappings \ {i} ELSE mappings
    /\ dpc' = "free"
    /\ UNCHANGED <<missed, mpc, leaving, i, fields, held, pages, entries, op>>

\* After the last chunk: probe's err_init, or the rest of npb_pci_remove.
Free ==
    /\ dpc = "free"
    /\ pages' = IF buf[i] THEN pages \ {i} ELSE pages
    /\ i' = i + 1
    /\ dpc' = IF i + 1 < NumChunks THEN "unmap"
              ELSE IF leaving = "failed" THEN "kfree" ELSE "unregister"
    /\ UNCHANGED <<missed, mpc, leaving, fields, held, mappings, entries, op>>

\* What a release gives back: disabling the device also stops its mastering.
Drops(s) == CASE s = "kfree"           -> {"npb"}
              [] s = "unregister"      -> {"dev_cpp"}
              [] s = "cpp_free"        -> {"cpp"}
              [] s = "release_regions" -> {"regions"}
              [] s = "disable"         -> {"enabled", "master"}

\* A failed probe frees npb first, remove after the last use of its fields.
AfterRelease(s) ==
    CASE s = "kfree"      -> IF leaving = "failed" THEN "unregister"
                                                   ELSE "release_regions"
      [] s = "unregister" -> "cpp_free"
      [] s = "cpp_free"   -> IF leaving = "failed" THEN "release_regions"
                                                   ELSE "kfree"
      [] s = "release_regions" -> "disable"
      [] s = "disable"    -> "unbound"

Release ==
    /\ dpc \in Releasing
    /\ held' = held \ Drops(dpc)
    /\ dpc' = AfterRelease(dpc)
    /\ UNCHANGED <<missed, mpc, leaving, i, fields, pages, mappings, entries, op>>

-----------------------------------------------------------------------------
(* The procfs operations.                                                  *)

OpStart(u, e) ==
    /\ op[u] = NoOp /\ e \in entries
    /\ \E c \in IF e = "buffer" THEN Chunks ELSE {0} :
           op' = [op EXCEPT ![u] = [entry |-> e, at |-> c]]
    /\ UNCHANGED <<missed, mpc, devVars, handed>>

\* npb_buf_op goes from chunk to chunk, npb_dma_addrs_show from address to
\* address; npb_buf_sz_show looks at none.
StaysOnChunk(c) == c                                                \* mutant
NextChunk(c) == c + 1
Walks(u) == op[u].entry \in {"buffer", "dma_addrs"} /\ op[u].at < NumChunks

OpChunk(u) ==
    /\ Walks(u)
    /\ op' = [op EXCEPT ![u].at = NextChunk(@)]
    /\ UNCHANGED <<missed, mpc, devVars, handed>>

\* An operation may stop early: fewer bytes were asked for, or the user's
\* memory is bad.  All addresses are shown.
OpEnd(u) ==
    /\ op[u] # NoOp
    /\ op[u].entry = "dma_addrs" => op[u].at = NumChunks
    /\ op' = [op EXCEPT ![u] = NoOp]
    /\ UNCHANGED <<missed, mpc, devVars, handed>>

-----------------------------------------------------------------------------
Module == ModCppcoreInit \/ ModDevCppInit \/ ModRegister \/ ModUnregister
          \/ ModDevCppExit \/ ModCppcoreExit
Device == Acquire \/ AcquireFails \/ Alloc \/ Map \/ Fill \/ CreateEntry
          \/ RemoveEntry \/ NoEntryToRemove \/ Unmap \/ Free \/ Release
UserStep(u) == OpChunk(u) \/ OpEnd(u)

Next == \/ ModInit \/ ModExit \/ Module
        \/ Probe \/ Remove \/ Device
        \/ \E u \in Users : UserStep(u) \/ \E e \in Entries : OpStart(u, e)

\* Functions that were called run on; the kernel removes a bound device when
\* the driver is unregistered.
Fairness == /\ WF_vars(Module) /\ WF_vars(Device)
            /\ WF_vars(mpc = "unregister" /\ Remove)
            /\ \A u \in Users : WF_vars(UserStep(u))

Spec     == Init /\ [][Next]_vars
FairSpec == Spec /\ Fairness

-----------------------------------------------------------------------------
(* What is checked.                                                        *)

\* Wherever probe failed and however the device was released, nothing of it is
\* left when it is unbound, and nothing at all when the module is out
\* (npb_pci_probe, 459-471; nfp_pciebench_init, 516-521).
NothingLeaks ==
    /\ dpc = "unbound" => /\ held \subseteq ModuleOwn
                          /\ pages = {} /\ mappings = {} /\ entries = {}
    /\ mpc = "out" => held = {}

\* Only what was acquired, and not yet released, is released -- also by
\* npb_remove, which is called with the struct filled in to any extent, and
\* by npb_pci_remove, which finds two of the resources in the struct
\* (npb_remove, 278-299; npb_pci_remove, 475-483). What a failure nobody
\* noticed has left in the fields is released all the same.
ReleasesItsOwn ==
    /\ dpc \in Releasing => Drops(dpc) \subseteq held
    /\ dpc = "unmap" /\ dma[i] => i \in mappings \/ "map" \in missed
    /\ dpc = "free" /\ buf[i] => i \in pages \/ "alloc" \in missed
    /\ leaving = "removed" /\ dpc \in {"unregister", "cpp_free"} => "npb" \in held

\* A procfs operation finds the struct, every chunk it may still come to
\* allocated, and mapped unless that failed unnoticed, whenever it runs: during
\* the rest of probe, after a later step of probe failed, and while the device
\* is being removed
\* (npb_buf_op, 225-243; npb_dma_addrs_show, 151-152).
OpsFindBuffers ==
    \A u \in Users : op[u] # NoOp =>
        /\ "npb" \in held
        /\ pages = Chunks
        /\ mappings = Chunks \/ "map" \in missed

\* The module can always be unloaded: removal waits for operations that are
\* running, and none of them runs for ever (nfp_pciebench_exit, 526-531).  A
\* probe that died writing to a chunk it never got is the exception.
UnloadEnds == mpc = "unregister" /\ "alloc" \notin missed ~> mpc = "out"

\* 321-327: "if (!npb->buf[i]) { pr_err("Failed to allocate chunk %d on node
\* %d", ...": a chunk without memory is reported, not used.
FailedAllocReported == dpc \in {"map", "fill"} => i \in pages
=============================================================================
