----------------------------- MODULE NpbDriverInv -----------------------------
(***************************************************************************)
(* The inductive invariant of NpbDriver.  The error path is a staircase:   *)
(* what is held is a function of where probe or remove is, and of why      *)
(* npb_remove runs (Staircase).  Below it, the fields of the struct know   *)
(* what the kernel handed out, except for failures nobody noticed          *)
(* (Fields); procfs entries exist only while every chunk does (Usable);    *)
(* and operations run only on entries that npb_remove has not passed yet   *)
(* (Ops).                                                                  *)
(***************************************************************************)
EXTENDS NpbDriver

DeviceOwn == {"enabled", "master", "regions", "cpp", "dev_cpp", "npb"}

\* Where the struct exists and npb_init or npb_remove works on it.
Serving == Creating \cup {"bound"} \cup Removing
InInit  == {"alloc", "map", "fill"}
Undoing == {"unmap", "free"}
Live    == InInit \cup Serving \cup Undoing \cup {"oops"}

\* What the module and the device's probe or remove hold at each place.
ModuleHolds(m) ==
    CASE m \in {"out", "cppcore_init"}          -> {}
      [] m \in {"dev_cpp_init", "cppcore_exit"} -> {"cppcore"}
      [] m \in {"register", "dev_cpp_exit"}     -> {"cppcore", "dev_cpp_core"}
      [] OTHER                                  -> ModuleOwn   \* "in", "unregister"

DeviceHolds(d, why) ==
    CASE d \in {"unbound", "enable"} -> {}
      [] d = "master"                -> {"enabled"}
      [] d \in {"masks", "regions", "disable"} -> {"enabled", "master"}
      [] d \in {"cpp", "release_regions"}      -> {"enabled", "master", "regions"}
      [] d = "dev_cpp"    -> {"enabled", "master", "regions", "cpp"}
      [] d = "kzalloc"    -> DeviceOwn \ {"npb"}
      [] d \in Live       -> DeviceOwn
      [] d = "kfree"      -> IF why = "failed" THEN DeviceOwn
                             ELSE DeviceOwn \ {"dev_cpp", "cpp"}
      [] d = "unregister" -> IF why = "failed" THEN DeviceOwn \ {"npb"} ELSE DeviceOwn
      [] OTHER            -> IF why = "failed" THEN DeviceOwn \ {"npb", "dev_cpp"}
                             ELSE DeviceOwn \ {"dev_cpp"}     \* "cpp_free"

Staircase ==
    /\ held = ModuleHolds(mpc) \cup DeviceHolds(dpc, leaving)
    /\ dpc # "unbound" => mpc \in {"in", "unregister"}

\* The loops of npb_init and npb_remove over the chunks.
Freed(c)    == dpc \in Undoing /\ c < i
Unmapped(c) == dpc \in Undoing /\ (c < i \/ (dpc = "free" /\ c = i))

Fields ==
    /\ dpc \notin Live => pages = {} /\ mappings = {}
    /\ \A c \in pages : buf[c] /\ ~Freed(c)
    /\ \A c \in mappings : dma[c] /\ ~Unmapped(c)
    /\ \A c \in Chunks : dpc \in Live /\ buf[c] /\ ~Freed(c) =>
           c \in pages \/ "alloc" \in missed
    /\ \A c \in Chunks : dpc \in Live /\ dma[c] /\ ~Unmapped(c) =>
           c \in mappings \/ "map" \in missed
    /\ dpc \in InInit \cup Undoing => i < NumChunks
    /\ dpc \in Removing => i = 0

\* The chunks npb_init is done with, and what the entries rely on.
Usable ==
    /\ dpc \in InInit => \A c \in Chunks : c < i => c \in pages /\ dma[c]
    /\ dpc = "fill" => dma[i]
    /\ dpc \in InInit \cup {"oops"} => \A e \in Entries : ~proc[e]
    /\ dpc \in Creating \cup {"bound"} => pages = Chunks /\ \A c \in Chunks : dma[c]
    /\ dpc \in Removing /\ (\E e \in Entries : proc[e]) =>
           pages = Chunks /\ \A c \in Chunks : dma[c]

\* The entries that are out of use where npb_remove is, or before npb_init.
Gone(d) == CASE d \in Serving \ {"remove_buf_sz", "remove_dma_addrs"} -> {}
             [] d = "remove_buf_sz"    -> {"buffer"}
             [] d = "remove_dma_addrs" -> {"buffer", "buf_sz"}
             [] d \notin Serving       -> Entries

Ops ==
    /\ \A e \in entries : proc[e] /\ e \notin Gone(dpc)
    /\ \A u \in Users : op[u] # NoOp =>
           /\ op[u].entry \in Entries /\ proc[op[u].entry]
           /\ op[u].entry \notin Gone(dpc)

DriverInv == TypeOK /\ Staircase /\ Fields /\ Usable /\ Ops
===============================================================================
