-------------------------------- MODULE Suite --------------------------------
(***************************************************************************)
(* The suite script (python/nfp_pciebench.py): which tests it runs, in     *)
(* nested loops over parameters, and into which tables their results go;   *)
(* and what on either side may refuse one of them -- lat_test and bw_test  *)
(* of the host (python/pciebench/nfpbench.py), dma_bw, dma_lat and cmd_lat *)
(* of the firmware.  A refusal is an exception, which ends the script and  *)
(* with it hours of measurements.  All numbers are the program's own.      *)
(***************************************************************************)
EXTENDS Integers, Sequences

CONSTANTS Modes,      \* how the script is called
          Pythons     \* 2 or 3: what interprets it

ASSUME SuiteAssumption ==
    /\ Modes \subseteq {"full", "short", "dbg_bw", "dbg_details", "dbg_mem"}
    /\ Pythons \subseteq {2, 3}

KB == 1024
MB == 1024 * KB
MaxMem == 64 * MB       \* PCIEBENCH_MAX_MEM
PageSz == 4096
CardBufSz == 8 * KB     \* NFP_BUF_SZ

LatCmd == <<"LAT_CMD_RD", "LAT_CMD_WRRD">>
LatDma == <<"LAT_DMA_RD", "LAT_DMA_WRRD">>
BwDma  == <<"BW_DMA_RD", "BW_DMA_WR">>
IsCmd(t) == t \in {"LAT_CMD_RD", "LAT_CMD_WRRD"}

-----------------------------------------------------------------------------
(* A table is a file, what all its tests share, and the loops that vary    *)
(* the rest, outermost first.                                              *)

Default == [test |-> "none", flags |-> {}, sz |-> 64, inc |-> 0, win |-> 8192,
            off |-> <<0, 0>>]
Loop(field, vals) == [field |-> field, vals |-> vals]
Table(file, with, loops) == [file |-> file, with |-> with, loops |-> loops]
File(name, rw, sz, cold) == <<name, rw, sz, cold>>

Off(h, d) == <<h, d>>
HostOffs(s) == [i \in DOMAIN s |-> Off(s[i], 0)]
CardOffs(s) == [i \in DOMAIN s |-> Off(0, s[i])]
Scaled(s, unit) == [i \in DOMAIN s |-> s[i] * unit]

CacheFlags == <<{}, {"THRASH"}, {"WARM"}, {"HOSTWARM"}>>
DmaSizes == <<4, 8, 16, 24, 32, 48, 64, 128, 256, 512, 768, 1024, 1280, 1520, 2048>>
OffSizes == <<64, 128, 256, 407, 416, 1024, 2048>>
DmaOffs  == <<0, 1, 2, 3, 4, 6, 8, 12, 16, 20, 25, 32, 41, 48, 63>>
\* 1.5 * 1024 * 1024 is a float to Python, though it is a whole number.
IsFloat(win) == win = 1536 * KB

CmdWins == Scaled(<<1, 4, 16, 256, 512>>, KB)
           \o Scaled(<<2, 3, 4, 6, 8, 16, 32, 64, 128>>, 512 * KB)
DmaWins == Scaled(<<8, 64, 256, 512>>, KB)
           \o Scaled(<<2, 3, 4, 8, 16, 32, 64, 128>>, 512 * KB)
BwWinsTooLarge == Scaled(<<4, 16, 256, 512>>, KB)                   \* mutant
                  \o Scaled(<<2, 3, 4, 6, 8, 16, 32, 64, 128, 256>>, 512 * KB)
BwWins  == Scaled(<<4, 16, 256, 512>>, KB)
           \o Scaled(<<2, 3, 4, 6, 8, 16, 32, 64, 128>>, 512 * KB)
BwSizes == <<16, 32, 63, 64, 65, 127, 128, 129, 192, 255, 256, 257, 320, 384,
             511, 512, 513, 576, 640, 704, 767, 768, 769, 832, 896, 960, 1023,
             1024, 1025, 1279, 1280, 1281, 1535, 1536, 1537, 1791, 1792, 1793,
             2047, 2048>>

\* One table for each pair of values, the first varying slowest.
Pairs(S, T) == [i \in 1 .. Len(S) * Len(T) |->
                   <<S[((i - 1) \div Len(T)) + 1], T[((i - 1) % Len(T)) + 1]>>]

LatCmdTables == <<
    Table(File("lat_cmd_sizes", "", 0, FALSE),
          [Default EXCEPT !.flags = {"HOSTWARM"}, !.win = 4096],
          <<Loop("test", LatCmd), Loop("sz", <<4, 8, 16, 24, 32, 48, 64>>)>>)>>

LatCmdSweepTables ==
    LET P == Pairs(LatCmd, <<8, 64>>)
    IN  [i \in DOMAIN P |->
            Table(File("lat_cmd_sweep", P[i][1], P[i][2], FALSE),
                  [Default EXCEPT !.test = P[i][1], !.sz = P[i][2]],
                  <<Loop("flags", [j \in DOMAIN CacheFlags |->
                                      CacheFlags[j] \cup {"RANDOM"}]),
                    Loop("win", CmdWins)>>)]

LatCmdOffTables ==
    [i \in DOMAIN LatCmd |->
        Table(File("lat_cmd_off", LatCmd[i], 0, FALSE),
              [Default EXCEPT !.test = LatCmd[i]],
              <<Loop("sz", <<8, 64>>), Loop("win", <<4096, 8 * MB>>),
                Loop("flags", <<{}, {"HOSTWARM"}>>),
                Loop("off", HostOffs(<<0, 1, 2, 3, 4, 6, 8, 16, 32, 48>>))>>)]

LatDmaTables == <<
    Table(File("lat_dma_sizes", "", 0, FALSE), [Default EXCEPT !.flags = {"HOSTWARM"}],
          <<Loop("test", LatDma), Loop("sz", DmaSizes)>>)>>

\* 16 sizes below and 15 above two middle ones.
LatDmaByteTables == <<
    Table(File("lat_dma_sizes_byte_inc", "", 0, FALSE),
          [Default EXCEPT !.flags = {"HOSTWARM"}],
          <<Loop("sz", <<256 - 16, 1024 - 16>>), Loop("test", LatDma),
            Loop("inc", [k \in 1 .. 32 |-> k - 1])>>)>>

LatDmaSweepTables ==
    [i \in DOMAIN LatDma |->
        Table(File("lat_dma_sweep", LatDma[i], 64, FALSE),
              [Default EXCEPT !.test = LatDma[i]],
              <<Loop("flags", [j \in DOMAIN CacheFlags |-> CacheFlags[j] \cup {"RANDOM"}]),
                Loop("win", DmaWins)>>)]

LatDmaOffTables ==
    [i \in DOMAIN LatDma |->
        Table(File("lat_dma_off", LatDma[i], 0, FALSE),
              [Default EXCEPT !.test = LatDma[i], !.flags = {"HOSTWARM"}],
              <<Loop("sz", OffSizes),
                Loop("off", HostOffs(DmaOffs) \o CardOffs(DmaOffs))>>)]

\* The tables with the distribution and the raw values are written along.
LatDetailsTables ==
    LET Details(file, tests, szs) ==
            Table(File(file, "", 0, FALSE), Default,
                  <<Loop("test", tests), Loop("sz", szs),
                    Loop("win", <<8192, 64 * MB>>),
                    Loop("flags", <<{"LONG", "RANDOM"}, {"LONG", "RANDOM", "HOSTWARM"}>>)>>)
    IN  <<Details("lat_cmd_details", LatCmd, <<8>>),
          Details("lat_dma_details", LatDma, <<64, 2048>>)>>

BwDmaSzSweepTables == <<
    Table(File("bw_dma_sz_sweep", "", 0, FALSE),
          [Default EXCEPT !.flags = {"RANDOM", "HOSTWARM"}],
          <<Loop("test", BwDma \o <<"BW_DMA_RW">>), Loop("sz", BwSizes)>>)>>

BwDmaWinSweepTables ==
    LET P == Pairs(BwDma, <<64, 128, 256, 512>>)
    IN  [i \in DOMAIN P |->
            Table(File("bw_dma_win_sweep", P[i][1], P[i][2], FALSE),
                  [Default EXCEPT !.test = P[i][1], !.sz = P[i][2]],
                  <<Loop("flags", [j \in DOMAIN CacheFlags |->
                                      CacheFlags[j] \cup {"RANDOM"}]),
                    Loop("win", BwWins)>>)]

NotMarkedCold(flags) == FALSE                                       \* mutant
MarkedCold(flags) == flags = {}

BwDmaOffTables ==
    LET P == Pairs(<<{}, {"HOSTWARM"}>>, BwDma)
    IN  [i \in DOMAIN P |->
            Table(File("bw_dma_off", P[i][2], 0, MarkedCold(P[i][1])),
                  [Default EXCEPT !.test = P[i][2], !.flags = P[i][1]],
                  <<Loop("sz", OffSizes),
                    Loop("off", HostOffs(DmaOffs) \o CardOffs(DmaOffs))>>)]

\* A window of 0 stands for one transaction.
DbgMemTables == <<
    Table(File("dbg_mem", "", 0, FALSE),
          [Default EXCEPT !.test = "BW_DMA_RD", !.flags = {"HOSTWARM"}],
          <<Loop("sz", <<64, 128, 256, 512, 1024>>), Loop("win", <<0, 8192>>)>>)>>

\* main(): the series one after the other.
Short == LatCmdTables \o LatCmdSweepTables \o LatDmaTables \o LatDmaSweepTables
         \o LatDetailsTables \o BwDmaSzSweepTables \o BwDmaWinSweepTables
Full  == LatCmdTables \o LatCmdSweepTables \o LatCmdOffTables
         \o LatDmaTables \o LatDmaByteTables \o LatDmaSweepTables \o LatDmaOffTables
         \o LatDetailsTables
         \o BwDmaSzSweepTables \o BwDmaWinSweepTables \o BwDmaOffTables
Plan(m) == CASE m = "full" -> Full [] m = "short" -> Short
             [] m = "dbg_bw" -> BwDmaSzSweepTables
             [] m = "dbg_details" -> LatDetailsTables
             [] m = "dbg_mem" -> DbgMemTables

-----------------------------------------------------------------------------
VARIABLES mode, python, nfp6000, helper,   \* how the script was started, on which card
          pc,                              \* "open", "test", "close", "end", "raised"
          tab,                             \* number of the table being filled
          at,                              \* the counters of its loops
          written                          \* files that were opened for writing

started == <<mode, python, nfp6000, helper>>
vars == <<started, pc, tab, at, written>>

Tables == Plan(mode)
Loops  == Tables[tab].loops
Begun(loops) == [i \in DOMAIN loops |-> 1]

\* The parameters at which the loops are.
Current ==
    LET looped(f) == {i \in DOMAIN Loops : Loops[i].field = f}
        t == [f \in DOMAIN Default |->
                 IF looped(f) = {} THEN Tables[tab].with[f]
                 ELSE LET i == CHOOSE i \in looped(f) : TRUE IN Loops[i].vals[at[i]]]
        sz == t.sz + t.inc
    IN  [test |-> t.test, flags |-> t.flags, sz |-> sz,
         win |-> IF t.win = 0 THEN sz ELSE t.win, hoff |-> t.off[1], doff |-> t.off[2]]

Init ==
    /\ mode \in Modes /\ python \in Pythons /\ nfp6000 \in BOOLEAN /\ helper \in BOOLEAN
    /\ pc = "open" /\ tab = 1 /\ at = Begun(Plan(mode)[1].loops) /\ written = {}

\* An existing file is overwritten.
Open ==
    /\ pc = "open"
    /\ pc' = "test" /\ written' = written \cup {Tables[tab].file}
    /\ UNCHANGED <<started, tab, at>>

-----------------------------------------------------------------------------
(* A test, and what may refuse it.                                         *)

\* lat_test and bw_test.
HostAccepts(t) ==
    /\ IF IsCmd(t.test) THEN t.sz % 4 = 0 /\ t.sz <= 64
                        ELSE t.sz <= IF nfp6000 THEN 4096 ELSE 2048
    /\ t.win % 64 = 0
    /\ \A f, g \in {"WARM", "THRASH", "HOSTWARM"} : f \in t.flags /\ g \in t.flags => f = g

\* Python 3 formats no float as a hexadecimal number, Python 2 truncates it.
FormatsHex(float) == python = 2 \/ ~float

\* _set_dma_addrs, before anything else: the size of a chunk is a quotient, and
\* Python 3's division makes a float of it.
SetsAddrs == FormatsHex(python = 3)

\* _set_params writes the parameters as hexadecimal numbers.
SetsParams(t) == FormatsHex(IsFloat(t.win))

\* _warm_host appends packed values, which are no strings in Python 3.
Warms(t) == "HOSTWARM" \in t.flags => helper \/ python = 2

\* cmd_lat, dma_lat and dma_bw, on parameters far from wrapping.
RefusesWholeWindow(t) == t.sz + t.hoff <= PageSz /\ t.sz + t.hoff < t.win   \* mutant
FirmwareAccepts(t) == t.sz + t.hoff <= PageSz /\ t.sz + t.hoff <= t.win

\* In the order of run_test. A raise on the way and a refusal by the firmware end
\* the script alike.
Accepted(t) == HostAccepts(t) /\ SetsAddrs /\ SetsParams(t) /\ Warms(t) /\ FirmwareAccepts(t)

Innermost == {i \in DOMAIN at : at[i] < Len(Loops[i].vals)}

\* The innermost loop that is not at its end goes on, those inside it start anew.
NextAt == LET i == CHOOSE i \in Innermost : \A j \in Innermost : j <= i
          IN  [j \in DOMAIN at |-> IF j < i THEN at[j] ELSE IF j = i THEN at[j] + 1 ELSE 1]

Test ==
    /\ pc = "test"
    /\ IF ~Accepted(Current) THEN pc' = "raised" /\ UNCHANGED at
       ELSE IF Innermost = {} THEN pc' = "close" /\ UNCHANGED at
       ELSE at' = NextAt /\ UNCHANGED pc
    /\ UNCHANGED <<started, tab, written>>

Close ==
    /\ pc = "close"
    /\ IF tab < Len(Tables)
       THEN /\ tab' = tab + 1 /\ pc' = "open"
            /\ at' = Begun(Tables[tab + 1].loops)
       ELSE pc' = "end" /\ UNCHANGED <<tab, at>>
    /\ UNCHANGED <<started, written>>

Next == Open \/ Test \/ Close

\* The script runs on; every test comes back (see RunTest).
Spec == Init /\ [][Next]_vars /\ WF_vars(Next)

-----------------------------------------------------------------------------
(* What is checked.                                                        *)

\* Every test the script asks for is one that the host's checks and then the
\* firmware's let through, on either card, so that a run that was started
\* comes to its end (nfpbench.py, 481-497 and 438-440; nfp_pciebench.py,
\* 620-637).
SuiteEnds == <>(pc = "end")

\* What the firmware assumes and nobody checks: the window lies in the host's
\* buffers, a transaction has a byte, the card's side of it lies in the card's
\* buffer, and only whole windows are asked for (utils.c, 46-47 and 71-80;
\* pcie_dma.c, 79 and 109).
WithinBuffers ==
    pc = "test" => /\ Current.win \in 1 .. MaxMem
                   /\ Current.sz > 0
                   /\ Current.doff + Current.sz <= CardBufSz

\* No series overwrites the table of an earlier one (tablewriter.py, 137-169).
TablesKept == [][pc = "open" /\ pc' = "test" => Tables[tab].file \notin written]_vars
=============================================================================
