------------------------------- MODULE LatTest -------------------------------
(***************************************************************************)
(* The latency tests (me/pcie_cmd.c cmd_lat, me/pcie_dma.c dma_lat) and    *)
(* what they stand on in me/utils.c: dma_addr_init, which fills the        *)
(* address array before a test, and write_region, which thrashes or warms  *)
(* the host buffers.  One context runs all of it, so the model has one     *)
(* step per loop iteration; what the host chooses is chosen in Init.       *)
(* The host buffers are Chunks chunks, each contiguous in DMA space; a     *)
(* window is the first p.win units of their concatenation.  Commands (not  *)
(* DMAs) reach the host through one BAR that maps BarSz units of it.       *)
(***************************************************************************)
EXTENDS Nfcc

CONSTANTS LineSz,     \* 64, the size of a host cache line
          PageSz,     \* 4096
          ChunkSz,    \* PCIEBENCH_CHUNK_SZ
          Chunks,     \* PCIEBENCH_CHUNKS
          BarSz,      \* what one CPP2PCIe BAR maps: 2^29 or 2^35
          LatTrans,   \* PCIEBENCH_LAT_TRANS
          JournalSz,  \* PCIEBENCH_JOURNAL_SZ
          Params,     \* the parameters the host may choose
          Bases       \* where the host may have got its chunks

ParamBlock == [random : BOOLEAN, long : BOOLEAN, warm : BOOLEAN, thrash : BOOLEAN,
               sz : 0 .. Word-1, win : 0 .. Word-1, hoff : 0 .. Word-1]

ASSUME LatTestAssumption ==
    /\ LineSz \in Nat \ {0} /\ PageSz \in Nat \ {0} /\ ChunkSz \in Nat \ {0}
    /\ PageSz % LineSz = 0 /\ ChunkSz % PageSz = 0 /\ BarSz % PageSz = 0
    /\ Chunks \in Nat \ {0} /\ BarSz \in Nat \ {0}
    /\ LatTrans \in Nat \ {0} /\ JournalSz \in Nat \ {0}
    /\ PageSz < Word /\ ((Chunks * ChunkSz) \div LineSz) * (PageSz \div LineSz) <= Word
    /\ Params \subseteq ParamBlock
    /\ Bases \subseteq [0 .. Chunks-1 -> Nat]

MaxMem  == Chunks * ChunkSz
ArraySz == MaxMem \div LineSz
\* A read, or a write and a read, at one address: the same to this model.
Tests    == {"cmd_lat", "dma_lat"}
IsCmd(t) == t = "cmd_lat"

RoundUp(n) == ((n + LineSz - 1) \div LineSz) * LineSz
MaxTrans(p) == IF p.long THEN JournalSz ELSE LatTrans

\* A test has more transactions than the array has entries: 2^21, or 2^24, against
\* 2^20 (pciebench.h, 92, 104, 124).
ASSUME TestsAreLonger == ArraySz < LatTrans /\ ArraySz < JournalSz

-----------------------------------------------------------------------------
(* What the host checks before it starts a test (nfpbench.py).             *)

\* lat_test: whole lines, and at most one of the cache flags; a window that
\* exceeds the buffers is the caller's mistake and is not checked.  An odd size
\* of a command is refused too: 4 bytes are a unit here.
HostChecksParams(t, p) ==
    /\ p.win % LineSz = 0
    /\ ~(p.warm /\ p.thrash)
    /\ p.sz <= IF IsCmd(t) THEN LineSz ELSE PageSz

\* _set_dma_addrs: chunks are page aligned and do not straddle two BARs.
HostChecksBases(b) ==
    \A c \in DOMAIN b : /\ b[c] % PageSz = 0
                        /\ b[c] \div BarSz = (b[c] + ChunkSz - 1) \div BarSz

\* The firmware's own check, in 32-bit arithmetic.
Sane(p) == LET last == (p.sz + p.hoff) % Word
           IN  last <= PageSz /\ last <= p.win

-----------------------------------------------------------------------------
(* dma_addr_init: units of whole lines, numbered within the window.        *)

UnitSz(p)     == RoundUp((p.sz + p.hoff) % Word) % Word
UnitsInWin(p) == Div[p.win][UnitSz(p)]
LinAddr(p, t) == Mod[t][UnitsInWin(p)] * UnitSz(p) + p.hoff

\* A transaction at this linear address does not cross a page.
FitsPage(p, lin) == PageSz - (lin % PageSz) >= p.sz

\* A linear address as the array stores it: DMA address and chunk index.
\* lin is kept for the properties.
WholeWindow(b, lin) ==                                              \* mutant
    [chunk |-> lin \div ChunkSz, addr |-> b[0] + lin, lin |-> lin]
Located(b, lin) ==
    [chunk |-> lin \div ChunkSz, addr |-> b[lin \div ChunkSz] + (lin % ChunkSz),
     lin |-> lin]

-----------------------------------------------------------------------------
VARIABLES test, p, bases,   \* what the host chose
          pc,               \* "check", "fill", "thrash", "warm", "first", "loop", "done"
          arr, idx, add,    \* dma_addrs and the loop variables that fill it
          wr,               \* write_region: transactions left; -1 before it starts
          cur, old, bar,    \* current address, old_chunk_idx, the BAR's number
          trans,            \* transactions performed
          journal,          \* entries in test_journal
          hits,             \* history: how often each unit was accessed
          res               \* return value

chosen   == <<test, p, bases>>
fillVars == <<arr, idx, add>>
vars == <<chosen, pc, fillVars, wr, cur, old, bar, trans, journal, hits, res>>

\* Setting a BAR keeps the upper bits of an address; a command gives the rest.
BarOf(addr) == addr \div BarSz
Through(b, addr) == (b * BarSz) + (addr % BarSz)

NoAddr == [chunk |-> -1, addr |-> -1, lin |-> -1]

TypeOK ==
    /\ pc \in {"check", "fill", "thrash", "warm", "first", "loop", "done"}
    /\ idx \in 0 .. ArraySz /\ add \in Nat
    /\ \A i \in 0 .. ArraySz-1 : arr[i] = NoAddr <=> i >= idx
    /\ wr \in -1 .. 2 * ArraySz
    /\ old \in 0 .. Chunks-1 /\ bar \in Nat \cup {-1}
    /\ trans \in 0 .. MaxTrans(p) /\ journal = trans
    /\ res \in {-1, 0}

Init ==
    /\ test \in Tests /\ p \in Params /\ HostChecksParams(test, p)
    \* The caller's part of the bargain; nothing, at an offset, might begin where
    \* the last chunk ends.
    /\ p.win <= MaxMem /\ p.sz + p.hoff < Word /\ (p.sz = 0 => p.hoff = 0)
    /\ bases \in Bases /\ HostChecksBases(bases)
    /\ pc = "check"
    /\ arr = [i \in 0 .. ArraySz-1 |-> NoAddr] /\ idx = 0 /\ add = 0
    /\ wr = -1 /\ cur = NoAddr /\ old = 0 /\ bar = -1
    /\ trans = 0 /\ journal = 0 /\ res = 0
    /\ hits = [u \in 0 .. ArraySz-1 |-> 0]

Check ==
    /\ pc = "check"
    /\ IF Sane(p) THEN pc' = "fill" /\ res' = 0
                  ELSE pc' = "done" /\ res' = -1
    /\ UNCHANGED <<chosen, fillVars, wr, cur, old, bar, trans, journal, hits>>

-----------------------------------------------------------------------------
\* The number a unit is picked from: pseudo random, or idx + add.
Draws == IF p.random THEN 0 .. UnitsInWin(p)-1 ELSE {(idx + add) % Word}

FillSkipStays ==                                                    \* mutant
    /\ pc = "fill" /\ idx < ArraySz
    /\ \E t \in Draws : ~FitsPage(p, LinAddr(p, t))
    /\ UNCHANGED vars

\* A transaction that would cross a page is skipped. add is not used by the
\* random choice and is left alone there.
FillSkip ==
    /\ pc = "fill" /\ idx < ArraySz
    /\ \E t \in Draws : ~FitsPage(p, LinAddr(p, t))
    /\ add' = IF p.random THEN add ELSE (add + 1) % Word
    /\ UNCHANGED <<chosen, pc, arr, idx, wr, cur, old, bar, trans, journal, hits, res>>

FillForgetsSkips ==                                                 \* mutant
    /\ pc = "fill" /\ idx < ArraySz
    /\ \E t \in Draws :
          /\ FitsPage(p, LinAddr(p, t))
          /\ arr' = [arr EXCEPT ![idx] = Located(bases, LinAddr(p, t))]
    /\ idx' = idx + 1 /\ add' = 0
    /\ UNCHANGED <<chosen, pc, wr, cur, old, bar, trans, journal, hits, res>>

FillStore ==
    /\ pc = "fill" /\ idx < ArraySz
    /\ \E t \in Draws :
          /\ FitsPage(p, LinAddr(p, t))
          /\ arr' = [arr EXCEPT ![idx] = Located(bases, LinAddr(p, t))]
    /\ idx' = idx + 1
    /\ UNCHANGED <<chosen, pc, add, wr, cur, old, bar, trans, journal, hits, res>>

FillDone ==
    /\ pc = "fill" /\ idx = ArraySz
    /\ pc' = IF p.thrash THEN "thrash" ELSE IF p.warm THEN "warm" ELSE "first"
    /\ UNCHANGED <<chosen, fillVars, wr, cur, old, bar, trans, journal, hits, res>>

-----------------------------------------------------------------------------
(* write_region: thrash all buffers at random or warm the window in order. *)

RegionSz == IF pc = "thrash" THEN MaxMem ELSE p.win

RegionStart ==
    /\ pc \in {"thrash", "warm"} /\ wr = -1
    /\ wr' = 2 * (RegionSz \div LineSz)
    /\ cur' = Located(bases, 0) /\ old' = 0 /\ bar' = BarOf(bases[0])
    /\ UNCHANGED <<chosen, pc, fillVars, trans, journal, hits, res>>

\* The BAR follows the chunk of the next address.
BarNeverMoves(a) == bar                                             \* mutant
NextBar(a) == IF a.chunk # old THEN BarOf(a.addr) ELSE bar

\* One line is written at cur; the next address is drawn.
RegionWrite ==
    /\ pc \in {"thrash", "warm"} /\ wr > 0
    /\ \E t \in IF pc = "thrash" THEN 0 .. (RegionSz \div LineSz)-1
                ELSE {2 * (RegionSz \div LineSz) - wr + 1} :
          LET a == Located(bases, (t * LineSz) % RegionSz)
          IN  cur' = a /\ old' = a.chunk /\ bar' = NextBar(a)
    /\ wr' = wr - 1
    /\ UNCHANGED <<chosen, pc, fillVars, trans, journal, hits, res>>

RegionDone ==
    /\ pc \in {"thrash", "warm"} /\ wr = 0
    /\ wr' = -1
    /\ pc' = IF pc = "thrash" /\ p.warm THEN "warm" ELSE "first"
    /\ UNCHANGED <<chosen, fillVars, cur, old, bar, trans, journal, hits, res>>

-----------------------------------------------------------------------------
(* The measured loop.                                                      *)

\* The array is addressed modulo its size.
ShortByOne(i) == arr[i % (ArraySz - 1)]                             \* mutant
FromIdx(i) == arr[i % ArraySz]

First ==
    /\ pc = "first"
    /\ pc' = "loop"
    /\ cur' = FromIdx(0)
    /\ IF IsCmd(test)
       THEN old' = FromIdx(0).chunk /\ bar' = BarOf(FromIdx(0).addr)
       ELSE UNCHANGED <<old, bar>>
    /\ UNCHANGED <<chosen, fillVars, wr, trans, journal, hits, res>>

MoreAtMax(t) == t <= MaxTrans(p)                                    \* mutant
More(t) == t < MaxTrans(p)

\* One measured transaction: a read, or a write and a read, at cur; one
\* journal entry; then the address of index trans, before trans is increased.
Transaction ==
    /\ pc = "loop" /\ More(trans)
    /\ hits' = [hits EXCEPT ![Div[cur.lin][UnitSz(p)] % ArraySz] = @ + 1]
    /\ journal' = journal + 1
    /\ cur' = FromIdx(trans)
    /\ IF IsCmd(test)
       THEN old' = FromIdx(trans).chunk /\ bar' = NextBar(FromIdx(trans))
       ELSE UNCHANGED <<old, bar>>
    /\ trans' = trans + 1
    /\ UNCHANGED <<chosen, pc, fillVars, wr, res>>

Finish ==
    /\ pc = "loop" /\ ~More(trans)
    /\ pc' = "done"
    /\ UNCHANGED <<chosen, fillVars, wr, cur, old, bar, trans, journal, hits, res>>

Next == \/ Check
        \/ FillSkip \/ FillStore \/ FillDone
        \/ RegionStart \/ RegionWrite \/ RegionDone
        \/ First \/ Transaction \/ Finish

\* One context that nothing can hold up: it goes on while it can.
Spec == Init /\ [][Next]_vars /\ WF_vars(Next)

-----------------------------------------------------------------------------
(* What is checked.                                                        *)

\* Every address the array offers is a transaction inside the window, inside
\* one page and at the place the host reserved for that part of the window:
\* it never leaves its chunk although the array knows nothing of chunks but
\* an index (utils.c, 58-80). Nothing is claimed for size 0, of which a DMA
\* engine that is told the size less one makes a page.
AddrsContained ==
    p.sz > 0 => \A i \in 0 .. idx-1 :
        LET a == arr[i]  last == a.lin + p.sz - 1
        IN  /\ a.lin >= 0 /\ last < p.win
            /\ a.lin \div PageSz = last \div PageSz
            /\ a.lin \div ChunkSz = last \div ChunkSz
            /\ a.addr = bases[a.lin \div ChunkSz] + (a.lin % ChunkSz)

Fitting == {u \in 0 .. UnitsInWin(p)-1 : FitsPage(p, LinAddr(p, u))}

\* Where w comes when one goes on from u to v, after the last unit from the first.
Between(u, w, v) == IF u < v THEN u < w /\ w < v ELSE u < w \/ w < v
UnitAt(i) == arr[i].lin \div UnitSz(p)

\* Sequential addresses visit the units that fit a page in order, starting
\* at the first and cyclically: a unit that is skipped once is skipped on
\* every turn and no other unit is lost (utils.c, 50-69).
CyclesInOrder ==
    LET fitting == Fitting
    IN  ~p.random /\ UnitSz(p) > 0 => \A i \in 0 .. idx-1 :
            /\ UnitAt(i) \in fitting
            /\ i = 0 => \A u \in fitting : UnitAt(0) <= u
            /\ i > 0 => \A u \in fitting : ~Between(UnitAt(i-1), u, UnitAt(i))

\* Every command -- the lines written by write_region and the measured reads
\* and writes -- reaches the address it is meant for from its first byte to its
\* last, although commands go through a BAR and the BAR is moved only when the
\* chunk index changes (utils.c, 119-159; pcie_cmd.c, 69-120).
Writing   == pc \in {"thrash", "warm"} /\ wr > 0
Measuring == pc = "loop" /\ IsCmd(test) /\ More(trans) /\ p.sz > 0

BarCoversAccess ==
    LET last == cur.addr + (IF Writing THEN LineSz ELSE p.sz) - 1
    IN  Writing \/ Measuring =>
            Through(bar, cur.addr) = cur.addr /\ Through(bar, last) = last

\* The test comes to an end: for parameters both sides accept there is always
\* a next unit that does not cross a page, also where size and offset are 0 and
\* the window is divided by 0 (utils.c, 46-69). Random tests are left out: they
\* end with probability one, not on every run.
LatTestEnds == ~p.random => <>(pc = "done")

\* A sequential test sweeps its window: although index 0 is used for the first
\* two transactions and the array wraps where its size says, not the window's,
\* no unit that fits a page is left out (pcie_cmd.c, 69 and 115; utils.c, 84-98).
WindowSwept ==
    pc = "done" /\ res = 0 /\ ~p.random /\ UnitSz(p) > 0 =>
        \A u \in Fitting : hits[u] > 0

\* The divisions the addresses are computed with are divisions, for every pair of
\* words; and dividing by zero, which C leaves undefined, goes on with all ones
\* (libnfcc.c, 27-58).
DivisionIsExact == pc = "check" => Exact
=============================================================================
