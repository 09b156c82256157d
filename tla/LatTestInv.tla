------------------------------ MODULE LatTestInv ------------------------------
(***************************************************************************)
(* The inductive invariant of LatTest.                                     *)
(***************************************************************************)
EXTENDS LatTest

\* What the host and the firmware checked stays so.
Checked ==
    /\ test \in Tests /\ p \in Params /\ bases \in Bases
    /\ HostChecksParams(test, p) /\ HostChecksBases(bases)
    /\ p.win <= MaxMem /\ p.sz + p.hoff < Word /\ (p.sz = 0 => p.hoff = 0)
    /\ pc \notin {"check", "done"} => Sane(p)

\* A place in the buffers.
Placed(a) == a.lin \in 0 .. MaxMem-1 /\ a = Located(bases, a.lin)

\* The place of a transaction.
Entry(a) == /\ Placed(a)
            /\ p.sz > 0 => a.lin + p.sz <= p.win /\ FitsPage(p, a.lin)

\* The array is filled from the front, and full when the test goes on.
Filled ==
    /\ arr \in [0 .. ArraySz-1 -> {NoAddr} \cup [chunk : Nat, addr : Nat, lin : Nat]]
    /\ \A i \in 0 .. idx-1 : Entry(arr[i])
    /\ pc = "check" => idx = 0
    /\ pc \in {"thrash", "warm", "first", "loop"} => idx = ArraySz

\* The BAR maps the chunk whose index is remembered, that of the current address.
Mapped == Placed(cur) /\ old = cur.chunk /\ bar = BarOf(bases[old])

InRegion ==
    /\ pc \notin {"thrash", "warm"} => wr = -1
    /\ pc \in {"thrash", "warm"} => wr <= 2 * (RegionSz \div LineSz)
    /\ pc \in {"thrash", "warm"} /\ wr > 0 => Mapped /\ cur.lin % LineSz = 0

InLoop == pc = "loop" => Entry(cur) /\ (IsCmd(test) => Mapped)

\* The sequential choice: the last draw that was stored, and every one since then
\* was skipped.  A page is passed after as many draws as it has lines.
LinesInPage == PageSz \div LineSz
Fits(t) == FitsPage(p, LinAddr(p, t))

LastDraw(t) ==
    /\ IF idx = 0 THEN t = -1 ELSE t >= 0 /\ arr[idx-1].lin = LinAddr(p, t)
    /\ t < idx * LinesInPage /\ idx + add <= t + LinesInPage
    /\ \A u \in t+1 .. idx+add-1 : ~Fits(u)

InOrder == ~p.random /\ UnitSz(p) > 0 => \E t \in -1 .. idx+add-1 : LastDraw(t)

\* Every draw that fits was stored, not only the last.
Swept ==
    ~p.random /\ UnitSz(p) > 0 =>
        \A t \in 0 .. idx+add-1 :
            Fits(t) => \E i \in 0 .. idx-1 : arr[i].lin = LinAddr(p, t)

\* Transactions go through the array from its front, the first entry twice; a test
\* that was not refused is over after all of them.
Performed ==
    /\ hits \in [0 .. ArraySz-1 -> Nat]
    /\ pc \notin {"loop", "done"} => trans = 0
    /\ pc = "loop" => cur = FromIdx(IF trans = 0 THEN 0 ELSE trans - 1)
    /\ pc = "done" /\ res = 0 => Sane(p) /\ idx = ArraySz /\ trans = MaxTrans(p)
    /\ ~p.random /\ UnitSz(p) > 0 => \A i \in 0 .. idx-1 : i <= trans-2 => hits[UnitAt(i)] > 0

\* What holds of every state of the test: each step preserves it (the latency
\* tests, me/pcie_cmd.c and me/utils.c).
LatInv == TypeOK /\ Checked /\ Filled /\ InRegion /\ InLoop /\ InOrder /\ CyclesInOrder
          /\ Swept /\ Performed
=============================================================================
