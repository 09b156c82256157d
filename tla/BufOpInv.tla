------------------------------- MODULE BufOpInv -------------------------------
(***************************************************************************)
(* The inductive invariant of BufOp.                                       *)
(***************************************************************************)
EXTENDS BufOp

\* A call that runs has something to move.
CallsMove ==
    /\ call \in [Procs -> [write : BOOLEAN, count : Nat, pos : Nat, got : Seq(Bytes)]]
    /\ \A u \in Procs : InCall(u) => call[u].count > 0

\* The first n bytes of the buffers were written since the chunks were allocated.
WarmedUpTo(n) == \A x \in 0 .. MaxMem-1 : x < n => FirmwareSees(x) # Cold

\* While it warms, the Warmer's position is at the page it has come to, or at the
\* end of the buffers, and what is before it is warm.
Reached(n) == IF n < MaxMem THEN n ELSE MaxMem

WarmsInOrder ==
    /\ pass > 0 => WarmedUpTo(win)
    /\ IF wpc = "done" THEN pass > 0 ELSE pass < Passes
    /\ InCall(Warmer) => wpc = "write" /\ call[Warmer].write /\ page > 0
    /\ wpc = "write" =>
          /\ page <= NumPages
          /\ WarmedUpTo(offp[Warmer] + call[Warmer].pos)
          /\ offp[Warmer] + call[Warmer].count = Reached(page * PageSz)

\* What holds of every state of the buffer file and of the warming: each step
\* preserves it (npb_buf_op, and the helper's warm_cache).
BufInv == TypeOK /\ CallsMove /\ WarmsInOrder
=============================================================================
