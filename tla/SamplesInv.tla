------------------------------ MODULE SamplesInv ------------------------------
(***************************************************************************)
(* The inductive invariant of Samples.                                     *)
(***************************************************************************)
EXTENDS Samples

Stamps == [hi : Nat, lo : Nat]

TypeOK ==
    /\ latches \in BOOLEAN /\ max_trans \in Counts
    /\ pc \in {"start_lo", "start_hi", "t0", "t1", "end_hi", "host", "done"}
    /\ tick \in Nat /\ high \in Nat /\ start \in Stamps /\ end \in Stamps /\ t0 \in Nat
    /\ began \in Nat /\ ended \in Nat
    /\ test_journal \in Seq(Nat) /\ took \in Seq(Latencies)
    /\ Len(test_journal) <= max_trans /\ (pc = "t1" => Len(test_journal) < max_trans)

\* The journal has an entry for every transaction that came back, and the entry is
\* what it took; a transaction under way began at t0.
JournalKept ==
    /\ Len(test_journal) = Len(took)
    /\ \A i \in 1 .. Len(took) : test_journal[i] = took[i]
    /\ pc = "t1" => t0 = LowOf(tick)

\* Of a stamp of the time t, the low word is read, and then the high one.
HalfStamp(stamp, t)  == stamp.lo = LowOf(t)  /\ high = HighOf(t)
WholeStamp(stamp, t) == stamp.lo = LowOf(t)  /\ (latches => stamp.hi = HighOf(t))

StampsTaken ==
    /\ pc = "start_hi" => HalfStamp(start, began)
    /\ pc \notin {"start_lo", "start_hi"} => WholeStamp(start, began)
    /\ pc = "end_hi" => HalfStamp(end, ended)
    /\ pc \in {"host", "done"} => WholeStamp(end, ended)
    /\ pc = "done" => report = Figures

\* Transactions took no longer than the test.
TimePassed ==
    /\ pc = "start_lo" => took = <<>>
    /\ pc # "start_lo" => began + Total(took) <= tick
    /\ pc \in {"end_hi", "host", "done"} => began + Total(took) <= ended /\ ended <= tick
    /\ pc \in {"end_hi", "host", "done"} => Len(took) = max_trans

\* What holds of every state of a test that is timed: each step preserves it
\* (dma_lat and cmd_lat).
SamplesInv == TypeOK /\ JournalKept /\ StampsTaken /\ TimePassed
=============================================================================
