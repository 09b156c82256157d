------------------------------- MODULE Samples -------------------------------
(***************************************************************************)
(* The numbers a latency test reports: time stamps and journal entries     *)
(* taken by the firmware (me/pcie_dma.c dma_lat, me/pcie_cmd.c cmd_lat),   *)
(* and what lat_test makes of them (python/pciebench/nfpbench.py,          *)
(* stats.py).  A microengine counts ticks of 16 cycles in 64 bits, which   *)
(* it reads as two registers of 32, the low one first; journal entries are *)
(* differences of low registers.  Whether reading the low register latches *)
(* the high one is the hardware's affair, so both are modelled.            *)
(***************************************************************************)
EXTENDS Integers, SequencesExt

CONSTANTS Lo,         \* 2^32: values of a time stamp register
          Counts,     \* numbers of transactions of a test
          Starts,     \* what the tick counter may be at the start
          Gaps,       \* ticks between a transaction and the next
          Latencies   \* ticks a transaction may take

ASSUME SamplesAssumption ==
    /\ Lo \in Nat \ {0} /\ Starts \subseteq Nat /\ Gaps \subseteq Nat
    /\ Counts \subseteq Nat \ {0}
    /\ Latencies \subseteq 0 .. Lo-1     \* 57 seconds; a PCIe request times out before

VARIABLES latches, max_trans,   \* the hardware, the number of transactions
          pc,         \* "start_lo", "start_hi", "t0", "t1", "end_hi", "host", "done"
          tick,       \* the counter
          high,       \* what the high register gives, once latched
          start, end, \* struct test_result
          t0,         \* when the current transaction began
          test_journal,
          began, ended, took,   \* history: when start_lo and end_lo were read, and
                                \* how long the transactions really took
          report      \* what lat_test returns and prints

env     == <<latches, max_trans>>
history == <<began, ended, took>>
vars == <<env, pc, tick, high, start, end, t0, test_journal, history, report>>

LowOf(t)  == t % Lo
HighOf(t) == t \div Lo
NoStamp   == [hi |-> 0, lo |-> 0]
NoReport  == [cycles |-> 0]

Init ==
    /\ latches \in BOOLEAN /\ max_trans \in Counts
    /\ pc = "start_lo" /\ tick \in Starts /\ high = 0
    /\ start = NoStamp /\ end = NoStamp /\ t0 = 0
    /\ test_journal = <<>> /\ took = <<>> /\ began = 0 /\ ended = 0
    /\ report = NoReport

-----------------------------------------------------------------------------
(* The firmware. A step lets some time pass, then reads a register.        *)

\* ts_lo_read at t latches the high register on hardware that does.
ReadLow(t)  == high' = HighOf(t)
ReadHigh(t) == IF latches THEN high ELSE HighOf(t)

StartLo ==
    /\ pc = "start_lo" /\ pc' = "start_hi"
    /\ start' = [start EXCEPT !.lo = LowOf(tick)] /\ began' = tick
    /\ ReadLow(tick)
    /\ UNCHANGED <<env, tick, end, t0, test_journal, ended, took, report>>

StartHi ==
    /\ pc = "start_hi" /\ pc' = "t0"
    /\ \E d \in Gaps : tick' = tick + d
    /\ start' = [start EXCEPT !.hi = ReadHigh(tick')]
    /\ UNCHANGED <<env, high, end, t0, test_journal, history, report>>

\* After the address and the descriptor of the transaction were prepared.
T0Early ==                                                          \* mutant
    /\ pc = "t0" /\ Len(test_journal) < max_trans /\ pc' = "t1"
    /\ \E d \in Gaps : tick' = tick + d
    /\ t0' = LowOf(tick) /\ ReadLow(tick)
    /\ UNCHANGED <<env, start, end, test_journal, history, report>>
T0 ==
    /\ pc = "t0" /\ Len(test_journal) < max_trans /\ pc' = "t1"
    /\ \E d \in Gaps : tick' = tick + d
    /\ t0' = LowOf(tick') /\ ReadLow(tick')
    /\ UNCHANGED <<env, start, end, test_journal, history, report>>

\* t1 - t0 in unsigned arithmetic of the registers' width.
SignedDifference(t1, t) == t1 - t                                   \* mutant
Difference(t1, t) == (t1 - t) % Lo

T1 ==
    /\ pc = "t1" /\ pc' = "t0"
    /\ \E d \in Latencies : /\ tick' = tick + d
                            /\ took' = Append(took, d)
    /\ test_journal' = Append(test_journal, Difference(LowOf(tick'), t0))
    /\ ReadLow(tick')
    /\ UNCHANGED <<env, start, end, t0, began, ended, report>>

EndLo ==
    /\ pc = "t0" /\ Len(test_journal) = max_trans /\ pc' = "end_hi"
    /\ \E d \in Gaps : tick' = tick + d
    /\ end' = [end EXCEPT !.lo = LowOf(tick')] /\ ended' = tick'
    /\ ReadLow(tick')
    /\ UNCHANGED <<env, start, t0, test_journal, began, took, report>>

EndHi ==
    /\ pc = "end_hi" /\ pc' = "host"
    /\ \E d \in Gaps : tick' = tick + d
    /\ end' = [end EXCEPT !.hi = ReadHigh(tick')]
    /\ UNCHANGED <<env, high, start, t0, test_journal, history, report>>

-----------------------------------------------------------------------------
(* The host. Its integers have no width; fractions are exact here and      *)
(* rounded in the code: an average is a sum, a median is doubled, and a    *)
(* percentile is scaled by Scale.                                          *)

CyclesPerTick == 16
Scale == 1000

\* The words of struct test_result, and _get_result's difference of them.
LoFirst(stamp) == (stamp.lo * Lo) + stamp.hi                        \* mutant
Ticks(stamp)   == (stamp.hi * Lo) + stamp.lo
Cycles == (Ticks(end) - Ticks(start)) * CyclesPerTick

\* The sums of the first 0, 1, ... elements, and of all.
Sums(s)  == LET sum[k \in 0 .. Len(s)] == IF k = 0 THEN 0 ELSE sum[k - 1] + s[k]
            IN  sum
Total(s) == Sums(s)[Len(s)]

\* The k-th in order: fewer than k are below it, and no fewer up to it.
Sorted(s) == [k \in DOMAIN s |->
                CHOOSE v \in ToSet(s) :
                    /\ Cardinality({i \in DOMAIN s : s[i] < v}) < k
                    /\ k <= Cardinality({i \in DOMAIN s : s[i] <= v})]

\* The percentile of rank p/Scale of sorted samples: linear between the two
\* around index (n-1)*p; sequences begin at 1.
Floor(x) == x \div Scale
Ceil(x)  == (x + Scale - 1) \div Scale
WeightsSwapped(s, p) ==                                             \* mutant
    LET idx == (Len(s) - 1) * p  floor == Floor(idx)  ceil == Ceil(idx)
    IN  IF floor = ceil THEN s[floor + 1] * Scale
        ELSE s[floor + 1] * (idx - floor * Scale) + s[ceil + 1] * (ceil * Scale - idx)
Percentile(s, p) ==
    LET idx == (Len(s) - 1) * p  floor == Floor(idx)  ceil == Ceil(idx)
    IN  IF floor = ceil THEN s[floor + 1] * Scale
        ELSE s[floor + 1] * (ceil * Scale - idx) + s[ceil + 1] * (idx - floor * Scale)

TwiceMedian(s) == LET half == Len(s) \div 2
                  IN  IF Len(s) % 2 = 0 THEN s[half + 1] + s[half] ELSE 2 * s[half + 1]

Histo(s) == [v \in ToSet(s) |-> Cardinality({i \in DOMAIN s : s[i] = v})]

\* The counts of a histogram, summed in the order of its values.
Keys(h) == Sorted(SetToSeq(DOMAIN h))
SumBefore(h) ==                                                     \* mutant
    LET sums == Sums([k \in DOMAIN Keys(h) |-> h[Keys(h)[k]]])
    IN  [v \in DOMAIN h |-> sums[(CHOOSE k \in DOMAIN Keys(h) : Keys(h)[k] = v) - 1]]
Histo2Cdf(h) ==
    LET sums == Sums([k \in DOMAIN Keys(h) |-> h[Keys(h)[k]]])
    IN  [v \in DOMAIN h |-> sums[CHOOSE k \in DOMAIN Keys(h) : Keys(h)[k] = v]]

\* lat_test. The total average is an integer division (Python 2), the other an
\* exact one.
Cyc == [i \in DOMAIN test_journal |-> test_journal[i] * CyclesPerTick]
Figures ==
    [cycles |-> Cycles, samples |-> max_trans,
     tavg   |-> Cycles \div max_trans, sum |-> Total(Cyc),
     min    |-> Min(ToSet(Cyc)), max |-> Max(ToSet(Cyc)),
     med2   |-> TwiceMedian(Sorted(Cyc)), per50 |-> Percentile(Sorted(Cyc), 500),
     per95  |-> Percentile(Sorted(Cyc), 950), per99 |-> Percentile(Sorted(Cyc), 999),
     cdf    |-> Histo2Cdf(Histo(Cyc))]
Report ==
    /\ pc = "host" /\ pc' = "done" /\ report' = Figures
    /\ UNCHANGED <<env, tick, high, start, end, t0, test_journal, history>>

Next == StartLo \/ StartHi \/ T0 \/ T1 \/ EndLo \/ EndHi \/ Report
Spec == Init /\ [][Next]_vars

-----------------------------------------------------------------------------
(* What is checked.                                                        *)

\* Whatever the low register did in between, wrapping included, an entry of the
\* journal is what the transaction took (pcie_dma.c 177-206, pcie_cmd.c 83-110).
SamplesAreTrue ==
    \A i \in DOMAIN test_journal : test_journal[i] = took[i]

\* The cycles reported for the test are those between the two readings of the low
\* register. Where reading it does not latch the high one, they are off by one turn
\* of the low register for each stamp whose two readings a wrap came between, and
\* by nothing else (pcie_dma.c 168-169 and 214-215, nfpbench.py 345-346).
TotalIsTrue ==
    pc = "done" =>
        LET true == (ended - began) * CyclesPerTick
            turn == Lo * CyclesPerTick
        IN  IF latches THEN report.cycles = true
            ELSE report.cycles = true
                     + turn * ((end.hi - HighOf(ended)) - (start.hi - HighOf(began)))

\* The smallest sample, the median, the percentiles and the largest one come in
\* that order, the average is between the ends, and the median is the 50th
\* percentile although the two are computed by different code (stats.py 29-65).
\* Nor is it above the average over the test, which the firmware measured with two
\* other stamps and pciebench.h 326-330 calls obviously higher, but for what the
\* integer division cuts off and as long as the stamps are whole.
StatisticsAgree ==
    pc = "done" =>
        /\ report.med2 * Scale = 2 * report.per50
        /\ report.min * Scale <= report.per50 /\ report.per50 <= report.per95
        /\ report.per95 <= report.per99 /\ report.per99 <= report.max * Scale
        /\ report.min * report.samples <= report.sum
        /\ report.sum <= report.max * report.samples
        /\ latches => report.sum < (report.tavg + 1) * report.samples

\* The distribution gives for every value how many samples are not above it; its
\* last value is all of them (stats.py 68-95).
CdfCountsSamples ==
    pc = "done" =>
        \A v \in DOMAIN report.cdf :
            /\ report.cdf[v] = Cardinality({i \in DOMAIN test_journal :
                                               test_journal[i] * CyclesPerTick <= v})
            /\ v = report.max => report.cdf[v] = report.samples
=============================================================================
