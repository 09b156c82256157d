# A verification development for pciebench-nfp

TLA+ models of the PCIe micro-benchmarks for NFP cards: the firmware in `me/`,
the host scripts in `python/`, the helper program in `user/` and the kernel
module in `kernel/`. TLC model-checks the modules on small instances; TLAPS
proves their safety properties, those of the suite script excepted, and both
refinements, for instances of every size.

Paths below are relative to the repository. A definition marked `mutant` in a
module is a plausible faulty variant of the definition that follows it. It is
not part of the specification; it documents that the properties notice such a
fault when it is put in place of the real definition.

## 1. The system

### Parts, state and operations

| part | code | state | operations |
|---|---|---|---|
| poll loop | `me/pciebench_main.c`, `me/shared.c`, `me/pciebench.h` | mailbox symbols `test_ctrl`, `test_params`, `test_result`, `host_dma_addrs`; locals `params`, `result`, `res`, `chunk_dma_addrs` | poll, copy parameters, copy chunk addresses, run the test, store the result, answer |
| bandwidth tests | `me/pcie_dma.c` (`dma_bw`, `dma_bw_worker`), `me/dma_worker_main.c` | counter `num_dma_trans`, address array `dma_addrs`, registers shared by the contexts of a microengine (ME), one control signal per context, DMA engine | master: copy arguments, check, build the array, arm the counter, start the chain, wait. Worker: copy arguments (context 0 of an ME), start the next one, take an index, issue a DMA, stop |
| latency tests | `me/pcie_cmd.c` (`cmd_lat`), `me/pcie_dma.c` (`dma_lat`) | current address, BAR, transaction count, time stamps, `test_journal` | one measured transaction after another |
| addresses, cache warming | `me/utils.c` | address array, BAR | `dma_addr_init`, `dma_addr_from_idx`, `write_region` |
| primitives | `me/libnfp.[ch]`, `me/libnfcc.c`, `me/compat.h` | journal ring, BAR registers, CSRs | atomic test-and-subtract, signals, DMA and PCIe commands, time stamps, division in software |
| running a test | `python/pciebench/nfpbench.py` | symbol table, parameters, samples | reload the firmware, write symbols, start, poll, read the result and the journal; check parameters and chunk addresses |
| helper | `user/nfp-pciebench-helper.c` | `opt_test` | thrash/warm, start, poll |
| kernel module | `kernel/nfp_pciebench_main.c` | `struct nfp_pciebench`: chunks, DMA addresses, procfs entries | module init/exit, probe/remove, reads and writes of the procfs entries |
| suite script | `python/nfp_pciebench.py` | parameters of the sweeps | nested loops over tests |
| statistics and tables | `python/pciebench/{stats,tablewriter}.py` | rows and files of a table | averages, percentiles, distribution; opening, filling and closing tables |
| system information, debug output | `python/pciebench/{sysinfo,debug}.py` | none | pure I/O |

### Interactions

The host and the firmware share a mailbox in the card's memory: the host writes
`test_params` and `host_dma_addrs`, then a positive number to `test_ctrl`; the
master context polls it, executes the test, writes `test_result` and then 0 or
-1 to `test_ctrl`, for which the host polls. Latency tests run in the master.
For bandwidth tests the master signals the first of up to 95 worker contexts;
each signals the next before it begins its own work. Workers draw indices from
an atomic counter in cluster-local scratch, issue one DMA for each and stop
when they get index 1 or 0; the one that had 1 signals the master. Contexts of
one ME share registers that hold the test number, size and card offset: on the
master's ME the master fills them, on the others context 0 does from a second
read of the mailbox. The kernel module owns the host memory the card accesses
and exports its DMA addresses to the scripts through procfs; the same entry lets the helper or
a script write the buffers in order to warm the host's cache. Nothing but
addresses passes between the kernel module and the firmware, so the module
cannot know whether a test is using its buffers. The suite script calls `run_test` some
hundred times, and an exception in any of them ends it.

### What is hard about it

- Bandwidth tests: up to 96 contexts on 12 MEs with a DMA engine behind them;
  the answer to the host races with workers that are still being started, that
  copy their arguments late, or that have DMAs in flight; signals are one bit
  wide; the counter saturates and is shared.
- The loop of `dma_addr_init` has no bound of its own; transactions must not
  cross pages, chunks or windows; commands go through one BAR that is moved
  lazily.
- The host works by running commands whose exit codes it mostly ignores, and a
  script can end while a test is running.
- Probing takes some forty steps (the device's resources, 16 chunks and their
  mappings, three procfs entries), almost each of which may fail; procfs
  operations run concurrently with the later ones and with removal. A transfer
  is cut into pieces of a chunk, each copied without a lock and each of which
  may fault.
- Removal frees the buffers without asking the card, and the card keeps the
  addresses of a device that is gone.
- The numbers reported are differences of wrapping registers, some of which are
  read in two halves.

### What makes each part correct

- *Bandwidth tests.* Every DMA that counts is one the host asked for; each
  index is used once; the result is the answer to the request; nothing shared
  is rewritten under a running worker; no signal is lost; the test ends and
  leaves all workers ready for the next one.
- *Latency tests and addresses.* Addresses lie in the window, in one page and
  where the host reserved them; sequential tests visit units in order; every
  command goes to the intended bus address; the test ends.
- *Running a test.* What is returned belongs to the call that returns it; a
  call always comes back.
- *Samples and statistics.* A sample is what the transaction took; the figures
  derived from the samples agree with each other and with the samples.
- *Suite.* No combination of parameters it generates is refused, or lies outside
  what the firmware takes for granted; no table overwrites another.
- *Kernel module.* Nothing leaks, nothing is released twice or never acquired;
  an operation never meets memory that is gone; the module can be unloaded; the
  chunks behave as one file; the card touches only buffers that are allocated.

`PROJECT.json` lists the hazards of the code line by line with the properties
that cover each, and the source lines every definition stands for.

## 2. Modules and the code

| module | models | extends |
|---|---|---|
| `DmaBw` | bandwidth test: host, master, workers, signals, counter, DMA engine | |
| `BwPool` | what a bandwidth test promises, without its mechanism | |
| `DmaBwInv` | inductive invariant of `DmaBw` | `DmaBw` |
| `DmaBwReuseInv` | inductive invariant of `DmaBw` when the firmware may be used again without a reload (`SpecReuse`) | `DmaBwInv` |
| `DmaBwProofs` | theorems about `DmaBw` | `DmaBwReuseInv`, TLAPS |
| `Nfcc` | the firmware's division | |
| `NumberLemmas` | lemmas: induction, quotients and remainders, blocks | TLAPS |
| `LatTest` | latency test, address array, cache warming by the card, host's checks | `Nfcc` |
| `Samples` | time stamps, journal entries, what `lat_test` and `stats.py` make of them | |
| `RunTest` | `run_test`, helper and poll loop, failing commands, interrupted scripts | |
| `NpbDriver` | kernel module, probing, removal, procfs operations | |
| `FlatBuffer` | what the procfs entry of the buffers promises: one file | |
| `BufOp` | `npb_buf_op` piece by piece, users, warming by helper or script | |
| `CardAndDriver` | `RunTest` and `NpbDriver` together, with the user between them | |
| `Suite` | the suite script's series, and what may refuse their tests | |
| `LatTestInv`, `SamplesInv`, `RunTestInv`, `NpbDriverInv`, `BufOpInv`, `CardAndDriverInv` | inductive invariants | the module of that name |
| `LatTestProofs`, `SamplesProofs`, `RunTestProofs`, `NpbDriverProofs`, `BufOpProofs`, `CardAndDriverProofs` | theorems | the invariant, TLAPS, `NumberLemmas` where they calculate |
| `MC...` | instances for TLC | the above |

Composition: `DmaBw` instantiates `BwPool` and `BufOp` instantiates `FlatBuffer`
(each detailed module implements the abstract one); `CardAndDriver` instantiates
`RunTest` and `NpbDriver` over the union of their variables.

**`DmaBw`.** A step ends where a context may be swapped out or somebody else
can see a difference: at accesses of cluster-local scratch, at signals, at the
enqueue of a DMA. `mpc` is the master's place in `main()`/`dma_bw`, `pc[w]` a
worker's in `dma_bw_worker`, `hpc` the host's in `run_test`. `gpr[m]` holds the
three registers that all contexts of ME `m` share; `cmd[w]` the descriptor
template a worker builds once per start; `dma[w]` the descriptor the DMA engine
works on for it. A descriptor carries the parameters the address array was
computed from, so that using a wrong array shows. `MENum` keeps as many bits of
the ME number as `__ME()` does. A DMA's data and time stamps are not modelled.
The `uint32_t` sum of size and offset wraps at `Word`.

**`BwPool`.** A pool of numbers handed out downwards, each to one taker; the
result is reported after number 1 completed. The refinement is `Pool` in
`DmaBw`: the pool is `1 .. num_dma_trans`, a taker holds the index its worker
drew, a number is finished when it is neither in the pool nor held. DMAs with
index 0 are stutters. The pool is reset by a reload or, without one, by the master
picking up the next test. The pool does not promise that all transactions are
finished when the result is reported, because the code does not (section 6).

**`LatTest`.** One context executes all of it, so the parameters, the test and
the placement of the chunks are chosen in `Init`, restricted to what the host's
checks let through, and each loop iteration is a step. Units are whatever
`LineSz` units of memory are made of. `hits` is a history variable.
`HostChecksBases` is `_set_dma_addrs`'s check that chunks are page-aligned and
inside one BAR; `Through` is what the BAR register and the low bits of an
address reach. Divisions are those of `Nfcc`, in words of `WordBits` bits, so a
unit of size 0 (no bytes at offset 0) is modelled too: dividing by it gives all
ones and the test runs on at offset 0.

**`Nfcc`.** `_div_mod_32` of `libnfcc.c`, which the compiler calls for `/` and
`%`: the remainder is shifted in a word of its own width, and a divisor of zero
gives all ones. `DivStep` is one turn of its loop.

**`Samples`.** The 64-bit tick counter is a number `tick` of which two registers show
the halves; `high` is what the high register gives once reading the low one
latched it (`latches`, either way, since the code says nothing about it). A
journal entry is a difference modulo `Lo`. `Report` is `lat_test` with
`stats.py`: fractions are kept exact by scaling them with `Scale`, except where
the script's own division truncates. `sorted()` is modelled by ranks (`Sorted`), a
loop that adds up by its intermediate sums (`Sums`).

**`RunTest`.** Each command the host runs is a step that works, or fails the way
the code sees it: unnoticed (`nfp-nffw`, `nfp-rtsym` writes, the helper's reads
and writes) or as an exception. A behaviour begins with a set `faults` of
commands that may fail in it. An exception or an interrupt ends the script; a
new one reads the symbol table afresh. Parameters and results carry the number
of the call they belong to, which is what the properties are about; 0 is the
zeroes that loading leaves. The journal is a ring that loading rewinds and does
not clear.

**`NpbDriver`.** `mpc` and `dpc` are the places in the module's and the device's
functions, labels of the error path included. `held`, `pages`, `mappings` and
`entries` are what the kernel handed out; `buf`, `dma`, `proc` what the struct's
fields say. `missed` is the set of failures that this kernel reports in a form
the module takes for success (`page_address(NULL)`, a DMA error code other than
0). The kernel around the module (probe and remove one at a time, `proc_remove`
waits for running operations) is modelled from how the module relies on it.

**`FlatBuffer` and `BufOp`.** `FlatBuffer` is a file of `Size` bytes: a call moves
the bytes of its range in order, in pieces of any size, and leaves the position
behind them or fails and leaves it alone. `BufOp` has the chunks: `call[u]` holds
the arguments and locals of a running `npb_buf_op`, `Copy` copies one piece,
`CopyFaults` is a bad address in the middle of one. The refinement is `Flat`:
the file is the concatenation of the chunks, a position is `*offp`. The warmer is
a process that makes the calls of `warm_cache` (helper): it writes whole pages and
ignores what `write()` returns. For windows within the buffers, the only ones the
suite asks for, `_warm_host` (script) writes the same pages; its file object is
buffered, and beyond the buffers it would try again or raise. A
byte is a writer and its place in the writer's memory.

**`CardAndDriver`.** The actions are those of the two modules. The shared state is
that a script reads the procfs entry (`SetDmaAddrs`): `binding` numbers the
times the device was bound, and `read[r]` is the one whose addresses run `r` got.
A script is started while the device is bound, and the user releases the device only when
no script runs and `test_ctrl` is not positive (`Quiet`).

**`Suite`.** A series is a sequence of tables; a table has a file name, parameters
all its tests share, and nested loops over the others. `Open`, `Test` and `Close`
walk through them. `Accepted` is every check on the way to a result: those of
`lat_test`/`bw_test`, then in the order of `run_test` the formatting of the chunk size and
of the parameters (the quotient is a float in Python 3, a window of 1.5 MB in
either), warming without the helper, and the firmware's check. The numbers are
the program's own.

## 3. Runs

The instances are small because the behaviour does not depend on size beyond
them: two MEs are needed for a second copy of the registers, two contexts for a
context 0 and one that is started by it and for the last context of an ME, two
and three transactions for indices above 1, at 1 and at 0 to be in use at once
by three workers; three chunks and two per BAR give neighbours in one BAR and in
two; two chunks and two users give operations on either side of a release, and
calls that cross from one chunk to the next or run over the end; two bindings
of the device give addresses of a former one; registers of 8 values with
latencies up to 7 and tests of up to four transactions give every place of a
wrap of the low register.

| run | module | instance | distinct states | result |
|---|---|---|---|---|
| `bw_safety` | `MCDmaBw` | 2 MEs of 2 contexts, 2 or 3 transactions, 2 tests, 4 parameter blocks (default, long, refused, wrapping); one ME number, so that the stray signal of section 6 is sent too | 114,584 | all hold |
| `bw_reuse` | `MCDmaBw` | 2 MEs of 2 contexts, 2 or 3 transactions, 2 tests, 3 parameter blocks (default, long, refused); the firmware may not be reloaded between them | 164,402 | all hold |
| `bw_all` | `MCDmaBw` | one test | | violated, see section 6 |
| `lat` | `MCLatTest` | lines of 2, pages and chunks of 8, BARs of 16, 3 chunks, words of 6 bits; units of 1 to 4 lines, 3 windows, 3 offsets, none or one of long, warm and thrash (144 combinations); size 0; 2 random tests; 4 placements, 2 of them refused | 515,142 | all hold |
| `samples` | `MCSamples` | registers of 8 values, 1 to 4 transactions, 3 starts, latencies 0, 1, 4, 7, hardware that latches or not | 148,556 | all hold |
| `run_test` | `MCRunTest` | a latency and a bandwidth test, 3 calls, journal of 3 entries; failing loads, reads and writes with interrupts, or failing unloads and loads | 121,766 | all hold |
| `driver` | `MCNpbDriver` | 2 chunks, 2 processes, failures of allocation and mapping noticed or missed | 13,848 | all hold |
| `driver_alloc` | `MCNpbDriver` | missed allocation failure | | violated, see section 6 |
| `buf` | `MCBufOp` | 2 chunks of 2 pages of 2 bytes; a user with 2 calls of 0, 3, 6 or 9 bytes and any number of seeks; warming windows of 3 and 9 bytes in 2 passes | 206,107 | all hold |
| `card` | `MCCardAndDriver` | 2 runs, the device bound twice, 1 chunk; failing unloads and reads with interrupts, or failing loads with interrupts | 501,642 | all hold |
| `suite` | `MCSuite` | the actual numbers; full, short and three debug modes, both cards, with and without the helper, Python 2 | 14,628 | all hold |
| `suite_py3` | `MCSuite` | the same with Python 3 | | violated, see section 6 |

What they show:

- `CountedDmaMatchesTest`: a counted DMA has the requested direction, size, card
  offset and address, although context 0 of a worker ME may read the mailbox
  after the test was answered. It can only be so late when no index is left.
- `HostReadsOwnResult`: refused parameters give an error, a test that ran gives
  its own count, never the storage of an earlier result.
- `SetupAlone`: registers, array and counter are rewritten only when no worker
  is started, about to be, or has a DMA in flight.
- `NoSignalLost`: one-bit signals are never raised while pending.
- `IInv`, `ReuseInv`, `LatInv`, `MailInv`, `DriverInv`, `BufInv`, `SamplesInv`: the
  inductive invariants of section 5, which contain the types. TLC says that they
  hold; that they are inductive is what the proofs add. `ReuseInv` also contains
  `CountedDmaMatchesTest` and `HostReadsOwnResult`, for tests without a reload.
- `ImplementsPool`, `TestTerminates`, `WorkersPark`: refinement of `BwPool`,
  every test ends, every worker returns to its wait. The refinement is checked
  with reloads and without (`bw_reuse`).
- `AddrsContained`, `CyclesInOrder`, `BarCoversAccess`, `LatTestEnds`: see the
  comments at their definitions; units that do not divide a page are included.
- `WindowSwept`: although index 0 is used twice and the array wraps elsewhere
  than the window, a sequential test leaves no unit of it out.
- `DivisionIsExact`: the compiler's division divides, for every pair of words.
- `SamplesAreTrue`, `TotalIsTrue`: a journal entry is what the transaction took
  whatever wrapped; the total is right, or off by exactly one turn of the low
  register per torn stamp, on hardware that does not latch.
- `StatisticsAgree`, `CdfCountsSamples`: minimum, median, percentiles, maximum
  and the two averages are in order, median and 50th percentile are the same
  although computed by different code, and the distribution counts.
- `ReportIsOfThisRun`, `UsesThisRunsSetup`, `RunTestEnds`: the host never returns
  what another call produced, samples included, under the condition `UnloadAlone`
  (section 7) and with two exceptions that are stated in the property: where unloading failed unnoticed, the journal's
  samples may be those of an earlier test; where a write got lost, the result
  may be the zeroes that loading left, which belong to no test.
- `NothingLeaks`, `ReleasesItsOwn`, `OpsFindBuffers`, `UnloadEnds`: error paths
  and removal, with running procfs operations. Where a failure went unnoticed
  the properties say what is still true.
- `ImplementsFlat`: transfers that cross chunks, are clipped at the end, fault in
  the middle and interleave with others still behave as one file.
- `WindowIsWarm`, `WarmingEnds`: after warming the host has written every byte
  the firmware will look at, and warming ends, also at the end of the buffers.
- `AccessesOwnBuffers`: the firmware uses only addresses of the device as it is
  bound now, with every chunk allocated and mapped. `QuietComes`: the user who
  looks at `test_ctrl` need not wait for ever.
- `SuiteEnds`, `WithinBuffers`, `TablesKept`: all tests of all series pass every
  check, have windows within the buffers and card-side ends within the card's
  buffer (which nobody checks), and write to tables of their own.

Deadlock is not checked, because each system may really stop: in `DmaBw`,
`RunTest` and `CardAndDriver` after the host's last test, in `LatTest` and
`Samples` at the end of the test, in `Suite` at the end of the script, in `BufOp`
when warming is done and the user made his last call, and in `NpbDriver` when a
probe died in an oops and the module is being unloaded. That nothing else stops
is what the liveness properties say.

Bounds: `MaxTests`, `MaxRuns` and `MaxCalls` bound the calls of the host's
programs and `MaxBindings` how often the device is bound; nothing else is cut.

## 4. Fairness

- `DmaBw`: weak fairness of the master, of every worker and of every DMA. The
  hardware schedules the ready contexts of an ME round-robin, MEs are processors
  of their own, and the DMA engine completes what it accepts. The host's poll
  loop has no time-out (`HFinish`). Starting a further test is not fair.
- `LatTest`: weak fairness of the one context. Random tests are left out of
  `LatTestEnds`: they end with probability one, not on every run.
- `RunTest`: weak fairness of the scripts' next command and of the firmware;
  users' calls and interrupts are not fair. In runs with failing reads of the
  helper's poll this includes that a read that is repeated for ever succeeds at
  some time, without which polling is not promised to end.
- `NpbDriver`: kernel functions that were entered run on, a user's operation
  ends, and the removal that unregistering asks for takes place. Probing,
  starting an operation, loading and unloading are not fair.
- `BufOp`: a call that was made runs on, and so does the warming; users' calls
  are not fair.
- `Suite`: the script runs on. That a test comes back is `RunTestEnds`.
- `CardAndDriver`: as in its two parts.
- `Samples` has no liveness property.

## 5. Proofs

The theorems hold for every value of the constants that the named assumption of
the module allows; TLC evaluates the assumptions on every run.

| module | theorem | states |
|---|---|---|
| `DmaBwProofs` | `Invariance`, `TypeCorrect` | `Spec => []IInv`, `Spec => []TypeOK`; the counter never wraps |
| | `DmaCorrect`, `ResultCorrect`, `SetupCorrect`, `SignalsCorrect` | `CountedDmaMatchesTest`, `HostReadsOwnResult`, `SetupAlone`, `NoSignalLost` always hold |
| | `ReuseInvariance` | `SpecReuse => []ReuseInv` |
| | `DmaCorrectOnReuse`, `ResultCorrectOnReuse`, `SignalsCorrectOnReuse` | the same properties hold under `SpecReuse`, the last one as `NoSignalLostAgain` |
| | `AnswerStaysOnReuse` | `SpecReuse => AnswerStays`: nothing writes to the mailbox between the answer and the host's next call |
| | `PoolImplementedOnReuse`, `PoolImplemented` | `SpecReuse => ImplementsPool` and `Spec => ImplementsPool`: refinement of `BwPool` |
| `LatTestProofs` | `Invariance`, `TypeCorrect` | `Spec => []LatInv`, `Spec => []TypeOK` |
| | `Contained`, `BarCovers`, `VisitsInOrder`, `Sweeps` | `AddrsContained`, `BarCoversAccess`, `CyclesInOrder`, `WindowSwept` always hold |
| | `DivisionExact`, `DividesExactly` | the division of `Nfcc` divides, for words of every width |
| `SamplesProofs` | `Invariance` | `Spec => []SamplesInv` |
| | `JournalIsTrue`, `CyclesAreTrue` | `SamplesAreTrue`, `TotalIsTrue` always hold |
| | `FiguresAgree`, `DistributionCounts` | `StatisticsAgree`, `CdfCountsSamples` always hold |
| `RunTestProofs` | `MailInvariance`, `TypeCorrect` | `Spec => []MailInv`, `Spec => []TypeOK` |
| | `ReportsAreTrue`, `SetupIsTrue` | `ReportIsOfThisRun`, `UsesThisRunsSetup` always hold |
| `NpbDriverProofs` | `DriverInvariance`, `TypeCorrect` | `Spec => []DriverInv`, `Spec => []TypeOK` |
| | `NoLeak`, `ReleasesOnlyHeld`, `OpsAreSafe` | `NothingLeaks`, `ReleasesItsOwn`, `OpsFindBuffers` always hold |
| `BufOpProofs` | `Invariance`, `Warmed` | `Spec => []BufInv`, `Spec => []WindowIsWarm` |
| | `FlatImplemented` | `Spec => ImplementsFlat`: refinement of `FlatBuffer` |
| `CardAndDriverProofs` | `Invariance`, `OwnBuffers` | `Spec => []IInv`, `Spec => []AccessesOwnBuffers` |

`NumberLemmas` holds what several of them need about numbers.

None of the properties is inductive: a worker in `take` with wrong arguments,
for example, satisfies `CountedDmaMatchesTest` and breaks it one step later. Each
`...Inv` module says what else holds, in named parts; the proof that a step
preserves it has a lemma per part or per group of actions.

**`DmaBw`.** Assumed are positive sizes, at least two MEs and two contexts, and
parameters of the right type (`DmaBwAssumption`). Nothing is assumed of
`MENums`, so the theorems hold with and without the stray signal. No proof uses
`SizesFitPages`, which is true of what the host lets through. Besides the types:

1. `Local`: a worker's own variables fit its place.
2. `Chain`: a worker is reached only after the master started the chain, only
   after its predecessor passed the ping, and only after context 0 of its ME
   copied the arguments. `SetupAlone` and half of `NoSignalLost` follow.
3. `Mail`: what host, mailbox and master hold agrees at each of their places;
   this contains `HostReadsOwnResult`.
4. `Counter`: indices held are distinct and above the counter, so when the one
   with index 1 signals, the counter is 0 and nobody holds 1 any more. The rest
   of `NoSignalLost` follows: that worker is the only one.
5. `Copies`: registers of a worker ME agree with the request as soon as they are
   copied, except the test number when the counter is exhausted. The mailbox
   keeps the parameters until the next reload, but `test_ctrl` only until the
   answer; the answer comes only after index 1, and then no index is left.

Without a reload (`SpecReuse`) `IInv` does not hold: registers, templates, the
result and the answer of the former test are still in place, and a worker's own
variables no longer tell whether the chain has reached it in this test. So
`ReuseInv` says that there is a set R of workers reached (`Reaches`): those outside it
are parked, a worker's follower is in it only after the worker has signalled,
and what a worker in R has copied is of this test (`CopiesOf`). R grows when the
master or a worker signals, and is empty again once the host makes its next
call, because by then the workers are back at their wait: the assumption in the
guard of `HReloadFails` (section 7), which only the theorems about `SpecReuse`
use. For the same reason no theorem states `SetupAlone` here: it would only repeat
that assumption. The other parts speak of this test alone: `Fits` and `Issued` of workers and
their DMAs, `MailAgain` of host, mailbox and master, `CounterAgain` of the indices
given out, `ArmedAgain` of their being among those the test armed.

The refinement is proved from `ReuseInv`, and holds under `Spec`, whose steps are
among those of `SpecReuse`, as a special case. Arming, taking, retiring an index,
reporting and resetting are steps of the pool; everything else is a stutter,
since neither counter nor indices above 0 change. `AnswerStays` justifies that
`HFinish` is one step although the host reads the mailbox by several commands.

**`LatTest`.** Assumed are sizes that divide each other as the code's constants
do, and words that hold a page and the number of addresses times the lines of a
page (2^26 against 2^32 in the code): without that the counter of skipped units
could overflow. Bases of the chunks are arbitrary. `Placed` says that an address
is one of the buffers together with the chunk and bus address that belong to it,
`Filled` that the array holds transactions of the window from the front,
`Mapped` that the BAR maps the chunk whose index is remembered. `InOrder` is what
`CyclesInOrder` lacks: between the last unit stored and the next one drawn all
units cross a page, and a page is passed after as many draws as it has lines, so
the counter stays small. For `WindowSwept`, `Swept` says that every unit below the
next one to be drawn that fits a page is in the array, and `Performed` that after
`trans` transactions all but the last one of that many entries have been hit, since the first is
used twice; the rest is that a test has more transactions than the array has
entries (`TestsAreLonger`: 2^21 or 2^24 against 2^20), which no other proof uses.
The arithmetic (a transaction that fits a page also
fits a chunk and a BAR; a command's low address bits and its BAR make up the
address) comes from `NumberLemmas`.

`DivisionExact` is an induction over the bits of a word: the loop keeps
dividend bits consumed = quotient * divisor + remainder with the remainder
below the divisor. The remainder is never above the bits consumed, so shifting it
in its own word loses nothing. The provers cannot use the library's induction
rule, which takes an operator as a parameter; `SetInduction` derives one about
sets from the well-foundedness of `<`, and `Iteration` the existence of what
the recursion describes.

**`Samples`.** Registers of any width; latencies below one turn of the low
register, 57 seconds in the code. `JournalKept` ties `t0` to the tick a
transaction began at, `StampsTaken` the two halves of a stamp to one time;
`TimePassed` says that the transactions so far fit between the stamps. The
statistics are proved for any number of samples:

- a loop that adds up is a sequence of intermediate sums, of which `SumsFacts` and
  `SumsBounded` say by induction that they lie between n times the smallest and
  n times the largest sample;
- the i-th value of a sorted list is the sample of rank i. `RankTaken` says that each
  rank is taken exactly once, an argument about the cardinality of the set of
  samples before one; `SortedAscends` and `SortedEnds` follow, and that minimum and
  maximum are the ends;
- `PercentileForm` shows which neighbours each percentile lies between and with
  what weights; that it is monotone, and that the 50th is the median computed
  by other code, is arithmetic from there (`PercentileBounds`);
- the distribution counts as a running sum over distinct values in ascending
  order (`KeysFacts`); that the sum so far counts the samples not above a value is
  an induction over those values (`CountsAdd`).

**`RunTest`.** Any tests, number of calls and sets of faults. The properties are
claimed under `UnloadAlone` (section 7), and so is the invariant. From the load
on, `run_test` meets a firmware that is idle, new or with its last test answered
(`Quiet`, `Fresh`); so the mailbox holds what this call put there (`Setup`), the
firmware works on that (`Working`, `Sampling`), and what is collected belongs to
it (`Reported`).

**`NpbDriver`.** Any number of chunks and users. `Staircase` gives what is held as a
function of where probe or removal is and why it leaves; `Fields` relates the
struct's fields to what the kernel handed out, up to failures nobody noticed;
`Usable` says that entries exist only while all chunks do; `Ops` that operations
run only on entries removal has not passed.

**`BufOp`.** Any number of users, chunk, page and window sizes; pages need not
divide chunks. That a piece is inside its chunk and inside its call's range
(`Piece`), and that writing it changes the same bytes of the concatenation
(`WrittenAt`), is the arithmetic of both the refinement and the warming.
`WarmsInOrder` says that everything before the warmer's position is warm and
where that position is after a number of pages; users' writes interleave but
never make a byte cold. `Copy` is `Move` of a piece, `CopyFaults` is `Fail`,
`Leave` is `Return`; a call for nothing and the warmer's loop are stutters.

**`CardAndDriver`.** The invariant is `MailInv` of the one part, `DriverInv` of the
other, and `Coupling`: while a script runs or the firmware has a test number the
device stays bound, and addresses on their way to the firmware are of this
binding. The lemmas about the steps of the parts are those of `RunTestProofs`
and `NpbDriverProofs`, instantiated.

Only model-checked:

- liveness (`TestTerminates`, `WorkersPark`, `LatTestEnds`, `RunTestEnds`,
  `UnloadEnds`, `WarmingEnds`, `QuietComes`, `SuiteEnds`), which is out of the
  prover's reach;
- `WithinBuffers` and `TablesKept` of `Suite`, which has no parameter to generalise
  over: its numbers are the program's own, and its run covers every mode, both
  cards and both ways of warming. (Under Python 3 the script gets no further
  than the first test.)

## 6. Where code and text disagree

Each of these has a run that TLC refutes; `PROJECT.json` quotes the lines.

- `bw_all`: the master is told that the test is over when index 1 has completed,
  not when "all DMAs have been completed". The measured time can be short by the
  DMAs still in flight, at most one per worker.
- `driver_alloc`: `page_address()` is applied before the test for NULL, so a
  failed allocation is not reported.
- `suite_py3`: under Python 3 every test raises an exception before its parameters
  are written: `_set_dma_addrs` divides the size of the buffers
  (`python/pciebench/nfpbench.py:276`), which gives a float, and formats it with
  `%x`, which refuses one. Behind that line windows of 1.5 MB, which are floats,
  would be refused likewise, and packed bytes appended to a string when the cache
  is warmed without the helper. The README names Python 3 as supported.

Observed while modelling; no property is about them:

- A worker that finds the counter at 0 issues a DMA before it stops
  (`me/pcie_dma.c:370`): up to one DMA per worker more than is accounted for.
- `__ME()` keeps three bits (`me/libnfp.c:27`), so ME 11 is never recognised as
  the last and signals the ME after it. The properties of `DmaBw` hold with it.
- The loops of the latency tests use index 0 twice, so the last line of the
  largest window is hit once, where `me/pciebench.h:302-304` says "at least
  twice". `WindowSwept` is what holds.
- The helper ignores a failing write of `test_ctrl`
  (`user/nfp-pciebench-helper.c:178`) and reports success although no test ran.
- An unknown test number is never answered (`me/pciebench_main.c:106`); the
  helper does not check its argument and would poll for ever.
- The firmware's check adds size and offset in 32 bits. A sum that wraps passes
  it; `dma_addr_init` may then look for ever for a unit that fits, or index
  beyond the chunks. The scripts never ask for that (`WithinBuffers`).
- A transaction of size 0 passes both sides' checks; a DMA, which is told its
  length less one, would then move 4096 bytes. The scripts never ask for it.
- A user who waits only for the scripts, and not for `test_ctrl`, frees the
  buffers under an interrupted test; `kernel/nfp_pciebench_main.c:43-45` leaves
  that to the user.

## 7. What is not modelled, and assumptions

- `HReloadFails` in `DmaBw` assumes that workers which finish late have parked
  by the time a second test arrives on firmware that was not reloaded: a few
  microseconds against several commands. It is a timing assumption and not a
  guard of the code. The runs with reloads do not use it.
- `LatTest` takes the caller to ask for windows within the buffers and for sizes
  and offsets whose sum does not wrap (stated in `Init`). `Suite` shows that the
  series do; nothing checks a debug run with a window of the user's own.
- Where unloading may fail unnoticed, nothing else than loading may fail besides
  (`UnloadAlone` in `RunTest`). Without a reload nothing resets `test_ctrl` and
  the mailbox: a test its script gave up, or a write that is lost, is then found
  by the next `run_test` as its own.
- A transaction of no bytes is taken to be at offset 0 (`Init` of `LatTest`).
  At an offset it could begin where the last chunk ends, and `dma_addr_init`
  would read `chunk_dma_addrs` past its end.
- `CardAndDriver` excludes lost writes (stated as an assumption): the firmware
  would then work with addresses that were never written, that is, address 0.
- Debug runs with parameters of the user's choice (`run_dbg_lat`, `run_dbg_bw`)
  are not enumerated in `Suite`; option parsing is left out.
- DMA addresses above the 40 bits of a descriptor: the kernel module asks for a
  64-bit mask (`kernel/nfp_pciebench_main.c:395`), the models take addresses to
  fit.
- The data written by thrashing and warming on the card's side; instruction
  encodings; CSRs; unaligned 64-bit stores.
- In `DmaBw` the host reloads only after its poll has ended; a script that is
  interrupted while a test runs, and the reload by the next one, are in
  `RunTest`.
- Start-up code of the NFP-3200: runs before any context does.
- Rows and layout of tables, system information, debug output: pure I/O.

## 8. Plan

Done, in this order: `DmaBw`, `BwPool` and its refinement, `DmaBwInv`,
`DmaBwProofs` (the core of the system came first), `LatTest`, `RunTest`,
`NpbDriver`; then `BufOp` against `FlatBuffer`, `CardAndDriver`, `Suite`,
`Samples`, and `Nfcc` under `LatTest`; then the proofs of section 5, the last of
them `WindowSwept`, the statistics, and everything about `SpecReuse`.

What is left:

1. Liveness is checked with reloads only (`FairSpec`). Without them `TestTerminates`
   should hold as well; when the host's next call comes is a matter of timing
   (section 7), which a model of the host's and the workers' speeds could replace.
2. Action properties of the other parts in the manner of `AnswerStays`, such as
   that the helper's result stays until `run_test` has read the journal.
3. Debug runs with parameters of the user's choice, against the firmware's check
   (section 7).
