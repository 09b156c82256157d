-------------------------------- MODULE BufOp --------------------------------
(***************************************************************************)
(* Reading and writing the host buffers through procfs: npb_buf_op of the  *)
(* kernel module (kernel/nfp_pciebench_main.c), used by any process and,   *)
(* to warm the host's cache before a test, by the helper program           *)
(* (user/nfp-pciebench-helper.c) or the script (python/pciebench/          *)
(* nfpbench.py).  The buffers are separate chunks; the kernel copies one   *)
(* piece of one chunk after the other and takes no lock, so the pieces of  *)
(* several calls interleave.  A bad address of the caller's makes a copy   *)
(* stop in the middle of a piece.                                          *)
(***************************************************************************)
EXTENDS Integers, Sequences

CONSTANTS Users,      \* processes that use the file as they like
          Warmer,     \* the one that warms the cache
          ChunkSz,    \* NFP_PCIEBENCH_CHUNK_SZ
          NumChunks,  \* NFP_PCIEBENCH_CHUNKS
          PageSz,     \* 4096
          Passes,     \* 4
          Wins,       \* windows the host may ask to warm
          Counts,     \* sizes users ask for
          Seeks,      \* positions users seek to
          MaxCalls    \* bound: calls of a user

Procs  == Users \cup {Warmer}
MaxMem == NumChunks * ChunkSz

ASSUME BufOpAssumption ==
    /\ ChunkSz \in Nat \ {0} /\ NumChunks \in Nat \ {0} /\ PageSz \in Nat \ {0}
    /\ Warmer \notin Users /\ Passes \in Nat \ {0} /\ MaxCalls \in Nat
    /\ "init" \notin Procs
    /\ Wins \subseteq Nat \ {0} /\ Counts \subseteq Nat /\ Seeks \subseteq Nat

\* A byte is known by who wrote it, and from where in his memory.
Byte(by, k) == [by |-> by, k |-> k]
Zero == Byte("zero", 0)     \* what a copy that faults leaves behind
Cold == Byte("init", 0)     \* the pattern of npb_init, in no cache
Data(u, k) == Byte(u, k)
Bytes == {Zero, Cold} \cup {Data(u, k) : u \in Procs, k \in 0 .. MaxMem-1}

VARIABLES mem,        \* mem[c][o]: the chunks
          offp,       \* offp[u]: the position of u's open file
          call,       \* call[u]: its arguments and locals while npb_buf_op runs
          calls,      \* calls[u]: how many calls it made
          win,        \* the window to be warmed
          wpc, pass, page   \* warm_cache: "seek", "write" or "done", and its loops

warmVars == <<win, wpc, pass, page>>
vars == <<mem, offp, call, calls, warmVars>>

Offsets == 0 .. ChunkSz-1
NoCall  == [write |-> FALSE, count |-> 0, pos |-> 0, got |-> <<>>]
InCall(u) == call[u] # NoCall

TypeOK ==
    /\ mem \in [0 .. NumChunks-1 -> [Offsets -> Bytes]]
    /\ offp \in [Procs -> 0 .. MaxMem \cup Seeks]
    /\ \A u \in Procs : /\ call[u].pos \in 0 .. call[u].count
                        /\ InCall(u) => offp[u] + call[u].count <= MaxMem
                        /\ Len(call[u].got) = IF call[u].write THEN 0 ELSE call[u].pos
    /\ calls \in [Users -> 0 .. MaxCalls] /\ win \in Wins
    /\ wpc \in {"seek", "write", "done"} /\ pass \in 0 .. Passes /\ page \in Nat

Init ==
    /\ mem = [c \in 0 .. NumChunks-1 |-> [o \in Offsets |-> Cold]]
    /\ offp = [u \in Procs |-> 0] /\ call = [u \in Procs |-> NoCall]
    /\ calls = [u \in Users |-> 0]
    /\ win \in Wins /\ wpc = "seek" /\ pass = 0 /\ page = 0

-----------------------------------------------------------------------------
(* npb_buf_op.                                                             *)

\* How many bytes there are to move: none at or after the end.
Clipped(off, n) == IF off >= MaxMem THEN 0
                   ELSE IF off + n > MaxMem THEN MaxMem - off ELSE n

\* Without bytes to move the call returns 0 at once.
Enter(u, w, n) ==
    /\ ~InCall(u)
    /\ call' = [call EXCEPT ![u] =
                  IF Clipped(offp[u], n) = 0 THEN NoCall
                  ELSE [write |-> w, count |-> Clipped(offp[u], n), pos |-> 0, got |-> <<>>]]
    /\ UNCHANGED <<mem, offp>>

\* The piece to copy next: up to the end of the range or of the chunk.
ChunkIdx(u) == (offp[u] + call[u].pos) \div ChunkSz
ChunkOffAtStart(u) == offp[u] % ChunkSz                             \* mutant
ChunkOff(u) == (offp[u] + call[u].pos) % ChunkSz
PieceLen(u) ==
    LET rest == call[u].count - call[u].pos
    IN  IF ChunkOff(u) + rest > ChunkSz THEN ChunkSz - ChunkOff(u) ELSE rest

\* m bytes of the piece are copied into the chunk, and zeroes up to byte n.
Written(u, m, n) ==
    [mem EXCEPT ![ChunkIdx(u)] =
        [o \in Offsets |-> LET k == o - ChunkOff(u)
                           IN  IF k \in 0 .. m-1 THEN Data(u, call[u].pos + k)
                               ELSE IF k \in 0 .. n-1 THEN Zero ELSE @[o]]]

Copy(u) ==
    /\ InCall(u) /\ call[u].pos < call[u].count
    /\ LET m == PieceLen(u)
           copied == [k \in 1 .. m |-> mem[ChunkIdx(u)][ChunkOff(u) + k - 1]]
       IN  /\ call' = [call EXCEPT ![u].pos = @ + m,
                                   ![u].got = IF call[u].write THEN @ ELSE @ \o copied]
           /\ mem' = IF call[u].write THEN Written(u, m, m) ELSE mem
    /\ UNCHANGED <<offp, calls, warmVars>>

\* The caller's memory is bad: -EFAULT. What is missing of the piece may have
\* been filled with zeroes. The position stays.
CopyFaults(u) ==
    /\ InCall(u) /\ call[u].pos < call[u].count
    /\ \E m \in 0 .. PieceLen(u)-1 : \E n \in {m, PieceLen(u)} :
           mem' = IF call[u].write THEN Written(u, m, n) ELSE mem
    /\ call' = [call EXCEPT ![u] = NoCall]
    /\ UNCHANGED <<offp, calls, warmVars>>

LeaveTwice(u) ==                                                    \* mutant
    /\ InCall(u) /\ call[u].pos = call[u].count
    /\ offp' = [offp EXCEPT ![u] = @ + call[u].pos + call[u].count]
    /\ call' = [call EXCEPT ![u] = NoCall]
    /\ UNCHANGED <<mem, calls, warmVars>>
Leave(u) ==
    /\ InCall(u) /\ call[u].pos = call[u].count
    /\ offp' = [offp EXCEPT ![u] = @ + call[u].pos]
    /\ call' = [call EXCEPT ![u] = NoCall]
    /\ UNCHANGED <<mem, calls, warmVars>>

-----------------------------------------------------------------------------
(* Users: any sequence of seeks, reads and writes, a call at a time.       *)

UserSeek(u) ==
    /\ ~InCall(u)
    /\ \E x \in Seeks : offp' = [offp EXCEPT ![u] = x]
    /\ UNCHANGED <<mem, call, calls, warmVars>>

UserCall(u) ==
    /\ calls[u] < MaxCalls
    /\ \E w \in BOOLEAN, n \in Counts : Enter(u, w, n)
    /\ calls' = [calls EXCEPT ![u] = @ + 1]
    /\ UNCHANGED warmVars

-----------------------------------------------------------------------------
(* warm_cache of the helper: the window's pages from the start, several    *)
(* times; what write() returns is not looked at.  _warm_host of the script *)
(* writes the same pages for a window within the buffers; beyond them, its *)
(* buffered file would try again or raise.                                 *)

WholePages == win \div PageSz                                       \* mutant
NumPages   == ((win - 1) \div PageSz) + 1

WarmSeek ==
    /\ wpc = "seek"
    /\ wpc' = "write" /\ page' = 0
    /\ offp' = [offp EXCEPT ![Warmer] = 0]
    /\ UNCHANGED <<mem, call, calls, win, pass>>

WarmPageRetried ==                                                  \* mutant
    /\ wpc = "write" /\ page < NumPages
    /\ Enter(Warmer, TRUE, PageSz)
    /\ page' = IF Clipped(offp[Warmer], PageSz) < PageSz THEN page ELSE page + 1
    /\ UNCHANGED <<calls, win, wpc, pass>>
WarmPage ==
    /\ wpc = "write" /\ page < NumPages
    /\ Enter(Warmer, TRUE, PageSz)
    /\ page' = page + 1
    /\ UNCHANGED <<calls, win, wpc, pass>>

WarmPass ==
    /\ wpc = "write" /\ ~InCall(Warmer) /\ page = NumPages
    /\ pass' = pass + 1
    /\ wpc' = IF pass + 1 < Passes THEN "seek" ELSE "done"
    /\ UNCHANGED <<mem, offp, call, calls, win, page>>

-----------------------------------------------------------------------------
Warm == WarmSeek \/ WarmPage \/ WarmPass

Next == \/ \E u \in Users : UserSeek(u) \/ UserCall(u) \/ CopyFaults(u)
        \/ \E u \in Procs : Copy(u) \/ Leave(u)
        \/ Warm

\* A call that was made runs on, and so does the warming.
Spec     == Init /\ [][Next]_vars
FairSpec == Spec /\ WF_vars(Warm) /\ \A u \in Procs : WF_vars(Copy(u) \/ Leave(u))

-----------------------------------------------------------------------------
(* What is checked.                                                        *)

\* The chunks read and write as one file: every byte goes to and comes from
\* its place in the concatenation, whatever chunk borders a call crosses and
\* whatever other calls do in between; a call that returns has moved all its
\* bytes and left the position behind them, one that fails has touched nothing
\* beyond its range and left the position where it was, so that it can be
\* repeated (npb_buf_op, 213-255).
Flat == INSTANCE FlatBuffer WITH
            Size <- MaxMem, at <- offp, Positions <- Seeks \cup {0},
            flat <- [x \in 0 .. MaxMem-1 |-> mem[x \div ChunkSz][x % ChunkSz]]
ImplementsFlat == Flat!Spec

\* What the firmware finds at linear address lin of the window.
FirmwareSees(lin) == mem[lin \div ChunkSz][lin % ChunkSz]

\* When warming is over, the host has written every byte that a test with this
\* window can access, in whatever chunk the firmware looks for it, and however
\* others' calls came in between (nfp-pciebench-helper.c, 76-111;
\* nfpbench.py, 238-254; utils.c, 71-80).
WindowIsWarm ==
    wpc = "done" =>
        \A lin \in 0 .. MaxMem-1 : lin < win => FirmwareSees(lin) # Cold

\* The helper's warming ends, also of a window larger than the buffers, where
\* write() returns 0 (nfp-pciebench-helper.c, 104-108); and so does every call that
\* it makes, since every piece has a byte at least (npb_buf_op, 229-249).
WarmingEnds == <>(wpc = "done")
=============================================================================
