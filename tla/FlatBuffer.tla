----------------------------- MODULE FlatBuffer -----------------------------
(***************************************************************************)
(* What the procfs entry of the host buffer promises: a file of Size bytes *)
(* that is read and written at a position of one's own.  A call moves the  *)
(* bytes of its range in ascending order, and those of other calls may be  *)
(* moved in between; it ends by returning how many there were and leaving  *)
(* the position after them, or by failing and leaving the position alone.  *)
(***************************************************************************)
EXTENDS Integers, Sequences

CONSTANTS Procs,          \* processes, each with the file open once
          Size,           \* bytes in the file
          Zero,           \* a byte nobody supplied
          Cold,           \* what a byte is before anybody wrote it
          Data(_, _),     \* Data(u, k): byte k of what u writes
          Positions       \* where one can seek to

VARIABLES flat,           \* the bytes
          at,             \* at[u]: the position of u's file
          call            \* call[u]: what u is doing

NoCall == [write |-> FALSE, count |-> 0, pos |-> 0, got |-> <<>>]

Init == /\ flat = [x \in 0 .. Size-1 |-> Cold]
        /\ at = [u \in Procs |-> 0]
        /\ call = [u \in Procs |-> NoCall]

Seek(u) == /\ call[u] = NoCall
           /\ \E x \in Positions : at' = [at EXCEPT ![u] = x]
           /\ UNCHANGED <<flat, call>>

\* A call for bytes there are; one that asks for none, or starts at the end,
\* has no effect at all.
Begin(u) == /\ call[u] = NoCall
            /\ \E n \in 1 .. Size - at[u], w \in BOOLEAN :
                   call' = [call EXCEPT ![u] = [NoCall EXCEPT !.write = w, !.count = n]]
            /\ UNCHANGED <<flat, at>>

\* The next m bytes of u's range, and those up to n that a fault left zero.
Moved(u, m, n) ==
    [x \in 0 .. Size-1 |->
        LET k == x - at[u]
        IN  IF k \in call[u].pos .. call[u].pos + m - 1 THEN Data(u, k)
            ELSE IF k \in call[u].pos .. call[u].pos + n - 1 THEN Zero ELSE flat[x]]

Move(u) ==
    \E m \in 1 .. call[u].count - call[u].pos :
        /\ call' = [call EXCEPT ![u].pos = @ + m,
                                ![u].got = IF call[u].write THEN @ ELSE
                      @ \o [k \in 1 .. m |-> flat[at[u] + call[u].pos + k - 1]]]
        /\ flat' = IF call[u].write THEN Moved(u, m, m) ELSE flat
        /\ UNCHANGED at

Return(u) == /\ call[u] # NoCall /\ call[u].pos = call[u].count
             /\ at' = [at EXCEPT ![u] = @ + call[u].count]
             /\ call' = [call EXCEPT ![u] = NoCall]
             /\ UNCHANGED flat

Fail(u) ==
    /\ call[u] # NoCall
    /\ \E n \in 0 .. call[u].count - call[u].pos : \E m \in 0 .. n :
           flat' = IF call[u].write THEN Moved(u, m, n) ELSE flat
    /\ call' = [call EXCEPT ![u] = NoCall]
    /\ UNCHANGED at

Next == \E u \in Procs : Seek(u) \/ Begin(u) \/ Move(u) \/ Return(u) \/ Fail(u)

Spec == Init /\ [][Next]_<<flat, at, call>>
=============================================================================
