------------------------------- MODULE BwPool -------------------------------
(***************************************************************************)
(* What a bandwidth test of the firmware promises, without its mechanism:  *)
(* a pool of numbered transactions is handed out from the highest number   *)
(* to the lowest, each exactly once; the result is reported only after the *)
(* transaction numbered 1 has completed.  It does NOT promise that the     *)
(* other transactions have completed by then (see DmaBw!MasterWaitsForAll).*)
(***************************************************************************)
EXTENDS Integers

CONSTANTS Takers,      \* who performs the transactions
          Limits       \* how many transactions a test may have: positive

VARIABLES phase,       \* "idle", "armed" or "reported"
          todo,        \* numbers nobody has taken
          held,        \* held[w]: the number w is working on, 0 if none
          finished     \* numbers whose transaction has completed

vars == <<phase, todo, held, finished>>

PoolTypeOK ==
    /\ phase \in {"idle", "armed", "reported"}
    /\ todo \subseteq Nat \ {0}
    /\ held \in [Takers -> Nat]
    /\ finished \subseteq Nat \ {0}

Empty == /\ phase = "idle" /\ todo = {} /\ finished = {}
         /\ held = [w \in Takers |-> 0]

Init == Empty

\* A test is set up with n transactions.
Arm(n) ==
    /\ phase = "idle"
    /\ phase' = "armed"
    /\ todo' = 1 .. n
    /\ UNCHANGED <<held, finished>>

\* The highest number left goes to one taker.
Take(w) ==
    /\ phase # "idle" /\ held[w] = 0
    /\ \E n \in todo :
          /\ \A k \in todo : k <= n
          /\ held' = [held EXCEPT ![w] = n]
          /\ todo' = todo \ {n}
    /\ UNCHANGED <<phase, finished>>

Finish(w) ==
    /\ held[w] # 0
    /\ held' = [held EXCEPT ![w] = 0]
    /\ finished' = finished \cup {held[w]}
    /\ UNCHANGED <<phase, todo>>

\* Numbers are taken downwards, so a completed 1 means none is left to take.
Report ==
    /\ phase = "armed" /\ 1 \in finished
    /\ phase' = "reported"
    /\ UNCHANGED <<todo, held, finished>>

\* The firmware is reloaded, which drops whatever is still being worked on, or picks
\* up the next test when nothing is.
Reset ==
    /\ phase = "reported"
    /\ phase' = "idle" /\ todo' = {} /\ finished' = {}
    /\ held' = [w \in Takers |-> 0]

Next == \/ \E n \in Limits : Arm(n)
        \/ \E w \in Takers : Take(w) \/ Finish(w)
        \/ Report
        \/ Reset

Spec == Init /\ [][Next]_vars
=============================================================================
