----------------------------- MODULE Admission -----------------------------
(***************************************************************************)
(* What the caps promise, without counters in Redis: a message is let pass *)
(* in one step, which takes a place in every window it falls into, and     *)
(* only while each of them has a place left.                               *)
(***************************************************************************)
EXTENDS Naturals

CONSTANTS
    Windows,  \* one per kind of cap, owner, category and time
    Limit,    \* the places of each
    Demands   \* the sets of windows that a message can fall into

VARIABLE admitted  \* places taken

Init == admitted = [k \in Windows |-> 0]
Admit(d) ==
    /\ \A k \in d : admitted[k] < Limit[k]
    /\ admitted' = [k \in Windows |-> IF k \in d THEN admitted[k] + 1 ELSE admitted[k]]
Next == admitted' # admitted /\ \E d \in Demands : Admit(d)
Spec == Init /\ [][Next]_admitted
=============================================================================
