-------------------------------- MODULE Lock --------------------------------
(***************************************************************************)
(* What a control lease promises the limb it arbitrates, and nothing about *)
(* how: a lock with at most one driver, which is never passed from hand to *)
(* hand.  It is put down first, and taken up only by a party that finds    *)
(* nothing of anybody else's down on the limb.  Only the driver puts input *)
(* down; anybody's may be lifted at any time.                              *)
(*                                                                         *)
(* Lease implements it with its phases, timers, queue and preemptions.     *)
(***************************************************************************)
CONSTANTS
    Party,      \* who may drive
    None        \* the driver of a limb nobody drives

VARIABLES
    driver,     \* who drives, or None
    down        \* whose input is down on the limb

vars == <<driver, down>>

Init ==
    /\ driver = None
    /\ down = {}

\* What others left down is lifted before, or in the step that, hands over.
Take(p) ==
    /\ driver = None
    /\ driver' = p
    /\ down' \subseteq down \cap {p}

Lose ==
    /\ driver' = None
    /\ UNCHANGED down

Press ==
    /\ driver # None
    /\ down' = down \cup {driver}
    /\ UNCHANGED driver

Lift ==
    /\ down' \subseteq down
    /\ UNCHANGED driver

Next ==
    \/ \E p \in Party : Take(p)
    \/ Lose
    \/ Press
    \/ Lift

Spec == Init /\ [][Next]_vars
=============================================================================
