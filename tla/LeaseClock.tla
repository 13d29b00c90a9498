----------------------------- MODULE LeaseClock -----------------------------
(***************************************************************************)
(* The clock that the calls on leases carry: the lease alone (Lease), the  *)
(* board over several of them (Board) and the viewer's requests (Viewer)   *)
(* read the same one, and are bounded in the same way for model checking.  *)
(***************************************************************************)
EXTENDS LeaseOps

CONSTANTS
    MaxTime,    \* bound: the last instant the clock reaches
    MaxId       \* bound: the largest next_lease_id of a lease

ASSUME BoundAssumption == MaxTime \in Nat /\ MaxId \in Nat \ {0}

VARIABLE now    \* the instant the next call will carry

Ticking == now < MaxTime /\ now' = now + 1
=============================================================================
