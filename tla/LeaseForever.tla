---------------------------- MODULE LeaseForever ----------------------------
(***************************************************************************)
(* The lease with no bound on time.  Instants only ever matter by their    *)
(* distance from now, and no timer is longer than MaxTime, so the clock    *)
(* can stand at MaxTime while every recorded instant moves back: one that  *)
(* reaches 0 is older than every timer, and stays so.  Lease ids matter    *)
(* only as the current one or not, so ageing renumbers them too.  What is  *)
(* left is finite, and behaviours go on for ever: here the lease's promises *)
(* about what eventually happens can be checked.                           *)
(***************************************************************************)
EXTENDS Lease

ASSUME HorizonAssumption ==
    \A timer \in {LeaseTtl, IdleRevoke, PersonIdle, ContendedIdle, QueueTtl,
                  DisconnectGrace, MinHold, PreemptGrace, ForceBackoff} :
        timer <= MaxTime

Back(t) == IF t \in {None, 0} THEN t ELSE t - 1

Older(l) ==
    [l EXCEPT
       !.holder = IF @.party = None THEN @
                  ELSE [@ EXCEPT !.id = 1,
                                 !.granted = Back(@), !.intent = Back(@),
                                 !.renew = Back(@), !.grace = Back(@)],
       !.pending.deadline = Back(@),
       !.queue = [i \in DOMAIN @ |-> [@[i] EXCEPT !.queued = Back(@)]],
       !.nextId = IF l.holder.party = None THEN 1 ELSE 2,
       !.forceUntil = Back(@),
       !.contendedSince = Back(@)]

Age ==
    /\ lease' = Older(lease)
    /\ UNCHANGED <<now, owed, pressed>>

ForeverInit ==
    /\ lease = NewLease
    /\ now = MaxTime
    /\ owed = FALSE
    /\ pressed = {}

ForeverNext == Age \/ Next

\* The viewer ticks every lease twice a second for as long as it runs, time
\* passes, and a caller that owes a release sends it.
ForeverFairness ==
    /\ WF_vars(Age)
    /\ WF_vars(Clock)
    /\ WF_vars(Honour)

ForeverSpec == ForeverInit /\ [][ForeverNext]_vars /\ ForeverFairness

----------------------------------------------------------------------------

\* From some point on nobody sends input or asks, and no transport comes or
\* goes: holders may still say that they are alive, and time passes.
Quiet ==
    \/ Age
    \/ Clock
    \/ Honour
    \/ \E p \in Party : KeepAlive(p)

\* A forgotten lease frees itself: once nobody uses it, a holder that goes on
\* renewing for ever loses it all the same, and so does everyone in line.
ForgottenLeaseFrees ==
    <>[][Quiet]_vars => <>[](lease.phase = "Unheld")

\* From some point on nobody sends input, and every party in line asks again
\* before the clock moves, as a waiter is expected to.
Patient ==
    \/ Age /\ \A i \in DOMAIN lease.queue : lease.queue[i].queued = now
    \/ Clock
    \/ Honour
    \/ \E p \in Party : Ask(p, TRUE)

\* A waiter that keeps asking behind holders that do nothing gets its turn,
\* again and again if it is in line again and again: no order of asking,
\* preempting and expiring passes it over for ever.
WaitersGetTurns ==
    <>[][Patient]_vars =>
        \A p \in Party :
            []<>(p \in Waiting(lease)) => []<>(lease.holder.party = p)
=============================================================================
