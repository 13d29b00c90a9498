------------------------------- MODULE Lease -------------------------------
(***************************************************************************)
(* One control lease and the limb it arbitrates, driven by any number of   *)
(* parties in any order.  The lease itself is LeaseOps; this module adds   *)
(* the clock, the caller's half of the contract and the input that is down *)
(* on the limb.                                                            *)
(*                                                                         *)
(* The caller's half is what lease.rs asks of it: an obligation returned   *)
(* by a call is honoured some time later by releasing everything that is   *)
(* held down on the limb and then reporting it with confirm_release.       *)
(* Between the two any other call may arrive.                              *)
(***************************************************************************)
EXTENDS LeaseClock

VARIABLES
    lease,      \* the Lease
    owed,       \* a release obligation is out and not yet honoured
    pressed     \* whose keys and buttons are down on the limb

vars == <<lease, now, owed, pressed>>

Init ==
    /\ lease = NewLease
    /\ now = 0
    /\ owed = FALSE
    /\ pressed = {}

----------------------------------------------------------------------------

Advance ==
    /\ Ticking
    /\ UNCHANGED <<lease, owed, pressed>>

\* The caller takes the answer of one call: the lease as it is left, and the
\* obligation, which stays due until it is honoured.
Take(answer) ==
    /\ answer.lease.nextId <= MaxId
    /\ lease' = answer.lease
    /\ owed' = (owed \/ answer.release)
    /\ UNCHANGED <<now, pressed>>

Ask(p, queue)   == Take(Acquire(lease, p, queue, now))
LetGo(p, id)    == Take(Release(lease, p, id, now))
PutFirst(p)     == Take(Done(Promote(lease, p), "Unchanged", FALSE))
Withdraw(p)     == Take(CancelWait(lease, p))
Panic           == Take(ForceRelease(lease, now))
Transport(p, c) == Take(SetConnected(lease, p, c, now))
KeepAlive(p)    == Take(Done(Renew(lease, p, now), "Unchanged", FALSE))
Clock           == Take(Tick(lease, now))

\* A party sends input.  Fencing::Allowed lets a press through and counts as
\* use; Fencing::ReleaseOnly lets only a release of its own input through.
Press(p) ==
    /\ MayDispatch(lease, p)
    /\ pressed' = pressed \cup {p}
    /\ lease' = NoteIntent(lease, p, now)
    /\ UNCHANGED <<now, owed>>

LiftOwn(p) ==
    /\ pressed' = pressed \ {p}
    /\ UNCHANGED <<lease, now, owed>>

\* The caller honours the obligation: the limb is swept, and a handover that
\* waited for it completes.
Honour ==
    /\ owed
    /\ owed' = FALSE
    /\ pressed' = {}
    /\ lease' = ConfirmRelease(lease, now).lease
    /\ UNCHANGED now

Next ==
    \/ Advance
    \/ \E p \in Party, queue \in BOOLEAN : Ask(p, queue)
    \/ \E p \in Party, id \in 1..MaxId : LetGo(p, id)
    \/ \E p \in Party : PutFirst(p)
    \/ \E p \in Party : Withdraw(p)
    \/ Panic
    \/ \E p \in Party, c \in BOOLEAN : Transport(p, c)
    \/ \E p \in Party : KeepAlive(p)
    \/ Clock
    \/ \E p \in Party : Press(p)
    \/ \E p \in Party : LiftOwn(p)
    \/ Honour

Spec == Init /\ [][Next]_vars

----------------------------------------------------------------------------
(* Properties. *)

TypeOK ==
    /\ lease \in LeaseRecord
    /\ now \in Nat
    /\ owed \in BOOLEAN
    /\ pressed \subseteq Party

\* R11: whoever may dispatch finds nothing held down by anybody else, however
\* the wheel reached it.
NoInheritedInput ==
    lease.phase = "Held" => pressed \subseteq {lease.holder.party}

\* A handover never stalls: while the new holder waits for the sweep, the
\* obligation that will complete its grant is still out.
HandoverIsOwed == lease.phase = "HandingOver" => owed

\* Whatever the parties do and in whatever order, the states lease.rs calls
\* unreachable are: every phase but Unheld has a holder, nobody waits on an
\* unheld lease, and a preemption runs exactly while the phase says so.
PhaseAgrees == PhaseSound(lease)

\* A party has one seat: asking again and again, with preemptions, promotions
\* and expiries in between, never gives it a second place.
OneSeatEach == SeatsSound(lease)

\* A preemption is only ever upward, and it respects the floor under a grant
\* unless a person takes the wheel from an agent.
PreemptionIsEarned == PreemptSound(lease)

\* The panic chord holds: until its backoff is over no call, by anybody, puts
\* a party on the wheel or forgets the backoff; only a second panic moves it.
PanicHolds ==
    [][lease.forceUntil # None /\ now < lease.forceUntil =>
         /\ lease'.phase = "Unheld"
         /\ lease'.forceUntil \in {lease.forceUntil, now + ForceBackoff}]_vars

\* The clock of contended_idle_ms runs exactly while somebody is in line, and
\* the line never outgrows its cap.
ContentionAgrees == ContentionSound(lease)

\* A disconnected holder always has a deadline to come back by, also when it
\* dropped during a preemption that was then called off.
GraceHasDeadline == GraceSound(lease)

\* The floor under a grant: the clock and the requests of others take the
\* wheel from a connected holder no sooner than MinHold after it was granted,
\* except for a person who takes it from an agent.
FloorHolds ==
    [][/\ Clock \/ \E p \in Party, queue \in BOOLEAN : Ask(p, queue)
       /\ lease.holder.party # None
       /\ lease.holder.connected
       /\ lease'.holder.id # lease.holder.id
       => \/ now >= lease.holder.granted + MinHold
          \/ FloorLifted(lease'.holder.party, lease.holder.party)]_vars

\* The forecast of status is never too late: if nobody acts, the clock leaves
\* the wheel where it is at every instant before changes_in_ms runs out, and
\* for good when there is none.
NoneSoonerThanForecast ==
    LET at == ChangesAt(lease)
    IN  \A t \in now..(now + LeaseTtl) :
            at = None \/ t < at =>
                Tick(lease, t).lease.holder.id = lease.holder.id

\* The lease implements the lock: with the driver the party the fence lets
\* through, the wheel never passes from hand to hand, and is taken up only
\* with everybody else's input lifted, by a grant, a reconnection or a
\* preemption called off alike.
Driver == IF lease.phase = "Held" THEN lease.holder.party ELSE None

Wheel == INSTANCE Lock WITH driver <- Driver, down <- pressed

ImplementsLock == Wheel!Spec
=============================================================================
