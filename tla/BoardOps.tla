------------------------------ MODULE BoardOps ------------------------------
(***************************************************************************)
(* What one call on the board does to the lease of its session: board.rs   *)
(* of crates/agent-lease.  A board call is a chain of lease calls on the   *)
(* same instant.  What it collects on the way (Answer::transitions) is     *)
(* kept as the three facts its caller reads off it.                        *)
(***************************************************************************)
EXTENDS LeaseOps

CONSTANTS
    Person,     \* the party id of the person at the window
    NotNow      \* NOT_NOW_MS

Agents == Party \ {Person}

\* One person and agents of one rank below them, as control.rs makes its
\* parties, under a policy that forgets a silent person no sooner than an
\* idle one, as LeasePolicy::default does.
ASSUME PersonAssumption ==
    /\ Person \in Party
    /\ IsPerson(Person)
    /\ \A p \in Agents : ~IsPerson(p) /\ Priority[p] < Priority[Person]
    /\ \A p, q \in Agents : Priority[p] = Priority[q]
    /\ PersonIdle <= LeaseTtl
    /\ NotNow \in Nat \ {0}
    /\ None \notin Refusal \cup {"Muted", "NotNow"}

\* An Answer under construction: the lease so far; did a transition move
\* anything; did one start a preemption; did an agent leave in one.
Begin(l) ==
    [lease |-> l, changed |-> FALSE, fenced |-> FALSE, left |-> FALSE,
     refusal |-> None]

Departed(before, after) ==
    IF before.holder.id # after.holder.id THEN before.holder.party ELSE None

\* Push one transition.
Then(c, t) ==
    [c EXCEPT
       !.lease = t.lease,
       !.changed = \/ @
                   \/ t.lease.phase # c.lease.phase
                   \/ t.outcome # "Unchanged"
                   \/ Len(t.lease.queue) < Len(c.lease.queue),
       !.fenced = @ \/ t.outcome = "PreemptionStarted",
       !.left = @ \/ Departed(c.lease, t.lease) \in Agents]

\* An error is not a transition: the lease is left as the call left it.
Try(c, t) ==
    IF t.outcome \in Refusal
    THEN [c EXCEPT !.lease = t.lease, !.refusal = t.outcome]
    ELSE Then(c, t)

ConfirmInto(c, now) ==
    IF c.lease.phase = "HandingOver"
    THEN Then(c, ConfirmRelease(c.lease, now))
    ELSE c

TickInto(c, now) == ConfirmInto(Then(c, Tick(c.lease, now)), now)

Ticked(l, now) == TickInto(Begin(l), now)

AcquireInto(c, p, queue, now) ==
    LET t == Acquire(c.lease, p, queue, now)
    IN  IF t.outcome \in Refusal THEN Try(c, t)
        ELSE ConfirmInto(Then(c, t), now)

\* lease.release with the id the lease itself gives for this party.
LetGoInto(c, p, now) ==
    IF c.lease.holder.party = p
    THEN Then(c, Release(c.lease, p, c.lease.holder.id, now))
    ELSE c

CancelInto(c, p) == Then(c, CancelWait(c.lease, p))

----------------------------------------------------------------------------

\* Board::ask.  The gate is the person's standing answer to this agent, which
\* counts only while a person holds or is taking the session.
AskCall(l, p, gate, now) ==
    LET c == Ticked(l, now)
    IN  IF ~IsPerson(p) /\ PersonHolds(c.lease) /\ gate # None
        THEN [CancelInto(c, p) EXCEPT !.refusal = gate]
        ELSE AcquireInto(c, p, TRUE, now)

\* Mutant of ReleaseCall: the grant to the next in line is not confirmed.
ReleaseUnconfirmed(l, p, now) ==
    CancelInto(LetGoInto(Ticked(l, now), p, now), p)

ReleaseCall(l, p, now) ==
    ConfirmInto(CancelInto(LetGoInto(Ticked(l, now), p, now), p), now)

InputCall(l, p, now) ==
    LET c == Ticked(l, now)
        d == IF c.lease.phase = "Unheld" THEN AcquireInto(c, p, FALSE, now)
             ELSE c
    IN  CASE d.refusal # None -> d
          [] d.refusal = None /\ MayDispatch(d.lease, p) ->
                 [d EXCEPT !.lease = NoteIntent(d.lease, p, now)]
          [] OTHER -> [d EXCEPT !.refusal = "Held"]

\* Mutant of PersonInputCall: input does not count as the person's use.
PersonInputUnnoted(l, now) ==
    [AcquireInto(Ticked(l, now), Person, FALSE, now) EXCEPT !.refusal = None]

PersonInputCall(l, now) ==
    LET d == AcquireInto(Ticked(l, now), Person, FALSE, now)
    IN  [d EXCEPT !.lease = NoteIntent(d.lease, Person, now),
                  !.refusal = None]

NotNowCall(l, p, now) ==
    [CancelInto(Ticked(l, now), p) EXCEPT !.refusal = "NotNow"]

YieldCall(l, p, now) ==
    LET c == Ticked(l, now)
        d == [c EXCEPT !.lease = Promote(c.lease, p)]
    IN  IF p \notin Waiting(c.lease) THEN [c EXCEPT !.refusal = "Held"]
        ELSE ConfirmInto(LetGoInto(CancelInto(d, Person), Person, now), now)
=============================================================================
