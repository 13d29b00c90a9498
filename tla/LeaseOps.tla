------------------------------ MODULE LeaseOps ------------------------------
(***************************************************************************)
(* The control lease of crates/agent-lease: who drives one limb, and what  *)
(* happens when somebody else wants the wheel.  Every method of Lease in   *)
(* lease.rs is a pure function of the lease and of the instant the caller  *)
(* hands in, so each is an operator from a lease record to an answer: the  *)
(* lease afterwards, what the call reports, and whether it owes the limb a *)
(* release of held input.  Lease.tla drives one lease through them and     *)
(* Board.tla composes them, as board.rs does.                              *)
(*                                                                         *)
(* An optional value that is absent is None.  Instants are naturals; their *)
(* unit is whatever unit the policy constants are given in.                *)
(***************************************************************************)
EXTENDS Integers, Sequences, FiniteSets

CONSTANTS
    Party,              \* the party ids: grants and windows
    Kind,               \* Party -> "Admin" | "Owner" | "Human" | "Agent"
    Priority,           \* Party -> Nat, the effective priority
    None,               \* the absent optional value
    LeaseTtl,           \* lease_ttl_ms
    IdleRevoke,         \* idle_revoke_ms
    PersonIdle,         \* person_idle_ms
    ContendedIdle,      \* contended_idle_ms
    DisconnectGrace,    \* disconnect_grace_ms
    QueueTtl,           \* queue_ttl_ms
    MaxQueueDepth,      \* max_queue_depth
    MinHold,            \* min_hold_ms
    PreemptGrace,       \* agent_preempt_grace_ms
    ForceBackoff        \* force_release_backoff_ms

HolderKind == {"Admin", "Owner", "Human", "Agent"}

ASSUME PartyAssumption ==
    /\ Kind \in [Party -> HolderKind]
    /\ Priority \in [Party -> Nat]
    /\ None \notin Party
    /\ None \notin Nat

\* Every timer of the policy is a count of instants, and none is zero: a
\* lease with a zero timer would lose its holder on the tick that granted it.
ASSUME PolicyAssumption ==
    /\ LeaseTtl \in Nat \ {0}
    /\ IdleRevoke \in Nat \ {0}
    /\ PersonIdle \in Nat \ {0}
    /\ ContendedIdle \in Nat \ {0}
    /\ DisconnectGrace \in Nat \ {0}
    /\ QueueTtl \in Nat \ {0}
    /\ MaxQueueDepth \in Nat \ {0}
    /\ MinHold \in Nat
    /\ PreemptGrace \in Nat \ {0}
    /\ ForceBackoff \in Nat \ {0}

\* The timers that free a lease nobody uses are longer than the floor under a
\* grant, as in LeasePolicy::default.
ASSUME FloorAssumption ==
    /\ MinHold <= LeaseTtl
    /\ MinHold <= IdleRevoke
    /\ MinHold <= PersonIdle

----------------------------------------------------------------------------
(* The data. *)

Phase == {"Unheld", "Held", "HeldGrace", "PreemptPending", "HandingOver"}

Outcome == {"Unchanged", "Granted", "Renewed", "Queued", "PreemptionStarted",
            "WaitCancelled", "PreemptionAbandoned", "Unheld",
            "HandoverComplete"}

\* The errors of acquire, each with the lease as acquire leaves it.
Refusal == {"ForceReleased", "Held", "MinHoldNotElapsed", "QueueFull"}

HolderRecord ==
    [party : Party \cup {None}, id : Nat, granted : Nat, intent : Nat,
     renew : Nat, connected : BOOLEAN, grace : Nat \cup {None}]

Waiter == [party : Party, queued : Nat]

PendingRecord == [party : Party \cup {None}, deadline : Nat]

LeaseRecord ==
    [phase : Phase,
     holder : HolderRecord,
     pending : PendingRecord,
     queue : Seq(Waiter),
     nextId : Nat,
     forceUntil : Nat \cup {None},
     contendedSince : Nat \cup {None}]

NoHolder ==
    [party |-> None, id |-> 0, granted |-> 0, intent |-> 0, renew |-> 0,
     connected |-> FALSE, grace |-> None]

NoPending == [party |-> None, deadline |-> 0]

\* Lease::new and Lease::exclusive.
NewLease ==
    [phase |-> "Unheld", holder |-> NoHolder, pending |-> NoPending,
     queue |-> << >>, nextId |-> 1, forceUntil |-> None,
     contendedSince |-> None]

\* A LeaseTransition, reduced to what its callers act on.
Done(l, outcome, release) ==
    [lease |-> l, outcome |-> outcome, release |-> release]

Refused(l, error) == Done(l, error, FALSE)

----------------------------------------------------------------------------
(* The clock and the ladder. *)

Since(t, earlier) == IF t >= earlier THEN t - earlier ELSE 0

Latest(s, t) == IF s >= t THEN s ELSE t

IsPerson(p) == Kind[p] \in {"Admin", "Owner", "Human"}

LastActivity(h) == Latest(h.intent, h.renew)

----------------------------------------------------------------------------
(* The queue. *)

Waiting(l) == {l.queue[i].party : i \in DOMAIN l.queue}

Position(l, p) == CHOOSE i \in DOMAIN l.queue : l.queue[i].party = p

Without(q, i) == SubSeq(q, 1, i - 1) \o SubSeq(q, i + 1, Len(q))

Inserted(q, i, w) == SubSeq(q, 1, i - 1) \o <<w>> \o SubSeq(q, i, Len(q))

\* Mutant of Slot: a newcomer always goes to the front.
SlotInFront(q, p) == 1

\* Where a new waiter of this priority goes: before the first waiter of a
\* lower one, else at the back.
Slot(q, p) ==
    LET lower == {i \in DOMAIN q : Priority[q[i].party] < Priority[p]}
    IN  IF lower = {} THEN Len(q) + 1
        ELSE CHOOSE i \in lower : \A j \in lower : i <= j

\* The elements of q whose index is in K, in order: Vec::retain.  Written
\* out by rank, since what SelectSeq computes is out of a prover's reach.
RankIn(K, i) == Cardinality(K \cap 1..i)

Retained(q, K) ==
    [k \in 1..Cardinality(K) |-> q[CHOOSE i \in K : RankIn(K, i) = k]]

FreshIndices(q, now) == {i \in DOMAIN q : Since(now, q[i].queued) < QueueTtl}

----------------------------------------------------------------------------
(* The private half: grant, settle, take_over, contest, tick_holder. *)

\* Mutant of Grant: the new holder does not wait for the sweep.
GrantAtOnce(l, p, now) ==
    [l EXCEPT !.holder = [party |-> p, id |-> l.nextId, granted |-> now,
                          intent |-> now, renew |-> now, connected |-> TRUE,
                          grace |-> None],
              !.nextId = l.nextId + 1,
              !.contendedSince = IF l.queue = << >> THEN None ELSE now,
              !.phase = "Held"]

Grant(l, p, now) ==
    [l EXCEPT !.holder = [party |-> p, id |-> l.nextId, granted |-> now,
                          intent |-> now, renew |-> now, connected |-> TRUE,
                          grace |-> None],
              !.nextId = l.nextId + 1,
              !.contendedSince = IF l.queue = << >> THEN None ELSE now,
              !.phase = "HandingOver"]

\* The holder is gone: the party a preemption was running for, then the head
\* of the queue, then nobody.
Settle(l, now) ==
    LET vacated == [l EXCEPT !.holder = NoHolder, !.pending = NoPending]
    IN  CASE l.pending.party # None ->
                 Done(Grant(vacated, l.pending.party, now), "Granted", TRUE)
          [] l.pending.party = None /\ l.queue # << >> ->
                 Done(Grant([vacated EXCEPT !.queue = Tail(l.queue)],
                            Head(l.queue).party, now), "Granted", TRUE)
          [] OTHER ->
                 Done([vacated EXCEPT !.phase = "Unheld"], "Unheld", TRUE)

TakeOver(l, p, now) ==
    Done(Grant([l EXCEPT !.holder = NoHolder, !.pending = NoPending], p, now),
         "Granted", TRUE)

QueueOrRefuse(l, p, queue, now, error) ==
    CASE ~queue -> Refused(l, error)
      [] queue /\ Len(l.queue) >= MaxQueueDepth -> Refused(l, "QueueFull")
      [] OTHER ->
             Done([l EXCEPT
                     !.queue = Inserted(l.queue, Slot(l.queue, p),
                                        [party |-> p, queued |-> now]),
                     !.contendedSince = IF @ = None THEN now ELSE @],
                  "Queued", FALSE)

FloorLifted(p, holder) == IsPerson(p) /\ Kind[holder] = "Agent"

Contest(l, p, queue, now) ==
    CASE l.holder.party = None -> Done(Grant(l, p, now), "Granted", TRUE)
      [] /\ l.holder.party # None
         /\ \/ Priority[p] <= Priority[l.holder.party]
            \/ l.phase \in {"PreemptPending", "HandingOver"} ->
             QueueOrRefuse(l, p, queue, now, "Held")
      [] /\ l.holder.party # None
         /\ Priority[p] > Priority[l.holder.party]
         /\ l.phase \notin {"PreemptPending", "HandingOver"}
         /\ ~FloorLifted(p, l.holder.party)
         /\ Since(now, l.holder.granted) < MinHold ->
             QueueOrRefuse(l, p, queue, now, "MinHoldNotElapsed")
      [] OTHER ->
             IF ~l.holder.connected THEN TakeOver(l, p, now)
             ELSE Done([l EXCEPT
                          !.pending = [party |-> p,
                                       deadline |-> now + PreemptGrace],
                          !.phase = "PreemptPending"],
                       "PreemptionStarted", TRUE)

IdleLimit(h) == IF IsPerson(h.party) THEN PersonIdle ELSE IdleRevoke

\* Mutant of ContendedDeadline: being waited for lifts the floor.
ContendedDeadlineOnly(l) ==
    IF \/ IsPerson(l.holder.party)
       \/ l.queue = << >>
       \/ l.contendedSince = None
    THEN None
    ELSE Latest(l.holder.intent, l.contendedSince) + ContendedIdle

\* When an agent holder somebody waits behind is handed on, or None.
ContendedDeadline(l) ==
    IF \/ IsPerson(l.holder.party)
       \/ l.queue = << >>
       \/ l.contendedSince = None
    THEN None
    ELSE Latest(Latest(l.holder.intent, l.contendedSince) + ContendedIdle,
                l.holder.granted + MinHold)

\* Has the clock taken the wheel from this holder?
HolderDue(l, now) ==
    CASE l.phase = "PreemptPending" ->
             l.pending.party # None /\ now >= l.pending.deadline
      [] l.phase = "HeldGrace" ->
             /\ l.holder.party # None
             /\ l.holder.grace # None
             /\ now >= l.holder.grace
      [] l.phase = "Held" ->
             /\ l.holder.party # None
             /\ \/ Since(now, LastActivity(l.holder)) >= LeaseTtl
                \/ Since(now, l.holder.intent) >= IdleLimit(l.holder)
                \/ /\ ContendedDeadline(l) # None
                   /\ now >= ContendedDeadline(l)
      [] OTHER -> FALSE

----------------------------------------------------------------------------
(* The public half. *)

\* Lease::fence.
MayDispatch(l, p) == l.holder.party = p /\ l.phase = "Held"

Dispatchers(l) == {p \in Party : MayDispatch(l, p)}

\* Mutant of Acquire: the backoff of a panic is forgotten, not waited for.
AcquireAfterPanic(l, p, queue, now) ==
    LET a == [l EXCEPT !.forceUntil = None]
        renewed == [a EXCEPT !.holder.renew = now]
        refreshed == [a EXCEPT !.queue[Position(l, p)].queued = now]
    IN  IF l.holder.party = p THEN Done(renewed, "Renewed", FALSE)
        ELSE IF l.pending.party = p THEN Done(a, "PreemptionStarted", FALSE)
        ELSE IF p \in Waiting(l) THEN Done(refreshed, "Queued", FALSE)
        ELSE IF l.phase = "Unheld"
          THEN Done(Grant(a, p, now), "Granted", TRUE)
        ELSE Contest(a, p, queue, now)

\* An early return for each way the request is answered without arbitration.
Acquire(l, p, queue, now) ==
    LET a == [l EXCEPT !.forceUntil = None]
        renewed == [a EXCEPT !.holder.renew = now]
        refreshed == [a EXCEPT !.queue[Position(l, p)].queued = now]
    IN  IF l.forceUntil # None /\ now < l.forceUntil
          THEN Refused(l, "ForceReleased")
        ELSE IF l.holder.party = p THEN Done(renewed, "Renewed", FALSE)
        ELSE IF l.pending.party = p THEN Done(a, "PreemptionStarted", FALSE)
        ELSE IF p \in Waiting(l) THEN Done(refreshed, "Queued", FALSE)
        ELSE IF l.phase = "Unheld"
          THEN Done(Grant(a, p, now), "Granted", TRUE)
        ELSE Contest(a, p, queue, now)

Release(l, p, id, now) ==
    IF l.holder.party = p /\ l.holder.id = id THEN Settle(l, now)
    ELSE Done(l, "Unchanged", FALSE)

Promote(l, p) ==
    IF p \in Waiting(l)
    THEN [l EXCEPT !.queue = Inserted(Without(@, Position(l, p)), 1,
                                      @[Position(l, p)])]
    ELSE l

CancelWait(l, p) ==
    CASE l.pending.party = p ->
             Done([l EXCEPT !.pending = NoPending,
                            !.phase = IF l.holder.connected
                                      THEN "Held" ELSE "HeldGrace"],
                  "PreemptionAbandoned", TRUE)
      [] l.pending.party # p /\ p \in Waiting(l) ->
             LET q == Without(l.queue, Position(l, p))
             IN  Done([l EXCEPT !.queue = q,
                                !.contendedSince = IF q = << >> THEN None
                                                   ELSE @],
                      "WaitCancelled", FALSE)
      [] OTHER -> Done(l, "Unchanged", FALSE)

ForceRelease(l, now) ==
    Done([l EXCEPT !.holder = NoHolder, !.pending = NoPending,
                   !.queue = << >>, !.contendedSince = None,
                   !.phase = "Unheld", !.forceUntil = now + ForceBackoff],
         "Unheld", TRUE)

ConfirmRelease(l, now) ==
    IF l.phase # "HandingOver" THEN Done(l, "Unchanged", FALSE)
    ELSE Done([l EXCEPT !.phase = "Held",
                        !.holder = IF @.party = None THEN @
                                   ELSE [@ EXCEPT !.intent = now,
                                                  !.renew = now]],
              "HandoverComplete", FALSE)

\* Mutant of SetConnected: a holder that is back drives, whatever it is in.
SetConnectedToHeld(l, p, connected, now) ==
    IF l.holder.party # p \/ l.holder.connected = connected
    THEN Done(l, "Unchanged", FALSE)
    ELSE Done([l EXCEPT
                 !.holder.connected = connected,
                 !.holder.grace = IF connected THEN None
                                  ELSE now + DisconnectGrace,
                 !.phase = CASE @ = "Held" /\ ~connected -> "HeldGrace"
                             [] connected -> "Held"
                             [] OTHER -> @],
              "Unchanged", TRUE)

SetConnected(l, p, connected, now) ==
    IF l.holder.party # p \/ l.holder.connected = connected
    THEN Done(l, "Unchanged", FALSE)
    ELSE Done([l EXCEPT
                 !.holder.connected = connected,
                 !.holder.grace = IF connected THEN None
                                  ELSE now + DisconnectGrace,
                 !.phase = CASE @ = "Held" /\ ~connected -> "HeldGrace"
                             [] @ = "HeldGrace" /\ connected -> "Held"
                             [] OTHER -> @],
              "Unchanged", TRUE)

NoteIntent(l, p, now) ==
    IF l.holder.party = p THEN [l EXCEPT !.holder.intent = now] ELSE l

\* Mutant of Renew: being alive counts as use.
RenewAsUse(l, p, now) ==
    IF l.holder.party = p
    THEN [l EXCEPT !.holder.renew = now, !.holder.intent = now] ELSE l

Renew(l, p, now) ==
    IF l.holder.party = p THEN [l EXCEPT !.holder.renew = now] ELSE l

\* Stale waiters go first, so none of them can be handed the wheel.
Tick(l, now) ==
    LET fresh == FreshIndices(l.queue, now)
        swept == [l EXCEPT
                    !.forceUntil = IF @ # None /\ now >= @ THEN None ELSE @,
                    !.queue = Retained(l.queue, fresh),
                    !.contendedSince = IF fresh = {} THEN None ELSE @]
    IN  IF HolderDue(swept, now) THEN Settle(swept, now)
        ELSE Done(swept, "Unchanged", FALSE)

\* Mutant of ChangesAt: the forecast overlooks who is waiting.
ChangesAtUncontended(l) ==
    CASE l.phase = "PreemptPending" -> l.pending.deadline
      [] l.phase = "HeldGrace" -> l.holder.grace
      [] l.phase = "Held" ->
             LET expiry == LastActivity(l.holder) + LeaseTtl
                 idle   == l.holder.intent + IdleLimit(l.holder)
             IN  IF expiry < idle THEN expiry ELSE idle
      [] OTHER -> None

\* LeaseStatus::changes_in_ms, as the instant it counts down to.
ChangesAt(l) ==
    CASE l.phase = "PreemptPending" -> l.pending.deadline
      [] l.phase = "HeldGrace" /\ l.holder.party # None -> l.holder.grace
      [] l.phase = "Held" /\ l.holder.party # None ->
             LET expiry == LastActivity(l.holder) + LeaseTtl
                 idle   == l.holder.intent + IdleLimit(l.holder)
                 by     == {expiry, idle}
                           \cup ({ContendedDeadline(l)} \ {None})
             IN  CHOOSE t \in by : \A u \in by : t <= u
      [] OTHER -> None

\* LeaseStatus::person_holds.
PersonHolds(l) ==
    \/ l.holder.party # None /\ IsPerson(l.holder.party)
    \/ l.pending.party # None /\ IsPerson(l.pending.party)

----------------------------------------------------------------------------
(* What every lease reachable through these operators satisfies. *)

\* Every phase but Unheld has a holder, an unheld lease keeps nobody waiting,
\* and a preemption runs exactly while the phase says so.
PhaseSound(l) ==
    /\ l.phase = "Unheld" <=> l.holder.party = None
    /\ l.phase = "Unheld" => l.queue = << >>
    /\ l.phase = "PreemptPending" <=> l.pending.party # None

\* A party has one seat: it holds, or a preemption runs for it, or it has one
\* place in the queue.
SeatsSound(l) ==
    /\ \A i, j \in DOMAIN l.queue :
           l.queue[i].party = l.queue[j].party => i = j
    /\ \A i \in DOMAIN l.queue :
           l.queue[i].party \notin {l.holder.party, l.pending.party}
    /\ l.pending.party # None => l.pending.party # l.holder.party

\* A preemption is upward, and respects the floor under a grant unless a
\* person takes the wheel from an agent.
PreemptSound(l) ==
    l.phase = "PreemptPending" =>
        /\ Priority[l.pending.party] > Priority[l.holder.party]
        /\ \/ FloorLifted(l.pending.party, l.holder.party)
           \/ l.pending.deadline >= l.holder.granted + MinHold + PreemptGrace

\* A backoff that is still recorded finds nobody holding.
ForceSound(l) == l.forceUntil # None => l.phase = "Unheld"

\* The clock of contended_idle_ms runs exactly while somebody is in line, and
\* the line never outgrows its cap.
ContentionSound(l) ==
    /\ l.contendedSince # None <=> l.queue # << >>
    /\ Len(l.queue) <= MaxQueueDepth

\* A disconnected holder has a deadline to come back by, and a lease that
\* waits for its holder has a disconnected one.
GraceSound(l) ==
    /\ l.holder.party # None /\ ~l.holder.connected => l.holder.grace # None
    /\ l.phase = "HeldGrace" => ~l.holder.connected

Sound(l, t) ==
    /\ l \in LeaseRecord
    /\ PhaseSound(l)
    /\ SeatsSound(l)
    /\ PreemptSound(l)
    /\ ForceSound(l)
    /\ ContentionSound(l)
    /\ GraceSound(l)
    /\ l.holder.granted <= t
    /\ l.holder.granted <= l.holder.intent
=============================================================================
