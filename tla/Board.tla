------------------------------- MODULE Board -------------------------------
(***************************************************************************)
(* The viewer's board: one lease per session, a mute over all of them and  *)
(* the person's "not now" per session and agent.  A session with no lease  *)
(* yet and one with a fresh lease answer every call alike, so the map is a *)
(* function on all sessions.  Only agents ask; the person's part is input, *)
(* yielding, declining and muting, as the viewer's commands have it.       *)
(***************************************************************************)
EXTENDS BoardOps, LeaseClock

CONSTANTS
    Session,    \* the session keys
    MuteFor     \* the spans a person mutes for, when not until they are idle

ASSUME MuteAssumption == MuteFor \subseteq Nat

VARIABLES
    leases,     \* Session -> Lease
    mute,       \* Option<MuteUntil>
    declined,   \* (Session, agent) -> until when, or None
    touched     \* Session -> last person input, while they have not yielded

boardVars == <<leases, mute, declined, now, touched>>

NoMute == [until |-> "None", at |-> 0]
PersonIdleMute == [until |-> "PersonIdle", at |-> 0]
MuteAt(t) == [until |-> "At", at |-> t]

BoardInit ==
    /\ leases = [s \in Session |-> NewLease]
    /\ mute = NoMute
    /\ declined = [r \in Session \X Agents |-> None]
    /\ now = 0
    /\ touched = [s \in Session |-> None]

----------------------------------------------------------------------------

\* Board::muted.
Muted(ls, t) ==
    \/ mute.until = "At" /\ t < mute.at
    \/ mute.until = "PersonIdle" /\ \E s \in Session : PersonHolds(ls[s])

\* Board::not_now_left.
Declined(s, p, t) ==
    declined[<<s, p>>] # None /\ t < declined[<<s, p>>]

\* Board::requests: what the person is shown.
Requests(ls) ==
    {r \in Session \X Agents :
        PersonHolds(ls[r[1]]) /\ r[2] \in Waiting(ls[r[1]])}

\* Mutant of Gate: only the mute is consulted.
GateWithoutNotNow(ls, s, p, t) == IF Muted(ls, t) THEN "Muted" ELSE None

Gate(ls, s, p, t) ==
    CASE Muted(ls, t) -> "Muted"
      [] ~Muted(ls, t) /\ Declined(s, p, t) -> "NotNow"
      [] OTHER -> None

Within(ls) == \A s \in Session : ls[s].nextId <= MaxId

\* Store what a call left of one session's lease.
Keep(s, call) ==
    /\ leases' = [leases EXCEPT ![s] = call.lease]
    /\ Within(leases')
    /\ UNCHANGED now

TimePasses ==
    /\ Ticking
    /\ UNCHANGED <<leases, mute, declined, touched>>

\* ask ticks the lease first, and reads the mute over the board as ticked.
AskFor(s, p) ==
    LET ticked == [leases EXCEPT ![s] = Ticked(@, now).lease]
    IN  /\ Keep(s, AskCall(leases[s], p, Gate(ticked, s, p, now), now))
        /\ UNCHANGED <<mute, declined, touched>>

AgentLetsGo(s, p) ==
    /\ Keep(s, ReleaseCall(leases[s], p, now))
    /\ UNCHANGED <<mute, declined, touched>>

AgentInput(s, p) ==
    /\ Keep(s, InputCall(leases[s], p, now))
    /\ UNCHANGED <<mute, declined, touched>>

PersonInput(s) ==
    /\ Keep(s, PersonInputCall(leases[s], now))
    /\ touched' = [touched EXCEPT ![s] = now]
    /\ UNCHANGED <<mute, declined>>

ReadStatus(s) ==
    /\ Keep(s, Ticked(leases[s], now))
    /\ UNCHANGED <<mute, declined, touched>>

YieldTo(s, p) ==
    LET call == YieldCall(leases[s], p, now)
    IN  /\ Keep(s, call)
        /\ touched' = [touched EXCEPT ![s] =
                         IF call.refusal = None THEN None ELSE @]
        /\ UNCHANGED <<mute, declined>>

SayNotNow(s, p) ==
    /\ Keep(s, NotNowCall(leases[s], p, now))
    /\ declined' = [declined EXCEPT ![<<s, p>>] = now + NotNow]
    /\ UNCHANGED <<mute, touched>>

\* Take these agents out of line, one cancel_wait each.  A party has one
\* seat, so the order of the calls does not matter.
Dropped(l, agents) ==
    LET kept == {i \in DOMAIN l.queue : l.queue[i].party \notin agents}
        m == [l EXCEPT !.queue = Retained(l.queue, kept),
                       !.contendedSince = IF kept = {} THEN None ELSE @]
    IN  IF l.pending.party \in agents
        THEN CancelWait(m, l.pending.party).lease ELSE m

Asking(s) == {p \in Agents : <<s, p>> \in Requests(leases)}

\* not_now for every request: each call ticks its lease, and on one instant
\* only the first of them can move it.
SayNotNowToAll ==
    /\ leases' = [s \in Session |->
                    IF Asking(s) = {} THEN leases[s]
                    ELSE Dropped(Ticked(leases[s], now).lease, Asking(s))]
    /\ Within(leases')
    /\ declined' = [r \in Session \X Agents |->
                      IF r \in Requests(leases) THEN now + NotNow
                      ELSE declined[r]]
    /\ UNCHANGED <<mute, now, touched>>

Mute(until) ==
    /\ mute' = until
    /\ leases' = [s \in Session |-> Dropped(leases[s], Asking(s))]
    /\ UNCHANGED <<declined, now, touched>>

Unmute ==
    /\ mute' = NoMute
    /\ UNCHANGED <<leases, declined, now, touched>>

ForgetParty(p) ==
    /\ leases' = [s \in Session |-> ReleaseCall(leases[s], p, now).lease]
    /\ Within(leases')
    /\ UNCHANGED <<mute, declined, now, touched>>

\* The mute is read after the leases moved.
TickAll ==
    /\ leases' = [s \in Session |-> Ticked(leases[s], now).lease]
    /\ Within(leases')
    /\ declined' = [r \in Session \X Agents |->
                      IF Declined(r[1], r[2], now) THEN declined[r] ELSE None]
    /\ mute' = IF Muted(leases', now) THEN mute ELSE NoMute
    /\ UNCHANGED <<now, touched>>

Remove(s) ==
    /\ leases' = [leases EXCEPT ![s] = NewLease]
    /\ touched' = [touched EXCEPT ![s] = None]
    /\ UNCHANGED <<mute, declined, now>>

BoardNext ==
    \/ TimePasses
    \/ \E s \in Session, p \in Agents :
           \/ AskFor(s, p)
           \/ AgentLetsGo(s, p)
           \/ AgentInput(s, p)
           \/ YieldTo(s, p)
           \/ SayNotNow(s, p)
    \/ \E s \in Session : PersonInput(s) \/ ReadStatus(s) \/ Remove(s)
    \/ SayNotNowToAll
    \/ Mute(PersonIdleMute)
    \/ \E t \in MuteFor : Mute(MuteAt(now + t))
    \/ Unmute
    \/ \E p \in Agents : ForgetParty(p)
    \/ TickAll

BoardSpec == BoardInit /\ [][BoardNext]_boardVars

----------------------------------------------------------------------------
(* Properties. *)

BoardTypeOK ==
    /\ leases \in [Session -> LeaseRecord]
    /\ mute \in [until : {"None", "At", "PersonIdle"}, at : Nat]
    /\ declined \in [Session \X Agents -> Nat \cup {None}]
    /\ now \in Nat
    /\ touched \in [Session -> Nat \cup {None}]

\* A call never leaves a handover half done: what the board grants it also
\* confirms, so no session is left with a holder nobody lets drive.
HandoversComplete ==
    \A s \in Session : leases[s].phase # "HandingOver"

\* A person outranks an agent: until the person idle time after their last
\* input on a session no agent may dispatch there, unless they yielded it,
\* whatever the agents, the other sessions, the clock and the mute do.
PersonKeepsTheWheel ==
    \A s \in Session :
        touched[s] # None /\ now < touched[s] + PersonIdle =>
            Dispatchers(leases[s]) \subseteq {Person}

\* A refusal lasts: while a person goes on holding or taking a session, an
\* agent that requests are muted for, or that was told not now there, does
\* not come back into line on it, by whatever call.
RefusedStayOut ==
    [][\A s \in Session, p \in Agents :
         /\ PersonHolds(leases[s]) /\ PersonHolds(leases'[s])
         /\ Muted(leases, now) \/ Declined(s, p, now)
         /\ p \notin Waiting(leases[s])
         => p \notin Waiting(leases'[s])]_boardVars
=============================================================================
