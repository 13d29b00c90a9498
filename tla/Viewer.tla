------------------------------- MODULE Viewer -------------------------------
(***************************************************************************)
(* The viewer's input path on one session (src-tauri): the board is one    *)
(* lock, but a request is several steps.  An agent's or a person's request *)
(* asks the board under the lock, then settles what the answer owes (a     *)
(* ReleaseAllKeys on the session's channel), then sends its own command.   *)
(* The ticker does the first two.  Requests of different actors interleave *)
(* at every step.  The session's driver takes commands off the channel in  *)
(* order and applies them to the remote machine.                           *)
(*                                                                         *)
(* Each party has one key, which is down or up on the remote machine.      *)
(***************************************************************************)
EXTENDS BoardOps, LeaseClock

CONSTANTS
    Ticker,         \* the task that ticks the board
    Scenes          \* the surroundings a behaviour may have: Scene

Actor == Party \cup {Ticker}

\* Who takes part, the bound of the session's command channel, and what is
\* assumed of the timing.
Scene == [agents : SUBSET Agents,
          personTypes : BOOLEAN,    \* or the person stays away
          capacity : Nat \ {0},
          oneAtATime : BOOLEAN,     \* a request starts when no other runs
          driverKeepsUp : BOOLEAN]  \* ... and the channel is drained

ASSUME ViewerAssumption ==
    /\ Ticker \notin Party \cup {None}
    /\ Scenes \subseteq Scene

VARIABLES
    scene,      \* the surroundings of this behaviour
    sessionLease,   \* the session's lease on the board
    doing,      \* Actor -> where its request is
    chan,       \* the session's command channel
    down        \* whose key is down on the remote machine

viewerVars == <<scene, sessionLease, now, doing, chan, down>>

Key(p, isDown) == [by |-> p, down |-> isDown]
ReleaseAllKeys == [by |-> None, down |-> FALSE]

Idle == [at |-> "idle", sweep |-> FALSE, send |-> ReleaseAllKeys]
Nothing == ReleaseAllKeys    \* a request with no command of its own

ViewerInit ==
    /\ scene \in Scenes
    /\ sessionLease = NewLease
    /\ now = 0
    /\ doing = [x \in Actor |-> Idle]
    /\ chan = << >>
    /\ down = {}

----------------------------------------------------------------------------

Elapse ==
    /\ Ticking
    /\ UNCHANGED <<scene, sessionLease, doing, chan, down>>

MayStart(x) ==
    /\ doing[x].at = "idle"
    /\ scene.oneAtATime => \A y \in Actor : doing[y].at = "idle"
    /\ scene.driverKeepsUp => chan = << >>

\* Mutant of OwesSweep: only a preemption sweeps.
OwesSweepIfFenced(call) == call.changed /\ call.fenced

\* What settle reads off the answer: a release goes when a preemption was
\* started, or when an agent left and a person is not the one now holding.
OwesSweep(call) ==
    /\ call.changed
    /\ \/ call.fenced
       \/ call.left /\ ~(/\ call.lease.holder.party # None
                         /\ IsPerson(call.lease.holder.party))

\* The part of a request under the board's lock.
BoardCall(x, call, send) ==
    /\ call.lease.nextId <= MaxId
    /\ sessionLease' = call.lease
    /\ doing' = [doing EXCEPT ![x] = [at |-> "settle", sweep |-> OwesSweep(call),
                                      send |-> send]]
    /\ UNCHANGED <<scene, now, chan, down>>

\* limb.command with a key press: needs the wheel.
AgentPress(p) ==
    LET call == InputCall(sessionLease, p, now)
    IN  /\ MayStart(p)
        /\ BoardCall(p, call, IF call.refusal = None THEN Key(p, TRUE)
                              ELSE Nothing)

\* limb.command with a key going up: always passes.
AgentLift(p) ==
    /\ MayStart(p)
    /\ doing' = [doing EXCEPT ![p] = [at |-> "send", sweep |-> FALSE,
                                      send |-> Key(p, FALSE)]]
    /\ UNCHANGED <<scene, sessionLease, now, chan, down>>

AgentAsks(p) ==
    MayStart(p) /\ BoardCall(p, AskCall(sessionLease, p, None, now), Nothing)

\* lease_release, detach, and a connection that ended.
AgentReleases(p) ==
    MayStart(p) /\ BoardCall(p, ReleaseCall(sessionLease, p, now), Nothing)

\* send_input: a key of the person's, down or up, is the person's use.
PersonKey(isDown) ==
    /\ scene.personTypes
    /\ MayStart(Person)
    /\ BoardCall(Person, PersonInputCall(sessionLease, now), Key(Person, isDown))

\* allow_request and decline_request.
PersonAllows(p) ==
    /\ scene.personTypes
    /\ MayStart(Person)
    /\ BoardCall(Person, YieldCall(sessionLease, p, now), Nothing)

PersonDeclines(p) ==
    /\ scene.personTypes
    /\ MayStart(Person)
    /\ BoardCall(Person, NotNowCall(sessionLease, p, now), Nothing)

TickLeases == MayStart(Ticker) /\ BoardCall(Ticker, Ticked(sessionLease, now), Nothing)

----------------------------------------------------------------------------

\* Room for a try_send.  A sender that waits for room is given the next slot
\* before any try_send can take it.
Room == Len(chan) < scene.capacity /\ \A x \in Actor : doing[x].at # "parked"

\* Mutant of SettleAnswer: the release waits for room.
SettleAnswerWaits(x) ==
    /\ doing[x].at = "settle"
    /\ doing[x].sweep => Room
    /\ chan' = IF doing[x].sweep THEN Append(chan, ReleaseAllKeys) ELSE chan
    /\ doing' = [doing EXCEPT ![x] = IF @.send = Nothing THEN Idle
                                     ELSE [@ EXCEPT !.at = "send"]]
    /\ UNCHANGED <<scene, sessionLease, now, down>>

\* settle: the release is a try_send whose failure is dropped.
SettleAnswer(x) ==
    /\ doing[x].at = "settle"
    /\ chan' = IF doing[x].sweep /\ Room THEN Append(chan, ReleaseAllKeys)
               ELSE chan
    /\ doing' = [doing EXCEPT ![x] = IF @.send = Nothing THEN Idle
                                     ELSE [@ EXCEPT !.at = "send"]]
    /\ UNCHANGED <<scene, sessionLease, now, down>>

\* An agent's own command: a try_send, shed when the channel is full.
AgentSends(p) ==
    /\ doing[p].at = "send"
    /\ chan' = IF Room THEN Append(chan, doing[p].send) ELSE chan
    /\ doing' = [doing EXCEPT ![p] = Idle]
    /\ UNCHANGED <<scene, sessionLease, now, down>>

\* The person's own command is never shed: with no room it waits for it.
PersonSends ==
    /\ doing[Person].at = "send"
    /\ IF Len(chan) < scene.capacity
       THEN /\ chan' = Append(chan, doing[Person].send)
            /\ doing' = [doing EXCEPT ![Person] = Idle]
       ELSE /\ doing' = [doing EXCEPT ![Person].at = "parked"]
            /\ UNCHANGED chan
    /\ UNCHANGED <<scene, sessionLease, now, down>>

PersonUnparks ==
    /\ doing[Person].at = "parked"
    /\ Len(chan) < scene.capacity
    /\ chan' = Append(chan, doing[Person].send)
    /\ doing' = [doing EXCEPT ![Person] = Idle]
    /\ UNCHANGED <<scene, sessionLease, now, down>>

\* The driver applies the next command.
Apply(command) ==
    CASE command = ReleaseAllKeys -> {}
      [] command # ReleaseAllKeys /\ command.down -> down \cup {command.by}
      [] OTHER -> down \ {command.by}

Drive ==
    /\ chan # << >>
    /\ down' = Apply(Head(chan))
    /\ chan' = Tail(chan)
    /\ UNCHANGED <<scene, sessionLease, now, doing>>

ViewerNext ==
    \/ Elapse
    \/ \E p \in scene.agents :
           \/ AgentPress(p)
           \/ AgentLift(p)
           \/ AgentAsks(p)
           \/ AgentReleases(p)
           \/ PersonAllows(p)
           \/ PersonDeclines(p)
           \/ AgentSends(p)
    \/ \E isDown \in BOOLEAN : PersonKey(isDown)
    \/ TickLeases
    \/ \E x \in Actor : SettleAnswer(x)
    \/ PersonSends
    \/ PersonUnparks
    \/ Drive

ViewerSpec == ViewerInit /\ [][ViewerNext]_viewerVars

\* Every step after the board's lock runs to its end, and the driver drains
\* the channel: none of them waits for an actor of this module except the
\* person's send, which waits for the driver.
Fairness ==
    /\ \A x \in Actor : WF_viewerVars(SettleAnswer(x))
    /\ \A p \in Agents : WF_viewerVars(AgentSends(p))
    /\ WF_viewerVars(PersonSends)
    /\ WF_viewerVars(PersonUnparks)
    /\ WF_viewerVars(Drive)

FairSpec == ViewerSpec /\ Fairness

----------------------------------------------------------------------------
(* Properties. *)

\* What a session's channel carries: a key of a party's, or a release of all.
Command == {ReleaseAllKeys} \cup {Key(p, isDown) : p \in Party, isDown \in BOOLEAN}

Request == [at : {"idle", "settle", "send", "parked"}, sweep : BOOLEAN, send : Command]

ViewerTypeOK ==
    /\ scene \in Scenes
    /\ sessionLease \in LeaseRecord
    /\ now \in Nat
    /\ doing \in [Actor -> Request]
    /\ chan \in Seq(Command)
    /\ Len(chan) <= scene.capacity
    /\ down \subseteq Party

\* An agent's key goes down while another agent's is down.
Inherits ==
    \E p \in Agents : p \in down' /\ p \notin down /\ down \cap Agents # {}

Calm == scene.oneAtATime /\ scene.driverKeepsUp /\ ~scene.personTypes

\* Among agents whose requests do not overlap, a key press reaches the machine
\* with no other agent's key down: every way one agent can lose the wheel to
\* another (asking, letting go, expiring, being preempted) sweeps the first
\* one's keys before the second one's arrive (settle).
AgentsInTurn ==
    [][Calm => ~Inherits]_viewerVars

\* A person's key always reaches the session's channel, whatever the agents
\* and the ticker send meanwhile.
PersonGetsThrough ==
    doing[Person].at # "idle" ~> doing[Person].at = "idle"

----------------------------------------------------------------------------
(* What a comment of board.rs says and the code does not keep. *)

\* The caller sends the release it owes before it forwards anything of the new
\* holder's, so a key press never finds another agent's key down.
AgentsNeverInherit == [][~Inherits]_viewerVars
=============================================================================
