-------------------------------- MODULE Ssh --------------------------------
(***************************************************************************)
(* A remote shell of crates/ssh-core: the supervisor of session.rs, which  *)
(* dials, asks for credentials, opens a PTY, pumps it and waits out the    *)
(* backoff, the task of driver.rs that carries the shell's commands to it, *)
(* and the tasks of exec.rs that serve an agent's commands beside it.      *)
(*                                                                         *)
(* A command passes two bounded channels and the carrying task's hands.    *)
(* The supervisor reads its channel at the prompt, in the pump and in the  *)
(* backoff, each of which treats commands differently, and not at all      *)
(* while it dials, authenticates, opens the PTY or waits for the server to *)
(* take what the person types.                                             *)
(*                                                                         *)
(* A terminal size is one number, a byte the person types is a command     *)
(* that remembers whether there was a shell to type it at, and the private *)
(* modes a remote program sets are one bit.  The clock is left out.        *)
(***************************************************************************)
EXTENDS Naturals, Sequences, FiniteSets

CONSTANTS
    None,           \* the absent value
    Size,           \* the sizes a window may report; 0 is a hidden one
    Fallbacks,      \* how many more methods the profile has material for
    MaxAttempts,    \* policy.max_attempts
    Capacity,       \* the bound of the supervisor's command channel
    Sends,          \* the kinds of command the viewer sends
    MaxSent         \* bound: how many commands it sends

Plain == {"Input", "ReconnectNow", "Disconnect", "ProvideCredentials",
          "CancelCredentials", "Exec", "PtyRun"}

\* What an agent waits for the answer of.
Intents == {"Exec", "PtyRun"}

\* A command: n tells intents apart.
Command == [kind : Plain \cup {"Resize"}, size : Size, n : 1..MaxSent]

ASSUME SshAssumption ==
    /\ Size \subseteq Nat /\ 1 \in Size
    /\ None \notin Nat \cup Command
    /\ {Fallbacks, MaxAttempts} \subseteq Nat
    /\ {Capacity, MaxSent} \subseteq Nat \ {0}
    /\ Sends \subseteq Plain \cup {"Resize"}

VARIABLES
    phase,      \* where the supervisor is
    attempts,
    fallbacks,  \* methods left in this attempt
    stable,     \* this connection has been up for STABLE_UPTIME
    terminal,   \* the size the next PTY opens at
    geometry,   \* the size the pump believes the PTY has
    pty,        \* the size it has
    outer,      \* the viewer's command channel
    hand,       \* the command pump_commands holds
    pump,       \* pump_commands: on, shutting down, off
    inner,      \* the supervisor's command channel
    token,      \* the viewer gave the session up
    cancel,     \* the session's own token
    listening,  \* somebody takes the session's events
    running,    \* the exec tasks under way
    answered,   \* how many answers each intent got
    told,       \* the last state the viewer was told
    modes,      \* the local terminal is in a mode a remote program set
    wanted,     \* history: the size the viewer last reported
    dropped,    \* history: intents that went with a channel
    asked,      \* history: the intents among the commands sent
    missed,     \* history: a size was dropped at the prompt since
    sent        \* commands sent so far

dialVars == <<attempts, fallbacks, stable>>
ptyVars == <<terminal, geometry, pty>>
pumpVars == <<outer, hand, pump>>
chanVars == <<inner, dropped>>
endVars == <<token, listening>>
historyVars == <<wanted, asked, missed, sent>>
vars == <<phase, dialVars, ptyVars, pumpVars, chanVars, endVars, cancel, running,
          answered, told, modes, historyVars>>

Phase == {"dialing", "authenticating", "asking", "opening", "live",
          "writing", "backoff", "stopped"}

\* There is a PTY, and the pump runs.
Live == {"live", "writing"}

Disconnect == [kind |-> "Disconnect", size |-> 1, n |-> 1]

Clamp(size) == IF size = 0 THEN 1 ELSE size

Init ==
    /\ phase = "dialing"
    /\ attempts = 0 /\ fallbacks = Fallbacks /\ stable = FALSE
    /\ terminal = 1 /\ geometry = 1 /\ pty = None
    /\ outer = << >> /\ hand = None /\ pump = "on"
    /\ inner = << >>
    /\ token = FALSE /\ cancel = FALSE /\ listening = TRUE
    /\ running = {}
    /\ answered = [n \in 1..MaxSent |-> 0]
    /\ told = "Connecting"
    /\ modes = FALSE
    /\ wanted = 1 /\ asked = {} /\ dropped = {}
    /\ missed = FALSE /\ sent = 0

----------------------------------------------------------------------------
(* The viewer. *)

Send(kind, size) ==
    /\ pump # "off" /\ sent < MaxSent
    /\ sent' = sent + 1
    /\ outer' = Append(outer, [kind |-> kind, size |-> size, n |-> sent + 1])
    /\ wanted' = IF kind = "Resize" THEN size ELSE wanted
    /\ missed' = (missed /\ kind # "Resize")
    /\ asked' = IF kind \in Intents THEN asked \cup {sent + 1} ELSE asked
    /\ UNCHANGED <<phase, dialVars, ptyVars, hand, pump, chanVars, endVars,
                   cancel, running, answered, told, modes>>

SendAny ==
    \/ \E kind \in Sends \ {"Resize"} : Send(kind, 1)
    \/ "Resize" \in Sends /\ \E size \in Size : Send("Resize", size)

\* The handle's token, or the last sender of its channel.
GiveUp ==
    /\ ~token
    /\ token' = TRUE
    /\ UNCHANGED <<phase, dialVars, ptyVars, pumpVars, chanVars, listening,
                   cancel, running, answered, told, modes, historyVars>>

\* pump_events ends: the token, or nobody takes what it sends.
Deaf ==
    /\ listening
    /\ listening' = FALSE
    /\ UNCHANGED <<phase, dialVars, ptyVars, pumpVars, chanVars, token, cancel,
                   running, answered, told, modes, historyVars>>

\* What the supervisor's channel holds from now on.
Keep(commands) == inner' = commands /\ UNCHANGED dropped

IntentsOf(q) == {q[i].n : i \in {j \in DOMAIN q : q[j].kind \in Intents}}

Answer(n) ==
    answered' = IF listening THEN [answered EXCEPT ![n] = @ + 1] ELSE answered

----------------------------------------------------------------------------
(* The carrying task: pump_commands. *)

\* route: a command for the session, or an intent refused on the spot.
PumpTakes ==
    LET c == Head(outer)
    IN  /\ pump = "on" /\ hand = None /\ ~token /\ outer # << >>
        /\ outer' = Tail(outer)
        /\ \/ /\ c.kind = "PtyRun"
              /\ Answer(c.n)
              /\ pump' = IF listening THEN "on" ELSE "shutting"
              /\ UNCHANGED hand
           \/ /\ c.kind # "PtyRun"
              /\ hand' = c
              /\ UNCHANGED <<answered, pump>>
        /\ UNCHANGED <<phase, dialVars, ptyVars, chanVars, endVars, cancel,
                       running, told, modes, historyVars>>

PumpSeesToken ==
    /\ pump = "on" /\ hand = None /\ token
    /\ pump' = "shutting"
    /\ UNCHANGED <<phase, dialVars, ptyVars, outer, hand, chanVars, endVars,
                   cancel, running, answered, told, modes, historyVars>>

\* send_command waits for a slot, whatever happens to the token meanwhile.
PumpSends ==
    /\ pump = "on" /\ hand # None
    /\ phase # "stopped" /\ Len(inner) < Capacity
    /\ Keep(Append(inner, hand))
    /\ hand' = None
    /\ pump' = IF hand.kind = "Disconnect" THEN "shutting" ELSE "on"
    /\ UNCHANGED <<phase, dialVars, ptyVars, outer, endVars, cancel, running,
                   answered, told, modes, historyVars>>

\* Mutant of PumpFails: the command is dropped with the session.
PumpFailsQuietly ==
    /\ pump = "on" /\ hand # None /\ phase = "stopped"
    /\ hand' = None
    /\ pump' = "shutting"
    /\ UNCHANGED <<phase, dialVars, ptyVars, outer, chanVars, endVars, cancel,
                   running, answered, told, modes, historyVars>>

\* The session is gone: an intent is answered all the same.
PumpFails ==
    /\ pump = "on" /\ hand # None /\ phase = "stopped"
    /\ IF hand.kind = "Exec" THEN Answer(hand.n) ELSE UNCHANGED answered
    /\ hand' = None
    /\ pump' = "shutting"
    /\ UNCHANGED <<phase, dialVars, ptyVars, outer, chanVars, endVars, cancel,
                   running, told, modes, historyVars>>

\* Mutant of Shutdown: a Disconnect if there is a slot, and no token.
ShutdownPolitely ==
    /\ pump = "shutting"
    /\ inner' = IF phase = "stopped" \/ Len(inner) >= Capacity THEN inner
                ELSE Append(inner, Disconnect)
    /\ dropped' = dropped \cup IntentsOf(outer)
    /\ pump' = "off"
    /\ outer' = << >>
    /\ UNCHANGED <<phase, dialVars, ptyVars, hand, endVars, cancel, running,
                   answered, told, modes, historyVars>>

\* shutdown: a Disconnect, which waits for a slot, and then the token.  The
\* viewer's channel goes with the task.
Shutdown ==
    /\ pump = "shutting"
    /\ phase = "stopped" \/ Len(inner) < Capacity
    /\ inner' = IF phase = "stopped" THEN inner ELSE Append(inner, Disconnect)
    /\ dropped' = dropped \cup IntentsOf(outer)
    /\ cancel' = TRUE
    /\ pump' = "off"
    /\ outer' = << >>
    /\ UNCHANGED <<phase, dialVars, ptyVars, hand, endVars, running, answered,
                   told, modes, historyVars>>

----------------------------------------------------------------------------
(* The supervisor: what follows an attempt. *)

\* emit_state: nobody hears it when the receiver is gone.
Tell(state) == told' = IF listening THEN state ELSE told

\* The task ends, and its channel with what is in it.
Return(rest) ==
    /\ phase' = "stopped"
    /\ inner' = << >>
    /\ dropped' = dropped \cup IntentsOf(rest)

Stop(rest) == Return(rest) /\ Tell("Disconnected")

\* With nobody to tell, the attempt is over before it has begun.
Dial(rest) ==
    /\ IF listening THEN phase' = "dialing" /\ Keep(rest) ELSE Return(rest)
    /\ fallbacks' = Fallbacks
    /\ Tell("Connecting")

\* classify, and the step it leads to; rest is what the channel still holds.
Ends(err, rest) ==
    LET made == IF stable THEN 0 ELSE attempts
        again == err = "Transient" /\ made < MaxAttempts
    IN  /\ \/ /\ again
              /\ attempts' = made + 1
              /\ Tell("Reconnecting")
              /\ IF listening THEN phase' = "backoff" /\ Keep(rest)
                 ELSE Return(rest)
           \/ ~again /\ attempts' = made /\ Stop(rest)
        /\ stable' = FALSE
        /\ UNCHANGED fallbacks

----------------------------------------------------------------------------
(* The attempt: run_once. *)

\* connect_only: the one part of the dial that has a timeout.
Reaches ==
    /\ phase = "dialing" /\ ~cancel
    /\ phase' = "authenticating"
    /\ UNCHANGED <<dialVars, ptyVars, pumpVars, chanVars, endVars, cancel,
                   running, answered, told, modes, historyVars>>

\* Anything but a refused authentication.
DialFails ==
    /\ phase \in {"dialing", "authenticating"} /\ ~cancel
    /\ \E err \in {"Transient", "NeedsUser"} : Ends(err, inner)
    /\ UNCHANGED <<ptyVars, pumpVars, endVars, cancel, running, answered,
                   modes, historyVars>>

\* The token is watched all along.
DialCancelled ==
    /\ phase \in {"dialing", "authenticating"} /\ cancel
    /\ Ends("Cancelled", inner)
    /\ UNCHANGED <<ptyVars, pumpVars, endVars, cancel, running, answered,
                   modes, historyVars>>

\* The next method is tried over a connection of its own; when none is left
\* the person is asked.
AuthRefused ==
    /\ phase = "authenticating" /\ ~cancel
    /\ \/ /\ fallbacks > 0
          /\ fallbacks' = fallbacks - 1
          /\ phase' = "dialing"
          /\ UNCHANGED <<chanVars, attempts, stable, told>>
       \/ /\ fallbacks = 0 /\ listening
          /\ phase' = "asking"
          /\ UNCHANGED <<dialVars, chanVars, told>>
       \/ fallbacks = 0 /\ ~listening /\ Ends("NeedsUser", inner)
    /\ UNCHANGED <<ptyVars, pumpVars, endVars, cancel, running, answered,
                   modes, historyVars>>

\* ask_for_credentials: an intent is refused, whatever is not an answer is
\* dropped.
AskTakes ==
    LET c == Head(inner)
    IN  /\ phase = "asking" /\ ~cancel /\ inner # << >>
        /\ \/ /\ \/ c.kind \in {"CancelCredentials", "Disconnect"}
                 \/ c.kind = "Exec" /\ ~listening
              /\ Ends("NeedsUser", Tail(inner))
              /\ UNCHANGED <<answered, missed>>
           \/ /\ c.kind = "ProvideCredentials"
              /\ phase' = "dialing" /\ fallbacks' = 0
              /\ Keep(Tail(inner))
              /\ UNCHANGED <<attempts, stable, told, answered, missed>>
           \/ /\ c.kind = "Exec" /\ listening
              /\ Answer(c.n)
              /\ Keep(Tail(inner))
              /\ UNCHANGED <<phase, dialVars, told, missed>>
           \/ /\ c.kind \in {"Input", "Resize", "ReconnectNow"}
              /\ Keep(Tail(inner))
              /\ missed' = (missed \/ c.kind = "Resize")
              /\ UNCHANGED <<phase, dialVars, told, answered>>
        /\ UNCHANGED <<ptyVars, pumpVars, endVars, cancel, running, modes,
                       wanted, asked, sent>>

AskCancelled ==
    /\ phase = "asking" /\ cancel
    /\ Ends("NeedsUser", inner)
    /\ UNCHANGED <<ptyVars, pumpVars, endVars, cancel, running, answered,
                   modes, historyVars>>

\* The probe for a multiplexer and the PTY: neither is cancelled.
Authenticated ==
    /\ phase = "authenticating" /\ ~cancel
    /\ phase' = "opening"
    /\ UNCHANGED <<dialVars, ptyVars, pumpVars, chanVars, endVars, cancel,
                   running, answered, told, modes, historyVars>>

OpenFails ==
    /\ phase = "opening"
    /\ \E err \in {"Transient", "NeedsUser"} : Ends(err, inner)
    /\ UNCHANGED <<ptyVars, pumpVars, endVars, cancel, running, answered,
                   modes, historyVars>>

Opened ==
    /\ phase = "opening" /\ listening
    /\ phase' = "live"
    /\ pty' = Clamp(terminal)
    /\ geometry' = terminal
    /\ Tell("Connected")
    /\ UNCHANGED <<dialVars, terminal, pumpVars, chanVars, endVars, cancel,
                   running, answered, modes, historyVars>>

\* The state has nobody to go to.
OpenedDeaf ==
    /\ phase = "opening" /\ ~listening
    /\ Ends("Cancelled", inner)
    /\ UNCHANGED <<ptyVars, pumpVars, endVars, cancel, running, answered,
                   modes, historyVars>>

----------------------------------------------------------------------------
(* The pump. *)

\* Mutant of Leave: the terminal is handed back when the link went.
LeaveLost(err, rest) ==
    /\ Ends(err, rest)
    /\ modes' = IF listening /\ err = "Transient" THEN FALSE ELSE modes
    /\ terminal' = geometry
    /\ pty' = None
    /\ UNCHANGED geometry

\* Every way out of the pump resets the local terminal and reports the size
\* back.
Leave(err, rest) ==
    /\ Ends(err, rest)
    /\ modes' = IF listening THEN FALSE ELSE modes
    /\ terminal' = geometry
    /\ pty' = None
    /\ UNCHANGED geometry

LiveCancelled ==
    /\ phase = "live" /\ cancel
    /\ Leave("Cancelled", inner)
    /\ UNCHANGED <<pumpVars, endVars, cancel, running, answered, historyVars>>

\* The link died or the shell was killed; the shell exited or was detached.
LinkLost ==
    /\ \/ phase = "live" /\ ~cancel
       \/ phase = "writing"
    /\ \E err \in {"Transient", "Exited"} : Leave(err, inner)
    /\ UNCHANGED <<pumpVars, endVars, cancel, running, answered, historyVars>>

\* Output on its way to the local terminal; a remote program may set a mode.
Output ==
    /\ phase = "live" /\ ~cancel
    /\ \/ listening /\ modes' = TRUE /\ UNCHANGED <<phase, dialVars, ptyVars,
                                                   chanVars, told>>
       \/ ~listening /\ Leave("Cancelled", inner)
    /\ UNCHANGED <<pumpVars, endVars, cancel, running, answered, historyVars>>

\* Mutant of Resized: the size is compared with the one the PTY opened at.
ResizedSinceOpen(size) ==
    IF Clamp(size) = terminal THEN UNCHANGED <<geometry, pty>>
    ELSE geometry' = Clamp(size) /\ pty' = Clamp(size)

Resized(size) ==
    IF Clamp(size) = geometry THEN UNCHANGED <<geometry, pty>>
    ELSE geometry' = Clamp(size) /\ pty' = Clamp(size)

LiveTakes ==
    LET c == Head(inner)
    IN  /\ phase = "live" /\ ~cancel /\ inner # << >>
        /\ \/ c.kind = "Disconnect" /\ Leave("User", Tail(inner))
              /\ UNCHANGED running
           \/ /\ c.kind # "Disconnect"
              /\ IF c.kind = "Resize" THEN Resized(c.size)
                 ELSE UNCHANGED <<geometry, pty>>
              /\ running' = IF c.kind = "Exec" THEN running \cup {c.n}
                            ELSE running
              /\ phase' = IF c.kind = "Input" THEN "writing" ELSE "live"
              /\ Keep(Tail(inner))
              /\ UNCHANGED <<dialVars, terminal, told, modes>>
        /\ UNCHANGED <<pumpVars, endVars, cancel, answered, historyVars>>

\* The server has made room in its window; until it does, the pump reads
\* neither its output, nor the channel, nor the token.
Written ==
    /\ phase = "writing"
    /\ phase' = "live"
    /\ UNCHANGED <<dialVars, ptyVars, pumpVars, chanVars, endVars, cancel,
                   running, answered, told, modes, historyVars>>

StaysUp ==
    /\ phase \in Live /\ ~stable
    /\ stable' = TRUE
    /\ UNCHANGED <<phase, attempts, fallbacks, ptyVars, pumpVars, chanVars,
                   endVars, cancel, running, answered, told, modes,
                   historyVars>>

\* serve: one answer, however the command ended.
ExecEnds(n) ==
    /\ n \in running
    /\ running' = running \ {n}
    /\ Answer(n)
    /\ UNCHANGED <<phase, dialVars, ptyVars, pumpVars, chanVars, endVars, cancel,
                   told, modes, historyVars>>

----------------------------------------------------------------------------
(* The backoff: wait_backoff. *)

BackoffCancelled ==
    /\ phase = "backoff" /\ cancel
    /\ Return(inner)
    /\ UNCHANGED <<dialVars, ptyVars, pumpVars, endVars, cancel, running,
                   answered, told, modes, historyVars>>

\* A command that is there before the sleep ends is read while it still runs;
\* one that arrives as it ends is as one sent during the dial.
Elapsed ==
    /\ phase = "backoff" /\ ~cancel /\ inner = << >>
    /\ Dial(inner)
    /\ UNCHANGED <<attempts, stable, ptyVars, pumpVars, endVars, cancel,
                   running, answered, modes, historyVars>>

BackoffTakes ==
    LET c == Head(inner)
    IN  /\ phase = "backoff" /\ ~cancel /\ inner # << >>
        /\ \/ /\ \/ c.kind = "Disconnect"
                 \/ c.kind = "Exec" /\ ~listening
              /\ Return(Tail(inner))
              /\ UNCHANGED <<dialVars, terminal, answered, told>>
           \/ /\ c.kind = "ReconnectNow"
              /\ attempts' = 0
              /\ Dial(Tail(inner))
              /\ UNCHANGED <<stable, terminal, answered>>
           \/ /\ c.kind = "Exec" /\ listening
              /\ Answer(c.n)
              /\ Keep(Tail(inner))
              /\ UNCHANGED <<phase, dialVars, terminal, told>>
           \/ /\ c.kind \in {"Input", "Resize", "ProvideCredentials",
                             "CancelCredentials"}
              /\ terminal' = IF c.kind = "Resize" THEN c.size ELSE terminal
              /\ Keep(Tail(inner))
              /\ UNCHANGED <<phase, dialVars, answered, told>>
        /\ UNCHANGED <<geometry, pty, pumpVars, endVars, cancel, running,
                       modes, historyVars>>

----------------------------------------------------------------------------

\* Everything has ended, or a person may never answer.
Rests ==
    /\ \/ phase = "stopped" /\ pump = "off" /\ running = {}
       \/ phase = "asking"
    /\ UNCHANGED vars

Carrying == PumpTakes \/ PumpSeesToken \/ PumpSends \/ PumpFails \/ Shutdown
Dialing == Reaches \/ DialFails \/ DialCancelled
Authenticating == AuthRefused \/ Authenticated
Opening == OpenFails \/ Opened \/ OpenedDeaf
Asking == AskTakes \/ AskCancelled
Pumping == LiveCancelled \/ LiveTakes
Waiting == BackoffCancelled \/ Elapsed \/ BackoffTakes

Next ==
    \/ SendAny \/ GiveUp \/ Deaf
    \/ Carrying \/ Dialing \/ Authenticating \/ Opening \/ Asking
    \/ Pumping \/ LinkLost \/ Output \/ Written \/ StaysUp
    \/ Waiting
    \/ \E n \in 1..MaxSent : ExecEnds(n)
    \/ Rests

Spec == Init /\ [][Next]_vars

\* Tasks are polled, a connect ends one way or another (it has a timeout), a
\* token is noticed wherever it is watched, and a sleep ends.  Nothing is
\* assumed of a server that has let us connect (the authentication, the probe,
\* the PTY, a write and the channel of an exec have no timeout), nor of the
\* person at a prompt.
Fairness ==
    /\ WF_vars(Carrying)
    /\ WF_vars(phase = "dialing" /\ Dialing)
    /\ WF_vars(DialCancelled)
    /\ WF_vars(Asking)
    /\ WF_vars(Pumping)
    /\ WF_vars(Waiting)

FairSpec == Spec /\ Fairness

----------------------------------------------------------------------------
(* Properties. *)

TypeOK ==
    /\ phase \in Phase
    /\ attempts \in 0..MaxAttempts /\ fallbacks \in 0..Fallbacks
    /\ {terminal, geometry, wanted} \subseteq Size \cup {1}
    /\ pty \in Size \cup {None}
    /\ outer \in Seq(Command) /\ inner \in Seq(Command)
    /\ Len(inner) <= Capacity
    /\ hand \in Command \cup {None}
    /\ pump \in {"on", "shutting", "off"}
    /\ {stable, token, cancel, listening, modes, missed}
           \subseteq BOOLEAN
    /\ running \subseteq 1..MaxSent
    /\ answered \in [1..MaxSent -> Nat]
    /\ asked \subseteq 1..MaxSent /\ dropped \subseteq 1..MaxSent
    /\ told \in {"Connecting", "Connected", "Reconnecting", "Disconnected"}
    /\ sent \in 0..MaxSent

Commands(q) == {q[i] : i \in DOMAIN q}

\* What has been sent and not yet been taken for what it says.
UnderWay == Commands(outer) \cup Commands(inner) \cup ({hand} \ {None})

\* An intent gets one answer and never two.  While there is somebody to hear
\* it and the session and its carrying task run, none is lost between two
\* hands: it is answered, or being served, or still on its way (route,
\* pump_commands, ask_for_credentials, wait_backoff, pump and serve each answer
\* in their own place), and the one in the carrying task's hand is answered
\* though the session has ended.  What is lost is what is still in a channel
\* when its reader ends, and only that; the comments that claim R28 has "no
\* exception for the queue was closed" speak of the hand alone.
IntentsAreAnswered ==
    \A n \in asked :
        /\ answered[n] <= 1
        /\ listening /\ n \notin dropped =>
              \/ answered[n] = 1
              \/ n \in running
              \/ \E c \in UnderWay : c.kind \in Intents /\ c.n = n
        /\ n \in dropped => phase = "stopped" \/ pump = "off"

\* However a connection ends, a listener's terminal is out of the modes the
\* remote program had set (run_once after the pump).
TerminalHandedBack == listening /\ phase \notin Live => ~modes

\* The PTY has the size the window last reported, clamped: a size reported
\* during a backoff, during a dial or before a link died reaches the next
\* PTY, and no comparison with an older size swallows it.  Only a size that
\* came while the person was being asked is lost.
PtyHasTheSize ==
    \/ phase \notin Live \/ missed \/ pump = "off"
    \/ \E c \in UnderWay : c.kind = "Resize"
    \/ pty = Clamp(wanted)

\* A disconnect is obeyed and so is a token, whatever is in the channels, as
\* long as no server keeps the task waiting for ever in a step that has no
\* timeout; once the session's own token is cancelled, not even a server that
\* never answers the authentication keeps it.
DisconnectIsObeyed ==
    /\ []<>(phase \notin {"authenticating", "opening", "writing"}) =>
          ((token \/ \E c \in UnderWay : c.kind = "Disconnect")
              ~> phase = "stopped")
    /\ []<>(phase \notin {"opening", "writing"}) =>
          (cancel ~> phase = "stopped")
=============================================================================
