------------------------------ MODULE Session ------------------------------
(***************************************************************************)
(* One supervised session: the loop of remote-core's reconnect.rs, which   *)
(* dials, runs a connection to its end, and decides whether to dial again, *)
(* with the RFB attempt of vnc-core inside it (connection.rs, run_loop.rs).*)
(* Commands reach the task on one channel, which is read in the prompt for *)
(* credentials, in the run loop, between the rectangles of an update and   *)
(* in the backoff, each of which treats them differently; while a dial or  *)
(* a security handshake is under way nobody reads it.                      *)
(*                                                                         *)
(* A settled command is a value per setting, a key is one key that is down *)
(* or up, and the clock is left out: a connection has either been up for   *)
(* STABLE_UPTIME or it has not.  Both ways the shell can give a session up *)
(* (its token, its last command sender) take the same exits, modelled by   *)
(* cancelled.                                                              *)
(***************************************************************************)
EXTENDS Integers, Sequences

CONSTANTS
    Setting,        \* the session settings in play
    None,           \* the absent optional value
    MaxAttempts,    \* policy.max_attempts; None retries for ever, and 0 is
                    \* what a policy that is not enabled comes to
    MaxChained,     \* MAX_CHAINED_REATTEMPTS
    MaxTries,       \* MAX_CREDENTIAL_ATTEMPTS
    Streaming,      \* does the server send updates?
    Prompting,      \* does it want a password the profile does not hold?
    Redirecting,    \* may an attempt end in a redirection, as in RDP?
    Sends,          \* the kinds of command the shell sends
    MaxSent         \* bound: how many commands it sends

CommandKind == {"Disconnect", "ReconnectNow", "Key", "Set", "Agent",
                "ProvideCredentials", "CancelCredentials"}

ASSUME SessionAssumption ==
    /\ Setting \subseteq {"Quality", "ViewOnly", "RequestedSize",
                          "AlwaysRefresh", "PreferScancodes"}
    /\ None \notin Nat \cup Setting
    /\ MaxAttempts \in Nat \cup {None}
    /\ MaxChained \in Nat
    /\ MaxTries \in Nat \ {0}
    /\ {Streaming, Prompting, Redirecting} \subseteq BOOLEAN
    /\ Sends \subseteq CommandKind
    /\ MaxSent \in Nat

VARIABLES
    phase,      \* where the task is
    queue,      \* the command channel
    deferred,   \* deferred_cmds of the run loop
    settings,   \* SessionSettings, kept across attempts
    attempts,   \* attempts_made
    chained,    \* attempts in a row that ended in a redirection
    dials,      \* attempts since the ladder last started from scratch
    stable,     \* this connection has been up for STABLE_UPTIME
    stalled,    \* from here on this server neither sends nor reads, and
                \* keeps the link up
    tries,      \* the credential attempt of this dial
    typed,      \* its credentials came from the person
    known,      \* the session keeps credentials the server accepted
    told,       \* the last SessionState the shell was told
    shell,      \* the receiver of events is there
    cancelled,  \* the session was given up
    pressed,    \* this connection, or the last one, holds the key down
    broken,     \* history: the last connection ended in an error
    sent        \* commands sent so far

dialVars == <<tries, typed>>
keyVars == <<pressed, broken>>
linkVars == <<deferred, keyVars, stable, stalled>>
ladderVars == <<attempts, chained, dials>>
shellVars == <<queue, shell, cancelled, sent>>
vars == <<phase, settings, known, told, dialVars, linkVars,
          ladderVars, shellVars>>

Phase == {"dialing", "authenticating", "asking", "connected", "updating",
          "settling", "backoff", "stopped"}
Live == {"connected", "updating", "settling"}

Command == [kind : CommandKind, key : Setting \cup {None}, value : BOOLEAN]

ViewOnly(s) == "ViewOnly" \in Setting /\ s["ViewOnly"]

Init ==
    /\ phase = "dialing"
    /\ queue = << >>
    /\ deferred = << >>
    /\ settings = [k \in Setting |-> FALSE]
    /\ attempts = 0
    /\ chained = 0
    /\ dials = 1
    /\ stable = FALSE
    /\ stalled = FALSE
    /\ tries = 1
    /\ typed = FALSE
    /\ known = FALSE
    /\ told = "Idle"
    /\ shell = TRUE
    /\ cancelled = FALSE
    /\ pressed = FALSE
    /\ broken = FALSE
    /\ sent = 0

----------------------------------------------------------------------------
(* The shell. *)

Send(kind, key, value) ==
    /\ phase # "stopped"
    /\ sent < MaxSent
    /\ sent' = sent + 1
    /\ queue' = Append(queue, [kind |-> kind, key |-> key, value |-> value])
    /\ UNCHANGED <<phase, settings, known, told, dialVars, linkVars,
                   ladderVars, shell, cancelled>>

SendAny ==
    \/ \E kind \in Sends \ {"Set", "Key"} : Send(kind, None, FALSE)
    \/ \E down \in BOOLEAN : "Key" \in Sends /\ Send("Key", None, down)
    \/ \E k \in Setting, v \in BOOLEAN : "Set" \in Sends /\ Send("Set", k, v)

Cancel ==
    /\ ~cancelled /\ phase # "stopped"
    /\ cancelled' = TRUE
    /\ UNCHANGED <<phase, settings, known, told, dialVars, linkVars,
                   ladderVars, queue, shell, sent>>

ShellGoes ==
    /\ shell /\ phase # "stopped"
    /\ shell' = FALSE
    /\ UNCHANGED <<phase, settings, known, told, dialVars, linkVars,
                   ladderVars, queue, cancelled, sent>>

----------------------------------------------------------------------------
(* The supervisor: what follows an attempt. *)

\* emit_state: nobody hears it when the receiver is gone.
Tell(state) == told' = IF shell THEN state ELSE told

\* Mutant of Stop: the session ends without a word.
StopQuietly == phase' = "stopped" /\ UNCHANGED told

Stop == phase' = "stopped" /\ Tell("Disconnected")

Dial == phase' = "dialing" /\ Tell("Connecting")

\* classify.
Retries(err, made) ==
    err = "Transient" /\ (MaxAttempts # None => made < MaxAttempts)

\* Mutant of Redirected: a redirection is followed however long the chain.
RedirectedAlways(made, since) ==
    /\ chained' = chained + 1
    /\ attempts' = made
    /\ Dial /\ dials' = since + 1

Redirected(made, since) ==
    /\ chained' = chained + 1
    /\ attempts' = made
    /\ \/ chained >= MaxChained /\ Stop /\ dials' = since
       \/ chained < MaxChained /\ Dial /\ dials' = since + 1

Failed(err, made, since) ==
    /\ chained' = 0
    /\ dials' = since
    /\ \/ ~Retries(err, made) /\ Stop /\ attempts' = made
       \/ /\ Retries(err, made)
          /\ attempts' = made + 1
          /\ phase' = IF shell THEN "backoff" ELSE "stopped"
          /\ Tell("Reconnecting")

\* The attempt is over, with this result, and the commands parked in its run
\* loop die with it.  A connection that stayed up starts the ladder from
\* scratch.
Ends(result) ==
    LET made  == IF stable THEN 0 ELSE attempts
        since == IF stable THEN 0 ELSE dials
    IN  /\ \/ /\ result = "UserDisconnect"
              /\ Stop /\ attempts' = made /\ dials' = since
              /\ UNCHANGED chained
           \/ result = "Reattempt" /\ Redirected(made, since)
           \/ /\ result \in {"Cancelled", "NeedsUser", "Fatal", "Transient"}
              /\ Failed(result, made, since)
        /\ deferred' = << >>
        /\ stable' = FALSE
        /\ stalled' = FALSE
        /\ tries' = 1
        /\ typed' = FALSE

----------------------------------------------------------------------------
(* The dial: establish_interactive.  Its steps have a timeout, except the  *)
(* security handshake in the middle: the server can take for ever over it. *)

\* Connected, the versions and the offer exchanged.
Reaches ==
    /\ phase = "dialing" /\ ~cancelled /\ shell
    /\ phase' = "authenticating"
    /\ UNCHANGED <<settings, known, told, dialVars, linkVars, ladderVars,
                   shellVars>>

\* A dial can fail after the server has accepted what was typed.
DialFails ==
    /\ phase \in {"dialing", "authenticating"} /\ ~cancelled
    /\ \E result \in {"Transient", "Fatal", "NeedsUser"} : Ends(result)
    /\ known' \in {known, known \/ typed}
    /\ UNCHANGED <<settings, keyVars, shellVars>>

\* The token is watched all along, the stalled handshake included.
DialCancelled ==
    /\ phase \in {"dialing", "authenticating"} /\ cancelled
    /\ Ends("Cancelled")
    /\ UNCHANGED <<settings, known, keyVars, shellVars>>

Asks ==
    /\ phase = "authenticating" /\ ~stalled /\ ~cancelled /\ shell
    /\ Prompting /\ ~known /\ ~typed
    /\ phase' = "asking"
    /\ UNCHANGED <<settings, known, told, dialVars, linkVars,
                   ladderVars, shellVars>>

\* The server rejects what the person typed: dial and ask again, if tries are
\* left.
Rejected ==
    /\ phase = "authenticating" /\ ~stalled /\ ~cancelled
    /\ typed /\ tries < MaxTries
    /\ phase' = "dialing"
    /\ tries' = tries + 1
    /\ typed' = FALSE
    /\ UNCHANGED <<settings, known, told, linkVars, ladderVars, shellVars>>

\* What the server accepted is kept for every later attempt.  The run loop
\* starts with an empty set of pressed keys, whatever the last one left.
Established ==
    /\ phase = "authenticating" /\ ~stalled /\ ~cancelled /\ shell
    /\ Prompting => known \/ typed
    /\ phase' = "connected"
    /\ known' = (known \/ typed)
    /\ pressed' = FALSE
    /\ broken' = FALSE
    /\ Tell("Connected")
    /\ UNCHANGED <<settings, deferred, stable, stalled, dialVars, ladderVars,
                   shellVars>>

\* serve_credential_ask: anything that is not an answer is dropped.
AskTakes ==
    LET c == Head(queue)
    IN  /\ phase = "asking" /\ ~cancelled /\ queue # << >>
        /\ queue' = Tail(queue)
        /\ \/ /\ c.kind = "ProvideCredentials"
              /\ phase' = "authenticating" /\ typed' = TRUE
              /\ UNCHANGED <<told, tries, deferred, stable, stalled,
                             ladderVars>>
           \/ /\ c.kind \in {"CancelCredentials", "Disconnect"}
              /\ Ends("Cancelled")
           \/ /\ c.kind \in {"ReconnectNow", "Key", "Set", "Agent"}
              /\ UNCHANGED <<phase, told, dialVars, deferred, stable,
                             stalled, ladderVars>>
        /\ UNCHANGED <<settings, known, keyVars, shell, cancelled,
                       sent>>

AskCancelled ==
    /\ phase = "asking" /\ cancelled
    /\ Ends("Cancelled")
    /\ UNCHANGED <<settings, known, keyVars, shellVars>>

----------------------------------------------------------------------------
(* The connection: RunLoop::run. *)

\* An end that nobody chose: the run loop returns by `?` from where it is, and
\* lifts nothing.
Breaks == broken' = TRUE /\ UNCHANGED pressed

\* release_all_input before a deliberate end, its error ignored: a write that
\* fails finds the link gone.
LetGo ==
    \/ pressed' = FALSE /\ UNCHANGED broken
    \/ pressed /\ Breaks

\* A write to a stalled server does not return once the buffers are full; an
\* end with nothing to lift writes nothing.
WouldHang(ends) == stalled /\ ~(ends /\ ~pressed)

\* handle_input_command: view only keeps the server out of it.
Input(c) == pressed' = IF ViewOnly(settings) THEN pressed ELSE c.value

\* handle_command for a command the connection survives.  The commands behind
\* it in the run loop are rest.
Obey(c, rest) ==
    /\ c.kind \notin {"Disconnect", "ReconnectNow"}
    /\ c.kind = "Agent" => shell
    /\ \/ c.kind = "Key" /\ Input(c) /\ UNCHANGED settings
       \/ /\ c.kind = "Set"
          /\ settings' = [settings EXCEPT ![c.key] = c.value]
          /\ pressed' = IF \/ c.key = "ViewOnly" /\ c.value
                           \/ /\ c.key = "PreferScancodes"
                              /\ c.value # settings[c.key]
                        THEN FALSE ELSE pressed
       \/ c.kind \notin {"Key", "Set"} /\ UNCHANGED <<pressed, settings>>
    /\ deferred' = rest
    /\ phase' = IF rest = << >> THEN "connected" ELSE "settling"
    /\ UNCHANGED <<told, broken, stable, stalled, dialVars, ladderVars>>

\* handle_command; a command that ends the connection drops the rest.
Handle(c, rest) ==
    /\ ~WouldHang(c.kind \in {"Disconnect", "ReconnectNow"})
    /\ \/ /\ c.kind = "Disconnect"
          /\ LetGo
          /\ Ends("UserDisconnect")
          /\ UNCHANGED settings
       \/ /\ c.kind = "ReconnectNow"
          /\ LetGo
          /\ Ends("Transient")
          /\ UNCHANGED settings
       \/ Obey(c, rest)

LiveTakes ==
    /\ phase = "connected" /\ ~cancelled /\ queue # << >>
    /\ queue' = Tail(queue)
    /\ Handle(Head(queue), << >>)
    /\ UNCHANGED <<known, shell, cancelled, sent>>

\* The commands parked during an update run at its end, before the channel
\* is read again.
SettleOne ==
    /\ phase = "settling"
    /\ Handle(Head(deferred), Tail(deferred))
    /\ UNCHANGED <<known, shellVars>>

LiveCancelled ==
    /\ phase = "connected" /\ cancelled /\ ~WouldHang(TRUE)
    /\ LetGo
    /\ Ends("Cancelled")
    /\ UNCHANGED <<settings, known, shellVars>>

StartUpdate ==
    /\ phase = "connected" /\ ~stalled /\ ~cancelled /\ Streaming
    /\ phase' = "updating"
    /\ UNCHANGED <<settings, known, told, dialVars, linkVars,
                   ladderVars, shellVars>>

\* Mutant of UpdateTakes: a disconnect in an update lifts nothing.
UpdateTakesInHaste ==
    LET c == Head(queue)
    IN  /\ phase = "updating" /\ ~stalled /\ queue # << >>
        /\ queue' = Tail(queue)
        /\ \/ /\ c.kind = "Key" /\ Input(c)
              /\ UNCHANGED <<phase, told, deferred, broken, stable, stalled,
                             dialVars, ladderVars>>
           \/ /\ c.kind = "Disconnect"
              /\ Ends("UserDisconnect")
              /\ UNCHANGED keyVars
           \/ /\ c.kind \notin {"Key", "Disconnect"}
              /\ deferred' = Append(deferred, c)
              /\ UNCHANGED <<phase, keyVars, told, stable, stalled,
                             dialVars, ladderVars>>
        /\ UNCHANGED <<settings, known, shell, cancelled, sent>>

\* drain_commands_mid_update and emit_serving_input: input goes out, a
\* disconnect ends the connection, everything else is parked.
UpdateTakes ==
    LET c == Head(queue)
    IN  /\ phase = "updating" /\ ~stalled /\ queue # << >>
        /\ queue' = Tail(queue)
        /\ \/ /\ c.kind = "Key" /\ Input(c)
              /\ UNCHANGED <<phase, told, deferred, broken, stable, stalled,
                             dialVars, ladderVars>>
           \/ /\ c.kind = "Disconnect"
              /\ LetGo
              /\ Ends("UserDisconnect")
           \/ /\ c.kind \notin {"Key", "Disconnect"}
              /\ deferred' = Append(deferred, c)
              /\ UNCHANGED <<phase, keyVars, told, stable, stalled,
                             dialVars, ladderVars>>
        /\ UNCHANGED <<settings, known, shell, cancelled, sent>>

\* The channel is drained after every rectangle, the last one included.
FinishUpdate ==
    /\ phase = "updating" /\ ~stalled /\ queue = << >>
    /\ phase' = IF deferred = << >> THEN "connected" ELSE "settling"
    /\ UNCHANGED <<settings, known, told, dialVars, linkVars,
                   ladderVars, shellVars>>

\* The link fails, the server breaks the protocol or a probe goes unanswered,
\* at any point.
LinkLost ==
    /\ phase \in Live
    /\ Breaks
    /\ \E result \in {"Transient", "Fatal"} : Ends(result)
    /\ UNCHANGED <<settings, known, shellVars>>

\* The server sends the session elsewhere, in the handshake or later.
ServerRedirects ==
    /\ Redirecting /\ phase \in {"authenticating", "connected"}
    /\ ~stalled /\ ~cancelled
    /\ \/ phase = "connected" /\ Breaks
       \/ phase = "authenticating" /\ UNCHANGED keyVars
    /\ Ends("Reattempt")
    /\ UNCHANGED <<settings, known, shellVars>>

\* An event has nobody to go to: the run loop returns from where it is.
EmitFails ==
    /\ phase \in Live /\ ~stalled /\ ~shell
    /\ Breaks
    /\ \E result \in {"Cancelled", "Transient"} : Ends(result)
    /\ UNCHANGED <<settings, known, shellVars>>

\* Nothing of the handshake or of the run loop has a deadline.
ServerStalls ==
    /\ phase \in {"authenticating"} \cup Live /\ ~stalled
    /\ stalled' = TRUE
    /\ UNCHANGED <<phase, settings, known, told, deferred, keyVars, stable,
                   dialVars, ladderVars, shellVars>>

StaysUp ==
    /\ phase \in Live /\ ~stable
    /\ stable' = TRUE
    /\ UNCHANGED <<phase, settings, known, told, deferred, keyVars, stalled,
                   dialVars, ladderVars, shellVars>>

----------------------------------------------------------------------------
(* The backoff: wait_backoff. *)

\* absorb_while_disconnected of the RFB session.
Absorbed == {"Quality", "ViewOnly", "RequestedSize"}

\* Mutant of BackoffTakes: a disconnect is dropped with the rest.
BackoffTakesOther ==
    LET c == Head(queue)
    IN  /\ phase = "backoff" /\ ~cancelled /\ queue # << >>
        /\ queue' = Tail(queue)
        /\ \/ /\ c.kind = "ReconnectNow"
              /\ Dial /\ attempts' = 0 /\ dials' = 1
              /\ UNCHANGED <<settings, chained>>
           \/ /\ c.kind # "ReconnectNow"
              /\ settings' = IF c.kind = "Set" /\ c.key \in Absorbed
                             THEN [settings EXCEPT ![c.key] = c.value]
                             ELSE settings
              /\ UNCHANGED <<phase, told, ladderVars>>
        /\ UNCHANGED <<known, dialVars, linkVars, shell, cancelled,
                       sent>>

BackoffTakes ==
    LET c == Head(queue)
    IN  /\ phase = "backoff" /\ ~cancelled /\ queue # << >>
        /\ queue' = Tail(queue)
        /\ \/ /\ c.kind = "ReconnectNow"
              /\ Dial /\ attempts' = 0 /\ dials' = 1
              /\ UNCHANGED <<settings, chained>>
           \/ /\ c.kind = "Disconnect"
              /\ Stop
              /\ UNCHANGED <<settings, ladderVars>>
           \/ /\ c.kind \notin {"ReconnectNow", "Disconnect"}
              /\ settings' = IF c.kind = "Set" /\ c.key \in Absorbed
                             THEN [settings EXCEPT ![c.key] = c.value]
                             ELSE settings
              /\ UNCHANGED <<phase, told, ladderVars>>
        /\ UNCHANGED <<known, dialVars, linkVars, shell, cancelled,
                       sent>>

BackoffCancelled ==
    /\ phase = "backoff" /\ cancelled
    /\ Stop
    /\ UNCHANGED <<settings, known, dialVars, linkVars, ladderVars,
                   shellVars>>

\* The select polls the sleep first, but a command that was there before is
\* read while the sleep still runs; one that arrives as it ends is left in the
\* channel, as if it had been sent during the dial.
Elapsed ==
    /\ phase = "backoff" /\ ~cancelled /\ queue = << >>
    /\ Dial
    /\ dials' = dials + 1
    /\ UNCHANGED <<settings, known, dialVars, linkVars, attempts,
                   chained, shellVars>>

----------------------------------------------------------------------------

Stopped == phase = "stopped" /\ UNCHANGED vars

Dialing == Reaches \/ DialFails \/ DialCancelled
Authenticating == Asks \/ Rejected \/ Established
Asking == AskTakes \/ AskCancelled
Waiting == BackoffTakes \/ BackoffCancelled \/ Elapsed

Next ==
    \/ SendAny \/ Cancel \/ ShellGoes
    \/ Dialing \/ Authenticating \/ Asking \/ Waiting
    \/ LiveTakes \/ SettleOne \/ LiveCancelled
    \/ StartUpdate \/ UpdateTakes \/ FinishUpdate
    \/ LinkLost \/ ServerRedirects \/ EmitFails \/ ServerStalls \/ StaysUp
    \/ Stopped

Spec == Init /\ [][Next]_vars

\* The task is polled for as long as it runs; a dial ends one way or another
\* before the handshake, where every step has a timeout; a sleep ends; and a
\* server that has not stalled answers the handshake and finishes the update
\* it has begun.  Nothing is assumed of a stalled server, whose link may stay
\* up for ever, nor of the person at a prompt.
Fairness ==
    /\ WF_vars(phase = "dialing" /\ Dialing)
    /\ WF_vars(DialCancelled)
    /\ WF_vars(~stalled /\ (Authenticating \/ DialFails))
    /\ WF_vars(Asking)
    /\ WF_vars(Waiting)
    /\ WF_vars(LiveTakes \/ LiveCancelled)
    /\ WF_vars(UpdateTakes)
    /\ WF_vars(FinishUpdate)
    /\ WF_vars(SettleOne \/ EmitFails)

FairSpec == Spec /\ Fairness

----------------------------------------------------------------------------
(* Properties. *)

TypeOK ==
    /\ phase \in Phase
    /\ queue \in Seq(Command) /\ deferred \in Seq(Command)
    /\ settings \in [Setting -> BOOLEAN]
    /\ attempts \in Nat /\ chained \in Nat /\ dials \in Nat /\ sent \in Nat
    /\ tries \in 1..MaxTries
    /\ {stable, stalled, typed, known, shell, cancelled, pressed, broken}
            \subseteq BOOLEAN
    /\ told \in {"Idle", "Connecting", "Connected", "Reconnecting",
                 "Disconnected"}

\* However a session ends (the person, the policy, a failure, a chain of
\* redirections, a cancellation, in whatever phase), the shell that listens
\* is told that it is over, and is told nothing after that.
EndIsAnnounced ==
    shell => (phase = "stopped" <=> told = "Disconnected")

\* A peer that never stays up is dialled a bounded number of times between
\* two things the person does, whatever mixture of failures and redirections
\* it answers with: neither counter can be used to reset the other.
DialsAreBounded ==
    MaxAttempts # None => dials <= (MaxAttempts + 1) * (MaxChained + 1)

\* Input safety: a connection the session ends itself (a disconnect or a
\* reconnect asked for in the run loop, in an update or parked behind one, a
\* cancellation, a dropped handle) leaves no key down, and one that is only
\* watched holds none.  A connection that ends in an error leaves down what it
\* held, also when the link still works (a message the client cannot parse):
\* `?` passes the releases by, though the comment on them reads "never leave a
\* stuck modifier, or a stuck mouse button, behind".
LeavesNothingDown ==
    /\ phase \notin Live /\ ~broken => ~pressed
    /\ phase \in Live /\ ViewOnly(settings) => ~pressed

\* A disconnect is obeyed: once the person's Disconnect is on the channel the
\* session ends, whether it is dialling, asking, reading an update or waiting,
\* unless the server stalls (in the handshake or in an update the channel is
\* not read, and a release that does not go out keeps the task).  Giving the
\* session up ends a stalled handshake as well.
DisconnectIsObeyed ==
    /\ (\E i \in DOMAIN queue : queue[i].kind = "Disconnect")
           ~> (phase = "stopped" \/ stalled)
    /\ cancelled ~> (phase = "stopped" \/ (phase \in Live /\ stalled))

=============================================================================
