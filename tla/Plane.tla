------------------------------- MODULE Plane -------------------------------
(***************************************************************************)
(* The agent plane of crates/agent-plane on one limb: the dispatch of      *)
(* intents, which is a walk over several commands with a look at the lease *)
(* before each, the sweep a lease change owes the limb, and the session's  *)
(* bounded command channel between them and the machine.                   *)
(*                                                                         *)
(* The lease is what Lock promises (Lease implements it): who may dispatch *)
(* changes by itself at any moment, and every change starts a sweep whose  *)
(* last step completes the hand over.  Intents, sweeps, the session, its   *)
(* answers and the viewer's own commands interleave at every await and at  *)
(* every lock.  A deadline may pass whenever it is waited for.             *)
(***************************************************************************)
EXTENDS Naturals, Sequences, FiniteSets, SequencesExt

CONSTANTS
    Intent,     \* the intents that may be dispatched
    Grant,      \* the grants they are dispatched under
    GrantOf,    \* Intent -> Grant
    Mixes,      \* which kinds the intents may be: a set of functions
    Sweeper,    \* the tasks that may be honouring a lease change
    None,       \* nobody
    Capacity,   \* the bound of the session's command channel
    Reserved,   \* the free slots the plane leaves alone: reserved_slots
    MaxChanges, \* bound: the changes of the lease that owe a sweep
    MaxOthers   \* bound: the viewer's commands in the channel at a time

Kind == {"type", "move", "click", "drag", "native"}

ASSUME PlaneAssumption ==
    /\ GrantOf \in [Intent -> Grant]
    /\ None \notin Grant \cup Intent \cup Sweeper
    /\ Intent \cap Sweeper = {}
    /\ IsFiniteSet(Intent) /\ IsFiniteSet(Sweeper)
    /\ Mixes \subseteq [Intent -> Kind]
    /\ MaxChanges \in Nat /\ MaxOthers \in Nat
    /\ Capacity \in Nat /\ Reserved \in Nat /\ Reserved < Capacity

VARIABLES
    driver,     \* the grant the fence lets through, or None
    fenced,     \* the holder that keeps the lease and may not dispatch
    chosen,     \* the holder a hand over waits to complete for
    changes,    \* how often the lease has changed, for the bound
    sweep,      \* Sweeper -> where its honour is
    it,         \* Intent -> where its dispatch is
    chan,       \* the session's channel, and behind its bound who waits
    open,       \* the session's task reads the channel
    down,       \* <<intent, "key" or "button">> it holds down on the machine
    answers,    \* native intents the driver answered and nobody reported yet
    unheard,    \* history: note_answer found nobody waiting for this one
    late,       \* history: steps sent since the intent's grant was fenced
    madeUp,     \* history: releases made up while its grant was not let through
    logged      \* history: honour logged that its release did not go

lease == <<driver, fenced, chosen, changes>>
history == <<unheard, late, madeUp, logged>>
vars == <<lease, sweep, it, chan, open, down, answers, history>>

----------------------------------------------------------------------------
(* The plans. *)

Command(by, what, part) == [by |-> by, what |-> what, part |-> part]

\* lower: a key, down and up; a move of the pointer; a click and a drag, which
\* arrive with no button, press and let go, the drag with one more point in
\* between; a command the driver serves itself.
Plan(kind) ==
    CASE kind = "type" -> << <<"press", "key">>, <<"lift", "key">> >>
      [] kind = "move" -> << <<"lift", "button">> >>
      [] kind = "click" -> << <<"lift", "button">>, <<"press", "button">>,
                              <<"lift", "button">> >>
      [] kind = "drag" -> << <<"lift", "button">>, <<"press", "button">>,
                             <<"press", "button">>, <<"lift", "button">> >>
      [] kind = "native" -> << <<"agent", "key">> >>

Idle == "idle"

Init ==
    /\ driver = None /\ fenced = None /\ chosen = None
    /\ changes = 0
    /\ sweep = [s \in Sweeper |-> Idle]
    /\ \E mix \in Mixes :
           it = [i \in Intent |->
                    [kind |-> mix[i], at |-> "new", step |-> 1, held |-> FALSE,
                     cancel |-> FALSE, slot |-> "none", end |-> "none",
                     kept |-> FALSE]]
    /\ chan = << >>
    /\ open = TRUE
    /\ down = {}
    /\ answers = {}
    /\ unheard = {}
    /\ late = [i \in Intent |-> 0]
    /\ madeUp = [i \in Intent |-> 0]
    /\ logged = FALSE

----------------------------------------------------------------------------
(* The channel.  What is behind its bound waits for a slot, in order. *)

Free == IF Len(chan) < Capacity THEN Capacity - Len(chan) ELSE 0

Waits(by) == \E n \in DOMAIN chan : n > Capacity /\ chan[n].by = by

\* A sender whose deadline passed leaves the line.
Without(by) ==
    LET n == CHOOSE n \in DOMAIN chan : n > Capacity /\ chan[n].by = by
    IN  RemoveAt(chan, n)

----------------------------------------------------------------------------
(* The lease, and the sweeps it owes. *)

\* A lease call whose answer obliges the caller to release all input: nobody
\* may dispatch, and the caller's honour starts with it.
Change(f, c) ==
    /\ changes < MaxChanges
    /\ changes' = changes + 1
    /\ driver' = None /\ fenced' = f /\ chosen' = c
    /\ \E s \in Sweeper :
           /\ sweep[s] = Idle
           /\ sweep' = [sweep EXCEPT ![s] = "buttons"]
    /\ UNCHANGED <<it, chan, open, down, answers, history>>

\* acquire, or a tick that hands the lease on: the new holder waits.
HandTo(g) == chosen # g /\ driver # g /\ fenced # g /\ Change(None, g)

\* acquire by a party that outranks the holder: a preemption has started.  The
\* plane's callers cannot call it off.
Fence == driver # None /\ Change(driver, None)

\* release_lease, a tick that frees the lease, and force_release.
Vacate == Change(None, None)

\* Mutant of NextSweep: the buttons only.
NextSweepButtons(s) == "confirm"

\* The caller of honour goes from the buttons to the keys, then confirms.
NextSweep(s) == IF sweep[s] = "buttons" THEN "keys" ELSE "confirm"

\* send_step for a command that jumps the queue: it goes, or it waits for a
\* slot.
SweepSends(s) ==
    /\ sweep[s] \in {"buttons", "keys"}
    /\ open /\ ~Waits(s)
    /\ chan' = Append(chan, Command(s, "sweep", IF sweep[s] = "keys" THEN "key"
                                                ELSE "button"))
    /\ sweep' = IF Free > 0 THEN [sweep EXCEPT ![s] = NextSweep(s)] ELSE sweep
    /\ UNCHANGED <<lease, it, open, down, answers, history>>

\* The wait for a slot ended without one, or the session is gone: logged.
SweepFails(s) ==
    /\ sweep[s] \in {"buttons", "keys"}
    /\ \/ ~open /\ UNCHANGED chan
       \/ open /\ Waits(s) /\ chan' = Without(s)
    /\ sweep' = [sweep EXCEPT ![s] = NextSweep(s)]
    /\ logged' = TRUE
    /\ UNCHANGED <<lease, it, open, down, answers, unheard, late, madeUp>>

\* confirm_release, if a hand over is under way.
Confirm(s) ==
    /\ sweep[s] = "confirm"
    /\ sweep' = [sweep EXCEPT ![s] = Idle]
    /\ IF chosen = None THEN UNCHANGED <<lease, late>>
       ELSE /\ driver' = chosen /\ fenced' = None /\ chosen' = None
            /\ late' = [i \in Intent |-> IF GrantOf[i] = chosen THEN 0
                                         ELSE late[i]]
            /\ UNCHANGED changes
    /\ UNCHANGED <<it, chan, open, down, answers, unheard, madeUp, logged>>

----------------------------------------------------------------------------
(* An intent. *)

Running(i) == it[i].at \notin {"new", "settled"}

\* What leaves a dispatch leaves the table of running intents and the list
\* of awaited answers too: the guards of both are dropped with it.
Settle(i, end) ==
    it' = [it EXCEPT ![i] = [@ EXCEPT !.at = "settled", !.end = end,
                                      !.slot = "none"]]

\* A check of dispatch fails: the host, the limb's or the grant's abilities,
\* the state the limb was last reported in, the lease, the geometry, what the
\* intent asks, or another intent of the grant's is in flight.
Refuse(i) ==
    /\ it[i].at = "new"
    /\ Settle(i, "Refused")
    /\ UNCHANGED <<lease, sweep, chan, open, down, answers, history>>

\* Mutant of Start: the answer is listened for once the command went.
StartUnheard(i) ==
    /\ it[i].at = "new"
    /\ driver = GrantOf[i]
    /\ ~\E j \in Intent : Running(j) /\ GrantOf[j] = GrantOf[i]
    /\ it' = [it EXCEPT ![i].at = IF it[i].kind = "native" THEN "room"
                                  ELSE "walk"]
    /\ UNCHANGED <<lease, sweep, chan, open, down, answers, history>>

\* start_running, and for a native intent listen_for_answer before the send.
Start(i) ==
    /\ it[i].at = "new"
    /\ driver = GrantOf[i]
    /\ ~\E j \in Intent : Running(j) /\ GrantOf[j] = GrantOf[i]
    /\ it' = [it EXCEPT ![i] =
                 IF @.kind = "native"
                 THEN [@ EXCEPT !.at = "room", !.slot = "open"]
                 ELSE [@ EXCEPT !.at = "walk"]]
    /\ UNCHANGED <<lease, sweep, chan, open, down, answers, history>>

\* cancel_running, by an intent that withdraws this one or by a stop.
Cancel(i) ==
    /\ Running(i) /\ ~it[i].cancel
    /\ it' = [it EXCEPT ![i].cancel = TRUE]
    /\ UNCHANGED <<lease, sweep, chan, open, down, answers, history>>

\* Mutant of EndWalk: only a supersession lifts a button that is down.
EndWalkSuperseded(i, end) ==
    IF it[i].held /\ end = "Superseded"
    THEN it' = [it EXCEPT ![i] = [@ EXCEPT !.at = "letgo", !.end = end]]
    ELSE Settle(i, end)

\* The walk is over.  A drag whose press went and whose release did not is
\* let go of before the settlement.
EndWalk(i, end) ==
    IF it[i].held
    THEN it' = [it EXCEPT ![i] = [@ EXCEPT !.at = "letgo", !.end = end]]
    ELSE Settle(i, end)

\* Mutant of Look: the lease is looked at when the dispatch starts.
LookOnce(i) ==
    /\ it[i].at = "walk"
    /\ CASE it[i].step > Len(Plan(it[i].kind)) ->
                \/ EndWalk(i, "Done")
                \/ it[i].kind = "type" /\ it[i].cancel /\ EndWalk(i, "Cancelled")
         [] it[i].step <= Len(Plan(it[i].kind)) /\ it[i].cancel ->
                EndWalk(i, "Cancelled")
         [] OTHER -> it' = [it EXCEPT ![i].at = "room"]
    /\ UNCHANGED <<lease, sweep, chan, open, down, answers, history>>

\* Before each step: withdrawn, superseded, or on to the next command.  The
\* pauses between steps end here too.
Look(i) ==
    /\ it[i].at = "walk"
    /\ CASE it[i].step > Len(Plan(it[i].kind)) ->
                \/ EndWalk(i, "Done")
                \/ it[i].kind = "type" /\ it[i].cancel /\ EndWalk(i, "Cancelled")
         [] it[i].step <= Len(Plan(it[i].kind)) /\ it[i].cancel ->
                EndWalk(i, "Cancelled")
         [] /\ it[i].step <= Len(Plan(it[i].kind))
            /\ ~it[i].cancel /\ driver # GrantOf[i] ->
                EndWalk(i, "Superseded")
         [] OTHER -> it' = [it EXCEPT ![i].at = "room"]
    /\ UNCHANGED <<lease, sweep, chan, open, down, answers, history>>

Command1(i) == Plan(it[i].kind)[it[i].step]

Sent(i) ==
    IF it[i].kind = "native" THEN [it[i] EXCEPT !.at = "answer"]
    ELSE [it[i] EXCEPT !.at = "walk", !.step = @ + 1,
                       !.held = it[i].kind = "drag"
                                /\ Command1(i) = <<"press", "button">>]

\* send_step: there is room beyond the reservation.  The lease is not looked
\* at again, however long the wait for it was.
Send(i) ==
    /\ it[i].at = "room"
    /\ open /\ Free > Reserved
    /\ chan' = Append(chan, Command(i, Command1(i)[1], Command1(i)[2]))
    /\ it' = [it EXCEPT ![i] = Sent(i)]
    /\ late' = IF driver = GrantOf[i] THEN late ELSE [late EXCEPT ![i] = @ + 1]
    /\ UNCHANGED <<lease, sweep, open, down, answers, unheard, madeUp, logged>>

\* Stale motion on a full channel is dropped and counted; the walk goes on.
Shed(i) ==
    /\ it[i].at = "room" /\ it[i].kind = "move"
    /\ open /\ Free <= Reserved
    /\ it' = [it EXCEPT ![i] = [@ EXCEPT !.at = "walk", !.step = it[i].step + 1]]
    /\ UNCHANGED <<lease, sweep, chan, open, down, answers, history>>

\* The channel stayed full past the deadline.  A walk of which part went says
\* so.
Block(i) ==
    /\ open
    /\ it[i].at = "room" /\ it[i].kind # "move"
    /\ Free <= Reserved
    /\ EndWalk(i, IF it[i].step = 1 THEN "Blocked" ELSE "Partial")
    /\ UNCHANGED <<lease, sweep, chan, open, down, answers, history>>

\* The session is gone.
Lose(i) ==
    /\ it[i].at = "room"
    /\ ~open
    /\ EndWalk(i, "LinkLost")
    /\ UNCHANGED <<lease, sweep, chan, open, down, answers, history>>

\* The made up release of this intent is on the channel.
Released(i) ==
    madeUp' = IF driver = GrantOf[i] THEN madeUp
              ELSE [madeUp EXCEPT ![i] = @ + 1]

\* The release the plane makes up: it jumps the queue as a sweep does, and the
\* lease is not looked at for it.
LetGo(i) ==
    /\ it[i].at = "letgo"
    /\ open /\ ~Waits(i)
    /\ chan' = Append(chan, Command(i, "lift", "button"))
    /\ IF Free > 0 THEN Settle(i, it[i].end) /\ Released(i)
       ELSE UNCHANGED <<it, madeUp>>
    /\ UNCHANGED <<lease, sweep, open, down, answers, unheard, late, logged>>

\* It did not go; the settlement says the release was made all the same.
LetGoFails(i) ==
    /\ it[i].at = "letgo"
    /\ \/ ~open /\ UNCHANGED chan
       \/ open /\ Waits(i) /\ chan' = Without(i)
    /\ it' = [it EXCEPT ![i] = [@ EXCEPT !.at = "settled", !.kept = TRUE]]
    /\ UNCHANGED <<lease, sweep, open, down, answers, history>>

\* Mutant of Answer: only an answer ends the wait for one.
AnswerOnly(i) ==
    /\ it[i].at = "answer"
    /\ it[i].slot = "full" /\ Settle(i, "Answered")
    /\ UNCHANGED <<lease, sweep, chan, open, down, answers, history>>

\* serve_natively's select: the answer, the window, or a withdrawal.
Answer(i) ==
    /\ it[i].at = "answer"
    /\ \/ it[i].slot = "full" /\ Settle(i, "Answered")
       \/ Settle(i, "TimedOut")
       \/ it[i].cancel /\ Settle(i, "Cancelled")
    /\ UNCHANGED <<lease, sweep, chan, open, down, answers, history>>

----------------------------------------------------------------------------
(* The session, the machine behind it and the reporter of its answers. *)

\* What a slot that frees does for whoever waits for one.
Admitted(c) ==
    /\ sweep' = IF c.by \in Sweeper
                THEN [sweep EXCEPT ![c.by] = NextSweep(c.by)] ELSE sweep
    /\ IF c.by \in Intent THEN Settle(c.by, it[c.by].end) /\ Released(c.by)
       ELSE UNCHANGED <<it, madeUp>>

Buttons(d) == {x \in d : x[2] = "button"}

\* A pointer command carries the whole mask, so it presses and lifts for
\* everybody; a key is its intent's; a sweep lifts every button or every key.
Applied(d, c) ==
    CASE c.what = "press" /\ c.part = "button" ->
             (d \ Buttons(d)) \cup {<<c.by, "button">>}
      [] c.what \in {"lift", "sweep"} /\ c.part = "button" -> d \ Buttons(d)
      [] c.what = "press" /\ c.part = "key" -> d \cup {<<c.by, "key">>}
      [] c.what = "lift" /\ c.part = "key" -> d \ {<<c.by, "key">>}
      [] c.what = "sweep" /\ c.part = "key" -> Buttons(d)
      [] OTHER -> d

Serve ==
    /\ open /\ chan # << >>
    /\ chan' = Tail(chan)
    /\ down' = Applied(down, Head(chan))
    /\ answers' = IF Head(chan).what = "agent" THEN answers \cup {Head(chan).by}
                  ELSE answers
    /\ IF Len(chan) > Capacity THEN Admitted(chan[Capacity + 1])
       ELSE UNCHANGED <<sweep, it, madeUp>>
    /\ UNCHANGED <<lease, open, unheard, late, logged>>

\* The viewer's own commands share the channel.
OtherPuts ==
    /\ open /\ Free > 0
    /\ Cardinality({n \in DOMAIN chan : chan[n].what = "other"}) < MaxOthers
    /\ chan' = Append(chan, Command(None, "other", "key"))
    /\ UNCHANGED <<lease, sweep, it, open, down, answers, history>>

Close ==
    /\ open
    /\ open' = FALSE
    /\ chan' = << >>
    /\ UNCHANGED <<lease, sweep, it, down, answers, history>>

\* note_refused, note_served: the answer goes to whoever listens for it.
Note(i) ==
    /\ i \in answers
    /\ answers' = answers \ {i}
    /\ IF it[i].slot = "open"
       THEN it' = [it EXCEPT ![i].slot = "full"] /\ UNCHANGED unheard
       ELSE unheard' = unheard \cup {i} /\ UNCHANGED it
    /\ UNCHANGED <<lease, sweep, chan, open, down, late, madeUp, logged>>

----------------------------------------------------------------------------

Next ==
    \/ \E g \in Grant : HandTo(g)
    \/ Fence
    \/ Vacate
    \/ \E s \in Sweeper : SweepSends(s) \/ SweepFails(s) \/ Confirm(s)
    \/ \E i \in Intent :
           \/ Refuse(i)
           \/ Start(i)
           \/ Cancel(i)
           \/ Look(i)
           \/ Send(i)
           \/ Shed(i)
           \/ Block(i)
           \/ Lose(i)
           \/ LetGo(i)
           \/ LetGoFails(i)
           \/ Answer(i)
           \/ Note(i)
    \/ Serve
    \/ OtherPuts
    \/ Close

Spec == Init /\ [][Next]_vars

\* The steps of an intent that its task takes by itself.
Step(i) ==
    \/ Look(i) \/ Send(i) \/ Shed(i) \/ Lose(i) \/ LetGo(i)
    \/ LetGoFails(i) \/ Answer(i)

\* Tasks are polled and timers fire.  Nothing is assumed of the session: it
\* may never take another command.
Fairness ==
    \A i \in Intent : /\ WF_vars(Step(i))
                      /\ WF_vars(LetGoFails(i))
                      /\ SF_vars(Block(i))

FairSpec == Spec /\ Fairness

----------------------------------------------------------------------------
(* Properties. *)

TypeOK ==
    /\ {driver, fenced, chosen} \subseteq Grant \cup {None}
    /\ changes \in 0..MaxChanges
    /\ sweep \in [Sweeper -> {Idle, "buttons", "keys", "confirm"}]
    /\ it \in [Intent ->
           [kind : Kind, step : 1..5,
            at : {"new", "walk", "room", "letgo", "answer", "settled"},
            held : BOOLEAN, cancel : BOOLEAN, slot : {"none", "open", "full"},
            end : {"none", "Refused", "Done", "Cancelled", "Superseded",
                   "Blocked", "Partial", "LinkLost", "Answered", "TimedOut"},
            kept : BOOLEAN]]
    /\ chan \in Seq([by : Intent \cup Sweeper \cup {None},
                     what : {"press", "lift", "agent", "sweep", "other"},
                     part : {"key", "button"}])
    /\ Len(chan) <= Capacity + Cardinality(Sweeper) + Cardinality(Intent)
    /\ open \in BOOLEAN
    /\ down \subseteq Intent \X {"key", "button"}
    /\ answers \subseteq Intent /\ unheard \subseteq Intent
    /\ late \in [Intent -> Nat] /\ madeUp \in [Intent -> Nat]
    /\ logged \in BOOLEAN

\* Whether a command presses, or lets go of, what an intent holds: x is the
\* intent and the part, as in down.
Pressing(c, x) == c.what = "press" /\ c.by = x[1] /\ c.part = x[2]
Releasing(c, x) ==
    /\ c.part = x[2]
    /\ \/ c.what = "sweep"
       \/ c.what = "lift" /\ (x[2] = "button" \/ c.by = x[1])
       \/ c.what = "press" /\ x[2] = "button" /\ c.by # x[1]

\* What is down of d, or pressed by the commands q, and not let go of by one
\* of them afterwards: what applying q to d leaves down.
Remaining(d, q) ==
    {x \in Intent \X {"key", "button"} :
        \/ x \in d /\ \A m \in DOMAIN q : ~Releasing(q[m], x)
        \/ \E n \in DOMAIN q :
               Pressing(q[n], x) /\ \A m \in DOMAIN q : Releasing(q[m], x) => m < n}

\* What the machine will hold down once the channel has drained.
Coming == Remaining(down, chan)

\* An answer that finds nobody waiting came too late, never too early: its
\* intent has settled.  A driver may answer before the send has returned
\* (serve_natively, listen_for_answer, note_answer).
AnswersAreHeard == \A i \in unheard : it[i].at = "settled"

\* A grant that has lost the wheel gets at most one more step of each intent
\* onto the channel, the one that was waiting for room when the lease went
\* (actuate looks at the lease before every step, send_step does not), and, of
\* a drag only, the one release the plane makes up for it, which asks no lease:
\* two commands at the most for a drag, one for anything else.  The comment on
\* stop says "nothing more of the holder's reaches the wire from this instant".
OneStraggler ==
    \A i \in Intent : /\ late[i] <= 1
                      /\ madeUp[i] <= IF it[i].kind = "drag" THEN 1 ELSE 0

\* Once an intent has settled, what it put on the channel leaves nothing of
\* its own down: a drag however it ended, unless the release the plane made
\* up for it found no slot, and any other intent that ran to its end (actuate
\* and its made up release).
SettledLetsGo ==
    \A i \in Intent :
        /\ it[i].at = "settled" /\ ~it[i].kept /\ open
        /\ it[i].kind = "drag" \/ it[i].end = "Done"
        => \A x \in Coming : x[1] # i

\* When every honour owed has ended and none had to log that its release did
\* not go, nothing stays down for a grant that may not dispatch, stragglers
\* apart: buttons and keys are swept at every change of the lease (honour).
SweptInTheEnd ==
    open /\ ~logged /\ (\A s \in Sweeper : sweep[s] = Idle) =>
        \A x \in Coming : GrantOf[x[1]] = driver \/ late[x[1]] > 0

\* Every intent that was started is settled, even if the session never takes
\* another command and never answers (dispatch answers on every path).
EveryIntentSettles ==
    \A i \in Intent : Running(i) ~> it[i].at = "settled"
=============================================================================
