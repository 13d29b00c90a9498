-------------------------------- MODULE Help --------------------------------
(***************************************************************************)
(* A computer shared by invitation (boundary-session/src/session.rs), with *)
(* the window of the person being helped (commands/support.rs).  Helpers   *)
(* knock; the person is asked about one at a time; the one let in is       *)
(* served: its input goes through the worker, which stamps each event with *)
(* the generation of the person's permission, over a bounded channel to    *)
(* the desktop's thread, which looks at the permission again and applies   *)
(* it.  The person may take control or the helper's tools back, and end    *)
(* the session, at any moment.                                             *)
(*                                                                         *)
(* The window polls for what the worker has to say, and the person's click *)
(* takes its time to get there and carries no helper: it may be about a    *)
(* question that was withdrawn meanwhile, and land on another.  Input is   *)
(* one key, going down or up, a release of everything, or a move.  Timers  *)
(* are steps that may happen.                                              *)
(***************************************************************************)
EXTENDS Naturals, Sequences, FiniteSets

CONSTANTS
    None,          \* no helper
    Helper,        \* helpers, each of which knocks once
    Capacity,      \* of the channel to the desktop's thread
    Scenes         \* environments, one per behaviour: who knocks, which of
                   \* them can send commands, what the person may answer,
                   \* whether to tick the tools, what input
                   \* is sent, how much of it, and how often the person changes
                   \* their mind

Decision == {"deny", "view", "control"}
Input == {"press", "lift", "release", "move"}

ASSUME HelpAssumption ==
    /\ None \notin Helper \cup Decision
    /\ Capacity \in Nat \ {0}
    /\ \A s \in Scenes :
        /\ s.helpers \subseteq Helper /\ s.able \subseteq s.helpers
        /\ s.decisions \subseteq Decision
        /\ s.ticks \subseteq BOOLEAN
        /\ s.inputs \subseteq Input /\ s.sends \in Nat /\ s.changes \in Nat

VARIABLES
    scene,      \* the environment of this behaviour
    conn,       \* each helper's connection
    knocks,     \* the channel of knocks
    host,       \* where the worker is
    pending,    \* the helper the person is being asked about
    answer,     \* the answer on its way to the worker
    served,     \* the helper that was let in
    notes,      \* events on their way to the window, which takes them all in
                \* every 150 ms: their channel, of 32, is not bounded here
    prompt,     \* the question the window holds
    click,      \* the person's answer on its way to the window
    window,     \* "open", "connected" or, once the person stopped, "closed"
    perm,       \* Permission: allowed, generation
    news,       \* changes of it the helper has to be told
    tools,      \* whether the helper's commands are allowed
    toolsNews,
    cancel,     \* the session's token
    up,         \* the served helper's messages
    down,       \* the host's messages to it
    belief,     \* what it was last told about control
    hand,       \* the event the worker has stamped and not yet passed on
    chan,       \* the channel to the desktop's thread
    desk,       \* that thread: where it is, its generation, the event it applies
    held,       \* the stamps of the presses that hold a key down
    sent, changes,
    ticked,     \* history: helpers whose tools the person allowed
    mistaken    \* history: helpers that got the tick meant for another

doorVars == <<knocks, pending, answer, served>>
windowVars == <<prompt, click, window, changes>>
tickVars == <<ticked, mistaken>>
permVars == <<perm, news, tools, toolsNews, tickVars>>
wireVars == <<up, down, belief, sent>>
deskVars == <<chan, desk, held>>
vars == <<scene, conn, host, doorVars, notes, windowVars, permVars, cancel,
          wireVars, hand, deskVars>>

\* An event with the generation it was stamped with.
Stamped == [gen : Nat, input : Input]
Nothing == [gen |-> 0, input |-> "move"]

\* What the person said to the question they saw.
Clicked == [on : Helper, decision : Decision, tick : BOOLEAN]

TypeOK ==
    /\ scene \in Scenes
    /\ conn \in [Helper -> {"out", "knocked", "served", "away", "left"}]
    /\ knocks \in Seq(Helper)
    /\ host \in {"open", "granting", "serving", "closing", "over"}
    /\ {pending, served, prompt} \subseteq Helper \cup {None}
    /\ answer \in Decision \cup {None}
    /\ notes \in Seq([kind : {"ask", "in", "fin"}, who : Helper \cup {None}])
    /\ window \in {"open", "connected", "closed"}
    /\ perm \in [allowed : BOOLEAN, gen : Nat]
    /\ {news, tools, toolsNews, cancel, belief} \subseteq BOOLEAN
    /\ up \in Seq(Input)
    /\ down \in Seq([kind : {"granted", "control", "tools"}, value : BOOLEAN])
    /\ hand \in Stamped \cup {None}
    /\ chan \in Seq(Stamped) /\ Len(chan) <= Capacity
    /\ desk \in [at : {"off", "start", "top", "batch", "apply", "ended"},
                 gen : Nat, event : Stamped]
    /\ held \subseteq Nat
    /\ sent \in 0..scene.sends /\ changes \in 0..scene.changes
    /\ click \in Clicked \cup {None}
    /\ ticked \subseteq Helper /\ mistaken \subseteq Helper

Init ==
    /\ scene \in Scenes
    /\ conn = [h \in Helper |-> "out"]
    /\ host = "open"
    /\ knocks = << >> /\ pending = None /\ answer = None /\ served = None
    /\ notes = << >> /\ prompt = None /\ click = None
    /\ window = "open" /\ changes = 0
    /\ perm = [allowed |-> FALSE, gen |-> 0] /\ news = FALSE
    /\ tools = FALSE /\ toolsNews = FALSE /\ ticked = {}
    /\ mistaken = {}
    /\ cancel = FALSE
    /\ up = << >> /\ down = << >> /\ belief = FALSE /\ sent = 0
    /\ hand = None
    /\ chan = << >> /\ held = {}
    /\ desk = [at |-> "off", gen |-> 0, event |-> Nothing]

-----------------------------------------------------------------------------
(* The door. *)

\* front_door: each connection is read on a task of its own, so knocks come
\* in any order; one that says hello too late is dropped unheard.
Knock(h) ==
    /\ h \in scene.helpers /\ conn[h] = "out" /\ host # "over"
    /\ conn' = [conn EXCEPT ![h] = "knocked"]
    /\ knocks' = Append(knocks, h)
    /\ UNCHANGED <<scene, host, pending, answer, served, notes, windowVars,
                   permVars, cancel, wireVars, hand, deskVars>>

\* The helper goes away, or its link does, at any moment.
Leave(h) ==
    /\ conn[h] \in {"knocked", "served"}
    /\ conn' = [conn EXCEPT ![h] = "left"]
    /\ UNCHANGED <<scene, host, doorVars, notes, windowVars, permVars, cancel,
                   wireVars, hand, deskVars>>

\* turn_away.
TurnedAway(h) == [conn EXCEPT ![h] = IF @ = "left" THEN @ ELSE "away"]

\* A knock while nobody is being asked about becomes the question; the
\* permission for tools is taken back first.
HostAsks ==
    LET h == Head(knocks)
    IN  /\ host = "open" /\ ~cancel
        /\ knocks # << >> /\ pending = None
        /\ knocks' = Tail(knocks)
        /\ tools' = FALSE /\ toolsNews' = TRUE
        /\ notes' = Append(notes, [kind |-> "ask", who |-> h])
        /\ pending' = h
        /\ UNCHANGED <<scene, conn, host, answer, served, windowVars, perm, news,
                       tickVars, cancel, wireVars, hand, deskVars>>

\* Mutant: nobody is left to refuse once somebody is in.
HostRefusesWhileAsking ==
    /\ knocks # << >> /\ ~cancel
    /\ host = "open" /\ pending # None
    /\ knocks' = Tail(knocks)
    /\ conn' = TurnedAway(Head(knocks))
    /\ UNCHANGED <<scene, host, pending, answer, served, notes, windowVars,
                   permVars, cancel, wireVars, hand, deskVars>>

\* Any other knock is refused, by the loop or, once somebody is in, by the
\* task it leaves behind.
HostRefuses ==
    /\ knocks # << >> /\ ~cancel
    /\ \/ host = "open" /\ pending # None
       \/ host \in {"granting", "serving", "closing"}
    /\ knocks' = Tail(knocks)
    /\ conn' = TurnedAway(Head(knocks))
    /\ UNCHANGED <<scene, host, pending, answer, served, notes, windowVars,
                   permVars, cancel, wireVars, hand, deskVars>>

\* The invitation expires only between two questions.
Expire ==
    /\ host = "open" /\ ~cancel /\ pending = None
    /\ host' = "closing"
    /\ UNCHANGED <<scene, conn, doorVars, notes, windowVars, permVars, cancel,
                   wireVars, hand, deskVars>>

\* settle: the helper left, or nobody answered in time; both withdraw the
\* question.
Withdrawn ==
    /\ host = "open" /\ ~cancel /\ pending # None
    /\ conn[pending] = "left" \/ answer = None
    /\ conn' = TurnedAway(pending)
    /\ pending' = None /\ answer' = None
    /\ UNCHANGED <<scene, host, knocks, served, notes, windowVars, permVars,
                   cancel, wireVars, hand, deskVars>>

Denied ==
    /\ host = "open" /\ ~cancel /\ pending # None
    /\ answer = "deny"
    /\ conn' = TurnedAway(pending)
    /\ pending' = None /\ answer' = None
    /\ UNCHANGED <<scene, host, knocks, served, notes, windowVars, permVars,
                   cancel, wireVars, hand, deskVars>>

\* serve: the permission becomes what was answered, a helper that has no tools
\* is allowed none, the desktop's thread starts, and the grant is written.
Granted ==
    LET h == pending
        may == tools /\ h \in scene.able
    IN  /\ host = "open" /\ ~cancel /\ h # None
        /\ answer \in {"view", "control"}
        /\ host' = "granting"
        /\ served' = h /\ pending' = None /\ answer' = None
        /\ conn' = [conn EXCEPT ![h] = IF @ = "left" THEN @ ELSE "served"]
        /\ perm' = [allowed |-> answer = "control", gen |-> perm.gen + 1]
        /\ tools' = may /\ toolsNews' = FALSE
        /\ down' = <<[kind |-> "granted", value |-> answer = "control"]>>
        /\ desk' = [desk EXCEPT !.at = "start"]
        /\ UNCHANGED <<scene, knocks, notes, windowVars, news, tickVars, cancel,
                       up, belief, sent, hand, chan, held>>

\* The window hears that the helper is in; changes up to here are taken as
\* said by the grant.
Connected ==
    /\ host = "granting" /\ ~cancel
    /\ host' = "serving"
    /\ notes' = Append(notes, [kind |-> "in", who |-> served])
    /\ news' = FALSE
    /\ UNCHANGED <<scene, conn, doorVars, windowVars, perm, tools, toolsNews,
                   tickVars, cancel, wireVars, hand, deskVars>>

\* The session ends: the helper is gone or silent, the computer does not take
\* input for too long, or the desktop's thread has failed.
ServeEnds ==
    /\ host \in {"granting", "serving"} /\ ~cancel
    /\ host' = "closing"
    /\ conn' = TurnedAway(served)
    /\ UNCHANGED <<scene, doorVars, notes, windowVars, permVars, cancel,
                   wireVars, hand, deskVars>>

\* Mutant: the token is left to the window.
FinishUncancelled ==
    /\ host = "closing" \/ (cancel /\ host # "over")
    /\ host' = "over"
    /\ notes' = Append(notes, [kind |-> "fin", who |-> None])
    /\ conn' = [h \in Helper |-> IF conn[h] \in {"knocked", "served"} THEN "away"
                                 ELSE conn[h]]
    /\ UNCHANGED <<scene, doorVars, windowVars, permVars, cancel, wireVars, hand,
                   deskVars>>

\* The worker is done, however that came about: only now is the token
\* cancelled, if the person's stop was not what ended it.
Finish ==
    /\ host = "closing" \/ (cancel /\ host # "over")
    /\ host' = "over"
    /\ cancel' = TRUE
    /\ notes' = Append(notes, [kind |-> "fin", who |-> None])
    /\ conn' = [h \in Helper |-> IF conn[h] \in {"knocked", "served"} THEN "away"
                                 ELSE conn[h]]
    /\ UNCHANGED <<scene, doorVars, windowVars, permVars, wireVars, hand,
                   deskVars>>

-----------------------------------------------------------------------------
(* What the served helper does, and what it is told. *)

InTouch == served # None /\ conn[served] = "served"

\* The driver sends input while it believes it has control.
HelperSends(input) ==
    /\ InTouch /\ belief
    /\ input \in scene.inputs /\ sent < scene.sends
    /\ sent' = sent + 1
    /\ up' = Append(up, input)
    /\ UNCHANGED <<scene, conn, host, doorVars, notes, windowVars, permVars,
                   cancel, down, belief, hand, deskVars>>

\* On each word on control after the grant the driver forgets what it holds
\* and sends a release.
HelperReads ==
    LET m == Head(down)
    IN  /\ InTouch /\ down # << >>
        /\ down' = Tail(down)
        /\ belief' = IF m.kind = "tools" THEN belief ELSE m.value
        /\ up' = IF m.kind = "control" THEN Append(up, "release") ELSE up
        /\ UNCHANGED <<scene, conn, host, doorVars, notes, windowVars, permVars,
                       cancel, sent, hand, deskVars>>

\* read_input looks at the permission and stamps the event with its
\* generation; without permission only a release goes further.
ReadInput ==
    LET input == Head(up)
    IN  /\ host = "serving" /\ ~cancel /\ InTouch
        /\ hand = None /\ up # << >>
        /\ up' = Tail(up)
        /\ hand' = IF perm.allowed \/ input = "release"
                   THEN [gen |-> perm.gen, input |-> input] ELSE None
        /\ UNCHANGED <<scene, conn, host, doorVars, notes, windowVars, permVars,
                       cancel, down, belief, sent, deskVars>>

\* ... and waits for room in the channel, or drops a move.
PassOn ==
    /\ host = "serving" /\ ~cancel /\ hand # None
    /\ Len(chan) < Capacity \/ hand.input = "move"
    /\ chan' = IF Len(chan) < Capacity THEN Append(chan, hand) ELSE chan
    /\ hand' = None
    /\ UNCHANGED <<scene, conn, host, doorVars, notes, windowVars, permVars,
                   cancel, wireVars, desk, held>>

\* write_control tells the helper the newest value of what has changed.
TellControl ==
    /\ host = "serving" /\ ~cancel /\ InTouch /\ news
    /\ down' = Append(down, [kind |-> "control", value |-> perm.allowed])
    /\ news' = FALSE
    /\ UNCHANGED <<scene, conn, host, doorVars, notes, windowVars, perm, tools,
                   toolsNews, tickVars, cancel, up, belief, sent, hand, deskVars>>

TellTools ==
    /\ host = "serving" /\ ~cancel /\ InTouch /\ toolsNews /\ served \in scene.able
    /\ down' = Append(down, [kind |-> "tools", value |-> tools])
    /\ toolsNews' = FALSE
    /\ UNCHANGED <<scene, conn, host, doorVars, notes, windowVars, perm, news,
                   tools, tickVars, cancel, up, belief, sent, hand, deskVars>>

-----------------------------------------------------------------------------
(* The desktop's thread. *)

DeskRest == <<scene, conn, host, doorVars, notes, windowVars, permVars, cancel,
              wireVars, hand>>

\* desktop_loop opens the desktop, and takes the generation it finds then.
DeskStarts ==
    /\ desk.at = "start"
    /\ desk' = [desk EXCEPT !.at = "top", !.gen = perm.gen]
    /\ UNCHANGED <<DeskRest, chan, held>>

\* Mutant: the thread looks at the permission and not at its generation.
DeskTurnsIfRevoked(idle) ==
    /\ desk.at = "top" /\ ~cancel
    /\ held' = IF ~perm.allowed \/ idle THEN {} ELSE held
    /\ desk' = [desk EXCEPT !.at = "batch", !.gen = perm.gen]
    /\ UNCHANGED <<DeskRest, chan>>

\* A turn of the loop: a generation that has moved, or two seconds without an
\* event, lifts everything.
DeskTurns(idle) ==
    /\ desk.at = "top" /\ ~cancel
    /\ held' = IF perm.gen # desk.gen \/ idle THEN {} ELSE held
    /\ desk' = [desk EXCEPT !.at = "batch", !.gen = perm.gen]
    /\ UNCHANGED <<DeskRest, chan>>

\* It takes an event and, unless that is a release, looks at the permission
\* once more ...
DeskTakes ==
    LET e == Head(chan)
    IN  /\ desk.at = "batch" /\ ~cancel /\ chan # << >>
        /\ chan' = Tail(chan)
        /\ held' = IF e.input = "release" THEN {} ELSE held
        /\ desk' = IF e.input # "release" /\ perm.allowed /\ perm.gen = e.gen
                   THEN [desk EXCEPT !.at = "apply", !.event = e] ELSE desk
        /\ UNCHANGED DeskRest

\* ... and applies it.
DeskApplies ==
    /\ desk.at = "apply"
    /\ held' = CASE desk.event.input = "press" -> held \cup {desk.event.gen}
                 [] desk.event.input = "lift" -> {}
                 [] OTHER -> held
    /\ desk' = [desk EXCEPT !.at = "batch", !.event = Nothing]
    /\ UNCHANGED <<DeskRest, chan>>

\* The batch is over; the screen is captured.
DeskCaptures ==
    /\ desk.at = "batch" /\ ~cancel
    /\ desk' = [desk EXCEPT !.at = "top"]
    /\ UNCHANGED <<DeskRest, chan, held>>

\* The token was cancelled, or the desktop could not be opened, driven or
\* captured: what guards it lifts everything on the way out.
DeskEnds ==
    /\ \/ desk.at \in {"top", "batch"} /\ cancel
       \/ desk.at \in {"start", "apply", "batch"}
    /\ desk' = [desk EXCEPT !.at = "ended", !.event = Nothing]
    /\ held' = {}
    /\ UNCHANGED <<DeskRest, chan>>

-----------------------------------------------------------------------------
(* The window and the person. *)

\* The question among these events that would stand, and whether one says that
\* the helper is in, or that it is over.
Asks(events) == {i \in DOMAIN events : events[i].kind = "ask"}
Says(events, kind) == \E i \in DOMAIN events : events[i].kind = kind
LastAsk(events) ==
    LET i == CHOOSE i \in Asks(events) : \A j \in Asks(events) : j <= i
    IN  events[i].who

\* poll: every event is taken in; then a question that has been withdrawn is
\* put away, and a session that is over is stopped.
Poll ==
    LET kept == IF Asks(notes) # {} THEN LastAsk(notes) ELSE prompt
        in == Says(notes, "in")
        fin == Says(notes, "fin")
    IN  /\ window # "closed"
        /\ notes # << >> \/ (prompt # None /\ prompt # pending)
        /\ notes' = << >>
        /\ prompt' = IF in \/ fin \/ kept # pending THEN None ELSE kept
        /\ window' = IF fin THEN "closed" ELSE IF in THEN "connected" ELSE window
        /\ cancel' = (cancel \/ fin)
        /\ perm' = IF fin THEN [allowed |-> FALSE, gen |-> perm.gen + 1] ELSE perm
        /\ news' = (news \/ fin)
        /\ UNCHANGED <<scene, conn, host, doorVars, click, changes, tools, toolsNews,
                       tickVars, wireVars, hand, deskVars>>

\* The person answers the question they see; tools are on offer only for a
\* helper that has them.
Click(decision, tick) ==
    /\ window = "open" /\ prompt # None /\ click = None
    /\ decision \in scene.decisions /\ tick \in scene.ticks
    /\ tick => prompt \in scene.able
    /\ click' = [on |-> prompt, decision |-> decision, tick |-> tick]
    /\ UNCHANGED <<scene, conn, host, doorVars, notes, prompt, window, changes,
                   permVars, cancel, wireVars, hand, deskVars>>

\* What the answer says of the tools of h, on whose question it lands.
Allows(h) == click.tick /\ h \in scene.able /\ click.decision # "deny"

Ticks(h) ==
    /\ ticked' = IF Allows(h) THEN ticked \cup {click.on} ELSE ticked \ {click.on}
    /\ mistaken' = IF Allows(h) /\ h # click.on THEN mistaken \cup {h} ELSE mistaken

\* Mutant of Answer: an answer without the tools leaves them as they are.
AnswerAdds ==
    /\ click # None
    /\ click' = None
    /\ \/ /\ prompt # None
          /\ tools' = (tools \/ Allows(prompt)) /\ toolsNews' = TRUE
          /\ Ticks(prompt)
          /\ answer' = IF prompt = pending THEN click.decision ELSE answer
          /\ prompt' = None
       \/ /\ prompt = None \/ click.decision = "control"
          /\ UNCHANGED <<tools, toolsNews, tickVars, answer, prompt>>
    /\ UNCHANGED <<scene, conn, host, knocks, pending, served, notes, window,
                   changes, perm, news, cancel, wireVars, hand, deskVars>>

\* The answer lands on the question the window holds by then: the tools first,
\* then the decision, which nobody hears if the question was withdrawn.  It is
\* refused if there is no question, or no system permission for control.
Answer ==
    /\ click # None
    /\ click' = None
    /\ \/ /\ prompt # None
          /\ tools' = Allows(prompt) /\ toolsNews' = TRUE
          /\ Ticks(prompt)
          /\ answer' = IF prompt = pending THEN click.decision ELSE answer
          /\ prompt' = None
       \/ /\ prompt = None \/ click.decision = "control"
          /\ UNCHANGED <<tools, toolsNews, tickVars, answer, prompt>>
    /\ UNCHANGED <<scene, conn, host, knocks, pending, served, notes, window,
                   changes, perm, news, cancel, wireVars, hand, deskVars>>

\* set_control, which a session takes whether or not somebody is connected.
SetControl(allowed) ==
    /\ window # "closed" /\ changes < scene.changes
    /\ changes' = changes + 1
    /\ perm' = [allowed |-> allowed, gen |-> perm.gen + 1]
    /\ news' = TRUE
    /\ UNCHANGED <<scene, conn, host, doorVars, notes, prompt, click, window, tools,
                   toolsNews, tickVars, cancel, wireVars, hand, deskVars>>

\* set_tools, offered only for a helper that has them.
SetTools(allowed) ==
    /\ window = "connected" /\ changes < scene.changes
    /\ served \in scene.able
    /\ changes' = changes + 1
    /\ tools' = allowed /\ toolsNews' = TRUE
    /\ ticked' = IF allowed THEN ticked \cup {served} ELSE ticked \ {served}
    /\ UNCHANGED <<scene, conn, host, doorVars, notes, prompt, click, window,
                   perm, news, mistaken, cancel, wireVars, hand, deskVars>>

\* stop: control is taken back and the token cancelled, in this order.
Stop ==
    /\ window # "closed"
    /\ window' = "closed" /\ prompt' = None
    /\ perm' = [allowed |-> FALSE, gen |-> perm.gen + 1]
    /\ news' = TRUE
    /\ cancel' = TRUE
    /\ UNCHANGED <<scene, conn, host, doorVars, notes, click, changes, tools,
                   toolsNews, tickVars, wireVars, hand, deskVars>>

-----------------------------------------------------------------------------

Worker ==
    \/ HostAsks \/ HostRefuses \/ Withdrawn \/ Denied \/ Granted \/ Connected
    \/ Finish
    \/ ReadInput \/ PassOn \/ TellControl \/ TellTools

\* A turn without the two idle seconds.
Desk ==
    \/ DeskStarts \/ DeskTurns(FALSE) \/ DeskTakes \/ DeskApplies \/ DeskCaptures
    \/ DeskEnds

Person ==
    \/ \E d \in Decision, tick \in BOOLEAN : Click(d, tick)
    \/ Answer
    \/ \E b \in BOOLEAN : SetControl(b) \/ SetTools(b)
    \/ Stop

Next ==
    \/ \E h \in Helper : Knock(h) \/ Leave(h)
    \/ \E input \in Input : HelperSends(input)
    \/ HelperReads
    \/ Worker \/ Expire \/ ServeEnds
    \/ Desk \/ DeskTurns(TRUE)
    \/ Poll \/ Person

Spec == Init /\ [][Next]_vars

\* The thread goes round; the worker's tasks run, its timers fire, and a
\* session whose link or thread is gone ends.  The helper, the window and the
\* person need never do anything.
FairSpec ==
    /\ Spec
    /\ WF_vars(Desk)
    /\ WF_vars(HostAsks \/ HostRefuses) /\ WF_vars(Withdrawn \/ Denied \/ Granted)
    /\ WF_vars((desk.at = "ended" \/ ~InTouch) /\ ServeEnds) /\ WF_vars(Finish)

-----------------------------------------------------------------------------
(* Properties *)

\* Input safety across changes of mind: once the thread has turned with the
\* generation that is in force, what is down was pressed under it, however
\* often control was taken back and given again, and whatever was in the
\* channel then (desktop_loop).
HeldIsCurrent ==
    desk.at \in {"batch", "apply"} /\ desk.gen = perm.gen => held \subseteq {perm.gen}

\* The tools of a helper are open only if the person ticked them in the
\* question they saw of this one (or later, at the switch), whatever they said
\* to questions that were withdrawn meanwhile (run_host, Model::answer), with
\* one exception: the answer was on its way to the question of another, and
\* landed on this one's.  The comment in run_host says that no second prompt
\* takes a first one's "place under their hand"; one does, when the first helper
\* leaves and a second knocks.
ToolsAreTheirs == host = "serving" /\ tools => served \in ticked \cup mistaken

\* Whoever let the helper drive has what it holds down lifted once they take
\* control back, once the helper is gone and once the session is over, even if
\* helper, window and person do nothing more (set_control, stop, desktop_loop,
\* and the order in which the worker ends and the token is cancelled).
Driving == host = "serving" /\ perm.allowed /\ InTouch
TakenBackIsLifted == (~Driving /\ held # {}) ~> (held = {} \/ Driving)

\* Nobody is left knocking: every helper is let in, turned away or gone
\* (front_door, settle, turn_away).
EveryKnockIsAnswered ==
    \A h \in Helper : conn[h] = "knocked" ~> conn[h] # "knocked"

=============================================================================
