-------------------------------- MODULE Door --------------------------------
(***************************************************************************)
(* Unattended access (boundary-session/src/unattended.rs), with the window *)
(* that switches it on and off (commands/support.rs).  Every helper that   *)
(* knocks is a task of its own: it reads the access file, tries a password *)
(* one task at a time, asks the person one task at a time, takes a seat,   *)
(* hands the session to the window and serves it.  The window holds a copy *)
(* of the access file, hears the tasks over a bounded channel of notices,  *)
(* and ends a session by letting go of it.                                 *)
(*                                                                         *)
(* A listener is a number: switching off and on again makes a new one, and *)
(* the tasks of the old one are still there.  A call of the window and the *)
(* poll that follows it are two steps, as they lock the window twice.      *)
(* Timers are steps that may happen; what a helper may do once it is in is *)
(* in Help.                                                                *)
(***************************************************************************)
EXTENDS Naturals, Sequences, FiniteSets

CONSTANTS
    None,
    Helper,        \* helpers, each of which knocks once
    Listeners,     \* bound on the listeners started
    MAX_HELPERS, LOCKOUT_FAILURES,
    Room,          \* of the channel of notices
    Scenes         \* environments, one per behaviour: who knocks with what
                   \* password, what the access file says, what the person may
                   \* answer, and how often they change the settings

Guess == {"none", "right", "wrong"}
Verdict == {"denied", "allowed", "paired"}

\* Access, in the file and in the window: a password is set or it is not.
Access == [enabled : BOOLEAN, helpers : SUBSET Helper, password : BOOLEAN]

ASSUME DoorAssumption ==
    /\ None \notin Helper
    /\ {Listeners, MAX_HELPERS, LOCKOUT_FAILURES, Room} \subseteq Nat \ {0}
    /\ \A s \in Scenes :
        /\ s.guess \in [Helper -> Guess] /\ s.helpers \subseteq Helper
        /\ s.file \in Access /\ s.file.enabled
        /\ s.verdicts \subseteq Verdict /\ s.changes \in Nat

VARIABLES
    scene,      \* the environment of this behaviour
    at,         \* where each helper's task is
    of,         \* the listener it belongs to
    gone,       \* helpers that hung up
    failures,   \* each listener's throttle: wrong passwords not yet forgotten
    file,       \* access.json
    copy,       \* what a task that pairs its helper has read of it
    mine,       \* the window's access
    hashing,    \* the copy support_set_password is working on
    listener,   \* the listener the window holds, 0 for none
    started,    \* listeners so far
    notices,
    ask,        \* the question the window holds
    active,     \* the sessions the window holds
    changes

taskVars == <<at, of, gone, failures, copy>>
windowVars == <<mine, hashing, listener, started, ask, active, changes>>
vars == <<scene, taskVars, file, windowVars, notices>>

\* A task before it has an answer for its helper; one with a seat.
Undecided == {"knocked", "queued", "hashing", "punished", "stranger", "putting",
              "asking", "denied", "allowed", "paired", "pairing", "granted"}
Seated == {"announcing", "served", "ending"}

TypeOK ==
    /\ scene \in Scenes
    /\ at \in [Helper -> Undecided \cup Seated \cup {"out", "telling", "done"}]
    /\ of \in [Helper -> 0..Listeners]
    /\ gone \subseteq Helper
    /\ failures \in [1..Listeners -> Nat]
    /\ {file, mine} \subseteq Access
    /\ copy \in [Helper -> Access]
    /\ hashing \in Access \cup {None}
    /\ listener \in 0..started /\ started \in 0..Listeners
    /\ notices \in Seq([kind : {"ask", "in", "word", "fin"}, who : Helper \cup {None}])
    /\ Len(notices) <= Room
    /\ ask \in Helper \cup {None} /\ active \subseteq Helper
    /\ changes \in 0..scene.changes

Init ==
    /\ scene \in Scenes
    /\ at = [h \in Helper |-> "out"] /\ of = [h \in Helper |-> 0]
    /\ gone = {}
    /\ failures = [i \in 1..Listeners |-> 0]
    /\ file = scene.file /\ mine = scene.file
    /\ copy = [h \in Helper |-> scene.file]
    /\ hashing = None
    /\ listener = 1 /\ started = 1
    /\ notices = << >>
    /\ ask = None /\ active = {} /\ changes = 0

-----------------------------------------------------------------------------
(* A helper's task.  It is given up when its listener is stopped. *)

Lives(h) == of[h] = listener
Becomes(h, stage) == at' = [at EXCEPT ![h] = stage]
Tell(kind, h) ==
    /\ Len(notices) < Room
    /\ notices' = Append(notices, [kind |-> kind, who |-> h])

\* A connection says hello in time.
Knock(h) ==
    /\ h \in scene.helpers /\ at[h] = "out" /\ listener # 0
    /\ Becomes(h, "knocked")
    /\ of' = [of EXCEPT ![h] = listener]
    /\ UNCHANGED <<scene, gone, failures, copy, file, windowVars, notices>>

HangUp(h) ==
    /\ at[h] \notin {"out", "done"} /\ h \notin gone
    /\ gone' = gone \cup {h}
    /\ UNCHANGED <<scene, at, of, failures, copy, file, windowVars, notices>>

\* Access::load and authorize up to the password.
Authorize(h) ==
    /\ at[h] = "knocked" /\ Lives(h)
    /\ Becomes(h, IF ~file.enabled THEN "telling"
                  ELSE IF h \in file.helpers THEN "granted"
                  ELSE IF scene.guess[h] # "none" /\ file.password THEN "queued"
                  ELSE "stranger")
    /\ UNCHANGED <<scene, of, gone, failures, copy, file, windowVars, notices>>

\* The tasks of this one's listener that are in these stages.
Others(h, stages) == {g \in Helper \ {h} : of[g] = of[h] /\ at[g] \in stages}

\* Mutant: the throttle is unlocked while a password is worked out.
TriesTogether(h) ==
    /\ at[h] = "queued" /\ Lives(h)
    /\ Becomes(h, IF failures[of[h]] >= LOCKOUT_FAILURES THEN "telling" ELSE "hashing")
    /\ UNCHANGED <<scene, of, gone, failures, copy, file, windowVars, notices>>

\* The throttle is locked from here until the password has been worked out
\* and a wrong one has cost its second.
Tries(h) ==
    /\ at[h] = "queued" /\ Lives(h)
    /\ Others(h, {"hashing", "punished"}) = {}
    /\ Becomes(h, IF failures[of[h]] >= LOCKOUT_FAILURES THEN "telling" ELSE "hashing")
    /\ UNCHANGED <<scene, of, gone, failures, copy, file, windowVars, notices>>

Hashed(h) ==
    LET right == scene.guess[h] = "right"
    IN  /\ at[h] = "hashing" /\ Lives(h)
        /\ Becomes(h, IF right THEN "granted" ELSE "punished")
        /\ failures' = IF right THEN failures ELSE [failures EXCEPT ![of[h]] = @ + 1]
        /\ UNCHANGED <<scene, of, gone, copy, file, windowVars, notices>>

Punished(h) ==
    /\ at[h] = "punished" /\ Lives(h)
    /\ Becomes(h, "telling")
    /\ UNCHANGED <<scene, of, gone, failures, copy, file, windowVars, notices>>

\* Throttle::prune: a failure is forgotten after LOCKOUT.
Forgotten(i) ==
    /\ failures[i] > 0
    /\ failures' = [failures EXCEPT ![i] = @ - 1]
    /\ UNCHANGED <<scene, at, of, gone, copy, file, windowVars, notices>>

\* ask: one question at a time; with its lock the task waits for room.
AskLocks(h) ==
    /\ at[h] = "stranger" /\ Lives(h)
    /\ Becomes(h, IF Others(h, {"putting", "asking", "pairing"} \cup Verdict) = {}
                  THEN "putting" ELSE "telling")
    /\ UNCHANGED <<scene, of, gone, failures, copy, file, windowVars, notices>>

Puts(h) ==
    /\ at[h] = "putting" /\ Lives(h)
    /\ Tell("ask", h)
    /\ Becomes(h, "asking")
    /\ UNCHANGED <<scene, of, gone, failures, copy, file, windowVars>>

\* Mutant: a question waits until somebody answers it.
AskedInVain(h) ==
    /\ at[h] \in {"asking"} \cup Verdict /\ Lives(h)
    /\ h \in gone
    /\ Becomes(h, "telling")
    /\ UNCHANGED <<scene, of, gone, failures, copy, file, windowVars, notices>>

\* The helper hung up, which may win over an answer, or nobody answered in
\* time, or the window let the question go.
Unanswered(h) ==
    /\ at[h] \in {"asking"} \cup Verdict /\ Lives(h)
    /\ at[h] = "asking" \/ h \in gone
    /\ Becomes(h, "telling")
    /\ UNCHANGED <<scene, of, gone, failures, copy, file, windowVars, notices>>

\* The answer; to pair the helper the file is read first, ...
Answered(h) ==
    /\ at[h] \in Verdict /\ Lives(h)
    /\ Becomes(h, CASE at[h] = "denied" -> "telling"
                    [] at[h] = "allowed" -> "granted"
                    [] at[h] = "paired" -> "pairing")
    /\ copy' = IF at[h] = "paired" THEN [copy EXCEPT ![h] = file] ELSE copy
    /\ UNCHANGED <<scene, of, gone, failures, file, windowVars, notices>>

\* ... and then replaced, if that works.  Nothing stops the task in between.
Paired(h) ==
    /\ at[h] = "pairing"
    /\ \/ file' = [copy[h] EXCEPT !.helpers = @ \cup {h}]
       \/ UNCHANGED file
    /\ Becomes(h, "granted")
    /\ UNCHANGED <<scene, of, gone, failures, copy, windowVars, notices>>

\* A seat, if there is one.
Sits(h) ==
    /\ at[h] = "granted" /\ Lives(h)
    /\ Becomes(h, IF Cardinality(Others(h, Seated)) < MAX_HELPERS
                  THEN "announcing" ELSE "telling")
    /\ UNCHANGED <<scene, of, gone, failures, copy, file, windowVars, notices>>

\* The session goes to the window.
Announces(h) ==
    /\ at[h] = "announcing" /\ Lives(h)
    /\ Tell("in", h)
    /\ Becomes(h, "served")
    /\ UNCHANGED <<scene, of, gone, failures, copy, file, windowVars>>

\* Whether anybody still holds the session: dropping it cancels its token.
SessionHeld(h) ==
    h \in active \/ \E i \in DOMAIN notices : notices[i] = [kind |-> "in", who |-> h]

\* The link fails, or the desktop does, ...
ServeFails(h) ==
    /\ at[h] = "served"
    /\ Becomes(h, "ending")
    /\ UNCHANGED <<scene, of, gone, failures, copy, file, windowVars, notices>>

\* Mutant: only the listener's stop and the helper end a session.
ServeEndsWithoutToken(h) ==
    /\ at[h] = "served"
    /\ h \in gone \/ ~Lives(h)
    /\ Becomes(h, "ending")
    /\ UNCHANGED <<scene, of, gone, failures, copy, file, windowVars, notices>>

\* ... or the helper hung up, the listener is stopped or the session dropped.
ServeEnds(h) ==
    /\ at[h] = "served"
    /\ h \in gone \/ ~Lives(h) \/ ~SessionHeld(h)
    /\ Becomes(h, "ending")
    /\ UNCHANGED <<scene, of, gone, failures, copy, file, windowVars, notices>>

\* The window may be told why, if it still listens; then the seat is free.
Leaves(h) ==
    /\ at[h] = "ending"
    /\ Becomes(h, "done")
    /\ \/ Lives(h) /\ Tell("word", h)
       \/ UNCHANGED notices
    /\ UNCHANGED <<scene, of, gone, failures, copy, file, windowVars>>

\* The window is told of a refusal, of which the helper hears on a task apart.
Told(h) ==
    /\ at[h] = "telling" /\ Lives(h)
    /\ Tell("word", h)
    /\ Becomes(h, "done")
    /\ UNCHANGED <<scene, of, gone, failures, copy, file, windowVars>>

\* The listener was stopped: the task is given up where it waits.
GivenUp(h) ==
    /\ ~Lives(h) /\ at[h] \in (Undecided \ {"pairing"}) \cup {"announcing", "telling"}
    /\ Becomes(h, "done")
    /\ UNCHANGED <<scene, of, gone, failures, copy, file, windowVars, notices>>

\* The endpoint closes under the listener.
ListenerFails ==
    /\ listener # 0
    /\ Tell("fin", None)
    /\ UNCHANGED <<scene, taskVars, file, windowVars>>

-----------------------------------------------------------------------------
(* The window. *)

Change == changes < scene.changes /\ changes' = changes + 1

Start ==
    /\ listener' = IF listener = 0 THEN started + 1 ELSE listener
    /\ started' = IF listener = 0 THEN started + 1 ELSE started
    /\ started' <= Listeners

\* halt.
Halt == listener' = 0 /\ active' = {} /\ ask' = None /\ notices' = << >>

\* support_set_unattended.
SwitchOn ==
    /\ Change /\ Start
    /\ mine' = [mine EXCEPT !.enabled = TRUE] /\ file' = mine'
    /\ UNCHANGED <<scene, taskVars, hashing, ask, active, notices>>

SwitchOff ==
    /\ Change /\ Halt
    /\ mine' = [mine EXCEPT !.enabled = FALSE] /\ file' = mine'
    /\ UNCHANGED <<scene, taskVars, hashing, started>>

\* support_remove_helper.
RemoveHelper(h) ==
    /\ Change /\ h \in mine.helpers
    /\ mine' = [mine EXCEPT !.helpers = @ \ {h}] /\ file' = mine'
    /\ UNCHANGED <<scene, taskVars, hashing, listener, started, ask, active, notices>>

\* support_set_password copies the access, works on it with the window
\* unlocked, and puts it back.
PasswordStarts ==
    /\ Change /\ hashing = None
    /\ hashing' = [mine EXCEPT !.password = ~@]
    /\ UNCHANGED <<scene, taskVars, file, mine, listener, started, ask, active, notices>>

PasswordSet ==
    /\ hashing # None
    /\ mine' = hashing /\ file' = hashing /\ hashing' = None
    /\ UNCHANGED <<scene, taskVars, listener, started, ask, active, changes, notices>>

\* support_end_unattended.
EndSession(h) ==
    /\ Change /\ h \in active
    /\ active' = active \ {h}
    /\ UNCHANGED <<scene, taskVars, file, mine, hashing, listener, started, ask, notices>>

\* support_answer_ask.
Answer(verdict) ==
    /\ ask # None /\ verdict \in scene.verdicts
    /\ ask' = None
    /\ at' = IF at[ask] = "asking" /\ Lives(ask) THEN [at EXCEPT ![ask] = verdict] ELSE at
    /\ UNCHANGED <<scene, of, gone, failures, copy, file, mine, hashing, listener,
                   started, active, changes, notices>>

Of(kind) == {notices[i].who : i \in {i \in DOMAIN notices : notices[i].kind = kind}}
LastAsk ==
    LET asks == {i \in DOMAIN notices : notices[i].kind = "ask"}
    IN  IF asks = {} THEN ask
        ELSE notices[CHOOSE i \in asks : \A j \in asks : j <= i].who

\* poll_unattended: the access is read again for every helper that came in; a
\* question nobody waits for and sessions that are over are put away; a
\* listener that failed is let go.
Poll ==
    LET over == {h \in Helper : at[h] \in {"ending", "done"}}
    IN  /\ listener # 0
        /\ mine' = IF Of("in") # {} THEN file ELSE mine
        /\ IF None \in Of("fin")
           THEN Halt
           ELSE /\ notices' = << >>
                /\ ask' = IF LastAsk # None /\ at[LastAsk] = "asking" THEN LastAsk ELSE None
                /\ active' = (active \cup Of("in")) \ over
                /\ UNCHANGED listener
        /\ UNCHANGED <<scene, taskVars, file, hashing, started, changes>>

\* ... and one that should be there is started once its delay is over.
Retry ==
    /\ mine.enabled /\ listener = 0
    /\ Start
    /\ UNCHANGED <<scene, taskVars, file, mine, hashing, ask, active, changes, notices>>

-----------------------------------------------------------------------------

Task(h) ==
    \/ Authorize(h) \/ Tries(h) \/ Hashed(h) \/ Punished(h)
    \/ AskLocks(h) \/ Puts(h) \/ Unanswered(h) \/ Answered(h) \/ Paired(h)
    \/ Sits(h) \/ Announces(h) \/ ServeEnds(h) \/ Leaves(h) \/ Told(h) \/ GivenUp(h)

Person ==
    \/ SwitchOn \/ SwitchOff \/ PasswordStarts \/ PasswordSet
    \/ \E h \in Helper : RemoveHelper(h) \/ EndSession(h)
    \/ \E v \in Verdict : Answer(v)

Next ==
    \/ \E h \in Helper : Knock(h) \/ HangUp(h) \/ Task(h) \/ ServeFails(h)
    \/ \E i \in 1..Listeners : Forgotten(i)
    \/ ListenerFails
    \/ Poll \/ Retry \/ Person

Spec == Init /\ [][Next]_vars

\* Tasks run, their timers fire, and the window polls; helpers and person need
\* never do anything.  No task takes steps for ever, so fairness to all of them
\* together is fairness to each.
FairSpec == Spec /\ WF_vars(\E h \in Helper : Task(h)) /\ WF_vars(Poll)

-----------------------------------------------------------------------------
(* Properties *)

\* However many helpers guess at once, no more than LOCKOUT_FAILURES wrong
\* passwords are tried before the first of them is forgotten (authorize,
\* Throttle).
GuessesAreBounded == \A i \in 1..Listeners : failures[i] <= LOCKOUT_FAILURES

\* A session is over, and its seat free, once the helper has hung up, the
\* person has ended it, or unattended access was switched off, even if that
\* happened while the helper was on its way in (knock, halt, Session's drop).
LetGoIsOut ==
    \A h \in Helper :
        (at[h] \in Seated /\ (h \in gone \/ ~Lives(h) \/ (at[h] = "served" /\ ~SessionHeld(h))))
            ~> at[h] = "done"

\* Every knock is answered, whoever else guesses or asks, however full the
\* channel of notices, and whether or not the person is there (knock, ask,
\* authorize).
KnocksAreAnswered ==
    \A h \in Helper : at[h] \in Undecided ~> at[h] \notin Undecided
=============================================================================
