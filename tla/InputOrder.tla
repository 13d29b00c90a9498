----------------------------- MODULE InputOrder -----------------------------
(***************************************************************************)
(* send_input (src-tauri/src/commands/session.rs): the webview numbers its *)
(* calls and fires them without waiting, the shell may run them in any     *)
(* order, and the gate of InputOrder lets each one through when every      *)
(* lower number has been queued, or when its patience is over.  A call     *)
(* then puts its commands on the session's channel: what changes a button  *)
(* or a key waits for room, what only moves the pointer is shed.           *)
(*                                                                         *)
(* A command is the button mask of a pointer event, or Key.  The channel   *)
(* is a bounded queue with a fair line of senders behind it, so the two    *)
(* are one sequence: an entry past Capacity is a sender that waits.  An    *)
(* entry also says which command of which call it is, which nothing in the *)
(* code looks at.  Calls without a number pass the gate by, and are left   *)
(* out.                                                                    *)
(***************************************************************************)
EXTENDS Integers, Sequences

CONSTANTS
    N,          \* bound: the calls of a session are numbered 1..N
    Body,       \* call -> its commands; a body that does not decode has none
    Key,        \* a key event
    Capacity,   \* the bound of the session's command channel
    MaxOther    \* bound: how many commands others put on the channel

Call == 1..N

ASSUME OrderAssumption ==
    /\ N \in Nat
    /\ Key \notin Int
    /\ Body \in [Call -> Seq(Nat \cup {Key})]
    /\ Capacity \in Nat \ {0}
    /\ MaxOther \in Nat

VARIABLES
    pc,         \* Call -> where its send_input is
    woken,      \* the calls whose Notified has fired since it was enabled
    next,       \* the number admitted next
    gaps,       \* the calls released by the timeout: each logs a gap
    done,       \* Call -> how many of its commands it has dealt with
    mask,       \* last_pointer_mask
    chan,       \* the channel, and the senders that wait for room in it
    taken,      \* what the session has taken off the channel
    open,       \* the session is running
    others      \* commands of others put on the channel so far

vars == <<pc, woken, next, gaps, done, mask, chan, taken, open, others>>

Step == {"away", "enable", "check", "unmet", "asleep", "sending", "passing",
         "out"}

\* The nth command of the call it is by; others' commands are nobody's.
Entry == [by : 0..N, nth : Nat, command : Nat \cup {Key}]

Init ==
    /\ pc = [c \in Call |-> "away"]
    /\ woken = {}
    /\ next = 1
    /\ gaps = {}
    /\ done = [c \in Call |-> 0]
    /\ mask = -1
    /\ chan = << >>
    /\ taken = << >>
    /\ open = TRUE
    /\ others = 0

----------------------------------------------------------------------------
(* admit. *)

Arrive(c) ==
    /\ pc[c] = "away"
    /\ pc' = [pc EXCEPT ![c] = "enable"]
    /\ UNCHANGED <<woken, next, gaps, done, mask, chan, taken, open, others>>

\* Registered before the check.
Enable(c) ==
    /\ pc[c] = "enable"
    /\ pc' = [pc EXCEPT ![c] = "check"]
    /\ woken' = woken \ {c}
    /\ UNCHANGED <<next, gaps, done, mask, chan, taken, open, others>>

Check(c) ==
    /\ pc[c] = "check"
    /\ pc' = [pc EXCEPT ![c] = IF next >= c THEN "sending" ELSE "unmet"]
    /\ UNCHANGED <<woken, next, gaps, done, mask, chan, taken, open, others>>

Sleep(c) ==
    /\ pc[c] = "unmet"
    /\ pc' = [pc EXCEPT ![c] = "asleep"]
    /\ UNCHANGED <<woken, next, gaps, done, mask, chan, taken, open, others>>

Wake(c) ==
    /\ pc[c] = "asleep" /\ c \in woken
    /\ pc' = [pc EXCEPT ![c] = "enable"]
    /\ UNCHANGED <<woken, next, gaps, done, mask, chan, taken, open, others>>

\* Mutant of TimeOut: the call waits for as long as it takes.
TimeOutNever(c) ==
    /\ pc[c] = "asleep" /\ c \notin woken /\ c < next
    /\ pc' = [pc EXCEPT ![c] = "sending"]
    /\ gaps' = gaps \cup {c}
    /\ UNCHANGED <<woken, next, done, mask, chan, taken, open, others>>

\* Mutant of TimeOut: the call goes on without a word.
TimeOutUnlogged(c) ==
    /\ pc[c] = "asleep" /\ c \notin woken
    /\ pc' = [pc EXCEPT ![c] = "sending"]
    /\ UNCHANGED <<woken, next, gaps, done, mask, chan, taken, open, others>>

\* timeout_at polls the waiter before the clock.
TimeOut(c) ==
    /\ pc[c] = "asleep" /\ c \notin woken
    /\ pc' = [pc EXCEPT ![c] = "sending"]
    /\ gaps' = gaps \cup {c}
    /\ UNCHANGED <<woken, next, done, mask, chan, taken, open, others>>

----------------------------------------------------------------------------
(* The commands of an admitted call. *)

\* A sender of c that waits for room.
Parked(c) == \E i \in DOMAIN chan : i > Capacity /\ chan[i].by = c

\* Mutant of MotionOnly: a pointer event with no button down is motion.
MotionOnlyIfButtonsUp(command) == command # Key /\ command = 0

MotionOnly(command) == command # Key /\ command = mask

\* The mask is swapped and the command offered; a call waits here only for
\* room, so that without a gap no other call is between the two.
Put(c) ==
    LET command == Body[c][done[c] + 1]
    IN  /\ pc[c] = "sending" /\ open
        /\ done[c] < Len(Body[c]) /\ ~Parked(c)
        /\ done' = [done EXCEPT ![c] = @ + 1]
        /\ mask' = IF command = Key THEN mask ELSE command
        /\ chan' = IF MotionOnly(command) /\ Len(chan) >= Capacity THEN chan
                   ELSE Append(chan, [by |-> c, nth |-> done'[c], command |-> command])
        /\ UNCHANGED <<pc, woken, next, gaps, taken, open, others>>

\* The call returns, with an error when the session is gone; whichever way,
\* the guard's drop calls done, which moves the gate ...
Leave(c) ==
    /\ pc[c] = "sending"
    /\ \/ ~open
       \/ done[c] = Len(Body[c]) /\ ~Parked(c)
    /\ pc' = [pc EXCEPT ![c] = "passing"]
    /\ next' = IF c + 1 > next THEN c + 1 ELSE next
    /\ UNCHANGED <<woken, gaps, done, mask, chan, taken, open, others>>

\* Mutant of NotifyWaiters: a waiter is registered only once it sleeps.
NotifySleepers(c) ==
    /\ pc[c] = "passing"
    /\ pc' = [pc EXCEPT ![c] = "out"]
    /\ woken' = woken \cup {d \in Call : pc[d] = "asleep"}
    /\ UNCHANGED <<next, gaps, done, mask, chan, taken, open, others>>

\* ... and, its lock let go, wakes whoever is registered.
NotifyWaiters(c) ==
    /\ pc[c] = "passing"
    /\ pc' = [pc EXCEPT ![c] = "out"]
    /\ woken' = woken \cup {d \in Call : pc[d] \in {"check", "unmet", "asleep"}}
    /\ UNCHANGED <<next, gaps, done, mask, chan, taken, open, others>>

----------------------------------------------------------------------------
(* The session's end of the channel, and everybody else's commands. *)

OtherPuts ==
    /\ open /\ others < MaxOther /\ Len(chan) < Capacity
    /\ others' = others + 1
    /\ chan' = Append(chan, [by |-> 0, nth |-> 0, command |-> Key])
    /\ UNCHANGED <<pc, woken, next, gaps, done, mask, taken, open>>

TakeOne ==
    /\ open /\ chan # << >>
    /\ taken' = Append(taken, Head(chan))
    /\ chan' = Tail(chan)
    /\ UNCHANGED <<pc, woken, next, gaps, done, mask, open, others>>

\* The session ends: what is queued is dropped, and so is who waits.
Close ==
    /\ open
    /\ open' = FALSE
    /\ chan' = << >>
    /\ UNCHANGED <<pc, woken, next, gaps, done, mask, taken, others>>

Finished ==
    /\ \A c \in Call : pc[c] = "out"
    /\ chan = << >>
    /\ UNCHANGED vars

Next ==
    \/ \E c \in Call :
           \/ Arrive(c) \/ Enable(c) \/ Check(c) \/ Sleep(c) \/ Wake(c)
           \/ TimeOut(c) \/ Put(c) \/ Leave(c) \/ NotifyWaiters(c)
    \/ OtherPuts
    \/ TakeOne
    \/ Close
    \/ Finished

Spec == Init /\ [][Next]_vars

\* A task that can run runs, a sleep ends at its deadline, and the session
\* goes on taking commands.  A call need not arrive: calls get lost.
Fairness ==
    /\ \A c \in Call :
           /\ WF_vars(Enable(c)) /\ WF_vars(Check(c)) /\ WF_vars(Sleep(c))
           /\ WF_vars(Wake(c)) /\ WF_vars(TimeOut(c)) /\ WF_vars(Put(c))
           /\ WF_vars(Leave(c)) /\ WF_vars(NotifyWaiters(c))
    /\ WF_vars(TakeOne)

FairSpec == Spec /\ Fairness

----------------------------------------------------------------------------
(* Properties. *)

TypeOK ==
    /\ pc \in [Call -> Step]
    /\ woken \subseteq Call
    /\ next \in 1..(N + 1)
    /\ gaps \subseteq Call
    /\ done \in [Call -> Nat]
    /\ \A c \in Call : done[c] <= Len(Body[c])
    /\ mask \in Nat \cup {-1}
    /\ chan \in Seq(Entry)
    /\ taken \in Seq(Entry)
    /\ open \in BOOLEAN
    /\ others \in Nat

\* No lost wakeup: when the turn of a call comes after it looked, be it that
\* it sleeps or that it is only about to, the call has been woken, or whoever
\* moved the gate has yet to wake it.
NoMissedTurn ==
    \A c \in Call :
        pc[c] \in {"unmet", "asleep"} /\ next >= c =>
            c \in woken \/ \E d \in Call : pc[d] = "passing"

Queued == taken \o chan

\* A press stays ahead of its release: commands of numbered calls are queued
\* in the order of the numbers, and when one is not, some later call has
\* logged that it stopped waiting.
OvertakingIsLogged ==
    \A i, j \in DOMAIN Queued :
        /\ i < j
        /\ 0 < Queued[j].by
        /\ Queued[j].by < Queued[i].by
        => \E g \in gaps : g > Queued[j].by

\* The commands that the calls have dealt with so far, queued or shed: the nth
\* of call c is <<c, n>>.
Dealt == UNION {{c} \X (1..done[c]) : c \in Call}
Command(p) == Body[p[1]][p[2]]

\* The order in which the webview sent them.
Before(p, q) == p[1] < q[1] \/ (p[1] = q[1] /\ p[2] < q[2])

\* It only moves the pointer: the last pointer command sent before it has the
\* same buttons down.
ChangesNothing(p) ==
    /\ Command(p) # Key
    /\ \E q \in Dealt :
           /\ Before(q, p) /\ Command(q) = Command(p)
           /\ \A r \in Dealt : Before(q, r) /\ Before(r, p) => Command(r) = Key

\* Where the calls' own commands are queued, and which ones they are.
Ours == {i \in DOMAIN Queued : Queued[i].by # 0}
Place(i) == <<Queued[i].by, Queued[i].nth>>

\* State-changing input is never lost, made up or reordered: as long as no call
\* gave up waiting, every key and every change of buttons dealt with is queued
\* or taken, each command as and in the order it was sent, however much motion
\* was shed on the way (send_input, last_pointer_mask).
ChangesAreKept ==
    open /\ gaps = {} =>
        /\ \A p \in Dealt : ChangesNothing(p) \/ \E i \in Ours : Place(i) = p
        /\ \A i \in Ours : Place(i) \in Dealt /\ Queued[i].command = Command(Place(i))
        /\ \A i, j \in Ours : i < j => Before(Place(i), Place(j))

\* Every call that reaches the shell returns, also behind numbers that never
\* arrive, bodies that do not decode and a session that has ended.
EveryCallReturns ==
    \A c \in Call : pc[c] = "enable" ~> pc[c] = "out"
=============================================================================
