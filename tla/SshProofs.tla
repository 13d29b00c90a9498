----------------------------- MODULE SshProofs -----------------------------
(***************************************************************************)
(* The safety of a remote shell for every size of its channels and any     *)
(* number of commands.  An intent is in one place at a time, whichever of  *)
(* the two channels, the carrying task's hand or the exec tasks that is;   *)
(* the last size on its way is the last one reported, and once none is on  *)
(* its way the supervisor believes in that one.                            *)
(***************************************************************************)
EXTENDS Ssh, SequenceTheorems, TLAPS

(* The invariant. *)

\* The intent a command is, and the one in the carrying task's hand.
IntentOf(c) == IF c.kind \in Intents THEN {c.n} ELSE {}
InHand == IF hand = None THEN {} ELSE IntentOf(hand)

Answered == {n \in 1..MaxSent : answered[n] # 0}

\* No intent is twice in q.
Once(q) ==
    \A i, j \in DOMAIN q :
        /\ q[i].kind \in Intents /\ q[j].kind \in Intents
        /\ q[i].n = q[j].n
        => i = j

\* The pump refuses a PtyRun and passes nothing else by.
NoPtyRun ==
    /\ \A i \in DOMAIN inner : inner[i].kind # "PtyRun"
    /\ hand # None => hand.kind # "PtyRun"

\* An intent is in one place.
OnePlace ==
    /\ Once(outer) /\ Once(inner)
    /\ IntentsOf(outer) \cap (InHand \cup IntentsOf(inner) \cup running \cup Answered) = {}
    /\ InHand \cap (IntentsOf(inner) \cup running \cup Answered) = {}
    /\ IntentsOf(inner) \cap (running \cup Answered) = {}
    /\ running \cap Answered = {}
    /\ \A n \in 1..MaxSent : answered[n] <= 1

\* None has a number that was not given out.
Numbered ==
    IntentsOf(outer) \cup InHand \cup IntentsOf(inner) \cup running \cup Answered
        \cup asked \subseteq 1..sent

\* None is lost while somebody listens.
Accounted ==
    listening =>
        asked \subseteq IntentsOf(outer) \cup InHand \cup IntentsOf(inner) \cup running
                            \cup Answered \cup dropped

IntentsInv == NoPtyRun /\ OnePlace /\ Numbered /\ Accounted

\* The size the next PTY, or this one, is believed to have.
Believed == IF phase \in Live THEN geometry ELSE terminal

NoResize(q) == \A i \in DOMAIN q : q[i].kind # "Resize"
NoResizeInHand == hand # None => hand.kind # "Resize"

\* The last size in q is s.
LastIs(q, s) ==
    \A i \in DOMAIN q :
        /\ q[i].kind = "Resize"
        /\ \A j \in DOMAIN q : j > i => q[j].kind # "Resize"
        => q[i].size = s

\* As long as there is a session and somebody to send it sizes, the last size
\* on its way is the last one reported, and with none on its way it has been
\* believed or was dropped at the prompt.
SizeInv ==
    /\ phase \in Live => pty = Clamp(geometry)
    /\ phase # "stopped" /\ pump # "off" =>
        /\ LastIs(outer, wanted)
        /\ NoResize(outer) /\ hand # None /\ hand.kind = "Resize" => hand.size = wanted
        /\ NoResize(outer) /\ NoResizeInHand => LastIs(inner, wanted)
        /\ NoResize(outer) /\ NoResizeInHand /\ NoResize(inner) /\ ~missed
               => Clamp(Believed) = Clamp(wanted)

Inv == TypeOK /\ IntentsInv /\ TerminalHandedBack /\ SizeInv

-----------------------------------------------------------------------------
(* Channels. *)

\* What is put at the end of a channel.
LEMMA Appended ==
    ASSUME NEW q \in Seq(Command), NEW c \in Command, NEW w
    PROVE  /\ Append(q, c) \in Seq(Command)
           /\ Len(Append(q, c)) = Len(q) + 1
           /\ IntentsOf(Append(q, c)) = IntentsOf(q) \cup IntentOf(c)
           /\ Once(q) /\ IntentsOf(q) \cap IntentOf(c) = {} => Once(Append(q, c))
           /\ NoResize(Append(q, c)) <=> NoResize(q) /\ c.kind # "Resize"
           /\ c.kind = "Resize" /\ c.size = w => LastIs(Append(q, c), w)
           /\ c.kind # "Resize" /\ LastIs(q, w) => LastIs(Append(q, c), w)
  <1> DEFINE s == Append(q, c)
  <1>1. /\ s \in Seq(Command) /\ Len(s) = Len(q) + 1
        /\ DOMAIN s = 1..(Len(q) + 1) /\ DOMAIN q = 1..Len(q) /\ Len(q) \in Nat
        /\ s[Len(q) + 1] = c
        /\ \A i \in 1..Len(q) : s[i] = q[i]
    OBVIOUS
  <1> HIDE DEF s
  <1>2. \A i \in DOMAIN s : (i \in DOMAIN q /\ s[i] = q[i]) \/ (i = Len(q) + 1 /\ s[i] = c)
    BY <1>1
  <1>3. IntentsOf(s) \subseteq IntentsOf(q) \cup IntentOf(c)
    BY <1>2, Zenon DEF IntentsOf, IntentOf
  <1>4. DOMAIN q \subseteq DOMAIN s /\ Len(q) + 1 \in DOMAIN s
    BY <1>1
  <1>5. IntentsOf(q) \cup IntentOf(c) \subseteq IntentsOf(s)
    <2>1. IntentsOf(q) \subseteq IntentsOf(s)
      BY <1>1, <1>4, Zenon DEF IntentsOf
    <2>2. IntentOf(c) \subseteq IntentsOf(s)
      BY <1>1, <1>4, Zenon DEF IntentsOf, IntentOf
    <2> QED  BY <2>1, <2>2
  <1>6. Once(q) /\ IntentsOf(q) \cap IntentOf(c) = {} => Once(s)
    <2> SUFFICES ASSUME Once(q), IntentsOf(q) \cap IntentOf(c) = {},
                        NEW i \in DOMAIN s, NEW j \in DOMAIN s,
                        s[i].kind \in Intents, s[j].kind \in Intents, s[i].n = s[j].n
                 PROVE  i = j
      BY DEF Once
    <2>1. ASSUME NEW k \in DOMAIN q, q[k].kind \in Intents, c.kind \in Intents
          PROVE  q[k].n # c.n
      <3>1. q[k].n \in IntentsOf(q)
        BY <2>1 DEF IntentsOf
      <3>2. c.n \in IntentOf(c)
        BY <2>1 DEF IntentOf
      <3> QED  BY <3>1, <3>2
    <2>2. CASE i \in DOMAIN q /\ j \in DOMAIN q
      BY <2>2, <1>1 DEF Once
    <2>3. CASE i \in DOMAIN q /\ j = Len(q) + 1
      BY <2>3, <2>1, <1>1
    <2>4. CASE i = Len(q) + 1 /\ j \in DOMAIN q
      BY <2>4, <2>1, <1>1
    <2> QED  BY <2>2, <2>3, <2>4, <1>2
  <1>7. NoResize(s) <=> NoResize(q) /\ c.kind # "Resize"
    BY <1>1, <1>2, <1>4 DEF NoResize
  <1>8. c.kind = "Resize" /\ c.size = w => LastIs(s, w)
    BY <1>1, <1>2 DEF LastIs
  <1>9. c.kind # "Resize" /\ LastIs(q, w) => LastIs(s, w)
    BY <1>1, <1>2 DEF LastIs
  <1> QED  BY <1>1, <1>3, <1>5, <1>6, <1>7, <1>8, <1>9 DEF s

\* What is taken from its front.
LEMMA Taken ==
    ASSUME NEW q \in Seq(Command), NEW w, q # << >>
    PROVE  /\ Head(q) \in Command /\ Tail(q) \in Seq(Command)
           /\ Len(Tail(q)) < Len(q)
           /\ IntentsOf(q) = IntentOf(Head(q)) \cup IntentsOf(Tail(q))
           /\ Once(q) => Once(Tail(q)) /\ IntentOf(Head(q)) \cap IntentsOf(Tail(q)) = {}
           /\ NoResize(q) <=> Head(q).kind # "Resize" /\ NoResize(Tail(q))
           /\ LastIs(q, w) => LastIs(Tail(q), w)
           /\ LastIs(q, w) /\ Head(q).kind = "Resize" /\ NoResize(Tail(q))
                  => Head(q).size = w
           /\ (\A i \in DOMAIN q : q[i].kind # "PtyRun") =>
                  /\ Head(q).kind # "PtyRun"
                  /\ \A i \in DOMAIN Tail(q) : Tail(q)[i].kind # "PtyRun"
  <1> DEFINE r == Tail(q)
             c == Head(q)
  <1>1. /\ r \in Seq(Command) /\ Len(r) = Len(q) - 1 /\ Len(q) \in Nat \ {0}
        /\ DOMAIN r = 1..(Len(q) - 1) /\ DOMAIN q = 1..Len(q)
        /\ c = q[1] /\ c \in Command
        /\ \A i \in 1..(Len(q) - 1) : r[i] = q[i + 1]
    OBVIOUS
  <1> HIDE DEF r, c
  <1>2. \A i \in DOMAIN r : i + 1 \in DOMAIN q /\ r[i] = q[i + 1]
    BY <1>1
  <1>3. \A i \in DOMAIN q : (i = 1 /\ q[i] = c) \/ (i - 1 \in DOMAIN r /\ q[i] = r[i - 1])
    BY <1>1
  <1>4. 1 \in DOMAIN q
    BY <1>1
  <1>5. IntentsOf(q) \subseteq IntentOf(c) \cup IntentsOf(r)
    <2> SUFFICES ASSUME NEW i \in DOMAIN q, q[i].kind \in Intents
                 PROVE  q[i].n \in IntentOf(c) \cup IntentsOf(r)
      BY DEF IntentsOf
    <2>1. CASE i = 1 /\ q[i] = c
      BY <2>1 DEF IntentOf
    <2>2. CASE i - 1 \in DOMAIN r /\ q[i] = r[i - 1]
      <3> DEFINE k == i - 1
      <3>1. k \in DOMAIN r /\ r[k].kind \in Intents /\ q[i].n = r[k].n
        BY <2>2
      <3> HIDE DEF k
      <3> QED  BY <3>1, Zenon DEF IntentsOf
    <2> QED  BY <2>1, <2>2, <1>3
  <1>6. IntentOf(c) \subseteq IntentsOf(q)
    BY <1>1, <1>4, Zenon DEF IntentsOf, IntentOf
  <1>7. IntentsOf(r) \subseteq IntentsOf(q)
    <2> SUFFICES ASSUME NEW i \in DOMAIN r, r[i].kind \in Intents
                 PROVE  r[i].n \in IntentsOf(q)
      BY DEF IntentsOf
    <2> DEFINE k == i + 1
    <2>1. k \in DOMAIN q /\ q[k].kind \in Intents /\ r[i].n = q[k].n
      BY <1>2
    <2> HIDE DEF k
    <2> QED  BY <2>1, Zenon DEF IntentsOf
  <1>8. ASSUME Once(q)
        PROVE  Once(r) /\ IntentOf(c) \cap IntentsOf(r) = {}
    <2>1. Once(r)
      <3> SUFFICES ASSUME NEW i \in DOMAIN r, NEW j \in DOMAIN r,
                          r[i].kind \in Intents, r[j].kind \in Intents, r[i].n = r[j].n
                   PROVE  i = j
        BY DEF Once
      <3>1. i + 1 = j + 1
        BY <1>2, <1>8 DEF Once
      <3> QED  BY <3>1, <1>1
    <2>2. ASSUME NEW i \in DOMAIN r, r[i].kind \in Intents, c.kind \in Intents,
                 c.n = r[i].n
          PROVE  FALSE
      <3>1. i + 1 = 1
        BY <1>1, <1>2, <1>4, <1>8, <2>2 DEF Once
      <3> QED  BY <3>1, <1>1
    <2>3. IntentOf(c) \cap IntentsOf(r) = {}
      BY <2>2 DEF IntentOf, IntentsOf
    <2> QED  BY <2>1, <2>3
  <1>9. NoResize(q) <=> c.kind # "Resize" /\ NoResize(r)
    <2>1. NoResize(q) => c.kind # "Resize" /\ NoResize(r)
      BY <1>1, <1>2, <1>4 DEF NoResize
    <2>2. c.kind # "Resize" /\ NoResize(r) => NoResize(q)
      BY <1>3 DEF NoResize
    <2> QED  BY <2>1, <2>2
  <1>10. LastIs(q, w) => LastIs(r, w)
    <2> SUFFICES ASSUME LastIs(q, w), NEW i \in DOMAIN r, r[i].kind = "Resize",
                        \A j \in DOMAIN r : j > i => r[j].kind # "Resize"
                 PROVE  r[i].size = w
      BY DEF LastIs
    <2>1. ASSUME NEW j \in DOMAIN q, j > i + 1
          PROVE  q[j].kind # "Resize"
      <3>1. j - 1 \in DOMAIN r /\ q[j] = r[j - 1] /\ j - 1 > i
        BY <1>1, <2>1
      <3> QED  BY <3>1
    <2>2. i + 1 \in DOMAIN q /\ q[i + 1].kind = "Resize" /\ r[i] = q[i + 1]
      BY <1>2
    <2> QED  BY <2>1, <2>2 DEF LastIs
  <1>11. LastIs(q, w) /\ c.kind = "Resize" /\ NoResize(r) => c.size = w
    <2> SUFFICES ASSUME LastIs(q, w), c.kind = "Resize", NoResize(r)
                 PROVE  c.size = w
      OBVIOUS
    <2>1. ASSUME NEW j \in DOMAIN q, j > 1
          PROVE  q[j].kind # "Resize"
      BY <2>1, <1>3 DEF NoResize
    <2> QED  BY <2>1, <1>1, <1>4 DEF LastIs
  <1>12. (\A i \in DOMAIN q : q[i].kind # "PtyRun") =>
            c.kind # "PtyRun" /\ \A i \in DOMAIN r : r[i].kind # "PtyRun"
    BY <1>1, <1>2, <1>4
  <1> QED  BY <1>1, <1>5, <1>6, <1>7, <1>8, <1>9, <1>10, <1>11, <1>12 DEF r, c

\* An empty channel.
LEMMA Empty ==
    ASSUME NEW w
    PROVE  /\ << >> \in Seq(Command) /\ IntentsOf(<< >>) = {}
           /\ Once(<< >>) /\ NoResize(<< >>) /\ LastIs(<< >>, w)
  BY DEF IntentsOf, Once, NoResize, LastIs

-----------------------------------------------------------------------------
(* What follows an attempt. *)

\* The channel as a step of the supervisor leaves it, which had rest to leave.
Passed(rest) ==
    \/ phase' # "stopped" /\ inner' = rest /\ dropped' = dropped
    \/ phase' = "stopped" /\ inner' = << >> /\ dropped' = dropped \cup IntentsOf(rest)

States == {"Connecting", "Connected", "Reconnecting", "Disconnected"}

LEMMA Passing ==
    ASSUME TypeOK, NEW rest \in Seq(Command), Len(rest) <= Capacity, Passed(rest)
    PROVE  inner' \in Seq(Command) /\ Len(inner') <= Capacity /\ dropped' \subseteq 1..MaxSent
  <1>1. IntentsOf(rest) \subseteq 1..MaxSent
    <2> SUFFICES ASSUME NEW i \in DOMAIN rest
                 PROVE  rest[i].n \in 1..MaxSent
      BY DEF IntentsOf
    <2>1. rest[i] \in Command
      OBVIOUS
    <2> QED  BY <2>1 DEF Command
  <1>2. Len(<< >>) <= Capacity /\ << >> \in Seq(Command)
    BY SshAssumption
  <1> QED  BY <1>1, <1>2 DEF Passed, TypeOK

\* An attempt that ends is waited after or is the last.
LEMMA Ending ==
    ASSUME TypeOK, NEW err, NEW rest \in Seq(Command), Ends(err, rest)
    PROVE  /\ Passed(rest) /\ phase' \in {"backoff", "stopped"}
           /\ attempts' \in 0..MaxAttempts /\ fallbacks' = fallbacks
           /\ stable' = FALSE /\ told' \in States
  <1>1. attempts \in 0..MaxAttempts /\ MaxAttempts \in Nat /\ told \in States
    BY SshAssumption DEF TypeOK, States
  <1>2. told' \in States
    BY <1>1 DEF Ends, Stop, Tell, States
  <1>3. attempts' \in 0..MaxAttempts
    BY <1>1 DEF Ends
  <1>4. Passed(rest) /\ phase' \in {"backoff", "stopped"}
    BY DEF Ends, Stop, Return, Keep, Passed
  <1> QED  BY <1>2, <1>3, <1>4 DEF Ends

\* The next one begins, or there is nobody to tell.
LEMMA Beginning ==
    ASSUME TypeOK, NEW rest, Dial(rest)
    PROVE  /\ Passed(rest) /\ phase' \in {"dialing", "stopped"}
           /\ fallbacks' = Fallbacks /\ told' \in States
  BY DEF Dial, Return, Keep, Passed, Tell, States, TypeOK

\* The pump lets go.
LEMMA Leaving ==
    ASSUME TypeOK, NEW err, NEW rest \in Seq(Command), Leave(err, rest)
    PROVE  /\ Passed(rest) /\ phase' \in {"backoff", "stopped"}
           /\ attempts' \in 0..MaxAttempts /\ fallbacks' = fallbacks
           /\ stable' = FALSE /\ told' \in States
           /\ terminal' = geometry /\ pty' = None /\ geometry' = geometry
           /\ modes' \in BOOLEAN /\ (listening => modes' = FALSE)
  BY Ending DEF Leave, TypeOK

-----------------------------------------------------------------------------
(* The supervisor's steps, of which there are two sorts. *)

LEMMA Clamped == \A s \in Size : Clamp(s) \in Size /\ Clamp(Clamp(s)) = Clamp(s)
  BY SshAssumption DEF Clamp

LEMMA Sizes ==
    ASSUME TypeOK
    PROVE  {terminal, geometry, wanted} \subseteq Size
  BY SshAssumption DEF TypeOK

SupervisorTyped ==
    /\ phase' \in Phase
    /\ attempts' \in 0..MaxAttempts /\ fallbacks' \in 0..Fallbacks /\ stable' \in BOOLEAN
    /\ terminal' \in Size /\ geometry' \in Size /\ pty' \in Size \cup {None}
    /\ told' \in States /\ modes' \in BOOLEAN

\* What every step of the supervisor's keeps.
Tidy ==
    /\ SupervisorTyped
    /\ UNCHANGED <<pumpVars, endVars, cancel, wanted, asked, sent>>
    /\ phase' # "stopped" => phase # "stopped"
    /\ phase' \in Live => pty' = Clamp(geometry')
    /\ listening /\ phase' \notin Live => modes' = FALSE

\* It takes nothing from its channel, ...
Unread ==
    /\ Tidy /\ Passed(inner)
    /\ UNCHANGED <<running, answered, missed>>
    /\ phase' # "stopped" => Believed' = Believed

\* ... or the first command, which it answers, serves or need not answer; a
\* size it believes or drops at the prompt.
Read ==
    LET c == Head(inner)
    IN  /\ inner # << >>
        /\ Tidy /\ Passed(Tail(inner))
        /\ \/ (c.kind \notin Intents \/ ~listening) /\ UNCHANGED <<running, answered>>
           \/ c.kind \in Intents /\ running' = running \cup {c.n} /\ UNCHANGED answered
           \/ c.kind \in Intents /\ Answer(c.n) /\ UNCHANGED running
        /\ missed' \in BOOLEAN
        /\ phase' # "stopped" =>
               IF c.kind = "Resize" THEN missed' \/ Clamp(Believed') = Clamp(c.size)
               ELSE Believed' = Believed /\ missed' = missed

LEMMA SupervisorWaits ==
    ASSUME Inv,
           \/ Dialing \/ Authenticating \/ Written \/ Opening \/ AskCancelled \/ LiveCancelled \/ LinkLost
           \/ Output \/ StaysUp \/ BackoffCancelled \/ Elapsed
    PROVE  Unread
  <1> USE SshAssumption DEF Live
  <1>1. /\ TypeOK /\ inner \in Seq(Command) /\ modes \in BOOLEAN
        /\ listening /\ phase \notin Live => modes = FALSE
        /\ phase \in Live => pty = Clamp(geometry)
    BY DEF Inv, TypeOK, TerminalHandedBack, SizeInv
  <1>2. /\ phase \in Phase
        /\ attempts \in 0..MaxAttempts /\ fallbacks \in 0..Fallbacks /\ stable \in BOOLEAN
        /\ terminal \in Size /\ geometry \in Size /\ pty \in Size \cup {None}
        /\ told \in States
    BY <1>1, Sizes DEF TypeOK, States
  <1>3. ASSUME NEW err, Ends(err, inner), phase \in Phase \ (Live \cup {"stopped"}),
               UNCHANGED <<ptyVars, pumpVars, endVars, cancel, running, answered,
                           modes, historyVars>>
        PROVE  Unread
    BY <1>1, <1>2, <1>3, Ending DEF Unread, Tidy, SupervisorTyped, Phase, ptyVars,
        historyVars, Believed
  <1>4. ASSUME NEW err, Leave(err, inner), phase \in Live,
               UNCHANGED <<pumpVars, endVars, cancel, running, answered, historyVars>>
        PROVE  Unread
    BY <1>1, <1>2, <1>4, Leaving DEF Unread, Tidy, SupervisorTyped, Phase,
        historyVars, Believed
  <1>5. CASE DialFails \/ DialCancelled \/ OpenFails \/ OpenedDeaf \/ AskCancelled
    BY <1>3, <1>5 DEF DialFails, DialCancelled, OpenFails, OpenedDeaf, AskCancelled, Phase
  <1>6. CASE AuthRefused
    <2>1. CASE fallbacks = 0 /\ ~listening /\ Ends("NeedsUser", inner)
      BY <1>3, <1>6, <2>1 DEF AuthRefused, Phase
    <2>2. CASE ~(fallbacks = 0 /\ ~listening /\ Ends("NeedsUser", inner))
      BY <1>1, <1>2, <1>6, <2>2 DEF AuthRefused, Unread, Tidy, SupervisorTyped, Passed, Phase,
        ptyVars, dialVars, chanVars, historyVars, Believed
    <2> QED  BY <2>1, <2>2
  <1>7. CASE Reaches \/ Authenticated \/ Written
    BY <1>1, <1>2, <1>7 DEF Reaches, Authenticated, Written, Unread, Tidy, SupervisorTyped, Passed, Phase,
        ptyVars, dialVars, chanVars, historyVars, Believed
  <1>8. CASE Opened
    <2>1. pty' \in Size /\ geometry' = terminal /\ pty' = Clamp(geometry') /\ told' \in States
      BY <1>2, <1>8, Clamped DEF Opened, Tell, States
    <2> QED
      BY <1>1, <1>2, <1>8, <2>1 DEF Opened, Unread, Tidy, SupervisorTyped, Passed, Phase,
        dialVars, chanVars, historyVars, Believed
  <1>9. CASE LiveCancelled \/ LinkLost
    BY <1>4, <1>9 DEF LiveCancelled, LinkLost
  <1>10. CASE Output
    <2>1. CASE ~listening /\ Leave("Cancelled", inner)
      BY <1>4, <1>10, <2>1 DEF Output
    <2>2. CASE ~(~listening /\ Leave("Cancelled", inner))
      BY <1>1, <1>2, <1>10, <2>2 DEF Output, Unread, Tidy, SupervisorTyped, Passed, Phase,
        ptyVars, dialVars, chanVars, historyVars, Believed
    <2> QED  BY <2>1, <2>2
  <1>11. CASE StaysUp
    BY <1>1, <1>2, <1>11 DEF StaysUp, Unread, Tidy, SupervisorTyped, Passed, Phase,
        ptyVars, chanVars, historyVars, Believed
  <1>12. CASE BackoffCancelled
    BY <1>1, <1>2, <1>12 DEF BackoffCancelled, Return, Unread, Tidy, SupervisorTyped, Passed,
        Phase, ptyVars, dialVars, historyVars, Believed
  <1>13. CASE Elapsed
    BY <1>1, <1>2, <1>13, Beginning DEF Elapsed, Unread, Tidy, SupervisorTyped, Phase,
        ptyVars, historyVars, Believed
  <1> QED
    BY <1>5, <1>6, <1>7, <1>8, <1>9, <1>10, <1>11, <1>12, <1>13 DEF Dialing, Authenticating, Opening

LEMMA SupervisorReads ==
    ASSUME Inv, AskTakes \/ LiveTakes \/ BackoffTakes
    PROVE  Read
  <1> USE SshAssumption DEF Live
  <1> DEFINE c == Head(inner)
             rest == Tail(inner)
  <1>1. /\ TypeOK /\ inner \in Seq(Command) /\ modes \in BOOLEAN /\ missed \in BOOLEAN
        /\ listening /\ phase \notin Live => modes = FALSE
        /\ phase \in Live => pty = Clamp(geometry)
    BY DEF Inv, TypeOK, TerminalHandedBack, SizeInv
  <1>2. /\ phase \in Phase
        /\ attempts \in 0..MaxAttempts /\ fallbacks \in 0..Fallbacks /\ stable \in BOOLEAN
        /\ terminal \in Size /\ geometry \in Size /\ pty \in Size \cup {None}
        /\ told \in States
    BY <1>1, Sizes DEF TypeOK, States
  <1>3. inner # << >>
    BY DEF AskTakes, LiveTakes, BackoffTakes
  <1>4. /\ c \in Command /\ rest \in Seq(Command) /\ c.kind # "PtyRun"
    BY <1>1, <1>3, Taken DEF Inv, IntentsInv, NoPtyRun
  <1>5. c.size \in Size /\ c.kind \in Plain \cup {"Resize"}
    BY <1>4 DEF Command
  <1> HIDE DEF c, rest
  <1>6. c.kind \in Intents <=> c.kind = "Exec"
    BY <1>4 DEF Intents
  <1>8. CASE AskTakes
    <2>1. /\ phase = "asking"
          /\ UNCHANGED <<ptyVars, pumpVars, endVars, cancel, running, modes, wanted, asked, sent>>
      BY <1>8 DEF AskTakes
    <2>2. CASE /\ c.kind \in {"CancelCredentials", "Disconnect"} \/ (c.kind = "Exec" /\ ~listening)
               /\ Ends("NeedsUser", rest) /\ UNCHANGED <<answered, missed>>
      BY <1>1, <1>2, <1>3, <1>4, <1>5, <1>6, <2>1, <2>2, Ending DEF Read, Tidy, SupervisorTyped, Phase,
        ptyVars, Believed, c, rest, Intents
    <2>3. CASE /\ c.kind = "ProvideCredentials"
               /\ phase' = "dialing" /\ fallbacks' = 0
               /\ Keep(rest)
               /\ UNCHANGED <<attempts, stable, told, answered, missed>>
      BY <1>1, <1>2, <1>3, <1>4, <1>5, <1>6, <2>1, <2>3 DEF Read, Tidy, SupervisorTyped, Phase,
        ptyVars, Believed, c, rest, Keep, Passed, Intents
    <2>4. CASE /\ c.kind = "Exec" /\ listening
               /\ Answer(c.n)
               /\ Keep(rest)
               /\ UNCHANGED <<phase, dialVars, told, missed>>
      BY <1>1, <1>2, <1>3, <1>4, <1>5, <1>6, <2>1, <2>4 DEF Read, Tidy, SupervisorTyped, Phase,
        ptyVars, dialVars, Believed, c, rest, Keep, Passed
    <2>5. CASE /\ c.kind \in {"Input", "Resize", "ReconnectNow"}
               /\ Keep(rest)
               /\ missed' = (missed \/ c.kind = "Resize")
               /\ UNCHANGED <<phase, dialVars, told, answered>>
      <3>1. missed' \in BOOLEAN /\ (c.kind = "Resize" => missed') /\ (c.kind # "Resize" => missed' = missed)
        BY <1>1, <2>5
      <3> QED
        BY <1>1, <1>2, <1>3, <1>4, <1>5, <1>6, <2>1, <2>5, <3>1 DEF Read, Tidy, SupervisorTyped, Phase,
          ptyVars, dialVars, Believed, c, rest, Keep, Passed, Intents
    <2> QED  BY <1>8, <2>2, <2>3, <2>4, <2>5 DEF AskTakes, c, rest
  <1>9. CASE LiveTakes
    <2>1. /\ phase = "live"
          /\ UNCHANGED <<pumpVars, endVars, cancel, answered, historyVars>>
      BY <1>9 DEF LiveTakes
    <2>2. CASE c.kind = "Disconnect" /\ Leave("User", rest) /\ UNCHANGED running
      BY <1>1, <1>2, <1>3, <1>4, <1>5, <1>6, <2>1, <2>2, Leaving DEF Read, Tidy, SupervisorTyped, Phase,
        historyVars, Believed, c, rest, Intents
    <2>3. CASE /\ c.kind # "Disconnect"
               /\ IF c.kind = "Resize" THEN Resized(c.size)
                  ELSE UNCHANGED <<geometry, pty>>
               /\ running' = IF c.kind = "Exec" THEN running \cup {c.n}
                             ELSE running
               /\ phase' = IF c.kind = "Input" THEN "writing" ELSE "live"
               /\ Keep(rest)
               /\ UNCHANGED <<dialVars, terminal, told, modes>>
      <3>1. /\ geometry' \in Size /\ pty' \in Size \cup {None} /\ pty' = Clamp(geometry')
            /\ c.kind = "Resize" => Clamp(geometry') = Clamp(c.size)
            /\ c.kind # "Resize" => geometry' = geometry
        BY <1>1, <1>2, <1>5, <2>1, <2>3, Clamped DEF Resized
      <3> QED
        BY <1>1, <1>2, <1>3, <1>4, <1>5, <1>6, <2>1, <2>3, <3>1 DEF Read, Tidy, SupervisorTyped, Phase,
          historyVars, dialVars, Believed, c, rest, Keep, Passed
    <2> QED  BY <1>9, <2>2, <2>3 DEF LiveTakes, c, rest
  <1>10. CASE BackoffTakes
    <2>1. /\ phase = "backoff"
          /\ UNCHANGED <<geometry, pty, pumpVars, endVars, cancel, running, modes, historyVars>>
      BY <1>10 DEF BackoffTakes
    <2>2. CASE /\ c.kind = "Disconnect" \/ (c.kind = "Exec" /\ ~listening)
               /\ Return(rest)
               /\ UNCHANGED <<dialVars, terminal, answered, told>>
      BY <1>1, <1>2, <1>3, <1>4, <1>5, <1>6, <2>1, <2>2 DEF Read, Tidy, SupervisorTyped, Phase,
        historyVars, dialVars, Believed, c, rest, Intents, Return, Passed
    <2>3. CASE /\ c.kind = "ReconnectNow"
               /\ attempts' = 0
               /\ Dial(rest)
               /\ UNCHANGED <<stable, terminal, answered>>
      BY <1>1, <1>2, <1>3, <1>4, <1>5, <1>6, <2>1, <2>3, Beginning DEF Read, Tidy, SupervisorTyped,
        Phase, historyVars, Believed, c, rest, Intents
    <2>4. CASE /\ c.kind = "Exec" /\ listening
               /\ Answer(c.n)
               /\ Keep(rest)
               /\ UNCHANGED <<phase, dialVars, terminal, told>>
      BY <1>1, <1>2, <1>3, <1>4, <1>5, <1>6, <2>1, <2>4 DEF Read, Tidy, SupervisorTyped, Phase,
        historyVars, dialVars, Believed, c, rest, Keep, Passed
    <2>5. CASE /\ c.kind \in {"Input", "Resize", "ProvideCredentials", "CancelCredentials"}
               /\ terminal' = IF c.kind = "Resize" THEN c.size ELSE terminal
               /\ Keep(rest)
               /\ UNCHANGED <<phase, dialVars, answered, told>>
      BY <1>1, <1>2, <1>3, <1>4, <1>5, <1>6, <2>1, <2>5 DEF Read, Tidy, SupervisorTyped, Phase,
        historyVars, dialVars, Believed, c, rest, Keep, Passed, Intents
    <2> QED  BY <1>10, <2>2, <2>3, <2>4, <2>5 DEF BackoffTakes, c, rest
  <1> QED  BY <1>8, <1>9, <1>10

-----------------------------------------------------------------------------
(* They keep the invariant. *)

\* A step of the supervisor's keeps the types.
LEMMA SupervisorTypes ==
    ASSUME TypeOK, Tidy, NEW rest \in Seq(Command), Len(rest) <= Capacity, Passed(rest),
           running' \subseteq 1..MaxSent, answered' \in [1..MaxSent -> Nat], missed' \in BOOLEAN
    PROVE  TypeOK'
  BY Passing DEF TypeOK, Tidy, SupervisorTyped, States, pumpVars, endVars

\* What it leaves in the channel.
LEMMA PassedIntents ==
    ASSUME NEW rest \in Seq(Command), Passed(rest), Once(rest),
           \A i \in DOMAIN rest : rest[i].kind # "PtyRun"
    PROVE  /\ Once(inner') /\ \A i \in DOMAIN inner' : inner'[i].kind # "PtyRun"
           /\ IntentsOf(inner') \subseteq IntentsOf(rest)
           /\ IntentsOf(rest) \cup dropped \subseteq IntentsOf(inner') \cup dropped'
  <1>1. CASE inner' = rest /\ dropped' = dropped
    BY <1>1
  <1>2. CASE inner' = << >> /\ dropped' = dropped \cup IntentsOf(rest)
    BY <1>2, Empty
  <1> QED  BY <1>1, <1>2 DEF Passed

\* The answer to an intent that had none.
LEMMA OneAnswer ==
    ASSUME TypeOK, NEW n \in 1..MaxSent, n \notin Answered, Answer(n)
    PROVE  /\ answered' \in [1..MaxSent -> Nat]
           /\ Answered' \subseteq Answered \cup {n} /\ Answered \subseteq Answered'
           /\ listening => n \in Answered'
           /\ (\A m \in 1..MaxSent : answered[m] <= 1)
                  => \A m \in 1..MaxSent : answered'[m] <= 1
  <1>1. answered \in [1..MaxSent -> Nat] /\ answered[n] = 0
    BY DEF TypeOK, Answered
  <1> QED  BY <1>1 DEF Answer, Answered

\* A step that leaves the viewer's channel, the hand and what was asked alone
\* and moves one intent, c, from rest's front, keeps every intent in its place.
LEMMA SupervisorIntents ==
    ASSUME TypeOK, IntentsInv, UNCHANGED <<outer, hand, listening, asked, sent>>,
           NEW rest \in Seq(Command), Passed(rest), NEW moved,
           Once(rest), \A i \in DOMAIN rest : rest[i].kind # "PtyRun",
           IntentsOf(inner) = moved \cup IntentsOf(rest), moved \cap IntentsOf(rest) = {},
           running \subseteq running', Answered \subseteq Answered',
           running' \cup Answered' \subseteq running \cup Answered \cup moved,
           running' \cap Answered' = {},
           listening => moved \subseteq running' \cup Answered',
           \A m \in 1..MaxSent : answered'[m] <= 1
    PROVE  IntentsInv'
  <1>1. /\ Once(inner') /\ \A i \in DOMAIN inner' : inner'[i].kind # "PtyRun"
        /\ IntentsOf(inner') \subseteq IntentsOf(rest)
        /\ IntentsOf(rest) \cup dropped \subseteq IntentsOf(inner') \cup dropped'
    BY PassedIntents
  <1>2. /\ IntentsOf(outer)' = IntentsOf(outer) /\ IntentsOf(inner)' = IntentsOf(inner')
        /\ Once(outer)' = Once(outer) /\ Once(inner)' = Once(inner') /\ InHand' = InHand
    BY DEF InHand
  <1>3. NoPtyRun'
    BY <1>1 DEF IntentsInv, NoPtyRun
  <1>4. OnePlace'
    BY <1>1, <1>2, Zenon DEF IntentsInv, OnePlace
  <1>5. Numbered'
    BY <1>1, <1>2 DEF IntentsInv, Numbered
  <1>6. Accounted'
    BY <1>1, <1>2 DEF IntentsInv, Accounted
  <1> QED  BY <1>3, <1>4, <1>5, <1>6 DEF IntentsInv

LEMMA UnreadKeeps ==
    ASSUME Inv, Unread
    PROVE  Inv'
  <1>1. /\ TypeOK /\ IntentsInv /\ SizeInv /\ Tidy /\ Passed(inner)
        /\ inner \in Seq(Command) /\ Len(inner) <= Capacity
        /\ UNCHANGED <<running, answered, missed, wanted, outer, hand, pump, listening, asked, sent>>
    BY DEF Inv, Unread, TypeOK, Tidy, pumpVars, endVars
  <1>2. TypeOK'
    BY <1>1, SupervisorTypes DEF TypeOK
  <1>3. IntentsInv'
    <2>1. Answered' = Answered
      BY <1>1 DEF Answered
    <2>2. /\ Once(inner) /\ \A i \in DOMAIN inner : inner[i].kind # "PtyRun"
          /\ running \cap Answered = {} /\ \A m \in 1..MaxSent : answered[m] <= 1
      BY <1>1 DEF IntentsInv, OnePlace, NoPtyRun
    <2>3. IntentsOf(inner) = {} \cup IntentsOf(inner) /\ {} \cap IntentsOf(inner) = {}
      OBVIOUS
    <2> QED  BY <1>1, <2>1, <2>2, <2>3, SupervisorIntents
  <1>4. TerminalHandedBack'
    BY <1>1 DEF Tidy, TerminalHandedBack
  <1>5. SizeInv'
    <2>1. phase' # "stopped" => Believed' = Believed /\ inner' = inner /\ phase # "stopped"
      BY DEF Unread, Passed, Tidy
    <2>2. NoResizeInHand' = NoResizeInHand
      BY <1>1 DEF NoResizeInHand
    <2>3. phase' \in Live => pty' = Clamp(geometry')
      BY <1>1 DEF Tidy
    <2> QED  BY <1>1, <2>1, <2>2, <2>3 DEF SizeInv
  <1> QED  BY <1>2, <1>3, <1>4, <1>5 DEF Inv

LEMMA ReadKeeps ==
    ASSUME Inv, Read
    PROVE  Inv'
  <1> DEFINE c == Head(inner)
             rest == Tail(inner)
  <1>1. /\ TypeOK /\ IntentsInv /\ SizeInv /\ Tidy /\ Passed(rest) /\ inner # << >>
        /\ inner \in Seq(Command) /\ Len(inner) <= Capacity /\ Len(inner) \in Nat
        /\ UNCHANGED <<wanted, outer, hand, pump, listening, asked, sent>>
        /\ missed' \in BOOLEAN /\ Capacity \in Nat
    BY SshAssumption DEF Inv, Read, TypeOK, Tidy, pumpVars, endVars
  <1>2. /\ Once(inner) /\ \A i \in DOMAIN inner : inner[i].kind # "PtyRun"
        /\ running \cap Answered = {} /\ \A m \in 1..MaxSent : answered[m] <= 1
        /\ IntentsOf(inner) \cap (running \cup Answered) = {}
    BY <1>1 DEF IntentsInv, OnePlace, NoPtyRun
  <1>3. /\ c \in Command /\ rest \in Seq(Command) /\ Len(rest) < Len(inner)
        /\ IntentsOf(inner) = IntentOf(c) \cup IntentsOf(rest)
        /\ Once(rest) /\ IntentOf(c) \cap IntentsOf(rest) = {}
        /\ \A i \in DOMAIN rest : rest[i].kind # "PtyRun"
    BY <1>1, <1>2, Taken
  <1>4. NoResize(inner) <=> c.kind # "Resize" /\ NoResize(rest)
    BY <1>1, Taken
  <1>5. LastIs(inner, wanted) =>
            LastIs(rest, wanted) /\ (c.kind = "Resize" /\ NoResize(rest) => c.size = wanted)
    BY <1>1, Taken
  <1>6. Len(rest) <= Capacity
    BY <1>1, <1>3
  <1>7. c.n \in 1..MaxSent
    BY <1>3 DEF Command
  <1>8. \/ (c.kind \notin Intents \/ ~listening) /\ UNCHANGED <<running, answered>>
        \/ c.kind \in Intents /\ running' = running \cup {c.n} /\ UNCHANGED answered
        \/ c.kind \in Intents /\ Answer(c.n) /\ UNCHANGED running
    BY DEF Read
  <1>9. phase' # "stopped" =>
            IF c.kind = "Resize" THEN missed' \/ Clamp(Believed') = Clamp(c.size)
            ELSE Believed' = Believed /\ missed' = missed
    BY DEF Read
  <1>10. phase' # "stopped" => inner' = rest /\ phase # "stopped"
    BY <1>1 DEF Passed, Tidy
  <1> HIDE DEF c, rest
  <1>11. /\ running' \subseteq 1..MaxSent /\ answered' \in [1..MaxSent -> Nat]
         /\ running \subseteq running' /\ Answered \subseteq Answered'
         /\ running' \cup Answered' \subseteq running \cup Answered \cup IntentOf(c)
         /\ running' \cap Answered' = {}
         /\ listening => IntentOf(c) \subseteq running' \cup Answered'
         /\ \A m \in 1..MaxSent : answered'[m] <= 1
    <2>1. CASE (c.kind \notin Intents \/ ~listening) /\ UNCHANGED <<running, answered>>
      BY <2>1, <1>1, <1>2 DEF TypeOK, Answered, IntentOf
    <2>2. CASE c.kind \in Intents /\ running' = running \cup {c.n} /\ UNCHANGED answered
      <3>1. IntentOf(c) = {c.n} /\ Answered' = Answered /\ c.n \notin Answered
        BY <2>2, <1>2, <1>3 DEF IntentOf, Answered
      <3> QED  BY <2>2, <3>1, <1>1, <1>2, <1>7 DEF TypeOK
    <2>3. CASE c.kind \in Intents /\ Answer(c.n) /\ UNCHANGED running
      <3>1. IntentOf(c) = {c.n} /\ c.n \notin Answered /\ c.n \notin running
        BY <2>3, <1>2, <1>3 DEF IntentOf
      <3>2. /\ answered' \in [1..MaxSent -> Nat]
            /\ Answered' \subseteq Answered \cup {c.n} /\ Answered \subseteq Answered'
            /\ listening => c.n \in Answered'
            /\ \A m \in 1..MaxSent : answered'[m] <= 1
        BY <2>3, <3>1, <1>1, <1>2, <1>7, OneAnswer
      <3> QED  BY <2>3, <3>1, <3>2, <1>1, <1>2 DEF TypeOK
    <2> QED  BY <1>8, <2>1, <2>2, <2>3
  <1>12. TypeOK'
    BY <1>1, <1>3, <1>6, <1>11, SupervisorTypes
  <1>13. IntentsInv'
    BY <1>1, <1>3, <1>11, SupervisorIntents
  <1>14. TerminalHandedBack'
    BY <1>1 DEF Tidy, TerminalHandedBack
  <1>15. SizeInv'
    <2>1. NoResizeInHand' = NoResizeInHand
      BY <1>1 DEF NoResizeInHand
    <2>2. phase' \in Live => pty' = Clamp(geometry')
      BY <1>1 DEF Tidy
    <2>3. ASSUME phase' # "stopped", pump # "off", NoResize(outer), NoResizeInHand
          PROVE  LastIs(inner', wanted)
      BY <2>3, <1>1, <1>5, <1>10 DEF SizeInv
    <2>4. ASSUME phase' # "stopped", pump # "off", NoResize(outer), NoResizeInHand,
                 NoResize(inner'), ~missed'
          PROVE  Clamp(Believed') = Clamp(wanted)
      BY <2>4, <1>1, <1>4, <1>5, <1>9, <1>10 DEF SizeInv
    <2> QED  BY <1>1, <1>10, <2>1, <2>2, <2>3, <2>4 DEF SizeInv
  <1> QED  BY <1>12, <1>13, <1>14, <1>15 DEF Inv

-----------------------------------------------------------------------------
(* The steps of the viewer, of the carrying task and of the exec tasks. *)

LEMMA SendKeeps ==
    ASSUME Inv, NEW kind \in Plain \cup {"Resize"}, NEW size \in Size, Send(kind, size)
    PROVE  Inv'
  <1> DEFINE c == [kind |-> kind, size |-> size, n |-> sent + 1]
  <1>1. /\ TypeOK /\ IntentsInv /\ SizeInv /\ TerminalHandedBack
        /\ sent \in Nat /\ sent < MaxSent /\ sent' = sent + 1 /\ outer' = Append(outer, c)
        /\ outer \in Seq(Command) /\ missed \in BOOLEAN /\ pump # "off"
    BY DEF Inv, TypeOK, Send
  <1>2. /\ wanted' = (IF kind = "Resize" THEN size ELSE wanted)
        /\ missed' = (missed /\ kind # "Resize")
        /\ asked' = asked \cup IntentOf(c)
        /\ UNCHANGED <<phase, dialVars, ptyVars, hand, pump, chanVars, endVars,
                       cancel, running, answered, told, modes>>
    BY DEF Send, IntentOf
  <1>3. c \in Command /\ c.kind = kind /\ c.size = size /\ c.n = sent + 1
    BY <1>1, SshAssumption DEF Command
  <1> HIDE DEF c
  <1>4. /\ outer' \in Seq(Command)
        /\ IntentsOf(outer') = IntentsOf(outer) \cup IntentOf(c)
        /\ Once(outer) /\ IntentsOf(outer) \cap IntentOf(c) = {} => Once(outer')
        /\ NoResize(outer') <=> NoResize(outer) /\ kind # "Resize"
    BY <1>1, <1>3, Appended
  <1>5. /\ IntentOf(c) \cap 1..sent = {} /\ IntentOf(c) \subseteq 1..(sent + 1)
        /\ 1..sent \subseteq 1..(sent + 1)
    BY <1>1, <1>3 DEF IntentOf
  <1>6. TypeOK'
    <2>1. sent' \in 0..MaxSent /\ 1..(sent + 1) \subseteq 1..MaxSent
      BY <1>1, SshAssumption
    <2>2. asked' \subseteq 1..MaxSent
      BY <1>1, <1>2, <1>5, <2>1 DEF TypeOK
    <2>3. wanted' \in Size
      BY <1>1, <1>2, Sizes
    <2>4. missed' \in BOOLEAN
      BY <1>2
    <2> QED
      BY <1>1, <1>2, <1>4, <2>1, <2>2, <2>3, <2>4 DEF TypeOK, dialVars, ptyVars, chanVars, endVars
  <1>7. IntentsInv'
    <2>1. /\ IntentsOf(outer)' = IntentsOf(outer') /\ IntentsOf(inner)' = IntentsOf(inner)
          /\ InHand' = InHand /\ Answered' = Answered /\ running' = running /\ dropped' = dropped
          /\ Once(inner)' = Once(inner) /\ NoPtyRun' = NoPtyRun /\ listening' = listening
      BY <1>2 DEF chanVars, endVars, InHand, Answered, NoPtyRun
    <2>2. Numbered /\ OnePlace /\ Accounted /\ NoPtyRun
      BY <1>1 DEF IntentsInv
    <2>3. IntentOf(c) \cap (IntentsOf(outer) \cup InHand \cup IntentsOf(inner) \cup running
                                \cup Answered) = {}
      BY <1>5, <2>2 DEF Numbered
    <2>4. OnePlace'
      BY <1>2, <1>4, <2>1, <2>2, <2>3 DEF OnePlace
    <2>5. Numbered'
      BY <1>1, <1>2, <1>4, <1>5, <2>1, <2>2 DEF Numbered
    <2>6. Accounted'
      BY <1>2, <1>4, <2>1, <2>2 DEF Accounted
    <2> QED  BY <2>1, <2>2, <2>4, <2>5, <2>6 DEF IntentsInv
  <1>8. TerminalHandedBack'
    BY <1>1, <1>2 DEF TerminalHandedBack, endVars
  <1>9. SizeInv'
    <2>1. /\ inner' = inner /\ phase' = phase /\ hand' = hand /\ pump' = pump /\ pty' = pty
          /\ geometry' = geometry /\ Believed' = Believed /\ NoResizeInHand' = NoResizeInHand
      BY <1>2 DEF chanVars, ptyVars, Believed, NoResizeInHand
    <2>2. CASE kind = "Resize"
      <3>1. LastIs(outer', wanted')
        BY <1>1, <1>2, <1>3, <2>2, Appended
      <3> QED  BY <1>1, <1>4, <2>1, <2>2, <3>1 DEF SizeInv
    <2>3. CASE kind # "Resize"
      <3>1. LastIs(outer, wanted) => LastIs(outer', wanted)
        BY <1>1, <1>3, <2>3, Appended
      <3>2. wanted' = wanted /\ missed' = missed
        BY <1>1, <1>2, <2>3
      <3> QED  BY <1>1, <1>4, <2>1, <2>3, <3>1, <3>2 DEF SizeInv
    <2> QED  BY <2>2, <2>3
  <1> QED  BY <1>6, <1>7, <1>8, <1>9 DEF Inv

LEMMA PumpTakesKeeps ==
    ASSUME Inv, PumpTakes
    PROVE  Inv'
  <1> DEFINE c == Head(outer)
             rest == Tail(outer)
  <1>1. /\ TypeOK /\ IntentsInv /\ SizeInv /\ TerminalHandedBack
        /\ outer \in Seq(Command) /\ outer # << >> /\ hand = None /\ pump = "on"
        /\ outer' = rest
        /\ UNCHANGED <<phase, dialVars, ptyVars, chanVars, endVars, cancel,
                       running, told, modes, historyVars>>
    BY DEF Inv, TypeOK, PumpTakes
  <1>2. \/ /\ c.kind = "PtyRun" /\ Answer(c.n) /\ hand' = hand /\ pump' \in {"on", "shutting"}
        \/ /\ c.kind # "PtyRun" /\ hand' = c /\ answered' = answered /\ pump' = pump
    BY DEF PumpTakes
  <1>3. Once(outer) /\ IntentsOf(outer) \cap Answered = {}
    BY <1>1 DEF IntentsInv, OnePlace
  <1>4. /\ c \in Command /\ rest \in Seq(Command)
        /\ IntentsOf(outer) = IntentOf(c) \cup IntentsOf(rest)
        /\ Once(rest) /\ IntentOf(c) \cap IntentsOf(rest) = {}
        /\ NoResize(outer) <=> c.kind # "Resize" /\ NoResize(rest)
    BY <1>1, <1>3, Taken
  <1>5. LastIs(outer, wanted) =>
            LastIs(rest, wanted) /\ (c.kind = "Resize" /\ NoResize(rest) => c.size = wanted)
    BY <1>1, Taken
  <1>6. c.n \in 1..MaxSent /\ c # None
    BY <1>4, SshAssumption DEF Command
  <1> HIDE DEF c, rest
  <1>7. /\ IntentsOf(outer)' = IntentsOf(rest) /\ IntentsOf(inner)' = IntentsOf(inner)
        /\ running' = running /\ dropped' = dropped /\ asked' = asked /\ sent' = sent
        /\ Once(outer)' = Once(rest) /\ Once(inner)' = Once(inner) /\ inner' = inner
        /\ listening' = listening /\ InHand = {}
    BY <1>1 DEF chanVars, endVars, historyVars, InHand
  <1>8. Numbered /\ OnePlace /\ Accounted /\ NoPtyRun
    BY <1>1 DEF IntentsInv
  <1>9. /\ wanted' = wanted /\ missed' = missed /\ Believed' = Believed /\ phase' = phase
        /\ pty' = pty /\ geometry' = geometry
    BY <1>1 DEF historyVars, ptyVars, Believed
  <1>10. TerminalHandedBack'
    BY <1>1 DEF TerminalHandedBack, endVars
  <1>11. CASE c.kind = "PtyRun" /\ Answer(c.n) /\ hand' = hand /\ pump' \in {"on", "shutting"}
    <2>1. IntentOf(c) = {c.n} /\ InHand' = {} /\ NoPtyRun'
      BY <1>1, <1>7, <1>8, <1>11 DEF IntentOf, Intents, InHand, NoPtyRun
    <2>2. /\ answered' \in [1..MaxSent -> Nat]
          /\ Answered' \subseteq Answered \cup {c.n} /\ Answered \subseteq Answered'
          /\ listening => c.n \in Answered'
          /\ \A m \in 1..MaxSent : answered'[m] <= 1
      BY <1>1, <1>3, <1>4, <1>6, <1>8, <1>11, <2>1, OneAnswer DEF OnePlace
    <2>3. TypeOK'
      BY <1>1, <1>4, <1>11, <2>2 DEF TypeOK, dialVars, ptyVars, chanVars, endVars, historyVars
    <2>4. OnePlace'
      BY <1>4, <1>7, <1>8, <2>1, <2>2 DEF OnePlace
    <2>5. Numbered'
      BY <1>4, <1>7, <1>8, <2>1, <2>2 DEF Numbered
    <2>6. Accounted'
      BY <1>4, <1>7, <1>8, <2>1, <2>2 DEF Accounted
    <2>7. SizeInv'
      <3>1. NoResizeInHand /\ NoResizeInHand'
        BY <1>1, <1>11 DEF NoResizeInHand
      <3> QED  BY <1>1, <1>4, <1>5, <1>7, <1>9, <1>11, <3>1 DEF SizeInv
    <2> QED  BY <1>10, <2>1, <2>3, <2>4, <2>5, <2>6, <2>7 DEF Inv, IntentsInv
  <1>12. CASE c.kind # "PtyRun" /\ hand' = c /\ answered' = answered /\ pump' = pump
    <2>1. InHand' = IntentOf(c) /\ NoPtyRun' /\ Answered' = Answered
      BY <1>6, <1>7, <1>8, <1>12 DEF InHand, NoPtyRun, Answered
    <2>2. TypeOK'
      BY <1>1, <1>4, <1>12 DEF TypeOK, dialVars, ptyVars, chanVars, endVars, historyVars
    <2>3. OnePlace'
      BY <1>4, <1>7, <1>8, <1>12, <2>1 DEF OnePlace
    <2>4. Numbered'
      BY <1>4, <1>7, <1>8, <2>1 DEF Numbered
    <2>5. Accounted'
      BY <1>4, <1>7, <1>8, <2>1 DEF Accounted
    <2>6. SizeInv'
      <3>1. NoResizeInHand /\ (NoResizeInHand' <=> c.kind # "Resize")
        BY <1>1, <1>6, <1>12 DEF NoResizeInHand
      <3> QED  BY <1>1, <1>4, <1>5, <1>7, <1>9, <1>12, <3>1 DEF SizeInv
    <2> QED  BY <1>10, <2>1, <2>2, <2>3, <2>4, <2>5, <2>6 DEF Inv, IntentsInv
  <1> QED  BY <1>2, <1>11, <1>12

LEMMA PumpSendsKeeps ==
    ASSUME Inv, PumpSends
    PROVE  Inv'
  <1>1. /\ TypeOK /\ IntentsInv /\ SizeInv /\ TerminalHandedBack
        /\ inner \in Seq(Command) /\ hand \in Command /\ hand # None /\ pump = "on"
        /\ Len(inner) < Capacity /\ Len(inner) \in Nat /\ Capacity \in Nat
        /\ inner' = Append(inner, hand) /\ dropped' = dropped
        /\ hand' = None /\ pump' \in {"on", "shutting"}
        /\ UNCHANGED <<phase, dialVars, ptyVars, outer, endVars, cancel, running,
                       answered, told, modes, historyVars>>
    BY SshAssumption DEF Inv, TypeOK, PumpSends, Keep
  <1>2. /\ inner' \in Seq(Command) /\ Len(inner') = Len(inner) + 1
        /\ IntentsOf(inner') = IntentsOf(inner) \cup IntentOf(hand)
        /\ Once(inner) /\ IntentsOf(inner) \cap IntentOf(hand) = {} => Once(inner')
        /\ NoResize(inner') <=> NoResize(inner) /\ hand.kind # "Resize"
    BY <1>1, Appended
  <1>3. /\ hand.kind = "Resize" /\ hand.size = wanted => LastIs(inner', wanted)
        /\ hand.kind # "Resize" /\ LastIs(inner, wanted) => LastIs(inner', wanted)
    BY <1>1, Appended
  <1>4. /\ IntentsOf(outer)' = IntentsOf(outer) /\ IntentsOf(inner)' = IntentsOf(inner')
        /\ running' = running /\ asked' = asked /\ sent' = sent /\ Answered' = Answered
        /\ Once(outer)' = Once(outer) /\ Once(inner)' = Once(inner')
        /\ listening' = listening /\ InHand = IntentOf(hand) /\ InHand' = {}
        /\ answered' = answered
    BY <1>1 DEF endVars, historyVars, InHand, Answered
  <1>5. Numbered /\ OnePlace /\ Accounted /\ NoPtyRun
    BY <1>1 DEF IntentsInv
  <1>6. TypeOK'
    <2>1. Len(inner') <= Capacity
      BY <1>1, <1>2
    <2> QED  BY <1>1, <1>2, <2>1 DEF TypeOK, dialVars, ptyVars, endVars, historyVars
  <1>7. NoPtyRun'
    <2>1. \A i \in DOMAIN inner' : (i \in DOMAIN inner /\ inner'[i] = inner[i]) \/ inner'[i] = hand
      BY <1>1
    <2> QED  BY <1>1, <1>5, <2>1 DEF NoPtyRun
  <1>8. OnePlace'
    BY <1>2, <1>4, <1>5 DEF OnePlace
  <1>9. Numbered'
    BY <1>2, <1>4, <1>5 DEF Numbered
  <1>10. Accounted'
    BY <1>1, <1>2, <1>4, <1>5 DEF Accounted
  <1>11. TerminalHandedBack'
    BY <1>1 DEF TerminalHandedBack, endVars
  <1>12. SizeInv'
    <2>1. /\ wanted' = wanted /\ missed' = missed /\ Believed' = Believed /\ phase' = phase
          /\ pty' = pty /\ geometry' = geometry /\ outer' = outer
      BY <1>1 DEF historyVars, ptyVars, Believed
    <2>2. NoResizeInHand' /\ (NoResizeInHand <=> hand.kind # "Resize")
      BY <1>1 DEF NoResizeInHand
    <2> QED  BY <1>1, <1>2, <1>3, <2>1, <2>2 DEF SizeInv
  <1> QED  BY <1>6, <1>7, <1>8, <1>9, <1>10, <1>11, <1>12 DEF Inv, IntentsInv

LEMMA PumpFailsKeeps ==
    ASSUME Inv, PumpFails
    PROVE  Inv'
  <1>1. /\ TypeOK /\ IntentsInv /\ SizeInv /\ TerminalHandedBack
        /\ hand \in Command /\ hand # None /\ phase = "stopped"
        /\ hand' = None /\ pump' = "shutting"
        /\ UNCHANGED <<phase, dialVars, ptyVars, outer, chanVars, endVars, cancel,
                       running, told, modes, historyVars>>
    BY DEF Inv, TypeOK, PumpFails
  <1>2. /\ IntentsOf(outer)' = IntentsOf(outer) /\ IntentsOf(inner)' = IntentsOf(inner)
        /\ running' = running /\ asked' = asked /\ sent' = sent /\ dropped' = dropped
        /\ Once(outer)' = Once(outer) /\ Once(inner)' = Once(inner) /\ inner' = inner
        /\ listening' = listening /\ InHand = IntentOf(hand) /\ InHand' = {}
    BY <1>1 DEF endVars, chanVars, historyVars, InHand
  <1>3. Numbered /\ OnePlace /\ Accounted /\ NoPtyRun
    BY <1>1 DEF IntentsInv
  <1>4. /\ answered' \in [1..MaxSent -> Nat]
        /\ Answered' \subseteq Answered \cup IntentOf(hand) /\ Answered \subseteq Answered'
        /\ listening => IntentOf(hand) \subseteq Answered'
        /\ \A m \in 1..MaxSent : answered'[m] <= 1
    <2>1. CASE hand.kind = "Exec"
      <3>1. IntentOf(hand) = {hand.n} /\ hand.n \in 1..MaxSent /\ Answer(hand.n)
        BY <1>1, <2>1 DEF IntentOf, Intents, Command, PumpFails
      <3>2. hand.n \notin Answered
        BY <1>2, <1>3, <3>1 DEF OnePlace
      <3> QED  BY <1>1, <1>3, <3>1, <3>2, OneAnswer DEF OnePlace
    <2>2. CASE hand.kind # "Exec"
      <3>1. IntentOf(hand) = {} /\ answered' = answered
        BY <1>1, <1>3, <2>2 DEF IntentOf, Intents, NoPtyRun, PumpFails
      <3> QED  BY <1>1, <1>3, <3>1 DEF OnePlace, Answered, TypeOK
    <2> QED  BY <2>1, <2>2
  <1>5. TypeOK'
    BY <1>1, <1>4 DEF TypeOK, dialVars, ptyVars, chanVars, endVars, historyVars
  <1>6. NoPtyRun' /\ OnePlace'
    BY <1>1, <1>2, <1>3, <1>4 DEF NoPtyRun, OnePlace
  <1>7. Numbered' /\ Accounted'
    BY <1>2, <1>3, <1>4 DEF Numbered, Accounted
  <1>8. TerminalHandedBack' /\ SizeInv'
    BY <1>1 DEF TerminalHandedBack, SizeInv, Live, endVars
  <1> QED  BY <1>5, <1>6, <1>7, <1>8 DEF Inv, IntentsInv

LEMMA ShutdownKeeps ==
    ASSUME Inv, Shutdown
    PROVE  Inv'
  <1>1. /\ TypeOK /\ IntentsInv /\ SizeInv /\ TerminalHandedBack
        /\ inner \in Seq(Command) /\ outer \in Seq(Command)
        /\ Len(inner) \in Nat /\ Capacity \in Nat
        /\ phase = "stopped" \/ Len(inner) < Capacity
        /\ inner' = IF phase = "stopped" THEN inner ELSE Append(inner, Disconnect)
        /\ dropped' = dropped \cup IntentsOf(outer)
        /\ cancel' = TRUE /\ pump' = "off" /\ outer' = << >>
        /\ UNCHANGED <<phase, dialVars, ptyVars, hand, endVars, running, answered,
                       told, modes, historyVars>>
    BY SshAssumption DEF Inv, TypeOK, Shutdown
  <1>2. Disconnect \in Command /\ IntentOf(Disconnect) = {} /\ Disconnect.kind = "Disconnect"
    BY SshAssumption DEF Disconnect, Command, IntentOf, Intents, Plain
  <1>3. Numbered /\ OnePlace /\ Accounted /\ NoPtyRun
    BY <1>1 DEF IntentsInv
  <1>4. /\ inner' \in Seq(Command) /\ Len(inner') <= Capacity
        /\ IntentsOf(inner') = IntentsOf(inner) /\ Once(inner')
        /\ \A i \in DOMAIN inner' : inner'[i].kind # "PtyRun"
    <2>1. CASE phase = "stopped"
      BY <1>1, <1>3, <2>1 DEF TypeOK, OnePlace, NoPtyRun
    <2>2. CASE phase # "stopped"
      <3>1. inner' = Append(inner, Disconnect) /\ Len(inner) < Capacity
        BY <1>1, <2>2
      <3>2. /\ inner' \in Seq(Command) /\ Len(inner') = Len(inner) + 1
            /\ IntentsOf(inner') = IntentsOf(inner) \cup IntentOf(Disconnect)
            /\ Once(inner) /\ IntentsOf(inner) \cap IntentOf(Disconnect) = {} => Once(inner')
        BY <1>1, <1>2, <3>1, Appended
      <3>3. Len(inner') <= Capacity
        BY <1>1, <3>1, <3>2
      <3>4. \A i \in DOMAIN inner' :
                (i \in DOMAIN inner /\ inner'[i] = inner[i]) \/ inner'[i] = Disconnect
        BY <1>1, <3>1
      <3> QED  BY <1>2, <1>3, <3>2, <3>3, <3>4 DEF OnePlace, NoPtyRun
    <2> QED  BY <2>1, <2>2
  <1>5. /\ IntentsOf(outer)' = {} /\ IntentsOf(inner)' = IntentsOf(inner)
        /\ running' = running /\ asked' = asked /\ sent' = sent /\ Answered' = Answered
        /\ Once(outer)' /\ Once(inner)' = Once(inner')
        /\ listening' = listening /\ InHand' = InHand /\ hand' = hand /\ answered' = answered
    BY <1>1, <1>4, Empty DEF endVars, historyVars, InHand, Answered
  <1>6. TypeOK'
    <2>1. IntentsOf(outer) \subseteq 1..MaxSent
      BY <1>1, <1>3, SshAssumption DEF Numbered, TypeOK
    <2> QED
      BY <1>1, <1>4, <2>1, Empty DEF TypeOK, dialVars, ptyVars, endVars, historyVars
  <1>7. NoPtyRun' /\ OnePlace'
    BY <1>3, <1>4, <1>5 DEF NoPtyRun, OnePlace
  <1>8. Numbered' /\ Accounted'
    BY <1>1, <1>3, <1>5 DEF Numbered, Accounted
  <1>9. TerminalHandedBack' /\ SizeInv'
    BY <1>1 DEF TerminalHandedBack, SizeInv, endVars, ptyVars
  <1> QED  BY <1>6, <1>7, <1>8, <1>9 DEF Inv, IntentsInv

LEMMA ExecEndsKeeps ==
    ASSUME Inv, NEW n \in 1..MaxSent, ExecEnds(n)
    PROVE  Inv'
  <1>1. /\ TypeOK /\ IntentsInv /\ SizeInv /\ TerminalHandedBack
        /\ n \in running /\ running' = running \ {n} /\ Answer(n)
        /\ UNCHANGED <<phase, dialVars, ptyVars, pumpVars, chanVars, endVars, cancel,
                       told, modes, historyVars>>
    BY DEF Inv, ExecEnds
  <1>2. /\ IntentsOf(outer)' = IntentsOf(outer) /\ IntentsOf(inner)' = IntentsOf(inner)
        /\ asked' = asked /\ sent' = sent /\ dropped' = dropped
        /\ Once(outer)' = Once(outer) /\ Once(inner)' = Once(inner)
        /\ listening' = listening /\ InHand' = InHand /\ NoPtyRun' = NoPtyRun
    BY <1>1 DEF endVars, chanVars, pumpVars, historyVars, InHand, NoPtyRun
  <1>3. Numbered /\ OnePlace /\ Accounted /\ NoPtyRun
    BY <1>1 DEF IntentsInv
  <1>4. /\ answered' \in [1..MaxSent -> Nat]
        /\ Answered' \subseteq Answered \cup {n} /\ Answered \subseteq Answered'
        /\ listening => n \in Answered'
        /\ \A m \in 1..MaxSent : answered'[m] <= 1
    <2>1. n \notin Answered
      BY <1>1, <1>3 DEF OnePlace
    <2> QED  BY <1>1, <1>3, <2>1, OneAnswer DEF OnePlace
  <1>5. TypeOK'
    BY <1>1, <1>4 DEF TypeOK, dialVars, ptyVars, pumpVars, chanVars, endVars, historyVars
  <1>6. OnePlace'
    BY <1>1, <1>2, <1>3, <1>4 DEF OnePlace
  <1>7. Numbered' /\ Accounted'
    BY <1>1, <1>2, <1>3, <1>4 DEF Numbered, Accounted
  <1>8. TerminalHandedBack' /\ SizeInv'
    <2>1. Believed' = Believed /\ NoResizeInHand' = NoResizeInHand
      BY <1>1 DEF ptyVars, pumpVars, Believed, NoResizeInHand
    <2> QED
      BY <1>1, <2>1 DEF TerminalHandedBack, SizeInv, endVars, ptyVars, pumpVars, chanVars,
        historyVars
  <1> QED  BY <1>2, <1>3, <1>5, <1>6, <1>7, <1>8 DEF Inv, IntentsInv

\* A step that changes none of what the invariant speaks of but the pump's
\* resolve, the tokens and whether anybody listens.
LEMMA OthersKeep ==
    ASSUME Inv, \/ GiveUp \/ Deaf \/ PumpSeesToken \/ Rests \/ UNCHANGED vars
    PROVE  Inv'
  <1>1. /\ UNCHANGED <<phase, dialVars, ptyVars, outer, hand, chanVars, running, answered,
                       told, modes, historyVars, cancel>>
        /\ listening' = listening \/ listening' = FALSE
        /\ pump' = pump \/ (pump = "on" /\ pump' = "shutting")
        /\ token' = token \/ token' = TRUE
    BY DEF GiveUp, Deaf, PumpSeesToken, Rests, vars, pumpVars, endVars
  <1>2. TypeOK'
    BY <1>1 DEF Inv, TypeOK, dialVars, ptyVars, chanVars, historyVars
  <1>3. IntentsInv'
    <2>1. /\ IntentsOf(outer)' = IntentsOf(outer) /\ IntentsOf(inner)' = IntentsOf(inner)
          /\ Once(outer)' = Once(outer) /\ Once(inner)' = Once(inner)
          /\ InHand' = InHand /\ Answered' = Answered /\ NoPtyRun' = NoPtyRun
      BY <1>1 DEF chanVars, InHand, Answered, NoPtyRun
    <2> QED
      BY <1>1, <2>1 DEF Inv, IntentsInv, OnePlace, Numbered, Accounted, chanVars, historyVars
  <1>4. TerminalHandedBack'
    BY <1>1 DEF Inv, TerminalHandedBack
  <1>5. SizeInv'
    <2>1. Believed' = Believed /\ NoResizeInHand' = NoResizeInHand
      BY <1>1 DEF ptyVars, Believed, NoResizeInHand
    <2> QED
      BY <1>1, <2>1 DEF Inv, SizeInv, ptyVars, chanVars, historyVars
  <1> QED  BY <1>2, <1>3, <1>4, <1>5 DEF Inv

-----------------------------------------------------------------------------
(* The theorems. *)

LEMMA InitInv == Init => Inv
  <1> SUFFICES ASSUME Init
               PROVE  Inv
    OBVIOUS
  <1> USE SshAssumption
  <1>1. TypeOK
    <2>1. outer \in Seq(Command) /\ inner \in Seq(Command) /\ Len(inner) <= Capacity
      BY Empty DEF Init
    <2>2. answered \in [1..MaxSent -> Nat]
      BY DEF Init
    <2>3. /\ attempts \in 0..MaxAttempts /\ fallbacks \in 0..Fallbacks /\ sent \in 0..MaxSent
          /\ {terminal, geometry, wanted} \subseteq Size \cup {1} /\ pty \in Size \cup {None}
      BY DEF Init
    <2> QED  BY <2>1, <2>2, <2>3 DEF Init, TypeOK, Phase
  <1>2. /\ IntentsOf(outer) = {} /\ IntentsOf(inner) = {} /\ InHand = {} /\ Answered = {}
        /\ Once(outer) /\ Once(inner)
    BY Empty DEF Init, InHand, Answered
  <1>3. IntentsInv
    BY <1>2 DEF Init, IntentsInv, NoPtyRun, OnePlace, Numbered, Accounted
  <1>4. TerminalHandedBack
    BY DEF Init, TerminalHandedBack
  <1>5. SizeInv
    BY Empty DEF Init, SizeInv, Believed, NoResizeInHand, Live
  <1> QED  BY <1>1, <1>3, <1>4, <1>5 DEF Inv

\* Every reachable state of a remote shell satisfies Inv.
THEOREM Invariance == Spec => []Inv
  <1>1. Inv /\ [Next]_vars => Inv'
    <2> SUFFICES ASSUME Inv, [Next]_vars
                 PROVE  Inv'
      OBVIOUS
    <2>1. CASE SendAny
      <3>1. CASE \E kind \in Sends \ {"Resize"} : Send(kind, 1)
        BY <3>1, SendKeeps, SshAssumption
      <3>2. CASE \E size \in Size : Send("Resize", size)
        BY <3>2, SendKeeps
      <3> QED  BY <2>1, <3>1, <3>2 DEF SendAny
    <2>2. CASE GiveUp \/ Deaf \/ PumpSeesToken \/ Rests \/ UNCHANGED vars
      BY <2>2, OthersKeep
    <2>3. CASE PumpTakes \/ PumpSends \/ PumpFails \/ Shutdown
      BY <2>3, PumpTakesKeeps, PumpSendsKeeps, PumpFailsKeeps, ShutdownKeeps
    <2>4. CASE \/ Dialing \/ Authenticating \/ Opening \/ AskCancelled \/ LiveCancelled
               \/ LinkLost \/ Written \/ Output \/ StaysUp \/ BackoffCancelled \/ Elapsed
      BY <2>4, SupervisorWaits, UnreadKeeps
    <2>5. CASE AskTakes \/ LiveTakes \/ BackoffTakes
      BY <2>5, SupervisorReads, ReadKeeps
    <2>6. CASE \E n \in 1..MaxSent : ExecEnds(n)
      BY <2>6, ExecEndsKeeps
    <2> QED
      BY <2>1, <2>2, <2>3, <2>4, <2>5, <2>6 DEF Next, Carrying, Asking, Pumping, Waiting
  <1> QED  BY InitInv, <1>1, PTL DEF Spec

\* The variables keep their types.
THEOREM TypeCorrect == Spec => []TypeOK
  BY Invariance, PTL DEF Inv

\* None goes with a channel whose reader still runs.
DroppedAtTheEnd == dropped # {} => phase = "stopped" \/ pump = "off"

\* An intent that goes with a channel goes with the end of the session or of
\* the task that carries its commands.
LEMMA OnlyAtTheEnd == Spec => []DroppedAtTheEnd
  <1>1. Init => DroppedAtTheEnd
    BY DEF Init, DroppedAtTheEnd
  <1>2. Inv /\ DroppedAtTheEnd /\ [Next]_vars => DroppedAtTheEnd'
    <2> SUFFICES ASSUME Inv, DroppedAtTheEnd, [Next]_vars
                 PROVE  DroppedAtTheEnd'
      OBVIOUS
    <2>1. CASE \/ SendAny \/ GiveUp \/ Deaf \/ PumpTakes \/ PumpSeesToken \/ PumpSends
               \/ PumpFails \/ Rests \/ UNCHANGED vars \/ \E n \in 1..MaxSent : ExecEnds(n)
      <3>1. dropped' = dropped /\ phase' = phase /\ (pump' = pump \/ pump = "on")
        BY <2>1 DEF SendAny, Send, GiveUp, Deaf, PumpTakes, PumpSeesToken, PumpSends, Keep,
          PumpFails, Rests, ExecEnds, vars, chanVars, pumpVars
      <3> QED  BY <3>1 DEF DroppedAtTheEnd
    <2>2. CASE Shutdown
      BY <2>2 DEF Shutdown, DroppedAtTheEnd
    <2>3. ASSUME NEW rest, Tidy, Passed(rest)
          PROVE  DroppedAtTheEnd'
      BY <2>3 DEF Tidy, Passed, pumpVars, DroppedAtTheEnd
    <2>4. CASE \/ Dialing \/ Authenticating \/ Opening \/ AskCancelled \/ LiveCancelled
               \/ LinkLost \/ Written \/ Output \/ StaysUp \/ BackoffCancelled \/ Elapsed
      BY <2>3, <2>4, SupervisorWaits DEF Unread
    <2>5. CASE AskTakes \/ LiveTakes \/ BackoffTakes
      BY <2>3, <2>5, SupervisorReads DEF Read
    <2> QED
      BY <2>1, <2>2, <2>4, <2>5 DEF Next, Carrying, Asking, Pumping, Waiting
  <1> QED  BY Invariance, <1>1, <1>2, PTL DEF Spec

\* For any number of intents and any bound of the channels: no intent is
\* answered twice; while it is heard none is lost between two hands; and one
\* goes with a channel only when the channel's reader has ended.
THEOREM NoIntentIsLost == Spec => []IntentsAreAnswered
  <1>1. Inv /\ DroppedAtTheEnd => IntentsAreAnswered
    <2> SUFFICES ASSUME Inv, DroppedAtTheEnd, NEW n \in asked
                 PROVE  /\ answered[n] <= 1
                        /\ \/ answered[n] = 1
                           \/ n \in running
                           \/ \E c \in UnderWay : c.kind \in Intents /\ c.n = n
                           \/ n \in dropped
                           \/ ~listening
                        /\ n \in dropped => phase = "stopped" \/ pump = "off"
      BY DEF IntentsAreAnswered
    <2>1. n \in 1..MaxSent /\ answered[n] \in Nat /\ answered[n] <= 1
      BY DEF Inv, IntentsInv, OnePlace, TypeOK
    <2>2. n \in Answered => answered[n] = 1
      BY <2>1 DEF Answered
    <2>3. n \in IntentsOf(outer) \cup IntentsOf(inner)
              => \E c \in UnderWay : c.kind \in Intents /\ c.n = n
      BY DEF IntentsOf, UnderWay, Commands
    <2>4. n \in InHand => \E c \in UnderWay : c.kind \in Intents /\ c.n = n
      BY DEF InHand, IntentOf, UnderWay
    <2> QED  BY <2>1, <2>2, <2>3, <2>4 DEF Inv, IntentsInv, Accounted, DroppedAtTheEnd
  <1> QED  BY Invariance, OnlyAtTheEnd, <1>1, PTL

\* However a connection ends, a listener's terminal is handed back.
THEOREM TerminalIsHandedBack == Spec => []TerminalHandedBack
  BY Invariance, PTL DEF Inv

\* For any sizes and any number of them, the PTY has the one last reported.
THEOREM SizesArrive == Spec => []PtyHasTheSize
  <1>1. Inv => PtyHasTheSize
    <2> SUFFICES ASSUME Inv, phase \in Live, ~missed, pump # "off",
                        ~ \E c \in UnderWay : c.kind = "Resize"
                 PROVE  pty = Clamp(wanted)
      BY DEF PtyHasTheSize
    <2>1. NoResize(outer) /\ NoResize(inner)
      BY DEF NoResize, UnderWay, Commands
    <2>2. NoResizeInHand
      BY DEF NoResizeInHand, UnderWay
    <2>3. pty = Clamp(geometry) /\ Clamp(geometry) = Clamp(wanted)
      BY <2>1, <2>2 DEF Inv, SizeInv, Believed, Live
    <2> QED  BY <2>3
  <1> QED  BY Invariance, <1>1, PTL
============================================================================
