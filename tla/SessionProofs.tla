---------------------------- MODULE SessionProofs ----------------------------
(***************************************************************************)
(* The safety properties of Session for every policy, every bound on the   *)
(* redirections and every number of commands.                              *)
(*                                                                         *)
(* The bound on the dials is not inductive: what is kept is how many dials *)
(* each attempt that is counted can have cost, a chain of redirections     *)
(* each, and how far the chain of the one under way has come.              *)
(***************************************************************************)
EXTENDS Session, TLAPS

\* The phases in which an attempt is under way.
Active == {"dialing", "authenticating", "asking"} \cup Live

\* What one counted attempt can cost.
Chain == MaxChained + 1

Ladder ==
    /\ MaxAttempts # None => attempts <= MaxAttempts
    /\ phase # "stopped" => chained <= MaxChained
    /\ phase = "backoff" => chained = 0 /\ dials <= attempts * Chain
    /\ phase \in Active => dials <= attempts * Chain + chained + 1
    /\ dials <= (attempts + 1) * Chain

\* A run loop that settles has something to settle.
SettlesSomething == phase = "settling" => deferred # << >>

\* A connection that is up has not ended.
Unbroken == phase \in Live => ~broken

Inv ==
    /\ TypeOK
    /\ Ladder
    /\ EndIsAnnounced
    /\ SettlesSomething
    /\ Unbroken
    /\ LeavesNothingDown

----------------------------------------------------------------------------

\* The arithmetic of the ladder.
LEMMA Products ==
  /\ Chain \in Nat /\ Chain >= 1
  /\ 0 * Chain = 0
  /\ \A a \in Nat : a * Chain \in Nat /\ (a + 1) * Chain = a * Chain + Chain
  /\ \A a, b \in Nat : a <= b => a * Chain <= b * Chain
  <1>1. Chain \in Nat /\ Chain >= 1
    BY SessionAssumption DEF Chain
  <1>2. 0 * Chain = 0
    BY <1>1
  <1>3. \A a \in Nat : a * Chain \in Nat /\ (a + 1) * Chain = a * Chain + Chain
    BY <1>1
  <1>4. ASSUME NEW a \in Nat, NEW b \in Nat, a <= b
        PROVE  a * Chain <= b * Chain
    <2>1. PICK d \in Nat : b = a + d
      <3>1. b - a \in Nat /\ b = a + (b - a)
        BY <1>4
      <3> QED
        BY <3>1
    <2>2. b * Chain = a * Chain + d * Chain
      BY <1>1, <2>1
    <2>3. d * Chain \in Nat /\ a * Chain \in Nat
      BY <1>3
    <2> HIDE DEF Chain
    <2> QED
      BY <2>2, <2>3
  <1> QED
    BY <1>1, <1>2, <1>3, <1>4

\* What the end of an attempt leaves behind.
Over ==
    /\ phase \in Active
    /\ shell' = shell
    /\ \E result \in {"UserDisconnect", "Reattempt", "Cancelled", "NeedsUser",
                      "Fatal", "Transient"} : Ends(result)

\* The attempt goes on.
Moves ==
    /\ phase \in Active /\ phase' \in Active
    /\ shell' = shell
    /\ told' \in {told, "Connected"}
    /\ UNCHANGED ladderVars

\* The supervisor waits, or is not there any more.
Rests ==
    /\ phase' = phase /\ told' = told
    /\ shell' => shell
    /\ UNCHANGED ladderVars

\* The wait is over.
WaitEnds ==
    /\ phase = "backoff" /\ shell' = shell
    /\ \/ Dial /\ attempts' = 0 /\ dials' = 1 /\ chained' = chained
       \/ Dial /\ attempts' = attempts /\ dials' = dials + 1
               /\ chained' = chained
       \/ Stop /\ UNCHANGED ladderVars

\* To the supervisor, every step is one of these four.
LEMMA StepKinds ==
  ASSUME TypeOK, SettlesSomething, [Next]_vars
  PROVE  Over \/ Moves \/ Rests \/ WaitEnds
  <1> USE DEF Active, Live
  <1>e. << >> \in Seq(Command) /\ deferred \in Seq(Command)
    BY DEF TypeOK
  <1>1. CASE UNCHANGED vars
    BY <1>1 DEF vars, Rests, ladderVars, shellVars
  <1>2. CASE SendAny
    BY <1>2 DEF SendAny, Send, Rests, ladderVars
  <1>3. CASE Cancel \/ ShellGoes
    BY <1>3 DEF Cancel, ShellGoes, Rests, ladderVars
  <1>4. CASE DialFails \/ DialCancelled
    BY <1>4, <1>e DEF DialFails, DialCancelled, Over, shellVars
  <1>5. CASE Reaches \/ Asks \/ Rejected \/ Established
    BY <1>5 DEF Reaches, Asks, Rejected, Established, Moves, Tell, shellVars,
                ladderVars
  <1>6. CASE AskTakes
    BY <1>6, <1>e DEF AskTakes, Over, Moves, Rests, ladderVars
  <1>7. CASE AskCancelled
    BY <1>7, <1>e DEF AskCancelled, Over, shellVars
  <1>8. CASE BackoffTakes
    BY <1>8 DEF BackoffTakes, WaitEnds, Rests, ladderVars
  <1>9. CASE BackoffCancelled \/ Elapsed
    BY <1>9 DEF BackoffCancelled, Elapsed, WaitEnds, shellVars
  <1>10. ASSUME NEW c, NEW rest \in Seq(Command), phase \in Live,
                shell' = shell, Handle(c, rest)
         PROVE  Over \/ Moves
    BY <1>10 DEF Handle, Obey, Over, Moves
  <1>11. CASE LiveTakes
    BY <1>10, <1>11, <1>e DEF LiveTakes
  <1>12. CASE SettleOne
    <2>1. Tail(deferred) \in Seq(Command)
      BY <1>12, <1>e DEF SettleOne, SettlesSomething
    <2> QED
      BY <1>10, <1>12, <2>1 DEF SettleOne, shellVars
  <1>13. CASE LiveCancelled \/ LinkLost \/ ServerRedirects \/ EmitFails
    BY <1>13, <1>e DEF LiveCancelled, LinkLost, ServerRedirects, EmitFails,
                       Over, shellVars
  <1>14. CASE StartUpdate \/ FinishUpdate \/ StaysUp \/ ServerStalls
    BY <1>14 DEF StartUpdate, FinishUpdate, StaysUp, ServerStalls, Moves,
                 shellVars, ladderVars
  <1>15. CASE UpdateTakes
    BY <1>15, <1>e DEF UpdateTakes, Over, Moves
  <1>16. CASE Stopped
    BY <1>1, <1>16 DEF Stopped
  <1> QED
    BY <1>1, <1>2, <1>3, <1>4, <1>5, <1>6, <1>7, <1>8, <1>9, <1>11, <1>12,
       <1>13, <1>14, <1>15, <1>16
       DEF Next, Dialing, Authenticating, Asking, Waiting

\* No mixture of failures and redirections gets an attempt more dials than a
\* chain, and only what the person does starts the count again.
LEMMA LadderStep ==
  ASSUME TypeOK, SettlesSomething, Ladder, [Next]_vars
  PROVE  Ladder'
  <1> USE SessionAssumption, Products
  <1>0. /\ attempts \in Nat /\ chained \in Nat /\ dials \in Nat
        /\ phase \in Phase
    BY DEF TypeOK
  <1>1. CASE Over
    <2> DEFINE made  == IF stable THEN 0 ELSE attempts
               since == IF stable THEN 0 ELSE dials
    <2>1. /\ made \in Nat /\ since \in Nat
          /\ MaxAttempts # None => made <= MaxAttempts
          /\ since <= made * Chain + chained + 1
          /\ chained <= MaxChained
      BY <1>0, <1>1 DEF Over, Ladder, Active, Live
    <2>2. since <= (made + 1) * Chain
      BY <2>1, <1>0 DEF Chain
    <2>3. PICK result \in {"UserDisconnect", "Reattempt", "Cancelled",
                           "NeedsUser", "Fatal", "Transient"} : Ends(result)
      BY <1>1 DEF Over
    <2>4. CASE result = "UserDisconnect"
      <3>1. phase' = "stopped" /\ attempts' = made /\ dials' = since
        BY <2>3, <2>4 DEF Ends, Stop
      <3> QED
        BY <2>1, <2>2, <3>1 DEF Ladder, Active, Live
    <2>5. CASE result = "Reattempt"
      <3>1. Redirected(made, since)
        BY <2>3, <2>5 DEF Ends
      <3>2. CASE chained >= MaxChained /\ Stop /\ dials' = since
        <4>1. phase' = "stopped" /\ attempts' = made /\ dials' = since
          BY <3>1, <3>2 DEF Redirected, Stop
        <4> QED
          BY <2>1, <2>2, <4>1 DEF Ladder, Active, Live
      <3>3. CASE chained < MaxChained /\ Dial /\ dials' = since + 1
        <4>1. /\ phase' = "dialing" /\ attempts' = made
              /\ dials' = since + 1 /\ chained' = chained + 1
          BY <3>1, <3>3 DEF Redirected, Dial
        <4>2. dials' <= made * Chain + chained' + 1
          BY <1>0, <2>1, <4>1 DEF Chain
        <4>3. dials' <= (made + 1) * Chain
          <5>1. chained' + 1 <= Chain
            BY <1>0, <3>3, <4>1 DEF Chain
          <5> QED
            BY <1>0, <2>1, <4>1, <4>2, <5>1
        <4> QED
          BY <1>0, <2>1, <3>3, <4>1, <4>2, <4>3 DEF Ladder, Active, Live
      <3> QED
        BY <3>1, <3>2, <3>3 DEF Redirected
    <2>6. CASE result \in {"Cancelled", "NeedsUser", "Fatal", "Transient"}
      <3>1. Failed(result, made, since)
        BY <2>3, <2>6 DEF Ends
      <3>2. CASE ~Retries(result, made) /\ Stop /\ attempts' = made
        <4>1. phase' = "stopped" /\ attempts' = made /\ dials' = since
          BY <3>1, <3>2 DEF Failed, Stop
        <4> QED
          BY <2>1, <2>2, <4>1 DEF Ladder, Active, Live
      <3>3. CASE Retries(result, made) /\ attempts' = made + 1
        <4>1. /\ phase' \in {"backoff", "stopped"} /\ chained' = 0
              /\ dials' = since
              /\ MaxAttempts # None => attempts' <= MaxAttempts
          BY <2>1, <3>1, <3>3 DEF Failed, Retries
        <4>2. dials' <= attempts' * Chain
          BY <2>2, <3>3, <4>1
        <4>3. dials' <= (attempts' + 1) * Chain
          BY <2>1, <3>3, <4>1, <4>2
        <4> QED
          BY <4>1, <4>2, <4>3 DEF Ladder, Active, Live
      <3> QED
        BY <3>1, <3>2, <3>3 DEF Failed
    <2> QED
      BY <2>3, <2>4, <2>5, <2>6
  <1>2. CASE Moves \/ Rests
    BY <1>2 DEF Moves, Rests, Ladder, Active, Live, ladderVars
  <1>3. CASE WaitEnds
    <2>1. chained = 0 /\ dials <= attempts * Chain
      BY <1>3 DEF WaitEnds, Ladder
    <2>2. CASE Dial /\ attempts' = 0 /\ dials' = 1 /\ chained' = chained
      BY <1>0, <2>1, <2>2 DEF Ladder, Active, Live, Dial
    <2>3. CASE Dial /\ attempts' = attempts /\ dials' = dials + 1
                    /\ chained' = chained
      BY <1>0, <2>1, <2>3 DEF Ladder, Active, Live, Dial
    <2>4. CASE Stop /\ UNCHANGED ladderVars
      BY <1>0, <2>1, <2>4 DEF Ladder, Active, Live, Stop, ladderVars
    <2> QED
      BY <1>3, <2>2, <2>3, <2>4 DEF WaitEnds
  <1> QED
    BY <1>1, <1>2, <1>3, StepKinds

\* A session that ends says so, and one that has not ended does not.
LEMMA AnnouncedStep ==
  ASSUME TypeOK, SettlesSomething, EndIsAnnounced, [Next]_vars
  PROVE  EndIsAnnounced'
  <1> USE DEF EndIsAnnounced
  <1>1. CASE Over
    BY <1>1 DEF Over, Ends, Redirected, Failed, Stop, Dial, Tell, Active,
                Live
  <1>2. CASE Moves
    BY <1>2 DEF Moves, Active, Live
  <1>3. CASE Rests
    BY <1>3 DEF Rests
  <1>4. CASE WaitEnds
    BY <1>4 DEF WaitEnds, Stop, Dial, Tell
  <1> QED
    BY <1>1, <1>2, <1>3, <1>4, StepKinds

----------------------------------------------------------------------------
(* Types, the run loop and what is down. *)

State == {"Idle", "Connecting", "Connected", "Reconnecting", "Disconnected"}

\* The end of an attempt keeps the types of what it sets, and no connection
\* is left.
LEMMA EndsType ==
  ASSUME TypeOK, NEW result, Ends(result)
  PROVE  /\ phase' \in Phase \ Live /\ told' \in State
         /\ attempts' \in Nat /\ chained' \in Nat /\ dials' \in Nat
         /\ deferred' = << >> /\ stable' = FALSE /\ stalled' = FALSE
         /\ tries' = 1 /\ typed' = FALSE
  <1>1. phase' \in Phase \ Live /\ told' \in State
    BY DEF Ends, Redirected, Failed, Stop, Dial, Tell, Phase, Live, State,
           TypeOK
  <1>2. attempts' \in Nat /\ chained' \in Nat /\ dials' \in Nat
    BY DEF Ends, Redirected, Failed, TypeOK
  <1>3. /\ deferred' = << >> /\ stable' = FALSE /\ stalled' = FALSE
        /\ tries' = 1 /\ typed' = FALSE
    BY DEF Ends
  <1> QED
    BY <1>1, <1>2, <1>3

\* The part of the state a step of the connection can change.
RunType ==
    /\ phase \in Phase /\ told \in State
    /\ attempts \in Nat /\ chained \in Nat /\ dials \in Nat
    /\ deferred \in Seq(Command)
    /\ stable \in BOOLEAN /\ stalled \in BOOLEAN
    /\ tries \in 1..MaxTries /\ typed \in BOOLEAN

\* The rest of it.
RestType ==
    /\ queue \in Seq(Command)
    /\ settings \in [Setting -> BOOLEAN]
    /\ sent \in Nat
    /\ known \in BOOLEAN /\ shell \in BOOLEAN /\ cancelled \in BOOLEAN
    /\ pressed \in BOOLEAN /\ broken \in BOOLEAN

LEMMA TypeParts == TypeOK <=> RunType /\ RestType
  BY DEF TypeOK, RunType, RestType, State

\* What a step keeps besides the ladder.
Kept == TypeOK /\ SettlesSomething /\ Unbroken /\ LeavesNothingDown

\* A step that ends the attempt with nothing down, or broken, keeps all four.
LEMMA EndsKept ==
  ASSUME Kept, NEW result, Ends(result), RestType', pressed' => broken'
  PROVE  Kept'
  <1>1. /\ phase' \in Phase \ Live /\ told' \in State
        /\ attempts' \in Nat /\ chained' \in Nat /\ dials' \in Nat
        /\ deferred' = << >> /\ stable' = FALSE /\ stalled' = FALSE
        /\ tries' = 1 /\ typed' = FALSE
    BY EndsType DEF Kept
  <1>2. deferred' \in Seq(Command) /\ tries' \in 1..MaxTries
    BY <1>1, SessionAssumption
  <1>3. TypeOK'
    <2>1. RunType'
      BY <1>1, <1>2 DEF RunType
    <2> QED
      BY <2>1 DEF TypeOK, RunType, RestType, State
  <1>4. SettlesSomething' /\ Unbroken' /\ LeavesNothingDown'
    BY <1>1 DEF SettlesSomething, Unbroken, LeavesNothingDown, Live
  <1> QED
    BY <1>3, <1>4 DEF Kept

\* Either way of ending a connection leaves the key up or the link broken.
LEMMA EndingKeys ==
  ASSUME RestType, LetGo \/ Breaks
  PROVE  /\ pressed' \in BOOLEAN /\ broken' \in BOOLEAN
         /\ ~broken => (pressed' => broken')
  <1>1. pressed \in BOOLEAN /\ broken \in BOOLEAN
    BY DEF RestType
  <1> QED
    BY <1>1 DEF LetGo, Breaks

\* A command of the run loop keeps all four, whatever is parked behind it.
LEMMA HandleKept ==
  ASSUME Kept, phase \in Live, NEW c \in Command, NEW rest \in Seq(Command),
         Handle(c, rest), queue' \in Seq(Command),
         UNCHANGED <<known, shell, cancelled, sent>>
  PROVE  Kept'
  <1> USE SessionAssumption
  <1>0. TypeOK /\ RunType /\ RestType /\ ~broken /\ LeavesNothingDown
    BY TypeParts DEF Kept, Unbroken
  <1>1. ASSUME NEW result, Ends(result), LetGo, UNCHANGED settings
        PROVE  Kept'
    <2>1. /\ pressed' \in BOOLEAN /\ broken' \in BOOLEAN
          /\ pressed' => broken'
      BY <1>0, <1>1, EndingKeys
    <2>2. RestType'
      BY <1>0, <1>1, <2>1 DEF RestType
    <2> QED
      BY <1>1, <2>1, <2>2, EndsKept
  <1>2. CASE c.kind \in {"Disconnect", "ReconnectNow"}
    BY <1>1, <1>2 DEF Handle, Obey
  <1>3. CASE c.kind \notin {"Disconnect", "ReconnectNow"}
    <2>0. Obey(c, rest)
      BY <1>3 DEF Handle
    <2>1. /\ deferred' = rest
          /\ phase' = IF rest = << >> THEN "connected" ELSE "settling"
          /\ UNCHANGED <<told, broken, stable, stalled, dialVars, ladderVars>>
      BY <2>0 DEF Obey
    <2>2. RunType'
      BY <1>0, <2>1 DEF RunType, Phase, dialVars, ladderVars
    <2>4. c.value \in BOOLEAN
      BY DEF Command
    <2>5. pressed' \in BOOLEAN
      BY <1>0, <2>0, <2>4 DEF Obey, Input, RestType
    <2>6. settings' \in [Setting -> BOOLEAN]
      BY <1>0, <2>0, <2>4 DEF Obey, RestType
    <2>7. RestType'
      BY <1>0, <2>1, <2>5, <2>6 DEF RestType
    <2>8. ViewOnly(settings)' => ~pressed'
      <3>1. CASE c.kind = "Key"
        BY <1>0, <2>0, <3>1 DEF Obey, Input, ViewOnly, LeavesNothingDown
      <3>2. CASE c.kind = "Set"
        <4>1. /\ settings' = [settings EXCEPT ![c.key] = c.value]
              /\ c.key = "ViewOnly" /\ c.value => pressed' = FALSE
              /\ pressed' \in {FALSE, pressed}
          BY <2>0, <3>2 DEF Obey
        <4>2. CASE c.key = "ViewOnly"
          BY <1>0, <2>4, <4>1, <4>2 DEF ViewOnly, RestType
        <4>3. CASE c.key # "ViewOnly"
          BY <1>0, <4>1, <4>3 DEF ViewOnly, RestType, LeavesNothingDown
        <4> QED
          BY <4>2, <4>3
      <3>3. CASE c.kind \notin {"Key", "Set"}
        BY <1>0, <2>0, <3>3 DEF Obey, ViewOnly, LeavesNothingDown
      <3> QED
        BY <3>1, <3>2, <3>3
    <2>9. SettlesSomething' /\ Unbroken' /\ LeavesNothingDown'
      BY <1>0, <2>1, <2>8 DEF SettlesSomething, Unbroken, LeavesNothingDown,
                              Live
    <2> QED
      BY <2>2, <2>7, <2>9 DEF Kept, TypeOK, RunType, RestType, State
  <1> QED
    BY <1>2, <1>3

\* Every step keeps the types, settles what it parks, and ends a connection
\* with the key up or in an error.
LEMMA KeptStep ==
  ASSUME Kept, [Next]_vars
  PROVE  Kept'
  <1> USE SessionAssumption DEF keyVars
  <1>0. /\ TypeOK /\ SettlesSomething /\ Unbroken /\ LeavesNothingDown
        /\ RunType /\ RestType
    BY TypeParts DEF Kept
  <1>t. ASSUME RunType', RestType'  PROVE TypeOK'
    BY <1>t DEF TypeOK, RunType, RestType, State
  <1>e. << >> \in Seq(Command)
    OBVIOUS
  \* A step that leaves alone what the last three parts speak of.
  <1>q. ASSUME UNCHANGED <<phase, settings, deferred, keyVars>>
        PROVE  SettlesSomething' /\ Unbroken' /\ LeavesNothingDown'
    BY <1>0, <1>q DEF SettlesSomething, Unbroken, LeavesNothingDown, ViewOnly
  <1>1. CASE UNCHANGED vars
    BY <1>0, <1>1, <1>q DEF vars, Kept, TypeOK, dialVars, linkVars,
                            ladderVars, shellVars
  <1>2. CASE SendAny
    <2>1. PICK kind \in CommandKind, key \in Setting \cup {None},
               value \in BOOLEAN : Send(kind, key, value)
      BY <1>2 DEF SendAny, CommandKind
    <2> DEFINE c == [kind |-> kind, key |-> key, value |-> value]
    <2>3. c \in Command
      BY DEF Command
    <2>4. queue' = Append(queue, c)
      BY <2>1 DEF Send
    <2>5. queue' \in Seq(Command)
      BY <1>0, <2>3, <2>4 DEF RestType
    <2>6. sent' \in Nat
      BY <1>0, <2>1 DEF Send, RestType
    <2>7. UNCHANGED <<phase, settings, known, told, dialVars,
                      linkVars, ladderVars, shell, cancelled>>
      BY <2>1 DEF Send
    <2>8. RunType' /\ RestType'
      BY <1>0, <2>5, <2>6, <2>7 DEF RunType, RestType, dialVars, linkVars,
                                    ladderVars
    <2>9. SettlesSomething' /\ Unbroken' /\ LeavesNothingDown'
      BY <1>q, <2>7 DEF linkVars
    <2> QED
      BY <1>t, <2>8, <2>9 DEF Kept
  <1>3. CASE Cancel \/ ShellGoes
    <2>1. RunType' /\ RestType'
      BY <1>0, <1>3 DEF Cancel, ShellGoes, RunType, RestType, dialVars,
                        linkVars, ladderVars
    <2>2. SettlesSomething' /\ Unbroken' /\ LeavesNothingDown'
      BY <1>3, <1>q DEF Cancel, ShellGoes, linkVars
    <2> QED
      BY <1>t, <2>1, <2>2 DEF Kept
  <1>4. CASE DialFails \/ DialCancelled \/ AskCancelled
    <2>1. /\ UNCHANGED <<settings, keyVars, shellVars>>
          /\ phase \in {"dialing", "authenticating", "asking"}
          /\ \E result : Ends(result)
      BY <1>4 DEF DialFails, DialCancelled, AskCancelled
    <2>4. known' \in BOOLEAN
      <3>1. known \in BOOLEAN /\ (known \/ typed) \in BOOLEAN
        BY <1>0 DEF RestType
      <3> QED
        BY <1>4, <3>1 DEF DialFails, DialCancelled, AskCancelled
    <2>2. RestType'
      BY <1>0, <2>1, <2>4 DEF RestType, shellVars
    <2>3. pressed' => broken'
      BY <1>0, <2>1 DEF LeavesNothingDown, Live
    <2> QED
      BY <2>1, <2>2, <2>3, EndsKept
  <1>5. CASE Reaches \/ Asks \/ Rejected
    <2>3. /\ phase' \in {"authenticating", "asking", "dialing"}
          /\ phase \in {"authenticating", "dialing"}
          /\ told' = told /\ tries' \in 1..MaxTries
          /\ UNCHANGED <<settings, known, linkVars, ladderVars, shellVars>>
      BY <1>0, <1>5 DEF Reaches, Asks, Rejected, RunType, dialVars
    <2>4. typed' \in BOOLEAN
      BY <1>0, <1>5, Zenon DEF Reaches, Asks, Rejected, RunType, dialVars
    <2>1. RunType' /\ RestType'
      BY <1>0, <2>3, <2>4 DEF RunType, RestType, linkVars, ladderVars,
                              shellVars, Phase
    <2>2. SettlesSomething' /\ Unbroken' /\ LeavesNothingDown'
      BY <1>0, <2>3 DEF SettlesSomething, Unbroken, Live, LeavesNothingDown,
                        linkVars
    <2> QED
      BY <1>t, <2>1, <2>2 DEF Kept
  <1>16. CASE Established
    <2>1. /\ phase' = "connected" /\ told' \in State
          /\ pressed' = FALSE /\ broken' = FALSE
          /\ UNCHANGED <<settings, deferred, stable, stalled, dialVars,
                         ladderVars, shellVars>>
      BY <1>0, <1>16 DEF Established, Tell, RunType, State
    <2>2. known' \in BOOLEAN
      BY <1>0, <1>16, Zenon DEF Established, RestType
    <2>3. RunType' /\ RestType'
      BY <1>0, <2>1, <2>2 DEF RunType, RestType, dialVars, ladderVars,
                              shellVars, Phase
    <2>4. SettlesSomething' /\ Unbroken' /\ LeavesNothingDown'
      BY <2>1 DEF SettlesSomething, Unbroken, LeavesNothingDown
    <2> QED
      BY <1>t, <2>3, <2>4 DEF Kept
  <1>6. CASE AskTakes
    <2>1. /\ queue # << >> /\ queue' = Tail(queue) /\ phase = "asking"
          /\ UNCHANGED <<settings, known, keyVars, shell, cancelled, sent>>
      BY <1>6 DEF AskTakes
    <2>2. RestType'
      BY <1>0, <2>1 DEF RestType
    <2>3. pressed' => broken'
      BY <1>0, <2>1 DEF LeavesNothingDown, Live
    <2>4. CASE Ends("Cancelled")
      BY <2>2, <2>3, <2>4, EndsKept
    <2>5. CASE ~Ends("Cancelled")
      <3>1. /\ phase' \in {"asking", "authenticating"}
            /\ typed' \in BOOLEAN
            /\ UNCHANGED <<told, tries, deferred, stable, stalled, ladderVars>>
        <4>1. typed \in BOOLEAN
          BY <1>0 DEF RunType
        <4> QED
          BY <1>6, <2>1, <2>5, <4>1 DEF AskTakes, dialVars
      <3>2. RunType'
        BY <1>0, <3>1 DEF RunType, Phase, ladderVars
      <3>3. SettlesSomething' /\ Unbroken' /\ LeavesNothingDown'
        BY <2>3, <3>1 DEF SettlesSomething, Unbroken, LeavesNothingDown, Live
      <3> QED
        BY <1>t, <2>2, <3>2, <3>3 DEF Kept
    <2> QED
      BY <2>4, <2>5
  <1>7. CASE BackoffTakes
    <2> DEFINE c == Head(queue)
    <2>1. /\ queue # << >> /\ queue' = Tail(queue) /\ phase = "backoff"
          /\ UNCHANGED <<known, dialVars, linkVars, shell, cancelled,
                         sent>>
      BY <1>7 DEF BackoffTakes
    <2>0. c \in Command
      BY <1>0, <2>1 DEF RestType
    <2>2. c \in Command /\ c.value \in BOOLEAN
      BY <2>0 DEF Command
    <2>3. settings' \in [Setting -> BOOLEAN]
      BY <1>0, <1>7, <2>2 DEF BackoffTakes, RestType
    <2>4. RestType'
      BY <1>0, <2>1, <2>3 DEF RestType, linkVars
    <2>5. phase' \in {"backoff", "dialing", "stopped"} /\ told' \in State
      BY <1>0, <1>7, <2>1 DEF BackoffTakes, Dial, Stop, Tell, RunType, State
    <2>6. attempts' \in Nat /\ chained' \in Nat /\ dials' \in Nat
      BY <1>0, <1>7 DEF BackoffTakes, RunType, ladderVars
    <2>8. RunType'
      BY <1>0, <2>1, <2>5, <2>6 DEF RunType, Phase, dialVars, linkVars
    <2>9. SettlesSomething' /\ Unbroken' /\ LeavesNothingDown'
      BY <1>0, <2>1, <2>5 DEF SettlesSomething, Unbroken, LeavesNothingDown,
                              Live, linkVars
    <2> QED
      BY <1>t, <2>4, <2>8, <2>9 DEF Kept
  <1>8. CASE BackoffCancelled \/ Elapsed
    <2>1. RunType' /\ RestType'
      BY <1>0, <1>8 DEF BackoffCancelled, Elapsed, Stop, Dial, Tell, RunType,
                        RestType, Phase, State, dialVars, linkVars,
                        ladderVars, shellVars
    <2>2. SettlesSomething' /\ Unbroken' /\ LeavesNothingDown'
      BY <1>0, <1>8 DEF BackoffCancelled, Elapsed, Stop, Dial, Live,
                        SettlesSomething, Unbroken, LeavesNothingDown,
                        linkVars, shellVars
    <2> QED
      BY <1>t, <2>1, <2>2 DEF Kept
  <1>10. CASE LiveTakes
    <2>1. queue # << >> /\ queue' = Tail(queue) /\ queue \in Seq(Command)
      BY <1>0, <1>10 DEF LiveTakes, RestType
    <2>2. Head(queue) \in Command /\ queue' \in Seq(Command)
      BY <2>1
    <2> QED
      BY <1>10, <1>e, <2>2, HandleKept DEF LiveTakes, Live
  <1>11. CASE SettleOne
    <2>1. deferred \in Seq(Command) /\ deferred # << >>
      BY <1>0, <1>11 DEF SettleOne, SettlesSomething, RunType
    <2>2. Head(deferred) \in Command /\ Tail(deferred) \in Seq(Command)
      BY <2>1
    <2>3. queue' \in Seq(Command)
      BY <1>0, <1>11 DEF SettleOne, RestType, shellVars
    <2> QED
      BY <1>11, <2>2, <2>3, HandleKept DEF SettleOne, shellVars, Live
  <1>12. CASE LiveCancelled \/ LinkLost \/ ServerRedirects \/ EmitFails
    <2>1. /\ UNCHANGED <<settings, known, shellVars>>
          /\ \E result : Ends(result)
          /\ \/ phase \in Live /\ (LetGo \/ Breaks)
             \/ phase = "authenticating" /\ UNCHANGED keyVars
      BY <1>12 DEF LiveCancelled, LinkLost, ServerRedirects, EmitFails, Live
    <2>2. /\ pressed' \in BOOLEAN /\ broken' \in BOOLEAN
          /\ pressed' => broken'
      <3>1. CASE phase \in Live /\ (LetGo \/ Breaks)
        BY <1>0, <3>1, EndingKeys DEF Unbroken
      <3>2. CASE phase = "authenticating" /\ UNCHANGED keyVars
        BY <1>0, <3>2 DEF LeavesNothingDown, Live, RestType
      <3> QED
        BY <2>1, <3>1, <3>2
    <2>3. RestType'
      BY <1>0, <2>1, <2>2 DEF RestType, shellVars
    <2> QED
      BY <2>1, <2>2, <2>3, EndsKept
  <1>13. CASE StartUpdate \/ FinishUpdate \/ StaysUp \/ ServerStalls
    <2>1. /\ phase \in {"authenticating"} \cup Live
          /\ phase' \in Phase /\ (phase' \in Live <=> phase \in Live)
          /\ phase' = "settling" => deferred # << >>
          /\ stable' \in {stable, TRUE} /\ stalled' \in {stalled, TRUE}
          /\ UNCHANGED <<settings, known, told, deferred, keyVars, dialVars,
                         ladderVars, shellVars>>
      BY <1>0, <1>13 DEF StartUpdate, FinishUpdate, StaysUp, ServerStalls,
                         linkVars, Live, Phase, RunType, SettlesSomething
    <2>2. RunType' /\ RestType'
      BY <1>0, <2>1 DEF RunType, RestType, dialVars, ladderVars, shellVars
    <2>3. SettlesSomething' /\ Unbroken' /\ LeavesNothingDown'
      BY <1>0, <2>1 DEF SettlesSomething, Unbroken, LeavesNothingDown,
                        ViewOnly
    <2> QED
      BY <1>t, <2>2, <2>3 DEF Kept
  <1>14. CASE UpdateTakes
    <2> DEFINE c == Head(queue)
    <2>1. /\ queue # << >> /\ queue' = Tail(queue) /\ phase = "updating"
          /\ UNCHANGED <<settings, known, shell, cancelled, sent>>
      BY <1>14 DEF UpdateTakes
    <2>0. c \in Command /\ queue' \in Seq(Command)
      BY <1>0, <2>1 DEF RestType
    <2>2. c \in Command /\ c.value \in BOOLEAN /\ queue' \in Seq(Command)
      BY <2>0 DEF Command
    <2>3. CASE LetGo /\ Ends("UserDisconnect")
      <3>0. ~broken
        BY <1>0, <2>1 DEF Unbroken, Live
      <3>1. /\ pressed' \in BOOLEAN /\ broken' \in BOOLEAN
            /\ pressed' => broken'
        BY <1>0, <2>3, <3>0, EndingKeys
      <3>2. RestType'
        BY <1>0, <2>1, <2>2, <3>1 DEF RestType
      <3> QED
        BY <2>3, <3>1, <3>2, EndsKept
    <2>4. CASE c.kind # "Disconnect"
      <3>1. /\ UNCHANGED <<phase, told, broken, stable, stalled, dialVars,
                           ladderVars>>
            /\ deferred' \in {deferred, Append(deferred, c)}
            /\ pressed' \in {pressed, c.value}
            /\ ViewOnly(settings) => pressed' = pressed
        BY <1>14, <2>4 DEF UpdateTakes, Input
      <3>2. deferred' \in Seq(Command)
        BY <1>0, <2>2, <3>1 DEF RunType
      <3>5. pressed' \in BOOLEAN
        BY <1>0, <2>2, <3>1 DEF RestType
      <3>3. RunType' /\ RestType'
        BY <1>0, <2>1, <2>2, <3>1, <3>2, <3>5
           DEF RunType, RestType, dialVars, ladderVars
      <3>4. SettlesSomething' /\ Unbroken' /\ LeavesNothingDown'
        BY <1>0, <2>1, <3>1 DEF SettlesSomething, Unbroken, ViewOnly,
                                LeavesNothingDown, Live
      <3> QED
        BY <1>t, <3>3, <3>4 DEF Kept
    <2> QED
      BY <1>14, <2>3, <2>4 DEF UpdateTakes
  <1>15. CASE Stopped
    BY <1>1, <1>15 DEF Stopped
  <1> QED
    BY <1>1, <1>2, <1>3, <1>4, <1>5, <1>6, <1>7, <1>8, <1>10, <1>11, <1>12,
       <1>13, <1>14, <1>15, <1>16
       DEF Next, Dialing, Authenticating, Asking, Waiting

----------------------------------------------------------------------------

\* The first dial is under way, and nothing has been counted.
LEMMA InitInv == Init => Inv
  <1> SUFFICES ASSUME Init  PROVE Inv
    OBVIOUS
  <1> USE SessionAssumption
  <1>1. RunType
    <2>1. deferred \in Seq(Command) /\ tries \in 1..MaxTries
      BY DEF Init
    <2>2. stable = FALSE /\ stalled = FALSE /\ typed = FALSE
      BY DEF Init
    <2> QED
      BY <2>1, <2>2 DEF Init, RunType, Phase, State
  <1>2. RestType
    <2>1. queue \in Seq(Command) /\ settings \in [Setting -> BOOLEAN]
      BY DEF Init
    <2>2. /\ known = FALSE /\ shell = TRUE /\ cancelled = FALSE
          /\ pressed = FALSE /\ broken = FALSE
      BY DEF Init
    <2> QED
      BY <2>1, <2>2 DEF Init, RestType
  <1>3. TypeOK
    BY <1>1, <1>2, TypeParts
  <1>4. Ladder
    BY Products DEF Init, Ladder, Active, Live, Chain
  <1>5. EndIsAnnounced /\ SettlesSomething /\ Unbroken /\ LeavesNothingDown
    BY DEF Init, EndIsAnnounced, SettlesSomething, Unbroken,
           LeavesNothingDown
  <1> QED
    BY <1>3, <1>4, <1>5 DEF Inv

\* The inductive invariant holds in every reachable state.
THEOREM Invariance == Spec => []Inv
  <1>1. Inv /\ [Next]_vars => Inv'
    BY KeptStep, LadderStep, AnnouncedStep DEF Inv, Kept
  <1> QED
    BY <1>1, InitInv, PTL DEF Spec

\* Type correctness, whatever the policy and however many commands.
THEOREM TypeCorrect == Spec => []TypeOK
  <1>1. Inv => TypeOK
    BY DEF Inv
  <1> QED
    BY <1>1, Invariance, PTL

\* A session that ends says so to the shell that listens, on every path.
THEOREM EndAnnounced == Spec => []EndIsAnnounced
  <1>1. Inv => EndIsAnnounced
    BY DEF Inv
  <1> QED
    BY <1>1, Invariance, PTL

\* Under a policy with a limit, the dials between two retries the person
\* asked for are bounded, whatever the peer does.
THEOREM DialsBounded == Spec => []DialsAreBounded
  <1>1. Inv => DialsAreBounded
    <2> SUFFICES ASSUME Inv, MaxAttempts # None
                 PROVE  dials <= (MaxAttempts + 1) * Chain
      BY DEF DialsAreBounded, Chain
    <2>1. /\ attempts \in Nat /\ MaxAttempts \in Nat /\ dials \in Nat
          /\ attempts <= MaxAttempts /\ dials <= (attempts + 1) * Chain
      BY SessionAssumption DEF Inv, TypeOK, Ladder
    <2>2. (attempts + 1) * Chain <= (MaxAttempts + 1) * Chain
      BY <2>1, Products
    <2> QED
      BY <2>1, <2>2, Products
  <1> QED
    BY <1>1, Invariance, PTL

\* A connection the session ends itself leaves no key down, wherever in it
\* the end came and whatever was parked behind it, and one that is only
\* watched holds none.
THEOREM NothingLeftDown == Spec => []LeavesNothingDown
  <1>1. Inv => LeavesNothingDown
    BY DEF Inv
  <1> QED
    BY <1>1, Invariance, PTL
=============================================================================
