------------------------------ MODULE HelpProofs ------------------------------
(***************************************************************************)
(* Help by invitation for any number of helpers, of keys and of changes of *)
(* mind, and any bound of the channel to the desktop's thread: what is     *)
(* down was pressed under the permission in force, and the tools are open  *)
(* only to the helper they were ticked for, or whose question the answer   *)
(* to another's landed on.                                                 *)
(***************************************************************************)
EXTENDS Help, SequenceTheorems, TLAPS

(* The invariant. *)

\* The thread's generation is one the permission has had, and so is that of
\* whatever is down or about to go down; nothing is down before the thread
\* runs, which it does once somebody was let in.
Generations ==
    /\ desk.gen <= perm.gen
    /\ \A g \in held : desk.gen <= g /\ g <= perm.gen
    /\ desk.at = "apply" => desk.gen <= desk.event.gen /\ desk.event.gen <= perm.gen
    /\ desk.at \in {"off", "start"} => held = {}
    /\ host = "open" => desk.at = "off"

\* A helper knocks once, and whoever is asked about is out of the line for
\* good.
Line ==
    /\ \A i \in 1..Len(knocks) :
           conn[knocks[i]] # "out" /\ knocks[i] # pending /\ knocks[i] # prompt
    /\ \A i, j \in 1..Len(knocks) : knocks[i] = knocks[j] => i = j
    /\ \A h \in Helper : h = pending \/ h = prompt => conn[h] # "out"

\* No question is open or on its way to the window.
NoQuestion == prompt = None /\ Asks(notes) = {}

\* The question in the window is the worker's only once none is on its way;
\* once it is answered, or somebody is in, no question is left that a later
\* answer could land on; and what that answer said of the tools it said of this
\* helper, or of one whose place this one took meanwhile.
Questions ==
    /\ prompt # None /\ prompt = pending => Asks(notes) = {}
    /\ answer # None => pending # None /\ NoQuestion
    /\ host = "open" /\ answer # None /\ tools => pending \in ticked \cup mistaken
    /\ host \in {"granting", "serving"} => NoQuestion
    /\ host \in {"granting", "serving"} /\ tools => served \in ticked \cup mistaken

\* The window is told that somebody is in only when that is so.
WindowIsTold == host = "open" => window # "connected" /\ ~Says(notes, "in")

Inv == TypeOK /\ Generations /\ Line /\ Questions /\ WindowIsTold

\* A word to the window, and one to the helper.
Note == [kind : {"ask", "in", "fin"}, who : Helper \cup {None}]
Said == [kind : {"granted", "control", "tools"}, value : BOOLEAN]

-----------------------------------------------------------------------------
(* Type correctness. *)

LEMMA TypeStep ==
    ASSUME TypeOK, [Next]_vars
    PROVE  TypeOK'
  <1>1. ASSUME NEW h \in Helper, Knock(h) PROVE TypeOK'
    BY <1>1 DEF Knock, windowVars, permVars, tickVars, wireVars, deskVars, TypeOK
  <1>2. ASSUME NEW h \in Helper, Leave(h) PROVE TypeOK'
    BY <1>2 DEF Leave, doorVars, windowVars, permVars, tickVars, wireVars, deskVars,
                TypeOK
  <1>3. ASSUME NEW input \in Input, HelperSends(input) PROVE TypeOK'
    <2>1. up' \in Seq(Input)
      BY <1>3 DEF HelperSends, TypeOK
    <2>2. sent' \in 0..scene'.sends
      BY <1>3, HelpAssumption DEF HelperSends, TypeOK
    <2> QED  BY <1>3, <2>1, <2>2 DEF HelperSends, doorVars, windowVars, permVars,
                                     tickVars, deskVars, TypeOK
  <1>4. CASE HelperReads
    <2>1. down \in Seq(Said) /\ down # << >>
      BY <1>4 DEF HelperReads, TypeOK, Said
    <2>2. Head(down) \in Said /\ Tail(down) \in Seq(Said)
      BY <2>1
    <2>3. up' \in Seq(Input)
      BY <1>4 DEF HelperReads, TypeOK, Input
    <2>4. belief' \in BOOLEAN
      BY <1>4, <2>2 DEF HelperReads, TypeOK, Said
    <2> QED  BY <1>4, <2>1, <2>2, <2>3, <2>4 DEF HelperReads, doorVars, windowVars,
                                                 permVars, tickVars, deskVars,
                                                 TypeOK, Said
  <1>5. CASE HostAsks
    <2>1. Head(knocks) \in Helper /\ knocks' \in Seq(Helper)
      BY <1>5 DEF HostAsks, tickVars, TypeOK
    <2>2. [kind |-> "ask", who |-> Head(knocks)] \in Note
      BY <2>1 DEF Note
    <2>3. notes' \in Seq(Note)
      BY <1>5, <2>2 DEF HostAsks, tickVars, TypeOK, Note
    <2>4. /\ pending' \in Helper /\ served' = served /\ prompt' = prompt
          /\ tools' = FALSE /\ toolsNews' = TRUE
      BY <1>5, <2>1 DEF HostAsks, tickVars, windowVars
    <2>5. UNCHANGED <<scene, conn, host, answer, window, click, changes, perm, news,
                      cancel, up, down, belief, sent, hand, chan, desk, held>>
      BY <1>5 DEF HostAsks, tickVars, windowVars, wireVars, deskVars
    <2>8. ticked' = ticked /\ mistaken' = mistaken
      BY <1>5 DEF HostAsks, tickVars
    <2>6. {pending', served', prompt'} \subseteq Helper \cup {None}
      BY <2>4 DEF TypeOK
    <2>7. {news', tools', toolsNews', cancel', belief'} \subseteq BOOLEAN
      BY <2>4, <2>5 DEF TypeOK
    <2> QED  BY <2>1, <2>3, <2>5, <2>6, <2>7, <2>8, Zenon DEF TypeOK, Note
  <1>6. CASE HostRefuses
    BY <1>6 DEF HostRefuses, windowVars, permVars, tickVars, wireVars, deskVars, TypeOK,
                TurnedAway
  <1>7. CASE Withdrawn
    BY <1>7 DEF Withdrawn, windowVars, permVars, tickVars, wireVars, deskVars, TypeOK,
                TurnedAway
  <1>8. CASE Denied
    BY <1>8 DEF Denied, windowVars, permVars, tickVars, wireVars, deskVars, TypeOK,
                TurnedAway
  <1>9. CASE Granted
    <2>1. /\ pending \in Helper
          /\ conn' \in [Helper -> {"out", "knocked", "served", "away", "left"}]
      BY <1>9 DEF Granted, tickVars, TypeOK
    <2>2. perm' \in [allowed : BOOLEAN, gen : Nat]
      BY <1>9 DEF Granted, tickVars, TypeOK
    <2>3. [kind |-> "granted", value |-> answer = "control"] \in Said
      BY DEF Said
    <2>4. down' \in Seq(Said)
      BY <1>9, <2>3 DEF Granted, tickVars
    <2>5. desk' \in [at : {"off", "start", "top", "batch", "apply", "ended"},
                   gen : Nat, event : Stamped]
      BY <1>9 DEF Granted, tickVars, TypeOK
    <2>6. tools' \in BOOLEAN /\ toolsNews' \in BOOLEAN
      BY <1>9 DEF Granted, tickVars, TypeOK
    <2> QED  BY <1>9, <2>1, <2>2, <2>3, <2>4, <2>5, <2>6
                DEF Granted, tickVars, windowVars, TypeOK, Said
  <1>10. CASE Connected
    <2>1. [kind |-> "in", who |-> served] \in Note
      BY DEF Note, TypeOK
    <2>2. notes' \in Seq(Note)
      BY <1>10, <2>1 DEF Connected, tickVars, TypeOK, Note
    <2> QED  BY <1>10, <2>1, <2>2 DEF Connected, tickVars, doorVars, windowVars,
                                      wireVars, deskVars, TypeOK, Note
  <1>11. CASE Finish
    BY <1>11 DEF Finish, doorVars, windowVars, permVars, tickVars, wireVars,
                 deskVars, TypeOK
  <1>12. CASE ReadInput
    <2>1. Head(up) \in Input /\ up' \in Seq(Input)
      BY <1>12 DEF ReadInput, TypeOK
    <2>2. [gen |-> perm.gen, input |-> Head(up)] \in Stamped
      BY <2>1 DEF Stamped, TypeOK
    <2>3. hand' \in Stamped \cup {None}
      BY <1>12, <2>2 DEF ReadInput
    <2> QED  BY <1>12, <2>1, <2>3 DEF ReadInput, doorVars, windowVars, permVars,
                                      tickVars, deskVars, TypeOK
  <1>13. CASE PassOn
    <2>1. hand \in Stamped
      BY <1>13 DEF PassOn, TypeOK
    <2>2. chan' \in Seq(Stamped) /\ Len(chan') <= Capacity
      BY <1>13, <2>1, HelpAssumption DEF PassOn, TypeOK
    <2> QED  BY <1>13, <2>1, <2>2 DEF PassOn, doorVars, windowVars, permVars, tickVars,
                                      wireVars, TypeOK
  <1>14. CASE TellControl
    <2>1. [kind |-> "control", value |-> perm.allowed] \in Said
      BY DEF Said, TypeOK
    <2>2. down' \in Seq(Said)
      BY <1>14, <2>1 DEF TellControl, tickVars, TypeOK, Said
    <2> QED  BY <1>14, <2>1, <2>2 DEF TellControl, tickVars, doorVars, windowVars,
                                      deskVars, TypeOK, Said
  <1>15. CASE TellTools
    <2>1. [kind |-> "tools", value |-> tools] \in Said
      BY DEF Said, TypeOK
    <2>2. down' \in Seq(Said)
      BY <1>15, <2>1 DEF TellTools, tickVars, TypeOK, Said
    <2> QED  BY <1>15, <2>1, <2>2 DEF TellTools, tickVars, doorVars, windowVars,
                                      deskVars, TypeOK, Said
  <1>16. CASE Expire
    BY <1>16 DEF Expire, doorVars, windowVars, permVars, tickVars, wireVars,
                 deskVars, TypeOK
  <1>17. CASE ServeEnds
    BY <1>17, HelpAssumption DEF ServeEnds, TurnedAway, TypeOK, doorVars,
                                 windowVars, permVars, tickVars, wireVars, deskVars
  <1>18. CASE DeskStarts
    BY <1>18 DEF DeskStarts, doorVars, windowVars, permVars, tickVars, wireVars,
                 DeskRest, TypeOK
  <1>19. ASSUME NEW idle \in BOOLEAN, DeskTurns(idle) PROVE TypeOK'
    BY <1>19 DEF DeskTurns, doorVars, windowVars, permVars, tickVars, wireVars,
                 DeskRest, TypeOK
  <1>20. CASE DeskTakes
    <2>1. Head(chan) \in Stamped /\ chan' \in Seq(Stamped) /\ Len(chan') <= Capacity
      BY <1>20, HelpAssumption DEF DeskTakes, TypeOK
    <2>2. held' \subseteq Nat
      BY <1>20 DEF DeskTakes, TypeOK
    <2>3. desk' \in [at : {"off", "start", "top", "batch", "apply", "ended"},
                   gen : Nat, event : Stamped]
      BY <1>20, <2>1 DEF DeskTakes, TypeOK
    <2> QED  BY <1>20, <2>1, <2>2, <2>3 DEF DeskTakes, doorVars, windowVars,
                                            permVars, tickVars, wireVars, DeskRest,
                                            TypeOK
  <1>21. CASE DeskApplies
    <2>1. desk.event.gen \in Nat
      BY DEF TypeOK, Stamped
    <2>2. held' \subseteq Nat
      BY <1>21, <2>1 DEF DeskApplies, TypeOK
    <2>3. Nothing \in Stamped
      BY DEF Nothing, Stamped, Input
    <2>4. desk' \in [at : {"off", "start", "top", "batch", "apply", "ended"},
                   gen : Nat, event : Stamped]
      BY <1>21, <2>3 DEF DeskApplies, TypeOK
    <2> QED  BY <1>21, <2>1, <2>2, <2>3, <2>4 DEF DeskApplies, doorVars, windowVars,
                                                  permVars, tickVars, wireVars,
                                                  DeskRest, TypeOK
  <1>22. CASE DeskCaptures
    BY <1>22 DEF DeskCaptures, doorVars, windowVars, permVars, tickVars, wireVars,
                 DeskRest, TypeOK
  <1>23. CASE DeskEnds
    <2>1. Nothing \in Stamped
      BY DEF Nothing, Stamped, Input
    <2>2. desk' \in [at : {"off", "start", "top", "batch", "apply", "ended"},
                     gen : Nat, event : Stamped]
      BY <1>23, <2>1 DEF DeskEnds, TypeOK
    <2> QED  BY <1>23, <2>2 DEF DeskEnds, doorVars, windowVars, permVars, tickVars,
                                wireVars, DeskRest, TypeOK
  <1>24. CASE Poll
    BY <1>24 DEF Poll, tickVars, doorVars, wireVars, deskVars, TypeOK
  <1>26. CASE Answer
    <2>1. click \in Clicked
      BY <1>26 DEF Answer, TypeOK
    <2>2. /\ click.on \in Helper /\ click.decision \in Decision
          /\ click.tick \in BOOLEAN
      BY <2>1 DEF Clicked
    <2>3. CASE prompt # None /\ tools' = Allows(prompt) /\ Ticks(prompt)
               /\ toolsNews' = TRUE /\ prompt' = None
               /\ answer' = IF prompt = pending THEN click.decision ELSE answer
      <3>1. prompt \in Helper
        BY <2>3 DEF TypeOK
      <3>2. ticked' \subseteq Helper /\ mistaken' \subseteq Helper
        BY <2>2, <2>3, <3>1 DEF Ticks, TypeOK
      <3>3. tools' \in BOOLEAN /\ toolsNews' \in BOOLEAN
        BY <2>2, <2>3 DEF Allows
      <3>4. answer' \in Decision \cup {None}
        BY <2>2, <2>3 DEF TypeOK
      <3> QED  BY <1>26, <2>3, <3>2, <3>3, <3>4 DEF Answer, wireVars, deskVars, TypeOK
    <2>4. CASE UNCHANGED <<tools, toolsNews, tickVars, answer, prompt>>
      BY <1>26, <2>4 DEF Answer, tickVars, wireVars, deskVars, TypeOK
    <2> QED  BY <1>26, <2>3, <2>4 DEF Answer
  <1>25. ASSUME NEW d \in Decision, NEW tick \in BOOLEAN, Click(d, tick)
         PROVE  TypeOK'
    BY <1>25, HelpAssumption DEF Click, doorVars, permVars, tickVars, wireVars,
                                 deskVars, TypeOK, Clicked
  <1>27. ASSUME NEW b \in BOOLEAN, SetControl(b) PROVE TypeOK'
    <2>1. changes' \in 0..scene'.changes
      BY <1>27, HelpAssumption DEF SetControl, tickVars, TypeOK
    <2>2. perm' \in [allowed : BOOLEAN, gen : Nat]
      BY <1>27 DEF SetControl, tickVars, TypeOK
    <2> QED  BY <1>27, <2>1, <2>2 DEF SetControl, tickVars, doorVars, wireVars,
                                      deskVars, TypeOK
  <1>28. ASSUME NEW b \in BOOLEAN, SetTools(b) PROVE TypeOK'
    <2>1. changes' \in 0..scene'.changes
      BY <1>28, HelpAssumption DEF SetTools, TypeOK
    <2>2. served \in Helper /\ ticked' \subseteq Helper
      BY <1>28, HelpAssumption DEF SetTools, TypeOK
    <2> QED  BY <1>28, <2>1, <2>2 DEF SetTools, doorVars, wireVars, deskVars, TypeOK
  <1>29. CASE Stop
    BY <1>29 DEF Stop, tickVars, doorVars, wireVars, deskVars, TypeOK
  <1>30. CASE UNCHANGED vars
    BY <1>30 DEF vars, doorVars, windowVars, permVars, tickVars, wireVars, deskVars,
                 TypeOK
  <1> QED
    BY <1>1, <1>2, <1>3, <1>4, <1>5, <1>6, <1>7, <1>8, <1>9, <1>10, <1>11, <1>12,
       <1>13, <1>14, <1>15, <1>16, <1>17, <1>18, <1>19, <1>20, <1>21, <1>22,
       <1>23, <1>24, <1>25, <1>26, <1>27, <1>28, <1>29, <1>30
       DEF Next, Worker, Desk, Person

-----------------------------------------------------------------------------
(* Generations. *)

LEMMA GenerationsStep ==
    ASSUME TypeOK, Generations, [Next]_vars
    PROVE  Generations'
  <1>1. ASSUME NEW h \in Helper, Knock(h) PROVE Generations'
    BY <1>1 DEF Knock, windowVars, permVars, tickVars, wireVars, deskVars, TypeOK,
                Generations, Stamped
  <1>2. ASSUME NEW h \in Helper, Leave(h) PROVE Generations'
    BY <1>2 DEF Leave, doorVars, windowVars, permVars, tickVars, wireVars, deskVars,
                TypeOK, Generations, Stamped
  <1>3. ASSUME NEW input \in Input, HelperSends(input) PROVE Generations'
    BY <1>3 DEF HelperSends, doorVars, windowVars, permVars, tickVars, deskVars, TypeOK,
                Generations, Stamped
  <1>4. CASE HelperReads
    BY <1>4 DEF HelperReads, doorVars, windowVars, permVars, tickVars, deskVars, TypeOK,
                Generations, Stamped
  <1>5. CASE HostAsks
    BY <1>5 DEF HostAsks, tickVars, windowVars, wireVars, deskVars, TypeOK, Generations,
                Stamped
  <1>6. CASE HostRefuses
    BY <1>6 DEF HostRefuses, windowVars, permVars, tickVars, wireVars, deskVars, TypeOK,
                Generations, Stamped
  <1>7. CASE Withdrawn
    BY <1>7 DEF Withdrawn, windowVars, permVars, tickVars, wireVars, deskVars, TypeOK,
                Generations, Stamped
  <1>8. CASE Denied
    BY <1>8 DEF Denied, windowVars, permVars, tickVars, wireVars, deskVars, TypeOK,
                Generations, Stamped
  <1>9. CASE Granted
    BY <1>9 DEF Granted, tickVars, windowVars, TypeOK, Generations, Stamped
  <1>10. CASE Connected
    BY <1>10 DEF Connected, tickVars, doorVars, windowVars, wireVars, deskVars, TypeOK,
                 Generations, Stamped
  <1>11. CASE Finish
    BY <1>11 DEF Finish, doorVars, windowVars, permVars, tickVars, wireVars, deskVars,
                 TypeOK, Generations, Stamped
  <1>12. CASE ReadInput
    BY <1>12 DEF ReadInput, doorVars, windowVars, permVars, tickVars, deskVars, TypeOK,
                 Generations, Stamped
  <1>13. CASE PassOn
    BY <1>13 DEF PassOn, doorVars, windowVars, permVars, tickVars, wireVars, TypeOK,
                 Generations, Stamped
  <1>14. CASE TellControl
    BY <1>14 DEF TellControl, tickVars, doorVars, windowVars, deskVars, TypeOK,
                 Generations, Stamped
  <1>15. CASE TellTools
    BY <1>15 DEF TellTools, tickVars, doorVars, windowVars, deskVars, TypeOK,
                 Generations, Stamped
  <1>16. CASE Expire
    BY <1>16 DEF Expire, doorVars, windowVars, permVars, tickVars, wireVars, deskVars,
                 TypeOK, Generations, Stamped
  <1>17. CASE ServeEnds
    BY <1>17 DEF ServeEnds, doorVars, windowVars, permVars, tickVars, wireVars,
                 deskVars, TypeOK, Generations, Stamped
  <1>18. CASE DeskStarts
    BY <1>18 DEF DeskStarts, doorVars, windowVars, permVars, tickVars, wireVars,
                 DeskRest, TypeOK, Generations, Stamped
  <1>19. ASSUME NEW idle \in BOOLEAN, DeskTurns(idle) PROVE Generations'
    BY <1>19 DEF DeskTurns, doorVars, windowVars, permVars, tickVars, wireVars,
                 DeskRest, TypeOK, Generations, Stamped
  <1>20. CASE DeskTakes
    BY <1>20 DEF DeskTakes, doorVars, windowVars, permVars, tickVars, wireVars,
                 DeskRest, TypeOK, Generations, Stamped
  <1>21. CASE DeskApplies
    BY <1>21 DEF DeskApplies, doorVars, windowVars, permVars, tickVars, wireVars,
                 DeskRest, TypeOK, Generations, Stamped, Nothing
  <1>22. CASE DeskCaptures
    BY <1>22 DEF DeskCaptures, doorVars, windowVars, permVars, tickVars, wireVars,
                 DeskRest, TypeOK, Generations, Stamped
  <1>23. CASE DeskEnds
    BY <1>23 DEF DeskEnds, doorVars, windowVars, permVars, tickVars, wireVars, DeskRest,
                 TypeOK, Generations, Stamped, Nothing
  <1>24. CASE Poll
    BY <1>24 DEF Poll, tickVars, doorVars, wireVars, deskVars, TypeOK, Generations,
                 Stamped
  <1>26. CASE Answer
    BY <1>26 DEF Answer, wireVars, deskVars, TypeOK, Generations, Stamped
  <1>25. ASSUME NEW d \in Decision, NEW tick \in BOOLEAN, Click(d, tick)
         PROVE  Generations'
    BY <1>25 DEF Click, doorVars, permVars, tickVars, wireVars, deskVars, TypeOK,
                 Generations, Stamped
  <1>27. ASSUME NEW b \in BOOLEAN, SetControl(b) PROVE Generations'
    BY <1>27 DEF SetControl, tickVars, doorVars, wireVars, deskVars, TypeOK,
                 Generations, Stamped
  <1>28. ASSUME NEW b \in BOOLEAN, SetTools(b) PROVE Generations'
    BY <1>28 DEF SetTools, doorVars, wireVars, deskVars, TypeOK, Generations,
                 Stamped
  <1>29. CASE Stop
    BY <1>29 DEF Stop, tickVars, doorVars, wireVars, deskVars, TypeOK, Generations,
                 Stamped
  <1>30. CASE UNCHANGED vars
    BY <1>30 DEF vars, doorVars, windowVars, permVars, tickVars, wireVars, deskVars,
                 TypeOK, Generations, Stamped
  <1> QED
    BY <1>1, <1>2, <1>3, <1>4, <1>5, <1>6, <1>7, <1>8, <1>9, <1>10, <1>11, <1>12,
       <1>13, <1>14, <1>15, <1>16, <1>17, <1>18, <1>19, <1>20, <1>21, <1>22,
       <1>23, <1>24, <1>25, <1>26, <1>27, <1>28, <1>29, <1>30
       DEF Next, Worker, Desk, Person

-----------------------------------------------------------------------------
(* The line. *)

LEMMA LineStep ==
    ASSUME TypeOK, Line, [Next]_vars
    PROVE  Line'
  <1>1. ASSUME NEW h \in Helper, Knock(h) PROVE Line'
    BY <1>1 DEF Knock, windowVars, permVars, tickVars, wireVars, deskVars, TypeOK, Line
  <1>2. ASSUME NEW h \in Helper, Leave(h) PROVE Line'
    BY <1>2 DEF Leave, doorVars, windowVars, permVars, tickVars, wireVars, deskVars,
                TypeOK, Line
  <1>3. ASSUME NEW input \in Input, HelperSends(input) PROVE Line'
    BY <1>3 DEF HelperSends, doorVars, windowVars, permVars, tickVars, deskVars,
                TypeOK, Line
  <1>4. CASE HelperReads
    BY <1>4 DEF HelperReads, doorVars, windowVars, permVars, tickVars, deskVars,
                TypeOK, Line
  <1>5. CASE HostAsks
    BY <1>5 DEF HostAsks, tickVars, windowVars, wireVars, deskVars, TypeOK, Line
  <1>6. CASE HostRefuses
    BY <1>6 DEF HostRefuses, windowVars, permVars, tickVars, wireVars, deskVars, TypeOK,
                Line, TurnedAway
  <1>7. CASE Withdrawn
    <2>1. /\ pending \in Helper /\ conn' = TurnedAway(pending) /\ pending' = None
          /\ knocks' = knocks /\ prompt' = prompt
      BY <1>7 DEF Withdrawn, windowVars, TypeOK
    <2>2. \A h \in Helper : conn[h] # "out" => conn'[h] # "out"
      BY <2>1 DEF TypeOK, TurnedAway
    <2>3. \A i \in 1..Len(knocks) : knocks[i] \in Helper
      BY DEF TypeOK
    <2>4. None \notin Helper
      BY HelpAssumption
    <2> QED  BY <2>1, <2>2, <2>3, <2>4 DEF Line
  <1>8. CASE Denied
    BY <1>8, HelpAssumption DEF Denied, windowVars, permVars, tickVars, wireVars,
                                deskVars, TypeOK, Line, TurnedAway
  <1>9. CASE Granted
    BY <1>9, HelpAssumption DEF Granted, tickVars, windowVars, TypeOK, Line
  <1>10. CASE Connected
    BY <1>10 DEF Connected, tickVars, doorVars, windowVars, wireVars, deskVars,
                 TypeOK, Line
  <1>11. CASE Finish
    BY <1>11 DEF Finish, doorVars, windowVars, permVars, tickVars, wireVars, deskVars,
                 TypeOK, Line
  <1>12. CASE ReadInput
    BY <1>12 DEF ReadInput, doorVars, windowVars, permVars, tickVars, deskVars,
                 TypeOK, Line
  <1>13. CASE PassOn
    BY <1>13 DEF PassOn, doorVars, windowVars, permVars, tickVars, wireVars, TypeOK,
                 Line
  <1>14. CASE TellControl
    BY <1>14 DEF TellControl, tickVars, doorVars, windowVars, deskVars, TypeOK, Line
  <1>15. CASE TellTools
    BY <1>15 DEF TellTools, tickVars, doorVars, windowVars, deskVars, TypeOK, Line
  <1>16. CASE Expire
    BY <1>16 DEF Expire, doorVars, windowVars, permVars, tickVars, wireVars, deskVars,
                 TypeOK, Line
  <1>17. CASE ServeEnds
    BY <1>17 DEF ServeEnds, doorVars, windowVars, permVars, tickVars, wireVars,
                 deskVars, TypeOK, Line, TurnedAway
  <1>18. CASE DeskStarts
    BY <1>18 DEF DeskStarts, doorVars, windowVars, permVars, tickVars, wireVars,
                 DeskRest, TypeOK, Line
  <1>19. ASSUME NEW idle \in BOOLEAN, DeskTurns(idle) PROVE Line'
    BY <1>19 DEF DeskTurns, doorVars, windowVars, permVars, tickVars, wireVars,
                 DeskRest, TypeOK, Line
  <1>20. CASE DeskTakes
    BY <1>20 DEF DeskTakes, doorVars, windowVars, permVars, tickVars, wireVars,
                 DeskRest, TypeOK, Line
  <1>21. CASE DeskApplies
    BY <1>21 DEF DeskApplies, doorVars, windowVars, permVars, tickVars, wireVars,
                 DeskRest, TypeOK, Line
  <1>22. CASE DeskCaptures
    BY <1>22 DEF DeskCaptures, doorVars, windowVars, permVars, tickVars, wireVars,
                 DeskRest, TypeOK, Line
  <1>23. CASE DeskEnds
    BY <1>23 DEF DeskEnds, doorVars, windowVars, permVars, tickVars, wireVars, DeskRest,
                 TypeOK, Line
  <1>24. CASE Poll
    BY <1>24, HelpAssumption DEF Poll, tickVars, doorVars, wireVars, deskVars,
                                 TypeOK, Line
  <1>26. CASE Answer
    BY <1>26, HelpAssumption DEF Answer, wireVars, deskVars, TypeOK, Line
  <1>25. ASSUME NEW d \in Decision, NEW tick \in BOOLEAN, Click(d, tick)
         PROVE  Line'
    BY <1>25 DEF Click, doorVars, permVars, tickVars, wireVars, deskVars, TypeOK, Line
  <1>27. ASSUME NEW b \in BOOLEAN, SetControl(b) PROVE Line'
    BY <1>27 DEF SetControl, tickVars, doorVars, wireVars, deskVars, TypeOK, Line
  <1>28. ASSUME NEW b \in BOOLEAN, SetTools(b) PROVE Line'
    BY <1>28 DEF SetTools, doorVars, wireVars, deskVars, TypeOK, Line
  <1>29. CASE Stop
    BY <1>29, HelpAssumption DEF Stop, tickVars, doorVars, wireVars, deskVars,
                                 TypeOK, Line
  <1>30. CASE UNCHANGED vars
    BY <1>30 DEF vars, doorVars, windowVars, permVars, tickVars, wireVars, deskVars,
                 TypeOK, Line
  <1> QED
    BY <1>1, <1>2, <1>3, <1>4, <1>5, <1>6, <1>7, <1>8, <1>9, <1>10, <1>11, <1>12,
       <1>13, <1>14, <1>15, <1>16, <1>17, <1>18, <1>19, <1>20, <1>21, <1>22,
       <1>23, <1>24, <1>25, <1>26, <1>27, <1>28, <1>29, <1>30
       DEF Next, Worker, Desk, Person

-----------------------------------------------------------------------------
(* What the window is told. *)

LEMMA WindowStep ==
    ASSUME TypeOK, WindowIsTold, [Next]_vars
    PROVE  WindowIsTold'
  <1>1. ASSUME NEW h \in Helper, Knock(h) PROVE WindowIsTold'
    BY <1>1 DEF Knock, windowVars, permVars, tickVars, wireVars, deskVars, TypeOK,
                WindowIsTold, Says
  <1>2. ASSUME NEW h \in Helper, Leave(h) PROVE WindowIsTold'
    BY <1>2 DEF Leave, doorVars, windowVars, permVars, tickVars, wireVars, deskVars,
                TypeOK, WindowIsTold, Says
  <1>3. ASSUME NEW input \in Input, HelperSends(input) PROVE WindowIsTold'
    BY <1>3 DEF HelperSends, doorVars, windowVars, permVars, tickVars, deskVars, TypeOK,
                WindowIsTold, Says
  <1>4. CASE HelperReads
    BY <1>4 DEF HelperReads, doorVars, windowVars, permVars, tickVars, deskVars, TypeOK,
                WindowIsTold, Says
  <1>5. CASE HostAsks
    BY <1>5 DEF HostAsks, tickVars, windowVars, wireVars, deskVars, TypeOK,
                WindowIsTold, Says
  <1>6. CASE HostRefuses
    BY <1>6 DEF HostRefuses, windowVars, permVars, tickVars, wireVars, deskVars, TypeOK,
                WindowIsTold, Says
  <1>7. CASE Withdrawn
    BY <1>7 DEF Withdrawn, windowVars, permVars, tickVars, wireVars, deskVars, TypeOK,
                WindowIsTold, Says
  <1>8. CASE Denied
    BY <1>8 DEF Denied, windowVars, permVars, tickVars, wireVars, deskVars, TypeOK,
                WindowIsTold, Says
  <1>9. CASE Granted
    BY <1>9 DEF Granted, tickVars, windowVars, TypeOK, WindowIsTold, Says
  <1>10. CASE Connected
    BY <1>10 DEF Connected, tickVars, doorVars, windowVars, wireVars, deskVars, TypeOK,
                 WindowIsTold, Says
  <1>11. CASE Finish
    BY <1>11 DEF Finish, doorVars, windowVars, permVars, tickVars, wireVars, deskVars,
                 TypeOK, WindowIsTold, Says
  <1>12. CASE ReadInput
    BY <1>12 DEF ReadInput, doorVars, windowVars, permVars, tickVars, deskVars, TypeOK,
                 WindowIsTold, Says
  <1>13. CASE PassOn
    BY <1>13 DEF PassOn, doorVars, windowVars, permVars, tickVars, wireVars, TypeOK,
                 WindowIsTold, Says
  <1>14. CASE TellControl
    BY <1>14 DEF TellControl, tickVars, doorVars, windowVars, deskVars, TypeOK,
                 WindowIsTold, Says
  <1>15. CASE TellTools
    BY <1>15 DEF TellTools, tickVars, doorVars, windowVars, deskVars, TypeOK,
                 WindowIsTold, Says
  <1>16. CASE Expire
    BY <1>16 DEF Expire, doorVars, windowVars, permVars, tickVars, wireVars, deskVars,
                 TypeOK, WindowIsTold, Says
  <1>17. CASE ServeEnds
    BY <1>17 DEF ServeEnds, doorVars, windowVars, permVars, tickVars, wireVars,
                 deskVars, TypeOK, WindowIsTold, Says
  <1>18. CASE DeskStarts
    BY <1>18 DEF DeskStarts, doorVars, windowVars, permVars, tickVars, wireVars,
                 DeskRest, TypeOK, WindowIsTold, Says
  <1>19. ASSUME NEW idle \in BOOLEAN, DeskTurns(idle) PROVE WindowIsTold'
    BY <1>19 DEF DeskTurns, doorVars, windowVars, permVars, tickVars, wireVars,
                 DeskRest, TypeOK, WindowIsTold, Says
  <1>20. CASE DeskTakes
    BY <1>20 DEF DeskTakes, doorVars, windowVars, permVars, tickVars, wireVars,
                 DeskRest, TypeOK, WindowIsTold, Says
  <1>21. CASE DeskApplies
    BY <1>21 DEF DeskApplies, doorVars, windowVars, permVars, tickVars, wireVars,
                 DeskRest, TypeOK, WindowIsTold, Says
  <1>22. CASE DeskCaptures
    BY <1>22 DEF DeskCaptures, doorVars, windowVars, permVars, tickVars, wireVars,
                 DeskRest, TypeOK, WindowIsTold, Says
  <1>23. CASE DeskEnds
    BY <1>23 DEF DeskEnds, doorVars, windowVars, permVars, tickVars, wireVars, DeskRest,
                 TypeOK, WindowIsTold, Says
  <1>24. CASE Poll
    BY <1>24 DEF Poll, tickVars, doorVars, wireVars, deskVars, TypeOK, WindowIsTold,
                 Says
  <1>26. CASE Answer
    BY <1>26 DEF Answer, wireVars, deskVars, TypeOK, WindowIsTold, Says
  <1>25. ASSUME NEW d \in Decision, NEW tick \in BOOLEAN, Click(d, tick)
         PROVE  WindowIsTold'
    BY <1>25 DEF Click, doorVars, permVars, tickVars, wireVars, deskVars, TypeOK,
                 WindowIsTold, Says
  <1>27. ASSUME NEW b \in BOOLEAN, SetControl(b) PROVE WindowIsTold'
    BY <1>27 DEF SetControl, tickVars, doorVars, wireVars, deskVars, TypeOK,
                 WindowIsTold, Says
  <1>28. ASSUME NEW b \in BOOLEAN, SetTools(b) PROVE WindowIsTold'
    BY <1>28 DEF SetTools, doorVars, wireVars, deskVars, TypeOK, WindowIsTold, Says
  <1>29. CASE Stop
    BY <1>29 DEF Stop, tickVars, doorVars, wireVars, deskVars, TypeOK, WindowIsTold,
                 Says
  <1>30. CASE UNCHANGED vars
    BY <1>30 DEF vars, doorVars, windowVars, permVars, tickVars, wireVars, deskVars,
                 TypeOK, WindowIsTold, Says
  <1> QED
    BY <1>1, <1>2, <1>3, <1>4, <1>5, <1>6, <1>7, <1>8, <1>9, <1>10, <1>11, <1>12,
       <1>13, <1>14, <1>15, <1>16, <1>17, <1>18, <1>19, <1>20, <1>21, <1>22,
       <1>23, <1>24, <1>25, <1>26, <1>27, <1>28, <1>29, <1>30
       DEF Next, Worker, Desk, Person

-----------------------------------------------------------------------------
(* Questions and answers. *)

LEMMA QuestionsStep ==
    ASSUME TypeOK, Line, Questions, WindowIsTold, [Next]_vars
    PROVE  Questions'
  <1>1. ASSUME NEW h \in Helper, Knock(h) PROVE Questions'
    BY <1>1 DEF Knock, windowVars, permVars, tickVars, wireVars, deskVars, TypeOK,
                Questions, NoQuestion, Asks
  <1>2. ASSUME NEW h \in Helper, Leave(h) PROVE Questions'
    BY <1>2 DEF Leave, doorVars, windowVars, permVars, tickVars, wireVars, deskVars,
                TypeOK, Questions, NoQuestion, Asks
  <1>3. ASSUME NEW input \in Input, HelperSends(input) PROVE Questions'
    BY <1>3 DEF HelperSends, doorVars, windowVars, permVars, tickVars, deskVars, TypeOK,
                Questions, NoQuestion, Asks
  <1>4. CASE HelperReads
    BY <1>4 DEF HelperReads, doorVars, windowVars, permVars, tickVars, deskVars, TypeOK,
                Questions, NoQuestion, Asks
  <1>5. CASE HostAsks
    <2>1. /\ pending = None /\ answer' = answer /\ tools' = FALSE
          /\ host' = host /\ host = "open" /\ prompt' = prompt
          /\ pending' = Head(knocks)
      BY <1>5 DEF HostAsks, tickVars, windowVars
    <2>2. answer' = None
      BY <2>1 DEF Questions
    <2>3. Head(knocks) # prompt
      BY <1>5 DEF HostAsks, tickVars, Line, TypeOK
    <2> QED  BY <2>1, <2>2, <2>3 DEF Questions
  <1>6. CASE HostRefuses
    BY <1>6 DEF HostRefuses, windowVars, permVars, tickVars, wireVars, deskVars, TypeOK,
                Questions, NoQuestion, Asks
  <1>7. CASE Withdrawn
    BY <1>7 DEF Withdrawn, windowVars, permVars, tickVars, wireVars, deskVars, TypeOK,
                Questions, NoQuestion, Asks
  <1>8. CASE Denied
    BY <1>8 DEF Denied, windowVars, permVars, tickVars, wireVars, deskVars, TypeOK,
                Questions, NoQuestion, Asks
  <1>9. CASE Granted
    <2>1. NoQuestion /\ notes' = notes /\ prompt' = prompt
      BY <1>9, HelpAssumption DEF Granted, tickVars, Questions, windowVars, Decision
    <2>2. answer' = None /\ host' = "granting" /\ pending' = None
      BY <1>9 DEF Granted, tickVars
    <2>3. tools' => tools
      BY <1>9, Zenon DEF Granted, tickVars
    <2>4. tools => pending \in ticked \cup mistaken
      BY <1>9, HelpAssumption DEF Granted, tickVars, Questions, Decision
    <2>5. served' = pending /\ ticked' = ticked /\ mistaken' = mistaken
      BY <1>9 DEF Granted, tickVars
    <2> QED  BY <2>1, <2>2, <2>3, <2>4, <2>5 DEF Questions, NoQuestion
  <1>10. CASE Connected
    <2>1. /\ host = "granting" /\ host' = "serving"
          /\ notes' = Append(notes, [kind |-> "in", who |-> served])
          /\ UNCHANGED <<pending, answer, served, prompt, tools, ticked, mistaken>>
      BY <1>10 DEF Connected, tickVars, doorVars, windowVars
    <2>2. Asks(notes') = {}
      BY <2>1 DEF TypeOK, Questions, NoQuestion, Asks
    <2> QED  BY <2>1, <2>2 DEF Questions, NoQuestion
  <1>11. CASE Finish
    BY <1>11 DEF Finish, doorVars, windowVars, permVars, tickVars, wireVars, deskVars,
                 TypeOK, Questions, NoQuestion, Asks
  <1>12. CASE ReadInput
    BY <1>12 DEF ReadInput, doorVars, windowVars, permVars, tickVars, deskVars, TypeOK,
                 Questions, NoQuestion, Asks
  <1>13. CASE PassOn
    BY <1>13 DEF PassOn, doorVars, windowVars, permVars, tickVars, wireVars, TypeOK,
                 Questions, NoQuestion, Asks
  <1>14. CASE TellControl
    BY <1>14 DEF TellControl, tickVars, doorVars, windowVars, deskVars, TypeOK,
                 Questions, NoQuestion, Asks
  <1>15. CASE TellTools
    BY <1>15 DEF TellTools, tickVars, doorVars, windowVars, deskVars, TypeOK, Questions,
                 NoQuestion, Asks
  <1>16. CASE Expire
    BY <1>16 DEF Expire, doorVars, windowVars, permVars, tickVars, wireVars, deskVars,
                 TypeOK, Questions, NoQuestion, Asks
  <1>17. CASE ServeEnds
    BY <1>17 DEF ServeEnds, doorVars, windowVars, permVars, tickVars, wireVars,
                 deskVars, TypeOK, Questions, NoQuestion, Asks
  <1>18. CASE DeskStarts
    BY <1>18 DEF DeskStarts, doorVars, windowVars, permVars, tickVars, wireVars,
                 DeskRest, TypeOK, Questions, NoQuestion, Asks
  <1>19. ASSUME NEW idle \in BOOLEAN, DeskTurns(idle) PROVE Questions'
    BY <1>19 DEF DeskTurns, doorVars, windowVars, permVars, tickVars, wireVars,
                 DeskRest, TypeOK, Questions, NoQuestion, Asks
  <1>20. CASE DeskTakes
    BY <1>20 DEF DeskTakes, doorVars, windowVars, permVars, tickVars, wireVars,
                 DeskRest, TypeOK, Questions, NoQuestion, Asks
  <1>21. CASE DeskApplies
    BY <1>21 DEF DeskApplies, doorVars, windowVars, permVars, tickVars, wireVars,
                 DeskRest, TypeOK, Questions, NoQuestion, Asks
  <1>22. CASE DeskCaptures
    BY <1>22 DEF DeskCaptures, doorVars, windowVars, permVars, tickVars, wireVars,
                 DeskRest, TypeOK, Questions, NoQuestion, Asks
  <1>23. CASE DeskEnds
    BY <1>23 DEF DeskEnds, doorVars, windowVars, permVars, tickVars, wireVars, DeskRest,
                 TypeOK, Questions, NoQuestion, Asks
  <1>24. CASE Poll
    BY <1>24 DEF Poll, tickVars, doorVars, wireVars, deskVars, TypeOK, Questions,
                 NoQuestion, Asks
  <1>26. CASE Answer
    BY <1>26 DEF Answer, Ticks, tickVars, wireVars, deskVars, TypeOK, Questions,
                 NoQuestion, Asks
  <1>25. ASSUME NEW d \in Decision, NEW tick \in BOOLEAN, Click(d, tick)
         PROVE  Questions'
    BY <1>25 DEF Click, doorVars, permVars, tickVars, wireVars, deskVars, TypeOK,
                 Questions, NoQuestion, Asks
  <1>27. ASSUME NEW b \in BOOLEAN, SetControl(b) PROVE Questions'
    BY <1>27 DEF SetControl, tickVars, doorVars, wireVars, deskVars, TypeOK, Questions,
                 NoQuestion, Asks
  <1>28. ASSUME NEW b \in BOOLEAN, SetTools(b) PROVE Questions'
    <2>1. /\ host # "open" /\ host' = host
          /\ tools' => served' \in ticked' \cup mistaken'
      BY <1>28 DEF SetTools, WindowIsTold, doorVars
    <2> QED  BY <1>28, <2>1 DEF SetTools, doorVars, Questions, NoQuestion
  <1>29. CASE Stop
    BY <1>29 DEF Stop, tickVars, doorVars, wireVars, deskVars, TypeOK, Questions,
                 NoQuestion, Asks
  <1>30. CASE UNCHANGED vars
    BY <1>30 DEF vars, doorVars, windowVars, permVars, tickVars, wireVars, deskVars,
                 TypeOK, Questions, NoQuestion, Asks
  <1> QED
    BY <1>1, <1>2, <1>3, <1>4, <1>5, <1>6, <1>7, <1>8, <1>9, <1>10, <1>11, <1>12,
       <1>13, <1>14, <1>15, <1>16, <1>17, <1>18, <1>19, <1>20, <1>21, <1>22,
       <1>23, <1>24, <1>25, <1>26, <1>27, <1>28, <1>29, <1>30
       DEF Next, Worker, Desk, Person

-----------------------------------------------------------------------------
(* The theorems. *)

LEMMA InitInv == Init => Inv
  <1> SUFFICES ASSUME Init PROVE Inv
    OBVIOUS
  <1>1. Nothing \in Stamped
    BY DEF Stamped, Nothing, Input
  <1>2. TypeOK
    <2>1. /\ conn \in [Helper -> {"out", "knocked", "served", "away", "left"}]
          /\ perm \in [allowed : BOOLEAN, gen : Nat]
          /\ desk \in [at : {"off", "start", "top", "batch", "apply", "ended"},
                       gen : Nat, event : Stamped]
      BY <1>1 DEF Init
    <2>2. /\ knocks \in Seq(Helper) /\ notes \in Seq(Note) /\ up \in Seq(Input)
          /\ down \in Seq(Said) /\ chan \in Seq(Stamped) /\ Len(chan) <= Capacity
      BY HelpAssumption DEF Init
    <2>3. {news, tools, toolsNews, cancel, belief} \subseteq BOOLEAN
      BY DEF Init
    <2> QED  BY <2>1, <2>2, <2>3, HelpAssumption DEF Init, TypeOK, Note, Said
  <1>3. Generations /\ Line /\ Questions /\ WindowIsTold
    BY HelpAssumption DEF Init, Generations, Line, Questions, NoQuestion, WindowIsTold,
                          Asks, Says
  <1> QED  BY <1>2, <1>3 DEF Inv

\* The inductive invariant of the shared computer holds for every set of
\* helpers, every scene and every bound of the channel (run_host, serve,
\* desktop_loop, Model::poll, Model::answer).
THEOREM Invariance == Spec => []Inv
  <1>1. Inv /\ [Next]_vars => Inv'
    BY TypeStep, GenerationsStep, LineStep, QuestionsStep, WindowStep DEF Inv
  <1> QED  BY InitInv, <1>1, PTL DEF Spec

\* Every variable of the shared computer keeps its type, and the channel to
\* the desktop's thread its bound.
THEOREM TypeCorrect == Spec => []TypeOK
  <1>1. Inv => TypeOK
    BY DEF Inv
  <1> QED  BY Invariance, <1>1, PTL

\* However often control is taken back and given again, and whatever was on
\* its way then, once the desktop's thread has turned with the generation in
\* force only what was pressed under it is down (desktop_loop).
THEOREM NothingOfOldIsDown == Spec => []HeldIsCurrent
  <1>1. Inv => HeldIsCurrent
    BY DEF Inv, TypeOK, Generations, HeldIsCurrent
  <1> QED  BY Invariance, <1>1, PTL

\* While a helper is served its tools are open only if the person ticked them
\* in the question of this helper, or the answer was about another's and landed
\* on this one's (run_host, Model::answer, support_answer).
THEOREM ToolsToTheRightHelper == Spec => []ToolsAreTheirs
  <1>1. Inv => ToolsAreTheirs
    BY DEF Inv, Questions, ToolsAreTheirs
  <1> QED  BY Invariance, <1>1, PTL

=============================================================================
