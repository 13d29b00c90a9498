------------------------------- MODULE MCHelp -------------------------------
(* Two helpers at the door, of whom one or both can send commands, or one   *)
(* helper driving while the person changes their mind: twice with one kind  *)
(* of event, or once with all of them.                                      *)
EXTENDS Help

CONSTANTS a, b

\* Who is let in, and with what, when these can send commands.
Asking(able, times) ==
    [helpers |-> {a, b}, able |-> able, decisions |-> Decision, ticks |-> BOOLEAN,
     inputs |-> {}, sends |-> 0, changes |-> times]

\* Keys and changes of mind, over a channel that fills up.
Changing(inputs, times) ==
    [helpers |-> {a}, able |-> {}, decisions |-> {"control"}, ticks |-> {FALSE},
     inputs |-> inputs, sends |-> 2, changes |-> times]

MCScenes ==
    {Asking({a}, 0), Asking({a, b}, 1),
     Changing({"press"}, 2), Changing({"press", "lift", "move"}, 1)}
=============================================================================
