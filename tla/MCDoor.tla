------------------------------- MODULE MCDoor -------------------------------
(* Two helpers that guess, that the person is asked about, or that are       *)
(* paired, at a door with one seat and one failure.                          *)
EXTENDS Door, TLC

CONSTANTS a, b

On(paired, password) == [enabled |-> TRUE, helpers |-> paired, password |-> password]

Guessing ==
    [helpers |-> {a, b}, guess |-> [h \in Helper |-> "wrong"],
     file |-> On({}, TRUE), verdicts |-> {}, changes |-> 0]

\* One of them brings a password that may be set meanwhile.
Asking ==
    [helpers |-> {a, b}, guess |-> (a :> "none" @@ b :> "right"),
     file |-> On({}, FALSE), verdicts |-> Verdict, changes |-> 1]

Changing ==
    [helpers |-> {a, b}, guess |-> [h \in Helper |-> "none"],
     file |-> On({a, b}, FALSE), verdicts |-> {"allowed"}, changes |-> 2]

MCScenes == {Guessing, Asking, Changing}
=============================================================================
