---------------------------- MODULE MCInputOrder ----------------------------
(* Values of InputOrder for model checking. *)
EXTENDS InputOrder

\* Motion and a press, a body that does not decode, then more motion with the
\* button down, its release and a key.
Clicks == << <<0, 0, 1>>, << >>, <<1, 0, Key>> >>
=============================================================================
