------------------------------ MODULE MCViewer ------------------------------
(***************************************************************************)
(* Viewer on small instances: one person, and agents of equal rank.        *)
(***************************************************************************)
EXTENDS Viewer

MCKind == [p \in Party |-> IF p = Person THEN "Human" ELSE "Agent"]
MCPriority == [p \in Party |-> IF p = Person THEN 2 ELSE 1]

\* Two agents, one request at a time.
Calmly == [agents |-> Agents, personTypes |-> FALSE, capacity |-> 3,
           oneAtATime |-> TRUE, driverKeepsUp |-> TRUE]

\* The same, with requests that overlap.
Overlapping == [Calmly EXCEPT !.oneAtATime = FALSE]

\* A person and one agent on a channel of one slot.
Crowded(p) == [agents |-> {p}, personTypes |-> TRUE, capacity |-> 1,
               oneAtATime |-> FALSE, driverKeepsUp |-> FALSE]

MCScenes == {Calmly} \cup {Crowded(CHOOSE p \in Agents : TRUE)}
RaceScenes == {Overlapping}
=============================================================================
