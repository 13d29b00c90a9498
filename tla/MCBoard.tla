------------------------------ MODULE MCBoard ------------------------------
(***************************************************************************)
(* Board on small instances: one person, and agents of equal rank.         *)
(***************************************************************************)
EXTENDS Board, TLC

MCKind == [p \in Party |-> IF p = Person THEN "Human" ELSE "Agent"]
MCPriority == [p \in Party |-> IF p = Person THEN 2 ELSE 1]
MCSymmetry == Permutations(Agents)
=============================================================================
