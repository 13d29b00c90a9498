--------------------------- MODULE MCLeaseForever ---------------------------
(***************************************************************************)
(* LeaseForever on a small instance: two agents of the same rank, so that  *)
(* only the order of asking decides between them, and a person.            *)
(***************************************************************************)
EXTENDS LeaseForever, TLC

CONSTANTS agent1, agent2, human

MCParty == {agent1, agent2, human}
MCKind == (agent1 :> "Agent") @@ (agent2 :> "Agent") @@ (human :> "Human")
MCPriority == (agent1 :> 1) @@ (agent2 :> 1) @@ (human :> 2)
=============================================================================
