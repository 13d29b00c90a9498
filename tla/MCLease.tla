------------------------------ MODULE MCLease ------------------------------
(***************************************************************************)
(* Lease on a small instance: two agents, one ranked above the other by an *)
(* override, and a person above both.                                      *)
(***************************************************************************)
EXTENDS Lease, TLC

CONSTANTS agent1, agent2, human

MCParty == {agent1, agent2, human}
MCKind == (agent1 :> "Agent") @@ (agent2 :> "Agent") @@ (human :> "Human")
MCPriority == (agent1 :> 1) @@ (agent2 :> 2) @@ (human :> 3)
=============================================================================
