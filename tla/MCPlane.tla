------------------------------ MODULE MCPlane ------------------------------
(***************************************************************************)
(* Plane on a small instance: two grants.                                  *)
(***************************************************************************)
EXTENDS Plane

CONSTANTS g, h

MCGrant == {g, h}
MCGrantOf == [i \in Intent |-> IF i = 1 THEN g ELSE h]
MCMixes == {<<"drag", "type">>, <<"click", "native">>, <<"move", "native">>}
=============================================================================
