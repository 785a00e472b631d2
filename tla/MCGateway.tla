------------------------------ MODULE MCGateway ------------------------------
(* Two agents under one root, one of them inside a team; quotes cost 1, and  *)
(* so does what another provider sells under the root.                       *)
EXTENDS Gateway

CONSTANTS a1, a2, root, team

MCChain == [a \in Agents |-> IF a = a1 THEN {root, team} \cap Names ELSE {root}]
MCPrice == [q \in Quotes |-> 1]
MCBought == [x \in Others |-> 1]
MCThrough == [x \in Others |-> {root}]
MCBudget == [n \in Names |-> 1]
=============================================================================
