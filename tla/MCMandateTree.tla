---------------------------- MODULE MCMandateTree ----------------------------
(* Root and one agent.  Root has spent 1 already; everyone asks for 1.       *)
EXTENDS MandateTree

\* The script's 90 and 60 days: root outlives the clock, the agent does not.
MCTerm == [n \in Levels |-> MaxTime + 2 - n]
MCSpent == [n \in Levels |-> IF n = 1 THEN 1 ELSE 0]

Wide == [budget |-> 2, maxPerCall |-> 2, assets |-> "unset"]
Poor == [budget |-> 1, maxPerCall |-> 1, assets |-> "listed"]
Strict == [budget |-> 2, maxPerCall |-> 0, assets |-> "other"]
MCGrant == [n \in Levels |-> Wide]
MCPolicies == {Poor, Strict}
=============================================================================
