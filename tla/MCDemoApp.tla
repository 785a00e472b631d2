------------------------------ MODULE MCDemoApp ------------------------------
(* A root and a team with a payment behind it; two ids to create.            *)
EXTENDS DemoApp

CONSTANTS root, team, n1, n2

Grown(parent, children, authority, spent, expires, services) ==
  [parent |-> parent, children |-> children, authority |-> authority, spent |-> spent,
   status |-> "active", expires |-> expires, services |-> services,
   policy |-> "pol", transaction |-> 3, daily |-> 3]

MCServices == <<"compute", "storage">>
MCPolicies == [p \in {"pol"} |-> [transaction |-> 3, daily |-> 3]]

MCSeed ==
  [a \in {root, team} |->
     IF a = root THEN Grown(NoAgent, <<team>>, 9, 0, Never, {"compute"})
     ELSE Grown(root, << >>, 5, 1, 6, {"storage"})]

MCSeedLog == <<[kind |-> "approved", agent |-> team, amount |-> 1, at |-> 0]>>
=============================================================================
