---------------------------- MODULE MCDashboard ----------------------------
(* A root with a line of names under it; two payments to the              *)
(* gateway that is read, and one to another.                               *)
EXTENDS Dashboard

CONSTANTS root, a, b

Line == (root :> NoName @@ a :> root @@ b :> a)

WalkedLine == <<root, a, b>>
TwoThere == {root, a}
TwoEach == [n \in Existing |-> 2]

CONSTANTS pay, again, other
PaidByOne == [p \in Payments |-> a]
=============================================================================
