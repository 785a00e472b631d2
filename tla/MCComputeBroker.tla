--------------------------- MODULE MCComputeBroker ---------------------------
(* Three jobs: two of one agent, so that one may extend the other, and one   *)
(* of another agent.                                                         *)
EXTENDS ComputeBroker

CONSTANTS j1, j2, j3, a1, a2

MCOwner == [j \in Jobs |-> IF j = j3 THEN a2 ELSE a1]

\* The state but for what no guard and no property reads any more: the label of
\* a container that is gone, and how its teardown went, unless it was reported in
\* vain.
Standing == {c \in Jobs : container[c] # "removed" /\ stage[c] # "failed"} \cup tracked
Misreported == Standing \cap (reported \ refused)
WhatMatters ==
  <<now, live, jobVars, container, booting, trackedVars, stopping, up, reaperVars,
    [c \in Standing |-> label[c]], Misreported, refused \cap Standing, blind, crashes>>
=============================================================================
