SPECIFICATION FairSpec
CONSTANTS
  j1 = j1
  j2 = j2
  j3 = j3
  a1 = a1
  a2 = a2
  Jobs = {j1, j2}
  Agents = {a1}
  Owner <- MCOwner
  Fresh = Fresh
  Minutes = 1
  Answers = {"done", "unsettled"}
  MaxTime = 1
  MaxCrashes = 1
VIEW WhatMatters
INVARIANTS
  ReportedIsGone
  NoStray
  FreeMinutesAreOwed
PROPERTIES
  EveryDeadlineIsKept
  RevocationStops
CHECK_DEADLOCK FALSE
