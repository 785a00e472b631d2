SPECIFICATION FairSpec
CONSTANTS
  c1 = c1
  c2 = c2
  Slots = {c1, c2}
  MaxChanges = 2
  MaxPresses = 2
  MaxFaults = 1
PROPERTIES
  PageSettles
