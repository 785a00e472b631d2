SPECIFICATION FairSpec
CONSTANTS
  root = root
  a = a
  b = b
  pay = pay
  again = again
  other = other
  NoName = NoName
  Names = {root, a, b}
  Parent <- Line
  Order <- WalkedLine
  Existing <- TwoThere
  Grant <- TwoEach
  Amounts = {1}
  Payments = {pay, again, other}
  PaidBy <- PaidByOne
  Own = {pay, again}
  ListCap = 1
  Window = 1
  MaxChanges = 2
  MaxFaults = 1
INVARIANTS
  SpendIsNotOverstated
PROPERTIES
  StatusWasTrue
  CatchesUp
CHECK_DEADLOCK FALSE
