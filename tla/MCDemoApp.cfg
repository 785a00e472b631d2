SPECIFICATION DemoSpec
CONSTANTS
  root = root
  team = team
  n1 = n1
  n2 = n2
  Ids = {root, team, n1, n2}
  NoAgent = NoAgent
  Never = Never
  Unset = Unset
  Seed <- MCSeed
  SeedLog <- MCSeedLog
  Policies <- MCPolicies
  Services <- MCServices
  DayStarts = {0, 4, 8}
  DayLength = 4
  Instants = {0, 4}
  MaxEvents = 2
  Budgets = {2}
  Limits = {1}
  Terms = {7}
  Month = 3
  DemoAmounts = {3}
INVARIANTS
  NothingLivesBelowRevoked
  ClaimsFit
  MetersMatchLog
  OffersAreKept
  ReadsLikeTheTree
CHECK_DEADLOCK FALSE
