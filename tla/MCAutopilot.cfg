SPECIFICATION FairSpec
CONSTANTS
  p1 = p1
  p2 = p2
  Providers = {p1, p2}
  Sellers <- MCSellers
  Price <- MCPrice
  MaxAtomic = 2
  Budgets = {1}
  ConfirmChecks = 2
  Cooldown = 2
  FetchTimeout = 1
  MaxActions = 2
INVARIANTS
  OnePaymentPerOrder
  MissedSpendIsBounded
PROPERTIES
  EvidenceIsFresh
  EveryIncidentCloses
  ImplementsDesk
