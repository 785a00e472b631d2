SPECIFICATION FairSpec
CONSTANTS
  p1 = p1
  p2 = p2
  p3 = p3
  Providers = {p1, p2, p3}
  Sellers <- MCSellers
  Price <- MCPrice
  MaxAtomic = 2
  MaxActions = 0
  Caps = {0, 1, 3}
  NoOne = NoOne
INVARIANTS
  NothingPaidIsTrue
  PaymentShownIsTheBill
PROPERTIES
  DialogLetsGo
