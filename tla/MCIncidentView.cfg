SPECIFICATION ViewSpec
CONSTANTS
  p1 = p1
  p2 = p2
  Providers = {p1, p2}
  Sellers <- MCSellers
  Price <- MCPrice
  MaxAtomic = 2
  MaxActions = 2
  NoOne = NoOne
INVARIANTS
  LanesAgree
  MoneyIsTrue
