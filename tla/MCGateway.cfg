SPECIFICATION FairSpec
CONSTANTS
  Quotes = {q1, q2}
  Requests = {r1, r2}
  Agents = {a1, a2}
  a1 = a1
  a2 = a2
  x1 = x1
  root = root
  team = team
  Modes = {TRUE, FALSE}
  Names = {root}
  Chain <- MCChain
  Price <- MCPrice
  Others = {x1}
  Bought <- MCBought
  Through <- MCThrough
  Budget <- MCBudget
  MaxInFlight = 2
  NoAgent = NoAgent
  NoQuote = NoQuote
INVARIANTS
  NoUnpaidWork
  OneRunPerQuote
  OverrunIsAccountedFor
  BilledChainWasApproved
PROPERTIES
  EveryRequestEnds
  ImplementsContract
CHECK_DEADLOCK FALSE
