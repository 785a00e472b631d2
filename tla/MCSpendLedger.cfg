SPECIFICATION FairSpec
CONSTANTS
  Gateways = {g1, g2}
  t1 = t1
  t2 = t2
  t3 = t3
  root = root
  team = team
  Txs = {t1, t2}
  TreeTxs = {t1, t2}
  Names = {root, team}
  Path <- MCPath
  Amount <- MCAmount
  Note = Note
  PageSize = 1
  MaxPages = 2
  MaxNotes = 1
  MaxCrashes = 1
INVARIANTS
  CountedOnce
  NothingSkipped
  LedgersAgree
PROPERTIES
  EveryLedgerCatchesUp
CHECK_DEADLOCK FALSE
