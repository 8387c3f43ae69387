\* A transfer of two lines and one that never matches, two counts, two moves of sales.
SPECIFICATION Spec
CONSTANTS
  b1 = b1
  b2 = b2
  t1 = t1
  t2 = t2
  t3 = t3
  c1 = c1
  c2 = c2
  k1 = k1
  k2 = k2
  NoKey = NoKey
  Balances <- MCBalances
  Transfers = {t1, t3}
  TransferLines <- MCTransferLines
  Mismatched = {t3}
  Counts = {c1, c2}
  CountLineId <- MCCountLineId
  Keys <- MCKeys
  OpeningBooks <- MCOpeningBooks
  OpeningShelf <- MCOpeningShelf
  MaxReceived = 2
  MaxMoves = 2
INVARIANTS
  GoodsAreBooked
PROPERTIES
  CountsAreExact
CHECK_DEADLOCK FALSE
