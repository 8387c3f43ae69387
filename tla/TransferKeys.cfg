\* One transfer whose receipt repeats the key of its dispatch.
SPECIFICATION Spec
CONSTANTS
  b1 = b1
  b2 = b2
  t1 = t1
  t2 = t2
  t3 = t3
  c1 = c1
  c2 = c2
  k1 = k1
  k2 = k2
  NoKey = NoKey
  Balances <- MCBalances
  Transfers = {t1}
  TransferLines <- MCTransferLines
  Mismatched = {t3}
  Counts = {}
  CountLineId <- MCCountLineId
  Keys <- MCKeys
  OpeningBooks <- MCOpeningBooks
  OpeningShelf <- MCOpeningShelf
  MaxReceived = 2
  MaxMoves = 0
INVARIANTS
  GoodsAreOnce
CHECK_DEADLOCK FALSE
