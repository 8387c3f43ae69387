\* The same instance; only what validate checks of pending shipments.
SPECIFICATION OSpec
CONSTANTS
  a1 = a1
  b1 = b1
  b2 = b2
  l1 = l1
  l2 = l2
  l3 = l3
  w1 = w1
  w2 = w2
  sku = sku
  k1 = k1
  k2 = k2
  NoRow = NoRow
  NoKey = NoKey
  Accounts <- MCAccounts
  AccountOf <- MCAccountOf
  Permanent <- MCPermanent
  Temporary <- MCTemporary
  Receivable <- MCReceivable
  Frozen <- MCFrozen
  Balances <- MCBalances
  Lines <- MCLines
  BalanceSku <- MCBalanceSku
  LineSku <- MCLineSku
  WarehouseOf <- MCWarehouseOf
  Ordered <- MCOrdered
  OrderOf <- MCOrderOf
  Opening <- MCOpening
  Locked <- MCLocked
  Deltas <- MCDeltas
  Requests <- MCRequests
  Keys <- MCKeys
  NO = 2
  NR = 2
  NS = 2
  NA = 1
  MaxQty = 2
  MaxAmount = 2
INVARIANT
  PendingFits
CHECK_DEADLOCK FALSE
