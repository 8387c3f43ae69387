\* Six requests on three orders that share two balances.
SPECIFICATION DetectedSpec
CONSTANTS
  b1 = b1
  b2 = b2
  l1 = l1
  l2 = l2
  l3 = l3
  s1 = s1
  s2 = s2
  sku = sku
  Txns = {1, 2, 3, 4, 5, 6}
  Kind <- MCKind
  Subject <- MCSubject
  OrderOf <- MCOrderOf
  LinesOf <- MCLinesOf
  Placed <- MCPlaced
  ShipLines <- MCShipLines
  LineOf <- MCLineOf
  BalanceOf <- MCBalanceOf
  SkuOf <- MCSkuOf
INVARIANTS
  CirclesAreKnown
PROPERTIES
  AllEnd
CHECK_DEADLOCK FALSE
