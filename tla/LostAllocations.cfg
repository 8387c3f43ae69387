\* One receipt, two receivables and one clerk who edits them.
SPECIFICATION FormSpec
CONSTANTS
  r1 = r1
  r2 = r2
  p1 = p1
  i1 = i1
  i2 = i2
  i3 = i3
  None = None
  Settlements = {r1}
  Items = {i1, i2}
  Matching <- OneReceipt
  Amount <- OneAmount
  Original <- EqualOriginals
  NA = 3
  Clerks = {c1}
  MaxEdits = 1
INVARIANTS
  NeverOverpaid
CHECK_DEADLOCK FALSE
