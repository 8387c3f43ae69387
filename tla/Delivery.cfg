SPECIFICATION DeliverySpec
CONSTANTS
  p1 = p1  p2 = p2  l1 = l1  l2 = l2  d1 = d1  d2 = d2  d3 = d3  t1 = t1  t2 = t2  t3 = t3  c1 = c1  c2 = c2  c3 = c3
  f1 = f1  f2 = f2  dock = dock  shelf = shelf  fit = fit  unfit = unfit  k1 = k1  k2 = k2  k3 = k3
  u1 = u1  u2 = u2  e1 = e1  e2 = e2
  Balances = {dock, shelf, fit, unfit}  OpeningStock <- MCStock  Held <- MCHeld
  Pools = {p1, p2}  Rule <- MCRule  Limit <- MCLimit  Maker = p1  SoldLines = {l1, l2}  SoldQty <- MCSoldQty
  Numbered = {l1}  Deliveries = {d1, d2, d3}  LineOf <- MCLineOf  DeliveredQty <- MCDeliveredQty
  AttemptKeys = {k1, k2, k3}  ReserveKeys = {k1, k2}  Batches = {1, 2}
  Tasks = {t1, t2, t3}  TaskType <- MCTaskType  TaskDelivery <- MCTaskDelivery
  FromAt = dock  ToAt = shelf  PutQty = 2  SkuCode = SkuCode
  ScanKeys = {k1, k2, k3}  ScanQty = {1, 2}  MaxTaskForms = 1  NoTask = NoTask
  Cases = {c1, c2, c3}  CaseLine <- MCCaseLine  Goods = {c1, c2}  RequestedQty <- MCRequestedQty
  CaseRequester <- MCRequester  Staff = {u1, u2}  AcceptAt = fit  ExceptAt = unfit
  Refunds = {f1, f2}  FirstCase <- MCFirstCase  CompanyOf <- MCCompanyOf  External = {e1, e2}
  ReturnKeys = {k1, k2}  ReturnQty = {0, 1}  MaxRefundForms = 1  NoRefund = NoRefund
  Halls <- MCHalls  Made <- MCMade
SYMMETRY Symmetry
INVARIANTS PoolsAreCounted PiecesHaveOneOwner
  TasksAreDoneOnce ReturnsAreReceived PaidOnce
CHECK_DEADLOCK FALSE
