SPECIFICATION SupplySpec
CONSTANTS
  o1 = o1  o2 = o2  q1 = q1  q2 = q2  f1 = f1  f2 = f2
  t1 = t1  t2 = t2  t3 = t3  u1 = u1  u2 = u2  r1 = r1  r2 = r2  k1 = k1  k2 = k2
  m1 = m1  m2 = m2  good = good  bad = bad  loose1 = loose1  packed = packed  box = box
  w1 = w1  w2 = w2  w3 = w3  n1 = n1  n2 = n2  n3 = n3  g1 = g1  g2 = g2  po1 = po1  po2 = po2  s1 = s1
  x1 = x1  p1 = p1
  Balances = {m1, m2, good, bad, loose1, packed, box}  OpeningStock <- MCOpening  Held <- MCHeld
  Orders = {o1, o2}  MaxLines = 2  NR = 2  NI = 2  MaxQty = 2  Deliveries <- MCDeliveries
  GoodBalance <- MCGood  BadBalance <- MCBad
  Returns = {r1, r2}  ReturnLines <- MCReturnLines  ReturnOrder <- MCReturnOrder
  Staff = {u1, u2}  ReturnRequester <- MCReturnRequester
  Keys = {k1, k2}  NoKey = NoKey  None = None  MaxForms = 2
  Requisitions = {q1, q2}  Rfqs = {f1, f2}  Quotes = {t1, t2, t3}  Users = {u1, u2}
  Requester <- MCRequester  FirstFor <- MCFirstFor  QuotedFor <- MCQuotedFor
  Inviting = {f1, f2}  Requested <- MCRequested  Quoted <- MCQuoted
  Nobody = Nobody  MaxRfqForms = 2
  Direct = {o1, o2}  Wanted <- MCWanted
  Boms = {w1, w2, w3}  Routings = {n1, n2, n3}  Plans = {g1, g2}  Scope <- MCScope
  Window <- MCWindow  Windows <- MCWindows  InForce = {w1, n1, g1}  MaxRoutingForms = 1  NoForm = NoForm
  ProdOrders = {po1, po2}  BomOf <- MCBomOf  RoutingOf <- MCRoutingOf  Planned <- MCPlanned
  NC = 2  PerUnit <- MCPerUnit  ComponentAt <- MCComponentAt
  GoodAt = good  RejectAt = bad  ProdKeys = {k1, k2}
  IssueChoices <- MCIssues  OutputChoices <- MCOutputs  UseChoices <- MCUses
  Suggestions = {s1}  Unconverted = Unconverted
  MaxSuggestionForms = 1
  SubOrders = {x1}  Sent <- MCSent  OrderedQty <- MCOrderedQty  OrderedChoices = {1, 2}
  DoneAt = good  ScrapAt = bad  SubKeys = {k1, k2}  SubActors = {u1, u2}
  SubRequester <- MCSubRequester  MaxSubQty = 2  NoCopy = NoCopy  MaxSubForms = 1
  Packs = {p1}  PlanOf <- MCPlanOf  PackPlanned <- MCPackPlanned  Items = {1}
  ItemAt <- MCItemAt  Returnable = {1}  LooseAt = loose1  PackedAt = packed
  PackKeys = {k1, k2}  PackQty = {1, 2}  UsedChoices <- MCUsed  BackChoices <- MCBack
  Plants <- MCPlants
SYMMETRY KeySymmetry
INVARIANTS LinesAreCounted ReturnsAreCounted NeedsAreCounted
  OneInForce OutputIsCounted PacksAreCounted StockFollowsWork
CHECK_DEADLOCK FALSE
