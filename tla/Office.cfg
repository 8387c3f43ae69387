SPECIFICATION OfficeSpec
CONSTANTS
  i1 = i1  u1 = u1  u2 = u2  u3 = u3  r1 = r1  r2 = r2  w1 = w1  w2 = w2  f1 = f1  f2 = f2  b1 = b1  b2 = b2
  s1 = s1  s2 = s2  x1 = x1  x2 = x2  l1 = l1  p1 = p1  p2 = p2  p3 = p3  p4 = p4
  Instances = {i1}  Applicant <- MCApplicant  Nodes <- MCNodes  RoleMembers <- MCMembers
  Users = {u1, u2, u3}  Deputies = {u3}  Workers = {w1, w2}  MaxRequests = 4  MaxLeaves = 1  Nobody = Nobody
  Files = {f1, f2}  Batches = {b1, b2}  ItemsOf <- MCItems  Requester <- MCRequester  Keepers = {u1, u2}
  Clerks = {w1, w2}  MaxVersions = 1  MaxEdits = 2  NoForm = NoForm
  Consignments = {s1, s2}  Boxes = {x1, x2}  TradeLines = {l1}  OrderedQty <- MCOrdered  Papers = {p1, p2, p3, p4}
  KindOf <- MCKind  Author <- MCAuthor  Signers = {u1, u2}  PackQty = {1}  MaxTradeEdits = 1  MaxMoves = 6  Nothing = Nothing
INVARIANTS ApprovalsAreComplete OnlyRejectionsCollide DisposalsAreWhole SentBoxesStand PapersStand
SYMMETRY MCSymmetry
CHECK_DEADLOCK FALSE
