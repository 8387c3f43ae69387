\* Three vouchers, of which reversals take some, and one bookkeeper who edits; two
\* receipts and a payment with three items, up to six allocations and reversals;
\* five cost records; one paper of each kind, two people and one edit.
SPECIFICATION FinanceSpec
CONSTANTS
  r1 = r1  r2 = r2  p1 = p1  i1 = i1  i2 = i2  i3 = i3  None = None
  cash = cash  sales = sales  old = old  NoJournal = NoJournal
  Settlements = {r1, r2, p1}  Items = {i1, i2, i3}
  Matching <- MCMatching  Amount <- MCAmount  Original <- MCOriginal
  NA = 6  Clerks = {}  MaxEdits = 0
  Journals = {j1, j2, j3}  Periods = {q1, q2}  Accounts = {cash, sales, old}
  Usable = {cash, sales}  Entries <- MCEntries  Bookkeepers = {c1}  MaxEntryEdits = 1
  CostBalances = {b1, b2}  MaxCosts = 5  Purchases <- MCPurchases
  IssuedQty = {1, 2, 3}  Pieces = {n1}  PieceCosts = {1}  NoCost = NoCost
  Claims = {d1}  Payrolls = {d2}  Invoices = {d3}  Assets = {a1}  Value <- MCValue
  Values = {2, 4}  Depreciations = {1, 2, 3}  People = {u1, u2}  Nobody = Nobody
  NoPaper = NoPaper  MaxPaperForms = 1
SYMMETRY Vouchers
INVARIANTS LedgerIsSound CountersAreSound NeverOverpaid CostsAreExplained PapersAreBacked
PROPERTIES BooksStand
CHECK_DEADLOCK FALSE
