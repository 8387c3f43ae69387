------------------------ MODULE StockAndLocks_proofs ------------------------
(***************************************************************************)
(* Transfers and counts, for any number of documents, lines and balances   *)
(* and whatever keys the clients choose: the books follow the ledger, the  *)
(* ledger follows the documents, and goods are lost only where one key and *)
(* line id came twice (the run transfer_keys shows how that happens).      *)
(* Below them: who waits for whom among the requests that lock the rows of *)
(* orders and stock.                                                       *)
(***************************************************************************)
EXTENDS StockOperations, OrderLocking, Totals_proofs

Levels == UNION {[S -> Int] : S \in SUBSET Balances}
LineRows == [id : Nat, source : Balances, destination : Balances, quantity : Nat \ {0}]
Receipts == UNION {[S -> Nat] : S \in SUBSET LineRows}
TransferRows == [status : {"draft", "approved", "in_transit", "completed"}, version : Int,
                 dispatchKey : Keys["dispatch"] \cup {NoKey},
                 receiptKey : Keys["receive"] \cup {NoKey}, received : Receipts]
CountDocuments == [status : {"draft", "counting", "pending_approval", "posted"}, version : Int,
                   key : Keys["post"] \cup {NoKey}, book : Levels, difference : Levels]
LedgerRows == [key : Keys["dispatch"] \cup Keys["receive"] \cup Keys["post"], line : Nat,
               balance : Balances, delta : Int, document : Transfers \cup Counts]

Shape ==
  /\ onHand \in [Balances -> Nat] /\ held \in [Balances -> Nat]
  /\ shelf \in [Balances -> Nat] /\ sold \in [Balances -> Nat]
  /\ transfer \in [Transfers -> TransferRows] /\ count \in [Counts -> CountDocuments]
  /\ moved \in [Counts -> SUBSET Balances]
  /\ IsFiniteSet(ledger) /\ ledger \subseteq LedgerRows
  /\ \A t \in Completed : transfer[t].received \in [TransferLines[t] -> Nat]
  /\ \A c \in Counts : count[c].status \in {"pending_approval", "posted"} =>
       count[c].difference \in [DOMAIN count[c].book -> Int]

\* What a count has frozen stays true of the balances that did not move.
CountsHold ==
  \A c \in Counts : \A b \in DOMAIN count[c].book \ moved[c] :
    /\ count[c].status \in {"counting", "pending_approval"} => onHand[b] = count[c].book[b]
    /\ count[c].status = "pending_approval" =>
         count[c].difference[b] = shelf[b] - count[c].book[b]

OperationsInv ==
  Shape /\ LedgerTells /\ BooksFollowLedger /\ CountsHold /\ (KeysServeOnce => GoodsAreOnce)
-----------------------------------------------------------------------------
\* The books of all balances, and what was sold of them, are two totals.
LEMMA GoodsAreTwoTotals ==
  ASSUME NEW f \in [Balances -> Nat], NEW g \in [Balances -> Nat]
  PROVE  /\ SumOver([b \in Balances |-> f[b] + g[b]], Balances)
              = SumOver(f, Balances) + SumOver(g, Balances)
         /\ SumOver(f, Balances) \in Int /\ SumOver(g, Balances) \in Int
<1> DEFINE both == [b \in Balances |-> f[b] + g[b]]
<1>1. /\ IsFiniteSet(Balances)
      /\ \A b \in Balances : f[b] \in Int /\ g[b] \in Int /\ both[b] = f[b] + g[b]
  BY StockOperationsAssumption
<1> HIDE DEF both
<1>2. SumOver(both, Balances) = SumOver(f, Balances) + SumOver(g, Balances)
  BY ONLY <1>1, SumPlus
<1>3. SumOver(f, Balances) \in Int /\ SumOver(g, Balances) \in Int
  BY ONLY <1>1, SumType
<1> QED BY <1>2, <1>3 DEF both

\* The totals of the documents are integers.
LEMMA DocumentTotals ==
  ASSUME Shape
  PROVE  /\ IsFiniteSet(Sent) /\ IsFiniteSet(Completed) /\ IsFiniteSet(CountRows)
         /\ \A t \in Transfers : SumOver(Requested(t), TransferLines[t]) \in Int
         /\ \A t \in Completed : SumOver(transfer[t].received, TransferLines[t]) \in Int
         /\ Underway \in Int /\ Arrived \in Int /\ Corrections \in Int
<1>1. IsFiniteSet(Sent) /\ IsFiniteSet(Completed) /\ IsFiniteSet(CountRows)
  <2>1. Sent \in SUBSET Transfers /\ Completed \in SUBSET Transfers /\ CountRows \in SUBSET ledger
    BY DEF Sent, Completed, CountRows
  <2> QED BY <2>1, FS_Subset, StockOperationsAssumption DEF Shape
<1>2. ASSUME NEW t \in Transfers PROVE SumOver(Requested(t), TransferLines[t]) \in Int
  <2>1. IsFiniteSet(TransferLines[t]) /\ \A l \in TransferLines[t] : Requested(t)[l] \in Int
    BY StockOperationsAssumption DEF Requested
  <2> QED BY <2>1, SumType
<1>3. ASSUME NEW t \in Completed PROVE SumOver(transfer[t].received, TransferLines[t]) \in Int
  <2>1. IsFiniteSet(TransferLines[t]) /\ \A l \in TransferLines[t] : transfer[t].received[l] \in Int
    BY StockOperationsAssumption DEF Shape, Completed
  <2> QED BY <2>1, SumType
<1>4. Underway \in Int
  <2> DEFINE f == [t \in Transfers |-> SumOver(Requested(t), TransferLines[t])]
  <2>1. \A t \in Sent : f[t] \in Int
    BY <1>2 DEF Sent
  <2> HIDE DEF f
  <2>2. SumOver(f, Sent) \in Int
    BY <1>1, <2>1, SumType
  <2> QED BY <2>2 DEF f, Underway
<1>5. Arrived \in Int
  <2> DEFINE f == [t \in Completed |-> SumOver(transfer[t].received, TransferLines[t])]
  <2>1. \A t \in Completed : f[t] \in Int
    BY <1>3
  <2> HIDE DEF f
  <2>2. SumOver(f, Completed) \in Int
    BY <1>1, <2>1, SumType
  <2> QED BY <2>2 DEF f, Arrived
<1>6. Corrections \in Int
  <2> DEFINE f == [r \in CountRows |-> r.delta]
  <2>1. \A r \in CountRows : f[r] \in Int
    BY DEF Shape, CountRows, LedgerRows
  <2> HIDE DEF f
  <2>2. SumOver(f, CountRows) \in Int
    BY <1>1, <2>1, SumType
  <2> QED BY <2>2 DEF f, Corrections
<1> QED BY <1>1, <1>2, <1>3, <1>4, <1>5, <1>6

\* The ledger moves by the fresh rows of a transaction, and the books by what
\* these say.
LEMMA BookMoves ==
  ASSUME Shape, NEW rows, IsFiniteSet(rows), rows \subseteq LedgerRows, Book(rows),
         NEW fresh, fresh = Fresh(rows)
  PROVE  /\ fresh \in SUBSET rows /\ ledger' = ledger \cup fresh /\ fresh \cap ledger = {}
         /\ IsFiniteSet(fresh) /\ IsFiniteSet(ledger') /\ ledger' \subseteq LedgerRows
         /\ onHand' \in [Balances -> Nat]
         /\ \A b \in Balances : Delta(b, fresh) \in Int /\ onHand'[b] = onHand[b] + Delta(b, fresh)
         /\ \A b \in Balances : (\A r \in rows : r.balance # b) => onHand'[b] = onHand[b]
         /\ SumOver(onHand', Balances)
              = SumOver(onHand, Balances) + SumOver([r \in fresh |-> r.delta], fresh)
<1>0. fresh \in SUBSET rows /\ fresh \cap ledger = {} /\ fresh \subseteq LedgerRows
  BY DEF Fresh
<1>1. IsFiniteSet(fresh) BY <1>0, FS_Subset
<1>2. /\ \A r \in fresh : onHand[r.balance] + Delta(r.balance, fresh) >= held[r.balance]
      /\ onHand' = [b \in Balances |-> onHand[b] + Delta(b, fresh)]
      /\ ledger' = ledger \cup fresh
  BY DEF Book
<1>3. IsFiniteSet(ledger') /\ ledger' \subseteq LedgerRows
  BY <1>0, <1>1, <1>2, FS_Union DEF Shape
<1> DEFINE delta == [r \in fresh |-> r.delta]
           class == [r \in fresh |-> r.balance]
           Of(b) == {r \in fresh : r.balance = b}
<1>4. /\ IsFiniteSet(Balances) /\ \A b \in Balances : onHand[b] \in Nat /\ held[b] \in Nat
      /\ \A r \in fresh : delta[r] \in Int /\ class[r] \in Balances
  BY <1>0, StockOperationsAssumption DEF Shape, LedgerRows
<1>5. \A b \in Balances : Delta(b, fresh) = SumOver(delta, Of(b))
  BY DEF Delta
<1>6. \A b \in Balances : Of(b) \in SUBSET fresh /\ Of(b) = {r \in fresh : class[r] = b}
  OBVIOUS
<1>7. \A b \in Balances : Delta(b, fresh) \in Int /\ ((\A r \in fresh : r.balance # b) => Delta(b, fresh) = 0)
  <2> SUFFICES ASSUME NEW b \in Balances
               PROVE  Delta(b, fresh) \in Int /\ ((\A r \in fresh : r.balance # b) => Delta(b, fresh) = 0)
    OBVIOUS
  <2> DEFINE s == Of(b)
  <2>1. s \in SUBSET fresh /\ ((\A r \in fresh : r.balance # b) => s = {})
    OBVIOUS
  <2>2. Delta(b, fresh) = SumOver(delta, s)
    BY <1>5
  <2> HIDE DEF s, delta, class, Of
  <2>3. IsFiniteSet(s) /\ \A r \in s : delta[r] \in Int
    BY <1>1, <1>4, <2>1, FS_Subset
  <2>4. SumOver(delta, s) \in Int
    BY ONLY <2>3, SumType
  <2> QED BY <2>1, <2>2, <2>4, SumEmpty
<1>8. \A b \in Balances : onHand'[b] = onHand[b] + Delta(b, fresh)
  BY <1>2
<1>9. onHand' \in [Balances -> Nat]
  <2>1. ASSUME NEW b \in Balances PROVE onHand[b] + Delta(b, fresh) \in Nat
    <3>1. CASE \E r \in fresh : r.balance = b
      BY <1>2, <1>4, <1>7, <3>1
    <3>2. CASE ~ \E r \in fresh : r.balance = b
      BY <1>4, <1>7, <3>2
    <3> QED BY <3>1, <3>2
  <2> QED BY <1>2, <2>1
<1>10. SumOver(onHand', Balances) = SumOver(onHand, Balances) + SumOver(delta, fresh)
  <2> DEFINE parts == [b \in Balances |-> SumOver(delta, {r \in fresh : class[r] = b})]
  <2>1. \A b \in Balances : parts[b] = Delta(b, fresh)
    BY <1>5, <1>6
  <2>2. SumOver(parts, Balances) = SumOver(delta, fresh)
    <3>1. /\ IsFiniteSet(fresh) /\ IsFiniteSet(Balances)
          /\ \A r \in fresh : delta[r] \in Int /\ class[r] \in Balances
      BY <1>1, <1>4
    <3> HIDE DEF delta, class
    <3>2. SumOver([b \in Balances |-> SumOver(delta, {r \in fresh : class[r] = b})], Balances)
            = SumOver(delta, fresh)
      BY ONLY <3>1, SumByClass
    <3> QED BY ONLY <3>2 DEF parts
  <2> HIDE DEF parts, delta
  <2> DEFINE new == onHand'
  <2>3. /\ IsFiniteSet(Balances)
        /\ \A b \in Balances : onHand[b] \in Int /\ parts[b] \in Int /\ new[b] = onHand[b] + parts[b]
    BY <1>4, <1>7, <1>8, <2>1
  <2> HIDE DEF new
  <2>4. SumOver(new, Balances) = SumOver(onHand, Balances) + SumOver(parts, Balances)
    BY ONLY <2>3, SumPlus
  <2> QED BY <2>2, <2>4 DEF new
<1>11. \A b \in Balances : (\A r \in rows : r.balance # b) => onHand'[b] = onHand[b]
  BY <1>0, <1>4, <1>7, <1>8
<1> QED BY <1>0, <1>1, <1>2, <1>3, <1>7, <1>8, <1>9, <1>10, <1>11

\* What rows say of a balance is an integer, and adds up.
LEMMA DeltaAdds ==
  ASSUME NEW b, NEW some, NEW others, IsFiniteSet(some), IsFiniteSet(others),
         some \subseteq LedgerRows, others \subseteq LedgerRows, some \cap others = {}
  PROVE  /\ Delta(b, some) \in Int /\ Delta(b, others) \in Int
         /\ Delta(b, some \cup others) = Delta(b, some) + Delta(b, others)
<1> DEFINE Of(rows) == {r \in rows : r.balance = b}
           f == [r \in some |-> r.delta]  g == [r \in others |-> r.delta]
           h == [r \in some \cup others |-> r.delta]
           s == Of(some)  o == Of(others)
<1>1. /\ Of(some \cup others) = s \cup o /\ s \cap o = {}
      /\ s \in SUBSET some /\ o \in SUBSET others
  OBVIOUS
<1>2. /\ Delta(b, some) = SumOver(f, s) /\ Delta(b, others) = SumOver(g, o)
      /\ Delta(b, some \cup others) = SumOver(h, s \cup o)
  BY <1>1 DEF Delta
<1>3. /\ \A r \in s : f[r] \in Int /\ h[r] = f[r]
      /\ \A r \in o : g[r] \in Int /\ h[r] = g[r]
  BY DEF LedgerRows
<1> HIDE DEF f, g, h, s, o, Of
<1>4. IsFiniteSet(s) /\ IsFiniteSet(o) BY <1>1, FS_Subset
<1>5. \A r \in s \cup o : h[r] \in Int BY <1>3
<1>6. SumOver(h, s \cup o) = SumOver(h, s) + SumOver(h, o)
  BY ONLY <1>1, <1>4, <1>5, SumUnion
<1>7. SumOver(h, s) = SumOver(f, s) BY ONLY <1>3, <1>4, SumAgree
<1>8. SumOver(h, o) = SumOver(g, o) BY ONLY <1>3, <1>4, SumAgree
<1>9. SumOver(f, s) \in Int BY ONLY <1>3, <1>4, SumType
<1>10. SumOver(g, o) \in Int BY ONLY <1>3, <1>4, SumType
<1> QED BY <1>2, <1>6, <1>7, <1>8, <1>9, <1>10

\* What is asked for is a document's that was dispatched, received or posted, and
\* only a dispatch takes goods of a transfer away.
LEMMA AskedByDocuments ==
  ASSUME Shape, NEW x \in Asked
  PROVE  \/ \E t \in Sent : x.document = t /\ x.delta < 0
         \/ \E t \in Completed : x.document = t
         \/ \E c \in Posted : x.document = c
<1>1. CASE \E t \in Sent : x \in Dispatched(t)
  <2>1. PICK t \in Sent : x \in Dispatched(t) BY <1>1
  <2>2. PICK l \in TransferLines[t] : x.document = t /\ x.delta = -l.quantity BY <2>1 DEF Dispatched
  <2>3. l.quantity \in Nat \ {0} BY StockOperationsAssumption DEF Sent
  <2> QED BY <2>2, <2>3
<1>2. CASE \E t \in Completed : x \in Received(t) BY <1>2 DEF Received
<1>3. CASE \E c \in Posted : x \in Corrected(c) BY <1>3 DEF Corrected
<1> QED BY <1>1, <1>2, <1>3 DEF Asked

\* Where no document changed that had asked for rows, what is asked for stays.
LEMMA AskedStays ==
  ASSUME Sent' = Sent, Completed' = Completed, Posted' = Posted,
         \A t \in Sent \cup Completed : transfer'[t] = transfer[t],
         \A c \in Posted : count'[c] = count[c]
  PROVE  Asked' = Asked
<1>1. \A t \in Sent : Dispatched(t)' = Dispatched(t) BY DEF Dispatched
<1>2. \A t \in Completed : Received(t)' = Received(t) BY DEF Received
<1>3. \A c \in Posted : Corrected(c)' = Corrected(c) BY DEF Corrected
<1> QED BY <1>1, <1>2, <1>3 DEF Asked

\* A transaction that books what a document newly asks for: the ledger goes on
\* telling what was asked for, the books follow it, and if no key served twice
\* afterwards, none did before and every row was booked.
LEMMA AskedIsBooked ==
  ASSUME OperationsInv, NEW rows, IsFiniteSet(rows), rows \subseteq LedgerRows, Book(rows),
         sold' = sold, Asked' = Asked \cup rows, rows \cap Asked = {},
         \A r, s \in rows : SameKey(r, s) => r = s
  PROVE  /\ LedgerTells' /\ BooksFollowLedger'
         /\ IsFiniteSet(ledger') /\ ledger' \subseteq LedgerRows
         /\ onHand' \in [Balances -> Nat]
         /\ \A b \in Balances : (\A r \in rows : r.balance # b) => onHand'[b] = onHand[b]
         /\ KeysServeOnce' =>
              /\ KeysServeOnce /\ ledger' = ledger \cup rows /\ rows \cap ledger = {}
              /\ SumOver(onHand', Balances)
                   = SumOver(onHand, Balances) + SumOver([r \in rows |-> r.delta], rows)
<1> DEFINE fresh == Fresh(rows)
<1>1. /\ fresh \in SUBSET rows /\ ledger' = ledger \cup fresh /\ fresh \cap ledger = {}
      /\ IsFiniteSet(fresh) /\ IsFiniteSet(ledger') /\ ledger' \subseteq LedgerRows
      /\ onHand' \in [Balances -> Nat]
      /\ \A b \in Balances : Delta(b, fresh) \in Int /\ onHand'[b] = onHand[b] + Delta(b, fresh)
      /\ \A b \in Balances : (\A r \in rows : r.balance # b) => onHand'[b] = onHand[b]
      /\ SumOver(onHand', Balances)
           = SumOver(onHand, Balances) + SumOver([r \in fresh |-> r.delta], fresh)
  BY BookMoves DEF OperationsInv
<1>2. LedgerTells'
  <2>1. LedgerTells BY DEF OperationsInv
  <2>2. ledger' \subseteq Asked' BY <1>1, <2>1 DEF LedgerTells
  <2>3. \A x \in Asked' : \E r \in ledger' : SameKey(r, x)
    BY <1>1, <2>1 DEF LedgerTells, Fresh, SameKey
  <2>4. ASSUME NEW r \in ledger', NEW s \in ledger', SameKey(r, s) PROVE r = s
    BY <1>1, <2>1, <2>4 DEF LedgerTells, Fresh, SameKey
  <2> QED BY <2>2, <2>3, <2>4 DEF LedgerTells
<1>3. BooksFollowLedger'
  <2>1. IsFiniteSet(ledger) /\ ledger \subseteq LedgerRows /\ fresh \subseteq LedgerRows
        /\ ledger \cap fresh = {}
    BY <1>1 DEF OperationsInv, Shape
  <2> HIDE DEF fresh
  <2>2. ASSUME NEW b \in Balances PROVE onHand'[b] + sold'[b] = OpeningBooks[b] + Delta(b, ledger')
    <3>1. /\ Delta(b, ledger) \in Int /\ Delta(b, fresh) \in Int
          /\ Delta(b, ledger \cup fresh) = Delta(b, ledger) + Delta(b, fresh)
      BY <1>1, <2>1, DeltaAdds
    <3>2. onHand'[b] = onHand[b] + Delta(b, fresh) /\ Delta(b, ledger') = Delta(b, ledger \cup fresh)
      BY <1>1
    <3>3. onHand[b] + sold[b] = OpeningBooks[b] + Delta(b, ledger) BY DEF OperationsInv, BooksFollowLedger
    <3>4. onHand[b] \in Int /\ sold[b] \in Int /\ OpeningBooks[b] \in Int
      BY StockOperationsAssumption DEF OperationsInv, Shape
    <3> QED BY <3>1, <3>2, <3>3, <3>4
  <2> QED BY <2>2 DEF BooksFollowLedger
<1>4. ASSUME KeysServeOnce' PROVE KeysServeOnce /\ fresh = rows
  <2>1. KeysServeOnce BY <1>4 DEF KeysServeOnce
  <2>2. ASSUME NEW r \in rows, NEW x \in ledger PROVE ~SameKey(x, r)
    <3>1. x \in Asked BY DEF OperationsInv, LedgerTells
    <3> QED BY <1>4, <3>1 DEF KeysServeOnce
  <2> QED BY <2>1, <2>2 DEF Fresh, SameKey
<1> HIDE DEF fresh
<1> QED BY <1>1, <1>2, <1>3, <1>4

\* What a step of a transfer leaves alone: its rows are not of a count, and
\* every other transfer stays as it is.
LEMMA TransferRowsAreNotCounts ==
  ASSUME NEW rows, \A r \in rows : r.document \in Transfers, ledger' = ledger \cup rows
  PROVE  CountRows' = CountRows /\ Corrections' = Corrections
<1>1. CountRows' = CountRows
  BY StockOperationsAssumption DEF CountRows
<1> QED BY <1>1 DEF Corrections

\* Counts that go on under a step that moves the books or the goods of some
\* balances only: those that did not lose the balance hold what they froze.
LEMMA CountsHoldOn ==
  ASSUME Shape, CountsHold, NEW bs \in SUBSET Balances, Disturb(bs),
         \A c \in Counts : count'[c].status \in {"counting", "pending_approval"} => count'[c] = count[c],
         \A b \in Balances \ bs : onHand'[b] = onHand[b] /\ shelf'[b] = shelf[b]
  PROVE  CountsHold' /\ moved' \in [Counts -> SUBSET Balances]
<1>1. moved' \in [Counts -> SUBSET Balances]
  BY DEF Disturb, Shape
<1>2. ASSUME NEW c \in Counts, NEW b \in (DOMAIN count[c].book \ moved[c])',
             count'[c].status \in {"counting", "pending_approval"}
      PROVE  /\ onHand'[b] = count'[c].book[b]
             /\ count'[c].status = "pending_approval" =>
                  count'[c].difference[b] = shelf'[b] - count'[c].book[b]
  <2>1. count'[c] = count[c] /\ count[c].status \in {"counting", "pending_approval"}
    BY <1>2
  <2>2. moved'[c] = moved[c] \cup bs
    BY <1>2 DEF Disturb
  <2>3. DOMAIN count[c].book \subseteq Balances
    BY DEF Shape, CountDocuments, Levels
  <2>4. b \in DOMAIN count[c].book \ moved[c] /\ b \in Balances \ bs
    BY <1>2, <2>1, <2>2, <2>3
  <2>5. /\ onHand[b] = count[c].book[b]
        /\ count[c].status = "pending_approval" =>
             count[c].difference[b] = shelf[b] - count[c].book[b]
    BY <2>1, <2>4 DEF CountsHold
  <2> QED BY <2>1, <2>4, <2>5
<1>3. CountsHold'
  BY <1>2 DEF CountsHold
<1> QED BY <1>1, <1>3

\* Goods are once before and after a step whose totals move together.
LEMMA GoodsMoveTogether ==
  ASSUME Shape, GoodsAreOnce, NEW d \in Int, NEW e \in Int, NEW u \in Int, NEW a \in Int, NEW c \in Int,
         onHand' \in [Balances -> Nat], sold' \in [Balances -> Nat],
         SumOver(onHand', Balances) = SumOver(onHand, Balances) + d,
         SumOver(sold', Balances) = SumOver(sold, Balances) + e,
         Underway' = Underway + u, Arrived' = Arrived + a, Corrections' = Corrections + c,
         d + e + u = a + c
  PROVE  GoodsAreOnce'
<1>1. onHand \in [Balances -> Nat] /\ sold \in [Balances -> Nat]
  BY DEF Shape
<1> DEFINE h == SumOver(onHand, Balances)  s == SumOver(sold, Balances)
           hh == SumOver(onHand', Balances)  ss == SumOver(sold', Balances)
           both == SumOver([b \in Balances |-> onHand[b] + sold[b]], Balances)
           bboth == SumOver([b \in Balances |-> onHand'[b] + sold'[b]], Balances)
           o == SumOver(OpeningBooks, Balances)
<1>2. both = h + s /\ h \in Int /\ s \in Int
  BY <1>1, GoodsAreTwoTotals
<1>3. bboth = hh + ss
  <2> DEFINE f == onHand'  g == sold'
  <2>1. f \in [Balances -> Nat] /\ g \in [Balances -> Nat]
    OBVIOUS
  <2> HIDE DEF f, g
  <2>2. SumOver([b \in Balances |-> f[b] + g[b]], Balances) = SumOver(f, Balances) + SumOver(g, Balances)
    BY <2>1, GoodsAreTwoTotals
  <2> QED BY <2>2 DEF f, g
<1>4. Underway \in Int /\ Arrived \in Int /\ Corrections \in Int
  BY DocumentTotals
<1>5. both + Underway - Arrived - Corrections = o
  BY DEF GoodsAreOnce
<1>6. hh = h + d /\ ss = s + e
  OBVIOUS
<1> HIDE DEF h, s, hh, ss, both, bboth, o
<1>7. bboth + Underway' - Arrived' - Corrections' = o
  BY <1>2, <1>3, <1>4, <1>5, <1>6
<1> QED BY <1>7 DEF GoodsAreOnce, bboth, o

\* Goods that leave are on a transfer: the books of its sources go down by
\* what the transfer has under way.
LEMMA DispatchKeeps ==
  ASSUME OperationsInv, NEW t \in Transfers, NEW k \in Keys["dispatch"], Dispatch(t, k)
  PROVE  OperationsInv'
<1> DEFINE lines == TransferLines[t]
           row == [l \in lines |-> [key |-> k, line |-> l.id, balance |-> l.source,
                                    delta |-> -l.quantity, document |-> t]]
           rows == {row[l] : l \in lines}
           n == SumOver(Requested(t), lines)
<1>1. /\ IsFiniteSet(lines) /\ lines \subseteq LineRows
      /\ \A l, m \in lines : l.id = m.id => l = m
  BY StockOperationsAssumption DEF LineRows
<1>2. /\ rows \subseteq LedgerRows
      /\ \A r \in rows : r.key = k /\ r.document = t /\ \E l \in lines : r.balance = l.source
  <2>1. ASSUME NEW l \in lines
        PROVE  /\ row[l] \in LedgerRows /\ row[l].key = k /\ row[l].document = t
               /\ row[l].balance = l.source
    <3>1. l \in LineRows
      BY <1>1
    <3> QED BY <3>1 DEF LedgerRows, LineRows
  <2> HIDE DEF row
  <2> QED BY <2>1
<1>3. /\ IsFiniteSet(rows) /\ n \in Int
      /\ SumOver([r \in rows |-> r.delta], rows) = -n
  <2> DEFINE taken == [l \in lines |-> -l.quantity]
             delta == [r \in rows |-> r.delta]
  <2>1. /\ \A l \in lines : taken[l] \in Int /\ delta[row[l]] = taken[l]
        /\ \A l, m \in lines : row[l] = row[m] => l = m
        /\ \A l \in lines : Requested(t)[l] \in Int /\ taken[l] = -Requested(t)[l]
    BY <1>1 DEF Requested, LineRows
  <2> HIDE DEF taken, delta, row, lines
  <2>2. IsFiniteSet(rows) /\ SumOver(delta, rows) = SumOver(taken, lines)
    BY <1>1, <2>1, SumImage
  <2> HIDE DEF rows
  <2>3. SumOver(taken, lines) = -n /\ n \in Int
    <3> DEFINE f == Requested(t)
    <3>1. IsFiniteSet(lines) /\ \A l \in lines : f[l] \in Int /\ taken[l] = -f[l]
      BY <1>1, <2>1
    <3> HIDE DEF f
    <3>2. SumOver(taken, lines) = -SumOver(f, lines) /\ SumOver(f, lines) \in Int
      BY ONLY <3>1, SumNegated, SumType
    <3> QED BY <3>2 DEF f
  <2> QED BY <2>2, <2>3 DEF delta
<1>4. Book(rows)
  <2>1. rows = {[key |-> k, line |-> l.id, balance |-> l.source, delta |-> -l.quantity,
                 document |-> t] : l \in TransferLines[t]}
    OBVIOUS
  <2> QED BY <2>1 DEF Dispatch
<1> HIDE DEF rows, n
<1>6. /\ transfer' \in [Transfers -> TransferRows]
      /\ \A u \in Transfers \ {t} : transfer'[u] = transfer[u]
      /\ transfer[t].status = "approved" /\ transfer'[t].status = "in_transit"
      /\ transfer'[t].dispatchKey = k
  BY DEF Dispatch, OperationsInv, Shape, TransferRows
<1>7. /\ Sent' = Sent \cup {t} /\ t \notin Sent /\ Completed' = Completed /\ t \notin Completed
      /\ Completed \subseteq Sent /\ \A u \in Sent : u # t /\ u \in Transfers
  BY <1>6 DEF Sent, Completed
<1>14. rows = Dispatched(t)'
  BY <1>6 DEF Dispatched, rows
<1>15. Asked' = Asked \cup rows
  <2>1. \A u \in Sent : Dispatched(u)' = Dispatched(u)
    BY <1>6, <1>7 DEF Dispatched
  <2>2. \A u \in Completed : Received(u)' = Received(u)
    BY <1>6, <1>7 DEF Received
  <2>3. Posted' = Posted /\ \A c \in Posted : Corrected(c)' = Corrected(c)
    BY DEF Dispatch, Posted, Corrected
  <2> HIDE DEF row
  <2> QED BY <1>7, <1>14, <2>1, <2>2, <2>3 DEF Asked
<1>16. rows \cap Asked = {} /\ \A r, s \in rows : SameKey(r, s) => r = s
  <2>1. ASSUME NEW r \in rows PROVE r \notin Asked
    BY <1>2, <1>7, <2>1, AskedByDocuments, StockOperationsAssumption DEF OperationsInv, Posted
  <2>2. ASSUME NEW r \in rows, NEW s \in rows, SameKey(r, s) PROVE r = s
    <3>1. PICK l \in lines, m \in lines : r = row[l] /\ s = row[m] BY <2>2 DEF rows
    <3>2. l.id = m.id BY <2>2, <3>1 DEF SameKey
    <3> QED BY <1>1, <3>1, <3>2
  <2> QED BY <2>1, <2>2
<1>5. /\ LedgerTells' /\ BooksFollowLedger'
      /\ IsFiniteSet(ledger') /\ ledger' \subseteq LedgerRows
      /\ onHand' \in [Balances -> Nat]
      /\ \A b \in Balances : (\A r \in rows : r.balance # b) => onHand'[b] = onHand[b]
      /\ KeysServeOnce' =>
           /\ KeysServeOnce /\ ledger' = ledger \cup rows /\ rows \cap ledger = {}
           /\ SumOver(onHand', Balances)
                = SumOver(onHand, Balances) + SumOver([r \in rows |-> r.delta], rows)
  <2>1. sold' = sold BY DEF Dispatch
  <2> HIDE DEF lines, row
  <2> QED BY <1>2, <1>3, <1>4, <1>15, <1>16, <2>1, AskedIsBooked
<1>8. shelf' \in [Balances -> Nat] /\ \A b \in Balances : (\A l \in lines : l.source # b) => shelf'[b] = shelf[b]
  <2>1. ASSUME NEW b \in Balances
        PROVE  shelf'[b] \in Nat /\ ((\A l \in lines : l.source # b) => shelf'[b] = shelf[b])
    <3> DEFINE from == {l \in lines : l.source = b}
    <3>1. shelf'[b] = shelf[b] - SumOver(Requested(t), from) /\ shelf'[b] >= 0 /\ shelf[b] \in Nat
      BY DEF Dispatch, OperationsInv, Shape
    <3>2. (\A l \in lines : l.source # b) => from = {}
      OBVIOUS
    <3>3. IsFiniteSet(from) /\ \A l \in from : Requested(t)[l] \in Int
      BY <1>1, FS_Subset DEF Requested, LineRows
    <3> HIDE DEF from
    <3>4. SumOver(Requested(t), from) \in Int
      BY <3>3, SumType
    <3> DEFINE f == Requested(t)
    <3> HIDE DEF f
    <3>5. from = {} => SumOver(f, from) = 0
      BY SumEmpty
    <3>6. shelf'[b] \in Nat /\ (from = {} => shelf'[b] = shelf[b])
      BY <3>1, <3>4, <3>5 DEF f
    <3> QED BY <3>2, <3>6
  <2>2. shelf' = [b \in Balances |-> shelf'[b]]
    BY DEF Dispatch
  <2> QED BY <2>1, <2>2
<1>10. CountsHold' /\ moved' \in [Counts -> SUBSET Balances]
  <2> DEFINE bs == {l.source : l \in lines}
  <2>1. bs \in SUBSET Balances
    BY <1>1 DEF LineRows
  <2>2. Disturb(bs) /\ count' = count
    BY DEF Dispatch
  <2>3. \A b \in Balances \ bs : onHand'[b] = onHand[b] /\ shelf'[b] = shelf[b]
    <3>1. \A r \in rows : r.balance \in bs
      BY <1>2
    <3> QED BY <1>5, <1>8, <3>1
  <2> HIDE DEF bs
  <2> QED BY <2>1, <2>2, <2>3, CountsHoldOn DEF OperationsInv
<1>11. Shape'
  <2>1. \A u \in Completed' : transfer'[u].received \in [TransferLines[u] -> Nat]
    BY <1>6, <1>7 DEF OperationsInv, Shape
  <2> QED BY <1>5, <1>6, <1>8, <1>10, <2>1 DEF Dispatch, OperationsInv, Shape
<1>12. ASSUME KeysServeOnce' PROVE GoodsAreOnce'
  <2> DEFINE none == 0  less == -n
  <2>0. /\ GoodsAreOnce /\ ledger' = ledger \cup rows
        /\ SumOver(onHand', Balances) = SumOver(onHand, Balances) + less
    BY <1>3, <1>5, <1>12 DEF OperationsInv
  <2>1. Underway' = Underway + n
    <3> DEFINE f == [u \in Transfers |-> SumOver(Requested(u), TransferLines[u])]
    <3>1. Underway = SumOver(f, Sent) /\ Underway' = SumOver(f, Sent \cup {t})
      BY <1>7 DEF Underway, Requested
    <3>2. f[t] = n
      BY DEF n
    <3>3. IsFiniteSet(Sent) /\ t \notin Sent /\ \A u \in Sent \cup {t} : f[u] \in Int
      BY <1>7, DocumentTotals DEF OperationsInv
    <3> HIDE DEF f
    <3>4. SumOver(f, Sent \cup {t}) = SumOver(f, Sent) + f[t]
      BY ONLY <3>3, SumAdd
    <3> QED BY <3>1, <3>2, <3>4
  <2>2. Arrived' = Arrived + none
    <3>1. [u \in Completed |-> SumOver(transfer'[u].received, TransferLines[u])]
            = [u \in Completed |-> SumOver(transfer[u].received, TransferLines[u])]
      BY <1>6, <1>7
    <3>2. Arrived' = Arrived
      BY <1>7, <3>1 DEF Arrived
    <3> QED BY <3>2, DocumentTotals DEF OperationsInv
  <2>3. Corrections' = Corrections + none
    <3>1. \A r \in rows : r.document \in Transfers
      BY <1>2
    <3>2. Corrections' = Corrections
      BY <2>0, <3>1, TransferRowsAreNotCounts
    <3> QED BY <3>2, DocumentTotals DEF OperationsInv
  <2>4. SumOver(sold', Balances) = SumOver(sold, Balances) + none /\ sold' \in [Balances -> Nat]
    <3>1. sold' = sold /\ sold \in [Balances -> Nat]
      BY DEF Dispatch, OperationsInv, Shape
    <3>2. SumOver(sold, Balances) \in Int
      BY <3>1, GoodsAreTwoTotals
    <3> QED BY <3>1, <3>2
  <2>5. less \in Int /\ none \in Int /\ less + none + n = none + none
    BY <1>3
  <2>6. Shape /\ n \in Int /\ onHand' \in [Balances -> Nat]
    BY <1>3, <1>5, <2>5 DEF OperationsInv
  <2> HIDE DEF none, less, n
  <2> QED BY ONLY <2>0, <2>1, <2>2, <2>3, <2>4, <2>5, <2>6, GoodsMoveTogether
<1> QED BY <1>5, <1>10, <1>11, <1>12 DEF OperationsInv

\* Goods that come are on the books of the destinations and no longer under way.
LEMMA ReceiveKeeps ==
  ASSUME OperationsInv, NEW t \in Transfers, NEW k \in Keys["receive"],
         NEW q \in [TransferLines[t] -> 0..MaxReceived], Receive(t, k, q)
  PROVE  OperationsInv'
<1> DEFINE lines == TransferLines[t]
           some == {m \in lines : q[m] > 0}
           row == [l \in some |-> [key |-> k, line |-> l.id, balance |-> l.destination,
                                   delta |-> q[l], document |-> t]]
           rows == {row[l] : l \in some}
           n == SumOver(q, lines)
<1>1. /\ IsFiniteSet(lines) /\ lines \subseteq LineRows
      /\ \A l, m \in lines : l.id = m.id => l = m
      /\ \A l \in lines : q[l] \in Nat
  BY StockOperationsAssumption DEF LineRows
<1>0. some \in SUBSET lines /\ IsFiniteSet(some)
  <2>1. some \in SUBSET lines
    OBVIOUS
  <2> HIDE DEF some
  <2> QED BY <1>1, <2>1, FS_Subset
<1>2. /\ rows \subseteq LedgerRows
      /\ \A r \in rows : r.key = k /\ r.document = t /\ \E l \in some : r.balance = l.destination
  <2>1. ASSUME NEW l \in some
        PROVE  /\ row[l] \in LedgerRows /\ row[l].key = k /\ row[l].document = t
               /\ row[l].balance = l.destination
    <3>1. l \in LineRows /\ q[l] \in Int
      BY <1>1
    <3> QED BY <3>1 DEF LedgerRows, LineRows
  <2> HIDE DEF row
  <2> QED BY <2>1
<1>3. /\ IsFiniteSet(rows) /\ n \in Int
      /\ SumOver([r \in rows |-> r.delta], rows) = n
  <2> DEFINE delta == [r \in rows |-> r.delta]
  <2>1. /\ \A l \in some : q[l] \in Int /\ delta[row[l]] = q[l]
        /\ \A l, m \in some : row[l] = row[m] => l = m
    <3>1. \A l \in some : row[l].delta = q[l] /\ row[l].line = l.id /\ l \in lines /\ q[l] \in Int
      BY <1>1
    <3> HIDE DEF row
    <3>2. \A l \in some : delta[row[l]] = row[l].delta
      OBVIOUS
    <3> HIDE DEF rows, delta, some
    <3> QED BY <1>1, <3>1, <3>2
  <2>2. \A l \in lines \ some : q[l] = 0
    BY <1>1
  <2> HIDE DEF delta, row, some
  <2>3. IsFiniteSet(rows) /\ SumOver(delta, rows) = SumOver(q, some)
    BY <1>0, <2>1, SumImage
  <2> HIDE DEF rows, lines
  <2>4. IsFiniteSet(lines) /\ \A l \in lines : q[l] \in Int
    BY <1>1
  <2>5. SumOver(q, lines) \in Int /\ SumOver(q, lines) = SumOver(q, some)
    BY <1>0, <2>2, <2>4, SumType, SumSupport
  <2> QED BY <2>3, <2>5 DEF delta
<1>4. Book(rows)
  <2>1. rows = {[key |-> k, line |-> l.id, balance |-> l.destination, delta |-> q[l],
                 document |-> t] : l \in {m \in TransferLines[t] : q[m] > 0}}
    OBVIOUS
  <2> QED BY <2>1 DEF Receive, Arriving
<1> HIDE DEF rows, n
<1>6. /\ transfer' \in [Transfers -> TransferRows]
      /\ \A u \in Transfers \ {t} : transfer'[u] = transfer[u]
      /\ transfer[t].status = "in_transit" /\ transfer'[t].status = "completed"
      /\ transfer'[t].dispatchKey = transfer[t].dispatchKey
      /\ transfer'[t].receiptKey = k /\ transfer'[t].received = q
  <2>1. q \in Receipts
    BY <1>1 DEF Receipts
  <2> HIDE DEF lines, some, row
  <2> QED BY <2>1 DEF Receive, OperationsInv, Shape, TransferRows
<1>7. /\ Sent' = Sent /\ t \in Sent /\ Completed' = Completed \cup {t} /\ t \notin Completed
      /\ \A u \in Sent : u \in Transfers
  BY <1>6 DEF Sent, Completed
<1>14. rows = Received(t)'
  BY <1>6 DEF Received, rows
<1>15. Asked' = Asked \cup rows
  <2>1. \A u \in Sent : Dispatched(u)' = Dispatched(u)
    BY <1>6, <1>7 DEF Dispatched
  <2>2. \A u \in Completed : Received(u)' = Received(u)
    BY <1>6, <1>7 DEF Received, Completed
  <2>3. Posted' = Posted /\ \A c \in Posted : Corrected(c)' = Corrected(c)
    BY DEF Receive, Posted, Corrected
  <2> HIDE DEF row
  <2> QED BY <1>7, <1>14, <2>1, <2>2, <2>3 DEF Asked
<1>16. rows \cap Asked = {} /\ \A r, s \in rows : SameKey(r, s) => r = s
  <2>1. ASSUME NEW r \in rows PROVE r \notin Asked
    <3>1. r.document = t /\ r.delta \in Int /\ r.delta >= 0
      <4>1. PICK l \in some : r = row[l] BY <2>1 DEF rows
      <4>2. row[l].document = t /\ row[l].delta = q[l] /\ q[l] \in Nat BY <1>1
      <4> HIDE DEF row
      <4> QED BY <4>1, <4>2
    <3>2. Shape /\ t \notin Completed /\ t \notin Posted
      BY <1>7, StockOperationsAssumption DEF OperationsInv, Posted
    <3> HIDE DEF rows
    <3> QED BY ONLY <3>1, <3>2, AskedByDocuments
  <2>2. ASSUME NEW r \in rows, NEW s \in rows, SameKey(r, s) PROVE r = s
    <3>1. PICK l \in some, m \in some : r = row[l] /\ s = row[m] BY <2>2 DEF rows
    <3>2. l.id = m.id BY <2>2, <3>1 DEF SameKey
    <3> QED BY <1>1, <3>1, <3>2
  <2> QED BY <2>1, <2>2
<1>5. /\ LedgerTells' /\ BooksFollowLedger'
      /\ IsFiniteSet(ledger') /\ ledger' \subseteq LedgerRows
      /\ onHand' \in [Balances -> Nat]
      /\ \A b \in Balances : (\A r \in rows : r.balance # b) => onHand'[b] = onHand[b]
      /\ KeysServeOnce' =>
           /\ KeysServeOnce /\ ledger' = ledger \cup rows /\ rows \cap ledger = {}
           /\ SumOver(onHand', Balances)
                = SumOver(onHand, Balances) + SumOver([r \in rows |-> r.delta], rows)
  <2>1. sold' = sold BY DEF Receive
  <2> HIDE DEF lines, some, row
  <2> QED BY <1>2, <1>3, <1>4, <1>15, <1>16, <2>1, AskedIsBooked
<1>8. shelf' \in [Balances -> Nat] /\ \A b \in Balances : (\A l \in some : l.destination # b) => shelf'[b] = shelf[b]
  <2>1. ASSUME NEW b \in Balances
        PROVE  shelf'[b] \in Nat /\ ((\A l \in some : l.destination # b) => shelf'[b] = shelf[b])
    <3> DEFINE to == {l \in lines : l.destination = b}
    <3>1. shelf'[b] = shelf[b] + SumOver(q, to) /\ shelf[b] \in Nat
      BY DEF Receive, OperationsInv, Shape
    <3>2. to \in SUBSET lines /\ ((\A l \in some : l.destination # b) => \A l \in to : q[l] = 0)
      BY <1>1
    <3> HIDE DEF to, some, lines
    <3>3. IsFiniteSet(to) /\ \A l \in to : q[l] \in Int /\ q[l] >= 0
      BY <1>1, <3>2, FS_Subset
    <3>4. SumOver(q, to) \in Int /\ SumOver(q, to) >= 0
      BY ONLY <3>3, SumType, SumMonotone
    <3>5. (\A l \in to : q[l] = 0) => SumOver(q, to) = 0
      BY <3>3, SumZero
    <3> QED BY <3>1, <3>2, <3>4, <3>5 DEF some
  <2>2. shelf' = [b \in Balances |-> shelf'[b]]
    BY DEF Receive
  <2> QED BY <2>1, <2>2
<1>10. CountsHold' /\ moved' \in [Counts -> SUBSET Balances]
  <2> DEFINE bs == {l.destination : l \in some}
  <2>1. bs \in SUBSET Balances
    BY <1>1 DEF LineRows
  <2>2. Disturb(bs) /\ count' = count
    BY DEF Receive
  <2>3. \A b \in Balances \ bs : onHand'[b] = onHand[b] /\ shelf'[b] = shelf[b]
    <3>1. \A r \in rows : r.balance \in bs
      BY <1>2
    <3> QED BY <1>5, <1>8, <3>1
  <2> HIDE DEF bs
  <2> QED BY <2>1, <2>2, <2>3, CountsHoldOn DEF OperationsInv
<1>11. Shape'
  <2>1. \A u \in Completed' : transfer'[u].received \in [TransferLines[u] -> Nat]
    <3>1. q \in [TransferLines[t] -> Nat]
      BY <1>1
    <3>2. \A u \in Completed : transfer'[u] = transfer[u]
      BY <1>6, <1>7 DEF Completed
    <3> QED BY <1>6, <1>7, <3>1, <3>2 DEF OperationsInv, Shape
  <2> QED BY <1>5, <1>6, <1>8, <1>10, <2>1 DEF Receive, OperationsInv, Shape
<1>12. ASSUME KeysServeOnce' PROVE GoodsAreOnce'
  <2> DEFINE none == 0
  <2>0. /\ GoodsAreOnce /\ ledger' = ledger \cup rows
        /\ SumOver(onHand', Balances) = SumOver(onHand, Balances) + n
    BY <1>3, <1>5, <1>12 DEF OperationsInv
  <2>1. Underway' = Underway + none
    <3>1. Underway' = Underway
      BY <1>7 DEF Underway, Requested
    <3> QED BY <3>1, DocumentTotals DEF OperationsInv
  <2>2. Arrived' = Arrived + n
    <3> DEFINE f == [u \in Completed |-> SumOver(transfer[u].received, TransferLines[u])]
               g == [u \in Completed \cup {t} |-> SumOver(transfer'[u].received, TransferLines[u])]
    <3>1. Arrived = SumOver(f, Completed) /\ Arrived' = SumOver(g, Completed \cup {t})
      BY <1>7 DEF Arrived
    <3>2. g[t] = n
      BY <1>6 DEF n
    <3>3. \A u \in Completed : f[u] \in Int /\ g[u] = f[u]
      BY <1>6, <1>7, DocumentTotals DEF OperationsInv, Completed
    <3>4. IsFiniteSet(Completed) /\ t \notin Completed /\ \A u \in Completed \cup {t} : g[u] \in Int
      BY <1>3, <1>7, <3>2, <3>3, DocumentTotals DEF OperationsInv
    <3> HIDE DEF f, g
    <3>5. SumOver(g, Completed \cup {t}) = SumOver(g, Completed) + g[t]
      BY ONLY <3>4, SumAdd
    <3>6. SumOver(g, Completed) = SumOver(f, Completed)
      BY ONLY <3>3, <3>4, SumAgree
    <3> QED BY <3>1, <3>2, <3>5, <3>6
  <2>3. Corrections' = Corrections + none
    <3>1. \A r \in rows : r.document \in Transfers
      BY <1>2
    <3>2. Corrections' = Corrections
      BY <2>0, <3>1, TransferRowsAreNotCounts
    <3> QED BY <3>2, DocumentTotals DEF OperationsInv
  <2>4. SumOver(sold', Balances) = SumOver(sold, Balances) + none /\ sold' \in [Balances -> Nat]
    <3>1. sold' = sold /\ sold \in [Balances -> Nat]
      BY DEF Receive, OperationsInv, Shape
    <3>2. SumOver(sold, Balances) \in Int
      BY <3>1, GoodsAreTwoTotals
    <3> QED BY <3>1, <3>2
  <2>5. n + none + none = n + none /\ none \in Int
    BY <1>3
  <2>6. Shape /\ n \in Int /\ onHand' \in [Balances -> Nat]
    BY <1>3, <1>5 DEF OperationsInv
  <2> HIDE DEF none, n
  <2> QED BY ONLY <2>0, <2>1, <2>2, <2>3, <2>4, <2>5, <2>6, GoodsMoveTogether
<1> QED BY <1>5, <1>10, <1>11, <1>12 DEF OperationsInv

\* Posting a count books every difference and, where nothing moved, makes the
\* books what was found.
LEMMA PostKeeps ==
  ASSUME OperationsInv, NEW c \in Counts, NEW k \in Keys["post"], Post(c, k)
  PROVE  /\ OperationsInv'
         /\ SetsRight(c)
<1> DEFINE difference == count[c].difference
           wrong == {b \in DOMAIN difference : difference[b] # 0}
           row == [b \in wrong |-> [key |-> k, line |-> CountLineId[c][b], balance |-> b,
                                    delta |-> difference[b], document |-> c]]
           rows == {row[b] : b \in wrong}
           n == SumOver(difference, wrong)
<1>1. /\ count[c].status = "pending_approval" /\ DOMAIN difference = DOMAIN count[c].book
      /\ DOMAIN difference \subseteq Balances /\ \A b \in DOMAIN difference : difference[b] \in Int
  BY DEF Post, OperationsInv, Shape, CountDocuments, Levels
<1> HIDE DEF difference
<1>0. wrong \in SUBSET Balances /\ IsFiniteSet(wrong)
  <2>1. wrong \in SUBSET Balances
    BY <1>1
  <2> HIDE DEF wrong
  <2> QED BY <2>1, FS_Subset, StockOperationsAssumption
<1>2. /\ rows \subseteq LedgerRows
      /\ \A r \in rows : r.key = k /\ r.document = c /\ r.balance \in wrong
      /\ \A b \in wrong : row[b].balance = b /\ row[b].delta = difference[b] /\ row[b] \in rows
      /\ \A r \in rows : r = row[r.balance]
  <2>1. ASSUME NEW b \in wrong
        PROVE  /\ row[b] \in LedgerRows /\ row[b].key = k /\ row[b].document = c
               /\ row[b].balance = b /\ row[b].delta = difference[b]
    <3>1. CountLineId[c][b] \in Nat /\ b \in Balances /\ difference[b] \in Int
      BY <1>0, <1>1, StockOperationsAssumption
    <3> HIDE DEF wrong
    <3> QED BY <3>1 DEF LedgerRows
  <2> HIDE DEF row, wrong
  <2> QED BY <2>1
<1>3. /\ IsFiniteSet(rows) /\ n \in Int
      /\ SumOver([r \in rows |-> r.delta], rows) = n
  <2> DEFINE delta == [r \in rows |-> r.delta]
  <2>1. \A b \in wrong : difference[b] \in Int /\ delta[row[b]] = difference[b]
    <3>1. \A b \in wrong : difference[b] \in Int
      BY <1>1
    <3> HIDE DEF row, rows, wrong
    <3>2. \A b \in wrong : delta[row[b]] = row[b].delta
      BY <1>2
    <3> QED BY <1>2, <3>1, <3>2
  <2>2. \A a, b \in wrong : row[a] = row[b] => a = b
    BY <1>2
  <2> HIDE DEF delta, row, wrong
  <2>3. IsFiniteSet(rows) /\ SumOver(delta, rows) = SumOver(difference, wrong)
    BY <1>0, <2>1, <2>2, SumImage
  <2>4. SumOver(difference, wrong) \in Int
    BY <1>0, <2>1, SumType
  <2> QED BY <2>3, <2>4 DEF delta
<1>4. Book(rows)
  <2>1. rows = {[key |-> k, line |-> CountLineId[c][b], balance |-> b, delta |-> count[c].difference[b],
                 document |-> c] : b \in {a \in DOMAIN count[c].difference : count[c].difference[a] # 0}}
    BY DEF difference
  <2> QED BY <2>1 DEF Post
<1> HIDE DEF rows, row, n
<1>6. /\ count' \in [Counts -> CountDocuments]
      /\ \A d \in Counts \ {c} : count'[d] = count[d]
      /\ count'[c].status = "posted" /\ count'[c].key = k
      /\ count'[c].book = count[c].book /\ count'[c].difference = difference
  BY DEF Post, OperationsInv, Shape, CountDocuments, difference
<1>10. transfer' = transfer /\ Sent' = Sent /\ Completed' = Completed
  BY DEF Post, Sent, Completed
<1>15. rows = Corrected(c)' /\ Posted' = Posted \cup {c} /\ c \notin Posted
  <2>1. rows = Corrected(c)'
    BY <1>6 DEF Corrected, rows, row
  <2>2. Posted' = Posted \cup {c} /\ c \notin Posted
    BY <1>1, <1>6 DEF Posted
  <2> QED BY <2>1, <2>2
<1>16. Asked' = Asked \cup rows
  <2>1. \A u \in Sent : Dispatched(u)' = Dispatched(u)
    BY <1>10 DEF Dispatched
  <2>2. \A u \in Completed : Received(u)' = Received(u)
    BY <1>10 DEF Received
  <2>3. \A d \in Posted : Corrected(d)' = Corrected(d)
    BY <1>6, <1>15 DEF Corrected, Posted
  <2> HIDE DEF wrong
  <2> QED BY <1>10, <1>15, <2>1, <2>2, <2>3 DEF Asked
<1>17. rows \cap Asked = {} /\ \A r, s \in rows : SameKey(r, s) => r = s
  <2>1. ASSUME NEW r \in rows PROVE r \notin Asked
    BY <1>2, <1>15, <2>1, AskedByDocuments, StockOperationsAssumption
       DEF OperationsInv, Sent, Completed
  <2>2. ASSUME NEW r \in rows, NEW s \in rows, SameKey(r, s) PROVE r = s
    <3>1. \A b \in wrong : row[b].line = CountLineId[c][b]
      BY DEF row
    <3>2. r = row[r.balance] /\ s = row[s.balance] /\ r.balance \in wrong /\ s.balance \in wrong
      BY <1>2, <2>2
    <3>3. CountLineId[c][r.balance] = CountLineId[c][s.balance]
      BY <2>2, <3>1, <3>2 DEF SameKey
    <3>4. r.balance = s.balance
      BY <1>0, <3>2, <3>3, StockOperationsAssumption
    <3> QED BY <3>2, <3>4
  <2> QED BY <2>1, <2>2
<1>5. /\ LedgerTells' /\ BooksFollowLedger'
      /\ IsFiniteSet(ledger') /\ ledger' \subseteq LedgerRows
      /\ onHand' \in [Balances -> Nat]
      /\ \A b \in Balances : (\A r \in rows : r.balance # b) => onHand'[b] = onHand[b]
      /\ KeysServeOnce' =>
           /\ KeysServeOnce /\ ledger' = ledger \cup rows /\ rows \cap ledger = {}
           /\ SumOver(onHand', Balances)
                = SumOver(onHand, Balances) + SumOver([r \in rows |-> r.delta], rows)
  <2>1. sold' = sold BY DEF Post
  <2> HIDE DEF wrong
  <2> QED BY <1>2, <1>3, <1>4, <1>16, <1>17, <2>1, AskedIsBooked
<1>8. \A b \in Balances \ wrong : onHand'[b] = onHand[b]
  BY <1>2, <1>5
<1>9. CountsHold' /\ moved' \in [Counts -> SUBSET Balances]
  <2>1. Disturb(wrong) /\ shelf' = shelf
    BY DEF Post, difference
  <2>2. \A d \in Counts : count'[d].status \in {"counting", "pending_approval"} => count'[d] = count[d]
    BY <1>6
  <2> HIDE DEF wrong
  <2> QED BY <1>0, <1>8, <2>1, <2>2, CountsHoldOn DEF OperationsInv
<1>11. Shape'
  <2>1. \A d \in Counts : count'[d].status \in {"pending_approval", "posted"} =>
          count'[d].difference \in [DOMAIN count'[d].book -> Int]
    BY <1>1, <1>6 DEF OperationsInv, Shape, difference
  <2> HIDE DEF wrong
  <2> QED BY <1>5, <1>6, <1>9, <1>10, <2>1 DEF Post, OperationsInv, Shape
<1>12. ASSUME KeysServeOnce' PROVE GoodsAreOnce'
  <2> DEFINE none == 0
  <2>0. /\ GoodsAreOnce /\ ledger' = ledger \cup rows /\ rows \cap ledger = {}
        /\ SumOver(onHand', Balances) = SumOver(onHand, Balances) + n
    BY <1>3, <1>5, <1>12 DEF OperationsInv
  <2>1. Underway' = Underway + none /\ Arrived' = Arrived + none
    <3>1. Underway' = Underway /\ Arrived' = Arrived
      BY <1>10 DEF Underway, Arrived, Requested
    <3> QED BY <3>1, DocumentTotals DEF OperationsInv
  <2>2. Corrections' = Corrections + n
    <3> DEFINE f == [r \in CountRows |-> r.delta]
               g == [r \in CountRows \cup rows |-> r.delta]
               h == [r \in rows |-> r.delta]
    <3>1. CountRows' = CountRows \cup rows /\ CountRows \cap rows = {}
      BY <1>2, <2>0 DEF CountRows
    <3>2. Corrections = SumOver(f, CountRows) /\ Corrections' = SumOver(g, CountRows \cup rows)
      BY <3>1 DEF Corrections
    <3>3. /\ \A r \in CountRows : f[r] \in Int /\ g[r] = f[r]
          /\ \A r \in rows : h[r] \in Int /\ g[r] = h[r]
      BY <1>2 DEF CountRows, LedgerRows, OperationsInv, Shape
    <3>4. IsFiniteSet(CountRows) /\ IsFiniteSet(rows) /\ \A r \in CountRows \cup rows : g[r] \in Int
      BY <1>3, <3>3, DocumentTotals DEF OperationsInv
    <3>5. SumOver(h, rows) = n
      BY <1>3
    <3> HIDE DEF f, g, h
    <3>6. SumOver(g, CountRows \cup rows) = SumOver(g, CountRows) + SumOver(g, rows)
      BY ONLY <3>1, <3>4, SumUnion
    <3>7. SumOver(g, CountRows) = SumOver(f, CountRows)
      BY ONLY <3>3, <3>4, SumAgree
    <3>8. SumOver(g, rows) = SumOver(h, rows)
      BY ONLY <3>3, <3>4, SumAgree
    <3> QED BY <3>2, <3>5, <3>6, <3>7, <3>8
  <2>3. SumOver(sold', Balances) = SumOver(sold, Balances) + none /\ sold' \in [Balances -> Nat]
    <3>1. sold' = sold /\ sold \in [Balances -> Nat]
      BY DEF Post, OperationsInv, Shape
    <3>2. SumOver(sold, Balances) \in Int
      BY <3>1, GoodsAreTwoTotals
    <3> QED BY <3>1, <3>2
  <2>4. n + none + none = none + n /\ none \in Int
    BY <1>3
  <2> HIDE DEF wrong
  <2>5. Shape /\ n \in Int /\ onHand' \in [Balances -> Nat]
    BY <1>3, <1>5 DEF OperationsInv
  <2> HIDE DEF none, n
  <2> QED BY ONLY <2>0, <2>1, <2>2, <2>3, <2>4, <2>5, GoodsMoveTogether
<1>14. ASSUME NEW b \in DOMAIN count[c].book \ moved[c],
              \A r \in ledger : r.key # k \/ r.line # CountLineId[c][b]
       PROVE  onHand'[b] = shelf[b]
  <2>1. /\ b \in Balances /\ b \in DOMAIN difference /\ onHand[b] = count[c].book[b]
        /\ difference[b] = shelf[b] - count[c].book[b]
        /\ onHand[b] \in Int /\ shelf[b] \in Int
    BY <1>1 DEF OperationsInv, CountsHold, Shape, difference
  <2>2. CASE b \in wrong
    <3> DEFINE fresh == Fresh(rows)  delta == [r \in fresh |-> r.delta]
    <3>1. row[b] \in fresh
      <4>1. row[b].key = k /\ row[b].line = CountLineId[c][b] /\ row[b] \in rows
        BY <1>2, <2>2 DEF row
      <4> QED BY <1>14, <4>1 DEF Fresh
    <3>2. fresh \in SUBSET rows /\ onHand'[b] = onHand[b] + Delta(b, fresh)
      <4>1. Shape /\ IsFiniteSet(rows) /\ rows \subseteq LedgerRows /\ Book(rows) /\ fresh = Fresh(rows)
        BY <1>2, <1>3, <1>4 DEF OperationsInv
      <4> HIDE DEF fresh, wrong
      <4>2. /\ fresh \in SUBSET rows /\ ledger' = ledger \cup fresh /\ fresh \cap ledger = {}
            /\ IsFiniteSet(fresh) /\ IsFiniteSet(ledger') /\ ledger' \subseteq LedgerRows
            /\ onHand' \in [Balances -> Nat]
            /\ \A a \in Balances : Delta(a, fresh) \in Int /\ onHand'[a] = onHand[a] + Delta(a, fresh)
            /\ \A a \in Balances : (\A r \in rows : r.balance # a) => onHand'[a] = onHand[a]
            /\ SumOver(onHand', Balances)
                 = SumOver(onHand, Balances) + SumOver([r \in fresh |-> r.delta], fresh)
        BY ONLY <4>1, BookMoves
      <4> QED BY <2>1, <4>2
    <3> HIDE DEF fresh
    <3>3. {r \in fresh : r.balance = b} = {row[b]}
      BY <1>2, <2>2, <3>1, <3>2
    <3>4. delta[row[b]] = difference[b] /\ difference[b] \in Int
      BY <1>1, <1>2, <2>1, <2>2, <3>1
    <3> HIDE DEF delta
    <3>5. SumOver(delta, {row[b]}) = difference[b]
      BY <3>4, SumOne
    <3>6. Delta(b, fresh) = difference[b]
      BY <3>3, <3>5 DEF Delta, delta
    <3> QED BY <2>1, <3>2, <3>6
  <2>3. CASE b \notin wrong
    BY <1>8, <2>1, <2>3
  <2> QED BY <2>2, <2>3
<1>18. SetsRight(c) BY <1>6, <1>14 DEF SetsRight
<1> HIDE DEF wrong
<1> QED BY <1>5, <1>9, <1>11, <1>12, <1>18 DEF OperationsInv

\* A step that books nothing and sends, receives and sells nothing.
LEMMA NothingMoves ==
  ASSUME Shape, GoodsAreOnce, onHand' = onHand, sold' = sold, ledger' = ledger, Sent' = Sent,
         Completed' = Completed, \A t \in Completed : transfer'[t].received = transfer[t].received
  PROVE  GoodsAreOnce'
<1>1. Underway' = Underway /\ Corrections' = Corrections
  BY DEF Underway, Corrections, CountRows, Requested
<1>2. [t \in Completed |-> SumOver(transfer'[t].received, TransferLines[t])]
        = [t \in Completed |-> SumOver(transfer[t].received, TransferLines[t])]
  OBVIOUS
<1>3. Arrived' = Arrived
  BY <1>2 DEF Arrived
<1> QED BY <1>1, <1>3 DEF GoodsAreOnce

LEMMA ApproveKeeps ==
  ASSUME OperationsInv, NEW t \in Transfers, NEW expected \in 1..2, Approve(t, expected)
  PROVE  OperationsInv'
<1>1. /\ transfer' \in [Transfers -> TransferRows]
      /\ \A u \in Transfers \ {t} : transfer'[u] = transfer[u]
      /\ transfer[t].status = "draft" /\ transfer'[t].status = "approved"
  BY DEF Approve, OperationsInv, Shape, TransferRows
<1>2. /\ Sent' = Sent /\ Completed' = Completed /\ Completed \subseteq Sent
      /\ \A u \in Sent : u \in Transfers /\ transfer'[u] = transfer[u]
  BY <1>1 DEF Sent, Completed
<1>3. /\ UNCHANGED <<onHand, shelf, ledger, held, count, sold, moved>>
  BY DEF Approve, stock
<1>4. Shape'
  BY <1>1, <1>2, <1>3 DEF OperationsInv, Shape
<1>5. LedgerTells' /\ BooksFollowLedger' /\ (KeysServeOnce' => KeysServeOnce)
  <2>1. Posted' = Posted BY <1>3 DEF Posted
  <2>2. Asked' = Asked BY <1>2, <1>3, <2>1, AskedStays
  <2> QED BY <1>3, <2>2 DEF OperationsInv, LedgerTells, BooksFollowLedger, KeysServeOnce
<1>6. CountsHold'
  BY <1>3 DEF OperationsInv, CountsHold
<1>7. KeysServeOnce' => GoodsAreOnce'
  BY <1>2, <1>3, <1>5, NothingMoves DEF OperationsInv
<1> QED BY <1>4, <1>5, <1>6, <1>7 DEF OperationsInv

\* A count freezes the books it finds.
LEMMA StartCountKeeps ==
  ASSUME OperationsInv, NEW c \in Counts, NEW bs \in SUBSET Balances, NEW expected \in 1..2,
         StartCount(c, bs, expected)
  PROVE  OperationsInv'
<1> DEFINE book == [b \in bs |-> onHand[b]]
<1>0. book \in Levels /\ DOMAIN book = bs /\ \A b \in bs : book[b] = onHand[b]
  BY DEF Levels, OperationsInv, Shape
<1>1. /\ count' \in [Counts -> CountDocuments]
      /\ \A d \in Counts \ {c} : count'[d] = count[d]
      /\ count[c].status = "draft" /\ count'[c].status = "counting" /\ count'[c].book = book
  <2> HIDE DEF book
  <2>1. count' = [count EXCEPT ![c].status = "counting", ![c].version = @ + 1, ![c].book = book]
    BY DEF StartCount, book
  <2> QED BY <1>0, <2>1 DEF StartCount, OperationsInv, Shape, CountDocuments
<1> HIDE DEF book
<1>2. /\ UNCHANGED <<onHand, shelf, ledger, held, transfer, sold, moved>>
      /\ Sent' = Sent /\ Completed' = Completed
  BY DEF StartCount, stock, Sent, Completed
<1>3. Shape'
  <2>1. \A d \in Counts : count'[d].status \in {"pending_approval", "posted"} =>
          count'[d].difference \in [DOMAIN count'[d].book -> Int]
    BY <1>1 DEF OperationsInv, Shape
  <2> QED BY <1>1, <1>2, <2>1 DEF OperationsInv, Shape
<1>4. LedgerTells' /\ BooksFollowLedger' /\ (KeysServeOnce' => KeysServeOnce)
  <2>1. Posted' = Posted /\ \A d \in Posted : count'[d] = count[d] BY <1>1 DEF Posted
  <2>2. Asked' = Asked BY <1>2, <2>1, AskedStays DEF Sent, Completed
  <2> QED BY <1>2, <2>2 DEF OperationsInv, LedgerTells, BooksFollowLedger, KeysServeOnce
<1>5. CountsHold'
  BY <1>0, <1>1, <1>2 DEF OperationsInv, CountsHold
<1>6. KeysServeOnce' => GoodsAreOnce'
  BY <1>2, <1>4, NothingMoves DEF OperationsInv
<1> QED BY <1>3, <1>4, <1>5, <1>6 DEF OperationsInv

\* What is found is compared with what was frozen.
LEMMA SubmitCountKeeps ==
  ASSUME OperationsInv, NEW c \in Counts, SubmitCount(c)
  PROVE  OperationsInv'
<1> DEFINE found == [b \in DOMAIN count[c].book |-> Difference(count[c].book[b], shelf[b])]
<1>0. /\ DOMAIN count[c].book \in SUBSET Balances
      /\ found \in [DOMAIN count[c].book -> Int] /\ found \in Levels
      /\ \A b \in DOMAIN count[c].book : found[b] = shelf[b] - count[c].book[b]
  <2>1. DOMAIN count[c].book \in SUBSET Balances /\ \A b \in DOMAIN count[c].book : count[c].book[b] \in Int
    BY DEF OperationsInv, Shape, CountDocuments, Levels
  <2>2. \A b \in DOMAIN count[c].book : shelf[b] \in Int
    BY <2>1 DEF OperationsInv, Shape
  <2>3. found \in [DOMAIN count[c].book -> Int]
    BY <2>1, <2>2 DEF Difference
  <2>4. \A b \in DOMAIN count[c].book : found[b] = shelf[b] - count[c].book[b]
    BY DEF Difference
  <2> HIDE DEF found
  <2>5. found \in Levels
    BY <2>1, <2>3 DEF Levels
  <2> QED BY <2>1, <2>3, <2>4, <2>5
<1>1. /\ count' \in [Counts -> CountDocuments]
      /\ \A d \in Counts \ {c} : count'[d] = count[d]
      /\ count[c].status = "counting" /\ count'[c].status = "pending_approval"
      /\ count'[c].book = count[c].book /\ count'[c].difference = found
  <2>1. /\ count' = [count EXCEPT ![c].status = "pending_approval", ![c].version = @ + 1,
                                  ![c].difference = found]
        /\ count[c].status = "counting"
    BY DEF SubmitCount
  <2> HIDE DEF found
  <2> QED BY <1>0, <2>1 DEF OperationsInv, Shape, CountDocuments
<1> HIDE DEF found
<1>2. /\ UNCHANGED <<onHand, shelf, ledger, held, transfer, sold, moved>>
      /\ Sent' = Sent /\ Completed' = Completed
  BY DEF SubmitCount, stock, Sent, Completed
<1>3. Shape'
  <2>1. \A d \in Counts : count'[d].status \in {"pending_approval", "posted"} =>
          count'[d].difference \in [DOMAIN count'[d].book -> Int]
    BY <1>0, <1>1 DEF OperationsInv, Shape
  <2> QED BY <1>1, <1>2, <2>1 DEF OperationsInv, Shape
<1>4. LedgerTells' /\ BooksFollowLedger' /\ (KeysServeOnce' => KeysServeOnce)
  <2>1. Posted' = Posted /\ \A d \in Posted : count'[d] = count[d] BY <1>1 DEF Posted
  <2>2. Asked' = Asked BY <1>2, <2>1, AskedStays DEF Sent, Completed
  <2> QED BY <1>2, <2>2 DEF OperationsInv, LedgerTells, BooksFollowLedger, KeysServeOnce
<1>5. CountsHold'
  BY <1>0, <1>1, <1>2 DEF OperationsInv, CountsHold
<1>6. KeysServeOnce' => GoodsAreOnce'
  BY <1>2, <1>4, NothingMoves DEF OperationsInv
<1> QED BY <1>3, <1>4, <1>5, <1>6 DEF OperationsInv

\* A unit that is sold leaves the books and the shelf together.
LEMMA MoveKeeps ==
  ASSUME OperationsInv, NEW b \in Balances, NEW reserved \in {-1, 0, 1}, NEW shipped \in {0, 1},
         Move(b, reserved, shipped)
  PROVE  OperationsInv'
<1>1. /\ \A a \in Balances : onHand[a] \in Nat /\ held[a] \in Nat /\ shelf[a] \in Nat /\ sold[a] \in Nat
      /\ shipped \in Nat
  BY DEF OperationsInv, Shape
<1>2. /\ onHand' = [onHand EXCEPT ![b] = @ - shipped] /\ onHand' \in [Balances -> Nat]
      /\ held' \in [Balances -> Nat] /\ shelf' \in [Balances -> Nat] /\ sold' \in [Balances -> Nat]
      /\ sold' = [sold EXCEPT ![b] = @ + shipped]
      /\ \A a \in Balances \ {b} : onHand'[a] = onHand[a] /\ shelf'[a] = shelf[a]
      /\ shipped = 0 => onHand'[b] = onHand[b] /\ shelf'[b] = shelf[b]
      /\ onHand'[b] = onHand[b] - shipped /\ sold'[b] = sold[b] + shipped
  BY <1>1 DEF Move, OperationsInv, Shape
<1>3. UNCHANGED <<ledger, transfer, count>> /\ Sent' = Sent /\ Completed' = Completed
  BY DEF Move, Sent, Completed
<1>4. CountsHold' /\ moved' \in [Counts -> SUBSET Balances]
  <2> DEFINE bs == IF shipped > 0 THEN {b} ELSE {}
  <2>1. bs \in SUBSET Balances /\ \A a \in Balances \ bs : onHand'[a] = onHand[a] /\ shelf'[a] = shelf[a]
    BY <1>1, <1>2
  <2>2. Disturb(bs) /\ count' = count
    BY DEF Move
  <2> HIDE DEF bs
  <2> QED BY <2>1, <2>2, CountsHoldOn DEF OperationsInv
<1>5. Shape'
  BY <1>2, <1>3, <1>4 DEF OperationsInv, Shape
<1>6. LedgerTells' /\ BooksFollowLedger' /\ (KeysServeOnce' => KeysServeOnce)
  <2>1. Posted' = Posted BY <1>3 DEF Posted
  <2>2. Asked' = Asked BY <1>3, <2>1, AskedStays
  <2>3. \A a \in Balances : onHand'[a] + sold'[a] = onHand[a] + sold[a] BY <1>1, <1>2
  <2> QED BY <1>3, <2>2, <2>3 DEF OperationsInv, LedgerTells, BooksFollowLedger, KeysServeOnce
<1>7. ASSUME KeysServeOnce' PROVE GoodsAreOnce'
  <2> DEFINE less == -shipped  none == 0  more == shipped
  <2>0. IsFiniteSet(Balances)
    BY StockOperationsAssumption
  <2>1. /\ IsFiniteSet(Balances) /\ \A a \in Balances : onHand[a] \in Int
        /\ onHand'[b] \in Int /\ \A a \in Balances : a # b => onHand'[a] = onHand[a]
        /\ onHand'[b] - onHand[b] = less /\ onHand[b] \in Int
    BY <1>1, <1>2, <2>0
  <2>2. /\ IsFiniteSet(Balances) /\ \A a \in Balances : sold[a] \in Int
        /\ sold'[b] \in Int /\ \A a \in Balances : a # b => sold'[a] = sold[a]
        /\ sold'[b] - sold[b] = shipped
    BY <1>1, <1>2, <2>0
  <2>3. SumOver(onHand', Balances) = SumOver(onHand, Balances) + less
    <3> DEFINE g == onHand'
    <3>1. /\ IsFiniteSet(Balances) /\ b \in Balances /\ \A a \in Balances : onHand[a] \in Int
          /\ g[b] \in Int /\ \A a \in Balances : a # b => g[a] = onHand[a]
      BY <2>1
    <3> HIDE DEF g
    <3>2. SumOver(g, Balances) = SumOver(onHand, Balances) + g[b] - onHand[b]
      BY ONLY <3>1, SumChange
    <3> QED BY <2>1, <3>2 DEF g
  <2>4. SumOver(sold', Balances) = SumOver(sold, Balances) + more
    <3> DEFINE g == sold'
    <3>1. /\ IsFiniteSet(Balances) /\ b \in Balances /\ \A a \in Balances : sold[a] \in Int
          /\ g[b] \in Int /\ \A a \in Balances : a # b => g[a] = sold[a]
      BY <2>2
    <3> HIDE DEF g
    <3>2. SumOver(g, Balances) = SumOver(sold, Balances) + g[b] - sold[b]
      BY ONLY <3>1, SumChange
    <3> QED BY <2>2, <3>2 DEF g
  <2>5. Underway' = Underway + none /\ Arrived' = Arrived + none /\ Corrections' = Corrections + none
    <3>1. Underway' = Underway /\ Arrived' = Arrived /\ Corrections' = Corrections
      BY <1>3 DEF Underway, Arrived, Corrections, CountRows, Requested
    <3> QED BY <3>1, DocumentTotals DEF OperationsInv
  <2>6. less \in Int /\ more \in Int /\ none \in Int /\ less + more + none = none + none
    BY <1>1
  <2>7. onHand' \in [Balances -> Nat] /\ sold' \in [Balances -> Nat]
    BY <1>2
  <2>8. Shape /\ GoodsAreOnce
    BY <1>6, <1>7 DEF OperationsInv
  <2> HIDE DEF less, none, more
  <2> QED BY ONLY <2>3, <2>4, <2>5, <2>6, <2>7, <2>8, GoodsMoveTogether
<1> QED BY <1>4, <1>5, <1>6, <1>7 DEF OperationsInv

LEMMA OperationsStart == ASSUME Init PROVE OperationsInv
<1>1. <<>> \in [{} -> Int] /\ <<>> \in [{} -> Nat]
  OBVIOUS
<1>2. <<>> \in Levels /\ <<>> \in Receipts
  <2> DEFINE empty == <<>>
  <2>1. empty \in [{} -> Int] /\ empty \in [{} -> Nat]
    BY <1>1
  <2> HIDE DEF empty
  <2>2. empty \in Levels /\ empty \in Receipts
    BY <2>1 DEF Levels, Receipts
  <2> QED BY <2>2 DEF empty
<1>3. NoTransfer \in TransferRows /\ NoCount \in CountDocuments
  <2> DEFINE empty == <<>>
  <2>1. empty \in Levels /\ empty \in Receipts
    BY <1>2
  <2>2. /\ NoTransfer = [status |-> "draft", version |-> 1, dispatchKey |-> NoKey,
                         receiptKey |-> NoKey, received |-> empty]
        /\ NoCount = [status |-> "draft", version |-> 1, key |-> NoKey,
                      book |-> empty, difference |-> empty]
    BY DEF NoTransfer, NoCount
  <2> HIDE DEF empty
  <2> QED BY <2>1, <2>2 DEF TransferRows, CountDocuments
<1>4. Sent = {} /\ Completed = {} /\ Posted = {} /\ CountRows = {}
  BY DEF Init, NoTransfer, NoCount, Sent, Completed, Posted, CountRows
<1>5. Shape
  <2>1. \A c \in Counts : count[c].status = "draft"
    BY DEF Init, NoCount
  <2>2. transfer \in [Transfers -> TransferRows] /\ count \in [Counts -> CountDocuments]
    BY <1>3 DEF Init
  <2>3. /\ onHand \in [Balances -> Nat] /\ held \in [Balances -> Nat]
        /\ shelf \in [Balances -> Nat] /\ sold \in [Balances -> Nat]
        /\ moved \in [Counts -> SUBSET Balances] /\ ledger = {}
    BY StockOperationsAssumption DEF Init
  <2> QED BY <1>4, <2>1, <2>2, <2>3, FS_EmptySet DEF Shape
<1>6. LedgerTells /\ BooksFollowLedger
  <2>1. ledger = {} /\ Asked = {} BY <1>4 DEF Init, Asked
  <2>2. \A b \in Balances : onHand[b] = OpeningBooks[b] /\ sold[b] = 0 /\ OpeningBooks[b] \in Nat
    BY StockOperationsAssumption DEF Init
  <2> DEFINE none == {}
  <2>3. none \subseteq LedgerRows /\ IsFiniteSet(none) /\ none \cap none = {} /\ none \cup none = none
    BY FS_EmptySet
  <2> HIDE DEF none
  <2>4. \A b \in Balances : Delta(b, none) \in Int /\ Delta(b, none) = Delta(b, none) + Delta(b, none)
    BY <2>3, DeltaAdds
  <2>5. \A b \in Balances : Delta(b, ledger) = 0
    <3>1. \A b \in Balances : Delta(b, none) = 0 BY <2>4
    <3> QED BY <2>1, <3>1 DEF none
  <2> QED BY <2>1, <2>2, <2>5 DEF LedgerTells, BooksFollowLedger
<1>7. CountsHold
  BY DEF CountsHold, Init, NoCount
<1>9. GoodsAreOnce
  <2>1. Underway = 0 /\ Arrived = 0 /\ Corrections = 0
    BY <1>4, SumEmpty DEF Underway, Arrived, Corrections
  <2> DEFINE none == sold
  <2>2. /\ IsFiniteSet(Balances) /\ \A b \in Balances : none[b] = 0
        /\ onHand = OpeningBooks
    BY StockOperationsAssumption DEF Init
  <2> HIDE DEF none
  <2>3. SumOver(none, Balances) = 0
    BY <2>2, SumZero
  <2>4. /\ SumOver([b \in Balances |-> onHand[b] + sold[b]], Balances)
             = SumOver(onHand, Balances) + SumOver(sold, Balances)
        /\ SumOver(onHand, Balances) \in Int
    BY <1>5, GoodsAreTwoTotals DEF Shape
  <2> QED BY <2>1, <2>2, <2>3, <2>4 DEF GoodsAreOnce, none
<1> QED BY <1>5, <1>6, <1>7, <1>9 DEF OperationsInv

\* Every step keeps the invariant, and one that posts a count makes the books right.
LEMMA OperationsStep ==
  ASSUME OperationsInv, [Next]_vars
  PROVE  /\ OperationsInv'
         /\ \A c \in Counts :
              count[c].status # "posted" /\ count'[c].status = "posted" => SetsRight(c)
<1> DEFINE Exact == \A c \in Counts :
              count[c].status # "posted" /\ count'[c].status = "posted" => SetsRight(c)
<1> SUFFICES OperationsInv' /\ Exact
  OBVIOUS
<1>0. count' = count => Exact
  OBVIOUS
<1>1. ASSUME NEW t \in Transfers, NEW expected \in 1..2, Approve(t, expected)
      PROVE  OperationsInv' /\ Exact
  BY <1>0, <1>1, ApproveKeeps DEF Approve
<1>2. ASSUME NEW t \in Transfers, NEW k \in Keys["dispatch"], Dispatch(t, k)
      PROVE  OperationsInv' /\ Exact
  BY <1>0, <1>2, DispatchKeeps DEF Dispatch
<1>3. ASSUME NEW t \in Transfers, NEW k \in Keys["receive"],
             NEW q \in [TransferLines[t] -> 0..MaxReceived], Receive(t, k, q)
      PROVE  OperationsInv' /\ Exact
  BY <1>0, <1>3, ReceiveKeeps DEF Receive
<1>4. ASSUME NEW c \in Counts, NEW bs \in SUBSET Balances, NEW expected \in 1..2, StartCount(c, bs, expected)
      PROVE  OperationsInv' /\ Exact
  <2>1. \A d \in Counts : count'[d].status = "posted" => count[d].status = "posted"
    BY <1>4 DEF StartCount, OperationsInv, Shape, CountDocuments
  <2> QED BY <1>4, <2>1, StartCountKeeps
<1>5. ASSUME NEW c \in Counts, SubmitCount(c) PROVE OperationsInv' /\ Exact
  <2>1. \A d \in Counts : count'[d].status = "posted" => count[d].status = "posted"
    BY <1>5 DEF SubmitCount, OperationsInv, Shape, CountDocuments
  <2> QED BY <1>5, <2>1, SubmitCountKeeps
<1>6. ASSUME NEW c \in Counts, NEW k \in Keys["post"], Post(c, k) PROVE OperationsInv' /\ Exact
  <2>1. OperationsInv' /\ SetsRight(c)
    BY <1>6, PostKeeps
  <2>2. \A d \in Counts : d # c => count'[d] = count[d]
    BY <1>6 DEF Post, OperationsInv, Shape
  <2> QED BY <2>1, <2>2
<1>7. ASSUME NEW b \in Balances, Reserve(b) \/ Release(b) \/ ShipUnit(b) PROVE OperationsInv' /\ Exact
  <2>1. PICK reserved \in {-1, 0, 1}, shipped \in {0, 1} : Move(b, reserved, shipped)
    BY <1>7 DEF Reserve, Release, ShipUnit
  <2>2. count' = count
    BY <2>1 DEF Move
  <2> QED BY <1>0, <2>1, <2>2, MoveKeeps
<1>8. CASE UNCHANGED vars
  <2>1. Exact
    BY <1>0, <1>8 DEF vars
  <2>2. /\ UNCHANGED <<onHand, held, shelf, sold, ledger, transfer, count, moved>>
        /\ Sent' = Sent /\ Completed' = Completed
    BY <1>8 DEF vars, Sent, Completed
  <2>5. Asked' = Asked BY <2>2, AskedStays DEF Posted
  <2>3. KeysServeOnce' => GoodsAreOnce'
    BY <2>2, <2>5, NothingMoves DEF OperationsInv, KeysServeOnce
  <2>4. Shape' /\ LedgerTells' /\ BooksFollowLedger' /\ CountsHold'
    BY <2>2, <2>5 DEF OperationsInv, Shape, LedgerTells, BooksFollowLedger, CountsHold
  <2> QED BY <2>1, <2>3, <2>4 DEF OperationsInv
<1> HIDE DEF Exact
<1> QED BY <1>1, <1>2, <1>3, <1>4, <1>5, <1>6, <1>7, <1>8 DEF Next

\* The books of a balance are what the ledger says, the ledger has what documents
\* asked for, each line once and under one key, and wherever no two lines came with
\* one key and line id, no goods are lost or doubled: for any balances, documents,
\* lines, keys and moves of sales.
THEOREM GoodsAreBookedAlways == Spec => []GoodsAreBooked
<1>1. Init => OperationsInv BY OperationsStart
<1>2. OperationsInv /\ [Next]_vars => OperationsInv' BY OperationsStep
<1>3. OperationsInv => GoodsAreBooked
  <2>1. OperationsInv => TypeOK
    BY DEF OperationsInv, Shape, TypeOK, TransferRows, CountDocuments
  <2> QED BY <2>1 DEF OperationsInv, GoodsAreBooked
<1> QED BY <1>1, <1>2, <1>3, PTL DEF Spec

\* Posting a count makes the books of a balance what is on the shelf, unless its
\* goods or books moved after the count had frozen them, or the ledger had a row
\* under the count's key and line before: whatever keys the clients choose.
THEOREM CountsAreExactAlways == Spec => CountsAreExact
<1>1. Init => OperationsInv BY OperationsStart
<1>2. OperationsInv /\ [Next]_vars => OperationsInv' BY OperationsStep
<1>3. OperationsInv /\ [Next]_vars =>
        [\A c \in Counts :
           count[c].status # "posted" /\ count'[c].status = "posted" => SetsRight(c)]_vars
  BY OperationsStep
<1> QED BY <1>1, <1>2, <1>3, PTL DEF Spec, CountsAreExact
-----------------------------------------------------------------------------
(***************************************************************************)
(* The row locks (OrderLocking).  A row has one holder, and whatever is    *)
(* not a stock adjustment asks for its header row first and for its        *)
(* company's row second, so that all in a circle but one wait for the      *)
(* company and the one that has it waits for a header.                     *)
(***************************************************************************)

\* Concatenating sequences over a set gives a sequence over it.
IsFlattened(g, q, n) ==
  g = [i \in 1..n |-> IF i = 1 THEN q[i] ELSE g[i - 1] \o q[i]]

LEMMA FlattenedExists ==
  ASSUME NEW S, NEW q \in Seq(Seq(S))
  PROVE  \A n \in 1..Len(q) : \E g : IsFlattened(g, q, n) /\ g \in [1..n -> Seq(S)]
<1> DEFINE N == {n \in Nat : n + 1 <= Len(q) =>
                   \E g : IsFlattened(g, q, n + 1) /\ g \in [1..(n + 1) -> Seq(S)]}
<1>1. 0 \in N
  <2>1. CASE 1 <= Len(q)
    <3> DEFINE g == [i \in 1..1 |-> q[1]]
               h == [i \in 1..1 |-> IF i = 1 THEN q[i] ELSE g[i - 1] \o q[i]]
    <3>1. q[1] \in Seq(S)
      BY <2>1
    <3>2. g = h
      <4>1. \A i \in 1..1 : g[i] = h[i]
        OBVIOUS
      <4> QED BY <4>1
    <3>3. IsFlattened(g, q, 1)
      BY <3>2 DEF IsFlattened
    <3>4. g \in [1..1 -> Seq(S)]
      BY <3>1
    <3> QED BY <3>3, <3>4
  <2> QED BY <2>1
<1>2. ASSUME NEW n \in Nat, n \in N PROVE n + 1 \in N
  <2>1. CASE n + 2 <= Len(q)
    <3>1. PICK g : IsFlattened(g, q, n + 1) /\ g \in [1..(n + 1) -> Seq(S)]
      BY <1>2, <2>1
    <3> DEFINE f == [i \in 1..(n + 2) |-> IF i = n + 2 THEN g[n + 1] \o q[n + 2] ELSE g[i]]
               h == [i \in 1..(n + 2) |-> IF i = 1 THEN q[i] ELSE f[i - 1] \o q[i]]
    <3>2. q[n + 2] \in Seq(S) /\ g[n + 1] \in Seq(S)
      BY <2>1, <3>1
    <3>3. g[n + 1] \o q[n + 2] \in Seq(S)
      BY <3>2
    <3>4. f \in [1..(n + 2) -> Seq(S)]
      BY <3>1, <3>3
    <3>5. ASSUME NEW i \in 1..(n + 2) PROVE f[i] = h[i]
      <4>1. CASE i = n + 2
        <5>1. i # 1 /\ i - 1 = n + 1 /\ n + 1 \in 1..(n + 2) /\ n + 1 # n + 2
          BY <4>1
        <5>2. f[n + 1] = g[n + 1]
          BY <5>1
        <5>3. f[i] = g[n + 1] \o q[n + 2]
          BY <4>1
        <5>4. h[i] = f[n + 1] \o q[n + 2]
          BY <4>1, <5>1
        <5> QED BY <5>2, <5>3, <5>4
      <4>2. CASE i \in 1..(n + 1)
        <5>1. g[i] = IF i = 1 THEN q[i] ELSE g[i - 1] \o q[i]
          BY <3>1, <4>2 DEF IsFlattened
        <5>2. f[i] = g[i] /\ (i # 1 => f[i - 1] = g[i - 1])
          BY <4>2
        <5> QED BY <5>1, <5>2
      <4> QED BY <4>1, <4>2
    <3>6. f = h
      <4>1. f = [i \in 1..(n + 2) |-> f[i]]
        BY <3>4
      <4> HIDE DEF f
      <4> QED BY <4>1, <3>5
    <3> HIDE DEF f
    <3>7. IsFlattened(f, q, n + 2)
      BY <3>6 DEF IsFlattened
    <3>8. (n + 1) + 1 = n + 2
      OBVIOUS
    <3> QED BY <3>4, <3>7, <3>8
  <2>2. n + 1 \in Nat /\ (n + 1) + 1 = n + 2
    OBVIOUS
  <2> QED BY <2>1, <2>2
<1> HIDE DEF N
<1>3. Nat \subseteq N
  BY <1>1, <1>2, NatSetInduction
<1> SUFFICES ASSUME NEW n \in 1..Len(q)
             PROVE  \E g : IsFlattened(g, q, n) /\ g \in [1..n -> Seq(S)]
  OBVIOUS
<1>4. n - 1 \in N /\ (n - 1) + 1 = n /\ n <= Len(q)
  BY <1>3
<1> QED BY <1>4 DEF N

LEMMA FlattenIn ==
  ASSUME NEW S, NEW q \in Seq(Seq(S))
  PROVE  FlattenSeq(q) \in Seq(S)
<1>1. CASE Len(q) = 0
  <2>1. q = <<>>
    BY <1>1
  <2>2. FlattenSeq(q) = <<>>
    BY <1>1, <2>1 DEF FlattenSeq
  <2> QED BY <2>2
<1>2. CASE Len(q) # 0
  <2> DEFINE n == Len(q)
             u == CHOOSE g : IsFlattened(g, q, n)
  <2>1. n \in Nat /\ n \in 1..n
    BY <1>2
  <2>2. PICK g : IsFlattened(g, q, n) /\ g \in [1..n -> Seq(S)]
    BY <2>1, FlattenedExists
  <2>3. FlattenSeq(q) = u[n]
    BY <1>2 DEF FlattenSeq, IsFlattened
  <2>4. IsFlattened(u, q, n)
    BY <2>2
  <2> HIDE DEF u
  <2> DEFINE N == {k \in Nat : k + 1 <= n => u[k + 1] \in Seq(S)}
  <2> HIDE DEF n
  <2>5. \A i \in 1..n : u[i] = IF i = 1 THEN q[i] ELSE u[i - 1] \o q[i]
    BY <2>4 DEF IsFlattened
  <2>6. \A i \in 1..n : q[i] \in Seq(S)
    BY DEF n
  <2>7. 0 \in N
    BY <2>1, <2>5, <2>6
  <2>8. ASSUME NEW k \in Nat, k \in N PROVE k + 1 \in N
    <3>1. CASE k + 2 <= n
      <4>1. u[k + 1] \in Seq(S) /\ k + 2 \in 1..n /\ (k + 2) - 1 = k + 1 /\ k + 2 # 1
        BY <2>1, <2>8, <3>1
      <4>2. u[k + 2] = u[k + 1] \o q[k + 2]
        BY <2>5, <4>1
      <4>3. q[k + 2] \in Seq(S)
        BY <2>6, <4>1
      <4>4. u[k + 2] \in Seq(S)
        BY <4>1, <4>2, <4>3
      <4>5. (k + 1) + 1 = k + 2
        OBVIOUS
      <4> QED BY <4>4, <4>5
    <3>2. (k + 1) + 1 = k + 2
      OBVIOUS
    <3> QED BY <2>1, <3>1, <3>2
  <2> HIDE DEF N
  <2>9. Nat \subseteq N
    BY <2>7, <2>8, NatSetInduction
  <2>10. n - 1 \in N /\ (n - 1) + 1 = n
    BY <2>1, <2>9
  <2> QED BY <2>1, <2>3, <2>10 DEF N
<1> QED BY <1>1, <1>2

\* The rows a plan may name: of orders only the one it is about, of shipments none
\* but its own.
PlanIds ==
  DOMAIN LinesOf \cup DOMAIN SkuOf \cup DOMAIN LineOf \cup {"all"}
    \cup {SkuOf[l] : l \in DOMAIN SkuOf} \cup {BalanceOf[r] : r \in DOMAIN LineOf}
    \cup {Subject[t] : t \in Txns}
SharedRows ==
  {"line", "balance", "reservation", "shipment_line", "sku", "account", "commitment", "company"}
    \X PlanIds
OrderRows(o) == SharedRows \cup {Row("order", o)}
ShipmentRows(s) == OrderRows(OrderOf[s]) \cup {Row("shipment", s)}

LEMMA SharedIn ==
  /\ Company \in SharedRows
  /\ Row("account", "all") \in SharedRows
  /\ \A o \in DOMAIN LinesOf : Row("commitment", o) \in SharedRows
  /\ \A l \in DOMAIN SkuOf : Row("line", l) \in SharedRows /\ Row("sku", SkuOf[l]) \in SharedRows
  /\ \A r \in DOMAIN LineOf :
       /\ Row("reservation", r) \in SharedRows /\ Row("shipment_line", r) \in SharedRows
       /\ Row("line", LineOf[r]) \in SharedRows /\ Row("balance", BalanceOf[r]) \in SharedRows
       /\ Row("sku", SkuOf[LineOf[r]]) \in SharedRows
  /\ \A t \in Txns : Row("balance", Subject[t]) \in SharedRows
<1>1. \A r \in DOMAIN LineOf : LineOf[r] \in DOMAIN SkuOf
  BY OrderLockingAssumption
<1>2. \A l \in DOMAIN SkuOf : l \in PlanIds /\ SkuOf[l] \in PlanIds
  BY DEF PlanIds
<1>3. \A r \in DOMAIN LineOf : r \in PlanIds /\ BalanceOf[r] \in PlanIds
  BY DEF PlanIds
<1>4. "all" \in PlanIds /\ DOMAIN LinesOf \subseteq PlanIds /\ \A t \in Txns : Subject[t] \in PlanIds
  BY DEF PlanIds
<1>5. \A x \in PlanIds :
        \A n \in {"line", "balance", "reservation", "shipment_line", "sku", "account",
                  "commitment", "company"} : Row(n, x) \in SharedRows
  BY DEF SharedRows, Row
<1> QED BY <1>1, <1>2, <1>3, <1>4, <1>5 DEF Company

LEMMA LinesIn ==
  ASSUME NEW o \in DOMAIN LinesOf
  PROVE  OrderLines(o) \in Seq(SharedRows)
<1> DEFINE q == [i \in 1..Len(LinesOf[o]) |-> <<Row("line", LinesOf[o][i])>>]
<1>1. LinesOf[o] \in Seq(DOMAIN SkuOf)
  BY OrderLockingAssumption
<1>2. \A i \in 1..Len(LinesOf[o]) : Row("line", LinesOf[o][i]) \in SharedRows
  BY <1>1, SharedIn
<1>3. \A i \in 1..Len(LinesOf[o]) : <<Row("line", LinesOf[o][i])>> \in Seq(SharedRows)
  BY <1>2
<1>4. q \in Seq(Seq(SharedRows))
  BY <1>1, <1>3
<1>5. OrderLines(o) = FlattenSeq(q)
  BY DEF OrderLines, ForEach
<1> HIDE DEF q
<1> QED BY <1>4, <1>5, FlattenIn

LEMMA SettlesIn ==
  ASSUME NEW s \in Seq(DOMAIN LineOf)
  PROVE  ForEach(s, SettleLocks) \in Seq(SharedRows)
<1> DEFINE q == [i \in 1..Len(s) |-> SettleLocks(s[i])]
<1>1. ASSUME NEW i \in 1..Len(s) PROVE SettleLocks(s[i]) \in Seq(SharedRows)
  <2>1. s[i] \in DOMAIN LineOf
    OBVIOUS
  <2>2. /\ Row("reservation", s[i]) \in SharedRows /\ Company \in SharedRows
        /\ Row("line", LineOf[s[i]]) \in SharedRows /\ Row("balance", BalanceOf[s[i]]) \in SharedRows
    BY <2>1, SharedIn
  <2> QED BY <2>2 DEF SettleLocks
<1>2. q \in Seq(Seq(SharedRows))
  BY <1>1
<1>3. ForEach(s, SettleLocks) = FlattenSeq(q)
  BY DEF ForEach
<1> HIDE DEF q
<1> QED BY <1>2, <1>3, FlattenIn

LEMMA ReservesIn ==
  ASSUME NEW o \in DOMAIN LinesOf
  PROVE  ForEach(Placed[o], ReserveLocks) \in Seq(OrderRows(o))
<1> DEFINE s == Placed[o]
           q == [i \in 1..Len(s) |-> ReserveLocks(s[i])]
<1>1. s \in Seq(DOMAIN LineOf) /\ \A i \in 1..Len(s) : s[i][1] = o
  BY OrderLockingAssumption
<1> HIDE DEF s
<1>2. ASSUME NEW i \in 1..Len(s) PROVE ReserveLocks(s[i]) \in Seq(OrderRows(o))
  <2>1. s[i] \in DOMAIN LineOf /\ s[i][1] = o
    BY <1>1
  <2>2. /\ Row("line", LineOf[s[i]]) \in OrderRows(o) /\ Row("order", s[i][1]) \in OrderRows(o)
        /\ Row("balance", BalanceOf[s[i]]) \in OrderRows(o) /\ Company \in OrderRows(o)
    BY <2>1, SharedIn DEF OrderRows
  <2> QED BY <2>2 DEF ReserveLocks
<1>3. q \in Seq(Seq(OrderRows(o)))
  BY <1>1, <1>2
<1>4. ForEach(s, ReserveLocks) = FlattenSeq(q)
  BY DEF ForEach
<1> HIDE DEF q
<1>5. ForEach(s, ReserveLocks) \in Seq(OrderRows(o))
  BY <1>3, <1>4, FlattenIn
<1> QED BY <1>5 DEF s

\* What a sequence holds is in any larger set.
LEMMA SeqWider ==
  ASSUME NEW S, NEW T, S \subseteq T, NEW s \in Seq(S)
  PROVE  s \in Seq(T)
OBVIOUS

\* Appending to a plan leaves its first two rows.
LEMMA HeadStays ==
  ASSUME NEW S, NEW a \in Seq(S), Len(a) >= 2, NEW b \in Seq(S)
  PROVE  /\ a \o b \in Seq(S) /\ Len(a \o b) >= 2
         /\ (a \o b)[1] = a[1] /\ (a \o b)[2] = a[2]
<1>1. a \o b \in Seq(S) /\ Len(a \o b) = Len(a) + Len(b)
  OBVIOUS
<1>2. Len(a) \in Nat /\ Len(b) \in Nat /\ 1 \in 1..Len(a) /\ 2 \in 1..Len(a)
  OBVIOUS
<1>3. \A i \in 1..Len(a) : (a \o b)[i] = a[i]
  OBVIOUS
<1> QED BY <1>1, <1>2, <1>3

LEMMA ConfirmPlan ==
  ASSUME NEW o \in DOMAIN LinesOf
  PROVE  /\ ConfirmLocks(o) \in Seq(OrderRows(o)) /\ Len(ConfirmLocks(o)) >= 2
         /\ ConfirmLocks(o)[1] = Row("order", o) /\ ConfirmLocks(o)[2] = Company
<1> DEFINE a == OrderHeader(o)
           b == OrderLines(o)
           c == ForEach(Placed[o], ReserveLocks)
           d == CommitCreditLocks
           S == OrderRows(o)
<1>1. SharedRows \subseteq S /\ Row("order", o) \in S
  BY DEF OrderRows
<1>2. a = <<Row("order", o), Company>> /\ Company \in S
  BY <1>1, SharedIn DEF OrderHeader
<1>3. b \in Seq(S)
  BY <1>1, LinesIn, SeqWider
<1>4. c \in Seq(S)
  BY ReservesIn
<1>5. d \in Seq(S)
  BY <1>1, SharedIn DEF CommitCreditLocks
<1>6. ConfirmLocks(o) = ((a \o b) \o c) \o d
  BY DEF ConfirmLocks
<1> HIDE DEF a, b, c, d, S
<1>7. a \in Seq(S) /\ Len(a) >= 2 /\ a[1] = Row("order", o) /\ a[2] = Company
  BY <1>1, <1>2
<1> DEFINE x == a \o b
           y == x \o c
           z == y \o d
<1>8. x \in Seq(S) /\ Len(x) >= 2 /\ x[1] = a[1] /\ x[2] = a[2]
  BY <1>3, <1>7, HeadStays
<1> HIDE DEF x
<1>10. y \in Seq(S) /\ Len(y) >= 2 /\ y[1] = x[1] /\ y[2] = x[2]
  BY <1>4, <1>8, HeadStays
<1> HIDE DEF y
<1>11. z \in Seq(S) /\ Len(z) >= 2 /\ z[1] = y[1] /\ z[2] = y[2]
  BY <1>5, <1>10, HeadStays
<1>9. S = OrderRows(o)
  BY DEF S
<1>12. z = ((a \o b) \o c) \o d
  BY DEF x, y, z
<1> HIDE DEF z
<1> QED BY <1>6, <1>7, <1>8, <1>9, <1>10, <1>11, <1>12

LEMMA CancelPlan ==
  ASSUME NEW o \in DOMAIN LinesOf
  PROVE  /\ CancelLocks(o) \in Seq(OrderRows(o)) /\ Len(CancelLocks(o)) >= 2
         /\ CancelLocks(o)[1] = Row("order", o) /\ CancelLocks(o)[2] = Company
<1> DEFINE a == OrderHeader(o)
           b == OrderLines(o)
           c == ForEach(Placed[o], SettleLocks)
           d == ReleaseCreditLocks(o)
           S == OrderRows(o)
<1>1. SharedRows \subseteq S /\ Row("order", o) \in S
  BY DEF OrderRows
<1>2. a = <<Row("order", o), Company>> /\ Company \in S
  BY <1>1, SharedIn DEF OrderHeader
<1>3. b \in Seq(S)
  BY <1>1, LinesIn, SeqWider
<1>4. c \in Seq(S)
  <2>1. Placed[o] \in Seq(DOMAIN LineOf)
    BY OrderLockingAssumption
  <2> QED BY <1>1, <2>1, SettlesIn, SeqWider
<1>5. d \in Seq(S)
  BY <1>1, SharedIn DEF ReleaseCreditLocks
<1>6. CancelLocks(o) = ((a \o b) \o c) \o d
  BY DEF CancelLocks
<1> HIDE DEF a, b, c, d, S
<1>7. a \in Seq(S) /\ Len(a) >= 2 /\ a[1] = Row("order", o) /\ a[2] = Company
  BY <1>1, <1>2
<1> DEFINE x == a \o b
           y == x \o c
           z == y \o d
<1>8. x \in Seq(S) /\ Len(x) >= 2 /\ x[1] = a[1] /\ x[2] = a[2]
  BY <1>3, <1>7, HeadStays
<1> HIDE DEF x
<1>10. y \in Seq(S) /\ Len(y) >= 2 /\ y[1] = x[1] /\ y[2] = x[2]
  BY <1>4, <1>8, HeadStays
<1> HIDE DEF y
<1>11. z \in Seq(S) /\ Len(z) >= 2 /\ z[1] = y[1] /\ z[2] = y[2]
  BY <1>5, <1>10, HeadStays
<1>9. S = OrderRows(o)
  BY DEF S
<1>12. z = ((a \o b) \o c) \o d
  BY DEF x, y, z
<1> HIDE DEF z
<1> QED BY <1>6, <1>7, <1>8, <1>9, <1>10, <1>11, <1>12

LEMMA ShipPlan ==
  ASSUME NEW s \in DOMAIN ShipLines
  PROVE  /\ ShipLocks(s) \in Seq(ShipmentRows(s)) /\ Len(ShipLocks(s)) >= 2
         /\ ShipLocks(s)[1] = Row("shipment", s) /\ ShipLocks(s)[2] = Company
<1> DEFINE o == OrderOf[s]
           n == Len(ShipLines[s])
           p == [i \in 1..n |-> <<Row("shipment_line", ShipLines[s][i]), Row("reservation", ShipLines[s][i])>>]
           a == ShipmentHeader(s)
           b == FlattenSeq(p)
           c == ForEach(ShipLines[s], SettleLocks)
           d == <<Row("order", o)>>
           e == OrderLines(o)
           S == ShipmentRows(s)
<1>1. SharedRows \subseteq S /\ Row("order", o) \in S /\ Row("shipment", s) \in S
  BY DEF ShipmentRows, OrderRows
<1>2. a = <<Row("shipment", s), Company, Row("order", o)>> /\ Company \in S
  BY <1>1, SharedIn DEF ShipmentHeader
<1>3. ShipLines[s] \in Seq(DOMAIN LineOf) /\ o \in DOMAIN LinesOf
  BY OrderLockingAssumption
<1>4. b \in Seq(S)
  <2>1. ASSUME NEW i \in 1..n PROVE p[i] \in Seq(SharedRows)
    <3>1. ShipLines[s][i] \in DOMAIN LineOf
      BY <1>3
    <3>2. /\ Row("shipment_line", ShipLines[s][i]) \in SharedRows
          /\ Row("reservation", ShipLines[s][i]) \in SharedRows
      BY <3>1, SharedIn
    <3>3. <<Row("shipment_line", ShipLines[s][i]), Row("reservation", ShipLines[s][i])>> \in Seq(SharedRows)
      BY <3>2
    <3> QED BY <3>3
  <2>2. p \in Seq(Seq(SharedRows))
    <3>1. n \in Nat
      BY <1>3
    <3>2. p = [i \in 1..n |-> p[i]]
      OBVIOUS
    <3> HIDE DEF p, n
    <3> QED BY <2>1, <3>1, <3>2
  <2> HIDE DEF p
  <2>3. b \in Seq(SharedRows)
    BY <2>2, FlattenIn
  <2> QED BY <1>1, <2>3, SeqWider
<1>5. c \in Seq(S)
  BY <1>1, <1>3, SettlesIn, SeqWider
<1>6. d \in Seq(S)
  BY <1>1
<1>7. e \in Seq(S)
  BY <1>1, <1>3, LinesIn, SeqWider
<1>8. ShipLocks(s) = (((a \o b) \o c) \o d) \o e
  BY DEF ShipLocks, ForEach
<1>9. S = ShipmentRows(s)
  OBVIOUS
<1> HIDE DEF a, b, c, d, e, S
<1>10. a \in Seq(S) /\ Len(a) >= 2 /\ a[1] = Row("shipment", s) /\ a[2] = Company
  BY <1>1, <1>2
<1> DEFINE w == a \o b
           x == w \o c
           y == x \o d
           z == y \o e
<1>11. w \in Seq(S) /\ Len(w) >= 2 /\ w[1] = a[1] /\ w[2] = a[2]
  BY <1>4, <1>10, HeadStays
<1> HIDE DEF w
<1>12. x \in Seq(S) /\ Len(x) >= 2 /\ x[1] = w[1] /\ x[2] = w[2]
  BY <1>5, <1>11, HeadStays
<1> HIDE DEF x
<1>13. y \in Seq(S) /\ Len(y) >= 2 /\ y[1] = x[1] /\ y[2] = x[2]
  BY <1>6, <1>12, HeadStays
<1> HIDE DEF y
<1>14. z \in Seq(S) /\ Len(z) >= 2 /\ z[1] = y[1] /\ z[2] = y[2]
  BY <1>7, <1>13, HeadStays
<1>15. z = (((a \o b) \o c) \o d) \o e
  BY DEF w, x, y, z
<1> HIDE DEF z
<1> QED BY <1>8, <1>9, <1>10, <1>11, <1>12, <1>13, <1>14, <1>15

LEMMA TransitionPlan ==
  ASSUME NEW s \in DOMAIN ShipLines
  PROVE  /\ TransitionLocks(s) \in Seq(ShipmentRows(s)) /\ Len(TransitionLocks(s)) >= 2
         /\ TransitionLocks(s)[1] = Row("shipment", s) /\ TransitionLocks(s)[2] = Company
<1> DEFINE o == OrderOf[s]
           n == Len(ShipLines[s])
           At(r) == <<Row("shipment_line", r), Row("line", LineOf[r]), Row("sku", SkuOf[LineOf[r]])>>
           p == [i \in 1..n |-> At(ShipLines[s][i])]
           a == ShipmentHeader(s)
           b == FlattenSeq(p)
           d == <<Row("order", o)>>
           S == ShipmentRows(s)
<1>1. SharedRows \subseteq S /\ Row("order", o) \in S /\ Row("shipment", s) \in S
  BY DEF ShipmentRows, OrderRows
<1>2. a = <<Row("shipment", s), Company, Row("order", o)>> /\ Company \in S
  BY <1>1, SharedIn DEF ShipmentHeader
<1>3. ShipLines[s] \in Seq(DOMAIN LineOf) /\ o \in DOMAIN LinesOf
  BY OrderLockingAssumption
<1>4. b \in Seq(S)
  <2>1. ASSUME NEW i \in 1..n PROVE p[i] \in Seq(SharedRows)
    <3>1. ShipLines[s][i] \in DOMAIN LineOf
      BY <1>3
    <3>2. ASSUME NEW r \in DOMAIN LineOf PROVE At(r) \in Seq(SharedRows)
      <4>1. /\ Row("shipment_line", r) \in SharedRows /\ Row("line", LineOf[r]) \in SharedRows
            /\ Row("sku", SkuOf[LineOf[r]]) \in SharedRows
        BY SharedIn
      <4> QED BY <4>1
    <3> HIDE DEF At
    <3> QED BY <3>1, <3>2
  <2>2. p \in Seq(Seq(SharedRows))
    <3>1. n \in Nat
      BY <1>3
    <3>2. p = [i \in 1..n |-> p[i]]
      OBVIOUS
    <3> HIDE DEF p, n
    <3> QED BY <2>1, <3>1, <3>2
  <2> HIDE DEF p
  <2>3. b \in Seq(SharedRows)
    BY <2>2, FlattenIn
  <2> QED BY <1>1, <2>3, SeqWider
<1>6. d \in Seq(S)
  BY <1>1
<1>8. TransitionLocks(s) = (a \o b) \o d
  BY DEF TransitionLocks, ForEach
<1>9. S = ShipmentRows(s)
  OBVIOUS
<1> HIDE DEF a, b, d, S
<1>10. a \in Seq(S) /\ Len(a) >= 2 /\ a[1] = Row("shipment", s) /\ a[2] = Company
  BY <1>1, <1>2
<1> DEFINE w == a \o b
           y == w \o d
<1>11. w \in Seq(S) /\ Len(w) >= 2 /\ w[1] = a[1] /\ w[2] = a[2]
  BY <1>4, <1>10, HeadStays
<1> HIDE DEF w
<1>13. y \in Seq(S) /\ Len(y) >= 2 /\ y[1] = w[1] /\ y[2] = w[2]
  BY <1>6, <1>11, HeadStays
<1>15. y = (a \o b) \o d
  BY DEF w, y
<1> HIDE DEF y
<1> QED BY <1>8, <1>9, <1>10, <1>11, <1>13, <1>15

\* The first two rows of a plan, and the rows of orders and shipments in it.
LEMMA OrderPlans ==
  ASSUME NEW t \in Txns, Kind[t] \in {"confirm", "cancel"}
  PROVE  /\ Plan[t] \in Seq(OrderRows(Subject[t])) /\ Len(Plan[t]) >= 2
         /\ Plan[t][1] = Row("order", Subject[t]) /\ Plan[t][2] = Company
<1>1. Subject[t] \in DOMAIN LinesOf
  BY OrderLockingAssumption
<1>2. Plan[t] = IF Kind[t] = "confirm" THEN ConfirmLocks(Subject[t]) ELSE CancelLocks(Subject[t])
  BY DEF Plan
<1> QED BY <1>1, <1>2, ConfirmPlan, CancelPlan

LEMMA ShipmentPlans ==
  ASSUME NEW t \in Txns, Kind[t] \in {"ship", "transition"}
  PROVE  /\ Plan[t] \in Seq(ShipmentRows(Subject[t])) /\ Len(Plan[t]) >= 2
         /\ Plan[t][1] = Row("shipment", Subject[t]) /\ Plan[t][2] = Company
<1>1. Subject[t] \in DOMAIN ShipLines
  BY OrderLockingAssumption
<1>2. Plan[t] = IF Kind[t] = "ship" THEN ShipLocks(Subject[t]) ELSE TransitionLocks(Subject[t])
  BY DEF Plan
<1> QED BY <1>1, <1>2, ShipPlan, TransitionPlan

LEMMA PlansAreLong ==
  ASSUME NEW t \in Txns
  PROVE  Len(Plan[t]) \in Nat
<1>1. CASE Kind[t] \in {"confirm", "cancel"}
  BY <1>1, OrderPlans
<1>2. CASE Kind[t] \in {"ship", "transition"}
  BY <1>2, ShipmentPlans
<1>3. CASE Kind[t] = "adjust"
  <2>1. Plan[t] = <<Row("balance", Subject[t]), Company>>
    BY <1>3 DEF Plan, AdjustLocks
  <2> QED BY <2>1
<1> QED BY <1>1, <1>2, <1>3, OrderLockingAssumption

\* A row has one holder.
OneHolder ==
  \A t, u \in Txns : t # u =>
    \A i \in 1..pos[t], j \in 1..pos[u] : Plan[t][i] # Plan[u][j]
LocksInv == LocksTypeOK /\ OneHolder

\* A transaction that gives its locks back takes none.
LEMMA EndKeeps ==
  ASSUME LocksInv, NEW t \in Txns, NEW how \in {"committed", "aborted"}, End(t, how)
  PROVE  LocksInv'
<1>1. /\ pos \in [Txns -> Nat] /\ outcome \in [Txns -> {"running", "committed", "aborted"}]
      /\ pos' = [pos EXCEPT ![t] = 0] /\ outcome' = [outcome EXCEPT ![t] = how]
  BY DEF LocksInv, LocksTypeOK, End
<1>2. \A u \in Txns : pos'[u] = IF u = t THEN 0 ELSE pos[u]
  BY <1>1
<1>3. \A u \in Txns : outcome'[u] = IF u = t THEN how ELSE outcome[u]
  BY <1>1
<1>4. pos' \in [Txns -> Nat] /\ outcome' \in [Txns -> {"running", "committed", "aborted"}]
  BY <1>1
<1>5. \A u \in Txns : pos'[u] <= Len(Plan[u])
  BY <1>2, PlansAreLong DEF LocksInv, LocksTypeOK
<1>6. \A u \in Txns : outcome'[u] # "running" => pos'[u] = 0
  BY <1>2, <1>3 DEF LocksInv, LocksTypeOK
<1>7. OneHolder'
  <2> SUFFICES ASSUME NEW u \in Txns, NEW v \in Txns, u # v,
                      NEW i \in 1..pos'[u], NEW j \in 1..pos'[v]
               PROVE  Plan[u][i] # Plan[v][j]
    BY DEF OneHolder
  <2>1. u # t /\ v # t
    BY <1>2
  <2>2. i \in 1..pos[u] /\ j \in 1..pos[v]
    BY <1>2, <2>1
  <2> QED BY <2>2 DEF LocksInv, OneHolder
<1> QED BY <1>4, <1>5, <1>6, <1>7 DEF LocksInv, LocksTypeOK

LEMMA LockKeeps ==
  ASSUME LocksInv, NEW t \in Txns, Lock(t)
  PROVE  LocksInv'
<1>1. /\ pos \in [Txns -> Nat] /\ outcome \in [Txns -> {"running", "committed", "aborted"}]
      /\ pos' = [pos EXCEPT ![t] = pos[t] + 1] /\ outcome' = outcome
      /\ outcome[t] = "running" /\ pos[t] < Len(Plan[t])
  BY DEF LocksInv, LocksTypeOK, Lock, Wants
<1>2. \A u \in Txns : pos'[u] = IF u = t THEN pos[t] + 1 ELSE pos[u]
  BY <1>1
<1>3. pos' \in [Txns -> Nat]
  BY <1>1
<1>4. \A u \in Txns : pos'[u] <= Len(Plan[u])
  BY <1>1, <1>2, PlansAreLong DEF LocksInv, LocksTypeOK
<1>5. \A u \in Txns : outcome'[u] # "running" => pos'[u] = 0
  BY <1>1, <1>2 DEF LocksInv, LocksTypeOK
<1>6. ASSUME NEW u \in Txns, u # t, NEW j \in 1..pos[u] PROVE Plan[u][j] # Plan[t][pos[t] + 1]
  <2>1. outcome[u] = "running"
    BY <1>1, <1>6 DEF LocksInv, LocksTypeOK
  <2>2. ~WaitsFor(t, u)
    BY DEF Lock
  <2>3. ~Holds(u, Plan[t][pos[t] + 1])
    BY <1>1, <1>6, <2>2 DEF WaitsFor, Wants
  <2> QED BY <2>1, <2>3 DEF Holds
<1>7. OneHolder'
  <2> SUFFICES ASSUME NEW u \in Txns, NEW v \in Txns, u # v,
                      NEW i \in 1..pos'[u], NEW j \in 1..pos'[v]
               PROVE  Plan[u][i] # Plan[v][j]
    BY DEF OneHolder
  <2>1. CASE i \in 1..pos[u] /\ j \in 1..pos[v]
    BY <2>1 DEF LocksInv, OneHolder
  <2>2. CASE i \notin 1..pos[u]
    <3>1. u = t /\ i = pos[t] + 1 /\ j \in 1..pos[v]
      BY <1>1, <1>2, <2>2
    <3> QED BY <1>6, <3>1
  <2>3. CASE j \notin 1..pos[v]
    <3>1. v = t /\ j = pos[t] + 1 /\ i \in 1..pos[u]
      BY <1>1, <1>2, <2>3
    <3> QED BY <1>6, <3>1
  <2> QED BY <2>1, <2>2, <2>3
<1> QED BY <1>1, <1>3, <1>4, <1>5, <1>7 DEF LocksInv, LocksTypeOK

LEMMA LocksStep ==
  ASSUME LocksInv, [LockNext]_lockVars
  PROVE  LocksInv'
<1>1. CASE AbortVictim
  <2>1. PICK t \in UNION Circles : End(t, "aborted")
    BY <1>1 DEF AbortVictim
  <2>2. t \in Txns
    BY DEF Circles, Waiting
  <2> QED BY <2>1, <2>2, EndKeeps
<1>2. ASSUME NEW t \in Txns, Lock(t) PROVE LocksInv'
  BY <1>2, LockKeeps
<1>3. ASSUME NEW t \in Txns, Commit(t) PROVE LocksInv'
  BY <1>3, EndKeeps DEF Commit
<1>4. ASSUME NEW t \in Txns, Rollback(t) PROVE LocksInv'
  BY <1>4, EndKeeps DEF Rollback
<1>5. CASE UNCHANGED lockVars
  BY <1>5 DEF lockVars, LocksInv, LocksTypeOK, OneHolder
<1> QED BY <1>1, <1>2, <1>3, <1>4, <1>5 DEF LockNext

LEMMA LocksStart == LockInit => LocksInv
<1> SUFFICES ASSUME LockInit PROVE LocksInv
  OBVIOUS
<1>1. pos = [t \in Txns |-> 0] /\ outcome = [t \in Txns |-> "running"]
  BY DEF LockInit
<1>2. LocksTypeOK
  BY <1>1, PlansAreLong DEF LocksTypeOK
<1>3. OneHolder
  BY <1>1 DEF OneHolder
<1> QED BY <1>2, <1>3 DEF LocksInv

\* Who is waited for holds a row; who holds more than its header holds the company.
LEMMA InACircle ==
  ASSUME LocksInv, NEW c \in Circles, NEW t \in c
  PROVE  /\ t \in Txns /\ pos[t] \in Nat /\ pos[t] > 0
         /\ \E u \in c : /\ u \in Txns /\ u # t
                         /\ \E i \in 1..pos[u] : Plan[u][i] = Plan[t][pos[t] + 1]
<1>1. c \subseteq Txns
  BY DEF Circles, Waiting
<1>2. PICK u \in c : WaitsFor(t, u)
  BY DEF Circles
<1>3. PICK v \in c : WaitsFor(v, t)
  BY DEF Circles
<1>4. \E i \in 1..pos[t] : TRUE
  BY <1>3 DEF WaitsFor, Holds
<1>5. pos[t] \in Nat
  BY <1>1 DEF LocksInv, LocksTypeOK
<1>6. u # t /\ \E i \in 1..pos[u] : Plan[u][i] = Plan[t][pos[t] + 1]
  BY <1>2 DEF WaitsFor, Holds
<1> QED BY <1>1, <1>4, <1>5, <1>6

Known(t, u) ==
  \/ Kind[t] = "adjust"
  \/ Kind[t] \in {"confirm", "cancel"} /\ Kind[u] \in {"ship", "transition"}
                                     /\ OrderOf[Subject[u]] = Subject[t]

LEMMA CirclesAreKnownThen ==
  ASSUME LocksInv, NEW c \in Circles
  PROVE  \E t, u \in c : Known(t, u)
<1> SUFFICES ASSUME \A t \in c : Kind[t] # "adjust" PROVE \E t, u \in c : Known(t, u)
  BY DEF Known, Circles
<1>1. ASSUME NEW t \in c
      PROVE  /\ t \in Txns /\ Plan[t][2] = Company
             /\ \/ Kind[t] \in {"confirm", "cancel"} /\ Plan[t][1] = Row("order", Subject[t])
                \/ Kind[t] \in {"ship", "transition"} /\ Plan[t][1] = Row("shipment", Subject[t])
  <2>1. t \in Txns
    BY InACircle
  <2>2. Kind[t] \in {"confirm", "cancel"} \/ Kind[t] \in {"ship", "transition"}
    BY <2>1, OrderLockingAssumption
  <2> QED BY <2>1, <2>2, OrderPlans, ShipmentPlans
<1>2. \A t \in c : Plan[t][1] # Company
  BY <1>1 DEF Row, Company
\* One of the circle has the company.
<1>3. PICK a \in c : pos[a] >= 2
  <2> SUFFICES ASSUME \A t \in c : ~(pos[t] >= 2) PROVE FALSE
    OBVIOUS
  <2>1. \A t \in c : pos[t] = 1
    BY InACircle
  <2>2. PICK t \in c : TRUE
    BY DEF Circles
  <2>3. PICK u \in c : \E i \in 1..pos[u] : Plan[u][i] = Plan[t][pos[t] + 1]
    BY InACircle
  <2>4. Plan[u][1] = Plan[t][2]
    BY <2>1, <2>3
  <2> QED BY <1>1, <1>2, <2>4
\* It waits for a header.
<1>4. PICK b \in c : b # a /\ \E i \in 1..pos[b] : Plan[b][i] = Plan[a][pos[a] + 1]
  BY InACircle
<1>5. a \in Txns /\ b \in Txns /\ pos[a] \in Nat /\ pos[b] \in Nat /\ pos[b] > 0
  BY InACircle
<1>6. \A i \in 1..pos[a], j \in 1..pos[b] : Plan[a][i] # Plan[b][j]
  BY <1>4, <1>5 DEF LocksInv, OneHolder
<1>7. pos[b] = 1
  <2> SUFFICES ASSUME pos[b] >= 2 PROVE FALSE
    BY <1>5
  <2>1. 2 \in 1..pos[a] /\ 2 \in 1..pos[b]
    BY <1>3, <1>5
  <2> QED BY <1>1, <1>6, <2>1
<1>8. Plan[b][1] = Plan[a][pos[a] + 1] /\ Plan[a][1] # Plan[b][1]
  <2>1. 1 \in 1..pos[a] /\ 1 \in 1..pos[b]
    BY <1>3, <1>5
  <2> QED BY <1>4, <1>6, <1>7, <2>1
<1>9. pos[a] + 1 \in 1..Len(Plan[a])
  <2>1. Wants(a)
    BY DEF Circles, WaitsFor
  <2> QED BY <1>5, <2>1, PlansAreLong DEF Wants
<1>10. \A x : Row("order", x) \notin SharedRows /\ Row("shipment", x) \notin SharedRows
  BY DEF SharedRows, Row
<1>11. \A x, y : /\ Row("order", x) # Row("shipment", y)
                 /\ Row("order", x) = Row("order", y) => x = y
                 /\ Row("shipment", x) = Row("shipment", y) => x = y
  BY DEF Row
<1>12. CASE Kind[a] \in {"confirm", "cancel"}
  <2>1. Plan[a][pos[a] + 1] \in OrderRows(Subject[a])
    BY <1>5, <1>9, <1>12, OrderPlans
  <2>2. Plan[a][1] = Row("order", Subject[a])
    BY <1>5, <1>12, OrderPlans
  <2> QED BY <1>1, <1>8, <1>10, <1>11, <2>1, <2>2 DEF OrderRows
<1>13. CASE Kind[a] \in {"ship", "transition"}
  <2>1. Plan[a][pos[a] + 1] \in ShipmentRows(Subject[a])
    BY <1>5, <1>9, <1>13, ShipmentPlans
  <2>2. Plan[a][1] = Row("shipment", Subject[a])
    BY <1>5, <1>13, ShipmentPlans
  <2>3. Plan[b][1] = Row("order", OrderOf[Subject[a]])
    BY <1>1, <1>8, <1>10, <1>11, <2>1, <2>2 DEF ShipmentRows, OrderRows
  <2>4. Kind[b] \in {"confirm", "cancel"} /\ Subject[b] = OrderOf[Subject[a]]
    BY <1>1, <1>11, <2>3
  <2>5. Known(b, a)
    BY <1>13, <2>4 DEF Known
  <2> QED BY <2>5
<1> QED BY <1>1, <1>12, <1>13

\* Requests that wait for each other in a circle are a confirmation or a
\* cancellation and the warehouse's work on the same order, or have a stock
\* adjustment among them (confirm_sales_order, cancel_unshipped_order,
\* ship_sales_shipment, transition_shipment, adjust_on_hand).
THEOREM CirclesAreKnownAlways == LockSpec => []CirclesAreKnown
<1>1. LockInit => LocksInv
  BY LocksStart
<1>2. LocksInv /\ [LockNext]_lockVars => LocksInv'
  BY LocksStep
<1>3. LocksInv => CirclesAreKnown
  BY CirclesAreKnownThen DEF LocksInv, CirclesAreKnown, Known
<1> QED BY <1>1, <1>2, <1>3, PTL DEF LockSpec
=============================================================================
