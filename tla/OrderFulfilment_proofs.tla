----------------------- MODULE OrderFulfilment_proofs -----------------------
(***************************************************************************)
(* The order, its stock and its credit, for any number of orders, lines,   *)
(* reservations, shipments, requests and keys: first the books of the      *)
(* stock, then those of the credit, then the order over both, where what   *)
(* is left to show of the books is that every batch of an order action is  *)
(* one of theirs.                                                          *)
(***************************************************************************)
EXTENDS OrderFulfilment, Totals_proofs, SequenceTheorems

(***************************************************************************)
(* The books of Reservations balance for every number of rows, every       *)
(* quantity and every batch.  RInv is inductive as it stands: the counters *)
(* need the row invariant (a row is blank or placed), non-negativity needs *)
(* the counters, and the ledger identity needs the consumed column.        *)
(***************************************************************************)
RInv == /\ RTypeOK
        /\ RowsConsistent
        /\ ReservedIsHeld
        /\ LineIsHeld
        /\ NeverOversold
        /\ ConsumedIsIssued
        /\ LedgerExplainsStock

\* What a batch moves on one balance is an integer.
LEMMA QtyOnType ==
  ASSUME NEW b, NEW res, NEW q \in [Rows -> Int]
  PROVE  QtyOn(b, res, q) \in Int
BY RowsAssumption, TotalType DEF QtyOn, Rows

\* The same for a line.
LEMMA QtyOfType ==
  ASSUME NEW l, NEW res, NEW q \in [Rows -> Int]
  PROVE  QtyOf(l, res, q) \in Int
BY RowsAssumption, TotalType DEF QtyOf, Rows

\* A batch of quantities moves no negative amount on a balance.
LEMMA QtyOnNat ==
  ASSUME NEW b, NEW res, NEW q \in [Rows -> Int], \A n \in Rows : q[n] >= 0
  PROVE  QtyOn(b, res, q) >= 0
<1> DEFINE f == [n \in Rows |-> IF res[n].balance = b THEN q[n] ELSE 0]
<1>1. f \in [1..NR -> Int] /\ \A n \in 1..NR : f[n] >= 0
  BY DEF Rows
<1> HIDE DEF f
<1>2. Total(f, NR) >= 0
  BY <1>1, TotalCovers, RowsAssumption
<1> QED BY <1>2 DEF QtyOn, f

\* Adding columns of the reservation table adds their totals.
LEMMA ColumnPlus ==
  ASSUME NEW f \in [Rows -> Int], NEW g \in [Rows -> Int], NEW h \in [Rows -> Int],
         \A n \in Rows : h[n] = f[n] + g[n]
  PROVE  Total(h, NR) = Total(f, NR) + Total(g, NR)
BY TotalPlus, RowsAssumption DEF Rows

\* Moving nothing moves nothing.
LEMMA QtyZero ==
  ASSUME NEW x, NEW res, NEW q \in [Rows -> Int], \A n \in Rows : q[n] = 0
  PROVE  QtyOn(x, res, q) = 0 /\ QtyOf(x, res, q) = 0
<1>1. [n \in Rows |-> IF res[n].balance = x THEN q[n] ELSE 0] = [n \in 1..NR |-> 0]
  BY DEF Rows
<1>2. [n \in Rows |-> IF res[n].line = x THEN q[n] ELSE 0] = [n \in 1..NR |-> 0]
  BY DEF Rows
<1>3. Total([n \in 1..NR |-> 0], NR) = 0
  BY TotalBlank, RowsAssumption
<1> QED BY <1>1, <1>2, <1>3 DEF QtyOn, QtyOf

-----------------------------------------------------------------------------
\* The books balance when the system starts.
LEMMA RInitInv == RInit => RInv
<1> SUFFICES ASSUME RInit PROVE RInv
  OBVIOUS
<1> USE DEF RInit, Rows, EmptyRow
<1>1. RTypeOK
  BY StockAssumption DEF RTypeOK, BalanceRows, LineRows, ReservationRows, IssueRows
<1>2. RowsConsistent
  <2>1. \A n \in Rows : reservation[n] = EmptyRow /\ Remaining(reservation[n]) = 0
    BY DEF Remaining
  <2>2. NoRow # "active" /\ EmptyRow.status = NoRow
    BY StockAssumption
  <2> HIDE DEF RInit, EmptyRow, Rows
  <2> QED BY <2>1, <2>2 DEF RowsConsistent
<1>3. \A n \in Rows : RemainingOf[n] = 0 /\ ConsumedOf[n] = 0
  BY DEF RemainingOf, ConsumedOf, Remaining
<1>4. RemainingOf \in [Rows -> Int] /\ ConsumedOf \in [Rows -> Int]
  BY <1>3 DEF RemainingOf, ConsumedOf, Remaining
<1>5. ReservedIsHeld
  BY <1>3, <1>4, QtyZero DEF ReservedIsHeld
<1>6. LineIsHeld
  BY <1>3, <1>4, QtyZero DEF LineIsHeld
<1>7. NeverOversold
  BY StockAssumption DEF NeverOversold
<1>8. ConsumedIsIssued
  <2> SUFFICES ASSUME NEW n \in Rows
               PROVE  reservation[n].consumed = Total([s \in 1..NS |-> issue[s][n]], NS)
    BY DEF ConsumedIsIssued
  <2>1. [s \in 1..NS |-> issue[s][n]] = [s \in 1..NS |-> 0]
    OBVIOUS
  <2>2. Total([s \in 1..NS |-> 0], NS) = 0
    BY TotalBlank, RowsAssumption
  <2> QED BY <2>1, <2>2
<1>9. LedgerExplainsStock
  <2> SUFFICES ASSUME NEW b \in Balances
               PROVE  balance[b].onHand = Opening[b]
                        + Total([a \in 1..NA |-> IF adjustment[a].balance = b
                                                  THEN adjustment[a].delta ELSE 0], NA)
                        - QtyOn(b, reservation, ConsumedOf)
    BY DEF LedgerExplainsStock
  <2>1. [a \in 1..NA |-> IF adjustment[a].balance = b THEN adjustment[a].delta ELSE 0]
          = [a \in 1..NA |-> 0]
    OBVIOUS
  <2>2. Total([a \in 1..NA |-> 0], NA) = 0
    BY TotalBlank, RowsAssumption
  <2>3. QtyOn(b, reservation, ConsumedOf) = 0
    BY <1>3, <1>4, QtyZero
  <2>4. balance[b].onHand = Opening[b]
    OBVIOUS
  <2>5. Opening[b] \in Int
    BY StockAssumption
  <2> HIDE DEF RInit, Rows, EmptyRow
  <2>6. Total([a \in 1..NA |-> IF adjustment[a].balance = b
                               THEN adjustment[a].delta ELSE 0], NA) = 0
    BY <2>1, <2>2
  <2> QED BY <2>3, <2>4, <2>5, <2>6
<1> QED BY <1>1, <1>2, <1>5, <1>6, <1>7, <1>8, <1>9 DEF RInv

\* The tables one by one, and the columns of the reservation table.
LEMMA TableTypes ==
  ASSUME RInv
  PROVE  /\ balance \in [Balances -> [onHand : Int, reserved : Int]]
         /\ line \in [Lines -> [reserved : Int, shipped : Int, cancelled : Int]]
         /\ issue \in [1..NS -> [Rows -> Nat]]
         /\ adjustment \in [1..NA -> [balance : Balances \cup {NoRow}, delta : Int]]
         /\ reservation = [n \in Rows |-> reservation[n]]
BY DEF RInv, RTypeOK, BalanceRows, LineRows, ReservationRows, IssueRows

\* A row of the reservation table and what remains of it.
LEMMA RowTypes ==
  ASSUME RInv, NEW n \in Rows
  PROVE  /\ reservation[n] \in [status : {NoRow, "active", "consumed", "released"},
                               line : Lines \cup {NoRow}, balance : Balances \cup {NoRow},
                               reserved : Nat, consumed : Nat, released : Nat]
         /\ reservation[n].consumed \in Nat /\ Remaining(reservation[n]) \in Nat
         /\ reservation[n].reserved \in Nat /\ reservation[n].released \in Nat
         /\ RemainingOf[n] = Remaining(reservation[n])
         /\ ConsumedOf[n] = reservation[n].consumed
<1>1. reservation[n] \in [status : {NoRow, "active", "consumed", "released"},
                         line : Lines \cup {NoRow}, balance : Balances \cup {NoRow},
                         reserved : Nat, consumed : Nat, released : Nat]
  BY DEF RInv, RTypeOK, BalanceRows, LineRows, ReservationRows, IssueRows
<1>2. Remaining(reservation[n]) >= 0
  BY DEF RInv, RowsConsistent
<1> QED BY <1>1, <1>2 DEF RemainingOf, ConsumedOf, Remaining

\* The columns are functions of integers.
LEMMA ColumnTypes ==
  ASSUME RInv
  PROVE  RemainingOf \in [Rows -> Int] /\ ConsumedOf \in [Rows -> Int]
<1>1. \A n \in Rows : RemainingOf[n] \in Int /\ ConsumedOf[n] \in Int
  BY RowTypes
<1> QED BY <1>1 DEF RemainingOf, ConsumedOf

\* A batch is a column, of no negative quantity.
LEMMA BatchTypes ==
  ASSUME NEW q \in Quantities
  PROVE  /\ q \in [Rows -> Int]
         /\ \A n \in Rows : q[n] \in Nat /\ q[n] \in Int /\ q[n] >= 0
         /\ \A res : \A b \in Balances : QtyOn(b, res, q) \in Int /\ QtyOn(b, res, q) >= 0
         /\ \A res : \A l \in Lines : QtyOf(l, res, q) \in Int
<1>1. q \in [Rows -> Int] /\ \A n \in Rows : q[n] \in Nat /\ q[n] \in Int /\ q[n] >= 0
  BY RowsAssumption DEF Quantities
<1> QED BY <1>1, QtyOnType, QtyOnNat, QtyOfType

\* A step moves what the reservations hold, and what they consumed, by the
\* columns dr and dc on the rows of rd.  If it moves the counters of the
\* balances and of the lines alike, the counters stay in step with the rows.
CountersFollow(rd, dr, dc) ==
  /\ \A b \in Balances : balance'[b].reserved = balance[b].reserved + QtyOn(b, rd, dr)
  /\ \A l \in Lines : /\ line'[l].reserved = line[l].reserved + QtyOf(l, rd, dr)
                       /\ line'[l].shipped = line[l].shipped + QtyOf(l, rd, dc)

RowsFollow(rd, dr, dc) ==
  \A n \in Rows :
    /\ \A b \in Balances :
         /\ (IF reservation'[n].balance = b THEN RemainingOf'[n] ELSE 0)
              = (IF reservation[n].balance = b THEN RemainingOf[n] ELSE 0)
                + (IF rd[n].balance = b THEN dr[n] ELSE 0)
         /\ (IF reservation'[n].balance = b THEN ConsumedOf'[n] ELSE 0)
              = (IF reservation[n].balance = b THEN ConsumedOf[n] ELSE 0)
                + (IF rd[n].balance = b THEN dc[n] ELSE 0)
    /\ \A l \in Lines :
         /\ (IF reservation'[n].line = l THEN RemainingOf'[n] ELSE 0)
              = (IF reservation[n].line = l THEN RemainingOf[n] ELSE 0)
                + (IF rd[n].line = l THEN dr[n] ELSE 0)
         /\ (IF reservation'[n].line = l THEN ConsumedOf'[n] ELSE 0)
              = (IF reservation[n].line = l THEN ConsumedOf[n] ELSE 0)
                + (IF rd[n].line = l THEN dc[n] ELSE 0)

LEMMA CountersStayInStep ==
  ASSUME RInv, NEW rd, NEW dr \in [Rows -> Int], NEW dc \in [Rows -> Int],
         RemainingOf' \in [Rows -> Int], ConsumedOf' \in [Rows -> Int],
         CountersFollow(rd, dr, dc), RowsFollow(rd, dr, dc)
  PROVE  /\ ReservedIsHeld' /\ LineIsHeld'
         /\ \A b \in Balances : QtyOn(b, reservation', ConsumedOf')
              = QtyOn(b, reservation, ConsumedOf) + QtyOn(b, rd, dc)
<1>1. RemainingOf \in [Rows -> Int] /\ ConsumedOf \in [Rows -> Int]
  BY ColumnTypes
<1>2. ASSUME NEW b \in Balances
      PROVE  /\ QtyOn(b, reservation', RemainingOf')
                  = QtyOn(b, reservation, RemainingOf) + QtyOn(b, rd, dr)
             /\ QtyOn(b, reservation', ConsumedOf')
                  = QtyOn(b, reservation, ConsumedOf) + QtyOn(b, rd, dc)
  <2> DEFINE
        rem0 == [n \in Rows |-> IF reservation[n].balance = b THEN RemainingOf[n] ELSE 0]
        rem1 == [n \in Rows |-> IF reservation'[n].balance = b THEN RemainingOf'[n] ELSE 0]
        con0 == [n \in Rows |-> IF reservation[n].balance = b THEN ConsumedOf[n] ELSE 0]
        con1 == [n \in Rows |-> IF reservation'[n].balance = b THEN ConsumedOf'[n] ELSE 0]
        remD == [n \in Rows |-> IF rd[n].balance = b THEN dr[n] ELSE 0]
        conD == [n \in Rows |-> IF rd[n].balance = b THEN dc[n] ELSE 0]
  <2>1. /\ rem0 \in [Rows -> Int] /\ rem1 \in [Rows -> Int] /\ remD \in [Rows -> Int]
        /\ con0 \in [Rows -> Int] /\ con1 \in [Rows -> Int] /\ conD \in [Rows -> Int]
    BY <1>1
  <2>2. \A n \in Rows : rem1[n] = rem0[n] + remD[n]
    BY DEF RowsFollow
  <2>5. \A n \in Rows : con1[n] = con0[n] + conD[n]
    BY DEF RowsFollow
  <2> HIDE DEF rem0, rem1, remD, con0, con1, conD
  <2>3. Total(rem1, NR) = Total(rem0, NR) + Total(remD, NR)
    BY <2>1, <2>2, ColumnPlus
  <2>4. Total(con1, NR) = Total(con0, NR) + Total(conD, NR)
    BY <2>1, <2>5, ColumnPlus
  <2> QED BY <2>3, <2>4 DEF QtyOn, rem0, rem1, remD, con0, con1, conD
<1>3. ASSUME NEW l \in Lines
      PROVE  /\ QtyOf(l, reservation', RemainingOf')
                  = QtyOf(l, reservation, RemainingOf) + QtyOf(l, rd, dr)
             /\ QtyOf(l, reservation', ConsumedOf')
                  = QtyOf(l, reservation, ConsumedOf) + QtyOf(l, rd, dc)
  <2> DEFINE
        rem0 == [n \in Rows |-> IF reservation[n].line = l THEN RemainingOf[n] ELSE 0]
        rem1 == [n \in Rows |-> IF reservation'[n].line = l THEN RemainingOf'[n] ELSE 0]
        con0 == [n \in Rows |-> IF reservation[n].line = l THEN ConsumedOf[n] ELSE 0]
        con1 == [n \in Rows |-> IF reservation'[n].line = l THEN ConsumedOf'[n] ELSE 0]
        remD == [n \in Rows |-> IF rd[n].line = l THEN dr[n] ELSE 0]
        conD == [n \in Rows |-> IF rd[n].line = l THEN dc[n] ELSE 0]
  <2>1. /\ rem0 \in [Rows -> Int] /\ rem1 \in [Rows -> Int] /\ remD \in [Rows -> Int]
        /\ con0 \in [Rows -> Int] /\ con1 \in [Rows -> Int] /\ conD \in [Rows -> Int]
    BY <1>1
  <2>2. \A n \in Rows : rem1[n] = rem0[n] + remD[n]
    BY DEF RowsFollow
  <2>5. \A n \in Rows : con1[n] = con0[n] + conD[n]
    BY DEF RowsFollow
  <2> HIDE DEF rem0, rem1, remD, con0, con1, conD
  <2>3. Total(rem1, NR) = Total(rem0, NR) + Total(remD, NR)
    BY <2>1, <2>2, ColumnPlus
  <2>4. Total(con1, NR) = Total(con0, NR) + Total(conD, NR)
    BY <2>1, <2>5, ColumnPlus
  <2> QED BY <2>3, <2>4 DEF QtyOf, rem0, rem1, remD, con0, con1, conD
<1>4. ReservedIsHeld'
  BY <1>2 DEF CountersFollow, RInv, ReservedIsHeld
<1>5. LineIsHeld'
  BY <1>3 DEF CountersFollow, RInv, LineIsHeld
<1> QED BY <1>2, <1>4, <1>5

\* Blank moves: a column of zeros over the reservation table.
Still == [n \in Rows |-> 0]

LEMMA StillMovesNothing ==
  ASSUME NEW x, NEW res
  PROVE  Still \in [Rows -> Int] /\ QtyOn(x, res, Still) = 0 /\ QtyOf(x, res, Still) = 0
<1>1. Still \in [Rows -> Int] /\ \A n \in Rows : Still[n] = 0
  BY DEF Still
<1> QED BY <1>1, QtyZero

\* The columns after a step are integers if the rows are well typed.
LEMMA ColumnTypesNext ==
  ASSUME RTypeOK'
  PROVE  /\ RemainingOf' \in [Rows -> Int] /\ ConsumedOf' \in [Rows -> Int]
         /\ \A n \in Rows : /\ RemainingOf'[n] = Remaining(reservation'[n])
                             /\ ConsumedOf'[n] = reservation'[n].consumed
<1>1. \A n \in Rows : Remaining(reservation'[n]) \in Int /\ reservation'[n].consumed \in Int
  BY DEF RTypeOK, BalanceRows, LineRows, ReservationRows, IssueRows, Remaining
<1> QED BY <1>1 DEF RemainingOf, ConsumedOf

\* A batch of reservations keeps the books balanced.
LEMMA ReserveAllInv ==
  ASSUME RInv, NEW q \in Quantities,
         NEW place \in [Rows -> [line : Lines, balance : Balances]],
         ReserveAll(place, q)
  PROVE  RInv'
<1>0. /\ q \in [Rows -> Int]
      /\ \A n \in Rows : q[n] \in Nat /\ q[n] \in Int /\ q[n] >= 0
      /\ \A b \in Balances : /\ QtyOn(b, reservation', q) \in Int
                              /\ QtyOn(b, reservation', q) >= 0
      /\ \A l \in Lines : QtyOf(l, reservation', q) \in Int
  BY BatchTypes
<1>1. balance' = [b \in Balances |->
                   [balance[b] EXCEPT !.reserved = @ + QtyOn(b, reservation', q)]]
  BY DEF ReserveAll
<1>2. line' = [l \in Lines |->
                [line[l] EXCEPT !.reserved = @ + QtyOf(l, reservation', q)]]
  BY DEF ReserveAll
<1>3. /\ \A b \in Balances : QtyOn(b, reservation', q) <= Free(b)
      /\ issue' = issue /\ adjustment' = adjustment
      /\ reservation' = [n \in Rows |-> reservation'[n]]
  BY DEF ReserveAll
<1>4. ASSUME NEW n \in Rows, q[n] = 0
      PROVE  reservation'[n] = reservation[n]
  BY <1>4 DEF ReserveAll
<1>5. ASSUME NEW n \in Rows, q[n] # 0
      PROVE  /\ reservation[n].balance = NoRow /\ reservation[n].line = NoRow
             /\ reservation[n].consumed = 0
             /\ reservation'[n] \in
                  [status : {NoRow, "active", "consumed", "released"},
                   line : Lines \cup {NoRow}, balance : Balances \cup {NoRow},
                   reserved : Nat, consumed : Nat, released : Nat]
             /\ reservation'[n].status = "active"
             /\ reservation'[n].line \in Lines /\ reservation'[n].balance \in Balances
             /\ reservation'[n].consumed = 0
             /\ Remaining(reservation'[n]) = q[n]
  <2>1. q[n] > 0 /\ q[n] \in Nat
    BY <1>0, <1>5
  <2>2. reservation[n] = EmptyRow
    BY <2>1 DEF ReserveAll
  <2>3. reservation'[n] = [status |-> "active", line |-> place[n].line,
                          balance |-> place[n].balance,
                          reserved |-> q[n], consumed |-> 0, released |-> 0]
    BY <2>1 DEF ReserveAll
  <2>4. place[n].line \in Lines /\ place[n].balance \in Balances
    OBVIOUS
  <2>5. Remaining(reservation'[n]) = q[n]
    BY <2>1, <2>3 DEF Remaining
  <2> QED BY <2>1, <2>2, <2>3, <2>4, <2>5 DEF EmptyRow
<1>6. balance' \in [Balances -> [onHand : Int, reserved : Int]]
  <2>1. \A b \in Balances : QtyOn(b, reservation', q) \in Int
    BY <1>0
  <2>2. balance \in [Balances -> [onHand : Int, reserved : Int]]
    BY TableTypes
  <2> QED BY <1>1, <2>1, <2>2
<1>7. line' \in [Lines -> [reserved : Int, shipped : Int, cancelled : Int]]
  <2>1. \A l \in Lines : QtyOf(l, reservation', q) \in Int
    BY <1>0
  <2>2. line \in [Lines -> [reserved : Int, shipped : Int, cancelled : Int]]
    BY TableTypes
  <2> QED BY <1>2, <2>1, <2>2
<1>8. \A n \in Rows : reservation'[n] \in
          [status : {NoRow, "active", "consumed", "released"},
           line : Lines \cup {NoRow}, balance : Balances \cup {NoRow},
           reserved : Nat, consumed : Nat, released : Nat]
  <2> TAKE n \in Rows
  <2>1. CASE q[n] = 0
    BY <2>1, <1>4, RowTypes
  <2>2. CASE q[n] # 0
    BY <2>2, <1>5
  <2> QED BY <2>1, <2>2
<1>9. RTypeOK'
  BY <1>3, <1>6, <1>7, <1>8, TableTypes DEF RTypeOK, BalanceRows, LineRows, ReservationRows, IssueRows
<1>10. RowsConsistent'
  <2> SUFFICES ASSUME NEW n \in Rows
               PROVE  /\ Remaining(reservation'[n]) >= 0
                      /\ reservation'[n].status = "active" <=> Remaining(reservation'[n]) > 0
                      /\ reservation'[n].status = NoRow => reservation'[n] = EmptyRow
                      /\ reservation'[n].status # NoRow =>
                           reservation'[n].line \in Lines /\ reservation'[n].balance \in Balances
    BY DEF RowsConsistent, EmptyRow
  <2>1. CASE q[n] = 0
    BY <2>1, <1>4 DEF RInv, RowsConsistent
  <2>2. CASE q[n] # 0
    <3>1. Remaining(reservation'[n]) = q[n] /\ q[n] > 0
      BY <2>2, <1>0, <1>5
    <3>2. reservation'[n].status = "active" /\ "active" # NoRow
      BY <2>2, <1>5, StockAssumption
    <3> QED BY <2>2, <3>1, <3>2, <1>0, <1>5
  <2> QED BY <2>1, <2>2
<1>11. RowsFollow(reservation', q, Still)
  <2> SUFFICES ASSUME NEW n \in Rows, NEW x \in Balances \cup Lines
               PROVE  /\ (IF reservation'[n].balance = x THEN RemainingOf'[n] ELSE 0)
                           = (IF reservation[n].balance = x THEN RemainingOf[n] ELSE 0)
                             + (IF reservation'[n].balance = x THEN q[n] ELSE 0)
                      /\ (IF reservation'[n].balance = x THEN ConsumedOf'[n] ELSE 0)
                           = (IF reservation[n].balance = x THEN ConsumedOf[n] ELSE 0)
                             + (IF reservation'[n].balance = x THEN Still[n] ELSE 0)
                      /\ (IF reservation'[n].line = x THEN RemainingOf'[n] ELSE 0)
                           = (IF reservation[n].line = x THEN RemainingOf[n] ELSE 0)
                             + (IF reservation'[n].line = x THEN q[n] ELSE 0)
                      /\ (IF reservation'[n].line = x THEN ConsumedOf'[n] ELSE 0)
                           = (IF reservation[n].line = x THEN ConsumedOf[n] ELSE 0)
                             + (IF reservation'[n].line = x THEN Still[n] ELSE 0)
    BY DEF RowsFollow
  <2>1. Still[n] = 0 /\ NoRow # x
    BY StockAssumption DEF Still
  <2>2. /\ RemainingOf[n] = Remaining(reservation[n]) /\ RemainingOf[n] \in Int
        /\ ConsumedOf[n] = reservation[n].consumed /\ ConsumedOf[n] \in Int
    BY RowTypes
  <2>3. /\ RemainingOf'[n] = Remaining(reservation'[n])
        /\ ConsumedOf'[n] = reservation'[n].consumed
    BY <1>9, ColumnTypesNext
  <2>4. CASE q[n] = 0
    <3>1. reservation'[n] = reservation[n]
      BY <1>4, <2>4
    <3> QED BY <2>1, <2>2, <2>3, <2>4, <3>1
  <2>5. CASE q[n] # 0
    <3>1. reservation[n].balance = NoRow /\ reservation[n].line = NoRow
      BY <1>5, <2>5
    <3>2. RemainingOf'[n] = q[n] /\ ConsumedOf'[n] = 0 /\ q[n] \in Int
      BY <1>0, <1>5, <2>3, <2>5
    <3> QED BY <2>1, <3>1, <3>2
  <2> QED BY <2>4, <2>5
<1>12. CountersFollow(reservation', q, Still)
  <2>1. \A l \in Lines : line'[l].shipped = line[l].shipped + QtyOf(l, reservation', Still)
    BY <1>2, TableTypes, StillMovesNothing
  <2>2. \A b \in Balances : balance'[b].reserved = balance[b].reserved + QtyOn(b, reservation', q)
    BY <1>1, TableTypes
  <2>3. \A l \in Lines : line'[l].reserved = line[l].reserved + QtyOf(l, reservation', q)
    BY <1>2, TableTypes
  <2> QED BY <2>1, <2>2, <2>3 DEF CountersFollow
<1>13. /\ ReservedIsHeld' /\ LineIsHeld'
       /\ \A b \in Balances : QtyOn(b, reservation', ConsumedOf')
              = QtyOn(b, reservation, ConsumedOf) + QtyOn(b, reservation', Still)
  BY <1>0, <1>9, <1>11, <1>12, ColumnTypesNext, StillMovesNothing, CountersStayInStep
<1>14. NeverOversold'
  <2> SUFFICES ASSUME NEW b \in Balances
               PROVE  balance'[b].reserved >= 0
                        /\ balance'[b].reserved + Locked[b] <= balance'[b].onHand
    BY DEF NeverOversold
  <2>1. /\ balance'[b].reserved = balance[b].reserved + QtyOn(b, reservation', q)
        /\ balance'[b].onHand = balance[b].onHand
        /\ balance[b].reserved \in Int /\ balance[b].onHand \in Int
    BY <1>1, TableTypes
  <2>2. QtyOn(b, reservation', q) <= balance[b].onHand - balance[b].reserved - Locked[b]
    BY <1>3 DEF Free
  <2>3. balance[b].reserved >= 0 /\ Locked[b] \in Int
    BY StockAssumption DEF RInv, NeverOversold
  <2> QED BY <1>0, <2>1, <2>2, <2>3
<1>15. ConsumedIsIssued'
  <2> SUFFICES ASSUME NEW n \in Rows
               PROVE  reservation'[n].consumed = Total([s \in 1..NS |-> issue'[s][n]], NS)
    BY DEF ConsumedIsIssued
  <2>1. reservation'[n].consumed = reservation[n].consumed
    BY <1>4, <1>5
  <2> QED BY <2>1, <1>3 DEF RInv, ConsumedIsIssued
<1>16. LedgerExplainsStock'
  <2> SUFFICES ASSUME NEW b \in Balances
               PROVE  balance'[b].onHand = Opening[b]
                        + Total([a \in 1..NA |-> IF adjustment'[a].balance = b
                                                  THEN adjustment'[a].delta ELSE 0], NA)
                        - QtyOn(b, reservation', ConsumedOf')
    BY DEF LedgerExplainsStock
  <2>1. balance'[b].onHand = balance[b].onHand
    BY <1>1, TableTypes
  <2>2. QtyOn(b, reservation', ConsumedOf') = QtyOn(b, reservation, ConsumedOf)
    BY <1>13, StillMovesNothing, ColumnTypes, QtyOnType
  <2> QED BY <2>1, <2>2, <1>3 DEF RInv, LedgerExplainsStock
<1> QED BY <1>9, <1>10, <1>13, <1>14, <1>15, <1>16 DEF RInv

-----------------------------------------------------------------------------
RowSet == [status : {NoRow, "active", "consumed", "released"},
           line : Lines \cup {NoRow}, balance : Balances \cup {NoRow},
           reserved : Nat, consumed : Nat, released : Nat]

Minus(q) == [n \in Rows |-> 0 - q[n]]

\* A batch taken back counts the same amount down.
LEMMA MinusMoves ==
  ASSUME NEW x, NEW res, NEW q \in [Rows -> Int]
  PROVE  /\ Minus(q) \in [Rows -> Int] /\ \A n \in Rows : Minus(q)[n] = 0 - q[n]
         /\ QtyOn(x, res, Minus(q)) = 0 - QtyOn(x, res, q)
         /\ QtyOf(x, res, Minus(q)) = 0 - QtyOf(x, res, q)
<1>1. Minus(q) \in [Rows -> Int] /\ \A n \in Rows : Minus(q)[n] = 0 - q[n]
  BY DEF Minus
<1>2. QtyOn(x, res, Minus(q)) = 0 - QtyOn(x, res, q)
  <2> DEFINE f == [n \in Rows |-> IF res[n].balance = x THEN q[n] ELSE 0]
             g == [n \in Rows |-> IF res[n].balance = x THEN Minus(q)[n] ELSE 0]
  <2>1. f \in [Rows -> Int] /\ g \in [Rows -> Int] /\ Still \in [Rows -> Int]
    BY <1>1 DEF Still
  <2>2. \A n \in Rows : Still[n] = f[n] + g[n]
    BY <1>1 DEF Still
  <2> HIDE DEF f, g
  <2>3. Total(Still, NR) = Total(f, NR) + Total(g, NR)
    BY <2>1, <2>2, ColumnPlus
  <2>4. Total(Still, NR) = 0
    BY TotalBlank, RowsAssumption DEF Still, Rows
  <2>5. Total(f, NR) \in Int /\ Total(g, NR) \in Int
    BY <2>1, TotalType, RowsAssumption DEF Rows
  <2>6. Total(g, NR) = 0 - Total(f, NR)
    BY <2>3, <2>4, <2>5
  <2> QED BY <2>6 DEF QtyOn, f, g
<1>3. QtyOf(x, res, Minus(q)) = 0 - QtyOf(x, res, q)
  <2> DEFINE f == [n \in Rows |-> IF res[n].line = x THEN q[n] ELSE 0]
             g == [n \in Rows |-> IF res[n].line = x THEN Minus(q)[n] ELSE 0]
  <2>1. f \in [Rows -> Int] /\ g \in [Rows -> Int] /\ Still \in [Rows -> Int]
    BY <1>1 DEF Still
  <2>2. \A n \in Rows : Still[n] = f[n] + g[n]
    BY <1>1 DEF Still
  <2> HIDE DEF f, g
  <2>3. Total(Still, NR) = Total(f, NR) + Total(g, NR)
    BY <2>1, <2>2, ColumnPlus
  <2>4. Total(Still, NR) = 0
    BY TotalBlank, RowsAssumption DEF Still, Rows
  <2>5. Total(f, NR) \in Int /\ Total(g, NR) \in Int
    BY <2>1, TotalType, RowsAssumption DEF Rows
  <2>6. Total(g, NR) = 0 - Total(f, NR)
    BY <2>3, <2>4, <2>5
  <2> QED BY <2>6 DEF QtyOf, f, g
<1> QED BY <1>1, <1>2, <1>3

\* A step draws q from what the reservations hold and adds dc to what they
\* consumed, and settles the rows it touched.
Drawn(q, dc) ==
  \A n \in Rows :
    /\ reservation'[n] \in RowSet
    /\ reservation'[n].line = reservation[n].line
    /\ reservation'[n].balance = reservation[n].balance
    /\ Remaining(reservation'[n]) = Remaining(reservation[n]) - q[n]
    /\ reservation'[n].consumed = reservation[n].consumed + dc[n]
    /\ q[n] <= Remaining(reservation[n])
    /\ q[n] = 0 => reservation'[n] = reservation[n]
    /\ q[n] # 0 => /\ reservation'[n].status # NoRow
                   /\ (reservation'[n].status = "active") <=> (Remaining(reservation'[n]) > 0)

LEMMA DrawnRows ==
  ASSUME RInv, NEW q \in Quantities, NEW dc \in [Rows -> Int], Drawn(q, dc)
  PROVE  RowsConsistent'
<1> SUFFICES ASSUME NEW n \in Rows
             PROVE  /\ Remaining(reservation'[n]) >= 0
                    /\ reservation'[n].status = "active" <=> Remaining(reservation'[n]) > 0
                    /\ reservation'[n].status = NoRow => reservation'[n] = EmptyRow
                    /\ reservation'[n].status # NoRow =>
                         reservation'[n].line \in Lines /\ reservation'[n].balance \in Balances
  BY DEF RowsConsistent, EmptyRow
<1>1. CASE q[n] = 0
  BY <1>1 DEF Drawn, RInv, RowsConsistent
<1>2. CASE q[n] # 0
  <2>1. q[n] \in Nat /\ q[n] > 0
    BY <1>2, BatchTypes
  <2>2. Remaining(reservation[n]) \in Nat
    BY RowTypes
  <2>3. /\ Remaining(reservation'[n]) = Remaining(reservation[n]) - q[n]
        /\ q[n] <= Remaining(reservation[n])
        /\ reservation'[n].status # NoRow
        /\ (reservation'[n].status = "active") <=> (Remaining(reservation'[n]) > 0)
        /\ reservation'[n].line = reservation[n].line
        /\ reservation'[n].balance = reservation[n].balance
    BY <1>2 DEF Drawn
  <2>4. reservation[n].status # NoRow
    <3>1. SUFFICES ASSUME reservation[n].status = NoRow PROVE FALSE
      OBVIOUS
    <3>2. reservation[n] = EmptyRow
      BY <3>1 DEF RInv, RowsConsistent
    <3>3. Remaining(reservation[n]) = 0
      BY <3>2 DEF EmptyRow, Remaining
    <3> QED BY <2>1, <2>3, <3>3
  <2>5. reservation[n].line \in Lines /\ reservation[n].balance \in Balances
    BY <2>4 DEF RInv, RowsConsistent
  <2> QED BY <2>1, <2>2, <2>3, <2>5
<1> QED BY <1>1, <1>2

LEMMA DrawnFollows ==
  ASSUME RInv, RTypeOK', NEW q \in Quantities, NEW dc \in [Rows -> Int], Drawn(q, dc)
  PROVE  RowsFollow(reservation, Minus(q), dc)
<1> SUFFICES ASSUME NEW n \in Rows, NEW x \in Balances \cup Lines
             PROVE  /\ (IF reservation'[n].balance = x THEN RemainingOf'[n] ELSE 0)
                         = (IF reservation[n].balance = x THEN RemainingOf[n] ELSE 0)
                           + (IF reservation[n].balance = x THEN Minus(q)[n] ELSE 0)
                    /\ (IF reservation'[n].balance = x THEN ConsumedOf'[n] ELSE 0)
                         = (IF reservation[n].balance = x THEN ConsumedOf[n] ELSE 0)
                           + (IF reservation[n].balance = x THEN dc[n] ELSE 0)
                    /\ (IF reservation'[n].line = x THEN RemainingOf'[n] ELSE 0)
                         = (IF reservation[n].line = x THEN RemainingOf[n] ELSE 0)
                           + (IF reservation[n].line = x THEN Minus(q)[n] ELSE 0)
                    /\ (IF reservation'[n].line = x THEN ConsumedOf'[n] ELSE 0)
                         = (IF reservation[n].line = x THEN ConsumedOf[n] ELSE 0)
                           + (IF reservation[n].line = x THEN dc[n] ELSE 0)
  BY DEF RowsFollow
<1>1. /\ RemainingOf[n] = Remaining(reservation[n]) /\ RemainingOf[n] \in Int
      /\ ConsumedOf[n] = reservation[n].consumed /\ ConsumedOf[n] \in Int
  BY RowTypes
<1>2. /\ RemainingOf'[n] = Remaining(reservation'[n])
      /\ ConsumedOf'[n] = reservation'[n].consumed
  BY ColumnTypesNext
<1>3. /\ reservation'[n].line = reservation[n].line
      /\ reservation'[n].balance = reservation[n].balance
      /\ RemainingOf'[n] = RemainingOf[n] - q[n]
      /\ ConsumedOf'[n] = ConsumedOf[n] + dc[n]
  BY <1>1, <1>2 DEF Drawn
<1>4. Minus(q)[n] = 0 - q[n] /\ q[n] \in Int /\ dc[n] \in Int
  BY BatchTypes DEF Minus
<1> QED BY <1>1, <1>3, <1>4

\* Settling a row changes its status only.
LEMMA SettledKeeps ==
  ASSUME NEW w \in RowSet, Remaining(w) \in Nat, NEW done \in {"consumed", "released"}
  PROVE  /\ Settled(w, done) \in RowSet
         /\ Settled(w, done).line = w.line /\ Settled(w, done).balance = w.balance
         /\ Settled(w, done).consumed = w.consumed
         /\ Remaining(Settled(w, done)) = Remaining(w)
         /\ Settled(w, done).status # NoRow
         /\ Settled(w, done).status = "active" <=> Remaining(Settled(w, done)) > 0
<1>1. /\ Settled(w, done) \in RowSet
      /\ Settled(w, done).line = w.line /\ Settled(w, done).balance = w.balance
      /\ Settled(w, done).consumed = w.consumed
      /\ Remaining(Settled(w, done)) = Remaining(w)
      /\ Settled(w, done).status = IF Remaining(w) = 0 THEN done ELSE "active"
  BY DEF Settled, RowSet, Remaining
<1>2. /\ NoRow # "active" /\ NoRow # "consumed" /\ NoRow # "released"
      /\ done # "active" /\ done # NoRow
  BY StockAssumption
<1> QED BY <1>1, <1>2

\* A row out of which n units are released.
LEMMA ReleasedRow ==
  ASSUME NEW r \in RowSet, NEW n \in Nat, n <= Remaining(r),
         NEW w, w = Settled([r EXCEPT !.released = @ + n], "released")
  PROVE  /\ w \in RowSet /\ w.line = r.line /\ w.balance = r.balance
         /\ w.consumed = r.consumed /\ Remaining(w) = Remaining(r) - n
         /\ w.status # NoRow
         /\ (w.status = "active") <=> (Remaining(w) > 0)
<1>2. r.reserved \in Nat /\ r.consumed \in Nat /\ r.released \in Nat
  BY DEF RowSet
<1> DEFINE u == [r EXCEPT !.released = @ + n]
<1>3. /\ u \in RowSet /\ u.line = r.line /\ u.balance = r.balance
      /\ u.consumed = r.consumed /\ Remaining(u) = Remaining(r) - n
      /\ Remaining(u) \in Nat
  BY <1>2 DEF RowSet, Remaining
<1>4. w = Settled(u, "released")
  OBVIOUS
<1> HIDE DEF u
<1>5. /\ w \in RowSet /\ w.line = u.line /\ w.balance = u.balance
      /\ w.consumed = u.consumed /\ Remaining(w) = Remaining(u)
      /\ w.status # NoRow
      /\ (w.status = "active") <=> (Remaining(w) > 0)
  <2>1. u \in RowSet /\ Remaining(u) \in Nat
    BY <1>3
  <2>2. PICK done \in {"consumed", "released"} : done = "released"
    OBVIOUS
  <2>3. w = Settled(u, done)
    BY <1>4, <2>2
  <2>4. /\ Settled(u, done) \in RowSet
        /\ Settled(u, done).line = u.line /\ Settled(u, done).balance = u.balance
        /\ Settled(u, done).consumed = u.consumed
        /\ Remaining(Settled(u, done)) = Remaining(u)
        /\ Settled(u, done).status # NoRow
        /\ Settled(u, done).status = "active" <=> Remaining(Settled(u, done)) > 0
    BY <2>1, SettledKeeps
  <2> QED BY <2>3, <2>4
<1> QED BY <1>3, <1>5

\* A row out of which n units are consumed.
LEMMA ConsumedRow ==
  ASSUME NEW r \in RowSet, NEW n \in Nat, n <= Remaining(r),
         NEW w, w = Settled([r EXCEPT !.consumed = @ + n], "consumed")
  PROVE  /\ w \in RowSet /\ w.line = r.line /\ w.balance = r.balance
         /\ w.consumed = r.consumed + n /\ Remaining(w) = Remaining(r) - n
         /\ w.status # NoRow
         /\ (w.status = "active") <=> (Remaining(w) > 0)
<1>2. r.reserved \in Nat /\ r.consumed \in Nat /\ r.released \in Nat
  BY DEF RowSet
<1> DEFINE u == [r EXCEPT !.consumed = @ + n]
<1>3. /\ u \in RowSet /\ u.line = r.line /\ u.balance = r.balance
      /\ u.consumed = r.consumed + n /\ Remaining(u) = Remaining(r) - n
      /\ Remaining(u) \in Nat
  BY <1>2 DEF RowSet, Remaining
<1>4. w = Settled(u, "consumed")
  OBVIOUS
<1> HIDE DEF u
<1>5. /\ w \in RowSet /\ w.line = u.line /\ w.balance = u.balance
      /\ w.consumed = u.consumed /\ Remaining(w) = Remaining(u)
      /\ w.status # NoRow
      /\ (w.status = "active") <=> (Remaining(w) > 0)
  <2>1. u \in RowSet /\ Remaining(u) \in Nat
    BY <1>3
  <2>2. PICK done \in {"consumed", "released"} : done = "consumed"
    OBVIOUS
  <2>3. w = Settled(u, done)
    BY <1>4, <2>2
  <2>4. /\ Settled(u, done) \in RowSet
        /\ Settled(u, done).line = u.line /\ Settled(u, done).balance = u.balance
        /\ Settled(u, done).consumed = u.consumed
        /\ Remaining(Settled(u, done)) = Remaining(u)
        /\ Settled(u, done).status # NoRow
        /\ Settled(u, done).status = "active" <=> Remaining(Settled(u, done)) > 0
    BY <2>1, SettledKeeps
  <2> QED BY <2>3, <2>4
<1> QED BY <1>3, <1>5

\* A batch of releases, and the lines cancelled with it, keeps the books balanced.
LEMMA ReleaseAllInv ==
  ASSUME RInv, NEW q \in Quantities, NEW dropped \in SUBSET Lines, ReleaseAll(q, dropped)
  PROVE  RInv'
<1>0. /\ q \in [Rows -> Int]
      /\ \A n \in Rows : q[n] \in Nat /\ q[n] \in Int /\ q[n] >= 0
      /\ \A b \in Balances : /\ QtyOn(b, reservation, q) \in Int
                              /\ QtyOn(b, reservation, q) >= 0
      /\ \A l \in Lines : QtyOf(l, reservation, q) \in Int
  BY BatchTypes
<1>1. /\ issue' = issue /\ adjustment' = adjustment
      /\ reservation' = [n \in Rows |-> reservation'[n]]
  BY DEF ReleaseAll
<1>2. /\ balance' = [b \in Balances |->
           [balance[b] EXCEPT !.reserved = @ - QtyOn(b, reservation, q)]]
      /\ line' = [l \in Lines |->
           [line[l] EXCEPT !.reserved = @ - QtyOf(l, reservation, q),
                           !.cancelled = IF l \in dropped THEN Ordered[l] ELSE @]]
  BY DEF ReleaseAll
<1>3. Drawn(q, Still)
  <2> SUFFICES ASSUME NEW n \in Rows
               PROVE  /\ reservation'[n] \in RowSet
                      /\ reservation'[n].line = reservation[n].line
                      /\ reservation'[n].balance = reservation[n].balance
                      /\ Remaining(reservation'[n]) = Remaining(reservation[n]) - q[n]
                      /\ reservation'[n].consumed = reservation[n].consumed + Still[n]
                      /\ q[n] <= Remaining(reservation[n])
                      /\ q[n] = 0 => reservation'[n] = reservation[n]
                      /\ q[n] # 0 => /\ reservation'[n].status # NoRow
                                     /\ (reservation'[n].status = "active")
                                          <=> (Remaining(reservation'[n]) > 0)
    BY DEF Drawn
  <2>1. reservation[n] \in RowSet /\ Remaining(reservation[n]) \in Nat
          /\ reservation[n].consumed \in Nat
    BY RowTypes DEF RowSet
  <2>2. q[n] <= Remaining(reservation[n])
    BY DEF ReleaseAll
  <2>3. CASE q[n] = 0
    <3>1. reservation'[n] = reservation[n]
      BY <2>3 DEF ReleaseAll
    <3>2. Still[n] = 0
      BY <2>3 DEF Still
    <3> QED BY <2>1, <2>2, <2>3, <3>1, <3>2
  <2>4. CASE q[n] # 0
    <3>1. reservation'[n] = Settled([reservation[n] EXCEPT !.released = @ + q[n]], "released")
      BY <2>4 DEF ReleaseAll
    <3>2. q[n] \in Nat /\ q[n] > 0
      BY <1>0, <2>4
    <3>3. Still[n] = 0
      BY DEF Still
    <3>4. /\ reservation'[n] \in RowSet
          /\ reservation'[n].line = reservation[n].line
          /\ reservation'[n].balance = reservation[n].balance
          /\ Remaining(reservation'[n]) = Remaining(reservation[n]) - q[n]
          /\ reservation'[n].consumed = reservation[n].consumed
          /\ reservation'[n].status # NoRow
          /\ (reservation'[n].status = "active") <=> (Remaining(reservation'[n]) > 0)
      BY <2>1, <2>2, <3>1, <3>2, ReleasedRow
    <3> QED BY <2>1, <2>2, <2>4, <3>3, <3>4
  <2> QED BY <2>3, <2>4
<1>4. /\ balance' \in [Balances -> [onHand : Int, reserved : Int]]
      /\ \A b \in Balances : /\ balance'[b].onHand = balance[b].onHand
                              /\ balance'[b].reserved = balance[b].reserved - QtyOn(b, reservation, q)
  <2>1. \A b \in Balances : QtyOn(b, reservation, q) \in Int
    BY <1>0
  <2>2. balance \in [Balances -> [onHand : Int, reserved : Int]]
    BY TableTypes
  <2>b. balance' = [b \in Balances |->
           [balance[b] EXCEPT !.reserved = @ - QtyOn(b, reservation, q)]]
    BY <1>2
  <2>3. balance' \in [Balances -> [onHand : Int, reserved : Int]]
    BY <2>b, <2>1, <2>2
  <2>4. \A b \in Balances : /\ balance'[b].onHand = balance[b].onHand
                            /\ balance'[b].reserved = balance[b].reserved - QtyOn(b, reservation, q)
    BY <2>b, <2>2
  <2> QED BY <2>3, <2>4
<1>5. /\ line' \in [Lines -> [reserved : Int, shipped : Int, cancelled : Int]]
      /\ \A l \in Lines : /\ line'[l].reserved = line[l].reserved - QtyOf(l, reservation, q)
                           /\ line'[l].shipped = line[l].shipped
  <2>1. \A l \in Lines : QtyOf(l, reservation, q) \in Int /\ Ordered[l] \in Int
    BY <1>0, StockAssumption
  <2>2. line \in [Lines -> [reserved : Int, shipped : Int, cancelled : Int]]
    BY TableTypes
  <2>b. line' = [l \in Lines |->
           [line[l] EXCEPT !.reserved = @ - QtyOf(l, reservation, q),
                           !.cancelled = IF l \in dropped THEN Ordered[l] ELSE @]]
    BY <1>2
  <2>3. line' \in [Lines -> [reserved : Int, shipped : Int, cancelled : Int]]
    <3>1. ASSUME NEW l \in Lines
          PROVE  line'[l] \in [reserved : Int, shipped : Int, cancelled : Int]
      <4>1. line[l].reserved \in Int /\ line[l].shipped \in Int /\ line[l].cancelled \in Int
        BY <2>2
      <4>2. line[l] = [reserved |-> line[l].reserved, shipped |-> line[l].shipped,
                       cancelled |-> line[l].cancelled]
        BY <2>2
      <4>3. line'[l] = [reserved |-> line[l].reserved - QtyOf(l, reservation, q),
                        shipped |-> line[l].shipped,
                        cancelled |-> IF l \in dropped THEN Ordered[l] ELSE line[l].cancelled]
        BY <2>b, <4>2
      <4> QED BY <2>1, <4>1, <4>3
    <3>2. line' = [l \in Lines |-> line'[l]]
      BY <2>b
    <3> QED BY <3>1, <3>2
  <2>4. \A l \in Lines : /\ line'[l].reserved = line[l].reserved - QtyOf(l, reservation, q)
                         /\ line'[l].shipped = line[l].shipped
    BY <2>b, <2>2
  <2> QED BY <2>3, <2>4
<1>6. /\ \A n \in Rows : reservation'[n] \in RowSet
      /\ reservation' = [n \in Rows |-> reservation'[n]]
  BY <1>1, <1>3 DEF Drawn
<1>7. RTypeOK'
  BY <1>1, <1>4, <1>5, <1>6, TableTypes DEF
    RTypeOK, BalanceRows, LineRows, ReservationRows, IssueRows, RowSet
<1>8. RowsConsistent'
  BY <1>3, <1>0, StillMovesNothing, DrawnRows
<1>9. RowsFollow(reservation, Minus(q), Still)
  BY <1>0, <1>3, <1>7, StillMovesNothing, DrawnFollows
<1>10. CountersFollow(reservation, Minus(q), Still)
  <2>1. ASSUME NEW b \in Balances
        PROVE  balance'[b].reserved = balance[b].reserved + QtyOn(b, reservation, Minus(q))
    <3>1. balance[b].reserved \in Int /\ QtyOn(b, reservation, q) \in Int
      BY <1>0, TableTypes
    <3>2. QtyOn(b, reservation, Minus(q)) = 0 - QtyOn(b, reservation, q)
      BY <1>0, MinusMoves
    <3>3. balance'[b].reserved = balance[b].reserved - QtyOn(b, reservation, q)
      BY <1>4
    <3> QED BY <3>1, <3>2, <3>3
  <2>2. ASSUME NEW l \in Lines
        PROVE  /\ line'[l].reserved = line[l].reserved + QtyOf(l, reservation, Minus(q))
               /\ line'[l].shipped = line[l].shipped + QtyOf(l, reservation, Still)
    <3>1. line[l].reserved \in Int /\ line[l].shipped \in Int /\ QtyOf(l, reservation, q) \in Int
      BY <1>0, TableTypes
    <3>2. QtyOf(l, reservation, Minus(q)) = 0 - QtyOf(l, reservation, q)
      BY <1>0, MinusMoves
    <3>3. line'[l].reserved = line[l].reserved - QtyOf(l, reservation, q)
      BY <1>5
    <3>4. line'[l].shipped = line[l].shipped + QtyOf(l, reservation, Still)
      BY <1>5, <3>1, StillMovesNothing
    <3> QED BY <3>1, <3>2, <3>3, <3>4
  <2> QED BY <2>1, <2>2 DEF CountersFollow
<1>11. /\ ReservedIsHeld' /\ LineIsHeld'
       /\ \A b \in Balances : QtyOn(b, reservation', ConsumedOf')
              = QtyOn(b, reservation, ConsumedOf) + QtyOn(b, reservation, Still)
  <2>1. Minus(q) \in [Rows -> Int] /\ Still \in [Rows -> Int]
    BY <1>0, MinusMoves, StillMovesNothing
  <2> QED BY <2>1, <1>7, <1>9, <1>10, ColumnTypesNext, CountersStayInStep
<1>12. NeverOversold'
  <2> SUFFICES ASSUME NEW b \in Balances
               PROVE  balance'[b].reserved >= 0
                        /\ balance'[b].reserved + Locked[b] <= balance'[b].onHand
    BY DEF NeverOversold
  <2>1. balance'[b].reserved = QtyOn(b, reservation', RemainingOf')
    BY <1>11 DEF ReservedIsHeld
  <2>2. \A n \in Rows : RemainingOf'[n] >= 0
    BY <1>7, <1>8, ColumnTypesNext DEF RowsConsistent
  <2>3. balance'[b].reserved >= 0
    BY <1>7, <2>1, <2>2, ColumnTypesNext, QtyOnNat
  <2>4. balance[b].reserved + Locked[b] <= balance[b].onHand
    BY DEF RInv, NeverOversold
  <2>5. balance[b].reserved \in Int /\ balance[b].onHand \in Int /\ Locked[b] \in Int
    BY StockAssumption, TableTypes
  <2> QED BY <1>0, <1>4, <2>3, <2>4, <2>5
<1>13. ConsumedIsIssued'
  <2> SUFFICES ASSUME NEW n \in Rows
               PROVE  reservation'[n].consumed = Total([s \in 1..NS |-> issue'[s][n]], NS)
    BY DEF ConsumedIsIssued
  <2>1. reservation'[n].consumed = reservation[n].consumed
    BY <1>3, RowTypes DEF Drawn, Still
  <2> QED BY <2>1, <1>1 DEF RInv, ConsumedIsIssued
<1>14. LedgerExplainsStock'
  <2> SUFFICES ASSUME NEW b \in Balances
               PROVE  balance'[b].onHand = Opening[b]
                        + Total([a \in 1..NA |-> IF adjustment'[a].balance = b
                                                  THEN adjustment'[a].delta ELSE 0], NA)
                        - QtyOn(b, reservation', ConsumedOf')
    BY DEF LedgerExplainsStock
  <2>1. QtyOn(b, reservation', ConsumedOf') = QtyOn(b, reservation, ConsumedOf)
    BY <1>11, StillMovesNothing, ColumnTypes, QtyOnType
  <2> QED BY <2>1, <1>1, <1>4 DEF RInv, LedgerExplainsStock
<1> QED BY <1>7, <1>8, <1>11, <1>12, <1>13, <1>14 DEF RInv

\* A batch of consumption keeps the books balanced.
LEMMA ConsumeAllInv ==
  ASSUME RInv, NEW s \in 1..NS, NEW q \in Quantities, ConsumeAll(s, q)
  PROVE  RInv'
<1>0. /\ q \in [Rows -> Int]
      /\ \A n \in Rows : q[n] \in Nat /\ q[n] \in Int /\ q[n] >= 0
      /\ \A b \in Balances : /\ QtyOn(b, reservation, q) \in Int
                              /\ QtyOn(b, reservation, q) >= 0
      /\ \A l \in Lines : QtyOf(l, reservation, q) \in Int
  BY BatchTypes
<1>1. /\ issue' = [issue EXCEPT ![s] = [n \in Rows |-> @[n] + q[n]]]
      /\ adjustment' = adjustment
      /\ reservation' = [n \in Rows |-> reservation'[n]]
  BY DEF ConsumeAll
<1>2. /\ balance' = [b \in Balances |->
           [onHand   |-> balance[b].onHand - QtyOn(b, reservation, q),
            reserved |-> balance[b].reserved - QtyOn(b, reservation, q)]]
      /\ line' = [l \in Lines |->
           [line[l] EXCEPT !.reserved = @ - QtyOf(l, reservation, q),
                           !.shipped  = @ + QtyOf(l, reservation, q)]]
  BY DEF ConsumeAll
<1>3. Drawn(q, q)
  <2> SUFFICES ASSUME NEW n \in Rows
               PROVE  /\ reservation'[n] \in RowSet
                      /\ reservation'[n].line = reservation[n].line
                      /\ reservation'[n].balance = reservation[n].balance
                      /\ Remaining(reservation'[n]) = Remaining(reservation[n]) - q[n]
                      /\ reservation'[n].consumed = reservation[n].consumed + q[n]
                      /\ q[n] <= Remaining(reservation[n])
                      /\ q[n] = 0 => reservation'[n] = reservation[n]
                      /\ q[n] # 0 => /\ reservation'[n].status # NoRow
                                     /\ (reservation'[n].status = "active")
                                          <=> (Remaining(reservation'[n]) > 0)
    BY DEF Drawn
  <2>1. reservation[n] \in RowSet /\ Remaining(reservation[n]) \in Nat
          /\ reservation[n].consumed \in Nat
    BY RowTypes DEF RowSet
  <2>2. q[n] <= Remaining(reservation[n])
    BY DEF ConsumeAll
  <2>3. CASE q[n] = 0
    <3>1. reservation'[n] = reservation[n]
      BY <2>3 DEF ConsumeAll
    <3> QED BY <2>1, <2>2, <2>3, <3>1
  <2>4. CASE q[n] # 0
    <3>1. reservation'[n] = Settled([reservation[n] EXCEPT !.consumed = @ + q[n]], "consumed")
      BY <2>4 DEF ConsumeAll
    <3>2. q[n] \in Nat /\ q[n] > 0
      BY <1>0, <2>4
    <3>4. /\ reservation'[n] \in RowSet
          /\ reservation'[n].line = reservation[n].line
          /\ reservation'[n].balance = reservation[n].balance
          /\ Remaining(reservation'[n]) = Remaining(reservation[n]) - q[n]
          /\ reservation'[n].consumed = reservation[n].consumed + q[n]
          /\ reservation'[n].status # NoRow
          /\ (reservation'[n].status = "active") <=> (Remaining(reservation'[n]) > 0)
      BY <2>1, <2>2, <3>1, <3>2, ConsumedRow
    <3> QED BY <2>2, <2>4, <3>4
  <2> QED BY <2>3, <2>4
<1>4. /\ balance' \in [Balances -> [onHand : Int, reserved : Int]]
      /\ \A b \in Balances : /\ balance'[b].onHand = balance[b].onHand - QtyOn(b, reservation, q)
                              /\ balance'[b].reserved = balance[b].reserved - QtyOn(b, reservation, q)
  <2>1. \A b \in Balances : QtyOn(b, reservation, q) \in Int
    BY <1>0
  <2>2. balance \in [Balances -> [onHand : Int, reserved : Int]]
    BY TableTypes
  <2>b. balance' = [b \in Balances |->
           [onHand   |-> balance[b].onHand - QtyOn(b, reservation, q),
            reserved |-> balance[b].reserved - QtyOn(b, reservation, q)]]
    BY <1>2
  <2>3. balance' \in [Balances -> [onHand : Int, reserved : Int]]
    BY <2>b, <2>1, <2>2
  <2>4. \A b \in Balances : /\ balance'[b].onHand = balance[b].onHand - QtyOn(b, reservation, q)
                            /\ balance'[b].reserved = balance[b].reserved - QtyOn(b, reservation, q)
    BY <2>b, <2>2
  <2> QED BY <2>3, <2>4
<1>5. /\ line' \in [Lines -> [reserved : Int, shipped : Int, cancelled : Int]]
      /\ \A l \in Lines : /\ line'[l].reserved = line[l].reserved - QtyOf(l, reservation, q)
                           /\ line'[l].shipped = line[l].shipped + QtyOf(l, reservation, q)
  <2>1. \A l \in Lines : QtyOf(l, reservation, q) \in Int
    BY <1>0
  <2>2. line \in [Lines -> [reserved : Int, shipped : Int, cancelled : Int]]
    BY TableTypes
  <2>b. line' = [l \in Lines |->
           [line[l] EXCEPT !.reserved = @ - QtyOf(l, reservation, q),
                           !.shipped  = @ + QtyOf(l, reservation, q)]]
    BY <1>2
  <2>3. line' \in [Lines -> [reserved : Int, shipped : Int, cancelled : Int]]
    <3>1. ASSUME NEW l \in Lines
          PROVE  line'[l] \in [reserved : Int, shipped : Int, cancelled : Int]
      <4>1. line[l].reserved \in Int /\ line[l].shipped \in Int /\ line[l].cancelled \in Int
        BY <2>2
      <4>2. line[l] = [reserved |-> line[l].reserved, shipped |-> line[l].shipped,
                       cancelled |-> line[l].cancelled]
        BY <2>2
      <4>3. line'[l] = [reserved |-> line[l].reserved - QtyOf(l, reservation, q),
                        shipped |-> line[l].shipped + QtyOf(l, reservation, q),
                        cancelled |-> line[l].cancelled]
        BY <2>b, <4>2
      <4> QED BY <2>1, <4>1, <4>3
    <3>2. line' = [l \in Lines |-> line'[l]]
      BY <2>b
    <3> QED BY <3>1, <3>2
  <2>4. \A l \in Lines : /\ line'[l].reserved = line[l].reserved - QtyOf(l, reservation, q)
                         /\ line'[l].shipped = line[l].shipped + QtyOf(l, reservation, q)
    BY <2>b, <2>2
  <2> QED BY <2>3, <2>4
<1>i. /\ issue' \in [1..NS -> [Rows -> Nat]]
      /\ \A t \in 1..NS, n \in Rows :
           issue'[t][n] = IF t = s THEN issue[s][n] + q[n] ELSE issue[t][n]
  <2>1. issue \in [1..NS -> [Rows -> Nat]]
    BY TableTypes
  <2>2. [n \in Rows |-> issue[s][n] + q[n]] \in [Rows -> Nat]
    BY <1>0, <2>1
  <2> QED BY <1>1, <2>1, <2>2
<1>6. /\ \A n \in Rows : reservation'[n] \in RowSet
      /\ reservation' = [n \in Rows |-> reservation'[n]]
  BY <1>1, <1>3 DEF Drawn
<1>7. RTypeOK'
  BY <1>1, <1>4, <1>5, <1>6, <1>i, TableTypes DEF
    RTypeOK, BalanceRows, LineRows, ReservationRows, IssueRows, RowSet
<1>8. RowsConsistent'
  BY <1>3, <1>0, DrawnRows
<1>9. RowsFollow(reservation, Minus(q), q)
  BY <1>0, <1>3, <1>7, DrawnFollows
<1>10. CountersFollow(reservation, Minus(q), q)
  <2>1. ASSUME NEW b \in Balances
        PROVE  balance'[b].reserved = balance[b].reserved + QtyOn(b, reservation, Minus(q))
    <3>1. balance[b].reserved \in Int /\ QtyOn(b, reservation, q) \in Int
      BY <1>0, TableTypes
    <3>2. QtyOn(b, reservation, Minus(q)) = 0 - QtyOn(b, reservation, q)
      BY <1>0, MinusMoves
    <3>3. balance'[b].reserved = balance[b].reserved - QtyOn(b, reservation, q)
      BY <1>4
    <3> QED BY <3>1, <3>2, <3>3
  <2>2. ASSUME NEW l \in Lines
        PROVE  /\ line'[l].reserved = line[l].reserved + QtyOf(l, reservation, Minus(q))
               /\ line'[l].shipped = line[l].shipped + QtyOf(l, reservation, q)
    <3>1. line[l].reserved \in Int /\ line[l].shipped \in Int /\ QtyOf(l, reservation, q) \in Int
      BY <1>0, TableTypes
    <3>2. QtyOf(l, reservation, Minus(q)) = 0 - QtyOf(l, reservation, q)
      BY <1>0, MinusMoves
    <3>3. line'[l].reserved = line[l].reserved - QtyOf(l, reservation, q)
      BY <1>5
    <3>4. line'[l].shipped = line[l].shipped + QtyOf(l, reservation, q)
      BY <1>5
    <3> QED BY <3>1, <3>2, <3>3, <3>4
  <2> QED BY <2>1, <2>2 DEF CountersFollow
<1>11. /\ ReservedIsHeld' /\ LineIsHeld'
       /\ \A b \in Balances : QtyOn(b, reservation', ConsumedOf')
              = QtyOn(b, reservation, ConsumedOf) + QtyOn(b, reservation, q)
  <2>1. Minus(q) \in [Rows -> Int]
    BY <1>0, MinusMoves
  <2> QED BY <2>1, <1>0, <1>7, <1>9, <1>10, ColumnTypesNext, CountersStayInStep
<1>12. NeverOversold'
  <2> SUFFICES ASSUME NEW b \in Balances
               PROVE  balance'[b].reserved >= 0
                        /\ balance'[b].reserved + Locked[b] <= balance'[b].onHand
    BY DEF NeverOversold
  <2>1. balance'[b].reserved = QtyOn(b, reservation', RemainingOf')
    BY <1>11 DEF ReservedIsHeld
  <2>2. \A n \in Rows : RemainingOf'[n] >= 0
    BY <1>7, <1>8, ColumnTypesNext DEF RowsConsistent
  <2>3. balance'[b].reserved >= 0
    BY <1>7, <2>1, <2>2, ColumnTypesNext, QtyOnNat
  <2>4. balance[b].reserved + Locked[b] <= balance[b].onHand
    BY DEF RInv, NeverOversold
  <2>5. balance[b].reserved \in Int /\ balance[b].onHand \in Int /\ Locked[b] \in Int
    BY StockAssumption, TableTypes
  <2> QED BY <1>0, <1>4, <2>3, <2>4, <2>5
<1>13. ConsumedIsIssued'
  <2> SUFFICES ASSUME NEW n \in Rows
               PROVE  reservation'[n].consumed = Total([t \in 1..NS |-> issue'[t][n]], NS)
    BY DEF ConsumedIsIssued
  <2> DEFINE f == [t \in 1..NS |-> issue[t][n]]
             h == [t \in 1..NS |-> issue'[t][n]]
  <2>1. f \in [1..NS -> Int] /\ h \in [1..NS -> Int]
    BY <1>i, TableTypes
  <2>2. \A t \in 1..NS : t # s => h[t] = f[t]
    BY <1>i
  <2>3. h[s] = f[s] + q[n] /\ f[s] \in Int /\ q[n] \in Int
    BY <1>0, <1>i, <2>1
  <2>4. reservation[n].consumed = Total(f, NS)
    BY DEF RInv, ConsumedIsIssued
  <2>5. reservation'[n].consumed = reservation[n].consumed + q[n]
    BY <1>3 DEF Drawn
  <2> HIDE DEF f, h
  <2>6. Total(h, NS) = Total(f, NS) + h[s] - f[s]
    BY <2>1, <2>2, TotalChange, RowsAssumption
  <2>7. Total(f, NS) \in Int
    BY <2>1, TotalType, RowsAssumption
  <2>8. reservation'[n].consumed = Total(h, NS)
    BY <2>3, <2>4, <2>5, <2>6, <2>7
  <2> QED BY <2>8 DEF h
<1>14. LedgerExplainsStock'
  <2> SUFFICES ASSUME NEW b \in Balances
               PROVE  balance'[b].onHand = Opening[b]
                        + Total([a \in 1..NA |-> IF adjustment'[a].balance = b
                                                  THEN adjustment'[a].delta ELSE 0], NA)
                        - QtyOn(b, reservation', ConsumedOf')
    BY DEF LedgerExplainsStock
  <2> DEFINE adj == Total([a \in 1..NA |-> IF adjustment[a].balance = b
                                           THEN adjustment[a].delta ELSE 0], NA)
  <2>1. QtyOn(b, reservation', ConsumedOf')
          = QtyOn(b, reservation, ConsumedOf) + QtyOn(b, reservation, q)
    BY <1>11
  <2>2. balance[b].onHand = Opening[b] + adj - QtyOn(b, reservation, ConsumedOf)
    BY DEF RInv, LedgerExplainsStock
  <2>3. QtyOn(b, reservation, ConsumedOf) \in Int /\ QtyOn(b, reservation, q) \in Int
    BY <1>0, ColumnTypes, QtyOnType
  <2>4. adj \in Int /\ Opening[b] \in Int
    <3>1. [a \in 1..NA |-> IF adjustment[a].balance = b
                            THEN adjustment[a].delta ELSE 0] \in [1..NA -> Int]
      BY TableTypes
    <3>2. Total([a \in 1..NA |-> IF adjustment[a].balance = b
                                THEN adjustment[a].delta ELSE 0], NA) \in Int
      BY <3>1, TotalType, RowsAssumption
    <3>3. Opening[b] \in Int
      BY StockAssumption
    <3> QED BY <3>2, <3>3
  <2>5. adjustment' = adjustment
    BY <1>1
  <2>6. balance'[b].onHand = balance[b].onHand - QtyOn(b, reservation, q)
    BY <1>4
  <2> HIDE DEF adj
  <2>7. balance'[b].onHand = Opening[b] + adj - QtyOn(b, reservation', ConsumedOf')
    BY <2>1, <2>2, <2>3, <2>4, <2>6
  <2> QED BY <2>5, <2>7 DEF adj
<1> QED BY <1>7, <1>8, <1>11, <1>12, <1>13, <1>14 DEF RInv

\* An adjustment of stock on hand keeps the books balanced.
LEMMA AdjustOnHandInv ==
  ASSUME RInv, NEW a \in 1..NA, NEW b \in Balances, NEW delta \in Deltas,
         AdjustOnHand(a, b, delta)
  PROVE  RInv'
<1>0. delta \in Int /\ delta # 0 /\ adjustment[a].delta = 0
  BY StockAssumption DEF AdjustOnHand
<1>1. line' = line /\ reservation' = reservation /\ issue' = issue
  BY DEF AdjustOnHand
<1>2. /\ balance \in [Balances -> [onHand : Int, reserved : Int]]
      /\ adjustment \in [1..NA -> [balance : Balances \cup {NoRow}, delta : Int]]
  BY TableTypes
<1>3. /\ balance' \in [Balances -> [onHand : Int, reserved : Int]]
      /\ \A c \in Balances : balance'[c].reserved = balance[c].reserved
  <2>1. balance' = [balance EXCEPT ![b].onHand = @ + delta]
    BY DEF AdjustOnHand
  <2>2. balance[b].onHand + delta \in Int
    BY <1>0, <1>2
  <2>3. balance' \in [Balances -> [onHand : Int, reserved : Int]]
    BY <2>1, <2>2, <1>2
  <2>4. \A c \in Balances : balance'[c].reserved = balance[c].reserved
    BY <2>1, <1>2
  <2> QED BY <2>3, <2>4
<1>4. \A c \in Balances :
        balance'[c].onHand = IF c = b THEN balance[b].onHand + delta ELSE balance[c].onHand
  BY <1>2 DEF AdjustOnHand
<1>5. adjustment' = [adjustment EXCEPT ![a] = [balance |-> b, delta |-> delta]]
  BY DEF AdjustOnHand
<1>6. adjustment' \in [1..NA -> [balance : Balances \cup {NoRow}, delta : Int]]
  BY <1>0, <1>2, <1>5
<1>7. RTypeOK'
  BY <1>1, <1>3, <1>6 DEF RInv, RTypeOK, BalanceRows, LineRows, ReservationRows, IssueRows
<1>8. RowsConsistent' /\ ConsumedIsIssued'
  BY <1>1 DEF RInv, RowsConsistent, ConsumedIsIssued
<1>9. RemainingOf' = RemainingOf /\ ConsumedOf' = ConsumedOf
  BY <1>1 DEF RemainingOf, ConsumedOf
<1>10. ReservedIsHeld'
  BY <1>1, <1>3, <1>9 DEF RInv, ReservedIsHeld
<1>11. LineIsHeld'
  BY <1>1, <1>9 DEF RInv, LineIsHeld
<1>12. NeverOversold'
  <2> SUFFICES ASSUME NEW c \in Balances
               PROVE  balance'[c].reserved >= 0
                        /\ balance'[c].reserved + Locked[c] <= balance'[c].onHand
    BY DEF NeverOversold
  <2>1. balance[c].reserved >= 0 /\ balance[c].reserved + Locked[c] <= balance[c].onHand
    BY DEF RInv, NeverOversold
  <2>2. balance[b].onHand + delta >= balance[b].reserved + Locked[b]
    BY DEF AdjustOnHand
  <2>3. balance'[c].reserved = balance[c].reserved
    BY <1>3
  <2>4. balance[b].onHand \in Int /\ balance[b].reserved \in Int /\ Locked[b] \in Int
    BY <1>2, StockAssumption
  <2> QED BY <1>0, <1>4, <2>1, <2>2, <2>3, <2>4
<1>13. LedgerExplainsStock'
  <2> SUFFICES ASSUME NEW c \in Balances
               PROVE  balance'[c].onHand = Opening[c]
                        + Total([k \in 1..NA |-> IF adjustment'[k].balance = c
                                                  THEN adjustment'[k].delta ELSE 0], NA)
                        - QtyOn(c, reservation', ConsumedOf')
    BY DEF LedgerExplainsStock
  <2> DEFINE f == [k \in 1..NA |-> IF adjustment[k].balance = c
                                    THEN adjustment[k].delta ELSE 0]
             h == [k \in 1..NA |-> IF adjustment'[k].balance = c
                                    THEN adjustment'[k].delta ELSE 0]
  <2>1. f \in [1..NA -> Int] /\ h \in [1..NA -> Int]
    BY <1>2, <1>6
  <2>2. \A k \in 1..NA : k # a => h[k] = f[k]
    BY <1>2, <1>5
  <2>3. f[a] = 0 /\ h[a] = IF c = b THEN delta ELSE 0
    BY <1>0, <1>2, <1>5
  <2>4. balance[c].onHand = Opening[c] + Total(f, NA) - QtyOn(c, reservation, ConsumedOf)
    BY DEF RInv, LedgerExplainsStock
  <2> HIDE DEF f, h
  <2>5. Total(h, NA) = Total(f, NA) + h[a] - f[a]
    BY <2>1, <2>2, TotalChange, RowsAssumption
  <2>6. Total(f, NA) \in Int
    BY <2>1, TotalType, RowsAssumption
  <2>7. QtyOn(c, reservation, ConsumedOf) \in Int
    BY ColumnTypes, QtyOnType
  <2>8. Opening[c] \in Int
    BY StockAssumption
  <2>9. QtyOn(c, reservation', ConsumedOf') = QtyOn(c, reservation, ConsumedOf)
    BY <1>1, <1>9
  <2>10. balance'[c].onHand = Opening[c] + Total(h, NA) - QtyOn(c, reservation, ConsumedOf)
    <3>1. CASE c = b
      <4>1. balance'[c].onHand = balance[c].onHand + delta
        BY <1>4, <3>1
      <4>2. Total(h, NA) = Total(f, NA) + delta
        BY <1>0, <2>3, <2>5, <2>6, <3>1
      <4> QED BY <1>0, <2>4, <2>6, <2>7, <2>8, <4>1, <4>2
    <3>2. CASE c # b
      <4>1. balance'[c].onHand = balance[c].onHand
        BY <1>4, <3>2
      <4>2. Total(h, NA) = Total(f, NA)
        BY <2>3, <2>5, <2>6, <3>2
      <4> QED BY <2>4, <4>1, <4>2
    <3> QED BY <3>1, <3>2
  <2> QED BY <2>9, <2>10 DEF h
<1> QED BY <1>7, <1>8, <1>10, <1>11, <1>12, <1>13 DEF RInv

\* A step that writes none of the tables leaves the books as they are.
LEMMA StutterInv == ASSUME RInv, UNCHANGED rVars PROVE RInv'
<1>1. /\ balance' = balance /\ line' = line /\ reservation' = reservation
      /\ issue' = issue /\ adjustment' = adjustment
  BY DEF rVars
<1>2. RemainingOf' = RemainingOf /\ ConsumedOf' = ConsumedOf
  BY <1>1 DEF RemainingOf, ConsumedOf
<1>3. RTypeOK' /\ RowsConsistent'
  BY <1>1 DEF RInv, RTypeOK, BalanceRows, LineRows, ReservationRows, IssueRows, RowsConsistent
<1>4. ReservedIsHeld' /\ LineIsHeld'
  BY <1>1, <1>2 DEF RInv, ReservedIsHeld, LineIsHeld
<1>5. NeverOversold' /\ ConsumedIsIssued'
  BY <1>1 DEF RInv, NeverOversold, ConsumedIsIssued
<1>6. LedgerExplainsStock'
  BY <1>1, <1>2 DEF RInv, LedgerExplainsStock
<1> QED BY <1>3, <1>4, <1>5, <1>6 DEF RInv

LEMMA RNextInv == RInv /\ [RNext]_rVars => RInv'
<1> SUFFICES ASSUME RInv, [RNext]_rVars PROVE RInv'
  OBVIOUS
<1>1. CASE \E q \in Quantities, place \in [Rows -> [line : Lines, balance : Balances]] :
             ReserveAll(place, q)
  BY <1>1, ReserveAllInv
<1>2. CASE \E q \in Quantities, dropped \in SUBSET Lines : ReleaseAll(q, dropped)
  BY <1>2, ReleaseAllInv
<1>3. CASE \E s \in 1..NS, q \in Quantities : ConsumeAll(s, q)
  BY <1>3, ConsumeAllInv
<1>4. CASE \E a \in 1..NA, b \in Balances, delta \in Deltas : AdjustOnHand(a, b, delta)
  BY <1>4, AdjustOnHandInv
<1>5. CASE UNCHANGED rVars
  BY <1>5, StutterInv
<1> QED BY <1>1, <1>2, <1>3, <1>4, <1>5 DEF RNext
-----------------------------------------------------------------------------
\* All the books balance in every state the services reach.
THEOREM ReservationBooks == RSpec => []RInv
<1> QED BY RInitInv, RNextInv, PTL DEF RSpec

\* The tables hold rows of their types.
THEOREM ReservationsTyped == RSpec => []RTypeOK
<1>1. RInv => RTypeOK
  BY DEF RInv
<1> QED BY <1>1, ReservationBooks, PTL

\* No stock is promised twice, whatever is reserved, released, shipped and
\* adjusted, in whatever order.
THEOREM StockNeverOversold == RSpec => []NeverOversold
<1>1. RInv => NeverOversold
  BY DEF RInv
<1> QED BY <1>1, ReservationBooks, PTL

\* The reserved counter of a balance is what its reservations still hold.
THEOREM BalanceIsHeld == RSpec => []ReservedIsHeld
<1>1. RInv => ReservedIsHeld
  BY DEF RInv
<1> QED BY <1>1, ReservationBooks, PTL

\* So the books of the stock agree.
THEOREM StockSound == RSpec => []StockIsSound
<1>1. RInv => StockIsSound
  BY DEF RInv, StockIsSound
<1> QED BY <1>1, ReservationBooks, PTL

\* The counters of an order line are what its reservations hold and consumed.
THEOREM LineCounters == RSpec => []LineIsHeld
<1>1. RInv => LineIsHeld
  BY DEF RInv
<1> QED BY <1>1, ReservationBooks, PTL

\* Opening stock plus the whole ledger is the stock on hand.
THEOREM LedgerReconciles == RSpec => [](LedgerExplainsStock /\ ConsumedIsIssued)
<1>1. RInv => LedgerExplainsStock /\ ConsumedIsIssued
  BY DEF RInv
<1> QED BY <1>1, ReservationBooks, PTL

Kept == /\ \A s \in 1..NS, n \in Rows : issue[s][n] > 0 => issue'[s][n] = issue[s][n]
        /\ \A a \in 1..NA : adjustment[a].delta # 0 => adjustment'[a] = adjustment[a]
        /\ \A n \in Rows : reservation[n].status \in {"consumed", "released"}
                             => reservation'[n] = reservation[n]

\* A settled reservation has nothing left to draw from.
LEMMA SettledIsEmpty ==
  ASSUME RInv, NEW n \in Rows, reservation[n].status \in {"consumed", "released"}
  PROVE  Remaining(reservation[n]) = 0 /\ reservation[n] # EmptyRow
<1>1. reservation[n].status # "active" /\ reservation[n].status # NoRow
  BY StockAssumption
<1>2. Remaining(reservation[n]) \in Nat
  BY RowTypes
<1>3. ~(Remaining(reservation[n]) > 0)
  BY <1>1 DEF RInv, RowsConsistent
<1> QED BY <1>1, <1>2, <1>3 DEF EmptyRow

LEMMA NextKeeps == ASSUME RInv, [RNext]_rVars PROVE Kept
<1>1. ASSUME NEW q \in Quantities, NEW place \in [Rows -> [line : Lines, balance : Balances]],
             ReserveAll(place, q)
      PROVE  Kept
  <2>1. issue' = issue /\ adjustment' = adjustment
    BY <1>1 DEF ReserveAll
  <2>2. ASSUME NEW n \in Rows, reservation[n].status \in {"consumed", "released"}
        PROVE  reservation'[n] = reservation[n]
    <3>1. reservation[n] # EmptyRow
      BY <2>2, SettledIsEmpty
    <3>2. q[n] = 0
      BY <1>1, <3>1, BatchTypes DEF ReserveAll
    <3> QED BY <1>1, <3>2 DEF ReserveAll
  <2> QED BY <2>1, <2>2 DEF Kept
<1>2. ASSUME NEW q \in Quantities, NEW dropped \in SUBSET Lines, ReleaseAll(q, dropped)
      PROVE  Kept
  <2>1. issue' = issue /\ adjustment' = adjustment
    BY <1>2 DEF ReleaseAll
  <2>2. ASSUME NEW n \in Rows, reservation[n].status \in {"consumed", "released"}
        PROVE  reservation'[n] = reservation[n]
    <3>1. Remaining(reservation[n]) = 0
      BY <2>2, SettledIsEmpty
    <3>2. q[n] <= Remaining(reservation[n]) /\ q[n] \in Nat
      BY <1>2, BatchTypes DEF ReleaseAll
    <3>3. q[n] = 0
      BY <3>1, <3>2
    <3> QED BY <1>2, <3>3 DEF ReleaseAll
  <2> QED BY <2>1, <2>2 DEF Kept
<1>3. ASSUME NEW s \in 1..NS, NEW q \in Quantities, ConsumeAll(s, q)
      PROVE  Kept
  <2>1. adjustment' = adjustment
    BY <1>3 DEF ConsumeAll
  <2>2. ASSUME NEW n \in Rows, reservation[n].status \in {"consumed", "released"}
        PROVE  reservation'[n] = reservation[n]
    <3>1. Remaining(reservation[n]) = 0
      BY <2>2, SettledIsEmpty
    <3>2. q[n] <= Remaining(reservation[n]) /\ q[n] \in Nat
      BY <1>3, BatchTypes DEF ConsumeAll
    <3>3. q[n] = 0
      BY <3>1, <3>2
    <3> QED BY <1>3, <3>3 DEF ConsumeAll
  <2>3. ASSUME NEW t \in 1..NS, NEW n \in Rows, issue[t][n] > 0
        PROVE  issue'[t][n] = issue[t][n]
    <3>1. issue \in [1..NS -> [Rows -> Nat]]
      BY TableTypes
    <3>2. issue' = [issue EXCEPT ![s] = [m \in Rows |-> @[m] + q[m]]]
      BY <1>3 DEF ConsumeAll
    <3>3. CASE t # s
      BY <3>1, <3>2, <3>3
    <3>4. CASE t = s
      <4>0. issue[s][n] # 0
        BY <2>3, <3>4
      <4>1. ~(q[n] > 0)
        BY <1>3, <4>0 DEF ConsumeAll
      <4>2. q[n] = 0
        BY <1>3, <4>1, BatchTypes
      <4>3. issue'[t][n] = issue[t][n] + q[n]
        BY <3>1, <3>2, <3>4
      <4> QED BY <3>1, <4>2, <4>3
    <3> QED BY <3>3, <3>4
  <2> QED BY <2>1, <2>2, <2>3 DEF Kept
<1>4. ASSUME NEW a \in 1..NA, NEW b \in Balances, NEW delta \in Deltas,
             AdjustOnHand(a, b, delta)
      PROVE  Kept
  <2>1. issue' = issue /\ reservation' = reservation /\ adjustment[a].delta = 0
    BY <1>4 DEF AdjustOnHand
  <2>2. adjustment' = [adjustment EXCEPT ![a] = [balance |-> b, delta |-> delta]]
    BY <1>4 DEF AdjustOnHand
  <2>3. adjustment \in [1..NA -> [balance : Balances \cup {NoRow}, delta : Int]]
    BY TableTypes
  <2>4. \A k \in 1..NA : adjustment[k].delta # 0 => adjustment'[k] = adjustment[k]
    BY <2>1, <2>2, <2>3
  <2> QED BY <2>1, <2>4 DEF Kept
<1>5. CASE UNCHANGED rVars
  BY <1>5 DEF rVars, Kept
<1> QED BY <1>1, <1>2, <1>3, <1>4, <1>5 DEF RNext

\* The ledger is append-only and a settled reservation never moves again.
THEOREM LedgerAppendOnly == RSpec => HistoryIsKept
<1>1. RInv /\ [RNext]_rVars => [Kept]_rVars
  BY NextKeeps
<1> QED BY <1>1, ReservationBooks, PTL DEF RSpec, HistoryIsKept, Kept
-----------------------------------------------------------------------------
(***************************************************************************)
(* The credit books of CreditLines for any number of orders, any amounts   *)
(* and any limits.  CInv is inductive: the account's counter needs the     *)
(* commitments' types, and the limit needs the counter, because what is    *)
(* held without approval is a part of it.                                  *)
(***************************************************************************)
CInv == CTypeOK /\ CommitmentsConsistent /\ CommittedIsHeld /\ LimitHolds

Commitment == [amount : Nat, released : Nat, approved : BOOLEAN,
               status : {"none", "active", "released"}]

\* The columns the totals of one account add up.
HeldColumn(a, com) ==
  [o \in CreditOrders |-> IF AccountOf[o] = a THEN Outstanding(com[o]) ELSE 0]
UnapprovedColumn(a, com) ==
  [o \in CreditOrders |-> IF AccountOf[o] = a /\ ~com[o].approved
                          THEN Outstanding(com[o]) ELSE 0]

\* They are columns of integers.
LEMMA ColumnsTyped ==
  ASSUME NEW a, NEW com \in [CreditOrders -> Commitment]
  PROVE  /\ HeldColumn(a, com) \in [1..NO -> Int]
         /\ UnapprovedColumn(a, com) \in [1..NO -> Int]
<1>1. \A o \in CreditOrders : Outstanding(com[o]) \in Int
  BY DEF Commitment, Outstanding
<1> QED BY <1>1 DEF HeldColumn, UnapprovedColumn, CreditOrders

\* What is held without approval is at most what is held.
LEMMA UnapprovedIsPart ==
  ASSUME NEW a, NEW com \in [CreditOrders -> Commitment],
         \A o \in CreditOrders : Outstanding(com[o]) >= 0
  PROVE  /\ Total(UnapprovedColumn(a, com), NO) <= Total(HeldColumn(a, com), NO)
         /\ Total(UnapprovedColumn(a, com), NO) \in Int
         /\ Total(HeldColumn(a, com), NO) \in Int
<1> DEFINE rest == [o \in CreditOrders |-> IF AccountOf[o] = a /\ com[o].approved
                                           THEN Outstanding(com[o]) ELSE 0]
           f == UnapprovedColumn(a, com)
           h == HeldColumn(a, com)
<1>1. f \in [1..NO -> Int] /\ h \in [1..NO -> Int]
  BY ColumnsTyped
<1>2. rest \in [1..NO -> Int] /\ \A o \in 1..NO : rest[o] >= 0
  BY DEF CreditOrders, Commitment, Outstanding
<1>3. \A o \in 1..NO : h[o] = f[o] + rest[o]
  <2> TAKE o \in 1..NO
  <2>1. Outstanding(com[o]) \in Int /\ com[o].approved \in BOOLEAN
    BY DEF CreditOrders, Commitment, Outstanding
  <2>2. CASE AccountOf[o] = a /\ com[o].approved
    BY <2>1, <2>2 DEF HeldColumn, UnapprovedColumn, CreditOrders
  <2>3. CASE ~(AccountOf[o] = a /\ com[o].approved)
    BY <2>1, <2>3 DEF HeldColumn, UnapprovedColumn, CreditOrders
  <2> QED BY <2>2, <2>3
<1> HIDE DEF rest, f, h
<1>4. NO \in Nat
  BY CreditAssumption
<1>5. Total(h, NO) = Total(f, NO) + Total(rest, NO)
  BY <1>1, <1>2, <1>3, <1>4, TotalPlus
<1>6. Total(rest, NO) >= 0
  BY <1>2, <1>4, TotalCovers
<1>7. Total(rest, NO) \in Int
  BY <1>2, <1>4, TotalType
<1>8. Total(f, NO) \in Int /\ Total(h, NO) \in Int
  BY <1>1, <1>4, TotalType
<1> QED BY <1>5, <1>6, <1>7, <1>8 DEF f, h

\* One commitment changes what it holds by d: the totals of its account move by
\* d, those without approval too unless it was approved, the others not at all.
LEMMA OneCommitmentMoves ==
  ASSUME NEW o \in CreditOrders, NEW d \in Int, NEW a,
         NEW com \in [CreditOrders -> Commitment], NEW new \in [CreditOrders -> Commitment],
         \A p \in CreditOrders : p # o => new[p] = com[p],
         Outstanding(new[o]) = Outstanding(com[o]) + d
  PROVE  /\ Total(HeldColumn(a, new), NO)
              = Total(HeldColumn(a, com), NO) + (IF AccountOf[o] = a THEN d ELSE 0)
         /\ com[o].approved = new[o].approved \/ Outstanding(com[o]) = 0 =>
              Total(UnapprovedColumn(a, new), NO)
                = Total(UnapprovedColumn(a, com), NO)
                  + (IF AccountOf[o] = a /\ ~new[o].approved THEN d ELSE 0)
<1> DEFINE h0 == HeldColumn(a, com)
           h1 == HeldColumn(a, new)
           u0 == UnapprovedColumn(a, com)
           u1 == UnapprovedColumn(a, new)
<1>1. NO \in Nat /\ o \in 1..NO
  BY CreditAssumption DEF CreditOrders
<1>2. h0 \in [1..NO -> Int] /\ h1 \in [1..NO -> Int]
      /\ u0 \in [1..NO -> Int] /\ u1 \in [1..NO -> Int]
  BY ColumnsTyped
<1>3. \A p \in 1..NO : p # o => h1[p] = h0[p] /\ u1[p] = u0[p]
  BY DEF HeldColumn, UnapprovedColumn, CreditOrders
<1>4. Outstanding(com[o]) \in Int /\ com[o].approved \in BOOLEAN /\ new[o].approved \in BOOLEAN
  BY DEF Commitment, Outstanding
<1>5. h1[o] = h0[o] + (IF AccountOf[o] = a THEN d ELSE 0)
  BY <1>4 DEF HeldColumn
<1>6. ASSUME com[o].approved = new[o].approved \/ Outstanding(com[o]) = 0
      PROVE  u1[o] = u0[o] + (IF AccountOf[o] = a /\ ~new[o].approved THEN d ELSE 0)
  BY <1>4, <1>6 DEF UnapprovedColumn
<1> HIDE DEF h0, h1, u0, u1
<1>7. Total(h1, NO) = Total(h0, NO) + h1[o] - h0[o]
  BY <1>1, <1>2, <1>3, TotalChange
<1>8. Total(u1, NO) = Total(u0, NO) + u1[o] - u0[o]
  BY <1>1, <1>2, <1>3, TotalChange
<1>9. Total(h0, NO) \in Int /\ Total(u0, NO) \in Int
  BY <1>1, <1>2, TotalType
<1>10. h0[o] \in Int /\ u0[o] \in Int /\ h1[o] \in Int /\ u1[o] \in Int
  BY <1>1, <1>2
<1>11. Total(h1, NO) = Total(h0, NO) + (IF AccountOf[o] = a THEN d ELSE 0)
  BY <1>5, <1>7, <1>9, <1>10
<1>12. ASSUME com[o].approved = new[o].approved \/ Outstanding(com[o]) = 0
       PROVE  Total(u1, NO) = Total(u0, NO) + (IF AccountOf[o] = a /\ ~new[o].approved THEN d ELSE 0)
  BY <1>6, <1>8, <1>9, <1>10, <1>12
<1> QED BY <1>11, <1>12 DEF h0, h1, u0, u1

\* The properties in terms of the columns.
LEMMA HeldAsColumns ==
  ASSUME NEW a
  PROVE  /\ Held(a) = Total(HeldColumn(a, commitment), NO)
         /\ HeldUnapproved(a) = Total(UnapprovedColumn(a, commitment), NO)
         /\ Held(a)' = Total(HeldColumn(a, commitment'), NO)
         /\ HeldUnapproved(a)' = Total(UnapprovedColumn(a, commitment'), NO)
BY DEF Held, HeldUnapproved, HeldColumn, UnapprovedColumn

\* What the invariant says of the state, fact by fact.
LEMMA CreditFacts ==
  ASSUME CInv
  PROVE  /\ commitment \in [CreditOrders -> Commitment]
         /\ committed \in [Accounts -> Int]
         /\ \A o \in CreditOrders : Outstanding(commitment[o]) >= 0
         /\ \A a \in Accounts :
              /\ committed[a] = Total(HeldColumn(a, commitment), NO)
              /\ Total(UnapprovedColumn(a, commitment), NO)
                   <= Total(HeldColumn(a, commitment), NO)
              /\ Total(UnapprovedColumn(a, commitment), NO) \in Int
<1>1. commitment \in [CreditOrders -> Commitment] /\ committed \in [Accounts -> Int]
  BY DEF CInv, CTypeOK, Commitment
<1>2. \A o \in CreditOrders : Outstanding(commitment[o]) >= 0
  BY DEF CInv, CommitmentsConsistent
<1>3. \A a \in Accounts : committed[a] = Total(HeldColumn(a, commitment), NO)
  BY HeldAsColumns DEF CInv, CommittedIsHeld
<1>4. \A a \in Accounts :
        /\ Total(UnapprovedColumn(a, commitment), NO) <= Total(HeldColumn(a, commitment), NO)
        /\ Total(UnapprovedColumn(a, commitment), NO) \in Int
  BY <1>1, <1>2, UnapprovedIsPart
<1> QED BY <1>1, <1>2, <1>3, <1>4

\* No account holds anything before the first order.
LEMMA CreditInit == CInit => CInv
<1> SUFFICES ASSUME CInit PROVE CInv
  OBVIOUS
<1>1. CTypeOK
  BY DEF CInit, CTypeOK, NoCommitment
<1>2. \A o \in CreditOrders : commitment[o] = NoCommitment /\ Outstanding(commitment[o]) = 0
  BY DEF CInit, NoCommitment, Outstanding
<1>3. CommitmentsConsistent
  <2>1. NoCommitment.status = "none"
    BY DEF NoCommitment
  <2> QED BY <1>2, <2>1 DEF CommitmentsConsistent
<1>4. ASSUME NEW a \in Accounts
      PROVE  Held(a) = 0 /\ HeldUnapproved(a) = 0
  <2> DEFINE h == HeldColumn(a, commitment)
             u == UnapprovedColumn(a, commitment)
  <2>1. /\ h \in [1..NO -> Int] /\ \A o \in 1..NO : h[o] = 0
        /\ u \in [1..NO -> Int] /\ \A o \in 1..NO : u[o] = 0
    BY <1>2 DEF HeldColumn, UnapprovedColumn, CreditOrders
  <2> HIDE DEF h, u
  <2>2. Total(h, NO) = 0 /\ Total(u, NO) = 0
    BY <2>1, TotalZero, CreditAssumption
  <2> QED BY <2>2, HeldAsColumns DEF h, u
<1>5. CommittedIsHeld
  BY <1>4 DEF CInit, CommittedIsHeld
<1>6. LimitHolds
  BY <1>4 DEF LimitHolds
<1> QED BY <1>1, <1>3, <1>5, <1>6 DEF CInv

\* A commitment keeps the books.
LEMMA CommitKeeps ==
  ASSUME CInv, NEW o \in CreditOrders, NEW amount \in Nat \ {0},
         NEW counted \in BOOLEAN, NEW approved \in BOOLEAN,
         CommitCredit(o, amount, counted, approved)
  PROVE  CInv'
<1> DEFINE A == AccountOf[o]
           row == [amount |-> amount, released |-> 0, approved |-> approved,
                   status |-> "active"]
<1>1. /\ commitment[o] = NoCommitment
      /\ approved \/ Exposure(A, amount) <= EffectiveLimit(A, counted)
      /\ committed' = [committed EXCEPT ![A] = @ + amount]
      /\ commitment' = [commitment EXCEPT ![o] = row]
  BY DEF CommitCredit
<1>2. A \in Accounts /\ amount \in Int
  BY CreditAssumption DEF CreditOrders
<1>3. /\ commitment \in [CreditOrders -> Commitment] /\ committed \in [Accounts -> Int]
      /\ \A p \in CreditOrders : Outstanding(commitment[p]) >= 0
  BY CreditFacts
<1>4. commitment' \in [CreditOrders -> Commitment]
  BY <1>1, <1>3 DEF Commitment
<1>5. CTypeOK'
  BY <1>1, <1>2, <1>3, <1>4 DEF CTypeOK, Commitment
<1>6. /\ commitment'[o] = row /\ Outstanding(commitment[o]) = 0
      /\ Outstanding(commitment'[o]) = Outstanding(commitment[o]) + amount
      /\ Outstanding(commitment'[o]) > 0
      /\ \A p \in CreditOrders : p # o => commitment'[p] = commitment[p]
  BY <1>1, <1>3 DEF NoCommitment, Outstanding
<1>7. CommitmentsConsistent'
  <2> SUFFICES ASSUME NEW p \in CreditOrders
               PROVE  /\ Outstanding(commitment'[p]) >= 0
                      /\ (commitment'[p].status = "active")
                           <=> (Outstanding(commitment'[p]) > 0)
                      /\ (commitment'[p].status = "none")
                           <=> (commitment'[p] = NoCommitment)
    BY DEF CommitmentsConsistent, NoCommitment
  <2>1. CASE p # o
    BY <1>6, <2>1 DEF CInv, CommitmentsConsistent
  <2>2. CASE p = o
    <3>1. commitment'[o].status = "active" /\ NoCommitment.status = "none"
      BY <1>6 DEF NoCommitment
    <3> QED BY <1>6, <2>2, <3>1
  <2> QED BY <2>1, <2>2
<1>8. ASSUME NEW a \in Accounts
      PROVE  /\ Total(HeldColumn(a, commitment'), NO)
                  = Total(HeldColumn(a, commitment), NO) + (IF A = a THEN amount ELSE 0)
             /\ Total(UnapprovedColumn(a, commitment'), NO)
                  = Total(UnapprovedColumn(a, commitment), NO)
                    + (IF A = a /\ ~commitment'[o].approved THEN amount ELSE 0)
  BY <1>2, <1>3, <1>4, <1>6, OneCommitmentMoves
<1>9. CommittedIsHeld'
  <2> SUFFICES ASSUME NEW a \in Accounts
               PROVE  committed'[a] = Total(HeldColumn(a, commitment'), NO)
    BY HeldAsColumns DEF CommittedIsHeld
  <2>1. committed[a] = Total(HeldColumn(a, commitment), NO) /\ committed[a] \in Int
    BY CreditFacts
  <2>2. committed'[a] = committed[a] + (IF A = a THEN amount ELSE 0)
    BY <1>1, <1>2, <1>3
  <2> QED BY <1>8, <2>1, <2>2
<1>10. LimitHolds'
  <2> SUFFICES ASSUME NEW a \in Accounts,
                      Total(UnapprovedColumn(a, commitment'), NO) > 0
               PROVE  Total(UnapprovedColumn(a, commitment'), NO) + Receivable[a]
                        <= Permanent[a] + Temporary[a]
    BY HeldAsColumns DEF LimitHolds
  <2> DEFINE U0 == Total(UnapprovedColumn(a, commitment), NO)
             U1 == Total(UnapprovedColumn(a, commitment'), NO)
             H0 == Total(HeldColumn(a, commitment), NO)
  <2>1. U0 \in Int /\ committed[a] = H0 /\ U0 <= H0 /\ committed[a] \in Int
    BY CreditFacts
  <2>2. U0 > 0 => U0 + Receivable[a] <= Permanent[a] + Temporary[a]
    BY HeldAsColumns DEF CInv, LimitHolds
  <2>3. U1 = U0 + (IF A = a /\ ~commitment'[o].approved THEN amount ELSE 0)
    BY <1>8
  <2>4. Receivable[a] \in Nat /\ Permanent[a] \in Nat /\ Temporary[a] \in Nat
    BY CreditAssumption
  <2>5. commitment'[o].approved = approved
    BY <1>6
  <2>6. ASSUME A = a, ~approved
        PROVE  committed[a] + Receivable[a] + amount <= Permanent[a] + Temporary[a]
    <3>1. EffectiveLimit(a, counted) <= Permanent[a] + Temporary[a]
      BY <2>4 DEF EffectiveLimit
    <3>2. EffectiveLimit(a, counted) \in Int
      BY <2>4 DEF EffectiveLimit
    <3>3. Exposure(a, amount) = committed[a] + Receivable[a] + amount
      BY DEF Exposure
    <3>4. Exposure(a, amount) <= EffectiveLimit(a, counted)
      BY <1>1, <2>6
    <3> QED BY <3>1, <3>2, <3>3, <3>4, <2>1, <2>4
  <2>7. ASSUME A = a, ~approved
        PROVE  U1 = U0 + amount
    BY <2>3, <2>5, <2>7
  <2>8. ASSUME ~(A = a /\ ~approved)
        PROVE  U1 = U0
    BY <2>1, <2>3, <2>5, <2>8
  <2>9. U1 > 0
    OBVIOUS
  <2> HIDE DEF U0, U1, H0, A
  <2>10. ASSUME A = a, ~approved
         PROVE  U1 + Receivable[a] <= Permanent[a] + Temporary[a]
    <3>1. U1 = U0 + amount /\ committed[a] + Receivable[a] + amount <= Permanent[a] + Temporary[a]
      BY <2>6, <2>7, <2>10
    <3> QED BY <1>2, <2>1, <2>4, <3>1
  <2>11. ASSUME ~(A = a /\ ~approved)
         PROVE  U1 + Receivable[a] <= Permanent[a] + Temporary[a]
    <3>1. U1 = U0
      BY <2>8, <2>11
    <3> QED BY <2>2, <2>9, <3>1
  <2>12. U1 + Receivable[a] <= Permanent[a] + Temporary[a]
    BY <2>10, <2>11
  <2> QED BY <2>12 DEF U1
<1> QED BY <1>5, <1>7, <1>9, <1>10 DEF CInv

\* A release keeps the books.
LEMMA ReleaseKeeps ==
  ASSUME CInv, NEW o \in CreditOrders, NEW amount \in Nat \ {0},
         ReleaseCredit(o, amount)
  PROVE  CInv'
<1> DEFINE A == AccountOf[o]
           c == commitment[o]
           row == AfterRelease([c EXCEPT !.released = @ + amount])
<1>1. /\ amount <= Outstanding(c)
      /\ commitment' = [commitment EXCEPT ![o] = row]
      /\ committed' = [committed EXCEPT ![A] = @ - amount]
  BY DEF ReleaseCredit
<1>2. A \in Accounts /\ amount \in Int /\ amount > 0 /\ 0 - amount \in Int
  BY CreditAssumption DEF CreditOrders
<1>3. /\ commitment \in [CreditOrders -> Commitment] /\ committed \in [Accounts -> Int]
      /\ \A p \in CreditOrders : Outstanding(commitment[p]) >= 0
  BY CreditFacts
<1>4. c \in Commitment
  BY <1>3
<1>5. /\ row \in Commitment /\ row.amount = c.amount /\ row.released = c.released + amount
      /\ row.approved = c.approved
      /\ row.status = IF row.released = row.amount THEN "released" ELSE c.status
  <2> DEFINE d == [c EXCEPT !.released = @ + amount]
  <2>1. /\ d \in Commitment /\ d.amount = c.amount /\ d.released = c.released + amount
        /\ d.approved = c.approved /\ d.status = c.status
    BY <1>2, <1>4 DEF Commitment
  <2> HIDE DEF d
  <2>2. row = [d EXCEPT !.status = IF d.released = d.amount THEN "released" ELSE @]
    BY DEF AfterRelease, d
  <2>3. row \in Commitment
    BY <2>1, <2>2 DEF Commitment
  <2>4. /\ row.amount = d.amount /\ row.released = d.released /\ row.approved = d.approved
    BY <2>1, <2>2 DEF Commitment
  <2>5. row.status = IF d.released = d.amount THEN "released" ELSE d.status
    BY <2>1, <2>2 DEF Commitment
  <2> HIDE DEF row
  <2> QED BY <2>1, <2>3, <2>4, <2>5
<1>6. /\ commitment'[o] = row
      /\ \A p \in CreditOrders : p # o => commitment'[p] = commitment[p]
  BY <1>1, <1>3
<1>7. commitment' \in [CreditOrders -> Commitment]
  BY <1>1, <1>3, <1>5
<1>8. CTypeOK'
  BY <1>1, <1>2, <1>3, <1>7 DEF CTypeOK, Commitment
<1>9. c.amount \in Int /\ c.released \in Int /\ row.amount \in Int /\ row.released \in Int
  BY <1>4, <1>5 DEF Commitment
<1>10. /\ Outstanding(row) = Outstanding(c) + (0 - amount)
       /\ Outstanding(row) >= 0 /\ Outstanding(c) > 0
       /\ Outstanding(row) = 0 <=> row.released = row.amount
  BY <1>1, <1>2, <1>5, <1>9 DEF Outstanding
<1> HIDE DEF row
<1>11. CommitmentsConsistent'
  <2> SUFFICES ASSUME NEW p \in CreditOrders
               PROVE  /\ Outstanding(commitment'[p]) >= 0
                      /\ (commitment'[p].status = "active")
                           <=> (Outstanding(commitment'[p]) > 0)
                      /\ (commitment'[p].status = "none")
                           <=> (commitment'[p] = NoCommitment)
    BY DEF CommitmentsConsistent, NoCommitment
  <2>1. CASE p # o
    BY <1>6, <2>1 DEF CInv, CommitmentsConsistent
  <2>2. CASE p = o
    <3>1. c.status = "active"
      BY <1>10 DEF CInv, CommitmentsConsistent
    <3>2. row.status # "none" /\ row # NoCommitment
      <4>1. row.status # "none"
        BY <1>5, <3>1
      <4> QED BY <4>1 DEF NoCommitment
    <3>3. (row.status = "active") <=> (Outstanding(row) > 0)
      <4>1. CASE row.released = row.amount
        BY <1>5, <1>10, <4>1
      <4>2. CASE row.released # row.amount
        <5>1. Outstanding(row) # 0 /\ Outstanding(row) \in Int
          BY <1>9, <1>10, <4>2 DEF Outstanding
        <5> QED BY <1>5, <1>10, <3>1, <4>2, <5>1
      <4> QED BY <4>1, <4>2
    <3> QED BY <1>6, <1>10, <2>2, <3>2, <3>3
  <2> QED BY <2>1, <2>2
<1>12. /\ Outstanding(commitment'[o]) = Outstanding(commitment[o]) + (0 - amount)
       /\ commitment[o].approved = commitment'[o].approved
  BY <1>5, <1>6, <1>10
<1>13. ASSUME NEW a \in Accounts
       PROVE  /\ Total(HeldColumn(a, commitment'), NO)
                   = Total(HeldColumn(a, commitment), NO) + (IF A = a THEN 0 - amount ELSE 0)
              /\ Total(UnapprovedColumn(a, commitment'), NO)
                   = Total(UnapprovedColumn(a, commitment), NO)
                     + (IF A = a /\ ~commitment'[o].approved THEN 0 - amount ELSE 0)
  BY <1>2, <1>3, <1>6, <1>7, <1>12, OneCommitmentMoves
<1>14. CommittedIsHeld'
  <2> SUFFICES ASSUME NEW a \in Accounts
               PROVE  committed'[a] = Total(HeldColumn(a, commitment'), NO)
    BY HeldAsColumns DEF CommittedIsHeld
  <2>1. committed[a] = Total(HeldColumn(a, commitment), NO) /\ committed[a] \in Int
    BY CreditFacts
  <2>2. committed'[a] = committed[a] + (IF A = a THEN 0 - amount ELSE 0)
    BY <1>1, <1>2, <1>3
  <2> QED BY <1>13, <2>1, <2>2
<1>15. LimitHolds'
  <2> SUFFICES ASSUME NEW a \in Accounts,
                      Total(UnapprovedColumn(a, commitment'), NO) > 0
               PROVE  Total(UnapprovedColumn(a, commitment'), NO) + Receivable[a]
                        <= Permanent[a] + Temporary[a]
    BY HeldAsColumns DEF LimitHolds
  <2> DEFINE U0 == Total(UnapprovedColumn(a, commitment), NO)
             U1 == Total(UnapprovedColumn(a, commitment'), NO)
             P == A = a /\ ~commitment'[o].approved
  <2>1. U0 \in Int
    BY CreditFacts
  <2>2. U0 > 0 => U0 + Receivable[a] <= Permanent[a] + Temporary[a]
    BY HeldAsColumns DEF CInv, LimitHolds
  <2>3. U1 = U0 + (IF P THEN 0 - amount ELSE 0)
    BY <1>13
  <2>4. Receivable[a] \in Nat /\ Permanent[a] \in Nat /\ Temporary[a] \in Nat
    BY CreditAssumption
  <2>5. U1 > 0
    OBVIOUS
  <2> HIDE DEF U0, U1, P
  <2>6. U1 <= U0 /\ U1 \in Int
    BY <1>2, <2>1, <2>3
  <2>7. U1 + Receivable[a] <= Permanent[a] + Temporary[a]
    BY <2>1, <2>2, <2>4, <2>5, <2>6
  <2> QED BY <2>7 DEF U1
<1> QED BY <1>8, <1>11, <1>14, <1>15 DEF CInv

\* Every step keeps the books.
LEMMA CreditNext == ASSUME CInv, [CNext]_cVars PROVE CInv'
<1>0. Amounts \subseteq Nat \ {0}
  BY CreditAssumption DEF Amounts
<1>1. ASSUME NEW o \in CreditOrders, NEW amount \in Amounts,
             NEW counted \in BOOLEAN, NEW approved \in BOOLEAN,
             CommitCredit(o, amount, counted, approved)
      PROVE  CInv'
  BY <1>0, <1>1, CommitKeeps
<1>2. ASSUME NEW o \in CreditOrders, NEW amount \in Amounts, ReleaseCredit(o, amount)
      PROVE  CInv'
  BY <1>0, <1>2, ReleaseKeeps
<1>3. CASE UNCHANGED cVars
  BY <1>3 DEF cVars, CInv, CTypeOK, CommitmentsConsistent, CommittedIsHeld, LimitHolds,
              Held, HeldUnapproved
<1> QED BY <1>1, <1>2, <1>3 DEF CNext
-----------------------------------------------------------------------------
\* The credit books balance in every state the two services reach.
THEOREM CreditBooks == CSpec => []CInv
<1> QED BY CreditInit, CreditNext, PTL DEF CSpec

\* The tables hold rows of their types.
THEOREM CreditTyped == CSpec => []CTypeOK
<1>1. CInv => CTypeOK
  BY DEF CInv
<1> QED BY <1>1, CreditBooks, PTL

\* The committed counter of an account is what its orders still hold.
THEOREM CounterIsHeld == CSpec => []CommittedIsHeld
<1>1. CInv => CommittedIsHeld
  BY DEF CInv
<1> QED BY <1>1, CreditBooks, PTL

\* Without an approved exception the limit holds, over any history of orders.
THEOREM CreditWithinLimit == CSpec => [](LimitHolds /\ CommitmentsConsistent)
<1>1. CInv => LimitHolds /\ CommitmentsConsistent
  BY DEF CInv
<1> QED BY <1>1, CreditBooks, PTL

\* So the books of the credit agree.
THEOREM CreditSound == CSpec => []CreditIsSound
<1>1. CInv => CreditIsSound
  BY DEF CInv, CreditIsSound
<1> QED BY <1>1, CreditBooks, PTL

CommitmentsKept ==
  \A o \in CreditOrders :
    commitment[o].status # "none" =>
      /\ commitment'[o].amount = commitment[o].amount
      /\ commitment'[o].approved = commitment[o].approved
      /\ commitment'[o].released >= commitment[o].released

LEMMA NextKeepsCommitments == ASSUME CInv, [CNext]_cVars PROVE CommitmentsKept
<1>0. Amounts \subseteq Nat \ {0}
  BY CreditAssumption DEF Amounts
<1>1. commitment \in [CreditOrders -> Commitment]
  BY CreditFacts
<1>2. \A p \in CreditOrders : commitment[p].released >= commitment[p].released
  BY <1>1 DEF Commitment
<1>3. ASSUME NEW o \in CreditOrders, NEW amount \in Amounts,
             NEW counted \in BOOLEAN, NEW approved \in BOOLEAN,
             CommitCredit(o, amount, counted, approved)
      PROVE  CommitmentsKept
  <2>1. commitment[o].status = "none"
    BY <1>3 DEF CommitCredit, NoCommitment
  <2>2. \A p \in CreditOrders : p # o => commitment'[p] = commitment[p]
    BY <1>1, <1>3 DEF CommitCredit
  <2> QED BY <1>2, <2>1, <2>2 DEF CommitmentsKept
<1>4. ASSUME NEW o \in CreditOrders, NEW amount \in Amounts, ReleaseCredit(o, amount)
      PROVE  CommitmentsKept
  <2>1. commitment[o] \in Commitment /\ amount \in Nat
    BY <1>0, <1>1
  <2>2. \A p \in CreditOrders : p # o => commitment'[p] = commitment[p]
    BY <1>1, <1>4 DEF ReleaseCredit
  <2>3. commitment'[o] = AfterRelease([commitment[o] EXCEPT !.released = @ + amount])
    BY <1>1, <1>4 DEF ReleaseCredit
  <2>4. /\ commitment'[o].amount = commitment[o].amount
        /\ commitment'[o].approved = commitment[o].approved
        /\ commitment'[o].released = commitment[o].released + amount
    BY <2>1, <2>3 DEF AfterRelease, Commitment
  <2>5. commitment'[o].released >= commitment[o].released
    BY <2>1, <2>4 DEF Commitment
  <2> QED BY <1>2, <2>2, <2>4, <2>5 DEF CommitmentsKept
<1>5. CASE UNCHANGED cVars
  BY <1>2, <1>5 DEF cVars, CommitmentsKept
<1> QED BY <1>3, <1>4, <1>5 DEF CNext

\* A commitment is never taken twice, re-approved or taken back.
THEOREM CommitmentsAreFinal == CSpec => CommitmentIsFinal
<1>1. CInv /\ [CNext]_cVars => [CommitmentsKept]_cVars
  BY NextKeepsCommitments
<1> QED BY <1>1, CreditBooks, PTL DEF CSpec, CommitmentIsFinal, CommitmentsKept
-----------------------------------------------------------------------------
Statuses == {"draft", "confirmed", "allocating", "allocated",
             "fulfilling", "completed", "cancelled"}
OrderRows == [status : Statuses, version : Nat]
Moves == {m \in Statuses \X Statuses : m[1] # m[2]}
Confirmations == [order : 0..NO, version : Nat,
                  result : {"none", "confirmed", "allocating", "allocated"}]
ShipmentRows == [status : {"none", "validated", "draft", "picking", "picked",
                           "verified", "shipped"},
                 version : Nat, order : 0..NO, key : Keys \cup {NoKey},
                 quantity : Quantities]

OrderTypes ==
  /\ order \in [Orders -> OrderRows]
  /\ history \in [Orders -> Seq(Moves)]
  /\ confirmation \in [Keys -> Confirmations]
  /\ shipment \in [Shipments -> ShipmentRows]

\* No reservation is larger than a batch, so a batch can release any of them.
InBatches == \A n \in Rows : reservation[n].reserved <= MaxQty

TInv == RInv /\ CInv /\ OrderTypes /\ InBatches

LEMMA TypedOrders == TInv => OTypeOK
<1> SUFFICES ASSUME TInv PROVE OTypeOK
  OBVIOUS
<1>1. RTypeOK /\ CTypeOK
  BY DEF TInv, RInv, CInv
<1>2. \A o \in Orders : \A i \in 1..Len(history[o]) : history[o][i][1] # history[o][i][2]
  <2> TAKE o \in Orders
  <2> TAKE i \in 1..Len(history[o])
  <2>1. history[o] \in Seq(Moves)
    BY DEF TInv, OrderTypes
  <2>2. history[o][i] \in Moves
    BY <2>1, ElementOfSeq
  <2> QED BY <2>2 DEF Moves
<1>3. Quantities \subseteq [Rows -> Nat]
  BY RowsAssumption DEF Quantities
<1>4. /\ order \in [Orders -> OrderRows] /\ confirmation \in [Keys -> Confirmations]
      /\ shipment \in [Shipments -> ShipmentRows]
  BY DEF TInv, OrderTypes
<1>5. shipment \in [Shipments -> [status : {"none", "validated", "draft", "picking",
                                           "picked", "verified", "shipped"},
                                 version : Nat, order : 0..NO, key : Keys \cup {NoKey},
                                 quantity : [Rows -> Nat]]]
  BY <1>3, <1>4 DEF ShipmentRows
<1> QED BY <1>1, <1>2, <1>4, <1>5 DEF OTypeOK, OrderRows, Statuses, Confirmations

\* An order that takes a new status stays an order, and so does its history.
LEMMA MoveTypes ==
  ASSUME order \in [Orders -> OrderRows], history \in [Orders -> Seq(Moves)],
         NEW o \in Orders, NEW s \in Statuses, s # order[o].status, MoveOrder(o, s)
  PROVE  /\ order' \in [Orders -> OrderRows] /\ history' \in [Orders -> Seq(Moves)]
         /\ order'[o].status = s /\ order'[o].version = order[o].version + 1
         /\ \A p \in Orders : p # o => order'[p] = order[p] /\ history'[p] = history[p]
         /\ history'[o] = Append(history[o], <<order[o].status, s>>)
<1>1. /\ order' = [order EXCEPT ![o] = [status |-> s, version |-> order[o].version + 1]]
      /\ history' = [history EXCEPT ![o] = Append(history[o], <<order[o].status, s>>)]
  BY DEF MoveOrder
<1>2. /\ order[o].status \in Statuses /\ order[o].version \in Nat
      /\ history[o] \in Seq(Moves)
  BY DEF OrderRows
<1>3. <<order[o].status, s>> \in Moves
  BY <1>2 DEF Moves
<1>4. Append(history[o], <<order[o].status, s>>) \in Seq(Moves)
  BY <1>2, <1>3, AppendProperties
<1>5. [status |-> s, version |-> order[o].version + 1] \in OrderRows
  BY <1>2 DEF OrderRows
<1> QED BY <1>1, <1>4, <1>5

LEMMA TInit == OInit => TInv
<1> SUFFICES ASSUME OInit PROVE TInv
  OBVIOUS
<1>1. RInv /\ CInv
  BY RInitInv, CreditInit DEF OInit
<1>2. InBatches
  BY RowsAssumption DEF OInit, RInit, EmptyRow, InBatches
<1>3. OrderTypes
  <2>1. order \in [Orders -> OrderRows]
    BY DEF OInit, OrderRows, Statuses
  <2>2. history \in [Orders -> Seq(Moves)]
    BY DEF OInit
  <2>3. NoConfirmation \in Confirmations
    BY CreditAssumption DEF NoConfirmation, Confirmations
  <2>4. NoShipment \in ShipmentRows
    BY CreditAssumption, RowsAssumption DEF NoShipment, ShipmentRows, Quantities
  <2> QED BY <2>1, <2>2, <2>3, <2>4 DEF OInit, OrderTypes
<1> QED BY <1>1, <1>2, <1>3 DEF TInv
-----------------------------------------------------------------------------
\* The batch of a confirmation: the numbers that are not taken yet.
FreshOf(r) == [n \in Rows |-> IF reservation[n] = EmptyRow THEN r.quantity[n] ELSE 0]

LEMMA ConfirmParts ==
  ASSUME TInv, NEW r \in Requests, Confirm(r)
  PROVE  /\ r.order \in Orders /\ r.key \in Keys
         /\ r.place \in [Rows -> [line : Lines, balance : Balances]]
         /\ FreshOf(r) \in Quantities /\ ReserveAll(r.place, FreshOf(r))
         /\ order[r.order].status = "draft"
         /\ TargetStatus(r.order, line') \in {"confirmed", "allocating", "allocated"}
         /\ MoveOrder(r.order, TargetStatus(r.order, line'))
         /\ IF r.credit = 0 THEN UNCHANGED cVars
            ELSE CommitCredit(r.order, r.credit, r.counted, r.approved)
         /\ confirmation[r.key] = NoConfirmation
         /\ confirmation' = [confirmation EXCEPT ![r.key] =
              [order |-> r.order, version |-> order'[r.order].version,
               result |-> order'[r.order].status]]
         /\ shipment' = shipment
<1>1. /\ r.order \in Orders /\ r.key \in Keys /\ r.quantity \in Quantities
      /\ r.place \in [Rows -> [line : Lines, balance : Balances]]
  BY OrderAssumption
<1>2. FreshOf(r) \in Quantities
  BY <1>1, RowsAssumption DEF FreshOf, Quantities
<1>3. TargetStatus(r.order, line') \in {"confirmed", "allocating", "allocated"}
  BY DEF TargetStatus
<1> QED BY <1>1, <1>2, <1>3 DEF Confirm, FreshOf

\* Nothing of the credit changes.
LEMMA CreditStays == ASSUME CInv, UNCHANGED cVars PROVE CInv'
BY CreditNext

LEMMA ConfirmTypes == ASSUME TInv, NEW r \in Requests, Confirm(r) PROVE TInv'
<1> DEFINE o == r.order
           status == TargetStatus(o, line')
<1>0. /\ o \in Orders /\ r.key \in Keys /\ FreshOf(r) \in Quantities
      /\ r.place \in [Rows -> [line : Lines, balance : Balances]]
      /\ ReserveAll(r.place, FreshOf(r))
      /\ status \in {"confirmed", "allocating", "allocated"}
      /\ order[o].status = "draft" /\ MoveOrder(o, status)
      /\ IF r.credit = 0 THEN UNCHANGED cVars
         ELSE CommitCredit(o, r.credit, r.counted, r.approved)
      /\ confirmation' = [confirmation EXCEPT ![r.key] =
           [order |-> o, version |-> order'[o].version, result |-> order'[o].status]]
      /\ shipment' = shipment
  BY ConfirmParts
<1> HIDE DEF status
<1>1. RInv'
  BY <1>0, ReserveAllInv DEF TInv
<1>2. CInv'
  <2>1. CASE r.credit = 0
    BY <1>0, <2>1, CreditStays DEF TInv
  <2>2. CASE r.credit # 0
    <3>1. /\ r.credit \in Nat \ {0} /\ r.counted \in BOOLEAN /\ r.approved \in BOOLEAN
          /\ o \in CreditOrders
      BY <1>0, <2>2, OrderAssumption, CreditAssumption DEF Orders, CreditOrders
    <3>2. CommitCredit(o, r.credit, r.counted, r.approved)
      BY <1>0, <2>2
    <3> QED BY <3>1, <3>2, CommitKeeps DEF TInv
  <2> QED BY <2>1, <2>2
<1>3. /\ order' \in [Orders -> OrderRows] /\ history' \in [Orders -> Seq(Moves)]
      /\ order'[o].status = status /\ order'[o].version \in Nat
  <2>1. status \in Statuses /\ status # order[o].status
    BY <1>0 DEF Statuses
  <2>2. /\ order' \in [Orders -> OrderRows] /\ history' \in [Orders -> Seq(Moves)]
        /\ order'[o].status = status
    BY <1>0, <2>1, MoveTypes DEF TInv, OrderTypes
  <2> QED BY <1>0, <2>2 DEF OrderRows
<1>4. OrderTypes'
  <2>1. [order |-> o, version |-> order'[o].version, result |-> order'[o].status]
          \in Confirmations
    BY <1>0, <1>3 DEF Confirmations, Orders
  <2> QED BY <1>0, <1>3, <2>1 DEF TInv, OrderTypes
<1>5. InBatches'
  <2>1. \A n \in Rows : FreshOf(r)[n] <= MaxQty
    BY <1>0, RowsAssumption DEF Quantities
  <2>2. \A n \in Rows : reservation'[n].reserved \in {reservation[n].reserved, FreshOf(r)[n]}
    BY <1>0 DEF ReserveAll
  <2> QED BY <2>1, <2>2 DEF TInv, InBatches
<1> QED BY <1>1, <1>2, <1>4, <1>5 DEF TInv
-----------------------------------------------------------------------------
\* The batch of a cancellation: everything the order still holds.
HeldOf(o) == [n \in Rows |-> IF n \in RowsOf(o) /\ reservation[n].status = "active"
                             THEN Remaining(reservation[n]) ELSE 0]

\* What a batch of releases leaves of a reservation.
LEMMA ReleasedRows ==
  ASSUME RInv, NEW q \in Quantities, NEW dropped, ReleaseAll(q, dropped), NEW n \in Rows
  PROVE  /\ q[n] = 0 => reservation'[n] = reservation[n]
         /\ reservation'[n].line = reservation[n].line
         /\ reservation'[n].reserved = reservation[n].reserved
         /\ reservation'[n].consumed = reservation[n].consumed
         /\ q[n] # 0 => reservation'[n].status
                          = IF Remaining(reservation[n]) = q[n] THEN "released" ELSE "active"
<1>1. reservation[n] \in ReservationRows /\ q[n] \in Nat
  BY RowsAssumption DEF RInv, RTypeOK, Quantities
<1>2. reservation'[n] = IF q[n] = 0 THEN reservation[n]
        ELSE Settled([reservation[n] EXCEPT !.released = @ + q[n]], "released")
  BY DEF ReleaseAll
<1> DEFINE u == [reservation[n] EXCEPT !.released = @ + q[n]]
<1>3. /\ u.line = reservation[n].line /\ u.reserved = reservation[n].reserved
      /\ u.consumed = reservation[n].consumed /\ u \in ReservationRows
      /\ Remaining(u) = Remaining(reservation[n]) - q[n]
      /\ Remaining(reservation[n]) \in Int
  BY <1>1 DEF ReservationRows, Remaining
<1> HIDE DEF u
<1>4. /\ Settled(u, "released").line = u.line
      /\ Settled(u, "released").reserved = u.reserved
      /\ Settled(u, "released").consumed = u.consumed
      /\ Settled(u, "released").status = IF Remaining(u) = 0 THEN "released" ELSE "active"
  BY <1>3 DEF Settled, ReservationRows
<1>5. CASE q[n] = 0
  BY <1>2, <1>5
<1>6. CASE q[n] # 0
  <2>1. reservation'[n] = Settled(u, "released")
    BY <1>2, <1>6 DEF u
  <2> QED BY <1>1, <1>3, <1>4, <1>6, <2>1
<1> QED BY <1>5, <1>6

\* What a batch of consumptions leaves of a reservation.
LEMMA ConsumedRows ==
  ASSUME RInv, NEW q \in Quantities, NEW s, ConsumeAll(s, q), NEW n \in Rows
  PROVE  /\ q[n] = 0 => reservation'[n] = reservation[n]
         /\ reservation'[n].line = reservation[n].line
         /\ reservation'[n].reserved = reservation[n].reserved
         /\ reservation'[n].consumed = reservation[n].consumed + q[n]
         /\ q[n] # 0 => reservation'[n].status
                          = IF Remaining(reservation[n]) = q[n] THEN "consumed" ELSE "active"
<1>1. reservation[n] \in ReservationRows /\ q[n] \in Nat
  BY RowsAssumption DEF RInv, RTypeOK, Quantities
<1>2. reservation'[n] = IF q[n] = 0 THEN reservation[n]
        ELSE Settled([reservation[n] EXCEPT !.consumed = @ + q[n]], "consumed")
  BY DEF ConsumeAll
<1> DEFINE u == [reservation[n] EXCEPT !.consumed = @ + q[n]]
<1>3. /\ u.line = reservation[n].line /\ u.reserved = reservation[n].reserved
      /\ u.consumed = reservation[n].consumed + q[n] /\ u \in ReservationRows
      /\ Remaining(u) = Remaining(reservation[n]) - q[n]
      /\ Remaining(reservation[n]) \in Int /\ reservation[n].consumed \in Nat
  BY <1>1 DEF ReservationRows, Remaining
<1> HIDE DEF u
<1>4. /\ Settled(u, "consumed").line = u.line
      /\ Settled(u, "consumed").reserved = u.reserved
      /\ Settled(u, "consumed").consumed = u.consumed
      /\ Settled(u, "consumed").status = IF Remaining(u) = 0 THEN "consumed" ELSE "active"
  BY <1>3 DEF Settled, ReservationRows
<1>5. CASE q[n] = 0
  BY <1>2, <1>3, <1>5
<1>6. CASE q[n] # 0
  <2>1. reservation'[n] = Settled(u, "consumed")
    BY <1>2, <1>6 DEF u
  <2> QED BY <1>1, <1>3, <1>4, <1>6, <2>1
<1> QED BY <1>5, <1>6

LEMMA HeldIsBatch == ASSUME TInv, NEW o \in Orders PROVE HeldOf(o) \in Quantities
<1>1. \A n \in Rows : Remaining(reservation[n]) \in 0..MaxQty
  <2> TAKE n \in Rows
  <2>1. /\ Remaining(reservation[n]) \in Nat /\ reservation[n].reserved \in Nat
        /\ reservation[n].consumed \in Nat /\ reservation[n].released \in Nat
    BY RowTypes DEF TInv
  <2>2. reservation[n].reserved <= MaxQty
    BY DEF TInv, InBatches
  <2> QED BY <2>1, <2>2, RowsAssumption DEF Remaining
<1> QED BY <1>1, RowsAssumption DEF HeldOf, Quantities

LEMMA CancelTypes == ASSUME TInv, NEW o \in Orders, Cancel(o) PROVE TInv'
<1>0. /\ order[o].status # "cancelled" /\ ReleaseAll(HeldOf(o), LinesOf(o))
      /\ FreeCredit(o) /\ MoveOrder(o, "cancelled")
      /\ confirmation' = confirmation /\ shipment' = shipment
  BY DEF Cancel, HeldOf
<1>1. RInv'
  <2>1. LinesOf(o) \in SUBSET Lines
    BY DEF LinesOf
  <2> QED BY <1>0, <2>1, HeldIsBatch, ReleaseAllInv DEF TInv
<1>2. CInv'
  <2>1. CASE commitment[o].status = "active"
    <3>1. o \in CreditOrders /\ commitment[o] \in Commitment
      BY CreditFacts DEF TInv, Orders, CreditOrders
    <3>2. Outstanding(commitment[o]) > 0
      BY <2>1, <3>1 DEF TInv, CInv, CommitmentsConsistent
    <3>3. Outstanding(commitment[o]) \in Nat \ {0}
      BY <3>1, <3>2 DEF Outstanding, Commitment
    <3>4. ReleaseCredit(o, Outstanding(commitment[o]))
      BY <1>0, <2>1 DEF FreeCredit
    <3> QED BY <3>1, <3>3, <3>4, ReleaseKeeps DEF TInv
  <2>2. CASE commitment[o].status # "active"
    BY <1>0, <2>2, CreditStays DEF FreeCredit, TInv
  <2> QED BY <2>1, <2>2
<1>3. OrderTypes'
  <2>1. "cancelled" \in Statuses
    BY DEF Statuses
  <2>2. order' \in [Orders -> OrderRows] /\ history' \in [Orders -> Seq(Moves)]
    BY <1>0, <2>1, MoveTypes DEF TInv, OrderTypes
  <2> QED BY <1>0, <2>2 DEF TInv, OrderTypes
<1>4. InBatches'
  <2>1. \A n \in Rows : reservation'[n].reserved = reservation[n].reserved
    BY <1>0, HeldIsBatch, ReleasedRows DEF TInv
  <2> QED BY <2>1 DEF TInv, InBatches
<1> QED BY <1>1, <1>2, <1>3, <1>4 DEF TInv
-----------------------------------------------------------------------------
\* A shipment that is asked for, inserted or picked moves no stock and no credit.
LEMMA BooksStay ==
  ASSUME TInv, UNCHANGED <<rVars, cVars>> PROVE RInv' /\ CInv' /\ InBatches'
<1>1. reservation' = reservation
  BY DEF rVars
<1> QED BY <1>1, StutterInv, CreditStays DEF TInv, InBatches

LEMMA ValidateTypes ==
  ASSUME TInv, NEW s \in Shipments, NEW o \in Orders, NEW q \in Quantities,
         ValidateShipment(s, o, q)
  PROVE  TInv'
<1>1. RInv' /\ CInv' /\ InBatches'
  BY BooksStay DEF ValidateShipment
<1>2. [status |-> "validated", version |-> 0, order |-> o, key |-> NoKey, quantity |-> q]
        \in ShipmentRows
  BY DEF ShipmentRows, Orders
<1>3. OrderTypes'
  BY <1>2 DEF TInv, OrderTypes, ValidateShipment
<1> QED BY <1>1, <1>3 DEF TInv

\* A shipment with another status, version and key is a shipment.
LEMMA ShipmentStays ==
  ASSUME NEW row \in ShipmentRows, NEW k \in Keys \cup {NoKey}, NEW v \in Nat,
         NEW t \in {"draft", "picking", "picked", "verified", "shipped"}
  PROVE  /\ [row EXCEPT !.status = t, !.version = v] \in ShipmentRows
         /\ [row EXCEPT !.status = t, !.key = k, !.version = v] \in ShipmentRows
         /\ row.version \in Nat
BY DEF ShipmentRows

LEMMA InsertTypes ==
  ASSUME TInv, NEW s \in Shipments, InsertShipment(s) PROVE TInv'
<1>1. RInv' /\ CInv' /\ InBatches'
  BY BooksStay DEF InsertShipment
<1>2. /\ shipment[s] \in ShipmentRows
      /\ [shipment[s] EXCEPT !.status = "draft", !.version = 1] \in ShipmentRows
  BY ShipmentStays DEF TInv, OrderTypes
<1>3. shipment' = [shipment EXCEPT ![s] = [shipment[s] EXCEPT !.status = "draft", !.version = 1]]
  BY DEF InsertShipment
<1>4. OrderTypes'
  BY <1>2, <1>3 DEF TInv, OrderTypes, InsertShipment
<1> QED BY <1>1, <1>4 DEF TInv

LEMMA TransitionTypes ==
  ASSUME TInv, NEW s \in Shipments, NEW step \in Transitions, NEW expected,
         TransitionShipment(s, step, expected)
  PROVE  TInv'
<1> DEFINE o == shipment[s].order
<1>1. RInv' /\ CInv' /\ InBatches'
  BY BooksStay DEF TransitionShipment
<1>2. shipment[s] \in ShipmentRows /\ shipment[s].version \in Nat
  BY DEF TInv, OrderTypes, ShipmentRows
<1>3. step[2] \in {"picking", "picked", "verified"}
  BY DEF Transitions
<1>4. [shipment[s] EXCEPT !.status = step[2], !.version = shipment[s].version + 1]
        \in ShipmentRows
  <2>1. /\ shipment[s].version + 1 \in Nat
        /\ step[2] \in {"draft", "picking", "picked", "verified", "shipped"}
    BY <1>2, <1>3
  <2> QED BY <1>2, <2>1, ShipmentStays
<1>5. shipment' = [shipment EXCEPT ![s] =
        [shipment[s] EXCEPT !.status = step[2], !.version = shipment[s].version + 1]]
  BY DEF TransitionShipment
<1>6. order' \in [Orders -> OrderRows] /\ history' \in [Orders -> Seq(Moves)]
  <2>1. CASE step[1] = "draft" /\ order[o].status \in Waiting
    <3>1. MoveOrder(o, "fulfilling") /\ "fulfilling" \in Statuses
          /\ order[o].status # "fulfilling"
      BY <2>1 DEF TransitionShipment, Statuses, Waiting
    <3>2. CASE o \in Orders
      BY <3>1, <3>2, MoveTypes DEF TInv, OrderTypes
    <3>3. CASE o \notin Orders
      BY <3>1, <3>3 DEF MoveOrder, TInv, OrderTypes
    <3> QED BY <3>2, <3>3
  <2>2. CASE ~(step[1] = "draft" /\ order[o].status \in Waiting)
    BY <2>2 DEF TransitionShipment, TInv, OrderTypes
  <2> QED BY <2>1, <2>2
<1>7. OrderTypes'
  BY <1>4, <1>5, <1>6 DEF TInv, OrderTypes, TransitionShipment
<1> QED BY <1>1, <1>7 DEF TInv
\* What a shipment leaves: the batch is the one that was asked for.
LEMMA ShipParts ==
  ASSUME TInv, NEW s \in Shipments, NEW k \in Keys, Ship(s, k)
  PROVE  /\ shipment[s] \in ShipmentRows /\ shipment[s].quantity \in Quantities
         /\ shipment[s].status = "verified" /\ ConsumeAll(s, shipment[s].quantity)
         /\ shipment' = [shipment EXCEPT ![s] =
              [shipment[s] EXCEPT !.status = "shipped", !.key = k,
                                  !.version = shipment[s].version + 1]]
         /\ cVars' = cVars /\ confirmation' = confirmation
         /\ DeliveryStatus(shipment[s].order, line') \in {"completed", "fulfilling"}
<1>1. shipment[s] \in ShipmentRows
  BY DEF TInv, OrderTypes
<1>2. shipment[s].quantity \in Quantities
  BY <1>1 DEF ShipmentRows
<1>3. DeliveryStatus(shipment[s].order, line') \in {"completed", "fulfilling"}
  BY DEF DeliveryStatus
<1>4. shipment' = [shipment EXCEPT ![s] =
        [shipment[s] EXCEPT !.status = "shipped", !.key = k, !.version = shipment[s].version + 1]]
  BY DEF Ship
<1> QED BY <1>1, <1>2, <1>3, <1>4 DEF Ship

LEMMA ShipTypes ==
  ASSUME TInv, NEW s \in Shipments, NEW k \in Keys, Ship(s, k) PROVE TInv'
<1> DEFINE o == shipment[s].order
           status == DeliveryStatus(o, line')
           row == [shipment[s] EXCEPT !.status = "shipped", !.key = k,
                                      !.version = shipment[s].version + 1]
<1>1. /\ shipment[s] \in ShipmentRows /\ shipment[s].quantity \in Quantities
      /\ ConsumeAll(s, shipment[s].quantity) /\ cVars' = cVars
      /\ shipment' = [shipment EXCEPT ![s] = row] /\ confirmation' = confirmation
      /\ status \in {"completed", "fulfilling"}
  BY ShipParts
<1>2. RInv' /\ CInv'
  BY <1>1, ConsumeAllInv, CreditStays DEF TInv, Shipments
<1>3. InBatches'
  <2>1. \A n \in Rows : reservation'[n].reserved = reservation[n].reserved
    BY <1>1, ConsumedRows DEF TInv
  <2> QED BY <2>1 DEF TInv, InBatches
<1>4. row \in ShipmentRows
  <2>1. shipment[s].version + 1 \in Nat
    BY <1>1 DEF ShipmentRows
  <2>2. k \in Keys \cup {NoKey}
    OBVIOUS
  <2>3. PICK t \in {"draft", "picking", "picked", "verified", "shipped"} : t = "shipped"
    OBVIOUS
  <2> QED BY <1>1, <2>1, <2>2, <2>3, ShipmentStays
<1>5. order' \in [Orders -> OrderRows] /\ history' \in [Orders -> Seq(Moves)]
  <2>1. /\ order' = [order EXCEPT ![o] = [status |-> status, version |-> order[o].version + 1]]
        /\ history' = IF status = order[o].status THEN history
             ELSE [history EXCEPT ![o] = Append(history[o], <<order[o].status, status>>)]
    BY DEF Ship
  <2> HIDE DEF status
  <2>2. status \in Statuses
    BY <1>1 DEF Statuses
  <2>3. CASE o \in Orders
    <3>1. /\ order[o].status \in Statuses /\ order[o].version \in Nat
          /\ history[o] \in Seq(Moves)
      BY <2>3 DEF TInv, OrderTypes, OrderRows
    <3>2. [status |-> status, version |-> order[o].version + 1] \in OrderRows
      BY <2>2, <3>1 DEF OrderRows
    <3>3. status # order[o].status => Append(history[o], <<order[o].status, status>>) \in Seq(Moves)
      <4>1. status # order[o].status => <<order[o].status, status>> \in Moves
        BY <2>2, <3>1 DEF Moves
      <4> QED BY <3>1, <4>1, AppendProperties
    <3> QED BY <2>1, <3>2, <3>3 DEF TInv, OrderTypes
  <2>4. CASE o \notin Orders
    BY <2>1, <2>4 DEF TInv, OrderTypes
  <2> QED BY <2>3, <2>4
<1>6. OrderTypes'
  BY <1>1, <1>4, <1>5 DEF TInv, OrderTypes
<1> QED BY <1>2, <1>3, <1>6 DEF TInv

LEMMA RestockTypes ==
  ASSUME TInv, NEW a \in 1..NA, NEW b \in Balances, NEW delta \in Deltas,
         Restock(a, b, delta)
  PROVE  TInv'
<1>1. RInv' /\ CInv'
  BY AdjustOnHandInv, CreditStays DEF Restock, TInv
<1>2. InBatches' /\ OrderTypes'
  BY DEF Restock, AdjustOnHand, oVars, TInv, InBatches, OrderTypes
<1> QED BY <1>1, <1>2 DEF TInv

LEMMA TNext == TInv /\ [ONext]_vars => TInv'
<1> SUFFICES ASSUME TInv, [ONext]_vars PROVE TInv'
  OBVIOUS
<1>1. ASSUME NEW r \in Requests, Confirm(r) PROVE TInv'
  BY <1>1, ConfirmTypes
<1>2. ASSUME NEW o \in Orders, Cancel(o) PROVE TInv'
  BY <1>2, CancelTypes
<1>3. ASSUME NEW s \in Shipments, NEW o \in Orders, NEW q \in Quantities,
             ValidateShipment(s, o, q)
      PROVE  TInv'
  BY <1>3, ValidateTypes
<1>4. ASSUME NEW s \in Shipments, InsertShipment(s) PROVE TInv'
  BY <1>4, InsertTypes
<1>5. ASSUME NEW s \in Shipments, NEW step \in Transitions, NEW expected \in 1..3,
             TransitionShipment(s, step, expected)
      PROVE  TInv'
  BY <1>5, TransitionTypes
<1>6. ASSUME NEW s \in Shipments, NEW k \in Keys, Ship(s, k) PROVE TInv'
  BY <1>6, ShipTypes
<1>7. ASSUME NEW a \in 1..NA, NEW b \in Balances, NEW delta \in Deltas, Restock(a, b, delta)
      PROVE  TInv'
  BY <1>7, RestockTypes
<1>8. CASE UNCHANGED vars
  BY <1>8, BooksStay DEF vars, oVars, TInv, OrderTypes
<1> QED BY <1>1, <1>2, <1>3, <1>4, <1>5, <1>6, <1>7, <1>8 DEF ONext
-----------------------------------------------------------------------------
LEMMA FulfilmentTyped == OSpec => []TInv
<1> QED BY TInit, TNext, PTL DEF OSpec

\* The tables of orders, shipments and confirmations hold rows of their types,
\* and the history of an order only real changes of its status.
THEOREM OrdersTyped == OSpec => []OTypeOK
<1> QED BY TypedOrders, FulfilmentTyped, PTL

\* The stock stays in order under confirmations, cancellations, shipments and
\* adjustments: what is reserved is held, nothing is promised twice, and the
\* ledger explains what is on hand.
THEOREM OrdersKeepStock == OSpec => []StockIsSound
<1>1. TInv => StockIsSound
  BY DEF TInv, RInv, StockIsSound
<1> QED BY <1>1, FulfilmentTyped, PTL

\* So does the credit: the counter of an account is what its orders hold, and
\* without an approval the limit holds.
THEOREM OrdersKeepCredit == OSpec => []CreditIsSound
<1>1. TInv => CreditIsSound
  BY DEF TInv, CInv, CreditIsSound
<1> QED BY <1>1, FulfilmentTyped, PTL
(***************************************************************************)
(* What an order's status says of its lines.  A step concerns one order:   *)
(* the lines, reservations and commitment of every other stay as they are. *)
(***************************************************************************)

\* Nothing of the batch is on line l.
LEMMA QtyOfNone ==
  ASSUME NEW q \in Quantities, NEW res, NEW l, \A n \in Rows : q[n] # 0 => res[n].line # l
  PROVE  QtyOf(l, res, q) = 0
<1> DEFINE f == [n \in Rows |-> IF res[n].line = l THEN q[n] ELSE 0]
<1>1. f \in [1..NR -> Int] /\ \A n \in 1..NR : f[n] = 0
  BY BatchTypes DEF Rows
<1> HIDE DEF f
<1>2. Total(f, NR) = 0
  BY <1>1, TotalZero, RowsAssumption
<1> QED BY <1>2 DEF QtyOf, f

\* A line moves by at least what the batch moves on each of its rows.
LEMMA QtyOfCovers ==
  ASSUME NEW q \in [Rows -> Nat], NEW res, NEW l
  PROVE  /\ QtyOf(l, res, q) \in Nat
         /\ \A n \in Rows : res[n].line = l => q[n] <= QtyOf(l, res, q)
<1> DEFINE f == [n \in Rows |-> IF res[n].line = l THEN q[n] ELSE 0]
<1>1. f \in [1..NR -> Int] /\ \A n \in 1..NR : f[n] >= 0
  BY DEF Rows
<1>2. \A n \in Rows : res[n].line = l => f[n] = q[n]
  OBVIOUS
<1> HIDE DEF f
<1>3. Total(f, NR) >= 0 /\ \A n \in 1..NR : f[n] <= Total(f, NR)
  BY <1>1, TotalCovers, RowsAssumption
<1>4. Total(f, NR) \in Int
  BY <1>1, TotalType, RowsAssumption
<1>5. QtyOf(l, res, q) = Total(f, NR)
  BY DEF QtyOf, f
<1> QED BY <1>2, <1>3, <1>4, <1>5 DEF Rows

\* The counters of a line are natural numbers and cover each of its reservations.
LEMMA LineCovers ==
  ASSUME RInv, NEW l \in Lines
  PROVE  /\ line[l].reserved \in Nat /\ line[l].shipped \in Nat /\ line[l].cancelled \in Int
         /\ \A n \in Rows : reservation[n].line = l =>
              /\ Remaining(reservation[n]) <= line[l].reserved
              /\ reservation[n].consumed <= line[l].shipped
<1>1. RemainingOf \in [Rows -> Nat] /\ ConsumedOf \in [Rows -> Nat]
  <2>1. \A n \in Rows : RemainingOf[n] \in Nat /\ ConsumedOf[n] \in Nat
    BY RowTypes
  <2> QED BY <2>1 DEF RemainingOf, ConsumedOf
<1>2. /\ line[l].reserved = QtyOf(l, reservation, RemainingOf)
      /\ line[l].shipped = QtyOf(l, reservation, ConsumedOf)
  BY DEF RInv, LineIsHeld
<1>3. \A n \in Rows : /\ RemainingOf[n] = Remaining(reservation[n])
                       /\ ConsumedOf[n] = reservation[n].consumed
  BY RowTypes
<1>4. /\ QtyOf(l, reservation, RemainingOf) \in Nat
      /\ \A n \in Rows : reservation[n].line = l
           => RemainingOf[n] <= QtyOf(l, reservation, RemainingOf)
  BY <1>1, QtyOfCovers
<1>5. /\ QtyOf(l, reservation, ConsumedOf) \in Nat
      /\ \A n \in Rows : reservation[n].line = l
           => ConsumedOf[n] <= QtyOf(l, reservation, ConsumedOf)
  BY <1>1, QtyOfCovers
<1>6. line[l].cancelled \in Int
  BY DEF RInv, RTypeOK, LineRows
<1> QED BY <1>2, <1>3, <1>4, <1>5, <1>6

\* No more of a line is reserved, shipped and cancelled than was ordered.
LinesFit ==
  \A l \in Lines :
    line[l].cancelled >= 0 /\ line[l].reserved + line[l].shipped + line[l].cancelled <= Ordered[l]

\* A reservation is consumed only by using it.
ConsumedIsUsed == \A n \in Rows : reservation[n].status = "consumed" => reservation[n].consumed > 0

\* A shipment asks for something, and for rows of its order only.
Asked ==
  \A s \in Shipments : shipment[s].status # "none" =>
    /\ shipment[s].order \in Orders
    /\ \E n \in Rows : shipment[s].quantity[n] > 0
    /\ \A n \in Rows : shipment[s].quantity[n] > 0
                        => reservation[n].line \in LinesOf(shipment[s].order)

Life(o) ==
  /\ order[o].status = "draft" => \A l \in LinesOf(o) : line[l].reserved = 0 /\ line[l].shipped = 0
  /\ order[o].status # "cancelled" => \A l \in LinesOf(o) : line[l].cancelled = 0
  /\ order[o].status = "cancelled" =>
       /\ \A l \in LinesOf(o) : /\ line[l].reserved = 0 /\ line[l].shipped = 0
                                 /\ line[l].cancelled = Ordered[l]
       /\ \A n \in RowsOf(o) : reservation[n].status = "released" /\ reservation[n].consumed = 0
       /\ Outstanding(commitment[o]) = 0
  /\ order[o].status = "completed" <=>
       \A l \in LinesOf(o) : line[l].shipped = Ordered[l] /\ line[l].reserved = 0
  /\ order[o].status = "allocated" => \A l \in LinesOf(o) : line[l].reserved = Ordered[l]
  /\ order[o].status = "confirmed" => \A l \in LinesOf(o) : line[l].reserved = 0

LInv == TInv /\ LinesFit /\ ConsumedIsUsed /\ Asked /\ \A o \in Orders : Life(o)

\* What a step leaves alone when it is none of p's.
SameOrder(p) ==
  /\ order'[p].status = order[p].status /\ commitment'[p] = commitment[p]
  /\ \A l \in LinesOf(p) : /\ line'[l].reserved = line[l].reserved
                            /\ line'[l].shipped = line[l].shipped
                            /\ line'[l].cancelled = line[l].cancelled
  /\ \A n \in Rows : reservation'[n].line \in LinesOf(p) => reservation'[n] = reservation[n]

LEMMA SameLife == ASSUME NEW p \in Orders, Life(p), SameOrder(p) PROVE Life(p)'
<1>1. LinesOf(p)' = LinesOf(p)
  BY DEF LinesOf
<1>2. \A n \in RowsOf(p)' : n \in RowsOf(p) /\ reservation'[n] = reservation[n]
  BY DEF RowsOf, LinesOf, SameOrder
<1>3. /\ order'[p].status = order[p].status
      /\ Outstanding(commitment[p])' = Outstanding(commitment[p])
  BY DEF SameOrder, Outstanding
<1>4. \A l \in LinesOf(p) : /\ line'[l].reserved = line[l].reserved
                            /\ line'[l].shipped = line[l].shipped
                            /\ line'[l].cancelled = line[l].cancelled
  BY DEF SameOrder
<1> QED BY <1>1, <1>2, <1>3, <1>4 DEF Life

\* A reservation stays on its line, so a shipment's rows stay its order's.
LEMMA AskedStays ==
  ASSUME Asked, shipment' = shipment \/
           \E s \in Shipments :
             /\ \A t \in Shipments : t # s => shipment'[t] = shipment[t]
             /\ shipment[s].status # "none"
             /\ shipment'[s].order = shipment[s].order
             /\ shipment'[s].quantity = shipment[s].quantity,
         \A n \in Rows : reservation[n].line \in Lines => reservation'[n].line = reservation[n].line
  PROVE  Asked'
<1>1. \A o : LinesOf(o)' = LinesOf(o) /\ LinesOf(o) \subseteq Lines
  BY DEF LinesOf
<1>2. \A s \in Shipments : shipment'[s].status # "none" =>
        /\ shipment[s].status # "none" /\ shipment'[s].order = shipment[s].order
        /\ shipment'[s].quantity = shipment[s].quantity
  OBVIOUS
<1> QED BY <1>1, <1>2 DEF Asked
-----------------------------------------------------------------------------
\* A confirmation reserves on lines of its order only.
LEMMA ConfirmMoves ==
  ASSUME LInv, NEW r \in Requests, Confirm(r)
  PROVE  /\ \A n \in Rows : FreshOf(r)[n] = 0 => reservation'[n] = reservation[n]
         /\ \A n \in Rows : FreshOf(r)[n] # 0 =>
              /\ reservation[n].line = NoRow /\ reservation'[n].status = "active"
              /\ reservation'[n].line \in LinesOf(r.order)
         /\ \A l \in Lines : /\ line'[l].shipped = line[l].shipped
                             /\ line'[l].cancelled = line[l].cancelled
                             /\ line'[l].reserved \in Nat
                             /\ l \notin LinesOf(r.order) => line'[l].reserved = line[l].reserved
         /\ LinesFit'
<1> DEFINE o == r.order
           q == FreshOf(r)
<1>1. /\ q \in Quantities /\ ReserveAll(r.place, q)
      /\ r.place \in [Rows -> [line : Lines, balance : Balances]]
  BY ConfirmParts DEF LInv
<1>2. \A n \in Rows : q[n] # 0 => r.place[n].line \in LinesOf(o) /\ reservation[n] = EmptyRow
  <2>1. \A n \in Rows : q[n] # 0 => q[n] = r.quantity[n] /\ reservation[n] = EmptyRow
    BY DEF FreshOf
  <2>2. \A n \in Rows : q[n] # 0 => q[n] > 0
    BY <1>1, RowsAssumption DEF Quantities
  <2> QED BY <2>1, <2>2 DEF Confirm
<1> HIDE DEF q
<1>3. \A n \in Rows : /\ q[n] = 0 => reservation'[n] = reservation[n]
                      /\ q[n] # 0 => /\ reservation'[n].status = "active"
                                     /\ reservation'[n].line = r.place[n].line
  BY <1>1 DEF ReserveAll
<1>4. \A l \in Lines : /\ line'[l].shipped = line[l].shipped
                      /\ line'[l].cancelled = line[l].cancelled
                      /\ line'[l].reserved = line[l].reserved + QtyOf(l, reservation', q)
  <2>1. line \in [Lines -> LineRows]
    BY DEF LInv, TInv, RInv, RTypeOK
  <2>2. line' = [l \in Lines |-> [line[l] EXCEPT !.reserved = @ + QtyOf(l, reservation', q)]]
    BY <1>1 DEF ReserveAll
  <2> QED BY <2>1, <2>2 DEF LineRows
<1>5. \A l \in Lines : line[l].reserved \in Nat
  BY LineCovers DEF LInv, TInv
<1>6. ASSUME NEW l \in Lines, l \notin LinesOf(o) PROVE line'[l].reserved = line[l].reserved
  <2>1. \A n \in Rows : q[n] # 0 => reservation'[n].line # l
    BY <1>2, <1>3, <1>6
  <2>2. QtyOf(l, reservation', q) = 0
    BY <1>1, <2>1, QtyOfNone
  <2> QED BY <1>4, <1>5, <2>2
<1>7. LinesFit'
  <2> SUFFICES ASSUME NEW l \in Lines
               PROVE  /\ line'[l].cancelled >= 0
                      /\ line'[l].reserved + line'[l].shipped + line'[l].cancelled <= Ordered[l]
    BY DEF LinesFit
  <2>1. line[l].reserved + line[l].shipped + line[l].cancelled + QtyOf(l, reservation', q)
          <= Ordered[l]
    BY <1>1 DEF ReserveAll
  <2>2. /\ line[l].reserved \in Int /\ line[l].shipped \in Int /\ line[l].cancelled \in Int
        /\ QtyOf(l, reservation', q) \in Int /\ Ordered[l] \in Int
    BY <1>1, BatchTypes, LineCovers, StockAssumption DEF LInv, TInv
  <2>3. line[l].cancelled >= 0
    BY DEF LInv, LinesFit
  <2> QED BY <1>4, <2>1, <2>2, <2>3
<1>8. \A n \in Rows : q[n] # 0 => reservation[n].line = NoRow
  BY <1>2 DEF EmptyRow
<1>9. \A l \in Lines : line'[l].reserved \in Nat
  <2>1. q \in [Rows -> Nat]
    BY <1>1, RowsAssumption DEF Quantities
  <2> QED BY <1>4, <1>5, <2>1, QtyOfCovers
<1> QED BY <1>2, <1>3, <1>4, <1>6, <1>7, <1>8, <1>9 DEF q

LEMMA ConfirmLife == ASSUME LInv, NEW r \in Requests, Confirm(r) PROVE LInv'
<1> DEFINE o == r.order
           status == TargetStatus(o, line')
<1>1. TInv'
  BY ConfirmTypes DEF LInv
<1>2. /\ o \in Orders /\ order[o].status = "draft"
      /\ status \in {"confirmed", "allocating", "allocated"}
      /\ order'[o].status = status
      /\ \A p \in Orders : p # o => order'[p] = order[p]
      /\ shipment' = shipment
  <2>1. /\ o \in Orders /\ order[o].status = "draft" /\ shipment' = shipment
        /\ status \in {"confirmed", "allocating", "allocated"} /\ MoveOrder(o, status)
    BY ConfirmParts DEF LInv
  <2> HIDE DEF status
  <2>2. status \in Statuses /\ status # order[o].status
    BY <2>1 DEF Statuses
  <2> QED BY <2>1, <2>2, MoveTypes DEF LInv, TInv, OrderTypes
<1>3. /\ \A n \in Rows : FreshOf(r)[n] = 0 => reservation'[n] = reservation[n]
      /\ \A n \in Rows : FreshOf(r)[n] # 0 =>
           /\ reservation[n].line = NoRow /\ reservation'[n].status = "active"
           /\ reservation'[n].line \in LinesOf(o)
      /\ \A l \in Lines : /\ line'[l].shipped = line[l].shipped
                          /\ line'[l].cancelled = line[l].cancelled
                          /\ line'[l].reserved \in Nat
                          /\ l \notin LinesOf(o) => line'[l].reserved = line[l].reserved
      /\ LinesFit'
  BY ConfirmMoves
<1>4. ConsumedIsUsed'
  BY <1>3 DEF LInv, ConsumedIsUsed
<1>5. Asked'
  <2>1. \A n \in Rows : reservation[n].line \in Lines => reservation'[n].line = reservation[n].line
    BY <1>3, StockAssumption
  <2> QED BY <1>2, <2>1, AskedStays DEF LInv
<1>6. ASSUME NEW p \in Orders, p # o PROVE Life(p)'
  <2>1. commitment'[p] = commitment[p]
    <3>1. \/ UNCHANGED cVars
          \/ CommitCredit(o, r.credit, r.counted, r.approved)
      BY ConfirmParts DEF LInv
    <3>2. commitment \in [CreditOrders -> Commitment]
      BY CreditFacts DEF LInv, TInv
    <3> QED BY <1>6, <3>1, <3>2 DEF cVars, CommitCredit, CreditOrders, Orders
  <2>2. \A l \in LinesOf(p) : l \in Lines /\ l \notin LinesOf(o)
    BY <1>6 DEF LinesOf
  <2>3. \A n \in Rows : reservation'[n].line \in LinesOf(p) => reservation'[n] = reservation[n]
    BY <1>3, <2>2
  <2>4. SameOrder(p)
    BY <1>2, <1>3, <1>6, <2>1, <2>2, <2>3 DEF SameOrder
  <2> QED BY <2>4, SameLife DEF LInv
<1>7. Life(o)'
  <2>1. LinesOf(o)' = LinesOf(o) /\ \A l \in LinesOf(o) : l \in Lines
    BY DEF LinesOf
  <2>2. \A l \in LinesOf(o) : line'[l].shipped = 0 /\ line'[l].cancelled = 0
    BY <1>2, <1>3, <2>1 DEF LInv, Life
  <2>3. status = "allocated" => \A l \in LinesOf(o) : line'[l].reserved = Ordered[l]
    BY DEF TargetStatus
  <2>4. status = "confirmed" => \A l \in LinesOf(o) : line'[l].reserved = 0
    <3>1. \A l \in LinesOf(o) : line'[l].reserved \in Nat
      BY <1>3, <2>1
    <3> QED BY <3>1 DEF TargetStatus
  <2>5. PICK l \in LinesOf(o) : Ordered[l] > 0
    BY <1>2, OrderAssumption DEF LinesOf
  <2> HIDE DEF status
  <2> QED BY <1>2, <2>1, <2>2, <2>3, <2>4, <2>5 DEF Life
<1> QED BY <1>1, <1>2, <1>3, <1>4, <1>5, <1>6, <1>7 DEF LInv
-----------------------------------------------------------------------------
\* A cancellation empties the lines of its order, and no other.
LEMMA CancelMoves ==
  ASSUME LInv, NEW o \in Orders, Cancel(o)
  PROVE  /\ HeldOf(o) \in Quantities /\ ReleaseAll(HeldOf(o), LinesOf(o))
         /\ \A n \in Rows : HeldOf(o)[n] # 0 => reservation[n].line \in LinesOf(o)
         /\ \A l \in Lines : /\ line'[l].shipped = line[l].shipped
                             /\ line'[l].reserved = IF l \in LinesOf(o) THEN 0 ELSE line[l].reserved
                             /\ line'[l].cancelled = IF l \in LinesOf(o) THEN Ordered[l]
                                                     ELSE line[l].cancelled
         /\ \A l \in LinesOf(o) : line[l].shipped = 0
         /\ LinesFit'
<1> DEFINE q == HeldOf(o)
<1>1. /\ q \in Quantities /\ ReleaseAll(q, LinesOf(o))
      /\ \A l \in LinesOf(o) : line[l].shipped = 0
  BY HeldIsBatch DEF LInv, Cancel, HeldOf
<1>2. \A n \in Rows : q[n] # 0 => reservation[n].line \in LinesOf(o)
  BY DEF HeldOf, RowsOf
<1> HIDE DEF q
<1>3. \A l \in Lines : /\ line'[l].shipped = line[l].shipped
                      /\ line'[l].reserved = line[l].reserved - QtyOf(l, reservation, q)
                      /\ line'[l].cancelled = IF l \in LinesOf(o) THEN Ordered[l]
                                              ELSE line[l].cancelled
  <2>1. line \in [Lines -> LineRows]
    BY DEF LInv, TInv, RInv, RTypeOK
  <2>2. line' = [l \in Lines |->
          [line[l] EXCEPT !.reserved = @ - QtyOf(l, reservation, q),
                          !.cancelled = IF l \in LinesOf(o) THEN Ordered[l] ELSE @]]
    BY <1>1 DEF ReleaseAll
  <2> QED BY <2>1, <2>2 DEF LineRows
<1>4. \A l \in Lines : line[l].reserved \in Nat
  BY LineCovers DEF LInv, TInv
<1>5. \A l \in Lines : line'[l].reserved = IF l \in LinesOf(o) THEN 0 ELSE line[l].reserved
  <2> TAKE l \in Lines
  <2>1. CASE l \in LinesOf(o)
    <3>1. line[l].reserved = QtyOf(l, reservation, q)
      BY <1>1, <2>1 DEF ReleaseAll
    <3> QED BY <1>3, <1>4, <2>1, <3>1
  <2>2. CASE l \notin LinesOf(o)
    <3>1. QtyOf(l, reservation, q) = 0
      BY <1>1, <1>2, <2>2, QtyOfNone
    <3> QED BY <1>3, <1>4, <2>2, <3>1
  <2> QED BY <2>1, <2>2
<1>6. LinesFit'
  <2> SUFFICES ASSUME NEW l \in Lines
               PROVE  /\ line'[l].cancelled >= 0
                      /\ line'[l].reserved + line'[l].shipped + line'[l].cancelled <= Ordered[l]
    BY DEF LinesFit
  <2>1. CASE l \in LinesOf(o)
    <3>1. Ordered[l] \in Nat
      BY StockAssumption
    <3> QED BY <1>1, <1>3, <1>5, <2>1, <3>1
  <2>2. CASE l \notin LinesOf(o)
    BY <1>3, <1>5, <2>2 DEF LInv, LinesFit
  <2> QED BY <2>1, <2>2
<1> QED BY <1>1, <1>2, <1>3, <1>5, <1>6 DEF q

LEMMA CancelLife == ASSUME LInv, NEW o \in Orders, Cancel(o) PROVE LInv'
<1> DEFINE q == HeldOf(o)
<1>1. TInv'
  BY CancelTypes DEF LInv
<1>2. /\ order'[o].status = "cancelled" /\ shipment' = shipment
      /\ \A p \in Orders : p # o => order'[p] = order[p]
  <2>1. /\ MoveOrder(o, "cancelled") /\ shipment' = shipment
        /\ "cancelled" \in Statuses /\ "cancelled" # order[o].status
    BY DEF Cancel, Statuses
  <2> QED BY <2>1, MoveTypes DEF LInv, TInv, OrderTypes
<1>3. /\ \A n \in Rows : q[n] # 0 => reservation[n].line \in LinesOf(o)
      /\ \A l \in Lines : /\ line'[l].shipped = line[l].shipped
                          /\ line'[l].reserved = IF l \in LinesOf(o) THEN 0 ELSE line[l].reserved
                          /\ line'[l].cancelled = IF l \in LinesOf(o) THEN Ordered[l]
                                                  ELSE line[l].cancelled
      /\ \A l \in LinesOf(o) : line[l].shipped = 0
      /\ LinesFit'
  BY CancelMoves
<1>4. \A n \in Rows :
        /\ q[n] = 0 => reservation'[n] = reservation[n]
        /\ reservation'[n].line = reservation[n].line
        /\ reservation'[n].consumed = reservation[n].consumed
        /\ q[n] # 0 => reservation'[n].status
                         = IF Remaining(reservation[n]) = q[n] THEN "released" ELSE "active"
  <2>1. RInv /\ q \in Quantities /\ ReleaseAll(q, LinesOf(o))
    BY CancelMoves DEF LInv, TInv
  <2> HIDE DEF q
  <2> QED BY <2>1, ReleasedRows
<1>5. ConsumedIsUsed'
  BY <1>4 DEF LInv, ConsumedIsUsed
<1>6. Asked'
  BY <1>2, <1>4, AskedStays DEF LInv
<1>7. \A n \in RowsOf(o) : reservation'[n].status = "released" /\ reservation'[n].consumed = 0
  <2> TAKE n \in RowsOf(o)
  <2>1. n \in Rows /\ reservation[n].line \in LinesOf(o) /\ reservation[n].line \in Lines
    BY DEF RowsOf, LinesOf
  <2>2. reservation[n].consumed = 0
    <3>1. reservation[n].consumed \in Nat
      BY <2>1, RowTypes DEF LInv, TInv
    <3>2. reservation[n].consumed <= line[reservation[n].line].shipped
      BY <2>1, LineCovers DEF LInv, TInv
    <3> QED BY <1>3, <2>1, <3>1, <3>2
  <2>3. CASE reservation[n].status = "active"
    <3>1. q[n] = Remaining(reservation[n])
      BY <2>1, <2>3 DEF HeldOf
    <3>2. Remaining(reservation[n]) > 0
      BY <2>1, <2>3 DEF LInv, TInv, RInv, RowsConsistent
    <3> QED BY <1>4, <2>1, <2>2, <3>1, <3>2
  <2>4. CASE reservation[n].status # "active"
    <3>1. q[n] = 0
      BY <2>1, <2>4 DEF HeldOf
    <3>2. reservation[n].status \in {NoRow, "active", "consumed", "released"}
      BY <2>1, RowTypes DEF LInv, TInv
    <3>3. reservation[n].status # NoRow
      BY <2>1, StockAssumption DEF LInv, TInv, RInv, RowsConsistent, EmptyRow
    <3>4. reservation[n].status # "consumed"
      BY <2>1, <2>2 DEF LInv, ConsumedIsUsed
    <3> QED BY <1>4, <2>1, <2>2, <2>4, <3>1, <3>2, <3>3, <3>4
  <2> QED BY <2>3, <2>4
<1>8. Outstanding(commitment'[o]) = 0
  <2>1. o \in CreditOrders /\ commitment \in [CreditOrders -> Commitment]
        /\ Outstanding(commitment[o]) >= 0
    BY CreditFacts DEF LInv, TInv, Orders, CreditOrders
  <2>2. CASE commitment[o].status = "active"
    <3>1. commitment'[o] = AfterRelease([commitment[o] EXCEPT !.released =
                                           @ + Outstanding(commitment[o])])
      BY <2>1, <2>2 DEF Cancel, FreeCredit, ReleaseCredit
    <3>2. commitment[o] \in Commitment
      BY <2>1
    <3> QED BY <3>1, <3>2 DEF Outstanding, AfterRelease, Commitment
  <2>3. CASE commitment[o].status # "active"
    <3>1. commitment'[o] = commitment[o]
      BY <2>3 DEF Cancel, FreeCredit, cVars
    <3>2. ~(Outstanding(commitment[o]) > 0) /\ Outstanding(commitment[o]) \in Int
      BY <2>1, <2>3 DEF LInv, TInv, CInv, CommitmentsConsistent, Outstanding, Commitment
    <3> QED BY <2>1, <3>1, <3>2
  <2> QED BY <2>2, <2>3
<1>9. ASSUME NEW p \in Orders, p # o PROVE Life(p)'
  <2>1. commitment'[p] = commitment[p]
    <3>1. commitment \in [CreditOrders -> Commitment]
      BY CreditFacts DEF LInv, TInv
    <3> QED BY <1>9, <3>1 DEF Cancel, FreeCredit, ReleaseCredit, cVars, CreditOrders, Orders
  <2>2. \A l \in LinesOf(p) : l \in Lines /\ l \notin LinesOf(o)
    BY <1>9 DEF LinesOf
  <2>3. \A n \in Rows : reservation'[n].line \in LinesOf(p) => reservation'[n] = reservation[n]
    BY <1>3, <1>4, <2>2
  <2>4. SameOrder(p)
    BY <1>2, <1>3, <1>9, <2>1, <2>2, <2>3 DEF SameOrder
  <2> QED BY <2>4, SameLife DEF LInv
<1>10. Life(o)'
  <2>1. LinesOf(o)' = LinesOf(o) /\ \A l \in LinesOf(o) : l \in Lines
    BY DEF LinesOf
  <2>2. \A n \in RowsOf(o)' : n \in RowsOf(o)
    BY <1>4, <2>1 DEF RowsOf
  <2>3. \A l \in LinesOf(o) : line'[l].reserved = 0 /\ line'[l].shipped = 0
                              /\ line'[l].cancelled = Ordered[l]
    BY <1>3, <2>1
  <2>4. PICK l \in LinesOf(o) : Ordered[l] > 0
    BY OrderAssumption DEF LinesOf
  <2>5. Outstanding(commitment[o])' = 0
    BY <1>8 DEF Outstanding
  <2> QED BY <1>2, <1>7, <2>1, <2>2, <2>3, <2>4, <2>5 DEF Life
<1> QED BY <1>1, <1>3, <1>5, <1>6, <1>9, <1>10 DEF LInv
-----------------------------------------------------------------------------
\* Steps that leave lines, reservations and commitments alone.
LEMMA QuietLife ==
  ASSUME LInv, line' = line, reservation' = reservation, commitment' = commitment,
         NEW p \in Orders, order'[p].status = order[p].status
  PROVE  Life(p)'
<1>1. SameOrder(p)
  BY DEF SameOrder
<1> QED BY <1>1, SameLife DEF LInv

LEMMA QuietLines ==
  ASSUME LInv, line' = line, reservation' = reservation
  PROVE  LinesFit' /\ ConsumedIsUsed'
BY DEF LInv, LinesFit, ConsumedIsUsed

LEMMA ValidateLife ==
  ASSUME LInv, NEW s \in Shipments, NEW o \in Orders, NEW q \in Quantities,
         ValidateShipment(s, o, q)
  PROVE  LInv'
<1>1. /\ line' = line /\ reservation' = reservation /\ commitment' = commitment /\ order' = order
  BY DEF ValidateShipment, rVars, cVars
<1>2. TInv'
  BY ValidateTypes DEF LInv
<1>3. LinesFit' /\ ConsumedIsUsed' /\ \A p \in Orders : Life(p)'
  BY <1>1, QuietLines, QuietLife
<1>4. Asked'
  <2>1. /\ \A o1 : LinesOf(o1)' = LinesOf(o1)
        /\ \E n \in Rows : q[n] > 0
        /\ \A n \in Rows : q[n] > 0 => reservation[n].line \in LinesOf(o)
    BY DEF ValidateShipment, RowsOf, LinesOf
  <2>2. /\ \A t \in Shipments : t # s => shipment'[t] = shipment[t]
        /\ shipment'[s].order = o /\ shipment'[s].quantity = q
    BY DEF ValidateShipment, LInv, TInv, OrderTypes
  <2> QED BY <1>1, <2>1, <2>2 DEF LInv, Asked
<1> QED BY <1>2, <1>3, <1>4 DEF LInv

LEMMA InsertLife ==
  ASSUME LInv, NEW s \in Shipments, InsertShipment(s) PROVE LInv'
<1>1. /\ line' = line /\ reservation' = reservation /\ commitment' = commitment /\ order' = order
  BY DEF InsertShipment, rVars, cVars
<1>2. TInv'
  BY InsertTypes DEF LInv
<1>3. LinesFit' /\ ConsumedIsUsed' /\ \A p \in Orders : Life(p)'
  BY <1>1, QuietLines, QuietLife
<1>4. Asked'
  <2>1. /\ \A t \in Shipments : t # s => shipment'[t] = shipment[t]
        /\ shipment[s].status # "none" /\ shipment'[s].order = shipment[s].order
        /\ shipment'[s].quantity = shipment[s].quantity
    BY DEF InsertShipment, LInv, TInv, OrderTypes, ShipmentRows
  <2> QED BY <1>1, <2>1, AskedStays DEF LInv
<1> QED BY <1>2, <1>3, <1>4 DEF LInv

LEMMA TransitionLife ==
  ASSUME LInv, NEW s \in Shipments, NEW step \in Transitions, NEW expected,
         TransitionShipment(s, step, expected)
  PROVE  LInv'
<1>0. PICK o \in Orders : o = shipment[s].order
  <2>1. shipment[s].status # "none"
    BY DEF TransitionShipment, Transitions
  <2> QED BY <2>1 DEF LInv, Asked
<1>1. /\ line' = line /\ reservation' = reservation /\ commitment' = commitment
  BY DEF TransitionShipment, rVars, cVars
<1>2. TInv'
  BY TransitionTypes DEF LInv
<1>3. shipment[s].status # "none"
  BY DEF TransitionShipment, Transitions
<1>4. Asked'
  <2>1. /\ \A t \in Shipments : t # s => shipment'[t] = shipment[t]
        /\ shipment'[s].order = shipment[s].order
        /\ shipment'[s].quantity = shipment[s].quantity
    BY DEF TransitionShipment, LInv, TInv, OrderTypes, ShipmentRows
  <2> QED BY <1>1, <1>3, <2>1, AskedStays DEF LInv
<1>5. \A p \in Orders : Life(p)'
  <2>1. CASE step[1] = "draft" /\ order[o].status \in Waiting
    <3>2. order'[o].status = "fulfilling" /\ \A p \in Orders : p # o => order'[p] = order[p]
      <4>1. MoveOrder(o, "fulfilling") /\ "fulfilling" \in Statuses
            /\ "fulfilling" # order[o].status
        BY <1>0, <2>1 DEF TransitionShipment, Statuses, Waiting
      <4> QED BY <4>1, MoveTypes DEF LInv, TInv, OrderTypes
    <3>3. Life(o)'
      <4>1. LinesOf(o)' = LinesOf(o)
        BY DEF LinesOf
      <4>2. Life(o) /\ order[o].status \notin {"cancelled", "completed"}
        BY <2>1 DEF LInv, Waiting
      <4> QED BY <1>1, <3>2, <4>1, <4>2 DEF Life
    <3> QED BY <1>1, <3>2, <3>3, QuietLife
  <2>2. CASE ~(step[1] = "draft" /\ order[o].status \in Waiting)
    <3>1. order' = order
      BY <1>0, <2>2 DEF TransitionShipment
    <3> QED BY <1>1, <3>1, QuietLife
  <2> QED BY <2>1, <2>2
<1> QED BY <1>1, <1>2, <1>4, <1>5, QuietLines DEF LInv

LEMMA RestockLife ==
  ASSUME LInv, NEW a \in 1..NA, NEW b \in Balances, NEW delta \in Deltas,
         Restock(a, b, delta)
  PROVE  LInv'
<1>1. /\ line' = line /\ reservation' = reservation /\ commitment' = commitment
      /\ order' = order /\ shipment' = shipment
  BY DEF Restock, AdjustOnHand, cVars, oVars
<1>2. TInv'
  BY RestockTypes DEF LInv
<1>3. Asked'
  BY <1>1, AskedStays DEF LInv
<1> QED BY <1>1, <1>2, <1>3, QuietLines, QuietLife DEF LInv
-----------------------------------------------------------------------------
LinesNatural == \A l \in Lines : line[l].reserved \in Nat

\* What LineCovers says of the next state.
LEMMA LinesNaturalNext == RInv' => LinesNatural'
<1>1. RInv => LinesNatural
  BY LineCovers DEF LinesNatural
<1> QED BY <1>1, PTL
\* A shipment takes its rows off the lines of its order, which is open.
LEMMA ShipMoves ==
  ASSUME LInv, NEW s \in Shipments, NEW k \in Keys, Ship(s, k),
         NEW o \in Orders, o = shipment[s].order
  PROVE  /\ \A l \in Lines :
              /\ line'[l].cancelled = line[l].cancelled
              /\ line'[l].reserved \in Nat
              /\ line'[l].shipped \in Nat /\ line'[l].shipped >= line[l].shipped
              /\ l \notin LinesOf(o) => /\ line'[l].reserved = line[l].reserved
                                       /\ line'[l].shipped = line[l].shipped
         /\ \E l \in LinesOf(o) : line'[l].shipped > line[l].shipped
         /\ order[o].status \notin {"draft", "completed", "cancelled"}
         /\ \A n \in Rows : shipment[s].quantity[n] # 0 => reservation[n].line \in LinesOf(o)
         /\ LinesFit'
<1> DEFINE q == shipment[s].quantity
<1>1. q \in Quantities /\ ConsumeAll(s, q)
  BY ShipParts DEF LInv
<1>2. /\ \E n \in Rows : q[n] > 0
      /\ \A n \in Rows : q[n] > 0 => reservation[n].line \in LinesOf(o)
  BY DEF Ship, LInv, Asked
<1> HIDE DEF q
<1>3. q \in [Rows -> Nat]
  BY <1>1, RowsAssumption DEF Quantities
<1>4. \A l \in Lines : QtyOf(l, reservation, q) \in Nat
  BY <1>3, QtyOfCovers
<1>5. \A l \in Lines : l \notin LinesOf(o) => QtyOf(l, reservation, q) = 0
  <2> SUFFICES ASSUME NEW l \in Lines, l \notin LinesOf(o) PROVE QtyOf(l, reservation, q) = 0
    OBVIOUS
  <2>1. \A n \in Rows : q[n] # 0 => reservation[n].line # l
    BY <1>2, <1>3
  <2> QED BY <1>1, <2>1, QtyOfNone
<1>6. \A l \in Lines : /\ line'[l].cancelled = line[l].cancelled
                      /\ line'[l].reserved = line[l].reserved - QtyOf(l, reservation, q)
                      /\ line'[l].shipped = line[l].shipped + QtyOf(l, reservation, q)
  <2>1. line \in [Lines -> LineRows]
    BY DEF LInv, TInv, RInv, RTypeOK
  <2>2. line' = [l \in Lines |->
          [line[l] EXCEPT !.reserved = @ - QtyOf(l, reservation, q),
                          !.shipped  = @ + QtyOf(l, reservation, q)]]
    BY <1>1 DEF ConsumeAll
  <2> QED BY <2>1, <2>2 DEF LineRows
<1>7. \A l \in Lines : line[l].reserved \in Nat /\ line[l].shipped \in Nat
                      /\ line[l].cancelled \in Int
  BY LineCovers DEF LInv, TInv
<1>8. \A l \in Lines : line'[l].reserved \in Nat
  <2>1. RInv'
    BY ShipTypes DEF LInv, TInv
  <2> QED BY <2>1, LinesNaturalNext DEF LinesNatural
<1>9. PICK n \in Rows : q[n] > 0 /\ reservation[n].line \in LinesOf(o)
  BY <1>2
<1> DEFINE l0 == reservation[n].line
<1>10. l0 \in Lines /\ l0 \in LinesOf(o)
  BY <1>9 DEF LinesOf
<1>11. QtyOf(l0, reservation, q) > 0
  <2>1. q[n] <= QtyOf(l0, reservation, q)
    BY <1>3, QtyOfCovers
  <2> QED BY <1>3, <1>4, <1>9, <1>10, <2>1
<1>12. line[l0].reserved > 0
  BY <1>4, <1>6, <1>7, <1>8, <1>10, <1>11
<1>13. order[o].status \notin {"draft", "completed", "cancelled"}
  BY <1>10, <1>12 DEF LInv, Life
<1>14. LinesFit'
  <2> SUFFICES ASSUME NEW l \in Lines
               PROVE  /\ line'[l].cancelled >= 0
                      /\ line'[l].reserved + line'[l].shipped + line'[l].cancelled <= Ordered[l]
    BY DEF LinesFit
  <2>1. /\ line[l].cancelled >= 0 /\ Ordered[l] \in Int
        /\ line[l].reserved + line[l].shipped + line[l].cancelled <= Ordered[l]
    BY StockAssumption DEF LInv, LinesFit
  <2> QED BY <1>4, <1>6, <1>7, <2>1
<1>15. \A l \in Lines : line'[l].shipped \in Nat /\ line'[l].shipped >= line[l].shipped
  BY <1>4, <1>6, <1>7
<1>16. \A l \in Lines : l \notin LinesOf(o) => /\ line'[l].reserved = line[l].reserved
                                               /\ line'[l].shipped = line[l].shipped
  BY <1>5, <1>6, <1>7
<1>17. line'[l0].shipped > line[l0].shipped
  BY <1>4, <1>6, <1>7, <1>10, <1>11
<1>18. \A m \in Rows : q[m] # 0 => reservation[m].line \in LinesOf(o)
  BY <1>2, <1>3
<1> QED BY <1>6, <1>8, <1>10, <1>13, <1>14, <1>15, <1>16, <1>17, <1>18 DEF q

LEMMA ShipLife == ASSUME LInv, NEW s \in Shipments, NEW k \in Keys, Ship(s, k) PROVE LInv'
<1>0. PICK o \in Orders : o = shipment[s].order
  <2>1. shipment[s].status # "none"
    BY DEF Ship
  <2> QED BY <2>1 DEF LInv, Asked
<1> DEFINE q == shipment[s].quantity
<1>1. TInv'
  BY ShipTypes DEF LInv
<1>2. /\ \A l \in Lines :
           /\ line'[l].cancelled = line[l].cancelled
           /\ line'[l].reserved \in Nat
           /\ line'[l].shipped \in Nat /\ line'[l].shipped >= line[l].shipped
           /\ l \notin LinesOf(o) => /\ line'[l].reserved = line[l].reserved
                                    /\ line'[l].shipped = line[l].shipped
      /\ \E l \in LinesOf(o) : line'[l].shipped > line[l].shipped
      /\ order[o].status \notin {"draft", "completed", "cancelled"}
      /\ \A n \in Rows : q[n] # 0 => reservation[n].line \in LinesOf(o)
      /\ LinesFit'
  BY <1>0, ShipMoves
<1>3. \A n \in Rows :
        /\ q[n] = 0 => reservation'[n] = reservation[n]
        /\ reservation'[n].line = reservation[n].line
        /\ reservation'[n].consumed = reservation[n].consumed + q[n]
  <2>1. RInv /\ q \in Quantities /\ ConsumeAll(s, q)
    BY ShipParts DEF LInv, TInv
  <2> HIDE DEF q
  <2> QED BY <2>1, ConsumedRows
<1>4. ConsumedIsUsed'
  <2>1. \A n \in Rows : q[n] \in Nat /\ reservation[n].consumed \in Nat
    <3>1. RInv /\ q \in Quantities
      BY ShipParts DEF LInv, TInv
    <3> HIDE DEF q
    <3> QED BY <3>1, BatchTypes, RowTypes
  <2> QED BY <1>3, <2>1 DEF LInv, ConsumedIsUsed
<1>5. Asked'
  <2>1. /\ \A t \in Shipments : t # s => shipment'[t] = shipment[t]
        /\ shipment[s].status # "none" /\ shipment'[s].order = shipment[s].order
        /\ shipment'[s].quantity = shipment[s].quantity
    BY DEF Ship, LInv, TInv, OrderTypes, ShipmentRows
  <2> QED BY <1>3, <2>1, AskedStays DEF LInv
<1>6. /\ order'[o].status = DeliveryStatus(o, line')
      /\ \A p \in Orders : p # o => order'[p] = order[p]
      /\ commitment' = commitment
  BY <1>0 DEF Ship, LInv, TInv, OrderTypes, cVars
<1>7. ASSUME NEW p \in Orders, p # o PROVE Life(p)'
  <2>1. \A l \in LinesOf(p) : l \in Lines /\ l \notin LinesOf(o)
    BY <1>7 DEF LinesOf
  <2>2. \A n \in Rows : reservation'[n].line \in LinesOf(p) => reservation'[n] = reservation[n]
    BY <1>2, <1>3, <2>1
  <2>3. SameOrder(p)
    BY <1>2, <1>6, <1>7, <2>1, <2>2 DEF SameOrder
  <2> QED BY <2>3, SameLife DEF LInv
<1>8. Life(o)'
  <2>1. LinesOf(o)' = LinesOf(o) /\ \A l \in LinesOf(o) : l \in Lines
    BY DEF LinesOf
  <2>2. \A l \in LinesOf(o) : line'[l].cancelled = 0
    BY <1>2, <2>1 DEF LInv, Life
  <2>3. \A l \in LinesOf(o) : line'[l].shipped + line'[l].cancelled = Ordered[l]
                               <=> line'[l].shipped = Ordered[l] /\ line'[l].reserved = 0
    <3> TAKE l \in LinesOf(o)
    <3>1. /\ line'[l].cancelled = 0 /\ line'[l].reserved \in Nat /\ line'[l].shipped \in Nat
          /\ line'[l].reserved + line'[l].shipped + line'[l].cancelled <= Ordered[l]
      BY <1>2, <2>1, <2>2 DEF LinesFit
    <3>2. Ordered[l] \in Nat
      BY <2>1, StockAssumption
    <3> QED BY <3>1, <3>2
  <2>4. /\ order'[o].status \in {"completed", "fulfilling"}
        /\ order'[o].status = "completed" <=>
             \A l \in LinesOf(o) : line'[l].shipped = Ordered[l] /\ line'[l].reserved = 0
    BY <1>6, <2>3 DEF DeliveryStatus
  <2> QED BY <2>1, <2>2, <2>4 DEF Life
<1> QED BY <1>1, <1>2, <1>4, <1>5, <1>7, <1>8 DEF LInv
-----------------------------------------------------------------------------
LEMMA LifeInit == OInit => LInv
<1> SUFFICES ASSUME OInit PROVE LInv
  OBVIOUS
<1>1. TInv
  BY TInit
<1>2. \A l \in Lines : line[l].reserved = 0 /\ line[l].shipped = 0 /\ line[l].cancelled = 0
  BY DEF OInit, RInit
<1>3. LinesFit
  BY <1>2, StockAssumption DEF LinesFit
<1>4. ConsumedIsUsed
  <2>1. \A n \in Rows : reservation[n].status = NoRow
    BY DEF OInit, RInit, EmptyRow
  <2> QED BY <2>1, StockAssumption DEF ConsumedIsUsed
<1>5. Asked
  BY DEF OInit, NoShipment, Asked
<1>6. ASSUME NEW o \in Orders PROVE Life(o)
  <2>1. order[o].status = "draft"
    BY DEF OInit
  <2>2. PICK l \in LinesOf(o) : Ordered[l] > 0
    BY OrderAssumption DEF LinesOf
  <2>3. \A m \in LinesOf(o) : m \in Lines
    BY DEF LinesOf
  <2> QED BY <1>2, <2>1, <2>2, <2>3 DEF Life
<1> QED BY <1>1, <1>3, <1>4, <1>5, <1>6 DEF LInv

LEMMA LifeNext == LInv /\ [ONext]_vars => LInv'
<1> SUFFICES ASSUME LInv, [ONext]_vars PROVE LInv'
  OBVIOUS
<1>1. ASSUME NEW r \in Requests, Confirm(r) PROVE LInv'
  BY <1>1, ConfirmLife
<1>2. ASSUME NEW o \in Orders, Cancel(o) PROVE LInv'
  BY <1>2, CancelLife
<1>3. ASSUME NEW s \in Shipments, NEW o \in Orders, NEW q \in Quantities,
             ValidateShipment(s, o, q)
      PROVE  LInv'
  BY <1>3, ValidateLife
<1>4. ASSUME NEW s \in Shipments, InsertShipment(s) PROVE LInv'
  BY <1>4, InsertLife
<1>5. ASSUME NEW s \in Shipments, NEW step \in Transitions, NEW expected \in 1..3,
             TransitionShipment(s, step, expected)
      PROVE  LInv'
  BY <1>5, TransitionLife
<1>6. ASSUME NEW s \in Shipments, NEW k \in Keys, Ship(s, k) PROVE LInv'
  BY <1>6, ShipLife
<1>7. ASSUME NEW a \in 1..NA, NEW b \in Balances, NEW delta \in Deltas, Restock(a, b, delta)
      PROVE  LInv'
  BY <1>7, RestockLife
<1>8. CASE UNCHANGED vars
  <2>1. /\ line' = line /\ reservation' = reservation /\ commitment' = commitment
        /\ order' = order /\ shipment' = shipment
    BY <1>8 DEF vars, rVars, cVars, oVars
  <2>2. TInv'
    BY <1>8, TNext DEF LInv
  <2>3. Asked'
    BY <2>1, AskedStays DEF LInv
  <2> QED BY <2>1, <2>2, <2>3, QuietLines, QuietLife DEF LInv
<1> QED BY <1>1, <1>2, <1>3, <1>4, <1>5, <1>6, <1>7, <1>8 DEF ONext

LEMMA FulfilmentLives == OSpec => []LInv
<1> QED BY LifeInit, LifeNext, PTL DEF OSpec

\* A cancelled order holds nothing, whatever was being picked when it was cancelled.
THEOREM CancelledOrders == OSpec => []CancelledHoldsNothing
<1>1. LInv => CancelledHoldsNothing
  BY DEF LInv, Life, CancelledHoldsNothing
<1> QED BY <1>1, FulfilmentLives, PTL

\* An order is completed exactly when all of it was delivered, in whatever
\* order its shipments left.
THEOREM CompletedOrders == OSpec => []CompletedIsDelivered
<1>1. LInv => CompletedIsDelivered
  BY DEF LInv, Life, CompletedIsDelivered
<1> QED BY <1>1, FulfilmentLives, PTL

\* The status a confirmation left tells what is reserved, until picking begins.
THEOREM AllocatedOrders == OSpec => []AllocatedIsReserved
<1>1. LInv => AllocatedIsReserved
  BY DEF LInv, Life, AllocatedIsReserved
<1> QED BY <1>1, FulfilmentLives, PTL

\* So the status of an order tells what is reserved and delivered of it.
THEOREM StatusTold == OSpec => []StatusTellsLines
<1> QED BY CancelledOrders, CompletedOrders, AllocatedOrders, PTL DEF StatusTellsLines
(***************************************************************************)
(* The promise to the customer: every step of OrderFulfilment is a step of *)
(* OrderPromise or changes nothing of it.                                  *)
(***************************************************************************)

\* What the customer sees of a status, and of the state.
PhaseOf(status) == CASE status = "draft" -> "draft"
                     [] status = "completed" -> "completed"
                     [] status = "cancelled" -> "withdrawn"
                     [] OTHER -> "open"
Phases == [o \in Orders |-> PhaseOf(order[o].status)]
Delivered == [l \in Lines |-> line[l].shipped]

\* The actions of the promise, in these terms.
LEMMA PromiseTerms ==
  /\ Promise!PInit <=> /\ Phases = [o \in Orders |-> "draft"]
                       /\ Delivered = [l \in Lines |-> 0]
  /\ \A o \in Orders :
       /\ Promise!Accept(o) <=> /\ Phases[o] = "draft"
                                /\ Phases' = [Phases EXCEPT ![o] = "open"]
                                /\ Delivered' = Delivered
       /\ Promise!Withdraw(o) <=> /\ Phases[o] \in {"draft", "open"}
                                  /\ \A l \in LinesOf(o) : Delivered[l] = 0
                                  /\ Phases' = [Phases EXCEPT ![o] = "withdrawn"]
                                  /\ Delivered' = Delivered
       /\ Promise!Deliver(o) <=>
            /\ Phases[o] = "open"
            /\ \E l \in LinesOf(o) : Delivered'[l] > Delivered[l]
            /\ \A l \in Lines : Delivered'[l] \in Delivered[l]..(IF OrderOf[l] = o THEN Ordered[l]
                                                                ELSE Delivered[l])
            /\ DOMAIN Delivered' = Lines
            /\ Phases' = [Phases EXCEPT ![o] =
                 IF \A l \in LinesOf(o) : Delivered'[l] = Ordered[l] THEN "completed" ELSE "open"]
  /\ Phases' = Phases /\ Delivered' = Delivered => UNCHANGED Promise!pVars
BY DEF Promise!PInit, Promise!Accept, Promise!Withdraw, Promise!Deliver, Promise!Own,
       Promise!pVars, Phases, PhaseOf, Delivered, LinesOf

\* One order changes its status.
LEMMA OnePhase ==
  ASSUME NEW o \in Orders, \A p \in Orders : p # o => order'[p] = order[p]
  PROVE  Phases' = [Phases EXCEPT ![o] = PhaseOf(order'[o].status)]
BY DEF Phases, PhaseOf

\* No delivery.
LEMMA NoDelivery ==
  ASSUME \A l \in Lines : line'[l].shipped = line[l].shipped PROVE Delivered' = Delivered
BY DEF Delivered

LEMMA ConfirmAccepts ==
  ASSUME LInv, NEW r \in Requests, Confirm(r) PROVE Promise!Accept(r.order)
<1> DEFINE o == r.order
           status == TargetStatus(o, line')
<1>1. /\ o \in Orders /\ order[o].status = "draft" /\ MoveOrder(o, status)
      /\ status \in {"confirmed", "allocating", "allocated"}
  BY ConfirmParts DEF LInv
<1> HIDE DEF status
<1>2. status \in Statuses /\ status # order[o].status
  BY <1>1 DEF Statuses
<1>3. order'[o].status = status /\ \A p \in Orders : p # o => order'[p] = order[p]
  BY <1>1, <1>2, MoveTypes DEF LInv, TInv, OrderTypes
<1>4. Delivered' = Delivered
  BY ConfirmMoves, NoDelivery
<1>5. Phases' = [Phases EXCEPT ![o] = "open"]
  BY <1>1, <1>3, OnePhase DEF PhaseOf
<1>6. Phases[o] = "draft"
  BY <1>1 DEF Phases, PhaseOf
<1> QED BY <1>1, <1>4, <1>5, <1>6, PromiseTerms

LEMMA CancelWithdraws ==
  ASSUME LInv, NEW o \in Orders, Cancel(o) PROVE Promise!Withdraw(o)
<1>1. /\ MoveOrder(o, "cancelled") /\ order[o].status \notin {"completed", "cancelled"}
      /\ "cancelled" \in Statuses /\ "cancelled" # order[o].status
  BY DEF Cancel, Statuses
<1>2. order'[o].status = "cancelled" /\ \A p \in Orders : p # o => order'[p] = order[p]
  BY <1>1, MoveTypes DEF LInv, TInv, OrderTypes
<1>3. Delivered' = Delivered
  BY CancelMoves, NoDelivery
<1>4. Phases' = [Phases EXCEPT ![o] = "withdrawn"]
  BY <1>2, OnePhase DEF PhaseOf
<1>5. Phases[o] \in {"draft", "open"}
  BY <1>1 DEF Phases, PhaseOf
<1>6. \A l \in LinesOf(o) : Delivered[l] = 0
  BY CancelMoves DEF Delivered, LinesOf
<1> QED BY <1>3, <1>4, <1>5, <1>6, PromiseTerms

LEMMA ShipDelivers ==
  ASSUME LInv, NEW s \in Shipments, NEW k \in Keys, Ship(s, k),
         NEW o \in Orders, o = shipment[s].order
  PROVE  Promise!Deliver(o)
<1>1. LInv'
  BY ShipLife
<1>2. /\ \A l \in Lines :
           /\ line'[l].cancelled = line[l].cancelled
           /\ line'[l].reserved \in Nat
           /\ line'[l].shipped \in Nat /\ line'[l].shipped >= line[l].shipped
           /\ l \notin LinesOf(o) => line'[l].shipped = line[l].shipped
      /\ \E l \in LinesOf(o) : line'[l].shipped > line[l].shipped
      /\ order[o].status \notin {"draft", "completed", "cancelled"}
      /\ LinesFit'
  BY ShipMoves
<1>3. /\ order'[o].status = DeliveryStatus(o, line')
      /\ \A p \in Orders : p # o => order'[p] = order[p]
  BY DEF Ship, LInv, TInv, OrderTypes
<1>4. \A l \in LinesOf(o) : l \in Lines /\ line[l].cancelled = 0
  BY <1>2 DEF LInv, Life, LinesOf
<1>5. Phases' = [Phases EXCEPT ![o] =
        IF \A l \in LinesOf(o) : Delivered'[l] = Ordered[l] THEN "completed" ELSE "open"]
  <2>1. \A l \in LinesOf(o) : line'[l].shipped + line'[l].cancelled = Delivered'[l]
    BY <1>2, <1>4 DEF Delivered
  <2>2. PhaseOf(order'[o].status) =
          IF \A l \in LinesOf(o) : Delivered'[l] = Ordered[l] THEN "completed" ELSE "open"
    BY <1>3, <2>1 DEF DeliveryStatus, PhaseOf
  <2> QED BY <1>3, <2>2, OnePhase
<1>6. \A l \in Lines : Delivered'[l] \in Delivered[l]..(IF OrderOf[l] = o THEN Ordered[l]
                                                       ELSE Delivered[l])
  <2> TAKE l \in Lines
  <2>1. /\ Delivered'[l] = line'[l].shipped /\ Delivered[l] = line[l].shipped
        /\ line[l].shipped \in Nat
    BY LineCovers DEF Delivered, LInv, TInv
  <2>2. CASE OrderOf[l] = o
    <3>1. /\ line'[l].cancelled >= 0 /\ Ordered[l] \in Nat /\ line'[l].cancelled \in Int
          /\ line'[l].reserved + line'[l].shipped + line'[l].cancelled <= Ordered[l]
      BY <1>2, LineCovers, StockAssumption DEF LinesFit, LInv, TInv
    <3>2. line'[l].reserved \in Nat /\ line'[l].shipped \in Nat
      BY <1>2
    <3>3. line'[l].shipped <= Ordered[l]
      BY <3>1, <3>2
    <3> QED BY <1>2, <2>1, <2>2, <3>1, <3>3
  <2>3. CASE OrderOf[l] # o
    <3>1. line'[l].shipped = line[l].shipped
      BY <1>2, <2>3 DEF LinesOf
    <3> QED BY <2>1, <2>3, <3>1
  <2> QED BY <2>2, <2>3
<1>7. Phases[o] = "open" /\ DOMAIN Delivered' = Lines
  BY <1>2 DEF Phases, PhaseOf, Delivered
<1>8. \E l \in LinesOf(o) : Delivered'[l] > Delivered[l]
  BY <1>2, <1>4 DEF Delivered
<1> QED BY <1>5, <1>6, <1>7, <1>8, PromiseTerms

\* The other steps the customer does not see.
LEMMA QuietPromise ==
  ASSUME line' = line, \A p \in Orders : PhaseOf(order'[p].status) = PhaseOf(order[p].status)
  PROVE  UNCHANGED Promise!pVars
<1>1. Phases' = Phases /\ Delivered' = Delivered
  BY DEF Phases, Delivered
<1> QED BY <1>1, PromiseTerms

LEMMA TransitionIsQuiet ==
  ASSUME LInv, NEW s \in Shipments, NEW step \in Transitions, NEW expected,
         TransitionShipment(s, step, expected)
  PROVE  UNCHANGED Promise!pVars
<1>1. PICK o \in Orders : o = shipment[s].order
  <2>1. shipment[s].status # "none"
    BY DEF TransitionShipment, Transitions
  <2> QED BY <2>1 DEF LInv, Asked
<1>2. line' = line
  BY DEF TransitionShipment, rVars
<1>3. CASE step[1] = "draft" /\ order[o].status \in Waiting
  <2>1. MoveOrder(o, "fulfilling") /\ "fulfilling" \in Statuses /\ "fulfilling" # order[o].status
    BY <1>1, <1>3 DEF TransitionShipment, Statuses, Waiting
  <2>2. order'[o].status = "fulfilling" /\ \A p \in Orders : p # o => order'[p] = order[p]
    BY <2>1, MoveTypes DEF LInv, TInv, OrderTypes
  <2>3. PhaseOf(order'[o].status) = PhaseOf(order[o].status)
    BY <1>3, <2>2 DEF PhaseOf, Waiting
  <2> QED BY <1>2, <2>2, <2>3, QuietPromise
<1>4. CASE ~(step[1] = "draft" /\ order[o].status \in Waiting)
  <2>1. order' = order
    BY <1>1, <1>4 DEF TransitionShipment
  <2> QED BY <1>2, <2>1, QuietPromise
<1> QED BY <1>3, <1>4

LEMMA PromiseInit == OInit => Promise!PInit
<1> SUFFICES ASSUME OInit PROVE Promise!PInit
  OBVIOUS
<1>1. \A o \in Orders : order[o].status = "draft"
  BY DEF OInit
<1>2. \A l \in Lines : line[l].shipped = 0
  BY DEF OInit, RInit
<1> QED BY <1>1, <1>2, PromiseTerms DEF Phases, PhaseOf, Delivered

LEMMA PromiseNext == LInv /\ [ONext]_vars => [Promise!PNext]_(Promise!pVars)
<1> SUFFICES ASSUME LInv, [ONext]_vars PROVE Promise!PNext \/ UNCHANGED Promise!pVars
  OBVIOUS
<1>1. ASSUME NEW r \in Requests, Confirm(r) PROVE Promise!PNext
  <2>1. r.order \in Orders
    BY OrderAssumption
  <2> QED BY <1>1, <2>1, ConfirmAccepts DEF Promise!PNext
<1>2. ASSUME NEW o \in Orders, Cancel(o) PROVE Promise!PNext
  BY <1>2, CancelWithdraws DEF Promise!PNext
<1>3. ASSUME NEW s \in Shipments, NEW o \in Orders, NEW q \in Quantities,
             ValidateShipment(s, o, q)
      PROVE  UNCHANGED Promise!pVars
  BY <1>3, QuietPromise DEF ValidateShipment, rVars
<1>4. ASSUME NEW s \in Shipments, InsertShipment(s) PROVE UNCHANGED Promise!pVars
  BY <1>4, QuietPromise DEF InsertShipment, rVars
<1>5. ASSUME NEW s \in Shipments, NEW step \in Transitions, NEW expected \in 1..3,
             TransitionShipment(s, step, expected)
      PROVE  UNCHANGED Promise!pVars
  BY <1>5, TransitionIsQuiet
<1>6. ASSUME NEW s \in Shipments, NEW k \in Keys, Ship(s, k) PROVE Promise!PNext
  <2>1. PICK o \in Orders : o = shipment[s].order
    BY <1>6 DEF Ship, LInv, Asked
  <2>2. Promise!Deliver(o)
    BY <1>6, <2>1, ShipDelivers
  <2> QED BY <2>2 DEF Promise!PNext
<1>7. ASSUME NEW a \in 1..NA, NEW b \in Balances, NEW delta \in Deltas, Restock(a, b, delta)
      PROVE  UNCHANGED Promise!pVars
  BY <1>7, QuietPromise DEF Restock, AdjustOnHand, oVars
<1>8. CASE UNCHANGED vars
  BY <1>8, QuietPromise DEF vars, rVars, oVars
<1> QED BY <1>1, <1>2, <1>3, <1>4, <1>5, <1>6, <1>7, <1>8 DEF ONext

\* Orders, stock, credit and shipments together keep the promise to the customer:
\* accepted once, no more delivered than ordered, completed by the delivery
\* that finishes it, withdrawn only while nothing was delivered.
THEOREM PromiseIsKept == OSpec => KeepsPromise
<1> QED BY FulfilmentLives, PromiseInit, PromiseNext, PTL DEF OSpec, KeepsPromise, Promise!PSpec
(***************************************************************************)
(* One confirmation for each confirmed order, told by its history.         *)
(***************************************************************************)
KeysOf(o) == {k \in Keys : confirmation[k].order = o}

Story(o) ==
  IF order[o].status = "draft"
  THEN history[o] = <<>> /\ order[o].version = 1 /\ KeysOf(o) = {}
  ELSE /\ Len(history[o]) >= 1 /\ history[o][1][1] = "draft"
       /\ \A i \in 2..Len(history[o]) : history[o][i][1] # "draft"
       /\ IF history[o][1][2] = "cancelled" THEN KeysOf(o) = {}
          ELSE \E k \in Keys : KeysOf(o) = {k} /\ confirmation[k].result = history[o][1][2]
                                              /\ confirmation[k].version = 2

HInv == LInv /\ \A o \in Orders : Story(o)

LEMMA StoryTells == HInv => ConfirmedOnce
<1> SUFFICES ASSUME HInv, NEW o \in Orders
             PROVE  LET keys == {k \in Keys : confirmation[k].order = o} IN
                    IF \E i \in 1..Len(history[o]) :
                         history[o][i][1] = "draft" /\ history[o][i][2] # "cancelled"
                    THEN \E k \in Keys : keys = {k} /\ confirmation[k].result = history[o][1][2]
                                                    /\ confirmation[k].version = 2
                    ELSE keys = {}
  BY DEF ConfirmedOnce
<1>1. Story(o) /\ history[o] \in Seq(Moves) /\ Len(history[o]) \in Nat
  BY LenProperties DEF HInv, LInv, TInv, OrderTypes
<1>2. CASE order[o].status = "draft"
  BY <1>1, <1>2 DEF Story, KeysOf
<1>3. CASE order[o].status # "draft"
  <2>1. /\ Len(history[o]) >= 1 /\ history[o][1][1] = "draft"
        /\ \A i \in 2..Len(history[o]) : history[o][i][1] # "draft"
        /\ IF history[o][1][2] = "cancelled" THEN KeysOf(o) = {}
           ELSE \E k \in Keys : KeysOf(o) = {k} /\ confirmation[k].result = history[o][1][2]
                                               /\ confirmation[k].version = 2
    BY <1>1, <1>3 DEF Story
  <2>2. (\E i \in 1..Len(history[o]) : history[o][i][1] = "draft" /\ history[o][i][2] # "cancelled")
          <=> history[o][1][2] # "cancelled"
    <3>1. \A i \in 1..Len(history[o]) : i = 1 \/ i \in 2..Len(history[o])
      BY <1>1
    <3>2. 1 \in 1..Len(history[o])
      BY <1>1, <2>1
    <3> QED BY <2>1, <3>1, <3>2
  <2> QED BY <2>1, <2>2 DEF KeysOf
<1> QED BY <1>2, <1>3

\* The story of an order that is no draft goes on: its first row stays, what is
\* added does not begin at draft, and its confirmation stays.
LEMMA StoryGoesOn ==
  ASSUME LInv, NEW o \in Orders, Story(o), order[o].status # "draft", order'[o].status # "draft",
         KeysOf(o)' = KeysOf(o), \A k \in KeysOf(o) : confirmation'[k] = confirmation[k],
         \/ history'[o] = history[o]
         \/ \E s \in Statuses : s # order[o].status
                              /\ history'[o] = Append(history[o], <<order[o].status, s>>)
  PROVE  Story(o)'
<1> DEFINE h == history[o]
           g == history'[o]
<1>1. h \in Seq(Moves) /\ Len(h) \in Nat /\ Len(h) >= 1
  BY LenProperties DEF LInv, TInv, OrderTypes, Story
<1>2. /\ g[1] = h[1] /\ Len(g) >= 1
      /\ \A i \in 2..Len(g) : g[i][1] # "draft"
  <2>1. CASE g = h
    BY <1>1, <2>1 DEF Story
  <2>2. ASSUME NEW s \in Statuses, s # order[o].status, g = Append(h, <<order[o].status, s>>)
        PROVE  /\ g[1] = h[1] /\ Len(g) >= 1
               /\ \A i \in 2..Len(g) : g[i][1] # "draft"
    <3>1. <<order[o].status, s>> \in Moves
      BY <2>2 DEF Moves, LInv, TInv, OrderTypes, OrderRows
    <3>2. /\ Len(g) = Len(h) + 1 /\ g[Len(h) + 1] = <<order[o].status, s>>
          /\ \A i \in 1..Len(h) : g[i] = h[i]
      BY <1>1, <2>2, <3>1, AppendProperties
    <3>3. \A i \in 2..Len(h) : h[i][1] # "draft"
      BY DEF Story
    <3>4. \A i \in 2..Len(g) : i = Len(h) + 1 \/ (i \in 2..Len(h) /\ i \in 1..Len(h))
      BY <1>1, <3>2
    <3>5. <<order[o].status, s>>[1] # "draft"
      OBVIOUS
    <3>6. g[1] = h[1] /\ Len(g) >= 1
      BY <1>1, <3>2
    <3>7. \A i \in 2..Len(g) : g[i][1] # "draft"
      <4> SUFFICES ASSUME NEW i \in 2..Len(g) PROVE g[i][1] # "draft"
        OBVIOUS
      <4>1. CASE i = Len(h) + 1
        BY <3>2, <3>5, <4>1
      <4>2. CASE i \in 2..Len(h) /\ i \in 1..Len(h)
        <5>1. g[i] = h[i]
          BY <3>2, <4>2
        <5> QED BY <3>3, <4>2, <5>1
      <4> QED BY <3>4, <4>1, <4>2
    <3> QED BY <3>6, <3>7
  <2> QED BY <2>1, <2>2
<1> QED BY <1>2 DEF Story

\* What a step leaves of an order whose history it does not touch.
LEMMA StoryStays ==
  ASSUME NEW o \in Orders, Story(o), order'[o].status = order[o].status,
         order'[o].version = order[o].version, history'[o] = history[o],
         KeysOf(o)' = KeysOf(o), \A k \in KeysOf(o) : confirmation'[k] = confirmation[k]
  PROVE  Story(o)'
BY DEF Story
LEMMA ConfirmStory == ASSUME HInv, NEW r \in Requests, Confirm(r) PROVE HInv'
<1> DEFINE o == r.order
           status == TargetStatus(o, line')
<1>0. LInv
  BY DEF HInv
<1>1. LInv'
  BY <1>0, ConfirmLife
<1>2. /\ o \in Orders /\ r.key \in Keys /\ order[o].status = "draft" /\ MoveOrder(o, status)
      /\ status \in {"confirmed", "allocating", "allocated"}
      /\ confirmation[r.key] = NoConfirmation
      /\ confirmation' = [confirmation EXCEPT ![r.key] =
           [order |-> o, version |-> order'[o].version, result |-> order'[o].status]]
  BY <1>0, ConfirmParts DEF LInv
<1> HIDE DEF status
<1>3. status \in Statuses /\ status # order[o].status
  BY <1>2 DEF Statuses
<1>4. /\ order'[o].status = status /\ order'[o].version = order[o].version + 1
      /\ \A p \in Orders : p # o => order'[p] = order[p] /\ history'[p] = history[p]
      /\ history'[o] = Append(history[o], <<order[o].status, status>>)
  BY <1>0, <1>2, <1>3, MoveTypes DEF LInv, TInv, OrderTypes
<1>5. /\ confirmation'[r.key] = [order |-> o, version |-> order'[o].version,
                                 result |-> order'[o].status]
      /\ \A k \in Keys : k # r.key => confirmation'[k] = confirmation[k]
      /\ \A p \in Orders : confirmation[r.key].order # p
  <2>1. confirmation \in [Keys -> Confirmations]
    BY <1>0 DEF LInv, TInv, OrderTypes
  <2> QED BY <1>2, <2>1 DEF NoConfirmation, Orders
<1>6. Story(o)'
  <2>1. history[o] = <<>> /\ KeysOf(o) = {} /\ order[o].version = 1
    BY <1>2 DEF HInv, Story
  <2>2. history'[o] = <<<<"draft", status>>>>
    BY <1>2, <1>4, <2>1
  <2>3. Len(history'[o]) = 1 /\ history'[o][1][1] = "draft" /\ history'[o][1][2] = status
    BY <2>2
  <2>4. KeysOf(o)' = {r.key}
    BY <1>2, <1>5, <2>1 DEF KeysOf
  <2>5. confirmation'[r.key].result = status /\ confirmation'[r.key].version = 2
    BY <1>4, <1>5, <2>1
  <2>6. order'[o].status # "draft" /\ status # "cancelled"
    BY <1>2, <1>4
  <2>7. \A i \in 2..Len(history'[o]) : history'[o][i][1] # "draft"
    BY <2>3
  <2> QED BY <1>2, <2>3, <2>4, <2>5, <2>6, <2>7 DEF Story
<1>7. ASSUME NEW p \in Orders, p # o PROVE Story(p)'
  <2>1. KeysOf(p)' = KeysOf(p) /\ \A k \in KeysOf(p) : confirmation'[k] = confirmation[k]
    BY <1>2, <1>5, <1>7 DEF KeysOf
  <2> QED BY <1>4, <1>7, <2>1, StoryStays DEF HInv
<1> QED BY <1>1, <1>6, <1>7 DEF HInv

LEMMA CancelStory == ASSUME HInv, NEW o \in Orders, Cancel(o) PROVE HInv'
<1>0. LInv
  BY DEF HInv
<1>1. LInv'
  BY <1>0, CancelLife
<1>2. MoveOrder(o, "cancelled") /\ confirmation' = confirmation
  BY DEF Cancel
<1>3. "cancelled" \in Statuses /\ "cancelled" # order[o].status
  BY DEF Statuses, Cancel
<1>4. /\ order'[o].status = "cancelled"
      /\ \A p \in Orders : p # o => order'[p] = order[p] /\ history'[p] = history[p]
      /\ history'[o] = Append(history[o], <<order[o].status, "cancelled">>)
  BY <1>0, <1>2, <1>3, MoveTypes DEF LInv, TInv, OrderTypes
<1>5. \A p \in Orders : KeysOf(p)' = KeysOf(p)
  BY <1>2 DEF KeysOf
<1>6. Story(o)'
  <2>1. CASE order[o].status = "draft"
    <3>1. history[o] = <<>> /\ KeysOf(o) = {}
      BY <2>1 DEF HInv, Story
    <3>2. history'[o] = <<<<"draft", "cancelled">>>>
      BY <1>4, <2>1, <3>1
    <3>3. /\ Len(history'[o]) = 1 /\ history'[o][1][1] = "draft"
          /\ history'[o][1][2] = "cancelled"
      BY <3>2
    <3>4. \A i \in 2..Len(history'[o]) : history'[o][i][1] # "draft"
      BY <3>3
    <3> QED BY <1>4, <1>5, <3>1, <3>3, <3>4 DEF Story
  <2>2. CASE order[o].status # "draft"
    BY <1>0, <1>2, <1>3, <1>4, <1>5, <2>2, StoryGoesOn DEF HInv
  <2> QED BY <2>1, <2>2
<1>7. ASSUME NEW p \in Orders, p # o PROVE Story(p)'
  BY <1>2, <1>4, <1>5, <1>7, StoryStays DEF HInv
<1> QED BY <1>1, <1>6, <1>7 DEF HInv

\* Steps that leave orders and confirmations alone.
LEMMA QuietStory ==
  ASSUME HInv, LInv', order' = order, history' = history, confirmation' = confirmation
  PROVE  HInv'
<1>1. \A o \in Orders : KeysOf(o)' = KeysOf(o)
  BY DEF KeysOf
<1> QED BY <1>1, StoryStays DEF HInv

LEMMA TransitionStory ==
  ASSUME HInv, NEW s \in Shipments, NEW step \in Transitions, NEW expected,
         TransitionShipment(s, step, expected)
  PROVE  HInv'
<1>0. LInv
  BY DEF HInv
<1>1. LInv'
  BY <1>0, TransitionLife
<1>2. PICK o \in Orders : o = shipment[s].order
  <2>1. shipment[s].status # "none"
    BY DEF TransitionShipment, Transitions
  <2> QED BY <1>0, <2>1 DEF LInv, Asked
<1>3. confirmation' = confirmation
  BY DEF TransitionShipment
<1>4. CASE step[1] = "draft" /\ order[o].status \in Waiting
  <2>1. MoveOrder(o, "fulfilling") /\ "fulfilling" \in Statuses /\ "fulfilling" # order[o].status
        /\ order[o].status # "draft"
    BY <1>2, <1>4 DEF TransitionShipment, Statuses, Waiting
  <2>2. /\ order'[o].status = "fulfilling"
        /\ \A p \in Orders : p # o => order'[p] = order[p] /\ history'[p] = history[p]
        /\ history'[o] = Append(history[o], <<order[o].status, "fulfilling">>)
    BY <1>0, <2>1, MoveTypes DEF LInv, TInv, OrderTypes
  <2>3. \A p \in Orders : KeysOf(p)' = KeysOf(p)
    BY <1>3 DEF KeysOf
  <2>4. Story(o)'
    BY <1>0, <1>3, <2>1, <2>2, <2>3, StoryGoesOn DEF HInv
  <2>5. ASSUME NEW p \in Orders, p # o PROVE Story(p)'
    BY <1>3, <2>2, <2>3, <2>5, StoryStays DEF HInv
  <2> QED BY <1>1, <2>4, <2>5 DEF HInv
<1>5. CASE ~(step[1] = "draft" /\ order[o].status \in Waiting)
  <2>1. order' = order /\ history' = history
    BY <1>2, <1>5 DEF TransitionShipment
  <2> QED BY <1>1, <1>3, <2>1, QuietStory
<1> QED BY <1>4, <1>5

LEMMA ShipStory == ASSUME HInv, NEW s \in Shipments, NEW k \in Keys, Ship(s, k) PROVE HInv'
<1>0. LInv
  BY DEF HInv
<1>1. LInv'
  BY <1>0, ShipLife
<1>2. PICK o \in Orders : o = shipment[s].order
  BY <1>0 DEF Ship, LInv, Asked
<1> DEFINE status == DeliveryStatus(o, line')
<1>3. /\ order[o].status # "draft" /\ confirmation' = confirmation
      /\ status \in {"completed", "fulfilling"}
      /\ order' = [order EXCEPT ![o] = [status |-> status, version |-> order[o].version + 1]]
      /\ history' = IF status = order[o].status THEN history
           ELSE [history EXCEPT ![o] = Append(history[o], <<order[o].status, status>>)]
  <2>1. order[o].status \notin {"draft", "completed", "cancelled"}
    BY <1>0, <1>2, ShipMoves
  <2> QED BY <1>2, <2>1 DEF Ship, DeliveryStatus
<1> HIDE DEF status
<1>4. /\ order'[o].status = status /\ status \in Statuses /\ status # "draft"
      /\ \A p \in Orders : p # o => order'[p] = order[p] /\ history'[p] = history[p]
      /\ \/ history'[o] = history[o]
         \/ status # order[o].status
            /\ history'[o] = Append(history[o], <<order[o].status, status>>)
  BY <1>0, <1>3 DEF LInv, TInv, OrderTypes, Statuses
<1>5. \A p \in Orders : KeysOf(p)' = KeysOf(p)
  BY <1>3 DEF KeysOf
<1>6. Story(o)'
  BY <1>0, <1>3, <1>4, <1>5, StoryGoesOn DEF HInv
<1>7. ASSUME NEW p \in Orders, p # o PROVE Story(p)'
  BY <1>3, <1>4, <1>5, <1>7, StoryStays DEF HInv
<1> QED BY <1>1, <1>6, <1>7 DEF HInv

LEMMA StoryInit == OInit => HInv
<1> SUFFICES ASSUME OInit, NEW o \in Orders PROVE Story(o)
  BY LifeInit DEF HInv
<1>1. order[o].status = "draft" /\ order[o].version = 1 /\ history[o] = <<>>
  BY DEF OInit
<1>2. \A k \in Keys : confirmation[k].order = 0
  BY DEF OInit, NoConfirmation
<1>3. o # 0
  BY DEF Orders
<1> QED BY <1>1, <1>2, <1>3 DEF Story, KeysOf

LEMMA StoryNext == HInv /\ [ONext]_vars => HInv'
<1> SUFFICES ASSUME HInv, [ONext]_vars PROVE HInv'
  OBVIOUS
<1>0. LInv'
  BY LifeNext DEF HInv
<1>1. ASSUME NEW r \in Requests, Confirm(r) PROVE HInv'
  BY <1>1, ConfirmStory
<1>2. ASSUME NEW o \in Orders, Cancel(o) PROVE HInv'
  BY <1>2, CancelStory
<1>3. ASSUME NEW s \in Shipments, NEW o \in Orders, NEW q \in Quantities,
             ValidateShipment(s, o, q)
      PROVE  HInv'
  BY <1>0, <1>3, QuietStory DEF ValidateShipment
<1>4. ASSUME NEW s \in Shipments, InsertShipment(s) PROVE HInv'
  BY <1>0, <1>4, QuietStory DEF InsertShipment
<1>5. ASSUME NEW s \in Shipments, NEW step \in Transitions, NEW expected \in 1..3,
             TransitionShipment(s, step, expected)
      PROVE  HInv'
  BY <1>5, TransitionStory
<1>6. ASSUME NEW s \in Shipments, NEW k \in Keys, Ship(s, k) PROVE HInv'
  BY <1>6, ShipStory
<1>7. ASSUME NEW a \in 1..NA, NEW b \in Balances, NEW delta \in Deltas, Restock(a, b, delta)
      PROVE  HInv'
  BY <1>0, <1>7, QuietStory DEF Restock, oVars
<1>8. CASE UNCHANGED vars
  BY <1>0, <1>8, QuietStory DEF vars, oVars
<1> QED BY <1>1, <1>2, <1>3, <1>4, <1>5, <1>6, <1>7, <1>8 DEF ONext

\* Requests that are repeated, that race under other keys or that come after a
\* cancellation confirm an order at most once, and the one that did is recorded.
THEOREM OrdersConfirmedOnce == OSpec => []ConfirmedOnce
<1> QED BY StoryTells, StoryInit, StoryNext, PTL DEF OSpec
=============================================================================
