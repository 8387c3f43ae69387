--------------------------- MODULE Finance_proofs ---------------------------
(***************************************************************************)
(* The books of finance for any journals, periods, settlements, papers and *)
(* amounts: the general ledger, what papers take from it, receipts and     *)
(* payments with what they settle, and what stock is worth.                *)
(***************************************************************************)
EXTENDS OpenItems, Costs, Papers, Totals_proofs

(***************************************************************************)
(* The books of OpenItems for any settlements, items, amounts and number   *)
(* of allocations.  OInv is inductive.  That no pair is taken back more    *)
(* than it was given needs a second reading of the table: what the rows of *)
(* a pair add up to is the sum of its live rows, the positive ones that no *)
(* reversal answers.  A reversal takes one live row away or, when it       *)
(* reverses a reversal, is a new one.                                      *)
(***************************************************************************)
\* The columns the totals add up, of any table.
PaidColumn(s, t) == [n \in Rows |-> IF t[n].of = s THEN t[n].amount ELSE 0]
ReceivedColumn(i, t) == [n \in Rows |-> IF t[n].on = i THEN t[n].amount ELSE 0]
NetColumn(s, i, t) == [n \in Rows |-> IF t[n].of = s /\ t[n].on = i THEN t[n].amount ELSE 0]

Answered(n, t) == \E m \in Rows : t[m].reverses = n
LiveColumn(s, i, t) ==
  [n \in Rows |-> IF t[n].of = s /\ t[n].on = i /\ t[n].amount > 0 /\ ~Answered(n, t)
                  THEN t[n].amount ELSE 0]

\* The counters stay within the rows' amounts, as the constraints of the tables
\* demand.
InBounds ==
  /\ \A s \in Settlements : settlement[s].allocated <= settlement[s].amount
  /\ \A i \in Items : item[i].allocated <= item[i].original

StatusIsCounter ==
  \A i \in Items :
    /\ item[i].status = "settled" => item[i].allocated = item[i].original
    /\ item[i].status = "open" <=> item[i].allocated = 0

\* A reversal answers a row that is there, and a row that is there has both
\* sides.
RowsPoint ==
  \A n \in Rows :
    /\ allocation[n].reverses # 0 => allocation[allocation[n].reverses] # Absent
    /\ allocation[n] # Absent => allocation[n].of \in Settlements /\ allocation[n].on \in Items

NetIsLive ==
  \A s \in Settlements, i \in Items :
    Total(NetColumn(s, i, allocation), NA) = Total(LiveColumn(s, i, allocation), NA)

OInv == TypeOK /\ CountersAreSums /\ InBounds /\ StatusIsCounter /\ RowsPoint /\ NetIsLive

LEMMA ColumnsTyped ==
  ASSUME NEW s, NEW i, NEW t \in [Rows -> Allocations]
  PROVE  /\ PaidColumn(s, t) \in [1..NA -> Int] /\ ReceivedColumn(i, t) \in [1..NA -> Int]
         /\ NetColumn(s, i, t) \in [1..NA -> Int] /\ LiveColumn(s, i, t) \in [1..NA -> Int]
BY DEF PaidColumn, ReceivedColumn, NetColumn, LiveColumn, Rows, Allocations

\* The properties in terms of the columns.
LEMMA AsColumns ==
  ASSUME NEW s, NEW i
  PROVE  /\ Paid(s) = Total(PaidColumn(s, allocation), NA)
         /\ Paid(s)' = Total(PaidColumn(s, allocation'), NA)
         /\ Received(i) = Total(ReceivedColumn(i, allocation), NA)
         /\ Received(i)' = Total(ReceivedColumn(i, allocation'), NA)
BY DEF Paid, Received, PaidColumn, ReceivedColumn

\* A column that takes d in a row where it had nothing totals d more.
LEMMA ColumnTakes ==
  ASSUME NEW f \in [1..NA -> Int], NEW h \in [1..NA -> Int], NEW n \in 1..NA, NEW d \in Int,
         \A k \in 1..NA : k # n => h[k] = f[k],
         h[n] = f[n] + d
  PROVE  Total(h, NA) = Total(f, NA) + d /\ Total(f, NA) \in Int
<1>1. NA \in Nat
  BY OpenItemAssumption
<1>2. Total(h, NA) = Total(f, NA) + h[n] - f[n]
  BY <1>1, TotalChange
<1>3. Total(f, NA) \in Int
  BY <1>1, TotalType
<1>4. f[n] \in Int /\ h[n] \in Int
  OBVIOUS
<1> QED BY <1>2, <1>3, <1>4

\* In the initial state every column is blank.
LEMMA OpenItemsInit == ASSUME Init PROVE OInv
<1>1. NA \in Nat
  BY OpenItemAssumption
<1>2. TypeOK
  BY OpenItemAssumption DEF Init, TypeOK, SettlementRows, ItemRows, Allocations, Absent, Rows
<1>3. allocation \in [Rows -> Allocations] /\ \A n \in Rows : allocation[n] = Absent
  BY <1>2 DEF TypeOK, SettlementRows, ItemRows, Init
<1>4. ASSUME NEW s, NEW i
      PROVE  /\ Total(PaidColumn(s, allocation), NA) = 0
             /\ Total(ReceivedColumn(i, allocation), NA) = 0
             /\ Total(NetColumn(s, i, allocation), NA) = 0
             /\ Total(LiveColumn(s, i, allocation), NA) = 0
  <2>1. \A n \in 1..NA : /\ PaidColumn(s, allocation)[n] = 0
                         /\ ReceivedColumn(i, allocation)[n] = 0
                         /\ NetColumn(s, i, allocation)[n] = 0
                         /\ LiveColumn(s, i, allocation)[n] = 0
    BY <1>3 DEF PaidColumn, ReceivedColumn, NetColumn, LiveColumn, Absent, Rows
  <2>2. /\ PaidColumn(s, allocation) \in [1..NA -> Int]
        /\ ReceivedColumn(i, allocation) \in [1..NA -> Int]
        /\ NetColumn(s, i, allocation) \in [1..NA -> Int]
        /\ LiveColumn(s, i, allocation) \in [1..NA -> Int]
    BY <1>3, ColumnsTyped
  <2> QED BY <1>1, <2>1, <2>2, TotalZero
<1>5. CountersAreSums
  BY <1>4, AsColumns DEF CountersAreSums, Init
<1>6. InBounds /\ StatusIsCounter
  BY OpenItemAssumption DEF InBounds, StatusIsCounter, Init
<1>7. RowsPoint
  BY <1>3 DEF RowsPoint, Absent
<1>8. NetIsLive
  BY <1>4 DEF NetIsLive
<1> QED BY <1>2, <1>5, <1>6, <1>7, <1>8 DEF OInv

\* A booking of the services: an allocation, or the reversal of the row r.
Sound(n, s, i, d, r, status) ==
  /\ Book(n, s, i, d, r, status)
  /\ settlement[s].allocated + d \in 0..settlement[s].amount
  /\ item[i].allocated + d \in 0..item[i].original
  /\ status \in {"open", "partial", "settled"}
  /\ status = "settled" => item[i].allocated + d = item[i].original
  /\ status = "open" <=> item[i].allocated + d = 0
  /\ \/ r = 0 /\ d > 0
     \/ /\ r \in Rows /\ Reversible(r)
        /\ allocation[r].of = s /\ allocation[r].on = i /\ allocation[r].amount = -d

\* What a sound booking writes.
LEMMA BookWrites ==
  ASSUME OInv, NEW n \in Rows, NEW s \in Settlements, NEW i \in Items, NEW d \in Int,
         NEW r \in 0..NA, NEW status, Sound(n, s, i, d, r, status)
  PROVE  /\ allocation[n] = Absent
         /\ allocation'[n] = [of |-> s, on |-> i, amount |-> d, reverses |-> r]
         /\ \A k \in Rows : k # n => allocation'[k] = allocation[k]
         /\ allocation' \in [Rows -> Allocations]
         /\ TypeOK'
<1> USE DEF OInv, TypeOK, SettlementRows, ItemRows
<1>1. /\ allocation[n] = Absent
      /\ allocation' = [allocation EXCEPT ![n] = [of |-> s, on |-> i, amount |-> d, reverses |-> r]]
      /\ settlement' = [settlement EXCEPT ![s].allocated = @ + d]
      /\ item' = [item EXCEPT ![i] = [item[i] EXCEPT !.allocated = @ + d, !.status = status]]
      /\ edits' = edits
  BY DEF Sound, Book, Counted
<1>2. [of |-> s, on |-> i, amount |-> d, reverses |-> r] \in Allocations
  BY DEF Allocations
<1>3. allocation' \in [Rows -> Allocations]
  BY <1>1, <1>2
<1>4. settlement' \in [Settlements -> [amount : Nat, allocated : Nat]]
  <2>1. settlement[s].allocated + d \in Nat
    BY DEF Sound
  <2>2. [settlement[s] EXCEPT !.allocated = @ + d] \in [amount : Nat, allocated : Nat]
    BY <2>1
  <2>3. settlement' = [settlement EXCEPT ![s] = [settlement[s] EXCEPT !.allocated = @ + d]]
    BY <1>1
  <2> QED BY <2>2, <2>3
<1>5. item' \in [Items -> [original : Nat, allocated : Nat, status : {"open", "partial", "settled"}]]
  <2>1. item[i].allocated + d \in Nat /\ status \in {"open", "partial", "settled"}
    BY DEF Sound
  <2>2. [item[i] EXCEPT !.allocated = @ + d, !.status = status]
          \in [original : Nat, allocated : Nat, status : {"open", "partial", "settled"}]
    BY <2>1
  <2> QED BY <1>1, <2>2
<1>6. TypeOK'
  BY <1>1, <1>3, <1>4, <1>5
<1>7. /\ allocation'[n] = [of |-> s, on |-> i, amount |-> d, reverses |-> r]
      /\ \A k \in Rows : k # n => allocation'[k] = allocation[k]
  BY <1>1
<1> QED BY <1>1, <1>3, <1>6, <1>7

\* The rows of one pair and their live rows move by the same amount.
LEMMA PairMoves ==
  ASSUME OInv, NEW n \in Rows, NEW s \in Settlements, NEW i \in Items, NEW d \in Int,
         NEW r \in 0..NA, NEW status, Sound(n, s, i, d, r, status),
         NEW q \in Settlements, NEW j \in Items
  PROVE  Total(NetColumn(q, j, allocation'), NA) = Total(LiveColumn(q, j, allocation'), NA)
<1> DEFINE t == allocation
           u == allocation'
           e == IF q = s /\ j = i THEN d ELSE 0
           f0 == NetColumn(q, j, t)
           f1 == NetColumn(q, j, u)
           g0 == LiveColumn(q, j, t)
           g1 == LiveColumn(q, j, u)
<1>1. /\ t[n] = Absent /\ u[n] = [of |-> s, on |-> i, amount |-> d, reverses |-> r]
      /\ \A k \in Rows : k # n => u[k] = t[k]
      /\ u \in [Rows -> Allocations] /\ t \in [Rows -> Allocations]
  BY BookWrites DEF OInv, TypeOK, SettlementRows, ItemRows
<1>2. /\ f0 \in [1..NA -> Int] /\ f1 \in [1..NA -> Int]
      /\ g0 \in [1..NA -> Int] /\ g1 \in [1..NA -> Int]
  BY <1>1, ColumnsTyped
<1>3. e \in Int /\ n \in 1..NA
  BY DEF Rows
<1>4. \A k \in 1..NA : k # n => f1[k] = f0[k]
  BY <1>1 DEF NetColumn, Rows
<1>5. f1[n] = f0[n] + e
  BY <1>1 DEF NetColumn, Absent
<1>6. Total(f1, NA) = Total(f0, NA) + e
  <2>1. f0 \in [1..NA -> Int] /\ f1 \in [1..NA -> Int] /\ n \in 1..NA /\ e \in Int
    BY <1>2, <1>3
  <2> HIDE DEF f0, f1, e
  <2> QED BY ONLY <1>4, <1>5, <2>1, ColumnTakes
<1>7. \A k \in Rows : Answered(k, u) <=> Answered(k, t) \/ r = k
  <2> TAKE k \in Rows
  <2>1. t[n].reverses = 0 /\ u[n].reverses = r /\ k # 0
    BY <1>1 DEF Absent, Rows
  <2> QED BY <1>1, <2>1 DEF Answered
<1>8. ~Answered(n, t)
  BY <1>1 DEF Answered, OInv, RowsPoint, Rows
<1>9. r # n
  BY <1>1 DEF Sound, Reversible, Rows
<1>10. /\ g0[n] = 0
       /\ g1[n] = IF q = s /\ j = i /\ d > 0 THEN d ELSE 0
  <2>1. ~Answered(n, u)
    BY <1>7, <1>8, <1>9
  <2> QED BY <1>1, <2>1 DEF LiveColumn, Absent
<1>11. \A k \in 1..NA : k # n /\ k # r => g1[k] = g0[k]
  BY <1>1, <1>7 DEF LiveColumn, Rows
<1>12. CASE r = 0
  <2>1. d > 0 /\ \A k \in 1..NA : k # n => g1[k] = g0[k]
    BY <1>11, <1>12 DEF Sound, Rows
  <2>2. g1[n] = g0[n] + e
    BY <1>10, <2>1
  <2> HIDE DEF f0, f1, g0, g1, e, t, u
  <2>3. Total(g1, NA) = Total(g0, NA) + e
    <3>1. g0 \in [1..NA -> Int] /\ g1 \in [1..NA -> Int] /\ n \in 1..NA /\ e \in Int
      BY <1>2, <1>3
    <3>2. \A k \in 1..NA : k # n => g1[k] = g0[k]
      BY <2>1
    <3> QED BY ONLY <2>2, <3>1, <3>2, ColumnTakes
  <2>4. Total(f0, NA) = Total(g0, NA)
    BY DEF OInv, NetIsLive, f0, g0, t
  <2> QED BY <1>6, <2>3, <2>4 DEF f1, g1, u
<1>13. CASE r # 0
  <2>1. /\ r \in Rows /\ r \in 1..NA /\ ~Answered(r, t)
        /\ t[r].of = s /\ t[r].on = i /\ t[r].amount = -d
    BY <1>13 DEF Sound, Reversible, Answered, Rows
  <2>2. g1[r] = 0
    BY <1>7, <2>1 DEF LiveColumn
  <2>3. g0[r] = IF q = s /\ j = i /\ -d > 0 THEN -d ELSE 0
    BY <2>1 DEF LiveColumn
  <2>4. Total(g1, NA) = Total(g0, NA) + e
    <3>1. CASE d > 0
      <4>1. g1[r] = g0[r]
        BY <2>2, <2>3, <3>1
      <4>2. \A k \in 1..NA : k # n => g1[k] = g0[k]
        BY <1>11, <4>1
      <4>3. g1[n] = g0[n] + e
        BY <1>10, <3>1
      <4>4. g0 \in [1..NA -> Int] /\ g1 \in [1..NA -> Int] /\ n \in 1..NA /\ e \in Int
        BY <1>2, <1>3
      <4> HIDE DEF g0, g1, e
      <4> QED BY ONLY <4>2, <4>3, <4>4, ColumnTakes
    <3>2. CASE ~(d > 0)
      <4>1. g1[n] = g0[n]
        BY <1>10, <3>2
      <4>2. \A k \in 1..NA : k # r => g1[k] = g0[k]
        BY <1>11, <4>1
      <4>3. g1[r] = g0[r] + e
        BY <2>2, <2>3, <3>2
      <4>4. g0 \in [1..NA -> Int] /\ g1 \in [1..NA -> Int] /\ r \in 1..NA /\ e \in Int
        BY <1>2, <1>3, <2>1
      <4> HIDE DEF g0, g1, e
      <4> QED BY ONLY <4>2, <4>3, <4>4, ColumnTakes
    <3> QED BY <3>1, <3>2
  <2>5. Total(f0, NA) = Total(g0, NA)
    BY DEF OInv, NetIsLive
  <2> HIDE DEF f0, f1, g0, g1, e, t, u
  <2> QED BY <1>6, <2>4, <2>5 DEF f1, g1, u
<1> QED BY <1>12, <1>13

\* A sound booking keeps the books.
LEMMA BookKeeps ==
  ASSUME OInv, NEW n \in Rows, NEW s \in Settlements, NEW i \in Items, NEW d \in Int,
         NEW r \in 0..NA, NEW status, Sound(n, s, i, d, r, status)
  PROVE  OInv'
<1> DEFINE t == allocation
           u == allocation'
<1>1. /\ t[n] = Absent /\ u[n] = [of |-> s, on |-> i, amount |-> d, reverses |-> r]
      /\ \A k \in Rows : k # n => u[k] = t[k]
      /\ u \in [Rows -> Allocations] /\ t \in [Rows -> Allocations]
  BY BookWrites DEF OInv, TypeOK, SettlementRows, ItemRows
<1>2. /\ settlement'[s].allocated = settlement[s].allocated + d
      /\ settlement'[s].amount = settlement[s].amount
      /\ \A q \in Settlements : q # s => settlement'[q] = settlement[q]
  BY DEF Sound, Book, Counted, OInv, TypeOK, SettlementRows, ItemRows
<1>3. /\ item'[i].allocated = item[i].allocated + d /\ item'[i].status = status
      /\ item'[i].original = item[i].original
      /\ \A q \in Items : q # i => item'[q] = item[q]
  BY DEF Sound, Book, Counted, OInv, TypeOK, SettlementRows, ItemRows
<1>4. TypeOK'
  BY BookWrites
<1>5. n \in 1..NA /\ d \in Int
  BY DEF Rows
<1>6. ASSUME NEW q \in Settlements
      PROVE  settlement'[q].allocated = Total(PaidColumn(q, u), NA)
  <2> DEFINE f == PaidColumn(q, t)
             h == PaidColumn(q, u)
             e == IF q = s THEN d ELSE 0
  <2>0. n \in 1..NA /\ e \in Int
    BY <1>5
  <2>1. f \in [1..NA -> Int] /\ h \in [1..NA -> Int] /\ n \in 1..NA /\ e \in Int
    <3>1. f \in [1..NA -> Int]
      BY <1>1, ColumnsTyped
    <3>2. h \in [1..NA -> Int]
      BY <1>1, ColumnsTyped
    <3> HIDE DEF f, h, e
    <3> QED BY <2>0, <3>1, <3>2
  <2>2. \A k \in 1..NA : k # n => h[k] = f[k]
    BY <1>1 DEF PaidColumn, Rows
  <2>3. h[n] = f[n] + e
    BY <1>1 DEF PaidColumn, Absent
  <2>4. settlement[q].allocated = Total(f, NA)
    BY AsColumns DEF OInv, CountersAreSums
  <2>5. settlement'[q].allocated = settlement[q].allocated + e
    BY <1>2, <2>1 DEF OInv, TypeOK, SettlementRows, ItemRows
  <2> HIDE DEF f, h, e
  <2>6. Total(h, NA) = Total(f, NA) + e
    BY ONLY <2>1, <2>2, <2>3, ColumnTakes
  <2> QED BY <2>4, <2>5, <2>6 DEF h
<1>7. ASSUME NEW q \in Items
      PROVE  item'[q].allocated = Total(ReceivedColumn(q, u), NA)
  <2> DEFINE f == ReceivedColumn(q, t)
             h == ReceivedColumn(q, u)
             e == IF q = i THEN d ELSE 0
  <2>0. n \in 1..NA /\ e \in Int
    BY <1>5
  <2>1. f \in [1..NA -> Int] /\ h \in [1..NA -> Int] /\ n \in 1..NA /\ e \in Int
    <3>1. f \in [1..NA -> Int]
      BY <1>1, ColumnsTyped
    <3>2. h \in [1..NA -> Int]
      BY <1>1, ColumnsTyped
    <3> HIDE DEF f, h, e
    <3> QED BY <2>0, <3>1, <3>2
  <2>2. \A k \in 1..NA : k # n => h[k] = f[k]
    BY <1>1 DEF ReceivedColumn, Rows
  <2>3. h[n] = f[n] + e
    BY <1>1 DEF ReceivedColumn, Absent
  <2>4. item[q].allocated = Total(f, NA)
    BY AsColumns DEF OInv, CountersAreSums
  <2>5. item'[q].allocated = item[q].allocated + e
    BY <1>3, <2>1 DEF OInv, TypeOK, SettlementRows, ItemRows
  <2> HIDE DEF f, h, e
  <2>6. Total(h, NA) = Total(f, NA) + e
    BY ONLY <2>1, <2>2, <2>3, ColumnTakes
  <2> QED BY <2>4, <2>5, <2>6 DEF h
<1>8. CountersAreSums'
  BY <1>6, <1>7, AsColumns DEF CountersAreSums
<1>9. InBounds'
  <2>1. ASSUME NEW q \in Settlements PROVE settlement'[q].allocated <= settlement'[q].amount
    BY <1>2 DEF OInv, InBounds, Sound
  <2>2. ASSUME NEW q \in Items PROVE item'[q].allocated <= item'[q].original
    BY <1>3 DEF OInv, InBounds, Sound
  <2> QED BY <2>1, <2>2 DEF InBounds
<1>10. StatusIsCounter'
  BY <1>2, <1>3 DEF OInv, StatusIsCounter, Sound
<1>11. RowsPoint'
  <2> SUFFICES ASSUME NEW k \in Rows
               PROVE  /\ u[k].reverses # 0 => u[u[k].reverses] # Absent
                      /\ u[k] # Absent => u[k].of \in Settlements /\ u[k].on \in Items
    BY DEF RowsPoint
  <2>1. u[n] # Absent
    BY <1>1, OpenItemAssumption DEF Absent
  <2>2. ASSUME NEW m \in Rows, t[m] # Absent PROVE u[m] # Absent
    BY <1>1, <2>2
  <2>3. CASE k = n
    <3>1. r # 0 => r \in Rows /\ t[r] # Absent
      BY DEF Sound, Reversible
    <3> QED BY <1>1, <2>2, <2>3, <3>1
  <2>4. CASE k # n
    <3>1. u[k] = t[k] /\ t[k].reverses \in 0..NA
      BY <1>1, <2>4 DEF Allocations
    <3>2. t[k].reverses # 0 => t[k].reverses \in Rows
      BY <3>1 DEF Rows
    <3>3. /\ t[k].reverses # 0 => t[t[k].reverses] # Absent
          /\ t[k] # Absent => t[k].of \in Settlements /\ t[k].on \in Items
      BY DEF OInv, RowsPoint
    <3> QED BY <2>2, <3>1, <3>2, <3>3
  <2> QED BY <2>3, <2>4
<1>12. NetIsLive'
  BY PairMoves DEF NetIsLive
<1> QED BY <1>4, <1>8, <1>9, <1>10, <1>11, <1>12 DEF OInv

\* Every step of the services is a sound booking.
LEMMA ServicesBook ==
  ASSUME OInv, Services
  PROVE  \E n \in Rows, s \in Settlements, i \in Items, d \in Int, r \in 0..NA,
            status \in {"open", "partial", "settled"} : Sound(n, s, i, d, r, status)
<1>1. ASSUME NEW n \in Rows, NEW s \in Settlements, NEW i \in Items,
             NEW amount \in 1..settlement[s].amount, Allocate(n, s, i, amount)
      PROVE  \E status \in {"open", "partial", "settled"} : Sound(n, s, i, amount, 0, status)
  <2> DEFINE status == IF item[i].allocated + amount = item[i].original THEN "settled" ELSE "partial"
  <2>1. /\ settlement[s].amount \in Nat /\ settlement[s].allocated \in Nat
        /\ item[i].original \in Nat /\ item[i].allocated \in Nat /\ amount \in Int
    BY DEF OInv, TypeOK, SettlementRows, ItemRows
  <2>2. Sound(n, s, i, amount, 0, status)
    BY <1>1, <2>1 DEF Allocate, Sound
  <2> QED BY <2>2
<1>2. ASSUME NEW n \in Rows, NEW k \in Rows, ReverseAllocation(n, k)
      PROVE  \E status \in {"open", "partial", "settled"} :
               Sound(n, allocation[k].of, allocation[k].on, -allocation[k].amount, k, status)
  <2> DEFINE s == allocation[k].of
             i == allocation[k].on
             d == -allocation[k].amount
             status == StatusLeft(item[i].allocated - allocation[k].amount)
  <2>1. s \in Settlements /\ i \in Items /\ allocation[k].amount \in Int
    BY <1>2 DEF OInv, RowsPoint, ReverseAllocation, Reversible, TypeOK, SettlementRows,
      ItemRows, Allocations
  <2>2. settlement[s].allocated \in Nat /\ item[i].allocated \in Nat /\ item[i].original \in Nat
    BY <2>1 DEF OInv, TypeOK, SettlementRows, ItemRows
  <2>3. /\ Reversible(k)
        /\ settlement[s].allocated + d \in 0..settlement[s].amount
        /\ item[i].allocated + d \in 0..item[i].original
        /\ Book(n, s, i, d, k, status)
    BY <1>2, <2>1, <2>2 DEF ReverseAllocation
  <2>4. /\ status \in {"open", "partial"}
        /\ status = "open" <=> item[i].allocated + d = 0
    BY <2>1, <2>2 DEF StatusLeft
  <2>5. allocation[k].amount = -d
    BY <2>1
  <2> HIDE DEF status
  <2>6. Sound(n, s, i, d, k, status)
    BY <2>3, <2>4, <2>5 DEF Sound
  <2> QED BY <2>4, <2>6
<1>3. ASSUME NEW n \in Rows, NEW k \in Rows, ReverseAllocation(n, k)
      PROVE  /\ allocation[k].of \in Settlements /\ allocation[k].on \in Items
             /\ -allocation[k].amount \in Int /\ k \in 0..NA
  <2>1. allocation[k].of \in Settlements /\ allocation[k].on \in Items
    BY <1>3 DEF OInv, RowsPoint, ReverseAllocation, Reversible
  <2>2. allocation[k].amount \in Int
    BY DEF OInv, TypeOK, SettlementRows, ItemRows, Allocations
  <2> QED BY <2>1, <2>2 DEF Rows
<1>4. \A s \in Settlements : 1..settlement[s].amount \subseteq Int /\ 0 \in 0..NA
  BY OpenItemAssumption
<1>5. CASE \E n \in Rows, s \in Settlements, i \in Items :
             \E amount \in 1..settlement[s].amount : Allocate(n, s, i, amount)
  BY <1>1, <1>4, <1>5
<1>6. CASE \E n \in Rows, k \in Rows : ReverseAllocation(n, k)
  BY <1>2, <1>3, <1>6
<1> QED BY <1>5, <1>6 DEF Services

LEMMA OpenItemsNext == ASSUME OInv, [Services]_vars PROVE OInv'
<1>1. CASE Services
  <2>1. PICK n \in Rows, s \in Settlements, i \in Items, d \in Int, r \in 0..NA,
             status \in {"open", "partial", "settled"} : Sound(n, s, i, d, r, status)
    BY <1>1, ServicesBook
  <2> QED BY <2>1, BookKeeps
<1>2. CASE UNCHANGED vars
  <2>1. /\ settlement' = settlement /\ item' = item /\ allocation' = allocation /\ edits' = edits
    BY <1>2 DEF vars
  <2>2. TypeOK'
    BY <2>1 DEF OInv, TypeOK, SettlementRows, ItemRows
  <2>3. CountersAreSums'
    BY <2>1, AsColumns DEF OInv, CountersAreSums
  <2>4. InBounds' /\ StatusIsCounter' /\ RowsPoint' /\ NetIsLive'
    BY <2>1 DEF OInv, InBounds, StatusIsCounter, RowsPoint, NetIsLive
  <2> QED BY <2>2, <2>3, <2>4 DEF OInv
<1> QED BY <1>1, <1>2

LEMMA OInvImplies ==
  ASSUME OInv
  PROVE  NeverOverpaid /\ StatusIsOutstanding /\ NothingTakenBackTwice
<1>1. NeverOverpaid
  <2>1. \A s \in Settlements :
          settlement[s].allocated \in Nat /\ settlement[s].amount \in Nat
    BY DEF OInv, TypeOK, SettlementRows, ItemRows
  <2>2. \A i \in Items : item[i].allocated \in Nat /\ item[i].original \in Nat
    BY DEF OInv, TypeOK, SettlementRows, ItemRows
  <2> QED BY <2>1, <2>2 DEF OInv, CountersAreSums, InBounds, NeverOverpaid
<1>2. StatusIsOutstanding
  BY DEF OInv, StatusIsOutstanding, StatusIsCounter, CountersAreSums
<1>3. NothingTakenBackTwice
  <2> SUFFICES ASSUME NEW s \in Settlements, NEW i \in Items
               PROVE  Total(NetColumn(s, i, allocation), NA) >= 0
    BY DEF NothingTakenBackTwice, NetColumn
  <2> DEFINE g == LiveColumn(s, i, allocation)
  <2>1. g \in [1..NA -> Int] /\ NA \in Nat
    BY ColumnsTyped, OpenItemAssumption DEF OInv, TypeOK, SettlementRows, ItemRows
  <2>2. \A n \in 1..NA : g[n] >= 0
    <3>1. \A n \in Rows : allocation[n].amount \in Int
      BY DEF OInv, TypeOK, SettlementRows, ItemRows, Allocations
    <3> QED BY <3>1 DEF LiveColumn, Rows
  <2>3. Total(NetColumn(s, i, allocation), NA) = Total(g, NA)
    BY DEF OInv, NetIsLive
  <2> HIDE DEF g
  <2>4. Total(g, NA) >= 0
    BY <2>1, <2>2, TotalCovers
  <2> QED BY <2>3, <2>4
<1> QED BY <1>1, <1>2, <1>3
-----------------------------------------------------------------------------
\* The books of receipts, payments and open items balance in every state the
\* two services reach.
THEOREM OpenItemBooks == Spec => []OInv
<1> QED BY OpenItemsInit, OpenItemsNext, PTL DEF Spec

\* The counters of both sides are the sums of their allocations.
THEOREM CountersSum == Spec => [](TypeOK /\ CountersAreSums)
<1>1. OInv => TypeOK /\ CountersAreSums
  BY DEF OInv
<1> QED BY <1>1, OpenItemBooks, PTL

\* No money is spent twice and no item is overpaid, for any amounts and any
\* sequence of allocations and reversals, reversals of reversals included.
THEOREM NothingOverpaid == Spec => [](NeverOverpaid /\ StatusIsOutstanding)
<1>1. OInv => NeverOverpaid /\ StatusIsOutstanding
  BY OInvImplies
<1> QED BY <1>1, OpenItemBooks, PTL

\* Reversals never take back more from a pair than was allocated to it.
THEOREM ReversalsBounded == Spec => []NothingTakenBackTwice
<1>1. OInv => NothingTakenBackTwice
  BY OInvImplies
<1> QED BY <1>1, OpenItemBooks, PTL

\* The counters are the sums of the allocations, and no pair is below zero, for any
\* settlements, items and amounts (CountersAreSound of the run).
THEOREM CountersSound == Spec => []CountersAreSound
<1>1. OInv => CountersAreSound
  BY OInvImplies DEF OInv, CountersAreSound
<1> QED BY <1>1, OpenItemBooks, PTL
-----------------------------------------------------------------------------
(***************************************************************************)
(* The ledger.  Only an edit writes back what it read before: that its     *)
(* copy has the lines of the journal, and is booked only when the journal  *)
(* is, is what keeps an old copy from undoing a posting.  A reversal is    *)
(* found from either side: every reversal points at a reversed journal,    *)
(* and no two at the same.                                                 *)
(***************************************************************************)
EntryForms ==
  {NoEntryForm} \cup [of : {"period"}, id : Periods, copy : PeriodStatuses]
                \cup [of : {"journal"}, id : Journals, copy : EntryRow]

\* What an edit that loaded a journal may count on.
CopyIsOld(f) ==
  /\ journal[f.id] # NoEntry /\ f.copy.lines = journal[f.id].lines
  /\ f.copy.reverses = journal[f.id].reverses
  /\ f.copy.status \in {"posted", "reversed"} => Booked(f.id)

IsReversal(k) == journal[k] # NoEntry /\ journal[k].reverses # NoJournal

LedgerInv ==
  /\ period \in [Periods -> PeriodStatuses]
  /\ journal \in [Journals -> EntryRow \cup {NoEntry}]
  /\ entryForm \in [Bookkeepers -> EntryForms] /\ entryEdits \in 0..MaxEntryEdits
  /\ \A c \in Bookkeepers : entryForm[c].of = "journal" => CopyIsOld(entryForm[c])
  /\ BooksBalance
  /\ \A k \in Journals : IsReversal(k) =>
       /\ Booked(k) /\ journal[journal[k].reverses].status = "reversed"
       /\ journal[k].lines = Negated(journal[journal[k].reverses].lines)
  /\ \A j \in Journals : journal[j].status = "reversed" =>
       \E k \in Journals : IsReversal(k) /\ journal[k].reverses = j
  /\ \A k, m \in Journals :
       IsReversal(k) /\ IsReversal(m) /\ journal[k].reverses = journal[m].reverses => k = m

LEMMA NoEntryIsNone == NoEntry \notin EntryRow /\ NoEntry.status = "absent"
<1>1. \A r \in EntryRow : r.status # "absent" BY DEF EntryRow
<1> QED BY <1>1 DEF NoEntry

LEMMA LedgerTell == ASSUME LedgerInv PROVE LedgerIsSound
<1>1. LedgerTypeOK BY DEF LedgerInv, LedgerTypeOK
<1>2. ASSUME NEW j \in Journals
      PROVE  LET reversals == {k \in Journals : journal[k] # NoEntry /\ journal[k].reverses = j} IN
             /\ Cardinality(reversals) = IF journal[j].status = "reversed" THEN 1 ELSE 0
             /\ \A k \in reversals : Booked(k) /\ journal[k].lines = Negated(journal[j].lines)
  <2> DEFINE R == {k \in Journals : journal[k] # NoEntry /\ journal[k].reverses = j}
  <2>1. \A k \in R : IsReversal(k) BY LedgerAssumption DEF IsReversal
  <2>2. \A k \in R : /\ Booked(k) /\ journal[k].lines = Negated(journal[j].lines)
                     /\ journal[j].status = "reversed"
    BY <2>1 DEF LedgerInv
  <2>3. CASE journal[j].status = "reversed"
    <3>1. PICK k \in Journals : IsReversal(k) /\ journal[k].reverses = j BY <2>3 DEF LedgerInv
    <3>2. R = {k} BY <2>1, <3>1 DEF LedgerInv, IsReversal
    <3>3. Cardinality(R) = 1 BY <3>2, FS_Singleton
    <3> QED BY <2>2, <2>3, <3>3
  <2>4. CASE journal[j].status # "reversed"
    <3>1. R = {} BY <2>2, <2>4
    <3>2. Cardinality(R) = 0 BY <3>1, FS_EmptySet
    <3> QED BY <2>2, <2>4, <3>2
  <2> QED BY <2>3, <2>4
<1>3. ReversalsCancel BY <1>2 DEF ReversalsCancel
<1> QED BY <1>1, <1>3 DEF LedgerInv, LedgerIsSound

LEMMA LedgerStart == ASSUME LedgerInit PROVE LedgerInv
<1>1. /\ period = [p \in Periods |-> "open"] /\ journal = [j \in Journals |-> NoEntry]
      /\ entryForm = [c \in Bookkeepers |-> NoEntryForm] /\ entryEdits = 0
  BY DEF LedgerInit
<1>2. \A j \in Journals : journal[j].status = "absent" BY <1>1, NoEntryIsNone
<1>3. BooksBalance BY <1>2 DEF BooksBalance, Booked
<1>4. \A c \in Bookkeepers : entryForm[c].of # "journal" BY <1>1 DEF NoEntryForm
<1> QED BY <1>1, <1>2, <1>3, <1>4, LedgerAssumption
  DEF LedgerInv, IsReversal, PeriodStatuses, EntryForms

\* What a step may not do: ClosedStands, BookedStands.
Stands == ClosedStands /\ BookedStands

\* A journal that is not booked is no reversal, and no journal's.
LEMMA Unbooked ==
  ASSUME LedgerInv, NEW j \in Journals, ~Booked(j)
  PROVE  /\ ~IsReversal(j) /\ \A k \in Journals : IsReversal(k) => journal[k].reverses # j
         /\ \A c \in Bookkeepers : entryForm[c].of = "journal" /\ entryForm[c].id = j =>
              entryForm[c].copy.status \in {"draft", "approved"}
<1>1. ASSUME NEW c \in Bookkeepers, entryForm[c].of = "journal", entryForm[c].id = j
      PROVE  entryForm[c].copy.status \in {"draft", "approved"}
  <2>1. entryForm[c] \in EntryForms /\ CopyIsOld(entryForm[c]) BY <1>1 DEF LedgerInv
  <2>2. entryForm[c].copy \in EntryRow BY <1>1, <2>1 DEF EntryForms, NoEntryForm
  <2> QED BY <1>1, <2>1, <2>2 DEF CopyIsOld, EntryRow
<1> QED BY <1>1 DEF LedgerInv, Booked

\* One journal that is not booked is written: created, approved, edited or posted.
LEMMA EntryWritten ==
  ASSUME LedgerInv, NEW j \in Journals, ~Booked(j), NEW row \in EntryRow,
         journal' = [journal EXCEPT ![j] = row], row.reverses = NoJournal,
         row.status # "reversed", UNCHANGED <<period, entryEdits>>,
         row.status = "posted" => /\ SumOver(row.lines, Accounts) = 0 /\ row.date = row.period
                                  /\ period[row.period] # "closed",
         journal[j] # NoEntry => row.lines = journal[j].lines,
         entryForm' \in [Bookkeepers -> EntryForms],
         \A c \in Bookkeepers : entryForm'[c] \in {entryForm[c], NoEntryForm}
  PROVE  LedgerInv' /\ Stands
<1>1. journal \in [Journals -> EntryRow \cup {NoEntry}] /\ row # NoEntry
  BY NoEntryIsNone DEF LedgerInv
<1>2. /\ journal' \in [Journals -> EntryRow \cup {NoEntry}] /\ journal'[j] = row
      /\ \A k \in Journals \ {j} : journal'[k] = journal[k]
  BY <1>1
<1>3. \A k \in Journals : IsReversal(k)' = IsReversal(k)
  BY <1>1, <1>2, Unbooked DEF IsReversal
<1>4. \A k \in Journals \ {j} : Booked(k)' = Booked(k) BY <1>2 DEF Booked
<1>5. BooksBalance'
  <2> SUFFICES ASSUME NEW k \in Journals, Booked(k)'
               PROVE  /\ SumOver(journal'[k].lines, Accounts) = 0
                      /\ journal'[k].date = journal'[k].period
    BY DEF BooksBalance
  <2>1. CASE k = j BY <1>2, <2>1 DEF Booked
  <2>2. CASE k # j BY <1>2, <1>4, <2>2 DEF LedgerInv, BooksBalance
  <2> QED BY <2>1, <2>2
<1>6. ASSUME NEW c \in Bookkeepers, entryForm'[c].of = "journal" PROVE CopyIsOld(entryForm[c])' 
  <2>1. entryForm'[c] = entryForm[c] BY <1>6 DEF NoEntryForm
  <2>2. CopyIsOld(entryForm[c]) /\ entryForm[c] \in EntryForms BY <1>6, <2>1 DEF LedgerInv
  <2>3. entryForm[c].id \in Journals BY <1>6, <2>1, <2>2 DEF EntryForms, NoEntryForm
  <2>4. CASE entryForm[c].id # j BY <1>2, <1>4, <2>1, <2>2, <2>3, <2>4 DEF CopyIsOld
  <2>5. CASE entryForm[c].id = j
    <3>1. journal[j] # NoEntry /\ journal[j].reverses = NoJournal
      BY <2>2, <2>5, Unbooked DEF CopyIsOld, IsReversal
    <3>2. ~(entryForm[c].copy.status \in {"posted", "reversed"}) BY <2>2, <2>5 DEF CopyIsOld
    <3> QED BY <1>1, <1>2, <2>1, <2>2, <2>5, <3>1, <3>2 DEF CopyIsOld
  <2> QED BY <2>4, <2>5
<1>7. ASSUME NEW k \in Journals, IsReversal(k)'
      PROVE  /\ Booked(k)' /\ journal'[journal'[k].reverses].status = "reversed"
             /\ journal'[k].lines = Negated(journal'[journal'[k].reverses].lines)
  <2>1. IsReversal(k) /\ k # j BY <1>3, <1>7, Unbooked
  <2>2. /\ Booked(k) /\ journal[journal[k].reverses].status = "reversed"
        /\ journal[k].lines = Negated(journal[journal[k].reverses].lines)
        /\ journal[k].reverses \in Journals \ {j}
    <3>1. journal[k] \in EntryRow BY <1>1, <2>1 DEF IsReversal
    <3>2. journal[k].reverses \in Journals BY <2>1, <3>1 DEF EntryRow, IsReversal
    <3> QED BY <2>1, <3>2, Unbooked DEF LedgerInv
  <2> QED BY <1>2, <1>4, <2>1, <2>2
<1>8. ASSUME NEW m \in Journals, journal'[m].status = "reversed"
      PROVE  \E k \in Journals : IsReversal(k)' /\ journal'[k].reverses = m
  <2>1. m # j BY <1>2, <1>8
  <2>2. PICK k \in Journals : IsReversal(k) /\ journal[k].reverses = m
    BY <1>2, <1>8, <2>1 DEF LedgerInv
  <2>3. k # j BY <2>2, Unbooked
  <2> QED BY <1>2, <1>3, <2>2, <2>3
<1>9. \A k, m \in Journals :
        IsReversal(k)' /\ IsReversal(m)' /\ journal'[k].reverses = journal'[m].reverses => k = m
  <2>1. \A k \in Journals : IsReversal(k) => k # j BY Unbooked
  <2> QED BY <1>2, <1>3, <2>1 DEF LedgerInv
<1>10. BookedStands
  <2> SUFFICES ASSUME NEW k \in Journals, Booked(k)
               PROVE  journal'[k] = journal[k] /\ Booked(k)'
    BY DEF BookedStands
  <2> QED BY <1>2, <1>4
<1>11. ClosedStands
  <2> SUFFICES ASSUME NEW p \in Periods, period[p] = "closed" PROVE Statement(p)' = Statement(p)
    BY DEF ClosedStands
  <2>1. \A k \in Journals : (Booked(k) /\ journal[k].period = p)' <=> Booked(k) /\ journal[k].period = p
    <3>1. ~(Booked(j)' /\ journal'[j].period = p) BY <1>2 DEF Booked
    <3> QED BY <1>2, <1>4, <3>1
  <2>2. \A k \in Journals : Booked(k) => journal'[k] = journal[k] BY <1>2
  <2> QED BY <2>1, <2>2 DEF Statement
<1> QED BY <1>2, <1>5, <1>6, <1>7, <1>8, <1>9, <1>10, <1>11 DEF LedgerInv, Stands

\* A reversal k is added and its original marked.
LEMMA EntryReversed ==
  ASSUME LedgerInv, NEW j \in Journals, NEW k \in Journals, NEW p \in Periods, NEW d \in Periods,
         Reverse(j, k, p, d)
  PROVE  LedgerInv' /\ Stands
<1> DEFINE back == Negated(journal[j].lines)
           new == [status |-> "approved", period |-> p, date |-> d, lines |-> back, reverses |-> j]
           row == [status |-> "posted", period |-> p, date |-> d, lines |-> back, reverses |-> j]
           was == [journal[j] EXCEPT !.status = "reversed"]
<1>1. /\ journal[j].status = "posted" /\ journal[k] = NoEntry
      /\ journal' = [journal EXCEPT ![k] = row, ![j] = was]
      /\ UNCHANGED <<period, entryForm, entryEdits>>
      /\ period[p] # "closed" /\ d = p /\ SumOver(back, Accounts) = 0
  <2>1. /\ journal[j].status = "posted" /\ journal[k] = NoEntry /\ Postable(new)
        /\ journal' = [journal EXCEPT ![k] = [new EXCEPT !.status = "posted"], ![j] = was]
        /\ UNCHANGED <<period, entryForm, entryEdits>>
    BY DEF Reverse, OriginalAfter
  <2>2. [new EXCEPT !.status = "posted"] = row OBVIOUS
  <2>3. new.period = p /\ new.date = d /\ new.lines = back OBVIOUS
  <2> HIDE DEF new, row, was, back
  <2> QED BY <2>1, <2>2, <2>3 DEF Postable, Accepts, Dated, Balanced
<1>2. journal \in [Journals -> EntryRow \cup {NoEntry}] /\ journal[k].status = "absent"
  BY <1>1, NoEntryIsNone DEF LedgerInv
<1>3. journal[j] \in EntryRow /\ k # j /\ j # NoJournal
  BY <1>1, <1>2, NoEntryIsNone, LedgerAssumption
<1>4. row \in EntryRow
  <2>1. \A a \in Accounts : -(journal[j].lines[a]) \in Int BY <1>3 DEF EntryRow
  <2> QED BY <2>1 DEF EntryRow, Negated
<1>5. /\ was \in EntryRow /\ was.status = "reversed" /\ was.lines = journal[j].lines
      /\ was.reverses = journal[j].reverses /\ was.period = journal[j].period
      /\ was.date = journal[j].date
  BY <1>3 DEF EntryRow
<1>6. [was EXCEPT !.status = "posted"] = [journal[j] EXCEPT !.status = "posted"] BY <1>3 DEF EntryRow
<1>7. /\ row.status = "posted" /\ row.reverses = j /\ row.lines = Negated(journal[j].lines)
      /\ row.period = p /\ row.date = d
  OBVIOUS
<1> HIDE DEF row, was
<1>8. /\ journal' \in [Journals -> EntryRow \cup {NoEntry}] /\ journal'[k] = row /\ journal'[j] = was
      /\ \A m \in Journals \ {j, k} : journal'[m] = journal[m]
  BY <1>1, <1>2, <1>3, <1>4, <1>5
<1>9. row # NoEntry /\ was # NoEntry BY <1>4, <1>5, NoEntryIsNone
<1>10. \A m \in Journals : IsReversal(m)' <=> IsReversal(m) \/ m = k
  BY <1>1, <1>3, <1>5, <1>7, <1>8, <1>9, NoEntryIsNone DEF IsReversal
<1>11. ~IsReversal(k) /\ ~Booked(k) /\ Booked(j) BY <1>1, <1>2 DEF IsReversal, Booked
<1>12. \A m \in Journals : Booked(m)' <=> Booked(m) \/ m = k
  BY <1>5, <1>7, <1>8, <1>11 DEF Booked
<1>13. \A m \in Journals : IsReversal(m) => journal[m].reverses \notin {j, k}
  BY <1>1, <1>11, Unbooked DEF LedgerInv
<1>14. \A m \in Journals : IsReversal(m) => journal[m].reverses \in Journals /\ m # k
  <2> SUFFICES ASSUME NEW m \in Journals, IsReversal(m) PROVE journal[m].reverses \in Journals /\ m # k
    OBVIOUS
  <2>1. journal[m] \in EntryRow BY <1>2 DEF IsReversal
  <2> QED BY <1>11, <2>1 DEF EntryRow, IsReversal
<1>15. \A m \in Journals \ {k} : /\ journal'[m].lines = journal[m].lines
                                 /\ journal'[m].reverses = journal[m].reverses
                                 /\ journal'[m].period = journal[m].period
                                 /\ journal'[m].date = journal[m].date
  BY <1>5, <1>8
<1>16. BooksBalance'
  <2> SUFFICES ASSUME NEW m \in Journals, Booked(m)'
               PROVE  SumOver(journal'[m].lines, Accounts) = 0 /\ journal'[m].date = journal'[m].period
    BY DEF BooksBalance
  <2>1. CASE m = k BY <1>1, <1>7, <1>8, <2>1
  <2>2. CASE m # k BY <1>12, <1>15, <2>2 DEF LedgerInv, BooksBalance
  <2> QED BY <2>1, <2>2
<1>17. ASSUME NEW c \in Bookkeepers, entryForm[c].of = "journal" PROVE CopyIsOld(entryForm[c])'
  <2>1. CopyIsOld(entryForm[c]) /\ entryForm[c] \in EntryForms BY <1>17 DEF LedgerInv
  <2>2. entryForm[c].id \in Journals \ {k} BY <1>1, <1>17, <2>1 DEF EntryForms, NoEntryForm, CopyIsOld
  <2>3. journal'[entryForm[c].id] # NoEntry BY <1>8, <1>9, <2>1, <2>2 DEF CopyIsOld
  <2> QED BY <1>1, <1>12, <1>15, <2>1, <2>2, <2>3 DEF CopyIsOld
<1>18. ASSUME NEW m \in Journals, IsReversal(m)'
       PROVE  /\ Booked(m)' /\ journal'[journal'[m].reverses].status = "reversed"
              /\ journal'[m].lines = Negated(journal'[journal'[m].reverses].lines)
  <2>1. CASE m = k BY <1>5, <1>7, <1>8, <1>12, <2>1
  <2>2. CASE m # k
    <3>1. IsReversal(m) BY <1>10, <1>18, <2>2
    <3>2. journal[m].reverses \in Journals \ {j, k} BY <1>13, <1>14, <3>1
    <3>3. /\ Booked(m) /\ journal[journal[m].reverses].status = "reversed"
          /\ journal[m].lines = Negated(journal[journal[m].reverses].lines)
      BY <3>1 DEF LedgerInv
    <3> QED BY <1>8, <1>12, <1>15, <2>2, <3>2, <3>3
  <2> QED BY <2>1, <2>2
<1>19. ASSUME NEW m \in Journals, journal'[m].status = "reversed"
       PROVE  \E n \in Journals : IsReversal(n)' /\ journal'[n].reverses = m
  <2>1. CASE m = j BY <1>7, <1>8, <1>10, <2>1
  <2>2. CASE m # j
    <3>1. journal[m].status = "reversed" BY <1>7, <1>8, <1>19, <2>2
    <3>2. PICK n \in Journals : IsReversal(n) /\ journal[n].reverses = m BY <3>1 DEF LedgerInv
    <3> QED BY <1>10, <1>14, <1>15, <3>2
  <2> QED BY <2>1, <2>2
<1>20. \A m, n \in Journals :
         IsReversal(m)' /\ IsReversal(n)' /\ journal'[m].reverses = journal'[n].reverses => m = n
  <2> SUFFICES ASSUME NEW m \in Journals, NEW n \in Journals, IsReversal(m)', IsReversal(n)',
                      journal'[m].reverses = journal'[n].reverses
               PROVE  m = n
    OBVIOUS
  <2>1. CASE m = k \/ n = k BY <1>7, <1>8, <1>10, <1>13, <1>15, <2>1
  <2>2. CASE m # k /\ n # k BY <1>10, <1>15, <2>2 DEF LedgerInv
  <2> QED BY <2>1, <2>2
<1>21. BookedStands
  <2> SUFFICES ASSUME NEW m \in Journals, Booked(m)
               PROVE  /\ [journal'[m] EXCEPT !.status = "posted"] = [journal[m] EXCEPT !.status = "posted"]
                      /\ Booked(m)' /\ (journal[m].status = "reversed" => journal'[m].status = "reversed")
    BY DEF BookedStands
  <2>1. CASE m = j BY <1>1, <1>6, <1>8, <1>12, <2>1
  <2>2. CASE m # j BY <1>8, <1>11, <1>12, <2>2
  <2> QED BY <2>1, <2>2
<1>22. ClosedStands
  <2> SUFFICES ASSUME NEW q \in Periods, period[q] = "closed" PROVE Statement(q)' = Statement(q)
    BY DEF ClosedStands
  <2>1. \A m \in Journals : (Booked(m) /\ journal[m].period = q)' <=> Booked(m) /\ journal[m].period = q
    <3>1. p # q BY <1>1
    <3> QED BY <1>7, <1>8, <1>11, <1>12, <1>15, <3>1
  <2>2. \A m \in Journals : Booked(m) => journal'[m].lines = journal[m].lines BY <1>11, <1>15
  <2> QED BY <2>1, <2>2 DEF Statement
<1> QED BY <1>1, <1>8, <1>16, <1>17, <1>18, <1>19, <1>20, <1>21, <1>22 DEF LedgerInv, Stands

\* A step that leaves the journals alone.
LEMMA EntriesKept ==
  ASSUME LedgerInv, UNCHANGED journal, period' \in [Periods -> PeriodStatuses],
         entryForm' \in [Bookkeepers -> EntryForms], entryEdits' \in 0..MaxEntryEdits,
         \A c \in Bookkeepers : entryForm'[c].of = "journal" => CopyIsOld(entryForm'[c])
  PROVE  LedgerInv' /\ Stands
<1>1. \A j \in Journals : (Booked(j)' <=> Booked(j)) /\ (IsReversal(j)' <=> IsReversal(j))
  BY DEF Booked, IsReversal
<1>2. \A c \in Bookkeepers : entryForm'[c].of = "journal" => CopyIsOld(entryForm[c])'
  BY DEF CopyIsOld, Booked
<1>3. BooksBalance' BY <1>1 DEF LedgerInv, BooksBalance
<1>4. Stands BY <1>1 DEF Stands, ClosedStands, BookedStands, Statement, Booked
<1> QED BY <1>1, <1>2, <1>3, <1>4 DEF LedgerInv

LEMMA LedgerStep ==
  ASSUME LedgerInv, [LedgerNext]_ledgerVars
  PROVE  LedgerInv' /\ Stands
<1>1. /\ period \in [Periods -> PeriodStatuses] /\ journal \in [Journals -> EntryRow \cup {NoEntry}]
      /\ entryForm \in [Bookkeepers -> EntryForms] /\ entryEdits \in 0..MaxEntryEdits
      /\ MaxEntryEdits \in Nat
      /\ \A c \in Bookkeepers : entryForm[c].of = "journal" => CopyIsOld(entryForm[c])
  BY LedgerAssumption DEF LedgerInv
<1>2. CASE UNCHANGED ledgerVars
  BY <1>1, <1>2, EntriesKept DEF ledgerVars
<1>3. ASSUME NEW j \in Journals, NEW p \in Periods, NEW d \in Periods, NEW lines \in Entries,
             Create(j, p, d, lines)
      PROVE  LedgerInv' /\ Stands
  <2> DEFINE row == [status |-> "draft", period |-> p, date |-> d, lines |-> lines, reverses |-> NoJournal]
  <2>1. /\ journal[j] = NoEntry /\ journal' = [journal EXCEPT ![j] = row]
        /\ UNCHANGED <<period, entryForm, entryEdits>>
    BY <1>3 DEF Create
  <2>2. ~Booked(j) BY <2>1, NoEntryIsNone DEF Booked
  <2>3. row \in EntryRow /\ row.reverses = NoJournal /\ row.status = "draft"
    BY LedgerAssumption DEF EntryRow
  <2> HIDE DEF row
  <2> QED BY <1>1, <2>1, <2>2, <2>3, EntryWritten
<1>4. ASSUME NEW j \in Journals, Approve(j) PROVE LedgerInv' /\ Stands
  <2> DEFINE row == [journal[j] EXCEPT !.status = "approved"]
  <2>1. /\ journal[j].status = "draft" /\ journal' = [journal EXCEPT ![j] = row]
        /\ UNCHANGED <<period, entryForm, entryEdits>>
    BY <1>4 DEF Approve
  <2>2. ~Booked(j) /\ journal[j] \in EntryRow BY <1>1, <2>1, NoEntryIsNone DEF Booked
  <2>3. journal[j].reverses = NoJournal BY <2>2, Unbooked, NoEntryIsNone DEF IsReversal
  <2>4. /\ row \in EntryRow /\ row.reverses = NoJournal /\ row.status = "approved"
        /\ row.lines = journal[j].lines
    BY <2>2, <2>3 DEF EntryRow
  <2> HIDE DEF row
  <2> QED BY <1>1, <2>1, <2>2, <2>4, EntryWritten
<1>5. ASSUME NEW j \in Journals, Post(j) PROVE LedgerInv' /\ Stands
  <2> DEFINE row == [journal[j] EXCEPT !.status = "posted"]
  <2>1. /\ journal[j].status = "approved" /\ journal' = [journal EXCEPT ![j] = row]
        /\ UNCHANGED <<period, entryForm, entryEdits>>
        /\ period[journal[j].period] # "closed" /\ journal[j].date = journal[j].period
        /\ SumOver(journal[j].lines, Accounts) = 0
    BY <1>5 DEF Post, Postable, Accepts, Dated, Balanced
  <2>2. ~Booked(j) /\ journal[j] \in EntryRow BY <1>1, <2>1, NoEntryIsNone DEF Booked
  <2>3. journal[j].reverses = NoJournal BY <2>2, Unbooked, NoEntryIsNone DEF IsReversal
  <2>4. /\ row \in EntryRow /\ row.reverses = NoJournal /\ row.status = "posted"
        /\ row.lines = journal[j].lines /\ row.period = journal[j].period /\ row.date = journal[j].date
    BY <2>2, <2>3 DEF EntryRow
  <2> HIDE DEF row
  <2> QED BY <1>1, <2>1, <2>2, <2>4, EntryWritten
<1>6. ASSUME NEW p \in Periods, Close(p) \/ Reopen(p) PROVE LedgerInv' /\ Stands
  <2>1. UNCHANGED <<journal, entryForm, entryEdits>> BY <1>6 DEF Close, Reopen
  <2>2. period' \in [Periods -> PeriodStatuses] BY <1>1, <1>6 DEF Close, Reopen, PeriodStatuses
  <2> QED BY <1>1, <2>1, <2>2, EntriesKept
<1>7. ASSUME NEW c \in Bookkeepers, NEW f \in EntryForms, LoadEntry(c, f),
             f.of = "journal" => CopyIsOld(f)
      PROVE  LedgerInv' /\ Stands
  <2>1. /\ UNCHANGED <<period, journal>> /\ entryForm' = [entryForm EXCEPT ![c] = f]
        /\ entryEdits < MaxEntryEdits /\ entryEdits' = entryEdits + 1
    BY <1>7 DEF LoadEntry
  <2>2. entryForm' \in [Bookkeepers -> EntryForms] /\ entryEdits' \in 0..MaxEntryEdits
    BY <1>1, <2>1
  <2>3. \A x \in Bookkeepers : entryForm'[x] = IF x = c THEN f ELSE entryForm[x] BY <1>1, <2>1
  <2>4. period' \in [Periods -> PeriodStatuses] BY <1>1, <2>1
  <2>5. \A x \in Bookkeepers : entryForm'[x].of = "journal" => CopyIsOld(entryForm'[x])
    BY <1>1, <1>7, <2>3
  <2> QED BY <2>1, <2>2, <2>4, <2>5, EntriesKept
<1>8. ASSUME NEW c \in Bookkeepers, NEW p \in Periods, LoadPeriod(c, p) PROVE LedgerInv' /\ Stands
  <2> DEFINE f == [of |-> "period", id |-> p, copy |-> period[p]]
  <2>1. f \in EntryForms /\ f.of # "journal" BY <1>1 DEF EntryForms
  <2>2. LoadEntry(c, f) BY <1>8 DEF LoadPeriod
  <2> HIDE DEF f
  <2> QED BY <1>7, <2>1, <2>2
<1>9. ASSUME NEW c \in Bookkeepers, NEW j \in Journals, LoadJournal(c, j) PROVE LedgerInv' /\ Stands
  <2> DEFINE f == [of |-> "journal", id |-> j, copy |-> journal[j]]
  <2>1. LoadEntry(c, f) /\ journal[j] # NoEntry BY <1>9 DEF LoadJournal
  <2>2. f \in EntryForms /\ CopyIsOld(f) BY <1>1, <2>1 DEF EntryForms, CopyIsOld, Booked
  <2> HIDE DEF f
  <2> QED BY <1>7, <2>1, <2>2
<1>10. ASSUME NEW c \in Bookkeepers, entryForm' = [entryForm EXCEPT ![c] = NoEntryForm]
       PROVE  /\ entryForm' \in [Bookkeepers -> EntryForms]
              /\ \A x \in Bookkeepers : entryForm'[x] \in {entryForm[x], NoEntryForm}
              /\ \A x \in Bookkeepers : entryForm'[x].of = "journal" => entryForm'[x] = entryForm[x]
  <2>1. NoEntryForm \in EntryForms /\ NoEntryForm.of # "journal" BY DEF EntryForms, NoEntryForm
  <2> QED BY <1>1, <1>10, <2>1
<1>11. ASSUME NEW c \in Bookkeepers, NEW s \in PeriodStatuses, SavePeriod(c, s) PROVE LedgerInv' /\ Stands
  <2>1. /\ UNCHANGED <<journal, entryEdits>> /\ entryForm' = [entryForm EXCEPT ![c] = NoEntryForm]
        /\ period' = [period EXCEPT ![entryForm[c].id] = s]
    BY <1>11 DEF SavePeriod
  <2>2. period' \in [Periods -> PeriodStatuses] /\ entryEdits' \in 0..MaxEntryEdits BY <1>1, <2>1
  <2>3. /\ entryForm' \in [Bookkeepers -> EntryForms]
        /\ \A x \in Bookkeepers : entryForm'[x].of = "journal" => CopyIsOld(entryForm'[x])
    BY <1>1, <1>10, <2>1
  <2> QED BY <2>1, <2>2, <2>3, EntriesKept
<1>12. ASSUME NEW c \in Bookkeepers, NEW p \in Periods, NEW d \in Periods, SaveJournal(c, p, d)
       PROVE  LedgerInv' /\ Stands
  <2> DEFINE j == entryForm[c].id
             row == [entryForm[c].copy EXCEPT !.period = p, !.date = d]
  <2>1. /\ entryForm[c].of = "journal" /\ ~Booked(j) /\ journal' = [journal EXCEPT ![j] = row]
        /\ entryForm' = [entryForm EXCEPT ![c] = NoEntryForm] /\ UNCHANGED <<period, entryEdits>>
    BY <1>12 DEF SaveJournal, Editable
  <2>2. CopyIsOld(entryForm[c]) /\ entryForm[c] \in EntryForms BY <1>1, <2>1
  <2>3. j \in Journals /\ entryForm[c].copy \in EntryRow BY <2>1, <2>2 DEF EntryForms, NoEntryForm
  <2>4. journal[j] # NoEntry /\ journal[j].reverses = NoJournal
    BY <2>1, <2>2, <2>3, Unbooked DEF CopyIsOld, IsReversal
  <2>5. entryForm[c].copy.status \in {"draft", "approved"} BY <2>1, <2>3, Unbooked
  <2>6. /\ row \in EntryRow /\ row.reverses = NoJournal /\ row.lines = journal[j].lines
        /\ row.status \in {"draft", "approved"}
    <3>1. \A r \in EntryRow : LET x == [r EXCEPT !.period = p, !.date = d] IN
            x \in EntryRow /\ x.reverses = r.reverses /\ x.lines = r.lines /\ x.status = r.status
      BY DEF EntryRow
    <3> QED BY <2>2, <2>3, <2>4, <2>5, <3>1 DEF CopyIsOld
  <2>7. /\ entryForm' \in [Bookkeepers -> EntryForms]
        /\ \A x \in Bookkeepers : entryForm'[x] \in {entryForm[x], NoEntryForm}
    BY <1>10, <2>1
  <2> HIDE DEF row, j
  <2> QED BY <2>1, <2>3, <2>6, <2>7, EntryWritten
<1>13. ASSUME NEW c \in Bookkeepers, Refused(c) PROVE LedgerInv' /\ Stands
  <2>1. UNCHANGED <<period, journal, entryEdits>> /\ entryForm' = [entryForm EXCEPT ![c] = NoEntryForm]
    BY <1>13 DEF Refused
  <2>2. period' \in [Periods -> PeriodStatuses] /\ entryEdits' \in 0..MaxEntryEdits BY <1>1, <2>1
  <2>3. /\ entryForm' \in [Bookkeepers -> EntryForms]
        /\ \A x \in Bookkeepers : entryForm'[x].of = "journal" => CopyIsOld(entryForm'[x])
    BY <1>1, <1>10, <2>1
  <2> QED BY <2>1, <2>2, <2>3, EntriesKept
<1> QED
  BY <1>2, <1>3, <1>4, <1>5, <1>6, <1>8, <1>9, <1>11, <1>12, <1>13, EntryReversed DEF LedgerNext

\* Every booked journal balances and is dated in its period, and a reversed one
\* has exactly one reversal, which takes back every account (post_journal,
\* reverse_journal).
THEOREM LedgerIsSoundAlways == LedgerSpec => []LedgerIsSound
BY LedgerStart, LedgerStep, LedgerTell, PTL DEF LedgerSpec

\* The statement of a period that stays closed does not move, and a booked journal
\* is final but for the mark of its reversal (close_period, JournalEntry.save).
THEOREM LedgerStands == LedgerSpec => BooksStand
<1>1. LedgerInv /\ [LedgerNext]_ledgerVars => LedgerInv' BY LedgerStep
<1>2. LedgerInv /\ [LedgerNext]_ledgerVars => [ClosedStands /\ BookedStands]_ledgerVars
  BY LedgerStep DEF Stands
<1> QED BY <1>1, <1>2, LedgerStart, PTL DEF LedgerSpec, BooksStand
-----------------------------------------------------------------------------
(***************************************************************************)
(* The papers.  What they stand on is the ledger's promise that a booked   *)
(* journal is final (Stands).  A draft nobody checked, and a verified      *)
(* invoice somebody did, is what the steps from there take for granted.    *)
(***************************************************************************)
AnyPaper == ClaimRow \cup PayrollRow \cup InvoiceRow

EntriesOf(a) == {e \in depreciation : e.asset = a}
WrittenOff(a) == SumOver([e \in depreciation |-> e.amount], EntriesOf(a))

RowBacked(row) ==
  /\ row.status \in {"posted", "paid"} => InBooks(row.journal)
  /\ row.checker # Nobody => row.checker # row.maker
  /\ row.status \in {"approved", "verified", "posted", "paid"} => row.checker # Nobody
  /\ row.status = "draft" => row.checker = Nobody
EntryBacked(e) == InBooks(e.journal) /\ journal[e.journal].period = e.period
AssetBacked(a) ==
  /\ asset[a] \in AssetRow
  /\ asset[a].accumulated = WrittenOff(a) /\ asset[a].accumulated <= asset[a].value
  /\ asset[a].status = "draft" => asset[a].accumulated = 0
  /\ asset[a].status = "active" => asset[a].accumulated < asset[a].value
  /\ asset[a].status = "fully_depreciated" => asset[a].accumulated = asset[a].value

PaperTypes ==
  /\ paper \in [Papers -> AnyPaper \cup {NoPaper}]
  /\ \A d \in Papers : paper[d] \in RowsFor(d) \cup {NoPaper}
  /\ asset \in [Assets -> AssetRow \cup {NoPaper}]
  /\ depreciation \subseteq DepreciationRow /\ IsFiniteSet(depreciation)
  /\ loose \subseteq Papers \cup Assets
CopyTypes ==
  /\ copy \in [Papers \cup Assets -> AnyPaper \cup AssetRow \cup {NoPaper}]
  /\ \A d \in Papers : copy[d] \in RowsFor(d) \cup {NoPaper}
  /\ \A a \in Assets : copy[a] \in AssetRow \cup {NoPaper}
  /\ copies \in 0..MaxPaperForms

PapersInv ==
  /\ PaperTypes /\ CopyTypes
  /\ \A d \in Papers \ loose : paper[d] # NoPaper => RowBacked(paper[d])
  /\ \A e \in depreciation : EntryBacked(e)
  /\ \A a \in Assets \ loose : AssetBacked(a)

LEMMA PapersTell == ASSUME PapersInv PROVE PapersAreBacked
<1>1. PaperTypeOK BY DEF PapersInv, PaperTypes, CopyTypes, PaperTypeOK
<1>2. \A a \in Assets \ loose :
        LET off == SumOver([e \in depreciation |-> e.amount], {e \in depreciation : e.asset = a}) IN
        /\ asset[a].accumulated = off /\ off <= asset[a].value
        /\ asset[a].status = "active" => off < asset[a].value
        /\ asset[a].status = "fully_depreciated" => off = asset[a].value
  BY DEF PapersInv, AssetBacked, WrittenOff, EntriesOf
<1>3. \A d \in Papers \ loose : paper[d] # NoPaper =>
        /\ paper[d].status \in {"posted", "paid"} => InBooks(paper[d].journal)
        /\ paper[d].checker # Nobody => paper[d].checker # paper[d].maker
        /\ paper[d].status \in {"approved", "posted", "paid"} => paper[d].checker # Nobody
  BY DEF PapersInv, RowBacked
<1> QED BY <1>1, <1>2, <1>3 DEF PapersInv, PapersAreBacked, EntryBacked

LEMMA PapersStart == ASSUME PaperInit PROVE PapersInv
<1>1. /\ paper = [d \in Papers |-> NoPaper] /\ depreciation = {} /\ loose = {} /\ copies = 0
      /\ asset = [a \in Assets |-> [status |-> "draft", value |-> Value[a], accumulated |-> 0]]
      /\ copy = [d \in Papers \cup Assets |-> NoPaper]
  BY DEF PaperInit
<1>2. \A a \in Assets : asset[a] \in AssetRow /\ asset[a].status = "draft" /\ asset[a].accumulated = 0
  BY <1>1, PaperAssumption DEF AssetRow
<1>3. ASSUME NEW a \in Assets PROVE AssetBacked(a)
  <2> DEFINE f == [e \in depreciation |-> e.amount]
  <2>1. EntriesOf(a) = {} BY <1>1 DEF EntriesOf
  <2>2. SumOver(f, EntriesOf(a)) = 0
    <3> HIDE DEF f
    <3> QED BY <2>1, SumEmpty
  <2>3. 0 <= asset[a].value BY <1>2 DEF AssetRow
  <2> QED BY <1>2, <2>2, <2>3 DEF AssetBacked, WrittenOff
<1>4. PaperTypes BY <1>1, <1>2, FS_EmptySet DEF PaperTypes
<1>5. CopyTypes BY <1>1, PaperAssumption DEF CopyTypes
<1> QED BY <1>1, <1>3, <1>4, <1>5 DEF PapersInv

\* The ledger's steps keep what papers stand on.
LEMMA BacksKept ==
  ASSUME LedgerInv, LedgerInv', Stands, NEW j \in Journals \cup {NoJournal}, InBooks(j)
  PROVE  InBooks(j)' /\ journal'[j].period = journal[j].period
<1>1. j \in Journals /\ Booked(j) BY DEF InBooks
<1>2. /\ Booked(j)'
      /\ [journal'[j] EXCEPT !.status = "posted"] = [journal[j] EXCEPT !.status = "posted"]
  BY <1>1 DEF Stands, BookedStands
<1>3. journal[j] \in EntryRow BY <1>1, NoEntryIsNone DEF LedgerInv, LedgerTypeOK, Booked
<1>4. journal'[j] \in EntryRow
  <2>1. journal' \in [Journals -> EntryRow \cup {NoEntry}] BY DEF LedgerInv
  <2>2. journal'[j].status # "absent" BY <1>2 DEF Booked
  <2> QED BY <1>1, <2>1, <2>2, NoEntryIsNone
<1>5. \A r, s \in EntryRow :
        [r EXCEPT !.status = "posted"] = [s EXCEPT !.status = "posted"] => r.period = s.period
  <2> SUFFICES ASSUME NEW r \in EntryRow, NEW s \in EntryRow,
                      [r EXCEPT !.status = "posted"] = [s EXCEPT !.status = "posted"]
               PROVE  r.period = s.period
    OBVIOUS
  <2>1. \A t \in EntryRow : [t EXCEPT !.status = "posted"].period = t.period BY DEF EntryRow
  <2> QED BY <2>1
<1>6. journal'[j].period = journal[j].period BY <1>2, <1>3, <1>4, <1>5
<1> QED BY <1>1, <1>2, <1>6 DEF InBooks

LEMMA RowBackedKept ==
  ASSUME LedgerInv, LedgerInv', Stands, NEW row \in AnyPaper, RowBacked(row)
  PROVE  RowBacked(row)'
<1>1. row.journal \in Journals \cup {NoJournal} BY DEF AnyPaper, ClaimRow, PayrollRow, InvoiceRow, PaperRow
<1> QED BY <1>1, BacksKept DEF RowBacked

LEMMA PapersBesideLedger ==
  ASSUME LedgerInv, LedgerInv', PapersInv, Stands, UNCHANGED paperVars
  PROVE  PapersInv'
<1>1. PaperTypes' /\ CopyTypes' BY DEF PapersInv, PaperTypes, CopyTypes, paperVars
<1>2. ASSUME NEW d \in Papers \ loose, paper[d] # NoPaper PROVE RowBacked(paper[d])'
  <2>1. RowBacked(paper[d]) /\ paper[d] \in AnyPaper BY <1>2 DEF PapersInv, PaperTypes
  <2> QED BY <2>1, RowBackedKept DEF paperVars, RowBacked
<1>3. ASSUME NEW e \in depreciation PROVE EntryBacked(e)'
  <2>1. EntryBacked(e) /\ e.journal \in Journals BY DEF PapersInv, PaperTypes, DepreciationRow
  <2> QED BY <2>1, BacksKept DEF EntryBacked
<1>4. \A a \in Assets \ loose : AssetBacked(a)'
  BY DEF PapersInv, AssetBacked, WrittenOff, EntriesOf, paperVars
<1> QED BY <1>1, <1>2, <1>3, <1>4 DEF PapersInv, paperVars

\* One paper is written; it is backed, or an edit is why not.
LEMMA PaperWritten ==
  ASSUME PapersInv, NEW d \in Papers, NEW row \in RowsFor(d), paper' = [paper EXCEPT ![d] = row],
         UNCHANGED <<journal, asset, depreciation>>, CopyTypes',
         loose \subseteq loose', loose' \subseteq Papers \cup Assets,
         d \notin loose' => RowBacked(row)
  PROVE  PapersInv'
<1>1. row \in AnyPaper BY DEF AnyPaper, RowsFor
<1>2. paper \in [Papers -> AnyPaper \cup {NoPaper}] BY DEF PapersInv, PaperTypes
<1>3. \A c \in Papers : paper'[c] = IF c = d THEN row ELSE paper[c] BY <1>2
<1>4. PaperTypes' BY <1>1, <1>2, <1>3 DEF PapersInv, PaperTypes
<1>5. ASSUME NEW c \in Papers \ loose', paper'[c] # NoPaper PROVE RowBacked(paper[c])'
  <2>1. RowBacked(paper'[c])
    <3>1. CASE c = d BY <1>3, <1>5, <3>1
    <3>2. CASE c # d BY <1>3, <1>5, <3>2 DEF PapersInv
    <3> QED BY <3>1, <3>2
  <2> QED BY <2>1 DEF RowBacked, InBooks, Booked
<1>6. \A e \in depreciation : EntryBacked(e)' BY DEF PapersInv, EntryBacked, InBooks, Booked
<1>7. \A a \in Assets \ loose' : AssetBacked(a)' BY DEF PapersInv, AssetBacked, WrittenOff, EntriesOf
<1> QED BY <1>4, <1>5, <1>6, <1>7 DEF PapersInv

\* One asset is written, no entry is added.
LEMMA AssetWritten ==
  ASSUME PapersInv, NEW a \in Assets, NEW row \in AssetRow, asset' = [asset EXCEPT ![a] = row],
         UNCHANGED <<journal, paper, depreciation>>, CopyTypes',
         loose \subseteq loose', loose' \subseteq Papers \cup Assets,
         a \notin loose' =>
           /\ row.accumulated = asset[a].accumulated /\ row.accumulated <= row.value
           /\ row.status = "draft" => row.accumulated = 0
           /\ row.status = "active" => row.accumulated < row.value
           /\ row.status = "fully_depreciated" => row.accumulated = row.value
  PROVE  PapersInv'
<1>1. \A c \in Assets : asset'[c] = IF c = a THEN row ELSE asset[c] BY DEF PapersInv, PaperTypes
<1>2. PaperTypes' BY <1>1 DEF PapersInv, PaperTypes
<1>3. \A c \in Papers \ loose' : paper'[c] # NoPaper => RowBacked(paper[c])'
  BY DEF PapersInv, RowBacked, InBooks, Booked
<1>4. \A e \in depreciation : EntryBacked(e)' BY DEF PapersInv, EntryBacked, InBooks, Booked
<1>5. ASSUME NEW c \in Assets \ loose' PROVE AssetBacked(c)'
  <2>1. WrittenOff(c)' = WrittenOff(c) BY DEF WrittenOff, EntriesOf
  <2>2. AssetBacked(c) BY DEF PapersInv
  <2>3. CASE c = a BY <1>1, <1>5, <2>1, <2>2, <2>3 DEF AssetBacked
  <2>4. CASE c # a BY <1>1, <2>1, <2>2, <2>4 DEF AssetBacked
  <2> QED BY <2>3, <2>4
<1> QED BY <1>2, <1>3, <1>4, <1>5 DEF PapersInv

\* The rows of each kind of paper.
LEMMA KindsOfRows ==
  /\ \A d \in Claims : RowsFor(d) = ClaimRow
  /\ \A d \in Payrolls : RowsFor(d) = PayrollRow
  /\ \A d \in Invoices : RowsFor(d) = InvoiceRow
BY PaperAssumption DEF RowsFor

\* A transition keeps a paper backed when its moves do not enter what nobody
\* checked, and verify only papers without a maker.
LEMMA PaperMoved ==
  ASSUME PapersInv, NEW d \in Papers, NEW S, NEW M, RowsFor(d) = PaperRow(S, M),
         NEW moves, NEW target \in S, NEW actor \in People, Transition(d, moves, target, actor),
         UNCHANGED journal, target # "draft",
         target = "verified" => M = {Nobody},
         target \in {"posted", "paid"} => paper[d].status \in {"approved", "verified", "posted"}
  PROVE  PapersInv'
<1> DEFINE x == paper[d]
           k == IF target \in {"approved", "rejected", "verified"} THEN actor ELSE x.checker
           row == [x EXCEPT !.status = target, !.checker = k]
<1>1. /\ paper[d] # NoPaper
      /\ target \in {"approved", "rejected"} => Separate(d, actor)
      /\ target \in {"posted", "paid"} => Posted(paper[d].journal)
      /\ paper' = [paper EXCEPT ![d] = row]
      /\ UNCHANGED <<asset, depreciation, copy, copies, loose>>
  BY DEF Transition, KeepAssets, KeepEdits
<1>2. x \in PaperRow(S, M) BY <1>1 DEF PapersInv, PaperTypes
<1>3. k \in People \cup {Nobody} /\ x.maker \in M BY <1>2 DEF PaperRow
<1> HIDE DEF x, k
<1>4. /\ row \in RowsFor(d) /\ row.status = target /\ row.checker = k
      /\ row.maker = x.maker /\ row.journal = x.journal
  <2>1. /\ row \in PaperRow(S, M) /\ row.status = target /\ row.checker = k
        /\ row.maker = x.maker /\ row.journal = x.journal
    BY <1>2, <1>3 DEF PaperRow
  <2> QED BY <2>1
<1> HIDE DEF row
<1>5. ASSUME d \notin loose PROVE RowBacked(row)
  <2>1. RowBacked(x) BY <1>1, <1>5 DEF PapersInv, x
  <2>2. target \in {"posted", "paid"} => InBooks(row.journal)
    BY <1>1, <1>4 DEF Posted, InBooks, Booked, x
  <2>3. k # Nobody => k # row.maker
    <3>1. CASE target \in {"approved", "rejected"} BY <1>1, <1>4, <3>1 DEF k, Separate, x
    <3>2. CASE target = "verified" BY <1>2, <1>3, <1>4, <3>2, PaperAssumption DEF k
    <3>3. CASE target \notin {"approved", "rejected", "verified"}
      BY <1>4, <2>1, <3>3 DEF k, RowBacked
    <3> QED BY <3>1, <3>2, <3>3
  <2>4. target \in {"approved", "verified", "posted", "paid"} => k # Nobody
    BY <2>1, PaperAssumption DEF k, RowBacked, x
  <2> QED BY <1>4, <2>2, <2>3, <2>4 DEF RowBacked
<1>6. CopyTypes' BY <1>1 DEF PapersInv, CopyTypes
<1>7. loose \subseteq Papers \cup Assets BY DEF PapersInv, PaperTypes
<1> QED BY <1>1, <1>4, <1>5, <1>6, <1>7, PaperWritten

LEMMA PaperCreated ==
  ASSUME PapersInv, NEW d \in Papers, NEW who \in People \cup {Nobody},
         NEW j \in KnownJournals \cup {NoJournal}, CreatePaper(d, who, j), UNCHANGED journal
  PROVE  PapersInv'
<1> DEFINE row == [status |-> "draft", journal |-> j, maker |-> who, checker |-> Nobody]
<1>1. /\ paper' = [paper EXCEPT ![d] = row] /\ (d \in Invoices <=> who = Nobody)
      /\ UNCHANGED <<asset, depreciation, copy, copies, loose>>
  BY DEF CreatePaper, KeepAssets, KeepEdits
<1>2. row \in RowsFor(d)
  BY <1>1, KindsOfRows, PaperAssumption
  DEF Papers, KnownJournals, ClaimRow, PayrollRow, InvoiceRow, PaperRow
<1>3. RowBacked(row) BY DEF RowBacked
<1>4. CopyTypes' BY <1>1 DEF PapersInv, CopyTypes
<1>5. loose \subseteq Papers \cup Assets BY DEF PapersInv, PaperTypes
<1> HIDE DEF row
<1> QED BY <1>1, <1>2, <1>3, <1>4, <1>5, PaperWritten

LEMMA PayrollBegun ==
  ASSUME PapersInv, NEW d \in Papers, NEW actor \in People, Calculate(d, actor), UNCHANGED journal
  PROVE  PapersInv'
<1> DEFINE x == paper[d]
           row == [x EXCEPT !.status = "calculated", !.maker = actor]
<1>1. /\ d \in Payrolls /\ x # NoPaper /\ x.status = "draft" /\ paper' = [paper EXCEPT ![d] = row]
      /\ UNCHANGED <<asset, depreciation, copy, copies, loose>>
  BY DEF Calculate, KeepAssets, KeepEdits
<1>2. x \in PayrollRow BY <1>1, KindsOfRows DEF PapersInv, PaperTypes
<1> HIDE DEF x
<1>3. row \in PayrollRow /\ row.status = "calculated" /\ row.checker = x.checker
  BY <1>2 DEF PayrollRow, PaperRow
<1> HIDE DEF row
<1>4. d \notin loose => RowBacked(row)
  <2>1. d \notin loose => x.checker = Nobody BY <1>1 DEF PapersInv, RowBacked, x
  <2> QED BY <1>3, <2>1 DEF RowBacked
<1>5. row \in RowsFor(d) BY <1>1, <1>3, KindsOfRows
<1>6. CopyTypes' BY <1>1 DEF PapersInv, CopyTypes
<1>7. loose \subseteq Papers \cup Assets BY DEF PapersInv, PaperTypes
<1> QED BY <1>1, <1>4, <1>5, <1>6, <1>7, PaperWritten

LEMMA PaperSaved ==
  ASSUME PapersInv, NEW d \in Papers, NEW j \in KnownJournals \cup {NoJournal}, NEW who \in People,
         SaveCopy(d, j, who), UNCHANGED journal
  PROVE  PapersInv'
<1> DEFINE x == copy[d]
           m == IF d \in Claims THEN who ELSE x.maker
           row == [x EXCEPT !.journal = j, !.maker = m]
<1>1. /\ x # NoPaper /\ paper' = [paper EXCEPT ![d] = row] /\ copy' = [copy EXCEPT ![d] = NoPaper]
      /\ loose' = IF Harmless(d, row) THEN loose ELSE loose \cup {d}
      /\ UNCHANGED <<asset, depreciation, copies>>
  BY DEF SaveCopy, KeepAssets
<1>2. x \in RowsFor(d) BY <1>1 DEF PapersInv, CopyTypes
<1> HIDE DEF x
<1>3. j \in Journals \cup {NoJournal} BY DEF KnownJournals
<1>4. PICK S, M : RowsFor(d) = PaperRow(S, M) /\ (d \in Claims => M = People)
  BY KindsOfRows DEF Papers, ClaimRow, PayrollRow, InvoiceRow
<1>5. m \in M BY <1>2, <1>4 DEF PaperRow
<1> HIDE DEF m
<1>6. /\ row \in PaperRow(S, M) /\ row.journal = j /\ row.maker = m
      /\ row.status = x.status /\ row.checker = x.checker
  <2> DEFINE y == [x EXCEPT !.journal = j]
  <2>1. x \in PaperRow(S, M) BY <1>2, <1>4
  <2>2. /\ y \in PaperRow(S, M) /\ y.journal = j
        /\ y.status = x.status /\ y.checker = x.checker
    BY <1>3, <2>1 DEF PaperRow
  <2> HIDE DEF y
  <2>3. LET z == [y EXCEPT !.maker = m] IN
        /\ z \in PaperRow(S, M) /\ z.journal = y.journal /\ z.maker = m
        /\ z.status = y.status /\ z.checker = y.checker
    BY <1>5, <2>2 DEF PaperRow
  <2> QED BY <2>2, <2>3 DEF y
<1> HIDE DEF row
<1>7. d \notin loose' => RowBacked(row)
  <2> SUFFICES ASSUME d \notin loose' PROVE RowBacked(row) OBVIOUS
  <2>1. Harmless(d, row) /\ d \notin loose BY <1>1
  <2>2. paper[d] = x BY <2>1 DEF Harmless, x
  <2>3. RowBacked(x) BY <1>1, <2>1, <2>2 DEF PapersInv
  <2>4. /\ row.checker # Nobody => row.maker = x.maker
        /\ row.status \in {"posted", "paid"} => row.journal = x.journal
    BY <2>1 DEF Harmless, x
  <2> QED BY <1>6, <2>3, <2>4 DEF RowBacked
<1>8. CopyTypes'
  <2>1. \A c \in Papers \cup Assets : copy'[c] \in {copy[c], NoPaper}
    BY <1>1 DEF PapersInv, CopyTypes
  <2>2. copy' \in [Papers \cup Assets -> AnyPaper \cup AssetRow \cup {NoPaper}]
    BY <1>1 DEF PapersInv, CopyTypes
  <2> QED BY <1>1, <2>1, <2>2 DEF PapersInv, CopyTypes
<1>9. loose \subseteq loose' /\ loose' \subseteq Papers \cup Assets
  BY <1>1 DEF PapersInv, PaperTypes
<1>10. row \in RowsFor(d) BY <1>4, <1>6
<1> QED BY <1>1, <1>7, <1>8, <1>9, <1>10, PaperWritten

\* What an edit reads is a row of its paper.
LEMMA CopyOpened ==
  ASSUME PapersInv, NEW d \in Papers \cup Assets, OpenCopy(d), UNCHANGED journal
  PROVE  PapersInv'
<1>1. /\ copies < MaxPaperForms /\ Row(d) # NoPaper
      /\ copy' = [copy EXCEPT ![d] = Row(d)] /\ copies' = copies + 1
      /\ UNCHANGED <<paper, loose, asset, depreciation>>
  BY DEF OpenCopy, KeepAssets
<1>2. d \in Assets => Row(d) \in AssetRow BY <1>1 DEF Row, PapersInv, PaperTypes
<1>3. d \in Papers => Row(d) \in RowsFor(d) /\ Row(d) \in AnyPaper
  BY <1>1, PaperAssumption DEF Row, PapersInv, PaperTypes, Papers
<1>4. \A c \in Papers \cup Assets : copy'[c] = IF c = d THEN Row(d) ELSE copy[c]
  BY <1>1 DEF PapersInv, CopyTypes
<1>5. CopyTypes'
  <2>1. copy' \in [Papers \cup Assets -> AnyPaper \cup AssetRow \cup {NoPaper}]
    BY <1>1, <1>2, <1>3 DEF PapersInv, CopyTypes
  <2>2. copies' \in 0..MaxPaperForms BY <1>1, PaperAssumption DEF PapersInv, CopyTypes
  <2> QED BY <1>2, <1>3, <1>4, <2>1, <2>2 DEF PapersInv, CopyTypes
<1>6. PaperTypes' BY <1>1 DEF PapersInv, PaperTypes
<1>7. \A c \in Papers \ loose' : paper'[c] # NoPaper => RowBacked(paper[c])'
  BY <1>1 DEF PapersInv, RowBacked, InBooks, Booked
<1>8. \A e \in depreciation' : EntryBacked(e)' BY <1>1 DEF PapersInv, EntryBacked, InBooks, Booked
<1>9. \A a \in Assets \ loose' : AssetBacked(a)'
  BY <1>1 DEF PapersInv, AssetBacked, WrittenOff, EntriesOf
<1> QED BY <1>5, <1>6, <1>7, <1>8, <1>9 DEF PapersInv

\* What is deleted is loose from then on.
LEMMA PaperDeleted ==
  ASSUME PapersInv, NEW d \in Papers \cup Assets, Delete(d), UNCHANGED journal
  PROVE  PapersInv'
<1>1. /\ loose' = loose \cup {d} /\ UNCHANGED <<depreciation, copy, copies>>
      /\ \/ asset' = [asset EXCEPT ![d] = NoPaper] /\ UNCHANGED paper
         \/ paper' = [paper EXCEPT ![d] = NoPaper] /\ UNCHANGED asset
  BY DEF Delete
<1>2. /\ \A c \in Papers : paper'[c] \in {paper[c], NoPaper}
      /\ \A c \in Papers \ {d} : paper'[c] = paper[c]
      /\ paper' \in [Papers -> AnyPaper \cup {NoPaper}]
  BY <1>1 DEF PapersInv, PaperTypes
<1>3. /\ \A a \in Assets \ {d} : asset'[a] = asset[a]
      /\ asset' \in [Assets -> AssetRow \cup {NoPaper}]
  BY <1>1 DEF PapersInv, PaperTypes
<1>4. PaperTypes' BY <1>1, <1>2, <1>3 DEF PapersInv, PaperTypes
<1>5. CopyTypes' BY <1>1 DEF PapersInv, CopyTypes
<1>6. ASSUME NEW c \in Papers \ loose', paper'[c] # NoPaper PROVE RowBacked(paper[c])'
  <2>1. c \notin loose /\ paper'[c] = paper[c] BY <1>1, <1>2, <1>6
  <2>2. RowBacked(paper'[c]) BY <1>6, <2>1 DEF PapersInv
  <2> QED BY <2>2 DEF RowBacked, InBooks, Booked
<1>7. \A e \in depreciation' : EntryBacked(e)' BY <1>1 DEF PapersInv, EntryBacked, InBooks, Booked
<1>8. ASSUME NEW a \in Assets \ loose' PROVE AssetBacked(a)'
  <2>1. a \notin loose /\ asset'[a] = asset[a] BY <1>1, <1>3
  <2> QED BY <1>1, <2>1 DEF PapersInv, AssetBacked, WrittenOff, EntriesOf
<1> QED BY <1>4, <1>5, <1>6, <1>7, <1>8 DEF PapersInv

\* The steps of the papers.
LEMMA PaperNextStep ==
  ASSUME PapersInv, NEW d \in Papers, PaperNext(d), UNCHANGED journal
  PROVE  PapersInv'
<1>1. ASSUME NEW target, NEW actor \in People, TransitionExpense(d, target, actor) PROVE PapersInv'
  <2>1. /\ d \in Claims /\ Transition(d, ExpenseMoves, target, actor)
        /\ <<paper[d].status, target>> \in ExpenseMoves
    BY <1>1 DEF TransitionExpense, Transition
  <2>2. /\ target \in {"draft", "submitted", "approved", "rejected", "posted", "paid"}
        /\ target # "draft" /\ target # "verified"
        /\ target \in {"posted", "paid"} => paper[d].status \in {"approved", "verified", "posted"}
    BY <2>1 DEF ExpenseMoves
  <2>3. RowsFor(d) = PaperRow({"draft", "submitted", "approved", "rejected", "posted", "paid"}, People)
    BY <2>1, KindsOfRows DEF ClaimRow
  <2> QED BY <1>1, <2>1, <2>2, <2>3, PaperMoved
<1>2. ASSUME NEW target, NEW actor \in People, TransitionPayroll(d, target, actor) PROVE PapersInv'
  <2>1. /\ d \in Payrolls /\ Transition(d, PayrollMoves, target, actor)
        /\ <<paper[d].status, target>> \in PayrollMoves
    BY <1>2 DEF TransitionPayroll, Transition
  <2>2. /\ target \in {"draft", "calculated", "approved", "posted", "paid"}
        /\ target # "draft" /\ target # "verified"
        /\ target \in {"posted", "paid"} => paper[d].status \in {"approved", "verified", "posted"}
    BY <2>1 DEF PayrollMoves
  <2>3. RowsFor(d) = PaperRow({"draft", "calculated", "approved", "posted", "paid"}, People)
    BY <2>1, KindsOfRows DEF PayrollRow
  <2> QED BY <1>2, <2>1, <2>2, <2>3, PaperMoved
<1>3. ASSUME NEW target, NEW actor \in People, TransitionInvoice(d, target, actor) PROVE PapersInv'
  <2>1. /\ d \in Invoices /\ Transition(d, InvoiceMoves, target, actor)
        /\ <<paper[d].status, target>> \in InvoiceMoves
    BY <1>3 DEF TransitionInvoice, Transition
  <2>2. /\ target \in {"draft", "verified", "posted", "void"} /\ target # "draft"
        /\ target \in {"posted", "paid"} => paper[d].status \in {"approved", "verified", "posted"}
    BY <2>1 DEF InvoiceMoves
  <2>3. RowsFor(d) = PaperRow({"draft", "verified", "posted", "void"}, {Nobody})
    BY <2>1, KindsOfRows DEF InvoiceRow
  <2> QED BY <1>3, <2>1, <2>2, <2>3, PaperMoved
<1> QED
  BY <1>1, <1>2, <1>3, PaperCreated, PayrollBegun, PaperSaved, CopyOpened, PaperDeleted
  DEF PaperNext

LEMMA AssetMoved ==
  ASSUME PapersInv, NEW a \in Assets, UNCHANGED journal, Activate(a) \/ Dispose(a)
  PROVE  PapersInv'
<1>1. PICK from, to :
        /\ MoveAsset(a, from, to)
        /\ \/ from = {"draft"} /\ to = "active"
           \/ from = {"active", "fully_depreciated"} /\ to = "disposed"
  BY DEF Activate, Dispose
<1> DEFINE x == asset[a]
           row == [x EXCEPT !.status = to]
<1>2. /\ x # NoPaper /\ x.status \in from /\ asset' = [asset EXCEPT ![a] = row]
      /\ UNCHANGED <<paper, depreciation, copy, copies, loose>>
  BY <1>1 DEF MoveAsset, KeepEdits
<1>3. x \in AssetRow BY <1>2 DEF PapersInv, PaperTypes
<1>4. a \notin loose => AssetBacked(a) BY DEF PapersInv
<1>5. /\ row \in AssetRow /\ row.status = to
      /\ row.accumulated = x.accumulated /\ row.value = x.value
  BY <1>1, <1>3 DEF AssetRow
<1> HIDE DEF row
<1>6. a \notin loose' =>
        /\ row.accumulated = asset[a].accumulated /\ row.accumulated <= row.value
        /\ row.status = "draft" => row.accumulated = 0
        /\ row.status = "active" => row.accumulated < row.value
        /\ row.status = "fully_depreciated" => row.accumulated = row.value
  BY <1>1, <1>2, <1>3, <1>4, <1>5 DEF AssetBacked, AssetRow
<1>7. CopyTypes' BY <1>2 DEF PapersInv, CopyTypes
<1>8. loose \subseteq Papers \cup Assets BY DEF PapersInv, PaperTypes
<1> QED BY <1>2, <1>5, <1>6, <1>7, <1>8, AssetWritten

LEMMA AssetSaved ==
  ASSUME PapersInv, NEW a \in Assets, NEW value \in Values, SaveAsset(a, value), UNCHANGED journal
  PROVE  PapersInv'
<1> DEFINE x == copy[a]
           row == [x EXCEPT !.value = value]
           same == asset[a] = x /\ (asset[a].status = "draft" \/ value = asset[a].value)
<1>1. /\ x # NoPaper /\ asset' = [asset EXCEPT ![a] = row] /\ copy' = [copy EXCEPT ![a] = NoPaper]
      /\ loose' = IF same THEN loose ELSE loose \cup {a}
      /\ UNCHANGED <<paper, depreciation, copies>>
  BY DEF SaveAsset
<1>2. x \in AssetRow BY <1>1 DEF PapersInv, CopyTypes
<1>3. value \in Nat \ {0} BY PaperAssumption
<1> HIDE DEF x
<1>4. /\ row \in AssetRow /\ row.value = value
      /\ row.status = x.status /\ row.accumulated = x.accumulated
  BY <1>2, <1>3 DEF AssetRow
<1> HIDE DEF row
<1>5. ASSUME a \notin loose'
      PROVE  /\ row.accumulated = asset[a].accumulated /\ row.accumulated <= row.value
             /\ row.status = "draft" => row.accumulated = 0
             /\ row.status = "active" => row.accumulated < row.value
             /\ row.status = "fully_depreciated" => row.accumulated = row.value
  <2>1. same /\ a \notin loose BY <1>1, <1>5
  <2>2. AssetBacked(a) BY <2>1 DEF PapersInv
  <2>3. CASE x.status = "draft" BY <1>2, <1>3, <1>4, <2>1, <2>2, <2>3 DEF AssetBacked, AssetRow
  <2>4. CASE x.status # "draft" BY <1>2, <1>3, <1>4, <2>1, <2>2, <2>4 DEF AssetBacked, AssetRow
  <2> QED BY <2>3, <2>4
<1> HIDE DEF same
<1>6. CopyTypes'
  <2>1. \A c \in Papers \cup Assets : copy'[c] \in {copy[c], NoPaper}
    BY <1>1 DEF PapersInv, CopyTypes
  <2>2. copy' \in [Papers \cup Assets -> AnyPaper \cup AssetRow \cup {NoPaper}]
    BY <1>1 DEF PapersInv, CopyTypes
  <2> QED BY <1>1, <2>1, <2>2 DEF PapersInv, CopyTypes
<1>7. loose \subseteq loose' /\ loose' \subseteq Papers \cup Assets
  BY <1>1 DEF PapersInv, PaperTypes
<1> QED BY <1>1, <1>4, <1>5, <1>6, <1>7, AssetWritten

\* An entry is added to the asset it writes off, and to no other.
OffBy(D, c) == SumOver([x \in D |-> x.amount], {x \in D : x.asset = c})

LEMMA EntryAdded ==
  ASSUME NEW D, IsFiniteSet(D), D \subseteq DepreciationRow,
         NEW e \in DepreciationRow, e \notin D, NEW c
  PROVE  OffBy(D \cup {e}, c) = OffBy(D, c) + (IF e.asset = c THEN e.amount ELSE 0)
<1> DEFINE S == {x \in D : x.asset = c}
           T == {x \in D \cup {e} : x.asset = c}
           f == [x \in D |-> x.amount]
           g == [x \in D \cup {e} |-> x.amount]
<1>1. IsFiniteSet(S) BY FS_Subset
<1>2. \A x \in S : f[x] \in Int /\ g[x] = f[x] BY DEF DepreciationRow
<1>3. g[e] = e.amount /\ e.amount \in Int /\ e \notin S BY DEF DepreciationRow
<1>4. T = IF e.asset = c THEN S \cup {e} ELSE S OBVIOUS
<1>5. SumOver(f, S) \in Int
  <2> HIDE DEF S, f, g
  <2> QED BY <1>1, <1>2, SumType
<1>6. SumOver(g, S) = SumOver(f, S)
  <2> HIDE DEF S, f, g
  <2> QED BY <1>1, <1>2, SumAgree
<1>7. SumOver(g, S \cup {e}) = SumOver(g, S) + g[e]
  <2>1. e \notin S /\ \A x \in S \cup {e} : g[x] \in Int
    BY <1>2, <1>3
  <2> HIDE DEF S, f, g
  <2> QED BY ONLY <1>1, <2>1, SumAdd
<1>8. SumOver(g, T) = SumOver(f, S) + (IF e.asset = c THEN e.amount ELSE 0)
  <2> HIDE DEF S, T, f, g
  <2> QED BY <1>3, <1>4, <1>5, <1>6, <1>7
<1> QED BY <1>8 DEF OffBy

LEMMA AssetDepreciated ==
  ASSUME PapersInv, NEW a \in Assets, NEW p \in Periods, NEW amount \in Depreciations,
         NEW j \in KnownJournals, Depreciate(a, p, amount, j), UNCHANGED journal
  PROVE  PapersInv'
<1> DEFINE x == asset[a]
           e == [asset |-> a, period |-> p, amount |-> amount, journal |-> j]
           full == x.accumulated + amount = x.value
           row == [x EXCEPT !.accumulated = @ + amount,
                            !.status = IF full THEN "fully_depreciated" ELSE @]
<1>1. /\ x # NoPaper /\ x.status = "active" /\ amount <= x.value - x.accumulated
      /\ Posted(j) /\ journal[j].period = p
      /\ e \notin depreciation
      /\ depreciation' = depreciation \cup {e} /\ asset' = [asset EXCEPT ![a] = row]
      /\ UNCHANGED <<paper, copy, copies, loose>>
  BY DEF Depreciate, Depreciable, KeepEdits
<1>2. x \in AssetRow /\ amount \in Nat \ {0} BY <1>1, PaperAssumption DEF PapersInv, PaperTypes
<1>3. e \in DepreciationRow /\ e.asset = a /\ e.amount = amount /\ e.journal = j /\ e.period = p
  BY <1>2 DEF DepreciationRow, KnownJournals
<1> HIDE DEF e, x
<1>4. /\ row \in AssetRow /\ row.value = x.value /\ row.accumulated = x.accumulated + amount
      /\ row.status = IF full THEN "fully_depreciated" ELSE "active"
  <2> DEFINE y == [x EXCEPT !.accumulated = x.accumulated + amount]
             s == IF full THEN "fully_depreciated" ELSE "active"
  <2>1. /\ y \in AssetRow /\ y.value = x.value /\ y.accumulated = x.accumulated + amount
        /\ s \in {"active", "fully_depreciated"}
    BY <1>2 DEF AssetRow
  <2>2. row = [y EXCEPT !.status = s] BY <1>1
  <2> HIDE DEF y, s, row
  <2>3. [y EXCEPT !.status = s] \in AssetRow /\ [y EXCEPT !.status = s].status = s
        /\ [y EXCEPT !.status = s].value = y.value
        /\ [y EXCEPT !.status = s].accumulated = y.accumulated
    BY <2>1 DEF AssetRow
  <2> QED BY <2>1, <2>2, <2>3 DEF s
<1> HIDE DEF row
<1>5. \A c \in Assets : asset'[c] = IF c = a THEN row ELSE asset[c]
  BY <1>1 DEF PapersInv, PaperTypes
<1>6. ASSUME NEW c \in Assets
      PROVE  /\ WrittenOff(c)' = WrittenOff(c) + (IF c = a THEN amount ELSE 0)
             /\ WrittenOff(c) \in Int
  <2>1. IsFiniteSet(depreciation) /\ depreciation \subseteq DepreciationRow
    BY DEF PapersInv, PaperTypes
  <2>2. WrittenOff(c)' = WrittenOff(c) + (IF c = a THEN amount ELSE 0)
    <3>1. OffBy(depreciation \cup {e}, c) = OffBy(depreciation, c) + (IF e.asset = c THEN e.amount ELSE 0)
      BY <1>1, <1>3, <2>1, EntryAdded
    <3>2. WrittenOff(c) = OffBy(depreciation, c) /\ WrittenOff(c)' = OffBy(depreciation \cup {e}, c)
      BY <1>1 DEF WrittenOff, EntriesOf, OffBy
    <3>3. (a = c) = (c = a) OBVIOUS
    <3> QED BY <1>3, <3>1, <3>2
  <2> DEFINE S == EntriesOf(c)
             f == [d \in depreciation |-> d.amount]
  <2>3. IsFiniteSet(S) BY <2>1, FS_Subset DEF EntriesOf
  <2>4. \A d \in S : f[d] \in Int BY <2>1 DEF EntriesOf, DepreciationRow
  <2>5. SumOver(f, S) \in Int
    <3> HIDE DEF S, f
    <3> QED BY <2>3, <2>4, SumType
  <2> QED BY <2>2, <2>5 DEF WrittenOff
<1>7. PaperTypes'
  <2>1. IsFiniteSet(depreciation') BY <1>1, FS_AddElement DEF PapersInv, PaperTypes
  <2>2. depreciation' \subseteq DepreciationRow BY <1>1, <1>3 DEF PapersInv, PaperTypes
  <2>3. asset' \in [Assets -> AssetRow \cup {NoPaper}] BY <1>1, <1>4 DEF PapersInv, PaperTypes
  <2> QED BY <1>1, <2>1, <2>2, <2>3 DEF PapersInv, PaperTypes
<1>8. CopyTypes' BY <1>1 DEF PapersInv, CopyTypes
<1>9. \A c \in Papers \ loose' : paper'[c] # NoPaper => RowBacked(paper[c])'
  BY <1>1 DEF PapersInv, RowBacked, InBooks, Booked
<1>10. \A d \in depreciation' : EntryBacked(d)'
  BY <1>1, <1>3 DEF PapersInv, EntryBacked, InBooks, Booked, Posted
<1>11. ASSUME NEW c \in Assets \ loose' PROVE AssetBacked(c)'
  <2>1. AssetBacked(c) /\ WrittenOff(c)' = WrittenOff(c) + (IF c = a THEN amount ELSE 0)
        /\ WrittenOff(c) \in Int
    BY <1>1, <1>6 DEF PapersInv
  <2>2. CASE c = a
    <3>1. WrittenOff(a)' = x.accumulated + amount BY <2>1, <2>2 DEF AssetBacked, x
    <3>2. asset'[a] = row BY <1>5
    <3> QED BY <1>1, <1>2, <1>4, <2>2, <3>1, <3>2 DEF AssetBacked, AssetRow
  <2>3. CASE c # a
    <3>1. WrittenOff(c)' = WrittenOff(c) BY <2>1, <2>3
    <3>2. asset'[c] = asset[c] BY <1>5, <2>3
    <3> QED BY <2>1, <3>1, <3>2 DEF AssetBacked
  <2> QED BY <2>2, <2>3
<1> QED BY <1>1, <1>7, <1>8, <1>9, <1>10, <1>11 DEF PapersInv

\* Every step, of a paper, of an asset or of the ledger under them.
LEMMA PapersStep ==
  ASSUME LedgerInv, PapersInv, [PapersNext]_<<ledgerVars, paperVars>>
  PROVE  LedgerInv' /\ PapersInv'
<1>1. [LedgerNext]_ledgerVars BY DEF PapersNext
<1>2. LedgerInv' BY <1>1, LedgerStep
<1>3. ASSUME NEW a \in Assets, AssetNext(a), UNCHANGED journal PROVE PapersInv'
  BY <1>3, AssetMoved, AssetSaved, AssetDepreciated, CopyOpened, PaperDeleted DEF AssetNext
<1>4. CASE (\E d \in Papers : PaperNext(d)) /\ UNCHANGED ledgerVars
  BY <1>2, <1>4, PaperNextStep DEF ledgerVars
<1>5. CASE (\E a \in Assets : AssetNext(a)) /\ UNCHANGED ledgerVars
  BY <1>2, <1>3, <1>5 DEF ledgerVars
<1>6. CASE LedgerNext /\ UNCHANGED paperVars
  <2>1. Stands BY <1>6, LedgerStep
  <2> QED BY <1>2, <1>6, <2>1, PapersBesideLedger
<1>7. CASE UNCHANGED <<ledgerVars, paperVars>>
  <2>1. [LedgerNext]_ledgerVars /\ UNCHANGED ledgerVars /\ UNCHANGED paperVars BY <1>7
  <2>2. Stands BY <2>1 DEF Stands, ClosedStands, BookedStands, Statement, Booked, ledgerVars
  <2> QED BY <1>2, <2>1, <2>2, PapersBesideLedger
<1> QED BY <1>4, <1>5, <1>6, <1>7 DEF PapersNext

\* What was entered or paid stands on a booked journal and was checked by another
\* than its maker, and an asset is written off by its entries, never beyond its
\* value, while the ledger reverses and edits journals (transition_expense,
\* depreciate_asset).
THEOREM PapersAreBackedAlways == PapersSpec => []PapersAreBacked
<1>1. LedgerInit /\ PaperInit => LedgerInv /\ PapersInv BY LedgerStart, PapersStart
<1>2. LedgerInv /\ PapersInv /\ [PapersNext]_<<ledgerVars, paperVars>> => (LedgerInv /\ PapersInv)'
  BY PapersStep
<1>3. LedgerInv /\ PapersInv => PapersAreBacked BY PapersTell
<1> QED BY <1>1, <1>2, <1>3, PTL DEF PapersSpec
-----------------------------------------------------------------------------
(***************************************************************************)
(* The costs.  A balance is explained by the records: by when it was last  *)
(* empty, and by the receipt its average was last rounded at.  A record    *)
(* that is appended leaves every earlier total as it was.                  *)
(***************************************************************************)
MovedIn(c, b, i) == c[i].at = b /\ c[i].reverses = 0
QtyCol(c, b) == [i \in 1..Len(c) |-> IF MovedIn(c, b, i) THEN c[i].qty ELSE 0]
CostCol(c, b, k) == [i \in 1..Len(c) |-> IF i > k /\ MovedIn(c, b, i) THEN c[i].cost ELSE 0]
QtyIn(c, b, n) == Total(QtyCol(c, b), n)
CostSince(c, b, k) == Total(CostCol(c, b, k), Len(c))

LEMMA ColsTyped ==
  ASSUME NEW c \in Seq(CostRow), NEW b, NEW k
  PROVE  /\ Len(c) \in Nat
         /\ QtyCol(c, b) \in [1..Len(c) -> Int] /\ CostCol(c, b, k) \in [1..Len(c) -> Int]
         /\ \A n \in 0..Len(c) : QtyIn(c, b, n) \in Int
         /\ CostSince(c, b, k) \in Int
<1>1. Len(c) \in Nat /\ \A i \in 1..Len(c) : c[i] \in CostRow OBVIOUS
<1>2. QtyCol(c, b) \in [1..Len(c) -> Int] /\ CostCol(c, b, k) \in [1..Len(c) -> Int]
  <2>1. \A i \in 1..Len(c) : c[i].qty \in Int /\ c[i].cost \in Int BY <1>1 DEF CostRow
  <2>2. QtyCol(c, b) \in [1..Len(c) -> Int] BY ONLY <2>1 DEF QtyCol
  <2>3. CostCol(c, b, k) \in [1..Len(c) -> Int] BY ONLY <2>1 DEF CostCol
  <2> QED BY <2>2, <2>3
<1>3. \A n \in 0..Len(c) : QtyIn(c, b, n) \in Int BY <1>1, <1>2, TotalStep DEF QtyIn
<1>4. CostSince(c, b, k) \in Int
  <2> DEFINE f == CostCol(c, b, k)
             L == Len(c)
  <2> HIDE DEF f, L
  <2>1. L \in Nat /\ f \in [1..L -> Int] BY <1>1, <1>2 DEF f, L
  <2>2. Total(f, L) \in Int BY <2>1, TotalType
  <2> QED BY <2>2 DEF CostSince, f, L
<1> QED BY <1>1, <1>2, <1>3, <1>4

\* What the totals become when one record is appended.
Grew(c, r, b) ==
  LET d == Append(c, r)
      moves == r.at = b /\ r.reverses = 0 IN
  /\ Len(d) = Len(c) + 1
  /\ \A n \in 0..Len(c) : QtyIn(d, b, n) = QtyIn(c, b, n)
  /\ QtyIn(d, b, Len(c) + 1) = QtyIn(c, b, Len(c)) + (IF moves THEN r.qty ELSE 0)
  /\ \A k \in 0..Len(c) : CostSince(d, b, k) = CostSince(c, b, k) + (IF moves THEN r.cost ELSE 0)
  /\ CostSince(d, b, Len(d)) = 0

LEMMA RecordAppended ==
  ASSUME NEW c \in Seq(CostRow), NEW r \in CostRow, NEW b
  PROVE  Grew(c, r, b)
<1> DEFINE d == Append(c, r)
           L == Len(c)
           moves == r.at = b /\ r.reverses = 0
<1>1. /\ d \in Seq(CostRow) /\ L \in Nat /\ Len(d) = L + 1
      /\ \A i \in 1..L : d[i] = c[i] /\ d[L + 1] = r
  OBVIOUS
<1>1a. d[L + 1] = r OBVIOUS
<1> HIDE DEF d
<1>2. \A i \in 1..L : MovedIn(d, b, i) = MovedIn(c, b, i) BY <1>1 DEF MovedIn
<1>3. MovedIn(d, b, L + 1) = moves BY <1>1a DEF MovedIn
<1>4. QtyCol(c, b) \in [1..L -> Int] /\ QtyCol(d, b) \in [1..(L + 1) -> Int]
  BY <1>1, ColsTyped
<1>5. /\ \A i \in 1..L : QtyCol(d, b)[i] = QtyCol(c, b)[i]
      /\ QtyCol(d, b)[L + 1] = IF moves THEN r.qty ELSE 0
  <2>1. ASSUME NEW i \in 1..L PROVE QtyCol(d, b)[i] = QtyCol(c, b)[i]
    <3>1. i \in 1..Len(d) /\ i \in 1..Len(c) /\ d[i] = c[i] BY <1>1
    <3> QED BY <1>2, <3>1 DEF QtyCol
  <2>2. QtyCol(d, b)[L + 1] = IF moves THEN r.qty ELSE 0
    <3>1. L + 1 \in 1..Len(d) BY <1>1
    <3> HIDE DEF L
    <3> QED BY <1>1a, <1>3, <3>1 DEF QtyCol
  <2> QED BY <2>1, <2>2
<1>6. ASSUME NEW n \in 0..L PROVE QtyIn(d, b, n) = QtyIn(c, b, n)
  <2>1. n \in 0..(L + 1) /\ n <= L BY <1>1
  <2>2. Total(QtyCol(c, b), n) = Total(QtyCol(d, b), n)
    <3> DEFINE f == QtyCol(c, b)
               g == QtyCol(d, b)
    <3>1. \A i \in 1..n : f[i] = g[i] BY <1>1, <1>5, <2>1
    <3>2. L + 1 \in Nat /\ n <= L + 1 BY <1>1, <2>1
    <3> HIDE DEF f, g, L
    <3>3. f \in [1..L -> Int] /\ g \in [1..(L + 1) -> Int] BY <1>4 DEF f, g
    <3> QED BY <1>1, <1>6, <3>1, <3>2, <3>3, TotalAgree DEF f, g
  <2> QED BY <2>2 DEF QtyIn
<1>7. QtyIn(d, b, L + 1) = QtyIn(c, b, L) + (IF moves THEN r.qty ELSE 0)
  <2>1. L + 1 \in Nat /\ L + 1 \in 1..(L + 1) /\ (L + 1) - 1 = L BY <1>1
  <2>2. Total(QtyCol(d, b), L + 1) = Total(QtyCol(d, b), L) + QtyCol(d, b)[L + 1]
    BY <1>4, <2>1, TotalStep
  <2>3. QtyIn(d, b, L) = QtyIn(c, b, L) BY <1>1, <1>6
  <2> QED BY <1>5, <2>2, <2>3 DEF QtyIn
<1>8. ASSUME NEW k \in 0..L
      PROVE  CostSince(d, b, k) = CostSince(c, b, k) + (IF moves THEN r.cost ELSE 0)
  <2> DEFINE f == CostCol(c, b, k)
             g == CostCol(d, b, k)
  <2>1. f \in [1..L -> Int] /\ g \in [1..(L + 1) -> Int] BY <1>1, ColsTyped
  <2>2. \A i \in 1..L : f[i] = g[i] BY <1>1, <1>2 DEF CostCol
  <2>3. g[L + 1] = IF moves THEN r.cost ELSE 0
    <3>1. L + 1 > k /\ L + 1 \in 1..Len(d) BY <1>1
    <3> QED BY <1>1a, <1>3, <3>1 DEF CostCol
  <2>4. Total(g, L + 1) = Total(f, L) + g[L + 1]
    <3>1. L + 1 \in Nat /\ L + 1 \in 1..(L + 1) /\ (L + 1) - 1 = L /\ L \in 0..L /\ L <= L + 1
      BY <1>1
    <3> HIDE DEF f, g, L
    <3>2. Total(g, L + 1) = Total(g, L) + g[L + 1] BY <2>1, <3>1, TotalStep
    <3>3. Total(f, L) = Total(g, L) BY <1>1, <2>1, <2>2, <3>1, TotalAgree
    <3> QED BY <3>2, <3>3
  <2> QED BY <1>1, <2>3, <2>4 DEF CostSince
<1>9. CostSince(d, b, Len(d)) = 0
  <2> DEFINE g == CostCol(d, b, Len(d))
  <2>1. g \in [1..Len(d) -> Int] /\ Len(d) \in Nat BY <1>1, ColsTyped
  <2>2. \A i \in 1..Len(d) : g[i] = 0 BY <1>1 DEF CostCol
  <2>3. Total(g, Len(d)) = 0
    <3> HIDE DEF g
    <3> QED BY <2>1, <2>2, TotalZero
  <2> QED BY <2>3 DEF CostSince
<1> QED BY <1>1, <1>6, <1>7, <1>8, <1>9 DEF Grew, d

LastEmpty(c, b, k) ==
  /\ k \in 0..Len(c) /\ QtyIn(c, b, k) = 0
  /\ \A m \in (k + 1)..Len(c) : QtyIn(c, b, m) # 0
LastIn(c, b, n) ==
  /\ n \in 1..Len(c) /\ MovedIn(c, b, n) /\ c[n].qty > 0
  /\ \A m \in (n + 1)..Len(c) : MovedIn(c, b, m) => c[m].qty < 0
Near(drift, bound) == 2 * drift <= bound /\ -bound <= 2 * drift

Explained(c, b, w) ==
  /\ w \in WorthRow /\ w.qty = QtyIn(c, b, Len(c))
  /\ w.qty = 0 => w.total = 0
  /\ \E k : LastEmpty(c, b, k) /\ w.total = CostSince(c, b, k)
  /\ w.qty > 0 => \E n : LastIn(c, b, n) /\ Near(w.total - w.average * w.qty, QtyIn(c, b, n))

\* The two records a choice names are the only ones there are.
LEMMA LastOnes ==
  ASSUME NEW c \in Seq(CostRow), NEW b
  PROVE  /\ \A k, l : LastEmpty(c, b, k) /\ LastEmpty(c, b, l) => k = l
         /\ \A k, l : LastIn(c, b, k) /\ LastIn(c, b, l) => k = l
<1>1. Len(c) \in Nat OBVIOUS
<1>2. ASSUME NEW k, NEW l, LastEmpty(c, b, k), LastEmpty(c, b, l) PROVE ~(k < l)
  <2>1. k \in 0..Len(c) /\ l \in 0..Len(c) /\ QtyIn(c, b, l) = 0 BY <1>2 DEF LastEmpty
  <2>2. k < l => l \in (k + 1)..Len(c) BY <1>1, <2>1
  <2> QED BY <1>2, <2>1, <2>2 DEF LastEmpty
<1>3. ASSUME NEW k, NEW l, LastIn(c, b, k), LastIn(c, b, l) PROVE ~(k < l)
  <2>1. /\ k \in 1..Len(c) /\ l \in 1..Len(c) /\ MovedIn(c, b, l) /\ c[l].qty > 0
        /\ c[l].qty \in Int
    <3>1. k \in 1..Len(c) /\ l \in 1..Len(c) /\ MovedIn(c, b, l) /\ c[l].qty > 0
      BY <1>3 DEF LastIn
    <3>2. c[l] \in CostRow BY <3>1
    <3> QED BY <3>1, <3>2 DEF CostRow
  <2>2. k < l => l \in (k + 1)..Len(c) BY <1>1, <2>1
  <2> QED BY <1>3, <2>1, <2>2 DEF LastIn
<1>4. ASSUME NEW k, NEW l, LastEmpty(c, b, k), LastEmpty(c, b, l) PROVE k = l
  <2>1. ~(k < l) /\ ~(l < k) BY <1>2, <1>4
  <2>2. k \in Int /\ l \in Int BY <1>1, <1>4 DEF LastEmpty
  <2> QED BY <2>1, <2>2
<1>5. ASSUME NEW k, NEW l, LastIn(c, b, k), LastIn(c, b, l) PROVE k = l
  <2>1. ~(k < l) /\ ~(l < k) BY <1>3, <1>5
  <2>2. k \in Int /\ l \in Int BY <1>1, <1>5 DEF LastIn
  <2> QED BY <2>1, <2>2
<1> QED BY <1>4, <1>5

\* What a record does to the two.
LEMMA LastEmptyAppended ==
  ASSUME NEW c \in Seq(CostRow), NEW r \in CostRow, NEW b, NEW k, LastEmpty(c, b, k)
  PROVE  LET d == Append(c, r) IN
         /\ QtyIn(d, b, Len(d)) # 0 => LastEmpty(d, b, k)
         /\ QtyIn(d, b, Len(d)) = 0 => LastEmpty(d, b, Len(d))
<1> DEFINE d == Append(c, r)
<1>1. /\ Len(d) = Len(c) + 1 /\ \A n \in 0..Len(c) : QtyIn(d, b, n) = QtyIn(c, b, n)
  BY RecordAppended DEF Grew
<1>2. Len(c) \in Nat OBVIOUS
<1> HIDE DEF d
<1>3. ASSUME QtyIn(d, b, Len(d)) # 0 PROVE LastEmpty(d, b, k)
  <2>1. k \in 0..Len(d) /\ QtyIn(d, b, k) = 0 BY <1>1, <1>2 DEF LastEmpty
  <2>2. ASSUME NEW m \in (k + 1)..Len(d) PROVE QtyIn(d, b, m) # 0
    <3>1. k \in 0..Len(c) BY DEF LastEmpty
    <3>2. CASE m = Len(d) BY <1>3, <3>2
    <3>3. CASE m # Len(d)
      <4>1. m \in (k + 1)..Len(c) /\ m \in 0..Len(c) BY <1>1, <1>2, <2>2, <3>1, <3>3
      <4> QED BY <1>1, <4>1 DEF LastEmpty
    <3> QED BY <3>2, <3>3
  <2> QED BY <2>1, <2>2 DEF LastEmpty
<1>4. ASSUME QtyIn(d, b, Len(d)) = 0 PROVE LastEmpty(d, b, Len(d))
  <2>1. Len(d) \in 0..Len(d) /\ (Len(d) + 1)..Len(d) = {} BY <1>1, <1>2
  <2> QED BY <1>4, <2>1 DEF LastEmpty
<1> QED BY <1>3, <1>4 DEF d

LEMMA LastInAppended ==
  ASSUME NEW c \in Seq(CostRow), NEW r \in CostRow, NEW b
  PROVE  LET d == Append(c, r)
             moves == r.at = b /\ r.reverses = 0 IN
         /\ moves /\ r.qty > 0 => LastIn(d, b, Len(d))
         /\ ~(moves /\ r.qty > 0) => \A n : LastIn(c, b, n) => LastIn(d, b, n)
<1> DEFINE d == Append(c, r)
           moves == r.at = b /\ r.reverses = 0
<1>1. /\ Len(d) = Len(c) + 1 /\ Len(c) \in Nat /\ d[Len(c) + 1] = r
      /\ \A i \in 1..Len(c) : d[i] = c[i]
  OBVIOUS
<1>2. r.qty \in Int \ {0} BY DEF CostRow
<1> HIDE DEF d
<1>3. \A i \in 1..Len(c) : MovedIn(d, b, i) = MovedIn(c, b, i) BY <1>1 DEF MovedIn
<1>4. MovedIn(d, b, Len(d)) = moves BY <1>1 DEF MovedIn
<1>5. ASSUME moves, r.qty > 0 PROVE LastIn(d, b, Len(d))
  <2>1. Len(d) \in 1..Len(d) /\ (Len(d) + 1)..Len(d) = {} BY <1>1
  <2> QED BY <1>1, <1>4, <1>5, <2>1 DEF LastIn
<1>6. ASSUME ~(moves /\ r.qty > 0), NEW n, LastIn(c, b, n) PROVE LastIn(d, b, n)
  <2>1. n \in 1..Len(c) /\ MovedIn(c, b, n) /\ c[n].qty > 0 BY <1>6 DEF LastIn
  <2>2. n \in 1..Len(d) /\ MovedIn(d, b, n) /\ d[n].qty > 0 BY <1>1, <1>3, <2>1
  <2>3. ASSUME NEW m \in (n + 1)..Len(d), MovedIn(d, b, m) PROVE d[m].qty < 0
    <3>1. CASE m = Len(d)
      <4>1. moves /\ d[m] = r BY <1>1, <1>4, <2>3, <3>1
      <4>2. ~(r.qty > 0) BY <1>6, <4>1
      <4> QED BY <1>2, <4>1, <4>2
    <3>2. CASE m # Len(d)
      <4>1. m \in (n + 1)..Len(c) /\ m \in 1..Len(c) BY <1>1, <2>1, <2>3, <3>2
      <4> QED BY <1>1, <1>3, <1>6, <2>3, <4>1 DEF LastIn
    <3> QED BY <3>1, <3>2
  <2> QED BY <2>2, <2>3 DEF LastIn
<1> QED BY <1>5, <1>6 DEF d

\* The rounding of a receipt is at most half a unit for each piece.
LEMMA RoundedIsNear ==
  ASSUME NEW total \in Nat, NEW n \in Nat \ {0}
  PROVE  Rounded(total, n) \in Nat /\ Near(total - Rounded(total, n) * n, n)
<1> DEFINE x == 2 * total + n
           y == 2 * n
           q == x \div y
<1>1. x \in Nat /\ y \in Nat \ {0} OBVIOUS
<1>2. q \in Nat /\ q * y <= x /\ x < q * y + y
  <2> HIDE DEF x, y
  <2> QED BY <1>1
<1>3. Rounded(total, n) = q BY DEF Rounded
<1> HIDE DEF q
<1>4. q * y = 2 * (q * n) BY <1>2
<1>5. q * n \in Int BY <1>2
<1> DEFINE z == q * n
<1>6. 2 * z <= x /\ x < 2 * z + y /\ z \in Int BY <1>2, <1>4, <1>5
<1> HIDE DEF z
<1>7. Near(total - z, n) BY <1>6 DEF Near
<1> QED BY <1>2, <1>3, <1>7 DEF z

\* A balance stays explained when a record is appended and the balance follows it.
LEMMA ExplainedAppended ==
  ASSUME NEW c \in Seq(CostRow), NEW r \in CostRow, NEW b, NEW w, NEW v \in WorthRow,
         NEW moves \in BOOLEAN, moves = (r.at = b /\ r.reverses = 0), Explained(c, b, w),
         v.qty = w.qty + (IF moves THEN r.qty ELSE 0),
         v.qty = 0 => v.total = 0,
         v.qty > 0 => v.total = w.total + (IF moves THEN r.cost ELSE 0),
         v.qty > 0 /\ moves /\ r.qty > 0 => Near(v.total - v.average * v.qty, v.qty),
         v.qty > 0 /\ ~(moves /\ r.qty > 0) =>
           w.qty > 0 /\ v.total - v.average * v.qty = w.total - w.average * w.qty
  PROVE  Explained(Append(c, r), b, v)
<1> DEFINE d == Append(c, r)
<1>1. /\ Len(d) = Len(c) + 1 /\ \A n \in 0..Len(c) : QtyIn(d, b, n) = QtyIn(c, b, n)
      /\ QtyIn(d, b, Len(c) + 1) = QtyIn(c, b, Len(c)) + (IF moves THEN r.qty ELSE 0)
      /\ \A k \in 0..Len(c) : CostSince(d, b, k) = CostSince(c, b, k) + (IF moves THEN r.cost ELSE 0)
      /\ CostSince(d, b, Len(d)) = 0
  BY RecordAppended DEF Grew
<1>2. v.qty \in Nat /\ Len(c) \in Nat BY DEF WorthRow
<1>3. PICK k : LastEmpty(c, b, k) /\ w.total = CostSince(c, b, k) BY DEF Explained
<1>4. /\ QtyIn(d, b, Len(d)) # 0 => LastEmpty(d, b, k)
      /\ QtyIn(d, b, Len(d)) = 0 => LastEmpty(d, b, Len(d))
  BY <1>3, LastEmptyAppended
<1>5. /\ moves /\ r.qty > 0 => LastIn(d, b, Len(d))
      /\ ~(moves /\ r.qty > 0) => \A n : LastIn(c, b, n) => LastIn(d, b, n)
  BY LastInAppended
<1> HIDE DEF d
<1>6. v.qty = QtyIn(d, b, Len(d)) BY <1>1 DEF Explained
<1>7. \E l : LastEmpty(d, b, l) /\ v.total = CostSince(d, b, l)
  <2>1. CASE v.qty = 0 BY <1>1, <1>4, <1>6, <2>1
  <2>2. CASE v.qty > 0
    <3>1. k \in 0..Len(c) BY <1>3 DEF LastEmpty
    <3>2. LastEmpty(d, b, k) BY <1>4, <1>6, <2>2
    <3>3. v.total = CostSince(d, b, k) BY <1>1, <1>3, <2>2, <3>1
    <3> QED BY <3>2, <3>3
  <2> QED BY <1>2, <2>1, <2>2
<1>8. ASSUME v.qty > 0
      PROVE  \E n : LastIn(d, b, n) /\ Near(v.total - v.average * v.qty, QtyIn(d, b, n))
  <2>1. CASE moves /\ r.qty > 0
    <3>1. LastIn(d, b, Len(d)) BY <1>5, <2>1
    <3>2. Near(v.total - v.average * v.qty, QtyIn(d, b, Len(d))) BY <1>6, <1>8, <2>1
    <3> QED BY <3>1, <3>2
  <2>2. CASE ~(moves /\ r.qty > 0)
    <3>1. PICK n : LastIn(c, b, n) /\ Near(w.total - w.average * w.qty, QtyIn(c, b, n))
      BY <1>8, <2>2 DEF Explained
    <3>2. LastIn(d, b, n) BY <1>5, <2>2, <3>1
    <3>3. n \in 0..Len(c) BY <1>2, <3>1 DEF LastIn
    <3>4. QtyIn(d, b, n) = QtyIn(c, b, n) BY <1>1, <3>3
    <3>5. Near(v.total - v.average * v.qty, QtyIn(d, b, n)) BY <1>8, <2>2, <3>1, <3>4
    <3> QED BY <3>2, <3>5
  <2> QED BY <2>1, <2>2
<1> QED BY <1>6, <1>7, <1>8 DEF Explained, d

\* A record is reversed once, in full.
ReversedOnce(c) ==
  \A i \in 1..Len(c) :
    /\ c[i].reverses < i
    /\ c[i].reverses # 0 =>
         /\ c[i].qty = -c[c[i].reverses].qty /\ c[i].cost = -c[c[i].reverses].cost
         /\ \A j \in (1..Len(c)) \ {i} : c[j].reverses # c[i].reverses

LEMMA ReversalAppended ==
  ASSUME NEW c \in Seq(CostRow), NEW r \in CostRow, ReversedOnce(c), r.reverses \in 0..Len(c),
         r.reverses # 0 =>
           /\ r.qty = -c[r.reverses].qty /\ r.cost = -c[r.reverses].cost
           /\ \A j \in 1..Len(c) : c[j].reverses # r.reverses
  PROVE  ReversedOnce(Append(c, r))
<1> DEFINE d == Append(c, r)
           L == Len(c)
<1>1. /\ Len(d) = L + 1 /\ L \in Nat /\ d[L + 1] = r
      /\ \A i \in 1..L : d[i] = c[i] /\ c[i] \in CostRow
  OBVIOUS
<1>2. \A i \in 1..L : c[i].reverses \in Nat /\ c[i].reverses < i BY <1>1 DEF ReversedOnce, CostRow
<1> HIDE DEF d, L
<1>3. ASSUME NEW i \in 1..L, c[i].reverses # 0
      PROVE  /\ d[i].qty = -d[d[i].reverses].qty /\ d[i].cost = -d[d[i].reverses].cost
             /\ \A j \in (1..(L + 1)) \ {i} : d[j].reverses # d[i].reverses
  <2>1. d[i] = c[i] /\ c[i].reverses \in 1..L BY <1>1, <1>2, <1>3
  <2>2. d[c[i].reverses] = c[c[i].reverses] BY <1>1, <2>1
  <2>3. /\ c[i].qty = -c[c[i].reverses].qty /\ c[i].cost = -c[c[i].reverses].cost
        /\ \A j \in (1..L) \ {i} : c[j].reverses # c[i].reverses
    BY <1>3 DEF ReversedOnce, L
  <2>4. r.reverses # c[i].reverses
    <3>1. CASE r.reverses = 0 BY <1>3, <3>1
    <3>2. CASE r.reverses # 0 BY <3>2 DEF L
    <3> QED BY <3>1, <3>2
  <2>5. ASSUME NEW j \in (1..(L + 1)) \ {i} PROVE d[j].reverses # d[i].reverses
    <3>1. CASE j = L + 1 BY <1>1, <2>1, <2>4, <3>1 DEF L
    <3>2. CASE j # L + 1
      <4>1. j \in (1..L) \ {i} BY <1>1, <3>2
      <4> QED BY <1>1, <2>1, <2>3, <4>1
    <3> QED BY <3>1, <3>2
  <2> QED BY <2>1, <2>2, <2>3, <2>5
<1>4. ASSUME r.reverses # 0
      PROVE  /\ r.qty = -d[r.reverses].qty /\ r.cost = -d[r.reverses].cost
             /\ \A j \in 1..L : d[j].reverses # r.reverses
  <2>1. r.reverses \in 1..L BY <1>4 DEF L
  <2>2. d[r.reverses] = c[r.reverses] BY <1>1, <2>1
  <2> QED BY <1>1, <1>4, <2>2 DEF L
<1>5. \A i \in 1..(L + 1) : i \in 1..L \/ i = L + 1 BY <1>1
<1>6. \A i \in 1..L : d[i].reverses < i BY <1>1, <1>2
<1>7. r.reverses < L + 1 BY <1>1 DEF L
<1>8. ASSUME NEW i \in 1..(L + 1)
      PROVE  /\ d[i].reverses < i
             /\ d[i].reverses # 0 =>
                  /\ d[i].qty = -d[d[i].reverses].qty /\ d[i].cost = -d[d[i].reverses].cost
                  /\ \A j \in (1..(L + 1)) \ {i} : d[j].reverses # d[i].reverses
  <2>1. CASE i \in 1..L BY <1>1, <1>3, <1>6, <2>1
  <2>2. CASE i = L + 1
    <3>1. d[i] = r /\ d[i].reverses < i BY <1>1, <1>7, <2>2
    <3>2. \A j \in (1..(L + 1)) \ {i} : j \in 1..L BY <1>5, <2>2
    <3> QED BY <1>4, <3>1, <3>2
  <2> QED BY <1>5, <2>1, <2>2
<1> QED BY <1>1, <1>8 DEF ReversedOnce, d

CostsInv ==
  /\ worth \in [CostBalances -> WorthRow] /\ costs \in Seq(CostRow)
  /\ pieceCost \in [Pieces -> Nat \cup {NoCost}]
  /\ ReversedOnce(costs)
  /\ \A b \in CostBalances : Explained(costs, b, worth[b])

LEMMA CostsTell == ASSUME CostsInv PROVE CostsAreExplained
<1>1. costs \in Seq(CostRow) /\ Len(costs) \in Nat BY DEF CostsInv
<1>2. \A i \in CostIds : costs[i] \in CostRow BY <1>1 DEF CostIds
<1>3. CostTypeOK BY <1>2 DEF CostsInv, CostTypeOK, ReversedOnce, CostIds
<1>4. \A b, n : QtyUpTo(b, n) = QtyIn(costs, b, n)
  BY DEF QtyUpTo, QtyIn, QtyCol, CostIds, Moved, MovedIn
<1>5. \A b : Emptied(b) = CHOOSE n \in 0..Len(costs) : LastEmpty(costs, b, n)
  <2> TAKE b
  <2>1. \A n \in 0..Len(costs) :
          (QtyUpTo(b, n) = 0 /\ \A m \in (n + 1)..Len(costs) : QtyUpTo(b, m) # 0)
            <=> LastEmpty(costs, b, n)
    BY <1>4 DEF LastEmpty
  <2> QED BY <2>1 DEF Emptied
<1>6. \A b : LastReceipt(b) = CHOOSE n \in CostIds : LastIn(costs, b, n)
  <2> TAKE b
  <2>1. \A n \in CostIds :
          (/\ Moved(b, n) /\ costs[n].qty > 0
           /\ \A m \in (n + 1)..Len(costs) : Moved(b, m) => costs[m].qty < 0)
            <=> LastIn(costs, b, n)
    BY DEF LastIn, CostIds, Moved, MovedIn
  <2> QED BY <2>1 DEF LastReceipt
<1>7. ASSUME NEW b \in CostBalances
      PROVE  LET since == {i \in CostIds : i > Emptied(b) /\ Moved(b, i)}
                 w == worth[b] IN
             /\ w.qty = QtyUpTo(b, Len(costs))
             /\ w.total = Total([i \in CostIds |-> IF i \in since THEN costs[i].cost ELSE 0], Len(costs))
             /\ w.qty > 0 =>
                  LET drift == w.total - w.average * w.qty
                      bound == QtyUpTo(b, LastReceipt(b)) IN
                  2 * drift <= bound /\ -bound <= 2 * drift
  <2> DEFINE w == worth[b]
             since == {i \in CostIds : i > Emptied(b) /\ Moved(b, i)}
  <2>1. Explained(costs, b, w) BY DEF CostsInv
  <2>2. PICK k : LastEmpty(costs, b, k) /\ w.total = CostSince(costs, b, k) BY <2>1 DEF Explained
  <2>3. Emptied(b) = k
    <3>1. k \in 0..Len(costs) BY <2>2 DEF LastEmpty
    <3>2. LastEmpty(costs, b, Emptied(b)) BY <1>5, <2>2, <3>1
    <3> QED BY <1>1, <2>2, <3>2, LastOnes
  <2>4. CostCol(costs, b, k) = [i \in CostIds |-> IF i \in since THEN costs[i].cost ELSE 0]
    BY <2>3 DEF CostCol, CostIds, Moved, MovedIn
  <2>5. ASSUME w.qty > 0 PROVE Near(w.total - w.average * w.qty, QtyUpTo(b, LastReceipt(b)))
    <3>1. PICK n : LastIn(costs, b, n) /\ Near(w.total - w.average * w.qty, QtyIn(costs, b, n))
      BY <2>1, <2>5 DEF Explained
    <3>2. n \in CostIds BY <3>1 DEF LastIn, CostIds
    <3>3. LastIn(costs, b, LastReceipt(b)) BY <1>6, <3>1, <3>2
    <3>4. LastReceipt(b) = n BY <1>1, <3>1, <3>3, LastOnes
    <3> QED BY <1>4, <3>1, <3>4
  <2>6. w.qty = QtyUpTo(b, Len(costs)) BY <1>4, <2>1 DEF Explained
  <2>7. w.total = Total([i \in CostIds |-> IF i \in since THEN costs[i].cost ELSE 0], Len(costs))
    BY <2>2, <2>4 DEF CostSince
  <2> QED BY <2>5, <2>6, <2>7 DEF Near
<1>8. \A i \in CostIds : costs[i].reverses # 0 =>
        /\ costs[i].qty = -costs[costs[i].reverses].qty
        /\ costs[i].cost = -costs[costs[i].reverses].cost
        /\ \A j \in CostIds \ {i} : costs[j].reverses # costs[i].reverses
  BY DEF CostsInv, ReversedOnce, CostIds
<1> QED BY <1>3, <1>7, <1>8 DEF CostsAreExplained

LEMMA CostsStart == ASSUME CostInit PROVE CostsInv
<1>1. /\ worth = [b \in CostBalances |-> [qty |-> 0, total |-> 0, average |-> 0]]
      /\ costs = <<>> /\ pieceCost = [p \in Pieces |-> NoCost]
  BY DEF CostInit
<1>2. costs \in Seq(CostRow) /\ Len(costs) = 0 BY <1>1
<1>3. ASSUME NEW b \in CostBalances PROVE Explained(costs, b, worth[b])
  <2>1. worth[b] \in WorthRow /\ worth[b].qty = 0 /\ worth[b].total = 0 BY <1>1 DEF WorthRow
  <2>2. /\ QtyCol(costs, b) \in [1..0 -> Int] /\ CostCol(costs, b, 0) \in [1..0 -> Int]
    BY <1>2, ColsTyped
  <2>3. QtyIn(costs, b, 0) = 0 BY <2>2, TotalStep DEF QtyIn
  <2>4. CostSince(costs, b, 0) = 0 BY <1>2, <2>2, TotalStep DEF CostSince
  <2>5. LastEmpty(costs, b, 0) BY <1>2, <2>3 DEF LastEmpty
  <2> QED BY <1>2, <2>1, <2>3, <2>4, <2>5 DEF Explained
<1>4. ReversedOnce(costs) BY <1>2 DEF ReversedOnce
<1>5. worth \in [CostBalances -> WorthRow] BY <1>1 DEF WorthRow
<1> QED BY <1>1, <1>2, <1>3, <1>4, <1>5 DEF CostsInv

\* A record of another balance, or a reversal, moves nothing.
LEMMA OthersExplained ==
  ASSUME CostsInv, NEW r \in CostRow, NEW b \in CostBalances, ~(r.at = b /\ r.reverses = 0)
  PROVE  Explained(Append(costs, r), b, worth[b])
<1> DEFINE w == worth[b]
           moves == r.at = b /\ r.reverses = 0
<1>1. costs \in Seq(CostRow) /\ Explained(costs, b, w) BY DEF CostsInv
<1>2. w \in WorthRow /\ (w.qty = 0 => w.total = 0) BY <1>1 DEF Explained
<1>3. moves \in BOOLEAN /\ ~moves OBVIOUS
<1>4. w.qty \in Nat /\ w.total \in Nat BY <1>2 DEF WorthRow
<1> HIDE DEF w, moves
<1>5. /\ w.qty = w.qty + (IF moves THEN r.qty ELSE 0)
      /\ w.qty > 0 => w.total = w.total + (IF moves THEN r.cost ELSE 0)
      /\ ~(moves /\ r.qty > 0)
  BY <1>3, <1>4
<1>6. moves = (r.at = b /\ r.reverses = 0) BY DEF moves
<1>7. Explained(Append(costs, r), b, w) BY <1>1, <1>2, <1>3, <1>5, <1>6, ExplainedAppended
<1> QED BY <1>7 DEF w

\* A record is appended with its balance, or a reversal without.
LEMMA CostWritten ==
  ASSUME CostsInv, NEW r \in CostRow, costs' = Append(costs, r), UNCHANGED pieceCost,
         worth' \in [CostBalances -> WorthRow], r.reverses \in 0..Len(costs),
         r.reverses # 0 =>
           /\ r.qty = -costs[r.reverses].qty /\ r.cost = -costs[r.reverses].cost
           /\ \A j \in CostIds : costs[j].reverses # r.reverses,
         \A b \in CostBalances :
           \/ worth'[b] = worth[b] /\ ~(r.at = b /\ r.reverses = 0)
           \/ Explained(Append(costs, r), b, worth'[b])
  PROVE  CostsInv'
<1>1. costs \in Seq(CostRow) /\ costs' \in Seq(CostRow) BY DEF CostsInv
<1>2. ReversedOnce(Append(costs, r)) BY <1>1, ReversalAppended DEF CostsInv, CostIds
<1>3. \A b \in CostBalances : Explained(costs', b, worth'[b])
  <2> TAKE b \in CostBalances
  <2>1. CASE worth'[b] = worth[b] /\ ~(r.at = b /\ r.reverses = 0)
    <3>1. Explained(Append(costs, r), b, worth[b]) BY <2>1, OthersExplained
    <3> QED BY <2>1, <3>1
  <2>2. CASE Explained(Append(costs, r), b, worth'[b]) BY <2>2
  <2> QED BY <2>1, <2>2
<1>4. ReversedOnce(costs') BY <1>2
<1> QED BY <1>1, <1>3, <1>4 DEF CostsInv, Explained, LastEmpty, LastIn, ReversedOnce

LEMMA CostReceived ==
  ASSUME CostsInv, NEW b \in CostBalances, NEW p \in Purchases, ReceiveCost(b, p.qty, p.cost)
  PROVE  CostsInv'
<1> DEFINE w == worth[b]
           total == w.total + p.cost
           n == w.qty + p.qty
           v == [qty |-> n, total |-> total, average |-> Rounded(total, n)]
           r == [at |-> b, qty |-> p.qty, cost |-> p.cost, reverses |-> 0]
<1>1. /\ worth' = [worth EXCEPT ![b] = v] /\ costs' = Append(costs, r) /\ UNCHANGED pieceCost
  BY DEF ReceiveCost, AppendCost
<1>2. p.qty \in Nat \ {0} /\ p.cost \in Nat \ {0} BY CostAssumption
<1>3. costs \in Seq(CostRow) /\ Explained(costs, b, w) BY DEF CostsInv
<1>4. w.qty \in Nat /\ w.total \in Nat BY <1>3 DEF Explained, WorthRow
<1>5. total \in Nat /\ n \in Nat \ {0} BY <1>2, <1>4
<1>6. Rounded(total, n) \in Nat /\ Near(total - Rounded(total, n) * n, n)
  <2> HIDE DEF total, n
  <2> QED BY <1>5, RoundedIsNear
<1>7. /\ v \in WorthRow /\ v.qty = n /\ v.total = total /\ v.average = Rounded(total, n)
  <2> HIDE DEF total, n
  <2> QED BY <1>5, <1>6 DEF WorthRow
<1>8. r \in CostRow /\ r.qty = p.qty /\ r.cost = p.cost /\ r.at = b /\ r.reverses = 0
  BY <1>2 DEF CostRow
<1>9. /\ v.qty = w.qty + r.qty /\ v.total = w.total + r.cost /\ v.qty > 0 /\ r.qty > 0
  BY <1>2, <1>5, <1>7, <1>8
<1>10. Near(v.total - v.average * v.qty, v.qty) BY <1>6, <1>7
<1> DEFINE moves == r.at = b /\ r.reverses = 0
<1>11. moves \in BOOLEAN /\ moves BY <1>8
<1> HIDE DEF v, r, w, moves
<1>12. moves = (r.at = b /\ r.reverses = 0) BY DEF moves
<1>13. Explained(Append(costs, r), b, v)
  <2>1. /\ v.qty = w.qty + (IF moves THEN r.qty ELSE 0)
        /\ v.qty = 0 => v.total = 0
        /\ v.qty > 0 => v.total = w.total + (IF moves THEN r.cost ELSE 0)
        /\ ~(v.qty > 0 /\ ~(moves /\ r.qty > 0))
    BY <1>9, <1>11
  <2> QED BY <1>3, <1>7, <1>8, <1>10, <1>11, <1>12, <2>1, ExplainedAppended
<1>14. worth \in [CostBalances -> WorthRow] BY DEF CostsInv
<1>15. worth' \in [CostBalances -> WorthRow] BY <1>1, <1>7, <1>14
<1>16. \A c \in CostBalances :
         \/ worth'[c] = worth[c] /\ ~(r.at = c /\ r.reverses = 0)
         \/ Explained(Append(costs, r), c, worth'[c])
  BY <1>1, <1>8, <1>13, <1>14
<1>17. r.reverses \in 0..Len(costs) BY <1>3, <1>8
<1> QED BY <1>1, <1>8, <1>15, <1>16, <1>17, CostWritten

LEMMA CostIssued ==
  ASSUME CostsInv, NEW b \in CostBalances, NEW qty \in IssuedQty, IssueCost(b, qty)
  PROVE  CostsInv'
<1> DEFINE w == worth[b]
           v == AfterIssue(w, qty)
           r == [at |-> b, qty |-> -qty, cost |-> -w.average * qty, reverses |-> 0]
<1>1. /\ qty <= w.qty /\ w.average > 0 /\ v.total >= 0
      /\ worth' = [worth EXCEPT ![b] = v] /\ costs' = Append(costs, r) /\ UNCHANGED pieceCost
  BY DEF IssueCost, AppendCost
<1>2. qty \in Nat \ {0} BY CostAssumption
<1>3. costs \in Seq(CostRow) /\ Explained(costs, b, w) BY DEF CostsInv
<1>4. w \in WorthRow BY <1>3 DEF Explained
<1>5. w.qty \in Nat /\ w.total \in Nat /\ w.average \in Nat \ {0} BY <1>1, <1>4 DEF WorthRow
<1> DEFINE a == w.average
           x == w.average * qty
<1>6. a \in Nat \ {0} /\ x \in Nat \ {0} /\ -a * qty = -x
  <2> HIDE DEF w
  <2> QED BY <1>2, <1>5
<1>7. r \in CostRow /\ r.qty = -qty /\ r.cost = -x /\ r.at = b /\ r.reverses = 0
  <2>1. -qty \in Int \ {0} /\ -x \in Int \ {0} /\ r.cost = -x BY <1>2, <1>6
  <2> HIDE DEF x, w
  <2> QED BY <2>1 DEF CostRow
<1>8. \/ v = [qty |-> 0, total |-> 0, average |-> 0] /\ w.qty = qty
      \/ v = [w EXCEPT !.qty = w.qty - qty, !.total = w.total - x] /\ w.qty # qty
  BY DEF AfterIssue
<1>9. /\ v \in WorthRow /\ v.qty = w.qty - qty
      /\ v.qty = 0 => v.total = 0
      /\ v.qty > 0 => v.total = w.total - x /\ v.average = a /\ w.qty > 0
  <2>1. CASE v = [qty |-> 0, total |-> 0, average |-> 0] /\ w.qty = qty
    BY <1>2, <2>1 DEF WorthRow
  <2>2. CASE v = [w EXCEPT !.qty = w.qty - qty, !.total = w.total - x] /\ w.qty # qty
    <3> HIDE DEF v, x
    <3>0. w.qty # qty BY <2>2
    <3>1. w.qty - qty \in Nat /\ w.qty - qty # 0 /\ w.total - x \in Int
      <4> HIDE DEF w
      <4> QED BY <1>1, <1>2, <1>5, <1>6, <3>0
    <3>2. v.total = w.total - x /\ v.qty = w.qty - qty /\ v.average = a BY <1>4, <2>2 DEF WorthRow
    <3>3. w.total - x \in Nat BY <1>1, <3>1, <3>2
    <3>4. v \in WorthRow BY <1>4, <2>2, <3>1, <3>3 DEF WorthRow
    <3> QED BY <1>1, <1>2, <1>5, <3>1, <3>2, <3>4
  <2> QED BY <1>8, <2>1, <2>2
<1>10. v.qty > 0 => v.total - v.average * v.qty = w.total - w.average * w.qty
  <2> SUFFICES ASSUME v.qty > 0 PROVE v.total - v.average * v.qty = w.total - w.average * w.qty
    OBVIOUS
  <2>1. v.average * v.qty = a * (w.qty - qty) BY <1>9
  <2> DEFINE m == w.qty
             t == w.total
  <2>2. m \in Nat /\ t \in Nat BY <1>5
  <2>3. v.total = t - x BY <1>9
  <2> HIDE DEF a, m, t
  <2>4. a * (m - qty) = a * m - a * qty BY <1>2, <1>6, <2>2
  <2>5. x = a * qty BY DEF a
  <2> HIDE DEF x, v
  <2>6. a * m \in Int /\ a * qty \in Int BY <1>2, <1>6, <2>2
  <2>7. (t - x) - (a * m - a * qty) = t - a * m BY <2>2, <2>5, <2>6
  <2>8. v.average * v.qty = a * m - a * qty BY <2>1, <2>4 DEF m
  <2> QED BY <2>3, <2>7, <2>8 DEF a, m, t
<1> DEFINE moves == r.at = b /\ r.reverses = 0
<1>11. moves \in BOOLEAN /\ moves BY <1>7
<1> HIDE DEF v, r, w, moves, x
<1>12. moves = (r.at = b /\ r.reverses = 0) BY DEF moves
<1>13. v.qty = w.qty + r.qty /\ (v.qty > 0 => v.total = w.total + r.cost) /\ ~(r.qty > 0)
  BY <1>2, <1>5, <1>6, <1>7, <1>9
<1>14. Explained(Append(costs, r), b, v)
  BY <1>3, <1>7, <1>9, <1>10, <1>11, <1>12, <1>13, ExplainedAppended
<1>15. worth \in [CostBalances -> WorthRow] BY DEF CostsInv
<1>16. worth' \in [CostBalances -> WorthRow] BY <1>1, <1>9, <1>15
<1>17. \A c \in CostBalances :
         \/ worth'[c] = worth[c] /\ ~(r.at = c /\ r.reverses = 0)
         \/ Explained(Append(costs, r), c, worth'[c])
  BY <1>1, <1>7, <1>14, <1>15
<1>18. r.reverses \in 0..Len(costs) BY <1>3, <1>7
<1> QED BY <1>1, <1>7, <1>16, <1>17, <1>18, CostWritten

LEMMA CostReversed ==
  ASSUME CostsInv, NEW i \in CostIds, ReverseCost(i)
  PROVE  CostsInv'
<1> DEFINE r == [at |-> costs[i].at, qty |-> -costs[i].qty, cost |-> -costs[i].cost, reverses |-> i]
<1>1. /\ \A j \in CostIds : costs[j].reverses # i
      /\ costs' = Append(costs, r) /\ UNCHANGED <<worth, pieceCost>>
  BY DEF ReverseCost, AppendCost
<1>2. costs \in Seq(CostRow) /\ i \in 1..Len(costs) BY DEF CostsInv, CostIds
<1>3. costs[i] \in CostRow BY <1>2
<1>4. /\ r \in CostRow /\ r.reverses = i /\ r.qty = -costs[i].qty /\ r.cost = -costs[i].cost
  <2> DEFINE c == costs[i]
  <2>1. c \in CostRow /\ i \in Nat BY <1>2, <1>3
  <2> HIDE DEF c
  <2>2. c.at \in CostBalances /\ c.qty \in Int \ {0} /\ c.cost \in Int BY ONLY <2>1 DEF CostRow
  <2>3. -c.qty \in Int \ {0} /\ -c.cost \in Int BY ONLY <2>2
  <2>4. r = [at |-> c.at, qty |-> -c.qty, cost |-> -c.cost, reverses |-> i] BY DEF c
  <2> HIDE DEF r
  <2>5. r \in CostRow BY ONLY <2>1, <2>2, <2>3, <2>4 DEF CostRow
  <2> QED BY <2>4, <2>5 DEF c
<1> HIDE DEF r
<1>5. r.reverses \in 0..Len(costs) /\ r.reverses # 0 BY <1>2, <1>4
<1>6. worth' \in [CostBalances -> WorthRow] BY <1>1 DEF CostsInv
<1>7. \A b \in CostBalances : worth'[b] = worth[b] /\ ~(r.at = b /\ r.reverses = 0)
  BY <1>1, <1>5
<1> QED BY <1>1, <1>4, <1>5, <1>6, <1>7, CostWritten

LEMMA CostsStep ==
  ASSUME CostsInv, [CostNext]_costVars
  PROVE  CostsInv'
<1>1. ASSUME NEW p \in Pieces, NEW cost \in PieceCosts, AssignCost(p, cost) PROVE CostsInv'
  <2>1. /\ pieceCost' = [pieceCost EXCEPT ![p] = cost] /\ UNCHANGED <<worth, costs>>
    BY <1>1 DEF AssignCost
  <2>2. pieceCost' \in [Pieces -> Nat \cup {NoCost}] BY <2>1, CostAssumption DEF CostsInv
  <2> QED BY <2>1, <2>2 DEF CostsInv, Explained, LastEmpty, LastIn, ReversedOnce
<1>2. CASE UNCHANGED costVars
  BY <1>2 DEF CostsInv, Explained, LastEmpty, LastIn, ReversedOnce, costVars
<1> QED BY <1>1, <1>2, CostReceived, CostIssued, CostReversed DEF CostNext

\* A balance is what its records say since it was last empty, its average is as
\* near to the amount as the rounding of the last receipt, and a record is
\* reversed once, in full (receive_weighted_cost, issue_weighted_cost,
\* reverse_cost_record).
THEOREM CostsAreExplainedAlways == CostSpec => []CostsAreExplained
BY CostsStart, CostsStep, CostsTell, PTL DEF CostSpec
=============================================================================
