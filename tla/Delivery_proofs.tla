--------------------------- MODULE Delivery_proofs ---------------------------
(***************************************************************************)
(* Numbered goods, warehouse tasks, returns and refunds, for any number of *)
(* pools, pieces, order lines, shipments, tasks, cases and keys.  The      *)
(* parts share the serials, the stock and what an order line counts; each  *)
(* has an invariant of its own, and PartMoves says which steps reach it.   *)
(***************************************************************************)
EXTENDS Delivery, Totals_proofs

SerialsMove == MakingNext \/ HoldingNext \/ ShippingNext
Receiving == \E c \in Cases, k \in ReturnKeys, a \in ReturnQty, b \in ReturnQty : Receive(c, k, a, b)
CaseMoves ==
  \E c \in Cases :
    \/ Submit(c) \/ CompleteCase(c)
    \/ \E actor \in Staff, approved \in BOOLEAN : ApproveCase(c, actor, approved)

\* A task moves a shipment by a step the shipment could take itself.
LEMMA TasksMoveShipments ==
  ASSUME TasksNext
  PROVE  (ShippingNext /\ UNCHANGED stockVars) \/ UNCHANGED serialVars
<1> PICK t \in Tasks :
      \/ ReleaseTask(t) \/ CompleteTask(t) \/ OpenTaskForm(t) \/ SaveTaskForm(t)
      \/ \E k \in ScanKeys, v \in DOMAIN serial \cup {SkuCode}, n \in ScanQty : RecordScan(t, k, v, n)
  BY DEF TasksNext
<1> DEFINE d == TaskDelivery[t]
<1>1. TaskType[t] # "putaway" => d \in Deliveries BY TasksAssumption
<1>2. {"start_picking", "complete_picking", "verify"} \subseteq DOMAIN Step BY DEF Step
<1>3. CASE ReleaseTask(t)
  <2>1. CASE TaskType[t] = "pick"
    <3>1. MoveDelivery(d, delivery[d].version, "start_picking") BY <1>3, <2>1 DEF ReleaseTask
    <3> HIDE DEF d
    <3>2. ShippingNext BY <1>1, <1>2, <2>1, <3>1 DEF ShippingNext
    <3> QED BY <1>3, <3>2 DEF ReleaseTask
  <2>2. CASE TaskType[t] # "pick" BY <1>3, <2>2 DEF ReleaseTask
  <2> QED BY <2>1, <2>2
<1>4. CASE CompleteTask(t)
  <2>1. CASE TaskType[t] # "putaway"
    <3> DEFINE a == IF TaskType[t] = "pick" THEN "complete_picking" ELSE "verify"
    <3>1. MoveDelivery(d, delivery[d].version, a) /\ UNCHANGED stockVars
      BY <1>4, <2>1 DEF CompleteTask
    <3>2. a \in DOMAIN Step BY <1>2
    <3> HIDE DEF d, a
    <3>3. ShippingNext BY <1>1, <2>1, <3>1, <3>2 DEF ShippingNext
    <3> QED BY <3>1, <3>3
  <2>2. CASE TaskType[t] = "putaway" BY <1>4, <2>2 DEF CompleteTask
  <2> QED BY <2>1, <2>2
<1> QED BY <1>3, <1>4 DEF OpenTaskForm, SaveTaskForm, RecordScan

\* A step of Delivery, as each part sees it.
LEMMA PartMoves ==
  ASSUME [DeliveryNext]_deliveryVars
  PROVE  /\ SerialsMove \/ Receiving \/ UNCHANGED serialVars
         /\ \/ TasksNext /\ UNCHANGED ownAfter
            \/ UNCHANGED ownTasks /\ (Receiving \/ UNCHANGED <<stockVars, receipt>>)
         /\ Receiving \/ CaseMoves \/ UNCHANGED case
         /\ RefundsNext \/ UNCHANGED refundVars
<1>1. CASE UNCHANGED deliveryVars
  BY <1>1 DEF deliveryVars, ownTasks, ownAfter, refundVars
<1>2. CASE (MakingNext \/ HoldingNext \/ ShippingNext) /\ UNCHANGED <<stockVars, ownTasks, ownAfter>>
  BY <1>2 DEF SerialsMove, ownTasks, ownAfter, refundVars
<1>3. CASE TasksNext /\ UNCHANGED ownAfter
  BY <1>3, TasksMoveShipments DEF SerialsMove, ownAfter, refundVars
<1>4. CASE ReturnsNext /\ UNCHANGED ownTasks
  <2>1. ASSUME NEW c \in Cases, Submit(c) \/ CompleteCase(c)
        PROVE  UNCHANGED <<serialVars, stockVars, receipt, refundVars>> /\ CaseMoves
    <3>1. CaseMoves BY <2>1 DEF CaseMoves
    <3> QED BY <2>1, <3>1 DEF Submit, CompleteCase
  <2>2. ASSUME NEW c \in Cases, NEW actor \in Staff, NEW ok \in BOOLEAN, ApproveCase(c, actor, ok)
        PROVE  UNCHANGED <<serialVars, stockVars, receipt, refundVars>> /\ CaseMoves
    <3>1. CaseMoves BY <2>2 DEF CaseMoves
    <3> QED BY <2>2, <3>1 DEF ApproveCase
  <2>3. ASSUME NEW c \in Cases, NEW k \in ReturnKeys, NEW a \in ReturnQty, NEW b \in ReturnQty,
               Receive(c, k, a, b)
        PROVE  Receiving /\ UNCHANGED refundVars
    <3>1. Receiving BY <2>3 DEF Receiving
    <3>2. UNCHANGED refundVars BY <2>3 DEF Receive
    <3> QED BY <3>1, <3>2
  <2>4. \/ UNCHANGED <<serialVars, stockVars, receipt, refundVars>> /\ CaseMoves
        \/ Receiving /\ UNCHANGED refundVars
    BY <1>4, <2>1, <2>2, <2>3 DEF ReturnsNext
  <2> QED BY <1>4, <2>4
<1>5. CASE RefundsNext /\ UNCHANGED ownTasks
  BY <1>5 DEF RefundsNext
<1> QED BY <1>1, <1>2, <1>3, <1>4, <1>5 DEF DeliveryNext
-----------------------------------------------------------------------------
(***************************************************************************)
(* Pieces: what one step does to their rows, and that the rows stay typed. *)
(***************************************************************************)
Statuses == {"waiting_production", "in_production", "in_stock", "reserved",
  "picked", "shipped", "ng", "waiting_rework", "waiting_reproduction", "scrapped", "void"}

LEMMA StatusRow ==
  ASSUME NEW r \in SerialRow, NEW x \in Statuses
  PROVE  LET n == [r EXCEPT !.status = x] IN n \in SerialRow /\ n.pool = r.pool /\ n.status = x
BY DEF SerialRow, Statuses

\* One piece changes its status.
LEMMA SerialSet ==
  ASSUME \A s \in DOMAIN serial : serial[s] \in SerialRow,
         NEW s \in DOMAIN serial, NEW x \in Statuses, SetSerial(s, x)
  PROVE  /\ DOMAIN serial' = DOMAIN serial
         /\ \A r \in DOMAIN serial :
              /\ serial'[r] \in SerialRow /\ serial'[r].pool = serial[r].pool
              /\ serial'[r].status = IF r = s THEN x ELSE serial[r].status
<1>1. serial' = [serial EXCEPT ![s] = [serial[s] EXCEPT !.status = x]] BY DEF SetSerial
<1> QED BY <1>1, StatusRow

\* The pieces of a shipment do, with their assignments.
LEMMA Carried ==
  ASSUME SerialsTypeOK, NEW d, NEW x \in {"picked", "shipped"}, Carry(d, x)
  PROVE  /\ DOMAIN serial' = DOMAIN serial /\ DOMAIN parcel' = DOMAIN parcel
         /\ \A s \in DOMAIN serial :
              /\ serial'[s] \in SerialRow /\ serial'[s].pool = serial[s].pool
              /\ serial'[s].status = IF s \in Parcels(d) THEN x ELSE serial[s].status
         /\ \A s \in DOMAIN parcel :
              /\ parcel'[s] \in ParcelRow /\ parcel'[s].hold = parcel[s].hold
              /\ parcel'[s].delivery = parcel[s].delivery
              /\ parcel'[s].status = IF s \in Parcels(d) THEN x ELSE parcel[s].status
<1>1. serial' = [s \in DOMAIN serial |->
                   IF s \in Parcels(d) THEN [serial[s] EXCEPT !.status = x] ELSE serial[s]]
  BY DEF Carry
<1>2. parcel' = [s \in DOMAIN parcel |->
                   IF s \in Parcels(d) THEN [parcel[s] EXCEPT !.status = x] ELSE parcel[s]]
  BY DEF Carry
<1>3. x \in Statuses BY DEF Statuses
<1>4. \A s \in DOMAIN serial : serial[s] \in SerialRow BY DEF SerialsTypeOK
<1>5. \A s \in DOMAIN serial :
        /\ serial'[s] \in SerialRow /\ serial'[s].pool = serial[s].pool
        /\ serial'[s].status = IF s \in Parcels(d) THEN x ELSE serial[s].status
  BY <1>1, <1>3, <1>4, StatusRow
<1>6. \A r \in ParcelRow : LET n == [r EXCEPT !.status = x] IN
        n \in ParcelRow /\ n.hold = r.hold /\ n.delivery = r.delivery /\ n.status = x
  BY DEF ParcelRow
<1>7. \A s \in DOMAIN parcel : parcel[s] \in ParcelRow BY DEF SerialsTypeOK
<1>8. \A s \in DOMAIN parcel :
        /\ parcel'[s] \in ParcelRow /\ parcel'[s].hold = parcel[s].hold
        /\ parcel'[s].delivery = parcel[s].delivery
        /\ parcel'[s].status = IF s \in Parcels(d) THEN x ELSE parcel[s].status
  BY <1>2, <1>6, <1>7
<1> QED BY <1>1, <1>2, <1>5, <1>8

\* What the types of the other tables say of the serials and the reservations
\* only asks that those stay in their tables.
LEMMA TypesKept ==
  ASSUME SerialsTypeOK, DOMAIN serial \subseteq DOMAIN serial', DOMAIN hold \subseteq DOMAIN hold'
  PROVE  /\ \A k \in DOMAIN attempt : attempt[k] \in AttemptRow'
         /\ \A k \in DOMAIN hold : hold[k] \in HoldRow'
         /\ \A s \in DOMAIN parcel : parcel[s] \in ParcelRow'
BY DEF SerialsTypeOK, AttemptRow, HoldRow, ParcelRow

\* A free number exists beyond any that was given out: the last one chosen.
LEMMA MaxExists ==
  ASSUME NEW S, IsFiniteSet(S), S \subseteq Int, S # {}
  PROVE  Max(S) \in S /\ \A x \in S : x <= Max(S)
<1> DEFINE Q == {T \in SUBSET S : T # {} => \E m \in T : \A x \in T : x <= m}
<1>1. {} \in Q OBVIOUS
<1>2. ASSUME NEW T \in SUBSET S, NEW y \in S, T \in Q, y \notin T
      PROVE  T \cup {y} \in Q
  <2>1. CASE T = {} BY <1>2, <2>1
  <2>2. CASE T # {}
    <3>1. PICK m \in T : \A x \in T : x <= m BY <1>2, <2>2
    <3>2. CASE y <= m BY <3>1, <3>2
    <3>3. CASE m <= y
      <4>1. \A x \in T \cup {y} : x <= y BY <3>1, <3>3
      <4> QED BY <4>1
    <3> QED BY <3>1, <3>2, <3>3
  <2> QED BY <2>1, <2>2
<1> HIDE DEF Q
<1>3. S \in Q BY <1>1, <1>2, FiniteInduction
<1>4. \E m \in S : \A x \in S : m >= x BY <1>3 DEF Q
<1> QED BY <1>4 DEF Max

\* The batch Generate makes: finite, of free numbers from the next one on.
Batch(p, n) == {<<Rule[p].label, i>> : i \in Chosen(p, n)}

LEMMA BatchIsFree ==
  ASSUME NEW p \in Pools, NEW n \in Batches, pool[p] \in PoolRow, n > 0,
         Cardinality(Batch(p, n)) = n
  PROVE  /\ IsFiniteSet(Batch(p, n)) /\ Max(Chosen(p, n)) \in Nat
         /\ Max(Chosen(p, n)) + 1 \in Nat /\ Max(Chosen(p, n)) >= pool[p].next
         /\ \A s \in Batch(p, n) : /\ s[2] \in Nat /\ s[2] \notin Rule[p].excluded
                                   /\ s[2] <= Max(Chosen(p, n))
<1> DEFINE C == Chosen(p, n)
           from == IF pool[p].next > Rule[p].start THEN pool[p].next ELSE Rule[p].start
           F == [i \in C |-> <<Rule[p].label, i>>]
<1>1. Rule[p].start \in Nat /\ Rule[p].maximum \in Nat /\ pool[p].next \in Nat
  BY SerialsAssumption DEF PoolRow
<1>2. from \in Nat /\ from >= pool[p].next BY <1>1
<1>3. C \subseteq from..Rule[p].maximum /\ \A i \in C : i \notin Rule[p].excluded
  BY DEF Chosen, Free
<1>4. IsFiniteSet(from..Rule[p].maximum)
  <2> HIDE DEF from
  <2> QED BY <1>1, <1>2, FS_Interval
<1>5. IsFiniteSet(C) BY <1>3, <1>4, FS_Subset
<1>6. IsFiniteSet(Batch(p, n))
  <2>1. F \in Surjection(C, Batch(p, n)) BY DEF Surjection, Batch
  <2> HIDE DEF F, C
  <2> QED BY <1>5, <2>1, FS_Surjection
<1>7. C # {}
  <2>1. SUFFICES ASSUME C = {} PROVE FALSE OBVIOUS
  <2>2. Batch(p, n) = {} BY <2>1 DEF Batch
  <2>3. Cardinality({}) = 0 BY FS_EmptySet
  <2> QED BY <2>2, <2>3
<1>8. Max(C) \in C /\ \A i \in C : i <= Max(C)
  <2>1. C \subseteq Int BY <1>2, <1>3
  <2> HIDE DEF C
  <2> QED BY <1>5, <1>7, <2>1, MaxExists
<1>9. \A i \in C : i \in Nat /\ i >= pool[p].next BY <1>1, <1>2, <1>3
<1> HIDE DEF C
<1>10. \A s \in Batch(p, n) : \E i \in C : s[2] = i BY DEF Batch, C
<1>11. /\ Max(C) \in Nat /\ Max(C) + 1 \in Nat /\ Max(C) >= pool[p].next
       /\ \A s \in Batch(p, n) : s[2] \in Nat /\ s[2] \notin Rule[p].excluded /\ s[2] <= Max(C)
  BY <1>3, <1>8, <1>9, <1>10
<1> QED BY <1>6, <1>11 DEF C

LEMMA MakingTyped ==
  ASSUME SerialsTypeOK, IsFiniteSet(DOMAIN attempt), MakingNext
  PROVE  SerialsTypeOK'
<1>1. ASSUME NEW p \in Pools, ActivatePool(p) PROVE SerialsTypeOK'
  <2>1. pool' = [pool EXCEPT ![p] = [pool[p] EXCEPT !.status = "active", !.next = Rule[p].start]]
        /\ UNCHANGED <<serial, attempt, hold, parcel, sold, delivery>>
    BY <1>1 DEF ActivatePool
  <2>2. \A r \in PoolRow : [r EXCEPT !.status = "active", !.next = Rule[p].start] \in PoolRow
    BY SerialsAssumption DEF PoolRow
  <2>3. pool' \in [Pools -> PoolRow] BY <2>1, <2>2 DEF SerialsTypeOK
  <2> QED BY <2>1, <2>3, TypesKept DEF SerialsTypeOK
<1>2. ASSUME NEW p \in Pools, NEW n \in Batches, Generate(p, n) PROVE SerialsTypeOK'
  <2> DEFINE m == Max(Chosen(p, n)) + 1
             fresh == Batch(p, n)
  <2>1. /\ n > 0 /\ Cardinality(fresh) = n
        /\ serial' = [s \in DOMAIN serial \cup fresh |->
             IF s \in fresh THEN [pool |-> p, status |-> "waiting_production"] ELSE serial[s]]
        /\ pool' = [pool EXCEPT ![p] = [pool[p] EXCEPT !.next = m, !.allocated = @ + n]]
        /\ UNCHANGED <<attempt, hold, parcel, sold, delivery>>
    BY <1>2 DEF Generate, Batch
  <2>2. pool[p] \in PoolRow BY DEF SerialsTypeOK
  <2>3. m \in Nat BY <2>1, <2>2, BatchIsFree
  <2>4. n \in Nat BY SerialsAssumption
  <2> HIDE DEF m, fresh
  <2>5. \A r \in PoolRow, a \in Nat : [r EXCEPT !.next = m, !.allocated = a] \in PoolRow
    BY <2>3 DEF PoolRow
  <2>6. pool' \in [Pools -> PoolRow]
    <3>1. pool[p].allocated + n \in Nat BY <2>2, <2>4 DEF PoolRow
    <3> QED BY <2>1, <2>2, <2>5, <3>1 DEF SerialsTypeOK
  <2>7. [pool |-> p, status |-> "waiting_production"] \in SerialRow BY DEF SerialRow
  <2>8. DOMAIN serial \subseteq DOMAIN serial' /\ \A s \in DOMAIN serial' : serial'[s] \in SerialRow
    BY <2>1, <2>7 DEF SerialsTypeOK
  <2> QED BY <2>1, <2>6, <2>8, TypesKept DEF SerialsTypeOK
<1>3. ASSUME NEW s \in DOMAIN serial, NEW k \in AttemptKeys, StartProduction(s, k)
      PROVE  SerialsTypeOK'
  <2> DEFINE row == [serial |-> s, no |-> Cardinality(AttemptsOf(s)) + 1, result |-> "in_progress"]
  <2>1. /\ attempt' = [y \in DOMAIN attempt \cup {k} |-> IF y = k THEN row ELSE attempt[y]]
        /\ SetSerial(s, "in_production") /\ UNCHANGED <<pool, hold, parcel, sold, delivery>>
    BY <1>3 DEF StartProduction, With
  <2>2. /\ DOMAIN serial' = DOMAIN serial
        /\ \A r \in DOMAIN serial : serial'[r] \in SerialRow
    BY <2>1, SerialSet DEF SerialsTypeOK, Statuses
  <2>3. row \in AttemptRow'
    <3>1. IsFiniteSet(AttemptsOf(s)) BY FS_Subset DEF AttemptsOf
    <3>2. Cardinality(AttemptsOf(s)) + 1 \in Nat BY <3>1, FS_CardinalityType
    <3> QED BY <2>2, <3>2 DEF AttemptRow
  <2> HIDE DEF row
  <2>4. \A y \in DOMAIN attempt' : attempt'[y] \in AttemptRow' BY <2>1, <2>2, <2>3, TypesKept
  <2> QED BY <2>1, <2>2, <2>4, TypesKept DEF SerialsTypeOK
<1>4. ASSUME NEW s \in DOMAIN serial, NEW x \in Statuses, DisposeNg(s, x) PROVE SerialsTypeOK'
  <2>1. SetSerial(s, x) /\ UNCHANGED <<pool, attempt, hold, parcel, sold, delivery>>
    BY <1>4 DEF DisposeNg
  <2>2. /\ DOMAIN serial' = DOMAIN serial
        /\ \A r \in DOMAIN serial : serial'[r] \in SerialRow
    BY <2>1, SerialSet DEF SerialsTypeOK
  <2> QED BY <2>1, <2>2, TypesKept DEF SerialsTypeOK
<1>5. ASSUME NEW k \in DOMAIN attempt, NEW result \in {"good", "ng"}, CompleteAttempt(k, result)
      PROVE  SerialsTypeOK'
  <2> DEFINE s == attempt[k].serial
             p == serial[s].pool
             x == IF result = "good" THEN "in_stock" ELSE "ng"
  <2>1. /\ attempt' = [attempt EXCEPT ![k] = [attempt[k] EXCEPT !.result = result]]
        /\ SetSerial(s, x)
        /\ pool' = [pool EXCEPT ![p] = [pool[p] EXCEPT !.good = IF result = "good" THEN @ + 1 ELSE @]]
        /\ UNCHANGED <<hold, parcel, sold, delivery>>
    BY <1>5 DEF CompleteAttempt
  <2>2. s \in DOMAIN serial /\ x \in Statuses BY DEF SerialsTypeOK, AttemptRow, Statuses
  <2>3. p \in Pools BY <2>2 DEF SerialsTypeOK, SerialRow
  <2> HIDE DEF s, p, x
  <2>4. /\ DOMAIN serial' = DOMAIN serial
        /\ \A r \in DOMAIN serial : serial'[r] \in SerialRow
    BY <2>1, <2>2, SerialSet DEF SerialsTypeOK
  <2>5. \A r \in PoolRow : [r EXCEPT !.good = IF result = "good" THEN @ + 1 ELSE @] \in PoolRow
    BY DEF PoolRow
  <2>6. pool' \in [Pools -> PoolRow] BY <2>1, <2>3, <2>5 DEF SerialsTypeOK
  <2>7. \A r \in AttemptRow : [r EXCEPT !.result = result] \in AttemptRow BY DEF AttemptRow
  <2>8. AttemptRow' = AttemptRow BY <2>4 DEF AttemptRow
  <2>9. \A y \in DOMAIN attempt' : attempt'[y] \in AttemptRow'
    BY <2>1, <2>7, <2>8 DEF SerialsTypeOK
  <2> QED BY <2>1, <2>4, <2>6, <2>9, TypesKept DEF SerialsTypeOK
<1>6. \A t \in {"waiting_rework", "waiting_reproduction", "scrapped", "void"} : t \in Statuses
  BY DEF Statuses
<1> QED BY <1>1, <1>2, <1>3, <1>4, <1>5, <1>6 DEF MakingNext

LEMMA HoldingTyped ==
  ASSUME SerialsTypeOK, HoldingNext
  PROVE  SerialsTypeOK'
<1>1. ASSUME NEW l \in SoldLines, NEW k \in ReserveKeys, NEW s \in DOMAIN serial, Hold(l, k, s)
      PROVE  SerialsTypeOK'
  <2> DEFINE row == [serial |-> s, line |-> l, status |-> "active"]
  <2>1. /\ hold' = [y \in DOMAIN hold \cup {k} |-> IF y = k THEN row ELSE hold[y]]
        /\ SetSerial(s, "reserved") /\ UNCHANGED <<pool, attempt, parcel, sold, delivery>>
    BY <1>1 DEF Hold, With
  <2>2. /\ DOMAIN serial' = DOMAIN serial
        /\ \A r \in DOMAIN serial : serial'[r] \in SerialRow
    BY <2>1, SerialSet DEF SerialsTypeOK, Statuses
  <2>3. row \in HoldRow' BY <2>2 DEF HoldRow
  <2> HIDE DEF row
  <2>4. DOMAIN hold \subseteq DOMAIN hold' BY <2>1
  <2>5. \A y \in DOMAIN hold' : hold'[y] \in HoldRow' BY <2>1, <2>2, <2>3, <2>4, TypesKept
  <2> QED BY <2>1, <2>2, <2>4, <2>5, TypesKept DEF SerialsTypeOK
<1>2. ASSUME NEW k \in DOMAIN hold, ReleaseHold(k) PROVE SerialsTypeOK'
  <2> DEFINE s == hold[k].serial
  <2>1. /\ hold' = [hold EXCEPT ![k] = [hold[k] EXCEPT !.status = "released"]]
        /\ SetSerial(s, "in_stock") /\ UNCHANGED <<pool, attempt, parcel, sold, delivery>>
    BY <1>2 DEF ReleaseHold
  <2>2. s \in DOMAIN serial /\ "in_stock" \in Statuses BY DEF SerialsTypeOK, HoldRow, Statuses
  <2> HIDE DEF s
  <2>3. /\ DOMAIN serial' = DOMAIN serial
        /\ \A r \in DOMAIN serial : serial'[r] \in SerialRow
    BY <2>1, <2>2, SerialSet DEF SerialsTypeOK
  <2>4. \A r \in HoldRow : [r EXCEPT !.status = "released"] \in HoldRow BY DEF HoldRow
  <2>5. HoldRow' = HoldRow BY <2>3 DEF HoldRow
  <2>6. DOMAIN hold' = DOMAIN hold /\ \A y \in DOMAIN hold' : hold'[y] \in HoldRow'
    BY <2>1, <2>4, <2>5 DEF SerialsTypeOK
  <2> QED BY <2>1, <2>3, <2>6, TypesKept DEF SerialsTypeOK
<1>3. ASSUME NEW k \in DOMAIN hold, NEW d \in Deliveries, Assign(k, d) PROVE SerialsTypeOK'
  <2> DEFINE row == [hold |-> k, delivery |-> d, status |-> "assigned"]
             s == hold[k].serial
  <2>1. /\ parcel' = [y \in DOMAIN parcel \cup {s} |-> IF y = s THEN row ELSE parcel[y]]
        /\ UNCHANGED <<pool, serial, attempt, hold, sold, delivery>>
    BY <1>3 DEF Assign, With
  <2>2. row \in ParcelRow BY DEF ParcelRow
  <2> HIDE DEF row, s
  <2>3. ParcelRow' = ParcelRow BY <2>1 DEF ParcelRow
  <2>4. \A y \in DOMAIN parcel' : parcel'[y] \in ParcelRow' BY <2>1, <2>2, <2>3 DEF SerialsTypeOK
  <2> QED BY <2>1, <2>4, TypesKept DEF SerialsTypeOK
<1>4. \A l, k : \A busy \in SUBSET DOMAIN serial :
        AutoHold(l, k, busy) => \E s \in DOMAIN serial : Hold(l, k, s)
  BY DEF AutoHold
<1> QED BY <1>1, <1>2, <1>3, <1>4 DEF HoldingNext

LEMMA ShippingTyped ==
  ASSUME SerialsTypeOK, ShippingNext
  PROVE  SerialsTypeOK'
<1>1. ASSUME NEW d, NEW x \in {"picked", "shipped"}, Carry(d, x)
      PROVE  /\ DOMAIN serial' = DOMAIN serial /\ (\A s \in DOMAIN serial' : serial'[s] \in SerialRow)
             /\ \A s \in DOMAIN parcel' : parcel'[s] \in ParcelRow
  BY <1>1, Carried
<1>2. ASSUME NEW d \in Deliveries, NEW v, NEW a \in DOMAIN Step, MoveDelivery(d, v, a)
      PROVE  SerialsTypeOK'
  <2>1. UNCHANGED <<pool, attempt, hold, sold>> BY <1>2 DEF MoveDelivery
  <2>2. Carry(d, "picked") \/ UNCHANGED <<serial, parcel>> BY <1>2 DEF MoveDelivery
  <2>3. /\ DOMAIN serial' = DOMAIN serial /\ (\A s \in DOMAIN serial' : serial'[s] \in SerialRow)
        /\ \A s \in DOMAIN parcel' : parcel'[s] \in ParcelRow
    BY <1>1, <2>2 DEF SerialsTypeOK
  <2>4. ParcelRow' = ParcelRow BY <2>1 DEF ParcelRow
  <2> QED BY <2>1, <2>3, <2>4, TypesKept DEF SerialsTypeOK
<1>3. ASSUME NEW d \in Deliveries, ShipDelivery(d) PROVE SerialsTypeOK'
  <2> DEFINE l == LineOf[d]
             n == sold[l].shipped + DeliveredQty[d]
  <2>1. /\ sold' = [sold EXCEPT ![l] = [sold[l] EXCEPT !.shipped = n]]
        /\ UNCHANGED <<pool, attempt>>
    BY <1>3 DEF ShipDelivery
  <2>2. l \in SoldLines /\ DeliveredQty[d] \in Nat BY SerialsAssumption
  <2>3. \A r \in SoldRow, m \in Nat : [r EXCEPT !.shipped = m] \in SoldRow BY DEF SoldRow
  <2>4. n \in Nat BY <2>2 DEF SerialsTypeOK, SoldRow
  <2> HIDE DEF l, n
  <2>5. sold' \in [SoldLines -> SoldRow] BY <2>1, <2>2, <2>3, <2>4 DEF SerialsTypeOK
  <2>6. CASE UNCHANGED <<serial, parcel, hold>>
    BY <2>1, <2>5, <2>6, TypesKept DEF SerialsTypeOK
  <2>7. CASE /\ Carry(d, "shipped")
             /\ hold' = [k \in DOMAIN hold |->
                           IF \E s \in Parcels(d) : parcel[s].hold = k
                           THEN [hold[k] EXCEPT !.status = "consumed"] ELSE hold[k]]
    <3>1. \A r \in HoldRow : [r EXCEPT !.status = "consumed"] \in HoldRow BY DEF HoldRow
    <3>2. DOMAIN hold' = DOMAIN hold /\ \A k \in DOMAIN hold' : hold'[k] \in HoldRow
      BY <2>7, <3>1 DEF SerialsTypeOK
    <3>3. /\ DOMAIN serial' = DOMAIN serial /\ (\A s \in DOMAIN serial' : serial'[s] \in SerialRow)
          /\ \A s \in DOMAIN parcel' : parcel'[s] \in ParcelRow
      BY <1>1, <2>7
    <3>4. ParcelRow' = ParcelRow /\ HoldRow' = HoldRow BY <3>2, <3>3 DEF ParcelRow, HoldRow
    <3> QED BY <2>1, <2>5, <3>2, <3>3, <3>4, TypesKept DEF SerialsTypeOK
  <2> QED BY <1>3, <2>6, <2>7 DEF ShipDelivery
<1>4. ASSUME NEW l \in SoldLines, CancelLine(l) PROVE SerialsTypeOK'
  <2>1. /\ sold' = [sold EXCEPT ![l] = [sold[l] EXCEPT !.cancelled = SoldQty[l]]]
        /\ UNCHANGED <<pool, serial, attempt, hold, parcel, delivery>>
    BY <1>4 DEF CancelLine
  <2>2. \A r \in SoldRow : [r EXCEPT !.cancelled = SoldQty[l]] \in SoldRow
    BY SerialsAssumption DEF SoldRow
  <2>3. sold' \in [SoldLines -> SoldRow] BY <2>1, <2>2 DEF SerialsTypeOK
  <2> QED BY <2>1, <2>3, TypesKept DEF SerialsTypeOK
<1> QED BY <1>2, <1>3, <1>4 DEF ShippingNext

LEMMA ReceivingTyped ==
  ASSUME SerialsTypeOK, Receiving
  PROVE  SerialsTypeOK'
<1> PICK c \in Cases, k \in ReturnKeys, a \in ReturnQty, b \in ReturnQty : Receive(c, k, a, b)
  BY DEF Receiving
<1> DEFINE l == CaseLine[c]
           n == Returns(l, a + b)
<1>1. /\ sold' = [sold EXCEPT ![l] = [sold[l] EXCEPT !.returned = n]]
      /\ UNCHANGED <<pool, serial, attempt, hold, parcel, delivery>>
  BY DEF Receive
<1>2. l \in SoldLines /\ a \in Nat /\ b \in Nat BY AfterSalesAssumption
<1>3. n \in Nat BY <1>2 DEF Returns, SerialsTypeOK, SoldRow
<1>4. \A r \in SoldRow, m \in Nat : [r EXCEPT !.returned = m] \in SoldRow BY DEF SoldRow
<1> HIDE DEF l, n
<1>5. sold' \in [SoldLines -> SoldRow] BY <1>1, <1>2, <1>3, <1>4 DEF SerialsTypeOK
<1> QED BY <1>1, <1>5, TypesKept DEF SerialsTypeOK

\* Rows are added one at a time, or a batch at a time, and none is deleted.
RowsInv ==
  /\ SerialsTypeOK
  /\ IsFiniteSet(DOMAIN serial) /\ IsFiniteSet(DOMAIN attempt) /\ IsFiniteSet(DOMAIN hold)

LEMMA RowsStart == ASSUME DeliveryInit PROVE RowsInv
<1> PICK made \in SUBSET Made : SerialsInit(made)
  BY DEF DeliveryInit
<1>1. IsFiniteSet(made) BY FS_Subset, DeliveryAssumption
<1>2. /\ DOMAIN serial = made /\ DOMAIN attempt = made /\ DOMAIN hold = {} /\ DOMAIN parcel = {}
  BY DEF SerialsInit
<1>3. pool \in [Pools -> PoolRow]
  <2>1. Cardinality(made) \in Nat BY <1>1, FS_CardinalityType
  <2>2. \A p \in Pools : Rule[p].maximum + 1 \in Nat BY SerialsAssumption
  <2> QED BY <2>1, <2>2 DEF SerialsInit, PoolRow
<1>4. /\ \A s \in DOMAIN serial : serial[s] \in SerialRow
      /\ \A k \in DOMAIN attempt : attempt[k] \in AttemptRow
  BY <1>2, SerialsAssumption DEF SerialsInit, SerialRow, AttemptRow
<1>5. sold \in [SoldLines -> SoldRow] BY DEF SerialsInit, SoldRow
<1>6. IsFiniteSet({}) BY FS_EmptySet
<1> QED BY <1>1, <1>2, <1>3, <1>4, <1>5, <1>6 DEF RowsInv, SerialsTypeOK

LEMMA RowsGrow ==
  ASSUME RowsInv, SerialsMove
  PROVE  /\ DOMAIN serial \subseteq DOMAIN serial'
         /\ IsFiniteSet(DOMAIN serial') /\ IsFiniteSet(DOMAIN attempt') /\ IsFiniteSet(DOMAIN hold')
<1> DEFINE P == /\ DOMAIN serial \subseteq DOMAIN serial'
                /\ IsFiniteSet(DOMAIN serial') /\ IsFiniteSet(DOMAIN attempt')
                /\ IsFiniteSet(DOMAIN hold')
<1> SUFFICES P OBVIOUS
<1>1. IsFiniteSet(DOMAIN serial) /\ IsFiniteSet(DOMAIN attempt) /\ IsFiniteSet(DOMAIN hold)
  BY DEF RowsInv
<1>2. ASSUME DOMAIN serial' = DOMAIN serial, UNCHANGED <<attempt, hold>> PROVE P BY <1>1, <1>2
<1>3. \A s, x : SetSerial(s, x) => DOMAIN serial' = DOMAIN serial BY DEF SetSerial
<1>4. ASSUME NEW p \in Pools, ActivatePool(p) PROVE P BY <1>2, <1>4 DEF ActivatePool
<1>5. ASSUME NEW p \in Pools, NEW n \in Batches, Generate(p, n) PROVE P
  <2>1. /\ n > 0 /\ Cardinality(Batch(p, n)) = n /\ UNCHANGED <<attempt, hold>>
        /\ DOMAIN serial' = DOMAIN serial \cup Batch(p, n)
    BY <1>5 DEF Generate, Batch
  <2>2. pool[p] \in PoolRow BY DEF RowsInv, SerialsTypeOK
  <2>3. IsFiniteSet(Batch(p, n)) BY <2>1, <2>2, BatchIsFree
  <2>4. IsFiniteSet(DOMAIN serial \cup Batch(p, n)) BY <1>1, <2>3, FS_Union
  <2> QED BY <1>1, <2>1, <2>4
<1>6. ASSUME NEW s, NEW k, StartProduction(s, k) PROVE P
  <2>1. DOMAIN serial' = DOMAIN serial BY <1>3, <1>6 DEF StartProduction
  <2>2. DOMAIN attempt' = DOMAIN attempt \cup {k} /\ UNCHANGED hold
    BY <1>6 DEF StartProduction, With
  <2>3. IsFiniteSet(DOMAIN attempt \cup {k}) BY <1>1, FS_AddElement
  <2> QED BY <1>1, <2>1, <2>2, <2>3
<1>7. ASSUME NEW s, NEW x, DisposeNg(s, x) PROVE P BY <1>2, <1>3, <1>7 DEF DisposeNg
<1>8. ASSUME NEW k, NEW result, CompleteAttempt(k, result) PROVE P
  <2>1. DOMAIN serial' = DOMAIN serial BY <1>3, <1>8 DEF CompleteAttempt
  <2>2. DOMAIN attempt' = DOMAIN attempt /\ UNCHANGED hold BY <1>8 DEF CompleteAttempt
  <2> QED BY <1>1, <2>1, <2>2
<1>9. ASSUME NEW l, NEW k, NEW s, Hold(l, k, s) PROVE P
  <2>1. DOMAIN serial' = DOMAIN serial BY <1>3, <1>9 DEF Hold
  <2>2. DOMAIN hold' = DOMAIN hold \cup {k} /\ UNCHANGED attempt BY <1>9 DEF Hold, With
  <2>3. IsFiniteSet(DOMAIN hold \cup {k}) BY <1>1, FS_AddElement
  <2> QED BY <1>1, <2>1, <2>2, <2>3
<1>10. ASSUME NEW k, ReleaseHold(k) PROVE P
  <2>1. DOMAIN serial' = DOMAIN serial BY <1>3, <1>10 DEF ReleaseHold
  <2>2. DOMAIN hold' = DOMAIN hold /\ UNCHANGED attempt BY <1>10 DEF ReleaseHold
  <2> QED BY <1>1, <2>1, <2>2
<1>11. ASSUME NEW k, NEW d, Assign(k, d) PROVE P BY <1>2, <1>11 DEF Assign
<1>12. ASSUME NEW d, NEW v, NEW a, MoveDelivery(d, v, a) PROVE P
  BY <1>2, <1>12 DEF MoveDelivery, Carry
<1>13. ASSUME NEW d, ShipDelivery(d) PROVE P
  <2>1. DOMAIN serial' = DOMAIN serial BY <1>13 DEF ShipDelivery, Carry
  <2>2. DOMAIN hold' = DOMAIN hold /\ UNCHANGED attempt BY <1>13 DEF ShipDelivery
  <2> QED BY <1>1, <2>1, <2>2
<1>14. ASSUME NEW l, CancelLine(l) PROVE P BY <1>2, <1>14 DEF CancelLine
<1> HIDE DEF P
<1>15. CASE MakingNext BY <1>4, <1>5, <1>6, <1>7, <1>8, <1>15 DEF MakingNext
<1>16. CASE HoldingNext BY <1>9, <1>10, <1>11, <1>16 DEF HoldingNext, AutoHold
<1>17. CASE ShippingNext BY <1>12, <1>13, <1>14, <1>17 DEF ShippingNext
<1> QED BY <1>15, <1>16, <1>17 DEF SerialsMove

LEMMA RowsStep ==
  ASSUME RowsInv, [DeliveryNext]_deliveryVars
  PROVE  RowsInv' /\ DOMAIN serial \subseteq DOMAIN serial'
<1>1. CASE SerialsMove
  <2>1. SerialsTypeOK' BY <1>1, MakingTyped, HoldingTyped, ShippingTyped DEF RowsInv, SerialsMove
  <2> QED BY <1>1, <2>1, RowsGrow DEF RowsInv
<1>2. CASE Receiving
  <2>1. UNCHANGED <<serial, attempt, hold>> BY <1>2 DEF Receiving, Receive
  <2>2. SerialsTypeOK' BY <1>2, ReceivingTyped DEF RowsInv
  <2> QED BY <2>1, <2>2 DEF RowsInv
<1>3. CASE UNCHANGED serialVars
  <2>1. SerialsTypeOK' BY <1>3, TypesKept DEF RowsInv, SerialsTypeOK, serialVars
  <2> QED BY <1>3, <2>1 DEF RowsInv, serialVars
<1> QED BY <1>1, <1>2, <1>3, PartMoves
-----------------------------------------------------------------------------
(***************************************************************************)
(* Pools.  Every piece is in one pool, which numbered it, and came out     *)
(* good once: an attempt that is good leaves its piece in a status from    *)
(* which no further attempt starts.                                        *)
(***************************************************************************)

\* A set and its image under a column that tells its rows apart have one size.
LEMMA ImageCounts ==
  ASSUME NEW S, IsFiniteSet(S), NEW T, NEW f \in [S -> T],
         \A x, y \in S : f[x] = f[y] => x = y, \A t \in T : \E x \in S : f[x] = t
  PROVE  IsFiniteSet(T) /\ Cardinality(T) = Cardinality(S)
<1>1. f \in Bijection(S, T) BY DEF Bijection, Injection, Surjection, IsInjective
<1>2. ExistsBijection(S, T) BY <1>1 DEF ExistsBijection
<1> QED BY <1>2, FS_Bijection

LEMMA DisjointCounts ==
  ASSUME NEW S, IsFiniteSet(S), NEW T, IsFiniteSet(T), S \cap T = {}
  PROVE  Cardinality(S \cup T) = Cardinality(S) + Cardinality(T)
<1>1. Cardinality(S \cup T) = Cardinality(S) + Cardinality(T) - Cardinality(S \cap T) BY FS_Union
<1>2. Cardinality(S) \in Nat /\ Cardinality(T) \in Nat BY FS_CardinalityType
<1>3. Cardinality(S \cap T) = 0 BY FS_EmptySet
<1> QED BY <1>1, <1>2, <1>3

Ready == {"in_stock", "reserved", "picked", "shipped"}
Mine(p) == {s \in DOMAIN serial : serial[s].pool = p}
GoodOf(p) == {k \in DOMAIN attempt : attempt[k].result = "good" /\ serial[attempt[k].serial].pool = p}

PoolCounted(p) ==
  /\ pool[p].status = "draft" => pool[p].allocated = 0
  /\ pool[p].allocated = Cardinality(Mine(p)) /\ pool[p].allocated <= Limit[p]
  /\ pool[p].good = Cardinality(GoodOf(p))
  /\ \A s \in Mine(p) : s[2] \in Nat /\ s[2] \notin Rule[p].excluded /\ s[2] < pool[p].next

GoodOnce ==
  \A k \in DOMAIN attempt : attempt[k].result = "good" =>
    /\ serial[attempt[k].serial].status \in Ready
    /\ \A j \in DOMAIN attempt :
         attempt[j].result = "good" /\ attempt[j].serial = attempt[k].serial => j = k

PoolsInv == (\A p \in Pools : PoolCounted(p)) /\ GoodOnce

LEMMA PoolsTell == ASSUME RowsInv, PoolsInv PROVE PoolsAreCounted
<1> SUFFICES ASSUME NEW p \in Pools
             PROVE  /\ pool[p].allocated = Cardinality(Mine(p)) /\ pool[p].allocated <= Limit[p]
                    /\ pool[p].good = Cardinality({s \in Mine(p) :
                                        \E k \in AttemptsOf(s) : attempt[k].result = "good"})
                    /\ pool[p].good = Cardinality({k \in DOMAIN attempt :
                                        attempt[k].serial \in Mine(p) /\ attempt[k].result = "good"})
                    /\ \A s \in Mine(p) : s[2] \notin Rule[p].excluded /\ s[2] < pool[p].next
  BY DEF PoolsAreCounted, RowsInv, Mine
<1> DEFINE T == {s \in Mine(p) : \E k \in AttemptsOf(s) : attempt[k].result = "good"}
           U == {k \in DOMAIN attempt : attempt[k].serial \in Mine(p) /\ attempt[k].result = "good"}
           G == GoodOf(p)
           f == [k \in G |-> attempt[k].serial]
<1>1. PoolCounted(p) /\ GoodOnce BY DEF PoolsInv
<1>2. \A k \in DOMAIN attempt : attempt[k].serial \in DOMAIN serial
  BY DEF RowsInv, SerialsTypeOK, AttemptRow
<1>3. U = G BY <1>2 DEF Mine, GoodOf
<1>4. IsFiniteSet(G) BY FS_Subset DEF RowsInv, GoodOf
<1>5. \A k \in G : attempt[k].serial \in T BY <1>2 DEF GoodOf, Mine, AttemptsOf
<1>6. \A t \in T : \E k \in G : attempt[k].serial = t BY DEF GoodOf, Mine, AttemptsOf
<1>7. \A j, k \in G : attempt[j].serial = attempt[k].serial => j = k BY <1>1 DEF GoodOnce, GoodOf
<1>8. Cardinality(T) = Cardinality(G)
  <2> HIDE DEF G, T
  <2>1. f \in [G -> T] BY <1>5
  <2>2. \A x, y \in G : f[x] = f[y] => x = y BY <1>7
  <2>3. \A t \in T : \E x \in G : f[x] = t BY <1>6
  <2> HIDE DEF f
  <2> QED BY <1>4, <2>1, <2>2, <2>3, ImageCounts
<1> QED BY <1>1, <1>3, <1>8 DEF PoolCounted

LEMMA PoolsStart == ASSUME DeliveryInit PROVE PoolsInv
<1> PICK made \in SUBSET Made : SerialsInit(made) /\ (made = Made \/ made = {})
  BY DEF DeliveryInit
<1>1. IsFiniteSet(made) /\ Cardinality(made) <= Limit[Maker]
  <2>1. CASE made = {} BY <2>1, FS_EmptySet, SerialsAssumption
  <2>2. CASE made = Made BY <2>2, DeliveryAssumption
  <2> QED BY <2>1, <2>2
<1>2. /\ DOMAIN serial = made /\ DOMAIN attempt = made
      /\ \A s \in made : /\ serial[s] = [pool |-> Maker, status |-> "in_stock"]
                         /\ attempt[s] = [serial |-> s, no |-> 1, result |-> "good"]
  BY DEF SerialsInit
<1>3. GoodOnce BY <1>2 DEF GoodOnce, Ready
<1>4. ASSUME NEW p \in Pools, p = Maker, made # {} PROVE PoolCounted(p)
  <2>1. pool[p] = [status |-> "active", next |-> Rule[p].maximum + 1,
                   allocated |-> Cardinality(made), good |-> Cardinality(made)]
    BY <1>4 DEF SerialsInit
  <2>2. Mine(p) = made /\ GoodOf(p) = made BY <1>2, <1>4 DEF Mine, GoodOf
  <2>3. ASSUME NEW s \in made
        PROVE  s[2] \in Nat /\ s[2] \notin Rule[p].excluded /\ s[2] < Rule[p].maximum + 1
    <3>1. PICK i \in Free(Maker, Rule[Maker].start) : s = <<Rule[Maker].label, i>>
      BY DeliveryAssumption
    <3>2. Rule[p].start \in Nat /\ Rule[p].maximum \in Nat BY SerialsAssumption
    <3>3. i \in Rule[p].start..Rule[p].maximum /\ i \notin Rule[p].excluded
      BY <1>4 DEF Free
    <3>4. s[2] = i BY <3>1
    <3> QED BY <3>2, <3>3, <3>4
  <2> QED BY <1>1, <1>4, <2>1, <2>2, <2>3 DEF PoolCounted
<1>5. ASSUME NEW p \in Pools, p # Maker \/ made = {} PROVE PoolCounted(p)
  <2>1. pool[p] = [status |-> "draft", next |-> 1, allocated |-> 0, good |-> 0]
    BY <1>5 DEF SerialsInit
  <2>2. Mine(p) = {} /\ GoodOf(p) = {} BY <1>2, <1>5 DEF Mine, GoodOf
  <2>3. Cardinality({}) = 0 BY FS_EmptySet
  <2>4. Limit[p] \in Nat BY SerialsAssumption
  <2> QED BY <2>1, <2>2, <2>3, <2>4 DEF PoolCounted
<1> QED BY <1>3, <1>4, <1>5 DEF PoolsInv

\* Whatever keeps the pools, the attempts and the serials' pools, and takes no
\* piece out of readiness.
LEMMA PoolsKept ==
  ASSUME RowsInv, PoolsInv, UNCHANGED <<pool, attempt>>, DOMAIN serial' = DOMAIN serial,
         \A s \in DOMAIN serial : /\ serial'[s].pool = serial[s].pool
                                  /\ serial[s].status \in Ready => serial'[s].status \in Ready
  PROVE  PoolsInv'
<1>1. \A k \in DOMAIN attempt : attempt[k].serial \in DOMAIN serial
  BY DEF RowsInv, SerialsTypeOK, AttemptRow
<1>2. \A p \in Pools : Mine(p)' = Mine(p) /\ GoodOf(p)' = GoodOf(p) BY <1>1 DEF Mine, GoodOf
<1>3. \A p \in Pools : PoolCounted(p)' BY <1>2 DEF PoolsInv, PoolCounted
<1>4. GoodOnce' BY <1>1 DEF PoolsInv, GoodOnce
<1> QED BY <1>3, <1>4 DEF PoolsInv

LEMMA PoolsMade ==
  ASSUME RowsInv, PoolsInv, MakingNext
  PROVE  PoolsInv'
<1>1. /\ \A k \in DOMAIN attempt : attempt[k].serial \in DOMAIN serial
      /\ \A s \in DOMAIN serial : serial[s] \in SerialRow
      /\ pool \in [Pools -> PoolRow]
  BY DEF RowsInv, SerialsTypeOK, AttemptRow
<1>2. \A p \in Pools : IsFiniteSet(Mine(p)) /\ IsFiniteSet(GoodOf(p))
  BY FS_Subset DEF RowsInv, Mine, GoodOf
<1>3. ASSUME NEW q \in Pools, ActivatePool(q) PROVE PoolsInv'
  <2>1. /\ pool[q].status = "draft" /\ UNCHANGED <<serial, attempt>>
        /\ pool' = [pool EXCEPT ![q] = [pool[q] EXCEPT !.status = "active", !.next = Rule[q].start]]
    BY <1>3 DEF ActivatePool
  <2>2. \A p \in Pools : Mine(p)' = Mine(p) /\ GoodOf(p)' = GoodOf(p) BY <2>1 DEF Mine, GoodOf
  <2>3. ASSUME NEW p \in Pools, p # q PROVE PoolCounted(p)'
    <3>1. pool'[p] = pool[p] BY <1>1, <2>1, <2>3
    <3> QED BY <2>2, <3>1 DEF PoolsInv, PoolCounted
  <2>4. PoolCounted(q)'
    <3>1. PoolCounted(q) BY DEF PoolsInv
    <3>2. Mine(q) = {} BY <1>2, <2>1, <3>1, FS_EmptySet DEF PoolCounted
    <3>3. \A r \in PoolRow : LET n == [r EXCEPT !.status = "active", !.next = Rule[q].start] IN
            n.status = "active" /\ n.allocated = r.allocated /\ n.good = r.good
      BY DEF PoolRow
    <3>4. /\ pool'[q].status = "active" /\ pool'[q].allocated = pool[q].allocated
          /\ pool'[q].good = pool[q].good
      BY <1>1, <2>1, <3>3
    <3> QED BY <2>2, <3>1, <3>2, <3>4 DEF PoolCounted
  <2>5. GoodOnce' BY <2>1 DEF PoolsInv, GoodOnce
  <2> QED BY <2>3, <2>4, <2>5 DEF PoolsInv
<1>4. ASSUME NEW q \in Pools, NEW n \in Batches, Generate(q, n) PROVE PoolsInv'
  <2> DEFINE fresh == Batch(q, n)
             m == Max(Chosen(q, n))
  <2>1. /\ n > 0 /\ Cardinality(fresh) = n /\ fresh \cap DOMAIN serial = {}
        /\ pool[q].status = "active" /\ pool[q].allocated + n <= Limit[q]
        /\ serial' = [s \in DOMAIN serial \cup fresh |->
             IF s \in fresh THEN [pool |-> q, status |-> "waiting_production"] ELSE serial[s]]
        /\ pool' = [pool EXCEPT ![q] = [pool[q] EXCEPT !.next = m + 1,
                                                       !.allocated = pool[q].allocated + n]]
        /\ UNCHANGED attempt
    BY <1>4 DEF Generate, Batch, WithinLimit
  <2>2. /\ IsFiniteSet(fresh) /\ m \in Nat /\ m >= pool[q].next
        /\ \A s \in fresh : s[2] \in Nat /\ s[2] \notin Rule[q].excluded /\ s[2] <= m
    BY <1>1, <2>1, BatchIsFree
  <2> HIDE DEF fresh, m
  <2>3. /\ \A p \in Pools \ {q} : Mine(p)' = Mine(p)
        /\ Mine(q)' = Mine(q) \cup fresh /\ Mine(q) \cap fresh = {}
    BY <2>1 DEF Mine
  <2>4. \A p \in Pools : GoodOf(p)' = GoodOf(p) BY <1>1, <2>1 DEF GoodOf
  <2>5. ASSUME NEW p \in Pools, p # q PROVE PoolCounted(p)'
    <3>1. pool'[p] = pool[p] BY <1>1, <2>1, <2>5
    <3> QED BY <2>3, <2>4, <2>5, <3>1 DEF PoolsInv, PoolCounted
  <2>6. PoolCounted(q)'
    <3>1. PoolCounted(q) BY DEF PoolsInv
    <3>2. \A r \in PoolRow, a \in Nat : LET x == [r EXCEPT !.next = m + 1, !.allocated = a] IN
            x.status = r.status /\ x.next = m + 1 /\ x.allocated = a /\ x.good = r.good
      BY DEF PoolRow
    <3>3. n \in Nat /\ pool[q].allocated \in Nat /\ pool[q].next \in Nat
      BY <1>1, SerialsAssumption DEF PoolRow
    <3>4. pool[q].allocated + n \in Nat BY <3>3
    <3>5. /\ pool'[q].status = "active" /\ pool'[q].next = m + 1
          /\ pool'[q].allocated = pool[q].allocated + n /\ pool'[q].good = pool[q].good
      BY <1>1, <2>1, <3>2, <3>4
    <3>6. Cardinality(Mine(q)') = Cardinality(Mine(q)) + n
      BY <1>2, <2>1, <2>2, <2>3, DisjointCounts
    <3>7. \A s \in Mine(q)' : s[2] \in Nat /\ s[2] \notin Rule[q].excluded /\ s[2] < m + 1
      BY <2>2, <2>3, <3>1, <3>3 DEF PoolCounted
    <3> QED BY <2>1, <2>4, <3>1, <3>5, <3>6, <3>7 DEF PoolCounted
  <2>7. GoodOnce' BY <1>1, <2>1 DEF PoolsInv, GoodOnce
  <2> QED BY <2>5, <2>6, <2>7 DEF PoolsInv
<1>5. ASSUME NEW s \in DOMAIN serial, NEW k \in AttemptKeys, StartProduction(s, k)
      PROVE  PoolsInv'
  <2> DEFINE row == [serial |-> s, no |-> Cardinality(AttemptsOf(s)) + 1, result |-> "in_progress"]
  <2>1. /\ attempt' = [y \in DOMAIN attempt \cup {k} |-> IF y = k THEN row ELSE attempt[y]]
        /\ k \notin DOMAIN attempt /\ serial[s].status \notin Ready
        /\ SetSerial(s, "in_production") /\ UNCHANGED pool
    BY <1>5 DEF StartProduction, With, Ready
  <2>2. row.serial = s /\ row.result = "in_progress" OBVIOUS
  <2> HIDE DEF row
  <2>3. /\ DOMAIN serial' = DOMAIN serial
        /\ \A r \in DOMAIN serial :
             /\ serial'[r].pool = serial[r].pool
             /\ serial'[r].status = IF r = s THEN "in_production" ELSE serial[r].status
    BY <1>1, <2>1, SerialSet DEF Statuses
  <2>4. \A p \in Pools : Mine(p)' = Mine(p) BY <2>3 DEF Mine
  <2>5. \A p \in Pools : GoodOf(p)' = GoodOf(p) BY <1>1, <2>1, <2>2, <2>3 DEF GoodOf
  <2>6. \A p \in Pools : PoolCounted(p)' BY <2>1, <2>4, <2>5 DEF PoolsInv, PoolCounted
  <2>7. GoodOnce' BY <1>1, <2>1, <2>2, <2>3 DEF PoolsInv, GoodOnce
  <2> QED BY <2>6, <2>7 DEF PoolsInv
<1>6. ASSUME NEW s \in DOMAIN serial, NEW x \in Statuses, DisposeNg(s, x) PROVE PoolsInv'
  <2>1. /\ serial[s].status \notin Ready /\ SetSerial(s, x) /\ UNCHANGED <<pool, attempt>>
    BY <1>6 DEF DisposeNg, Ready
  <2>2. /\ DOMAIN serial' = DOMAIN serial
        /\ \A r \in DOMAIN serial :
             /\ serial'[r].pool = serial[r].pool
             /\ serial'[r].status = IF r = s THEN x ELSE serial[r].status
    BY <1>1, <2>1, SerialSet
  <2> QED BY <2>1, <2>2, PoolsKept
<1>7. ASSUME NEW k \in DOMAIN attempt, NEW result \in {"good", "ng"}, CompleteAttempt(k, result)
      PROVE  PoolsInv'
  <2>0. attempt[k].serial \in DOMAIN serial /\ serial[attempt[k].serial].pool \in Pools
    BY <1>1 DEF SerialRow
  <2> PICK s \in DOMAIN serial, q \in Pools : s = attempt[k].serial /\ q = serial[s].pool BY <2>0
  <2> DEFINE x == IF result = "good" THEN "in_stock" ELSE "ng"
             g == IF result = "good" THEN pool[q].good + 1 ELSE pool[q].good
             row == [attempt[k] EXCEPT !.result = result]
  <2>1. /\ attempt' = [attempt EXCEPT ![k] = row]
        /\ attempt[k].result = "in_progress" /\ serial[s].status = "in_production"
        /\ SetSerial(s, x)
        /\ pool' = [pool EXCEPT ![q] = [pool[q] EXCEPT !.good = g]]
    BY <1>7 DEF CompleteAttempt
  <2>2. x \in Statuses BY DEF Statuses
  <2>4. row.serial = s /\ row.result = result BY DEF RowsInv, SerialsTypeOK, AttemptRow
  <2>5. /\ DOMAIN serial' = DOMAIN serial
        /\ \A r \in DOMAIN serial :
             /\ serial'[r].pool = serial[r].pool
             /\ serial'[r].status = IF r = s THEN x ELSE serial[r].status
    <3> HIDE DEF x
    <3> QED BY <1>1, <2>1, <2>2, SerialSet
  <2>6. \A r \in PoolRow : LET n == [r EXCEPT !.good = g] IN
          n.status = r.status /\ n.next = r.next /\ n.allocated = r.allocated /\ n.good = g
    BY DEF PoolRow
  <2>7. /\ pool'[q].status = pool[q].status /\ pool'[q].next = pool[q].next
        /\ pool'[q].allocated = pool[q].allocated /\ pool'[q].good = g
        /\ \A p \in Pools \ {q} : pool'[p] = pool[p]
    <3> HIDE DEF g
    <3> QED BY <1>1, <2>1, <2>6
  <2>8. DOMAIN attempt' = DOMAIN attempt /\ attempt'[k] = row
        /\ \A j \in DOMAIN attempt \ {k} : attempt'[j] = attempt[j]
    BY <2>1
  <2>9. \A p \in Pools : Mine(p)' = Mine(p) BY <2>5 DEF Mine
  <2>10. /\ \A p \in Pools \ {q} : GoodOf(p)' = GoodOf(p)
         /\ GoodOf(q)' = IF result = "good" THEN GoodOf(q) \cup {k} ELSE GoodOf(q)
         /\ k \notin GoodOf(q)
    <3> HIDE DEF row
    <3> QED BY <1>1, <2>1, <2>4, <2>5, <2>8 DEF GoodOf
  <2>11. Cardinality(GoodOf(q) \cup {k}) = Cardinality(GoodOf(q)) + 1
    BY <1>2, <2>10, FS_AddElement
  <2>12. PoolCounted(q)'
    <3>1. PoolCounted(q) BY DEF PoolsInv
    <3>2. g = Cardinality(GoodOf(q)') BY <2>10, <2>11, <3>1 DEF PoolCounted
    <3> HIDE DEF g
    <3> QED BY <2>7, <2>9, <3>1, <3>2 DEF PoolCounted
  <2>13. ASSUME NEW p \in Pools, p # q PROVE PoolCounted(p)'
    <3>1. pool'[p] = pool[p] BY <2>7, <2>13
    <3> QED BY <2>9, <2>10, <2>13, <3>1 DEF PoolsInv, PoolCounted
  <2>14. GoodOnce'
    <3>1. \A j \in DOMAIN attempt : attempt[j].result = "good" => attempt[j].serial # s
      BY <2>1 DEF PoolsInv, GoodOnce, Ready
    <3>2. result = "good" => x \in Ready BY DEF Ready
    <3> HIDE DEF row, x
    <3>3. \A j \in DOMAIN attempt' : attempt'[j].serial = attempt[j].serial
      BY <2>4, <2>8
    <3>4. \A j \in DOMAIN attempt' : attempt'[j].result = "good" =>
            (j = k /\ result = "good") \/ (j # k /\ attempt[j].result = "good")
      BY <2>4, <2>8
    <3>5. \A j \in DOMAIN attempt : attempt[j].result = "good" =>
            serial'[attempt[j].serial].status \in Ready
      BY <1>1, <2>5, <3>1 DEF PoolsInv, GoodOnce
    <3> QED BY <2>5, <2>8, <3>1, <3>2, <3>3, <3>4, <3>5 DEF PoolsInv, GoodOnce
  <2> QED BY <2>12, <2>13, <2>14 DEF PoolsInv
<1>8. \A t \in {"waiting_rework", "waiting_reproduction", "scrapped", "void"} : t \in Statuses
  BY DEF Statuses
<1> QED BY <1>3, <1>4, <1>5, <1>6, <1>7, <1>8 DEF MakingNext

LEMMA PoolsStep ==
  ASSUME RowsInv, PoolsInv, [DeliveryNext]_deliveryVars
  PROVE  PoolsInv'
<1>1. \A s \in DOMAIN serial : serial[s] \in SerialRow BY DEF RowsInv, SerialsTypeOK
<1>2. ASSUME UNCHANGED <<pool, serial, attempt>> PROVE PoolsInv' BY <1>2, PoolsKept
<1>3. ASSUME NEW s \in DOMAIN serial, NEW x \in Ready, SetSerial(s, x),
             UNCHANGED <<pool, attempt>>
      PROVE  PoolsInv'
  <2>1. x \in Statuses BY DEF Ready, Statuses
  <2> QED BY <1>1, <1>3, <2>1, SerialSet, PoolsKept
<1>4. ASSUME NEW d, NEW x \in {"picked", "shipped"}, Carry(d, x), UNCHANGED <<pool, attempt>>
      PROVE  PoolsInv'
  <2>1. x \in Ready BY DEF Ready
  <2> QED BY <1>4, <2>1, Carried, PoolsKept DEF RowsInv
<1>5. CASE HoldingNext
  <2>1. ASSUME NEW l, NEW k, NEW s \in DOMAIN serial, Hold(l, k, s) PROVE PoolsInv'
    BY <1>3, <2>1 DEF Hold, Ready
  <2>2. ASSUME NEW k \in DOMAIN hold, ReleaseHold(k) PROVE PoolsInv'
    <3>1. hold[k].serial \in DOMAIN serial BY DEF RowsInv, SerialsTypeOK, HoldRow
    <3> QED BY <1>3, <2>2, <3>1 DEF ReleaseHold, Ready
  <2>3. ASSUME NEW k, NEW d, Assign(k, d) PROVE PoolsInv' BY <1>2, <2>3 DEF Assign
  <2> QED BY <1>5, <2>1, <2>2, <2>3 DEF HoldingNext, AutoHold
<1>6. CASE ShippingNext
  <2>1. ASSUME NEW d, NEW v, NEW a, MoveDelivery(d, v, a) PROVE PoolsInv'
    BY <1>2, <1>4, <2>1 DEF MoveDelivery
  <2>2. ASSUME NEW d, ShipDelivery(d) PROVE PoolsInv' BY <1>2, <1>4, <2>2 DEF ShipDelivery
  <2>3. ASSUME NEW l, CancelLine(l) PROVE PoolsInv' BY <1>2, <2>3 DEF CancelLine
  <2> QED BY <1>6, <2>1, <2>2, <2>3 DEF ShippingNext
<1>7. CASE Receiving BY <1>2, <1>7 DEF Receiving, Receive
<1>8. CASE UNCHANGED serialVars BY <1>2, <1>8 DEF serialVars
<1> QED BY <1>5, <1>6, <1>7, <1>8, PartMoves, PoolsMade DEF SerialsMove

\* A pool counts what it gave out and what of it came out good; it gives out no
\* more than its limit, never a number its rule leaves out, and a number once
\* however often a production is tried (generate_serials,
\* complete_serial_production).
THEOREM PoolsAreCountedAlways == DeliverySpec => []PoolsAreCounted
<1>1. DeliveryInit => RowsInv /\ PoolsInv BY RowsStart, PoolsStart
<1>2. RowsInv /\ PoolsInv /\ [DeliveryNext]_deliveryVars => RowsInv' /\ PoolsInv'
  BY RowsStep, PoolsStep
<1> QED BY <1>1, <1>2, PoolsTell, PTL DEF DeliverySpec
-----------------------------------------------------------------------------
(***************************************************************************)
(* Owners.  A reservation that was not released owns its piece alone; a    *)
(* piece that is spoken for has one; and an assignment is of the piece its *)
(* reservation owns, so that a shipment consumes as many reservations as   *)
(* it has pieces.                                                          *)
(***************************************************************************)
Owned == {"reserved", "picked", "shipped"}

HoldTells(k) ==
  hold[k].status # "released" =>
    /\ serial[hold[k].serial].status \in Owned
    /\ hold[k].status = "consumed" <=> serial[hold[k].serial].status = "shipped"
    /\ \A j \in DOMAIN hold :
         hold[j].serial = hold[k].serial /\ hold[j].status # "released" => j = k
PieceTells(s) ==
  /\ serial[s].status \in Owned =>
       \E k \in DOMAIN hold : hold[k].serial = s /\ hold[k].status # "released"
  /\ serial[s].status \in {"picked", "shipped"} => s \in DOMAIN parcel
ParcelTells(s) ==
  /\ hold[parcel[s].hold].serial = s /\ hold[parcel[s].hold].status # "released"
  /\ hold[parcel[s].hold].line = LineOf[parcel[s].delivery]
  /\ serial[s].status = IF parcel[s].status = "assigned" THEN "reserved" ELSE parcel[s].status
LineCounted(l) ==
  /\ sold[l].shipped = Cardinality(HoldsOf(l, "consumed"))
  /\ sold[l].cancelled = 0 =>
       Cardinality(HoldsOf(l, "active")) + sold[l].shipped <= SoldQty[l]

PiecesInv ==
  /\ \A k \in DOMAIN hold : HoldTells(k)
  /\ \A s \in DOMAIN serial : PieceTells(s)
  /\ \A s \in DOMAIN parcel : ParcelTells(s)
  /\ \A l \in Numbered : LineCounted(l)

\* What the rows refer to is there.
LEMMA References ==
  ASSUME RowsInv
  PROVE  /\ \A k \in DOMAIN hold : hold[k] \in HoldRow /\ hold[k].serial \in DOMAIN serial
                                   /\ hold[k].line \in SoldLines
         /\ \A s \in DOMAIN parcel : parcel[s] \in ParcelRow /\ parcel[s].hold \in DOMAIN hold
                                     /\ parcel[s].delivery \in Deliveries
         /\ \A s \in DOMAIN serial : serial[s] \in SerialRow
         /\ \A l, status : /\ IsFiniteSet(HoldsOf(l, status))
                           /\ Cardinality(HoldsOf(l, status)) \in Nat
<1>1. ASSUME NEW l, NEW status
      PROVE  IsFiniteSet(HoldsOf(l, status)) /\ Cardinality(HoldsOf(l, status)) \in Nat
  <2>1. IsFiniteSet(HoldsOf(l, status)) BY FS_Subset DEF RowsInv, HoldsOf
  <2> QED BY <2>1, FS_CardinalityType
<1> QED BY <1>1 DEF RowsInv, SerialsTypeOK, HoldRow, ParcelRow

LEMMA PiecesTell == ASSUME RowsInv, PiecesInv PROVE PiecesHaveOneOwner
<1>1. PiecesAreCounted BY DEF PiecesInv, LineCounted, PiecesAreCounted
<1> SUFFICES ASSUME NEW s \in DOMAIN serial
             PROVE  LET owners == {k \in DOMAIN hold : hold[k].serial = s /\ hold[k].status # "released"} IN
       /\ Cardinality(owners) = (IF serial[s].status \in {"reserved", "picked", "shipped"} THEN 1 ELSE 0)
       /\ \A k \in owners : hold[k].status = "consumed" <=> serial[s].status = "shipped"
       /\ s \in DOMAIN parcel =>
            /\ parcel[s].hold \in owners /\ hold[parcel[s].hold].line = LineOf[parcel[s].delivery]
            /\ serial[s].status = IF parcel[s].status = "assigned" THEN "reserved" ELSE parcel[s].status
       /\ serial[s].status \in {"picked", "shipped"} => s \in DOMAIN parcel
  BY <1>1 DEF PiecesHaveOneOwner
<1> DEFINE owners == {k \in DOMAIN hold : hold[k].serial = s /\ hold[k].status # "released"}
<1>2. Cardinality(owners) = IF serial[s].status \in Owned THEN 1 ELSE 0
  <2>1. CASE serial[s].status \in Owned
    <3>1. PICK k \in DOMAIN hold : hold[k].serial = s /\ hold[k].status # "released"
      BY <2>1 DEF PiecesInv, PieceTells
    <3>2. owners = {k} BY <3>1 DEF PiecesInv, HoldTells
    <3> QED BY <2>1, <3>2, FS_Singleton
  <2>2. CASE serial[s].status \notin Owned
    <3>1. owners = {} BY <2>2 DEF PiecesInv, HoldTells
    <3> QED BY <2>2, <3>1, FS_EmptySet
  <2> QED BY <2>1, <2>2
<1>3. \A k \in owners : hold[k].status = "consumed" <=> serial[s].status = "shipped"
  BY DEF PiecesInv, HoldTells
<1>4. s \in DOMAIN parcel =>
        /\ parcel[s].hold \in owners /\ hold[parcel[s].hold].line = LineOf[parcel[s].delivery]
        /\ serial[s].status = IF parcel[s].status = "assigned" THEN "reserved" ELSE parcel[s].status
  BY References DEF PiecesInv, ParcelTells
<1>5. serial[s].status \in {"picked", "shipped"} => s \in DOMAIN parcel
  BY DEF PiecesInv, PieceTells
<1> QED BY <1>2, <1>3, <1>4, <1>5 DEF Owned

LEMMA PiecesStart == ASSUME DeliveryInit PROVE PiecesInv
<1> PICK made \in SUBSET Made : SerialsInit(made)
  BY DEF DeliveryInit
<1>1. /\ DOMAIN hold = {} /\ DOMAIN parcel = {} /\ DOMAIN serial = made
      /\ \A s \in made : serial[s].status = "in_stock"
      /\ \A l \in SoldLines : sold[l] = [shipped |-> 0, cancelled |-> 0, returned |-> 0]
  BY DEF SerialsInit
<1>2. \A l, status : HoldsOf(l, status) = {} BY <1>1 DEF HoldsOf
<1>3. Cardinality({}) = 0 BY FS_EmptySet
<1>4. ASSUME NEW l \in Numbered PROVE LineCounted(l)
  <2>1. l \in SoldLines /\ SoldQty[l] \in Nat BY SerialsAssumption
  <2>2. sold[l].shipped = 0 /\ sold[l].cancelled = 0 BY <1>1, <2>1
  <2>3. \A status : Cardinality(HoldsOf(l, status)) = 0 BY <1>2, <1>3
  <2> QED BY <2>1, <2>2, <2>3 DEF LineCounted
<1>5. \A s \in DOMAIN serial : PieceTells(s) BY <1>1 DEF PieceTells, Owned
<1> QED BY <1>1, <1>4, <1>5 DEF PiecesInv

\* Whatever keeps the reservations, the assignments and what lines count, and
\* neither makes nor unmakes an owned piece.
LEMMA PiecesKept ==
  ASSUME RowsInv, PiecesInv, UNCHANGED <<hold, parcel>>, DOMAIN serial \subseteq DOMAIN serial',
         \A l \in Numbered : sold'[l].shipped = sold[l].shipped /\ sold'[l].cancelled = sold[l].cancelled,
         \A s \in DOMAIN serial' :
           \/ s \in DOMAIN serial /\ serial'[s].status = serial[s].status
           \/ /\ serial'[s].status \notin Owned
              /\ s \in DOMAIN serial => serial[s].status \notin Owned
  PROVE  PiecesInv'
<1>1. \A l, status : HoldsOf(l, status)' = HoldsOf(l, status) BY DEF HoldsOf
<1>2. ASSUME NEW l \in Numbered PROVE LineCounted(l)'
  <2>1. LineCounted(l) BY DEF PiecesInv
  <2> QED BY <1>1, <2>1 DEF LineCounted
<1>3. \A k \in DOMAIN hold : HoldTells(k)' BY References DEF PiecesInv, HoldTells
<1>4. \A s \in DOMAIN parcel : s \in DOMAIN serial /\ serial[s].status \in Owned
  <2> SUFFICES ASSUME NEW s \in DOMAIN parcel
               PROVE  s \in DOMAIN serial /\ serial[s].status \in Owned
    OBVIOUS
  <2>1. parcel[s].hold \in DOMAIN hold BY References
  <2>2. hold[parcel[s].hold].serial = s /\ hold[parcel[s].hold].status # "released"
    BY DEF PiecesInv, ParcelTells
  <2> QED BY <2>1, <2>2, References DEF PiecesInv, HoldTells
<1>5. \A s \in DOMAIN parcel : ParcelTells(s)' BY <1>4 DEF PiecesInv, ParcelTells
<1>6. \A s \in DOMAIN serial' : PieceTells(s)'
  <2> SUFFICES ASSUME NEW s \in DOMAIN serial' PROVE PieceTells(s)' OBVIOUS
  <2>1. CASE s \in DOMAIN serial /\ serial'[s].status = serial[s].status
    BY <2>1 DEF PiecesInv, PieceTells
  <2>2. CASE serial'[s].status \notin Owned BY <2>2 DEF PieceTells, Owned
  <2> QED BY <2>1, <2>2
<1> QED BY <1>2, <1>3, <1>5, <1>6 DEF PiecesInv

LEMMA PiecesHeld ==
  ASSUME RowsInv, PiecesInv, NEW l \in SoldLines, NEW k \in ReserveKeys, NEW s \in DOMAIN serial,
         Hold(l, k, s)
  PROVE  PiecesInv'
<1> DEFINE row == [serial |-> s, line |-> l, status |-> "active"]
<1>1. /\ hold' = [y \in DOMAIN hold \cup {k} |-> IF y = k THEN row ELSE hold[y]]
      /\ k \notin DOMAIN hold /\ Open(l) /\ serial[s].status = "in_stock"
      /\ SetSerial(s, "reserved") /\ UNCHANGED <<parcel, sold>>
  BY DEF Hold, With
<1>2. /\ DOMAIN serial' = DOMAIN serial
      /\ \A r \in DOMAIN serial :
           serial'[r].status = IF r = s THEN "reserved" ELSE serial[r].status
  BY <1>1, References, SerialSet DEF Statuses
<1>3. row.serial = s /\ row.line = l /\ row.status = "active" OBVIOUS
<1> HIDE DEF row
<1>4. /\ DOMAIN hold' = DOMAIN hold \cup {k} /\ hold'[k] = row
      /\ \A j \in DOMAIN hold : hold'[j] = hold[j]
  BY <1>1
<1>5. \A j \in DOMAIN hold : hold[j].status # "released" => hold[j].serial # s
  BY <1>1 DEF PiecesInv, HoldTells, Owned
<1>6. s \notin DOMAIN parcel BY <1>5, References DEF PiecesInv, ParcelTells
<1>7. ASSUME NEW j \in DOMAIN hold' PROVE HoldTells(j)'
  <2>1. CASE j = k BY <1>1, <1>2, <1>3, <1>4, <1>5, <2>1 DEF HoldTells, Owned
  <2>2. CASE j \in DOMAIN hold
    <3>1. HoldTells(j) /\ hold[j].serial \in DOMAIN serial BY <2>2, References DEF PiecesInv
    <3> QED BY <1>1, <1>2, <1>3, <1>4, <1>5, <2>2, <3>1 DEF HoldTells
  <2> QED BY <1>4, <2>1, <2>2
<1>8. ASSUME NEW r \in DOMAIN serial' PROVE PieceTells(r)'
  <2>1. CASE r = s BY <1>2, <1>3, <1>4, <2>1 DEF PieceTells
  <2>2. CASE r # s
    <3>1. PieceTells(r) BY <1>2 DEF PiecesInv
    <3> QED BY <1>1, <1>2, <1>4, <2>2, <3>1 DEF PieceTells
  <2> QED BY <2>1, <2>2
<1>9. ASSUME NEW r \in DOMAIN parcel' PROVE ParcelTells(r)'
  <2>1. ParcelTells(r) /\ r # s /\ parcel[r].hold \in DOMAIN hold
    BY <1>1, <1>6, <1>9, References DEF PiecesInv
  <2>2. r \in DOMAIN serial BY <2>1, References DEF ParcelTells
  <2> QED BY <1>1, <1>2, <1>4, <2>1, <2>2 DEF ParcelTells
<1>10. ASSUME NEW m \in Numbered PROVE LineCounted(m)'
  <2>1. LineCounted(m) BY DEF PiecesInv
  <2>2. HoldsOf(m, "consumed")' = HoldsOf(m, "consumed") BY <1>1, <1>3, <1>4 DEF HoldsOf
  <2>3. CASE m # l
    <3>1. HoldsOf(m, "active")' = HoldsOf(m, "active") BY <1>1, <1>3, <1>4, <2>3 DEF HoldsOf
    <3> QED BY <1>1, <2>1, <2>2, <3>1 DEF LineCounted
  <2>4. CASE m = l
    <3>1. HoldsOf(l, "active")' = HoldsOf(l, "active") \cup {k} /\ k \notin HoldsOf(l, "active")
      BY <1>1, <1>3, <1>4 DEF HoldsOf
    <3>2. Cardinality(HoldsOf(l, "active")') = Cardinality(HoldsOf(l, "active")) + 1
      BY <3>1, References, FS_AddElement
    <3>3. /\ Cardinality(HoldsOf(l, "active")) \in Nat /\ SoldQty[l] \in Nat
          /\ sold[l].shipped \in Nat /\ sold[l].cancelled \in Nat
      BY References, SerialsAssumption DEF RowsInv, SerialsTypeOK, SoldRow
    <3> QED BY <1>1, <2>1, <2>2, <2>4, <3>2, <3>3 DEF LineCounted, Open
  <2> QED BY <2>3, <2>4
<1> QED BY <1>7, <1>8, <1>9, <1>10 DEF PiecesInv

LEMMA PiecesReleased ==
  ASSUME RowsInv, PiecesInv, NEW k \in DOMAIN hold, ReleaseHold(k)
  PROVE  PiecesInv'
<1> PICK s \in DOMAIN serial : s = hold[k].serial BY References
<1> DEFINE row == [hold[k] EXCEPT !.status = "released"]
<1>1. /\ hold' = [hold EXCEPT ![k] = row] /\ hold[k].status = "active"
      /\ \A r \in DOMAIN parcel : parcel[r].hold # k
      /\ SetSerial(s, "in_stock") /\ UNCHANGED <<parcel, sold>>
  BY DEF ReleaseHold, MayRelease
<1>2. /\ DOMAIN serial' = DOMAIN serial
      /\ \A r \in DOMAIN serial :
           serial'[r].status = IF r = s THEN "in_stock" ELSE serial[r].status
  BY <1>1, References, SerialSet DEF Statuses
<1>3. row.serial = s /\ row.line = hold[k].line /\ row.status = "released"
  BY References DEF HoldRow
<1> HIDE DEF row
<1>4. /\ DOMAIN hold' = DOMAIN hold /\ hold'[k] = row
      /\ \A j \in DOMAIN hold \ {k} : hold'[j] = hold[j]
  BY <1>1
<1>5. \A j \in DOMAIN hold \ {k} : hold[j].status # "released" => hold[j].serial # s
  BY <1>1 DEF PiecesInv, HoldTells
<1>6. s \notin DOMAIN parcel BY <1>1, <1>5, References DEF PiecesInv, ParcelTells
<1>7. ASSUME NEW j \in DOMAIN hold' PROVE HoldTells(j)'
  <2>1. CASE j = k BY <1>3, <1>4, <2>1 DEF HoldTells
  <2>2. CASE j # k
    <3>1. HoldTells(j) /\ hold[j].serial \in DOMAIN serial BY <1>4, References DEF PiecesInv
    <3> QED BY <1>2, <1>3, <1>4, <1>5, <2>2, <3>1 DEF HoldTells
  <2> QED BY <2>1, <2>2
<1>8. ASSUME NEW r \in DOMAIN serial' PROVE PieceTells(r)'
  <2>1. CASE r = s BY <1>2, <2>1 DEF PieceTells, Owned
  <2>2. CASE r # s
    <3>1. PieceTells(r) BY <1>2 DEF PiecesInv
    <3> QED BY <1>1, <1>2, <1>4, <2>2, <3>1 DEF PieceTells
  <2> QED BY <2>1, <2>2
<1>9. ASSUME NEW r \in DOMAIN parcel' PROVE ParcelTells(r)'
  <2>1. ParcelTells(r) /\ r # s /\ parcel[r].hold \in DOMAIN hold \ {k}
    BY <1>1, <1>6, <1>9, References DEF PiecesInv
  <2>2. r \in DOMAIN serial BY <2>1, References DEF ParcelTells
  <2> QED BY <1>1, <1>2, <1>4, <2>1, <2>2 DEF ParcelTells
<1>10. ASSUME NEW m \in Numbered PROVE LineCounted(m)'
  <2>1. LineCounted(m) BY DEF PiecesInv
  <2>2. HoldsOf(m, "consumed")' = HoldsOf(m, "consumed") BY <1>1, <1>3, <1>4 DEF HoldsOf
  <2>3. HoldsOf(m, "active")' = HoldsOf(m, "active") \ {k} BY <1>1, <1>3, <1>4 DEF HoldsOf
  <2>4. /\ Cardinality(HoldsOf(m, "active")') \in Nat
        /\ Cardinality(HoldsOf(m, "active")') <= Cardinality(HoldsOf(m, "active"))
        /\ Cardinality(HoldsOf(m, "active")) \in Nat
    BY <2>3, References, FS_Subset, FS_CardinalityType
  <2>5. sold[m].shipped \in Nat /\ SoldQty[m] \in Nat
    BY SerialsAssumption DEF RowsInv, SerialsTypeOK, SoldRow
  <2> QED BY <1>1, <2>1, <2>2, <2>4, <2>5 DEF LineCounted
<1> QED BY <1>7, <1>8, <1>9, <1>10 DEF PiecesInv

LEMMA PiecesAssigned ==
  ASSUME RowsInv, PiecesInv, NEW k \in DOMAIN hold, NEW d \in Deliveries, Assign(k, d)
  PROVE  PiecesInv'
<1> PICK s \in DOMAIN serial : s = hold[k].serial BY References
<1> DEFINE row == [hold |-> k, delivery |-> d, status |-> "assigned"]
<1>1. /\ hold[k].status = "active" /\ hold[k].line = LineOf[d] /\ s \notin DOMAIN parcel
      /\ parcel' = [y \in DOMAIN parcel \cup {s} |-> IF y = s THEN row ELSE parcel[y]]
      /\ UNCHANGED <<serial, hold, sold>>
  BY DEF Assign, With
<1>2. row.hold = k /\ row.delivery = d /\ row.status = "assigned" OBVIOUS
<1> HIDE DEF row
<1>3. /\ DOMAIN parcel' = DOMAIN parcel \cup {s} /\ parcel'[s] = row
      /\ \A r \in DOMAIN parcel : parcel'[r] = parcel[r]
  BY <1>1
<1>4. \A j \in DOMAIN hold' : HoldTells(j)' BY <1>1 DEF PiecesInv, HoldTells
<1>5. \A r \in DOMAIN serial' : PieceTells(r)' BY <1>1, <1>3 DEF PiecesInv, PieceTells
<1>6. serial[s].status = "reserved"
  <2>1. HoldTells(k) /\ PieceTells(s) BY DEF PiecesInv
  <2> QED BY <1>1, <2>1 DEF HoldTells, PieceTells, Owned
<1>7. ASSUME NEW r \in DOMAIN parcel' PROVE ParcelTells(r)'
  <2>1. CASE r = s BY <1>1, <1>2, <1>3, <1>6, <2>1 DEF ParcelTells
  <2>2. CASE r # s BY <1>1, <1>3, <2>2 DEF PiecesInv, ParcelTells
  <2> QED BY <2>1, <2>2
<1>8. ASSUME NEW m \in Numbered PROVE LineCounted(m)'
  <2>1. LineCounted(m) BY DEF PiecesInv
  <2>2. \A status : HoldsOf(m, status)' = HoldsOf(m, status) BY <1>1 DEF HoldsOf
  <2> QED BY <1>1, <2>1, <2>2 DEF LineCounted
<1> QED BY <1>4, <1>5, <1>7, <1>8 DEF PiecesInv

\* The reservations of a shipment's pieces: each of its own piece, so that there
\* are as many of them.
HoldsIn(d) == {parcel[s].hold : s \in Parcels(d)}

LEMMA ShipmentHolds ==
  ASSUME RowsInv, PiecesInv, NEW d
  PROVE  /\ Parcels(d) \subseteq DOMAIN parcel /\ Parcels(d) \subseteq DOMAIN serial
         /\ HoldsIn(d) \subseteq DOMAIN hold
         /\ IsFiniteSet(HoldsIn(d)) /\ Cardinality(HoldsIn(d)) = Cardinality(Parcels(d))
         /\ \A k \in HoldsIn(d) : hold[k].serial \in Parcels(d) /\ hold[k].status # "released"
                                  /\ hold[k].line = LineOf[d]
         /\ \A k \in DOMAIN hold :
              hold[k].status # "released" /\ hold[k].serial \in Parcels(d) => k \in HoldsIn(d)
<1>1. Parcels(d) \subseteq DOMAIN parcel /\ \A s \in Parcels(d) : parcel[s].delivery = d
  BY DEF Parcels
<1>2. \A s \in DOMAIN parcel : /\ parcel[s].hold \in DOMAIN hold /\ s \in DOMAIN serial
                               /\ hold[parcel[s].hold].serial = s
                               /\ hold[parcel[s].hold].status # "released"
                               /\ hold[parcel[s].hold].line = LineOf[parcel[s].delivery]
  BY References DEF PiecesInv, ParcelTells
<1>3. IsFiniteSet(Parcels(d)) BY <1>1, <1>2, FS_Subset DEF RowsInv
<1> DEFINE f == [s \in Parcels(d) |-> parcel[s].hold]
<1>4. /\ f \in [Parcels(d) -> HoldsIn(d)]
      /\ \A x, y \in Parcels(d) : f[x] = f[y] => x = y
      /\ \A t \in HoldsIn(d) : \E x \in Parcels(d) : f[x] = t
  BY <1>1, <1>2 DEF HoldsIn
<1> HIDE DEF f
<1>5. IsFiniteSet(HoldsIn(d)) /\ Cardinality(HoldsIn(d)) = Cardinality(Parcels(d))
  BY <1>3, <1>4, ImageCounts
<1>6. ASSUME NEW k \in DOMAIN hold, hold[k].status # "released", hold[k].serial \in Parcels(d)
      PROVE  k \in HoldsIn(d)
  <2>1. parcel[hold[k].serial].hold = k BY <1>1, <1>2, <1>6 DEF PiecesInv, HoldTells
  <2> QED BY <1>6, <2>1 DEF HoldsIn
<1> QED BY <1>1, <1>2, <1>5, <1>6 DEF HoldsIn

LEMMA PiecesPicked ==
  ASSUME RowsInv, PiecesInv, NEW d \in Deliveries, Complete(d, "assigned"), Carry(d, "picked"),
         UNCHANGED <<hold, sold>>
  PROVE  PiecesInv'
<1>1. /\ DOMAIN serial' = DOMAIN serial /\ DOMAIN parcel' = DOMAIN parcel
      /\ \A s \in DOMAIN serial :
           serial'[s].status = IF s \in Parcels(d) THEN "picked" ELSE serial[s].status
      /\ \A s \in DOMAIN parcel :
           /\ parcel'[s].hold = parcel[s].hold /\ parcel'[s].delivery = parcel[s].delivery
           /\ parcel'[s].status = IF s \in Parcels(d) THEN "picked" ELSE parcel[s].status
  BY Carried DEF RowsInv
<1>2. \A s \in Parcels(d) : s \in DOMAIN parcel /\ s \in DOMAIN serial /\ serial[s].status = "reserved"
  BY ShipmentHolds DEF Complete, PiecesInv, ParcelTells
<1>3. ASSUME NEW k \in DOMAIN hold' PROVE HoldTells(k)'
  <2>1. HoldTells(k) /\ hold[k].serial \in DOMAIN serial BY <1>3, References DEF PiecesInv
  <2> QED BY <1>1, <1>2, <2>1 DEF HoldTells, Owned
<1>4. ASSUME NEW s \in DOMAIN serial' PROVE PieceTells(s)'
  <2>1. PieceTells(s) BY <1>1 DEF PiecesInv
  <2> QED BY <1>1, <1>2, <2>1 DEF PieceTells, Owned
<1>5. ASSUME NEW s \in DOMAIN parcel' PROVE ParcelTells(s)'
  <2>1. ParcelTells(s) BY <1>1 DEF PiecesInv
  <2>2. s \in DOMAIN serial BY <1>1, <2>1, References DEF ParcelTells
  <2> QED BY <1>1, <2>1, <2>2 DEF ParcelTells
<1>6. ASSUME NEW m \in Numbered PROVE LineCounted(m)'
  <2>1. LineCounted(m) BY DEF PiecesInv
  <2>2. \A status : HoldsOf(m, status)' = HoldsOf(m, status) BY DEF HoldsOf
  <2> QED BY <2>1, <2>2 DEF LineCounted
<1> QED BY <1>3, <1>4, <1>5, <1>6 DEF PiecesInv

LEMMA PiecesShipped ==
  ASSUME RowsInv, PiecesInv, NEW d \in Deliveries, ShipDelivery(d), LineOf[d] \in Numbered
  PROVE  PiecesInv'
<1> DEFINE l == LineOf[d]
           C == HoldsIn(d)
<1>1. /\ Complete(d, "picked") /\ Carry(d, "shipped")
      /\ hold' = [k \in DOMAIN hold |->
                    IF k \in C THEN [hold[k] EXCEPT !.status = "consumed"] ELSE hold[k]]
      /\ sold' = [sold EXCEPT ![l].shipped = @ + DeliveredQty[d]]
  BY DEF ShipDelivery, HoldsIn
<1>2. /\ DOMAIN serial' = DOMAIN serial /\ DOMAIN parcel' = DOMAIN parcel
      /\ \A s \in DOMAIN serial :
           serial'[s].status = IF s \in Parcels(d) THEN "shipped" ELSE serial[s].status
      /\ \A s \in DOMAIN parcel :
           /\ parcel'[s].hold = parcel[s].hold /\ parcel'[s].delivery = parcel[s].delivery
           /\ parcel'[s].status = IF s \in Parcels(d) THEN "shipped" ELSE parcel[s].status
  BY <1>1, Carried DEF RowsInv
<1>3. \A s \in Parcels(d) : s \in DOMAIN parcel /\ s \in DOMAIN serial /\ serial[s].status = "picked"
  BY <1>1, ShipmentHolds DEF Complete, PiecesInv, ParcelTells
<1>4. \A k \in C : k \in DOMAIN hold /\ hold[k].status = "active" /\ hold[k].line = l
  <2> SUFFICES ASSUME NEW k \in C
               PROVE  k \in DOMAIN hold /\ hold[k].status = "active" /\ hold[k].line = l
    OBVIOUS
  <2>1. k \in DOMAIN hold /\ hold[k].serial \in Parcels(d) /\ hold[k].status # "released"
        /\ hold[k].line = l
    BY ShipmentHolds
  <2>2. hold[k].status # "consumed" BY <1>3, <2>1 DEF PiecesInv, HoldTells
  <2> QED BY <2>1, <2>2, References DEF HoldRow
<1>5. /\ DOMAIN hold' = DOMAIN hold
      /\ \A k \in DOMAIN hold :
           /\ hold'[k].serial = hold[k].serial /\ hold'[k].line = hold[k].line
           /\ hold'[k].status = IF k \in C THEN "consumed" ELSE hold[k].status
  <2>1. \A r \in HoldRow : LET n == [r EXCEPT !.status = "consumed"] IN
          n.serial = r.serial /\ n.line = r.line /\ n.status = "consumed"
    BY DEF HoldRow
  <2> HIDE DEF C
  <2> QED BY <1>1, <2>1, References
<1>6. IsFiniteSet(C) /\ Cardinality(C) = DeliveredQty[d]
  BY <1>1, ShipmentHolds DEF Complete
<1>7. \A k \in DOMAIN hold :
        hold[k].status # "released" => (k \in C <=> hold[k].serial \in Parcels(d))
  BY ShipmentHolds
<1> HIDE DEF C
<1>8. ASSUME NEW k \in DOMAIN hold' PROVE HoldTells(k)'
  <2>1. HoldTells(k) /\ hold[k].serial \in DOMAIN serial
    BY <1>5, References DEF PiecesInv
  <2>2. \A j \in DOMAIN hold : hold'[j].status = "released" <=> hold[j].status = "released"
    BY <1>4, <1>5
  <2>3. ASSUME hold'[k].status # "released"
        PROVE  /\ serial'[hold'[k].serial].status \in Owned
               /\ hold'[k].status = "consumed" <=> serial'[hold'[k].serial].status = "shipped"
    BY <1>2, <1>5, <1>7, <2>1, <2>2, <2>3 DEF HoldTells, Owned
  <2> QED BY <1>5, <2>1, <2>2, <2>3 DEF HoldTells
<1>9. ASSUME NEW s \in DOMAIN serial' PROVE PieceTells(s)'
  <2>1. PieceTells(s) BY <1>2 DEF PiecesInv
  <2>2. \A j \in DOMAIN hold : hold'[j].status = "released" <=> hold[j].status = "released"
    BY <1>4, <1>5
  <2> QED BY <1>2, <1>3, <1>5, <2>1, <2>2 DEF PieceTells, Owned
<1>10. ASSUME NEW s \in DOMAIN parcel' PROVE ParcelTells(s)'
  <2>1. ParcelTells(s) /\ parcel[s].hold \in DOMAIN hold BY <1>2, References DEF PiecesInv
  <2>2. s \in DOMAIN serial BY <2>1, References DEF ParcelTells
  <2>3. \A j \in DOMAIN hold : hold'[j].status = "released" <=> hold[j].status = "released"
    BY <1>4, <1>5
  <2> QED BY <1>2, <1>5, <2>1, <2>2, <2>3 DEF ParcelTells
<1>11. ASSUME NEW m \in Numbered PROVE LineCounted(m)'
  <2>1. LineCounted(m) /\ m \in SoldLines BY SerialsAssumption DEF PiecesInv
  <2>2. /\ sold'[m].cancelled = sold[m].cancelled
        /\ sold'[m].shipped = IF m = l THEN sold[m].shipped + DeliveredQty[d] ELSE sold[m].shipped
    <3>1. \A r \in SoldRow, q \in Nat : LET n == [r EXCEPT !.shipped = q] IN
            n.shipped = q /\ n.cancelled = r.cancelled
      BY DEF SoldRow
    <3>2. sold[l].shipped + DeliveredQty[d] \in Nat /\ l \in SoldLines
      BY SerialsAssumption DEF RowsInv, SerialsTypeOK, SoldRow
    <3>3. sold \in [SoldLines -> SoldRow] BY DEF RowsInv, SerialsTypeOK
    <3>4. sold' = [sold EXCEPT ![l] = [sold[l] EXCEPT !.shipped = sold[l].shipped + DeliveredQty[d]]]
      BY <1>1
    <3> HIDE DEF l
    <3> QED BY <2>1, <3>1, <3>2, <3>3, <3>4
  <2>3. /\ sold[m].shipped \in Nat /\ SoldQty[m] \in Nat /\ DeliveredQty[d] \in Nat
        /\ Cardinality(HoldsOf(m, "active")) \in Nat /\ Cardinality(HoldsOf(m, "consumed")) \in Nat
    BY <2>1, SerialsAssumption, References DEF RowsInv, SerialsTypeOK, SoldRow
  <2>4. CASE m # l
    <3>1. HoldsOf(m, "active")' = HoldsOf(m, "active")
          /\ HoldsOf(m, "consumed")' = HoldsOf(m, "consumed")
      BY <1>4, <1>5, <2>4 DEF HoldsOf
    <3> QED BY <2>1, <2>2, <2>4, <3>1 DEF LineCounted
  <2>5. CASE m = l
    <3> DEFINE A == HoldsOf(m, "active")
               B == HoldsOf(m, "consumed")
    <3>1. HoldsOf(m, "active")' = A \ C /\ HoldsOf(m, "consumed")' = B \cup C
      BY <1>4, <1>5, <2>5 DEF HoldsOf
    <3>2. C \subseteq A /\ B \cap C = {} BY <1>4, <2>5 DEF HoldsOf
    <3>3. IsFiniteSet(A) /\ IsFiniteSet(B) BY References
    <3> HIDE DEF A, B
    <3>4. Cardinality(B \cup C) = Cardinality(B) + DeliveredQty[d]
      BY <1>6, <3>2, <3>3, DisjointCounts
    <3>5. Cardinality(A) = Cardinality(A \ C) + DeliveredQty[d]
      <4>1. IsFiniteSet(A \ C) BY <3>3, FS_Subset
      <4>2. A = (A \ C) \cup C /\ (A \ C) \cap C = {} BY <3>2
      <4>3. Cardinality((A \ C) \cup C) = Cardinality(A \ C) + Cardinality(C)
        BY <1>6, <4>1, <4>2, DisjointCounts
      <4> QED BY <1>6, <4>2, <4>3
    <3>6. Cardinality(A \ C) \in Nat BY <3>3, FS_Subset, FS_CardinalityType
    <3>7. sold[m].shipped = Cardinality(B) BY <2>1 DEF LineCounted, B
    <3>8. sold[m].cancelled = 0 => Cardinality(A) + sold[m].shipped <= SoldQty[m]
      BY <2>1 DEF LineCounted, A
    <3>9. sold'[m].shipped = sold[m].shipped + DeliveredQty[d] /\ sold'[m].cancelled = sold[m].cancelled
      BY <2>2, <2>5
    <3>10. sold'[m].shipped = Cardinality(B \cup C) BY <3>4, <3>7, <3>9
    <3>11. sold[m].cancelled = 0 => Cardinality(A \ C) + sold'[m].shipped <= SoldQty[m]
      BY <2>3, <3>5, <3>6, <3>8, <3>9
    <3> QED BY <3>1, <3>9, <3>10, <3>11 DEF LineCounted
  <2> QED BY <2>4, <2>5
<1> QED BY <1>8, <1>9, <1>10, <1>11 DEF PiecesInv

LEMMA PiecesMade == ASSUME RowsInv, PiecesInv, MakingNext PROVE PiecesInv'
<1>1. /\ \A k \in DOMAIN attempt : attempt[k].serial \in DOMAIN serial
      /\ \A s \in DOMAIN serial : serial[s] \in SerialRow
  BY DEF RowsInv, SerialsTypeOK, AttemptRow
<1>2. ASSUME NEW s \in DOMAIN serial, NEW x \in Statuses \ Owned, SetSerial(s, x),
             serial[s].status \notin Owned, UNCHANGED <<hold, parcel, sold>>
      PROVE  PiecesInv'
  <2>1. /\ DOMAIN serial' = DOMAIN serial
        /\ \A r \in DOMAIN serial : serial'[r].status = IF r = s THEN x ELSE serial[r].status
    BY <1>1, <1>2, SerialSet
  <2> QED BY <1>2, <2>1, PiecesKept
<1>3. ASSUME NEW p \in Pools, ActivatePool(p) PROVE PiecesInv'
  BY <1>3, PiecesKept DEF ActivatePool
<1>4. ASSUME NEW p \in Pools, NEW n \in Batches, Generate(p, n) PROVE PiecesInv'
  <2> DEFINE fresh == Batch(p, n)
  <2>1. /\ fresh \cap DOMAIN serial = {} /\ UNCHANGED <<hold, parcel, sold>>
        /\ serial' = [s \in DOMAIN serial \cup fresh |->
             IF s \in fresh THEN [pool |-> p, status |-> "waiting_production"] ELSE serial[s]]
    BY <1>4 DEF Generate, Batch
  <2> HIDE DEF fresh
  <2>2. \A s \in DOMAIN serial' :
          \/ s \in DOMAIN serial /\ serial'[s].status = serial[s].status
          \/ s \notin DOMAIN serial /\ serial'[s].status \notin Owned
    BY <2>1 DEF Owned
  <2> QED BY <2>1, <2>2, PiecesKept
<1>5. ASSUME NEW s \in DOMAIN serial, NEW k, StartProduction(s, k) PROVE PiecesInv'
  BY <1>2, <1>5 DEF StartProduction, Statuses, Owned
<1>6. ASSUME NEW s \in DOMAIN serial, NEW x \in Statuses \ Owned, DisposeNg(s, x) PROVE PiecesInv'
  BY <1>2, <1>6 DEF DisposeNg, Owned
<1>7. ASSUME NEW k \in DOMAIN attempt, NEW result \in {"good", "ng"}, CompleteAttempt(k, result)
      PROVE  PiecesInv'
  BY <1>1, <1>2, <1>7 DEF CompleteAttempt, Statuses, Owned
<1>8. \A t \in {"waiting_rework", "waiting_reproduction", "scrapped", "void"} : t \in Statuses \ Owned
  BY DEF Statuses, Owned
<1> QED BY <1>3, <1>4, <1>5, <1>6, <1>7, <1>8 DEF MakingNext

LEMMA PiecesCancelled ==
  ASSUME RowsInv, PiecesInv, NEW l \in SoldLines, CancelLine(l)
  PROVE  PiecesInv'
<1>1. /\ sold[l].cancelled = 0 /\ UNCHANGED <<serial, hold, parcel>>
      /\ sold' = [sold EXCEPT ![l] = [sold[l] EXCEPT !.cancelled = SoldQty[l]]]
  BY DEF CancelLine
<1>2. sold \in [SoldLines -> SoldRow] BY DEF RowsInv, SerialsTypeOK
<1>3. \A m \in SoldLines : /\ sold'[m].shipped = sold[m].shipped
                           /\ m # l => sold'[m].cancelled = sold[m].cancelled
  BY <1>1, <1>2 DEF SoldRow
<1>4. ASSUME NEW m \in Numbered PROVE LineCounted(m)'
  <2>1. LineCounted(m) /\ m \in SoldLines BY SerialsAssumption DEF PiecesInv
  <2>2. \A status : HoldsOf(m, status)' = HoldsOf(m, status) BY <1>1 DEF HoldsOf
  <2>3. sold[m].cancelled # 0 => sold'[m].cancelled # 0 BY <1>1, <1>3, <2>1
  <2> QED BY <1>3, <2>1, <2>2, <2>3 DEF LineCounted
<1>5. \A k \in DOMAIN hold' : HoldTells(k)' BY <1>1 DEF PiecesInv, HoldTells
<1>6. \A s \in DOMAIN serial' : PieceTells(s)' BY <1>1 DEF PiecesInv, PieceTells
<1>7. \A s \in DOMAIN parcel' : ParcelTells(s)' BY <1>1 DEF PiecesInv, ParcelTells
<1> QED BY <1>4, <1>5, <1>6, <1>7 DEF PiecesInv

LEMMA PiecesStep ==
  ASSUME RowsInv, PiecesInv, [DeliveryNext]_deliveryVars
  PROVE  PiecesInv'
<1>1. CASE HoldingNext
  <2>1. \A l, k : \A busy \in SUBSET DOMAIN serial :
          AutoHold(l, k, busy) => \E s \in DOMAIN serial : Hold(l, k, s)
    BY DEF AutoHold
  <2> QED BY <1>1, <2>1, PiecesHeld, PiecesReleased, PiecesAssigned DEF HoldingNext
<1>2. CASE ShippingNext
  <2>1. ASSUME NEW d \in Deliveries, NEW v, NEW a, MoveDelivery(d, v, a) PROVE PiecesInv'
    <3>1. UNCHANGED <<hold, sold>> BY <2>1 DEF MoveDelivery
    <3>2. CASE Complete(d, "assigned") /\ Carry(d, "picked") BY <3>1, <3>2, PiecesPicked
    <3>3. CASE UNCHANGED <<serial, parcel>> BY <3>1, <3>3, PiecesKept
    <3> QED BY <2>1, <3>2, <3>3 DEF MoveDelivery
  <2>2. ASSUME NEW d \in Deliveries, ShipDelivery(d) PROVE PiecesInv'
    <3>1. CASE LineOf[d] \in Numbered BY <2>2, <3>1, PiecesShipped
    <3>2. CASE LineOf[d] \notin Numbered
      <4>1. UNCHANGED <<serial, parcel, hold>> BY <2>2, <3>2 DEF ShipDelivery
      <4>2. \A m \in SoldLines \ {LineOf[d]} : sold'[m] = sold[m]
        BY <2>2 DEF ShipDelivery, RowsInv, SerialsTypeOK
      <4>3. Numbered \subseteq SoldLines \ {LineOf[d]} BY <3>2, SerialsAssumption
      <4> QED BY <4>1, <4>2, <4>3, PiecesKept
    <3> QED BY <3>1, <3>2
  <2> QED BY <1>2, <2>1, <2>2, PiecesCancelled DEF ShippingNext
<1>3. CASE Receiving
  <2> PICK c \in Cases, k \in ReturnKeys, a \in ReturnQty, b \in ReturnQty : Receive(c, k, a, b)
    BY <1>3 DEF Receiving
  <2> DEFINE l == CaseLine[c]
             n == Returns(l, a + b)
  <2>1. /\ sold' = [sold EXCEPT ![l] = [sold[l] EXCEPT !.returned = n]]
        /\ UNCHANGED <<serial, hold, parcel>>
    BY DEF Receive
  <2>2. sold \in [SoldLines -> SoldRow] BY DEF RowsInv, SerialsTypeOK
  <2> HIDE DEF l, n
  <2>3. \A m \in SoldLines : /\ sold'[m].shipped = sold[m].shipped
                             /\ sold'[m].cancelled = sold[m].cancelled
    BY <2>1, <2>2 DEF SoldRow
  <2> QED BY <2>1, <2>3, PiecesKept, SerialsAssumption
<1>4. CASE UNCHANGED serialVars BY <1>4, PiecesKept DEF serialVars
<1> QED BY <1>1, <1>2, <1>3, <1>4, PartMoves, PiecesMade DEF SerialsMove

\* A numbered piece is promised to one order line at most, from its reservation
\* to its delivery; it is in a shipment of that line, leaves with it, and the line
\* counts it (reserve_product_serial, release_product_serial,
\* assign_serial_to_shipment, transition_shipment, ship_sales_shipment).
THEOREM PiecesHaveOneOwnerAlways == DeliverySpec => []PiecesHaveOneOwner
<1>1. DeliveryInit => RowsInv /\ PiecesInv BY RowsStart, PiecesStart
<1>2. RowsInv /\ PiecesInv /\ [DeliveryNext]_deliveryVars => RowsInv' /\ PiecesInv'
  BY RowsStep, PiecesStep
<1> QED BY <1>1, <1>2, PiecesTell, PTL DEF DeliverySpec
-----------------------------------------------------------------------------
(***************************************************************************)
(* Rows of the stock.  A row's key names the task or the receipt it is of, *)
(* so that the rows of each are told apart; what they move on a balance    *)
(* adds up.                                                                *)
(***************************************************************************)
Ledgered(rows) == IsFiniteSet(rows) /\ \A r \in rows : r.delta \in Int

LEMMA MovedNone == \A b : Moved(b, {}) = 0
<1> SUFFICES ASSUME NEW b PROVE Moved(b, {}) = 0 OBVIOUS
<1> DEFINE f == [r \in {} |-> r.delta]
<1>1. {r \in {} : r.balance = b} = {} OBVIOUS
<1>2. Moved(b, {}) = SumOver(f, {}) BY <1>1 DEF Moved
<1> HIDE DEF f
<1> QED BY <1>2, SumEmpty

LEMMA MovedUnion ==
  ASSUME NEW R, Ledgered(R), NEW T, Ledgered(T), R \cap T = {}, NEW b
  PROVE  /\ Ledgered(R \cup T) /\ Moved(b, R) \in Int /\ Moved(b, T) \in Int
         /\ Moved(b, R \cup T) = Moved(b, R) + Moved(b, T)
<1> DEFINE f == [r \in R \cup T |-> r.delta]
           g == [r \in R |-> r.delta]
           h == [r \in T |-> r.delta]
           X == {r \in R : r.balance = b}
           Y == {r \in T : r.balance = b}
<1>1. IsFiniteSet(R) /\ IsFiniteSet(T) BY DEF Ledgered
<1>2. IsFiniteSet(X) /\ IsFiniteSet(Y) BY <1>1, FS_Subset
<1>3. X \cap Y = {} /\ {r \in R \cup T : r.balance = b} = X \cup Y OBVIOUS
<1>4. /\ \A x \in X \cup Y : f[x] \in Int
      /\ \A x \in X : g[x] = f[x] /\ g[x] \in Int
      /\ \A x \in Y : h[x] = f[x] /\ h[x] \in Int
  BY DEF Ledgered
<1>5. Moved(b, R) = SumOver(g, X) /\ Moved(b, T) = SumOver(h, Y) BY DEF Moved
<1>6. Moved(b, R \cup T) = SumOver(f, X \cup Y) BY <1>3 DEF Moved
<1>7. Ledgered(R \cup T) BY <1>1, FS_Union DEF Ledgered
<1> HIDE DEF f, g, h, X, Y
<1>8. SumOver(f, X \cup Y) = SumOver(f, X) + SumOver(f, Y) BY <1>2, <1>3, <1>4, SumUnion
<1>9. SumOver(g, X) = SumOver(f, X) BY <1>2, <1>4, SumAgree
<1>10. SumOver(h, Y) = SumOver(f, Y) BY <1>2, <1>4, SumAgree
<1>11. SumOver(g, X) \in Int BY <1>2, <1>4, SumType
<1>12. SumOver(h, Y) \in Int BY <1>2, <1>4, SumType
<1> QED BY <1>5, <1>6, <1>7, <1>8, <1>9, <1>10, <1>11, <1>12

LEMMA MovedOne ==
  ASSUME NEW x, x.delta \in Int, NEW b
  PROVE  Ledgered({x}) /\ Moved(b, {x}) = IF x.balance = b THEN x.delta ELSE 0
<1> DEFINE f == [r \in {x} |-> r.delta]
           X == {r \in {x} : r.balance = b}
<1>1. Moved(b, {x}) = SumOver(f, X) BY DEF Moved
<1>2. f[x] = x.delta OBVIOUS
<1>3. CASE x.balance # b
  <2>1. X = {} BY <1>3
  <2> HIDE DEF f
  <2>2. SumOver(f, {}) = 0 BY SumEmpty
  <2> QED BY <1>1, <1>3, <2>1, <2>2, FS_Singleton DEF Ledgered
<1>4. CASE x.balance = b
  <2>1. X = {} \cup {x} BY <1>4
  <2>2. IsFiniteSet({}) /\ x \notin {} BY FS_EmptySet
  <2> HIDE DEF f
  <2>3. SumOver(f, {} \cup {x}) = SumOver(f, {}) + f[x]
    <3>1. \A y \in {} \cup {x} : f[y] \in Int BY <1>2
    <3> QED BY <2>2, <3>1, SumAdd
  <2>4. SumOver(f, {}) = 0 BY SumEmpty
  <2>5. SumOver(f, {} \cup {x}) = x.delta BY <1>2, <2>3, <2>4
  <2>6. Moved(b, {x}) = x.delta BY <1>1, <2>1, <2>5
  <2> QED BY <1>4, <2>6, FS_Singleton DEF Ledgered
<1> QED BY <1>3, <1>4

\* A pair of rows, of which those that move nothing are left out.
LEMMA MovedPair ==
  ASSUME NEW x, NEW y, x # y, x.delta \in Int, y.delta \in Int, NEW b,
         NEW R, R = {r \in {x, y} : r.delta # 0}
  PROVE  /\ Ledgered(R)
         /\ Moved(b, R) = (IF x.balance = b THEN x.delta ELSE 0)
                        + (IF y.balance = b THEN y.delta ELSE 0)
<1> DEFINE X == IF x.delta # 0 THEN {x} ELSE {}
           Y == IF y.delta # 0 THEN {y} ELSE {}
<1>1. R = X \cup Y /\ X \cap Y = {} OBVIOUS
<1>2. Ledgered({}) /\ Moved(b, {}) = 0 BY MovedNone, FS_EmptySet DEF Ledgered
<1>3. Ledgered(X) /\ Moved(b, X) = IF x.balance = b THEN x.delta ELSE 0
  <2>1. CASE x.delta = 0 BY <1>2, <2>1
  <2>2. CASE x.delta # 0 BY <2>2, MovedOne
  <2> QED BY <2>1, <2>2
<1>4. Ledgered(Y) /\ Moved(b, Y) = IF y.balance = b THEN y.delta ELSE 0
  <2>1. CASE y.delta = 0 BY <1>2, <2>1
  <2>2. CASE y.delta # 0 BY <2>2, MovedOne
  <2> QED BY <2>1, <2>2
<1> HIDE DEF X, Y
<1>5. Ledgered(X \cup Y) /\ Moved(b, X \cup Y) = Moved(b, X) + Moved(b, Y)
  BY <1>1, <1>3, <1>4, MovedUnion
<1> QED BY <1>1, <1>3, <1>4, <1>5

LEMMA PutMoves ==
  ASSUME NEW t, PutQty # 0, NEW b
  PROVE  /\ Ledgered(PutRows(t)) /\ \A r \in PutRows(t) : r.key[1] = t
         /\ Moved(b, PutRows(t)) = (IF b = ToAt THEN PutQty ELSE 0) - (IF b = FromAt THEN PutQty ELSE 0)
<1> DEFINE x == [key |-> <<t, "out">>, balance |-> FromAt, delta |-> -PutQty]
           y == [key |-> <<t, "in">>, balance |-> ToAt, delta |-> PutQty]
<1>1. x # y /\ x.delta = -PutQty /\ y.delta = PutQty /\ x.balance = FromAt /\ y.balance = ToAt
      /\ x.key[1] = t /\ y.key[1] = t
  OBVIOUS
<1>2. PutQty \in Int /\ -PutQty \in Int /\ -PutQty # 0 BY TasksAssumption
<1>3. PutRows(t) = {x, y} BY DEF PutRows
<1> HIDE DEF x, y
<1>4. {x, y} = {r \in {x, y} : r.delta # 0} BY <1>1, <1>2
<1>5. /\ Ledgered({x, y})
      /\ Moved(b, {x, y}) = (IF x.balance = b THEN x.delta ELSE 0)
                          + (IF y.balance = b THEN y.delta ELSE 0)
  BY <1>1, <1>2, <1>4, MovedPair
<1> QED BY <1>1, <1>2, <1>3, <1>5

LEMMA ReturnMoves ==
  ASSUME NEW c, NEW k, NEW accepted \in Nat, NEW rejected \in Nat, NEW b
  PROVE  LET rows == ReturnRows(c, k, accepted, rejected) IN
         /\ Ledgered(rows) /\ \A r \in rows : r.key[1] = k
         /\ Moved(b, rows) = (IF b = AcceptAt THEN accepted ELSE 0)
                           + (IF b = ExceptAt THEN rejected ELSE 0)
<1> DEFINE x == [key |-> <<k, "accepted", c>>, balance |-> AcceptAt, delta |-> accepted]
           y == [key |-> <<k, "exception", c>>, balance |-> ExceptAt, delta |-> rejected]
           R == {r \in {x, y} : r.delta # 0}
<1>1. x # y /\ x.delta = accepted /\ y.delta = rejected /\ x.balance = AcceptAt /\ y.balance = ExceptAt
      /\ x.key[1] = k /\ y.key[1] = k
  OBVIOUS
<1>2. ReturnRows(c, k, accepted, rejected) = R BY DEF ReturnRows
<1>3. \A r \in R : r.key[1] = k BY <1>1
<1> HIDE DEF x, y
<1>4. /\ Ledgered(R)
      /\ Moved(b, R) = (IF x.balance = b THEN x.delta ELSE 0)
                     + (IF y.balance = b THEN y.delta ELSE 0)
  <2>1. x.delta \in Int /\ y.delta \in Int BY <1>1
  <2> QED BY <1>1, <2>1, MovedPair
<1> QED BY <1>1, <1>2, <1>3, <1>4

\* Every row of the stock is a task's or a receipt's.
BooksInv ==
  /\ Ledgered(booked) /\ DOMAIN receipt \subseteq ReturnKeys
  /\ \A r \in booked : r.key[1] \in Tasks \cup DOMAIN receipt

LEMMA BooksStart == ASSUME DeliveryInit PROVE BooksInv
BY FS_EmptySet DEF DeliveryInit, StockInit, AfterSalesInit, BooksInv, Ledgered

\* What one receipt adds.
CameBack(c, k, a, b) ==
  /\ booked' = booked \cup ReturnRows(c, k, a, b) /\ booked \cap ReturnRows(c, k, a, b) = {}
  /\ k \notin DOMAIN receipt /\ DOMAIN receipt' = DOMAIN receipt \cup {k}
  /\ receipt'[k] = [case |-> c, accepted |-> a, rejected |-> b]
  /\ \A j \in DOMAIN receipt : receipt'[j] = receipt[j]
  /\ \A r \in ReturnRows(c, k, a, b) : r.key[1] = k
  /\ k \notin Tasks

LEMMA ReceiptBooks ==
  ASSUME BooksInv, NEW c, NEW k \in ReturnKeys, NEW a \in ReturnQty, NEW b \in ReturnQty,
         Receive(c, k, a, b)
  PROVE  CameBack(c, k, a, b)
<1> DEFINE R == ReturnRows(c, k, a, b)
<1>1. k \notin DOMAIN receipt /\ Book(R) /\ k \notin Tasks BY DeliveryAssumption DEF Receive
<1>2. a \in Nat /\ b \in Nat BY AfterSalesAssumption
<1>3. \A r \in R : r.key[1] = k BY <1>2, ReturnMoves
<1>4. \A r \in R, x \in booked : x.key # r.key BY <1>1, <1>3 DEF BooksInv
<1> HIDE DEF R
<1>5. Fresh(R) = R BY <1>4 DEF Fresh
<1>6. booked' = booked \cup R BY <1>1, <1>5 DEF Book
<1>7. receipt' = [y \in DOMAIN receipt \cup {k} |->
                    IF y = k THEN [case |-> c, accepted |-> a, rejected |-> b] ELSE receipt[y]]
  BY DEF Receive, With
<1>8. booked \cap R = {} BY <1>4
<1> QED BY <1>1, <1>3, <1>6, <1>7, <1>8 DEF CameBack, R

\* What putting away adds: both rows of the task, once.
TaskRows(t) == {r \in booked : r.key[1] = t}

LEMMA PutawayBooks ==
  ASSUME BooksInv, NEW t, Book(PutRows(t)), TaskRows(t) \in {{}, PutRows(t)}
  PROVE  PutQty # 0 /\ booked' = booked \cup PutRows(t)
<1>1. PutQty # 0
  <2>1. [key |-> <<t, "in">>, balance |-> ToAt, delta |-> PutQty] \in PutRows(t) BY DEF PutRows
  <2>2. \A r \in PutRows(t) : r.delta # 0 BY DEF Book
  <2> QED BY <2>1, <2>2
<1>2. \A r \in PutRows(t) : r.key[1] = t BY <1>1, PutMoves
<1>3. CASE TaskRows(t) = {}
  <2>1. \A r \in PutRows(t), x \in booked : x.key # r.key BY <1>2, <1>3 DEF TaskRows
  <2>2. Fresh(PutRows(t)) = PutRows(t) BY <2>1 DEF Fresh
  <2> QED BY <1>1, <2>2 DEF Book
<1>4. CASE TaskRows(t) = PutRows(t)
  <2>1. PutRows(t) \subseteq booked BY <1>4 DEF TaskRows
  <2>2. Fresh(PutRows(t)) = {} BY <2>1 DEF Fresh
  <2> QED BY <1>1, <2>1, <2>2 DEF Book
<1> QED BY <1>3, <1>4

TaskDone(t) ==
  /\ task[t].scanned = SumOver([k \in DOMAIN scan |-> scan[k].qty], ScansOf(t))
  /\ task[t].scanned <= PlannedQty(t) /\ task[t].completed \in {0, PlannedQty(t)}
  /\ TaskType[t] = "putaway" =>
       TaskRows(t) = IF task[t].completed > 0 THEN PutRows(t) ELSE {}

TaskStatuses == {"draft", "released", "in_progress", "completed"}
TasksInv ==
  /\ TasksTypeOK /\ IsFiniteSet(DOMAIN scan)
  /\ taskForm \in [Tasks -> TaskStatuses \cup {NoTask}]
  /\ \A t \in Tasks : TaskDone(t)

LEMMA Planned == \A t \in Tasks : PlannedQty(t) \in Nat
BY TasksAssumption, SerialsAssumption DEF PlannedQty

LEMMA TasksTell == ASSUME TasksInv PROVE TasksAreDoneOnce
<1> SUFFICES ASSUME NEW t \in Tasks, TaskType[t] = "putaway", NEW b \in Balances
             PROVE  LET done == IF task[t].completed > 0 THEN PutQty ELSE 0 IN
                    Moved(b, TaskRows(t)) =
                      (IF b = ToAt THEN done ELSE 0) - (IF b = FromAt THEN done ELSE 0)
  BY DEF TasksAreDoneOnce, TasksInv, TaskDone, TaskRows
<1>1. TaskDone(t) /\ PlannedQty(t) = PutQty BY DEF TasksInv, PlannedQty
<1>2. CASE task[t].completed > 0
  <2>1. PutQty # 0 /\ TaskRows(t) = PutRows(t) BY <1>1, <1>2 DEF TaskDone
  <2> QED BY <1>2, <2>1, PutMoves
<1>3. CASE ~(task[t].completed > 0)
  <2>1. TaskRows(t) = {} BY <1>1, <1>3 DEF TaskDone
  <2> QED BY <1>3, <2>1, MovedNone
<1> QED BY <1>2, <1>3

LEMMA TasksStart == ASSUME DeliveryInit PROVE TasksInv
<1>1. /\ task = [t \in Tasks |-> [status |-> "draft", scanned |-> 0, completed |-> 0]]
      /\ DOMAIN scan = {} /\ taskForm = [t \in Tasks |-> NoTask] /\ booked = {}
  BY DEF DeliveryInit, TasksInit, StockInit
<1>2. TasksTypeOK BY <1>1 DEF TasksTypeOK, TaskRow
<1>3. ASSUME NEW t \in Tasks PROVE TaskDone(t)
  <2> DEFINE f == [k \in DOMAIN scan |-> scan[k].qty]
  <2>1. ScansOf(t) = {} BY <1>1 DEF ScansOf
  <2>2. task[t].scanned = 0 /\ task[t].completed = 0 BY <1>1
  <2>3. TaskRows(t) = {} BY <1>1 DEF TaskRows
  <2>4. 0 <= PlannedQty(t) BY Planned
  <2>5. SumOver(f, ScansOf(t)) = 0
    <3> HIDE DEF f
    <3> QED BY <2>1, SumEmpty
  <2> QED BY <2>2, <2>3, <2>4, <2>5 DEF TaskDone
<1>4. taskForm \in [Tasks -> TaskStatuses \cup {NoTask}] BY <1>1
<1> QED BY <1>1, <1>2, <1>3, <1>4, FS_EmptySet DEF TasksInv

\* A step that keeps the scans, what tasks count, and their rows.
LEMMA TasksKept ==
  ASSUME TasksInv, UNCHANGED scan, DOMAIN serial \subseteq DOMAIN serial',
         task' \in [Tasks -> TaskRow], taskForm' \in [Tasks -> TaskStatuses \cup {NoTask}],
         \A t \in Tasks : /\ task'[t].scanned = task[t].scanned
                          /\ task'[t].completed = task[t].completed
                          /\ TaskRows(t)' = TaskRows(t)
  PROVE  TasksInv'
<1>1. \A t \in Tasks : ScansOf(t)' = ScansOf(t) BY DEF ScansOf
<1>2. \A t \in Tasks : TaskDone(t)' BY <1>1 DEF TasksInv, TaskDone
<1>3. TasksTypeOK' BY DEF TasksInv, TasksTypeOK, ScanRow
<1> QED BY <1>2, <1>3 DEF TasksInv

LEMMA TaskRowMoves ==
  ASSUME NEW r \in TaskRow, NEW x \in TaskStatuses
  PROVE  LET n == [r EXCEPT !.status = x] IN
         n \in TaskRow /\ n.scanned = r.scanned /\ n.completed = r.completed
BY DEF TaskRow, TaskStatuses

\* Releasing a task, and an edit, write its status.
LEMMA StatusWritten ==
  ASSUME TasksInv, NEW t \in Tasks, NEW x \in TaskStatuses, task' = [task EXCEPT ![t].status = x],
         UNCHANGED <<scan, booked>>, taskForm' \in [Tasks -> TaskStatuses \cup {NoTask}],
         DOMAIN serial \subseteq DOMAIN serial'
  PROVE  TasksInv'
<1> DEFINE n == [task[t] EXCEPT !.status = x]
<1>1. task' = [task EXCEPT ![t] = n] OBVIOUS
<1>2. task \in [Tasks -> TaskRow] /\ 0 \in Nat BY DEF TasksInv, TasksTypeOK
<1>3. /\ task' \in [Tasks -> TaskRow]
      /\ \A u \in Tasks : task'[u].scanned = task[u].scanned /\ task'[u].completed = task[u].completed
  <2>1. n \in TaskRow /\ n.scanned = task[t].scanned /\ n.completed = task[t].completed
    BY <1>2, TaskRowMoves
  <2> HIDE DEF n
  <2> QED BY <1>1, <1>2, <2>1
<1>4. \A u \in Tasks : TaskRows(u)' = TaskRows(u) BY DEF TaskRows
<1> QED BY <1>3, <1>4, TasksKept

LEMMA ScanRecorded ==
  ASSUME TasksInv, NEW t \in Tasks, NEW k \in ScanKeys, NEW v \in DOMAIN serial \cup {SkuCode},
         NEW n \in ScanQty, RecordScan(t, k, v, n)
  PROVE  TasksInv'
<1> DEFINE row == [task |-> t, value |-> v, qty |-> n]
           m == task[t].scanned + n
           after == [task[t] EXCEPT !.scanned = m, !.status = "in_progress"]
<1>1. /\ k \notin DOMAIN scan /\ m <= PlannedQty(t)
      /\ scan' = [y \in DOMAIN scan \cup {k} |-> IF y = k THEN row ELSE scan[y]]
      /\ task' = [task EXCEPT ![t] = after]
      /\ UNCHANGED <<serial, booked, taskForm>>
  BY DEF RecordScan, MayScan, With, serialVars, stockVars
<1>2. n \in Nat BY TasksAssumption
<1>3. /\ task \in [Tasks -> TaskRow] /\ \A j \in DOMAIN scan : scan[j] \in ScanRow
      /\ "in_progress" \in TaskStatuses
  BY DEF TasksInv, TasksTypeOK, TaskStatuses
<1>4. m \in Nat BY <1>2, <1>3 DEF TaskRow
<1>5. row \in ScanRow /\ row.task = t /\ row.qty = n BY <1>2 DEF ScanRow
<1> HIDE DEF row, m
<1>6. after \in TaskRow /\ after.scanned = m /\ after.completed = task[t].completed
  <2>1. \A r \in TaskRow : LET x == [r EXCEPT !.scanned = m, !.status = "in_progress"] IN
          x \in TaskRow /\ x.scanned = m /\ x.completed = r.completed
    BY <1>4 DEF TaskRow
  <2> QED BY <1>3, <2>1
<1> HIDE DEF after
<1>7. /\ task' \in [Tasks -> TaskRow] /\ task'[t].scanned = m
      /\ \A u \in Tasks : task'[u].completed = task[u].completed
      /\ \A u \in Tasks \ {t} : task'[u].scanned = task[u].scanned
  BY <1>1, <1>3, <1>6
<1>8. /\ DOMAIN scan' = DOMAIN scan \cup {k} /\ scan'[k] = row
      /\ \A j \in DOMAIN scan : scan'[j] = scan[j]
  BY <1>1
<1>9. TasksTypeOK'
  <2>1. ScanRow' = ScanRow BY <1>1 DEF ScanRow
  <2>2. \A j \in DOMAIN scan' : scan'[j] \in ScanRow BY <1>3, <1>5, <1>8
  <2> QED BY <1>7, <2>1, <2>2 DEF TasksTypeOK
<1>10. IsFiniteSet(DOMAIN scan) BY DEF TasksInv
<1>11. ASSUME NEW u \in Tasks PROVE TaskDone(u)'
  <2> DEFINE f == [j \in DOMAIN scan |-> scan[j].qty]
             g == [j \in DOMAIN scan' |-> scan'[j].qty]
             S == ScansOf(u)
  <2>1. TaskDone(u) BY DEF TasksInv
  <2>2. IsFiniteSet(S) BY <1>10, FS_Subset DEF ScansOf
  <2>3. \A j \in S : f[j] \in Int /\ g[j] = f[j] BY <1>3, <1>8 DEF ScansOf, ScanRow
  <2>4. TaskRows(u)' = TaskRows(u) BY <1>1 DEF TaskRows
  <2>5. S' = IF u = t THEN S \cup {k} ELSE S BY <1>1, <1>5, <1>8 DEF ScansOf
  <2>6. k \notin S /\ g[k] = n BY <1>1, <1>5, <1>8 DEF ScansOf
  <2>7. task[u].scanned = SumOver(f, S) BY <2>1 DEF TaskDone
  <2> HIDE DEF f, g
  <2>8. SumOver(g, S) = SumOver(f, S) BY <2>2, <2>3, SumAgree
  <2>9. task'[u].scanned = SumOver(g, S')
    <3>1. CASE u # t BY <1>7, <2>5, <2>7, <2>8, <3>1
    <3>2. CASE u = t
      <4>1. /\ IsFiniteSet(S) /\ k \notin S /\ g[k] = n
            /\ \A y \in S \cup {k} : g[y] \in Int
        BY <1>2, <2>2, <2>3, <2>6
      <4>2. SumOver(g, S \cup {k}) = SumOver(g, S) + g[k]
        <5> HIDE DEF S
        <5> QED BY ONLY <4>1, SumAdd
      <4> QED BY <1>7, <2>5, <2>7, <2>8, <3>2, <4>1, <4>2 DEF m
    <3> QED BY <3>1, <3>2
  <2>10. task'[u].scanned <= PlannedQty(u) BY <1>1, <1>7, <2>1 DEF TaskDone
  <2> QED BY <1>7, <2>1, <2>4, <2>9, <2>10 DEF TaskDone, g
<1>12. IsFiniteSet(DOMAIN scan') BY <1>8, <1>10, FS_AddElement
<1>13. taskForm' \in [Tasks -> TaskStatuses \cup {NoTask}] BY <1>1 DEF TasksInv
<1> QED BY <1>9, <1>11, <1>12, <1>13 DEF TasksInv

LEMMA TaskCompleted ==
  ASSUME TasksInv, BooksInv, NEW t \in Tasks, CompleteTask(t), DOMAIN serial \subseteq DOMAIN serial'
  PROVE  TasksInv'
<1> DEFINE after == [task[t] EXCEPT !.status = "completed", !.completed = PlannedQty(t)]
<1>1. /\ task' = [task EXCEPT ![t] = after]
      /\ UNCHANGED <<scan, taskForm>>
      /\ TaskType[t] = "putaway" => Book(PutRows(t))
      /\ TaskType[t] # "putaway" => UNCHANGED booked
  BY DEF CompleteTask, stockVars
<1>2. /\ task \in [Tasks -> TaskRow] /\ "completed" \in TaskStatuses /\ PlannedQty(t) \in Nat
  BY Planned DEF TasksInv, TasksTypeOK, TaskStatuses
<1>3. /\ task' \in [Tasks -> TaskRow] /\ task'[t].completed = PlannedQty(t)
      /\ \A u \in Tasks : task'[u].scanned = task[u].scanned
      /\ \A u \in Tasks \ {t} : task'[u].completed = task[u].completed
  <2>1. \A r \in TaskRow, m \in Nat : LET x == [r EXCEPT !.status = "completed", !.completed = m] IN
          x \in TaskRow /\ x.scanned = r.scanned /\ x.completed = m
    BY DEF TaskRow
  <2>2. after \in TaskRow /\ after.scanned = task[t].scanned /\ after.completed = PlannedQty(t)
    BY <1>2, <2>1
  <2> HIDE DEF after
  <2> QED BY <1>1, <1>2, <2>2
<1> HIDE DEF after
<1>4. \A u \in Tasks : ScansOf(u)' = ScansOf(u) BY <1>1 DEF ScansOf
<1>5. TasksTypeOK' BY <1>1, <1>3 DEF TasksInv, TasksTypeOK, ScanRow
<1>6. TaskType[t] = "putaway" => PutQty # 0 /\ booked' = booked \cup PutRows(t)
  BY <1>1, PutawayBooks DEF TasksInv, TaskDone
<1>7. TaskType[t] = "putaway" => \A r \in PutRows(t) : r.key[1] = t BY <1>6, PutMoves
<1>8. ASSUME NEW u \in Tasks, TaskType[u] = "putaway"
      PROVE  TaskRows(u)' = IF task'[u].completed > 0 THEN PutRows(u) ELSE {}
  <2>1. TaskRows(u) = IF task[u].completed > 0 THEN PutRows(u) ELSE {}
    BY <1>8 DEF TasksInv, TaskDone
  <2>2. CASE u = t
    <3>1. task'[u].completed > 0
      <4>1. PlannedQty(t) = PutQty /\ PutQty \in Nat /\ PutQty # 0
        BY <1>6, <1>8, <2>2, TasksAssumption DEF PlannedQty
      <4> QED BY <1>3, <2>2, <4>1
    <3>2. TaskRows(u)' = TaskRows(u) \cup PutRows(u) BY <1>6, <1>7, <1>8, <2>2 DEF TaskRows
    <3> QED BY <2>1, <3>1, <3>2
  <2>3. CASE u # t
    <3>1. TaskRows(u)' = TaskRows(u) BY <1>1, <1>6, <1>7, <2>3 DEF TaskRows
    <3> QED BY <1>3, <2>1, <2>3, <3>1
  <2> QED BY <2>2, <2>3
<1>9. ASSUME NEW u \in Tasks PROVE TaskDone(u)'
  <2>1. TaskDone(u) BY DEF TasksInv
  <2> QED BY <1>1, <1>3, <1>4, <1>8, <2>1 DEF TaskDone
<1> QED BY <1>1, <1>5, <1>9 DEF TasksInv

LEMMA BooksStep ==
  ASSUME BooksInv, TasksInv, [DeliveryNext]_deliveryVars
  PROVE  BooksInv'
<1>1. ASSUME TasksNext, UNCHANGED ownAfter PROVE BooksInv'
  <2>1. UNCHANGED receipt BY <1>1 DEF ownAfter
  <2>2. ASSUME NEW t \in Tasks, CompleteTask(t) PROVE BooksInv'
    <3>1. CASE TaskType[t] = "putaway"
      <4>1. Book(PutRows(t)) BY <2>2, <3>1 DEF CompleteTask
      <4>2. TaskRows(t) \in {{}, PutRows(t)} BY <3>1 DEF TasksInv, TaskDone
      <4>3. PutQty # 0 /\ booked' = booked \cup PutRows(t) BY <4>1, <4>2, PutawayBooks
      <4>4. Ledgered(PutRows(t)) /\ \A r \in PutRows(t) : r.key[1] = t BY <4>3, PutMoves
      <4>5. Ledgered(booked \cup PutRows(t)) BY <4>4, FS_Union DEF BooksInv, Ledgered
      <4> QED BY <2>1, <4>3, <4>4, <4>5 DEF BooksInv
    <3>2. CASE TaskType[t] # "putaway"
      <4>1. UNCHANGED booked BY <2>2, <3>2 DEF CompleteTask, stockVars
      <4> QED BY <2>1, <4>1 DEF BooksInv
    <3> QED BY <3>1, <3>2
  <2>3. ASSUME UNCHANGED stockVars PROVE BooksInv' BY <2>1, <2>3 DEF BooksInv, stockVars
  <2> QED BY <1>1, <2>2, <2>3 DEF TasksNext, ReleaseTask, OpenTaskForm, SaveTaskForm, RecordScan
<1>2. CASE Receiving
  <2> PICK c \in Cases, k \in ReturnKeys, a \in ReturnQty, b \in ReturnQty : Receive(c, k, a, b)
    BY <1>2 DEF Receiving
  <2> DEFINE R == ReturnRows(c, k, a, b)
  <2>1. CameBack(c, k, a, b) BY ReceiptBooks
  <2>2. /\ booked' = booked \cup R /\ DOMAIN receipt' = DOMAIN receipt \cup {k}
        /\ \A r \in R : r.key[1] = k
    BY <2>1 DEF CameBack
  <2>3. Ledgered(R) BY ReturnMoves, AfterSalesAssumption
  <2> HIDE DEF R
  <2>4. Ledgered(booked \cup R) BY <2>3, FS_Union DEF BooksInv, Ledgered
  <2> QED BY <2>2, <2>4 DEF BooksInv
<1>3. CASE UNCHANGED <<stockVars, receipt>> BY <1>3 DEF BooksInv, stockVars
<1> QED BY <1>1, <1>2, <1>3, PartMoves

LEMMA TasksStep ==
  ASSUME RowsInv, BooksInv, TasksInv, [DeliveryNext]_deliveryVars
  PROVE  TasksInv'
<1>1. DOMAIN serial \subseteq DOMAIN serial' BY RowsStep
<1>2. CASE TasksNext
  <2>1. ASSUME NEW t \in Tasks, ReleaseTask(t) PROVE TasksInv'
    <3>1. /\ task' = [task EXCEPT ![t].status = "released"] /\ UNCHANGED <<scan, booked, taskForm>>
          /\ "released" \in TaskStatuses
      BY <2>1 DEF ReleaseTask, stockVars, TaskStatuses
    <3>2. taskForm' \in [Tasks -> TaskStatuses \cup {NoTask}] BY <3>1 DEF TasksInv
    <3> QED BY <1>1, <3>1, <3>2, StatusWritten
  <2>2. ASSUME NEW t \in Tasks, OpenTaskForm(t) PROVE TasksInv'
    <3>1. /\ taskForm' = [taskForm EXCEPT ![t] = task[t].status] /\ task[t].status = "draft"
          /\ UNCHANGED <<task, scan, booked>>
      BY <2>2 DEF OpenTaskForm, stockVars
    <3>2. taskForm' \in [Tasks -> TaskStatuses \cup {NoTask}] BY <3>1 DEF TasksInv, TaskStatuses
    <3>3. \A u \in Tasks : TaskRows(u)' = TaskRows(u) BY <3>1 DEF TaskRows
    <3>4. task' \in [Tasks -> TaskRow] BY <3>1 DEF TasksInv, TasksTypeOK
    <3> QED BY <1>1, <3>1, <3>2, <3>3, <3>4, TasksKept
  <2>3. ASSUME NEW t \in Tasks, SaveTaskForm(t) PROVE TasksInv'
    <3>1. /\ task' = [task EXCEPT ![t].status = taskForm[t]] /\ taskForm[t] # NoTask
          /\ taskForm' = [taskForm EXCEPT ![t] = NoTask] /\ UNCHANGED <<scan, booked>>
      BY <2>3 DEF SaveTaskForm, stockVars
    <3>2. taskForm[t] \in TaskStatuses /\ taskForm' \in [Tasks -> TaskStatuses \cup {NoTask}]
      BY <3>1 DEF TasksInv
    <3> QED BY <1>1, <3>1, <3>2, StatusWritten
  <2> QED BY <1>1, <1>2, <2>1, <2>2, <2>3, TaskCompleted, ScanRecorded DEF TasksNext
<1>3. CASE UNCHANGED ownTasks
  <2>1. UNCHANGED <<task, scan, taskForm>> BY <1>3 DEF ownTasks
  <2>2. task' \in [Tasks -> TaskRow] /\ taskForm' \in [Tasks -> TaskStatuses \cup {NoTask}]
    BY <2>1 DEF TasksInv, TasksTypeOK
  <2>3. CASE Receiving
    <3> PICK c \in Cases, k \in ReturnKeys, a \in ReturnQty, b \in ReturnQty : Receive(c, k, a, b)
      BY <2>3 DEF Receiving
    <3> DEFINE R == ReturnRows(c, k, a, b)
    <3>1. CameBack(c, k, a, b) BY ReceiptBooks
    <3>2. booked' = booked \cup R /\ (\A r \in R : r.key[1] = k) /\ k \notin Tasks
      BY <3>1 DEF CameBack
    <3> HIDE DEF R
    <3>3. \A u \in Tasks : TaskRows(u)' = TaskRows(u) BY <3>2 DEF TaskRows
    <3> QED BY <1>1, <2>1, <2>2, <3>3, TasksKept
  <2>4. CASE UNCHANGED stockVars
    <3>1. \A u \in Tasks : TaskRows(u)' = TaskRows(u) BY <2>4 DEF TaskRows, stockVars
    <3> QED BY <1>1, <2>1, <2>2, <3>1, TasksKept
  <2>5. CASE TasksNext BY <1>2, <2>5
  <2> QED BY <2>3, <2>4, <2>5, PartMoves
<1> QED BY <1>2, <1>3, PartMoves

\* What a task counted is what its scans say and no more than was planned; what
\* it put away left one place and reached the other once, also when an edit put
\* the task back and it was completed again (record_scan, complete_task).
THEOREM TasksAreDoneOnceAlways == DeliverySpec => []TasksAreDoneOnce
<1>1. DeliveryInit => RowsInv /\ BooksInv /\ TasksInv BY RowsStart, BooksStart, TasksStart
<1>2. RowsInv /\ BooksInv /\ TasksInv /\ [DeliveryNext]_deliveryVars
        => RowsInv' /\ BooksInv' /\ TasksInv'
  BY RowsStep, BooksStep, TasksStep
<1> QED BY <1>1, <1>2, TasksTell, PTL DEF DeliverySpec
-----------------------------------------------------------------------------
(***************************************************************************)
(* Refunds: what was paid stays paid under its number, until an edit or a  *)
(* deletion takes it back; and a payment under way is alone in its         *)
(* company, so nobody of the company takes the number it found free.       *)
(***************************************************************************)
PaidUnder(r, e) == Paid(r) /\ refund[r].external = e
InPayment(r) == paying[r] # NoRefund
Company(r) == CompanyOf[refund[r].case]

CountedPaid(r) == timesPaid[r] <= takenBack[r] + IF Paid(r) THEN 1 ELSE 0
FormTells(r) ==
  refundForm[r] # NoRefund /\ refundForm[r].status = "paid" =>
    takenBack[r] > 0 \/ PaidUnder(r, refundForm[r].external)
Drawn(r) == Exists(r) \/ refundForm[r] # NoRefund => r \in drawn
Settled(x) == takenBack[x.refund] > 0 \/ PaidUnder(x.refund, x.external)
Alone(r) ==
  InPayment(r) =>
    /\ Exists(r) /\ refund[r].status = "approved"
    /\ \A q \in Refunds : InPayment(q) /\ Company(q) = Company(r) => q = r
    /\ \A x \in payouts : x.company = Company(r) /\ x.external = paying[r] => takenBack[x.refund] > 0

RefundTypes ==
  /\ refund \in [Refunds -> RefundRow \cup {NoRefund}]
  /\ refundForm \in [Refunds -> RefundRow \cup {NoRefund}]
  /\ paying \in [Refunds -> External \cup {NoRefund}]
  /\ timesPaid \in [Refunds -> Nat] /\ takenBack \in [Refunds -> Nat]
  /\ \A x \in payouts : x.refund \in Refunds

PaidInv ==
  /\ RefundTypes
  /\ \A r \in Refunds : CountedPaid(r) /\ FormTells(r) /\ Drawn(r) /\ Alone(r)
  /\ \A x \in payouts : Settled(x)
  /\ PaidOnce

LEMMA PaidStart == ASSUME DeliveryInit PROVE PaidInv
<1>1. AfterSalesInit BY DEF DeliveryInit
<1>2. RefundTypes BY <1>1 DEF AfterSalesInit, RefundTypes
<1>3. ASSUME NEW r \in Refunds PROVE CountedPaid(r) /\ FormTells(r) /\ Drawn(r) /\ Alone(r)
  BY <1>1 DEF AfterSalesInit, CountedPaid, FormTells, Drawn, Alone, InPayment, Exists
<1>4. PaidOnce BY <1>1 DEF AfterSalesInit, PaidOnce
<1> QED BY <1>1, <1>2, <1>3, <1>4 DEF AfterSalesInit, PaidInv

\* What a step that pays nothing leaves of a refund: a payment stays or counts as
\* taken back, one under way goes on with its row or ends, and a form is the row.
Leaves(r) ==
  /\ takenBack'[r] >= takenBack[r]
  /\ Paid(r) => \/ takenBack'[r] > takenBack[r]
                \/ Paid(r)' /\ (takenBack[r] > 0 \/ refund'[r].external = refund[r].external)
  /\ InPayment(r)' => paying'[r] = paying[r] /\ refund'[r] = refund[r]
  /\ refundForm'[r] \in {NoRefund, refundForm[r], refund'[r]}
  /\ Drawn(r)'

LEMMA NothingPaid ==
  ASSUME PaidInv, UNCHANGED <<payouts, timesPaid>>, RefundTypes',
         \A r \in Refunds : Leaves(r)
  PROVE  PaidInv'
<1>1. ASSUME NEW r \in Refunds PROVE takenBack[r] \in Nat /\ takenBack'[r] \in Nat /\ timesPaid[r] \in Nat
  BY DEF PaidInv, RefundTypes
<1>2. ASSUME NEW r \in Refunds PROVE CountedPaid(r)'
  BY <1>1, <1>2 DEF PaidInv, CountedPaid, Leaves, PaidUnder
<1>3. ASSUME NEW r \in Refunds PROVE FormTells(r)'
  BY <1>1, <1>3 DEF PaidInv, FormTells, Leaves, PaidUnder, Paid, Exists
<1>4. ASSUME NEW r \in Refunds PROVE Alone(r)'
  <2> SUFFICES ASSUME InPayment(r)' PROVE Alone(r)' BY DEF Alone
  <2>1. InPayment(r) /\ paying'[r] = paying[r] /\ refund'[r] = refund[r] BY DEF Leaves, InPayment
  <2>2. Alone(r) BY DEF PaidInv
  <2>3. ASSUME NEW q \in Refunds, InPayment(q)', Company(q)' = Company(r)' PROVE q = r
    <3>1. InPayment(q) /\ refund'[q] = refund[q] BY <2>3 DEF Leaves, InPayment
    <3> QED BY <2>1, <2>2, <2>3, <3>1 DEF Alone, Company
  <2>4. ASSUME NEW x \in payouts, x.company = Company(r), x.external = paying[r]
        PROVE  takenBack'[x.refund] > 0
    <3>1. x.refund \in Refunds /\ takenBack[x.refund] > 0 BY <2>1, <2>2, <2>4 DEF PaidInv, RefundTypes, Alone
    <3> QED BY <1>1, <3>1 DEF Leaves
  <2> QED BY <2>1, <2>2, <2>3, <2>4 DEF Alone, Company, Exists
<1>5. ASSUME NEW x \in payouts PROVE Settled(x)' /\ (takenBack[x.refund] > 0 => takenBack'[x.refund] > 0)
  <2>1. x.refund \in Refunds /\ Settled(x) BY DEF PaidInv, RefundTypes
  <2> QED BY <1>1, <2>1 DEF Settled, PaidUnder, Leaves
<1>6. PaidOnce' BY <1>2, <1>5 DEF PaidInv, PaidOnce, CountedPaid
<1> QED BY <1>2, <1>3, <1>4, <1>5, <1>6 DEF PaidInv, Leaves

\* A payment begins: the number it found free is of no payment that stands.
LEMMA PayBegins ==
  ASSUME PaidInv, NEW r \in Refunds, NEW e \in External, BeginPay(r, e)
  PROVE  PaidInv'
<1>1. /\ Exists(r) /\ ~CompanyHeld(refund[r].case) /\ refund[r].status = "approved" /\ ~Taken(r, e)
      /\ paying' = [paying EXCEPT ![r] = e]
      /\ UNCHANGED <<refund, refundForm, drawn, timesPaid, takenBack, payouts>>
  BY DEF BeginPay
<1>2. RefundTypes' BY <1>1 DEF PaidInv, RefundTypes
<1>3. ASSUME NEW q \in Refunds PROVE CountedPaid(q)' /\ FormTells(q)' /\ Drawn(q)'
  BY <1>1 DEF PaidInv, CountedPaid, FormTells, Drawn, PaidUnder, Paid, Exists
<1>4. paying'[r] = e /\ \A q \in Refunds \ {r} : paying'[q] = paying[q] BY <1>1 DEF PaidInv, RefundTypes
<1>5. ASSUME NEW q \in Refunds, InPayment(q) PROVE Company(q) # Company(r)
  BY <1>1, <1>5 DEF CompanyHeld, InPayment, Company
<1>6. ASSUME NEW x \in payouts, x.external = e PROVE takenBack[x.refund] > 0
  <2>1. x.refund \in Refunds /\ Settled(x) BY DEF PaidInv, RefundTypes
  <2>2. ~PaidUnder(x.refund, e)
    <3>1. CASE x.refund = r BY <1>1, <3>1 DEF PaidUnder, Paid
    <3>2. CASE x.refund # r BY <1>1, <2>1, <3>2 DEF PaidUnder, Paid, Taken
    <3> QED BY <3>1, <3>2
  <2> QED BY <1>6, <2>1, <2>2 DEF Settled
<1>7. ASSUME NEW q \in Refunds PROVE Alone(q)'
  <2>1. CASE q = r BY <1>1, <1>4, <1>5, <1>6, <2>1 DEF Alone, InPayment, Company, Exists
  <2>2. CASE q # r
    <3>1. Alone(q) BY DEF PaidInv
    <3> QED BY <1>1, <1>4, <1>5, <2>2, <3>1 DEF Alone, InPayment, Company, Exists
  <2> QED BY <2>1, <2>2
<1>8. ASSUME NEW x \in payouts PROVE Settled(x)' BY <1>1 DEF PaidInv, Settled, PaidUnder, Paid, Exists
<1>9. PaidOnce' BY <1>1 DEF PaidInv, PaidOnce, Paid, Exists
<1> QED BY <1>1, <1>2, <1>3, <1>7, <1>8, <1>9 DEF PaidInv

\* A payment is written: no payment of its company has its number and stands.
LEMMA RefundPaid ==
  ASSUME PaidInv, NEW r \in Refunds, MarkPaid(r)
  PROVE  PaidInv'
<1> DEFINE e == paying[r]
           row == [case |-> refund[r].case, status |-> "paid", external |-> e]
           pay == [refund |-> r, external |-> e, company |-> Company(r)]
<1>1. /\ InPayment(r) /\ refund' = [refund EXCEPT ![r] = row]
      /\ paying' = [paying EXCEPT ![r] = NoRefund] /\ timesPaid' = [timesPaid EXCEPT ![r] = @ + 1]
      /\ payouts' = payouts \cup {pay} /\ UNCHANGED <<refundForm, drawn, takenBack>>
  BY DEF MarkPaid, InPayment, Company
<1>2. Alone(r) /\ Exists(r) /\ refund[r].status = "approved" BY <1>1 DEF PaidInv, Alone
<1>3. row \in RefundRow /\ row.external = e /\ row.status = "paid" /\ row.case = refund[r].case /\ row # NoRefund
  <2>1. refund[r] \in RefundRow /\ e \in External BY <1>1, <1>2 DEF PaidInv, RefundTypes, Exists, InPayment
  <2>2. refund[r].case \in Cases BY <2>1 DEF RefundRow
  <2>3. row \in RefundRow BY <2>1, <2>2 DEF RefundRow
  <2> QED BY <2>3, DeliveryAssumption
<1>4. pay.refund = r /\ pay.external = e /\ pay.company = Company(r) OBVIOUS
<1> HIDE DEF row, pay
<1>5. RefundTypes' BY <1>1, <1>3, <1>4 DEF PaidInv, RefundTypes
<1>6. /\ refund'[r] = row /\ paying'[r] = NoRefund /\ timesPaid'[r] = timesPaid[r] + 1
      /\ \A q \in Refunds \ {r} : /\ refund'[q] = refund[q] /\ paying'[q] = paying[q]
                                  /\ timesPaid'[q] = timesPaid[q]
  BY <1>1 DEF PaidInv, RefundTypes
<1>7. Paid(r)' /\ refund'[r].external = e
  BY <1>3, <1>6 DEF Paid, Exists
<1>8. ASSUME NEW q \in Refunds PROVE CountedPaid(q)' /\ FormTells(q)' /\ Drawn(q)'
  <2>1. CountedPaid(q) /\ FormTells(q) /\ Drawn(q) BY DEF PaidInv
  <2>2. CASE q = r
    <3>1. ~Paid(r) BY <1>2 DEF Paid
    <3>2. timesPaid[r] \in Nat /\ takenBack[r] \in Nat BY DEF PaidInv, RefundTypes
    <3>3. CountedPaid(r)' BY <1>1, <1>6, <1>7, <2>1, <2>2, <3>1, <3>2 DEF CountedPaid
    <3>4. FormTells(r)' BY <1>1, <2>1, <2>2, <3>1 DEF FormTells, PaidUnder
    <3> QED BY <1>1, <1>2, <2>1, <2>2, <3>3, <3>4 DEF Drawn
  <2>3. CASE q # r
    BY <1>1, <1>6, <2>1, <2>3 DEF CountedPaid, FormTells, Drawn, PaidUnder, Paid, Exists
  <2> QED BY <2>2, <2>3
<1>9. ASSUME NEW x \in payouts, x.refund = r \/ (x.company = Company(r) /\ x.external = e)
      PROVE  takenBack[x.refund] > 0
  <2>1. CASE x.refund = r
    <3>1. Settled(x) BY DEF PaidInv
    <3> QED BY <1>2, <2>1, <3>1 DEF Settled, PaidUnder, Paid
  <2>2. CASE x.company = Company(r) /\ x.external = e BY <1>1, <1>2, <2>2 DEF Alone
  <2> QED BY <1>9, <2>1, <2>2
<1>10. ASSUME NEW x \in payouts' PROVE Settled(x)'
  <2>1. CASE x = pay BY <1>4, <1>7, <2>1 DEF Settled, PaidUnder
  <2>2. CASE x \in payouts
    <3>1. x.refund \in Refunds /\ Settled(x) BY <2>2 DEF PaidInv, RefundTypes
    <3>2. CASE x.refund = r BY <1>1, <1>9, <2>2, <3>2 DEF Settled
    <3>3. CASE x.refund # r BY <1>1, <1>6, <3>1, <3>3 DEF Settled, PaidUnder, Paid, Exists
    <3> QED BY <3>2, <3>3
  <2> QED BY <1>1, <2>1, <2>2
<1>11. ASSUME NEW q \in Refunds PROVE Alone(q)'
  <2> SUFFICES ASSUME InPayment(q)' PROVE Alone(q)' BY DEF Alone
  <2>1. q # r /\ InPayment(q) /\ Alone(q) BY <1>6 DEF InPayment, PaidInv
  <2>2. Company(q)' = Company(q) /\ paying'[q] = paying[q] /\ refund'[q] = refund[q]
    BY <1>6, <2>1 DEF Company
  <2>3. Company(q) # Company(r) BY <1>1, <1>2, <2>1 DEF Alone
  <2>4. ASSUME NEW p \in Refunds, InPayment(p)', Company(p)' = Company(q)' PROVE p = q
    <3>1. p # r /\ InPayment(p) BY <1>6, <2>4 DEF InPayment
    <3>2. Company(p)' = Company(p) BY <1>6, <3>1 DEF Company
    <3> QED BY <2>1, <2>2, <2>4, <3>1, <3>2 DEF Alone
  <2>5. ASSUME NEW x \in payouts', x.company = Company(q), x.external = paying[q]
        PROVE  takenBack'[x.refund] > 0
    <3>1. x \in payouts BY <1>1, <1>4, <2>3, <2>5
    <3> QED BY <1>1, <2>1, <2>5, <3>1 DEF Alone
  <2> QED BY <2>1, <2>2, <2>4, <2>5 DEF Alone, Exists
<1>12. PaidOnce'
  <2>1. \A q \in Refunds : CountedPaid(q)' BY <1>8
  <2>2. ASSUME NEW x \in payouts', NEW y \in payouts', x.refund # y.refund, x.external = y.external
        PROVE  x.company # y.company \/ takenBack'[x.refund] > 0 \/ takenBack'[y.refund] > 0
    <3>1. CASE x \in payouts /\ y \in payouts BY <1>1, <2>2, <3>1 DEF PaidInv, PaidOnce
    <3>2. CASE x = pay /\ y \in payouts BY <1>1, <1>4, <1>9, <2>2, <3>2
    <3>3. CASE x \in payouts /\ y = pay BY <1>1, <1>4, <1>9, <2>2, <3>3
    <3>4. CASE x = pay /\ y = pay BY <2>2, <3>4
    <3> QED BY <1>1, <3>1, <3>2, <3>3, <3>4
  <2> QED BY <2>1, <2>2 DEF PaidOnce, CountedPaid
<1> QED BY <1>5, <1>8, <1>10, <1>11, <1>12 DEF PaidInv

LEMMA PaidStep ==
  ASSUME PaidInv, [DeliveryNext]_deliveryVars
  PROVE  PaidInv'
<1> DEFINE Old == RefundRow \cup {NoRefund}
<1>1. CASE UNCHANGED refundVars
  BY <1>1 DEF PaidInv, RefundTypes, CountedPaid, FormTells, Drawn, Settled, Alone, PaidUnder, InPayment, Company,
    PaidOnce, Paid, Exists, refundVars
<1>2. CASE RefundsNext
  <2> PICK r \in Refunds :
        \/ CreateRefund(r) \/ OpenRefundForm(r) \/ DeleteRefund(r) \/ MarkPaid(r) \/ AbortPay(r)
        \/ \E c \in Cases : SaveRefundForm(r, c)
        \/ \E actor \in Staff : ApproveRefund(r, actor)
        \/ \E e \in External : BeginPay(r, e)
    BY <1>2 DEF RefundsNext
  <2>1. /\ refund \in [Refunds -> Old] /\ refundForm \in [Refunds -> Old]
        /\ paying \in [Refunds -> External \cup {NoRefund}] /\ takenBack \in [Refunds -> Nat]
        /\ timesPaid \in [Refunds -> Nat] /\ \A x \in payouts : x.refund \in Refunds
        /\ \A q \in Refunds : Drawn(q) /\ FormTells(q)
    BY DEF PaidInv, RefundTypes
  <2>2. CASE CreateRefund(r)
    <3> DEFINE new == [case |-> FirstCase[r], status |-> "pending", external |-> NoRefund]
    <3>1. /\ r \notin drawn /\ refund' = [refund EXCEPT ![r] = new] /\ drawn' = drawn \cup {r}
          /\ UNCHANGED <<refundForm, paying, timesPaid, takenBack, payouts>>
      BY <2>2 DEF CreateRefund
    <3>2. new \in Old BY AfterSalesAssumption DEF RefundRow
    <3> HIDE DEF Old, new
    <3>3. ~Exists(r) BY <2>1, <3>1 DEF Drawn
    <3>4. /\ refund' \in [Refunds -> Old] /\ RefundTypes'
          /\ \A q \in Refunds \ {r} : refund'[q] = refund[q]
      BY <2>1, <3>1, <3>2 DEF RefundTypes, Old
    <3>5. ~InPayment(r) BY <3>3 DEF PaidInv, Alone
    <3>6. ASSUME NEW q \in Refunds PROVE Leaves(q)
      BY <2>1, <3>1, <3>3, <3>4, <3>5 DEF Leaves, Drawn, PaidUnder, Paid, Exists, InPayment
    <3> QED BY <3>1, <3>4, <3>6, NothingPaid
  <2>3. CASE OpenRefundForm(r)
    <3>1. /\ Exists(r) /\ refundForm' = [refundForm EXCEPT ![r] = refund[r]]
          /\ UNCHANGED <<refund, paying, drawn, timesPaid, takenBack, payouts>>
      BY <2>3 DEF OpenRefundForm
    <3>2. RefundTypes' BY <2>1, <3>1 DEF RefundTypes
    <3>3. ASSUME NEW q \in Refunds PROVE Leaves(q)
      <4>1. refundForm'[q] \in {refundForm[q], refund[q]} BY <2>1, <3>1
      <4>2. Drawn(q)'
        <5>1. CASE q = r BY <2>1, <3>1, <5>1 DEF Drawn
        <5>2. CASE q # r BY <2>1, <3>1, <5>2 DEF Drawn, Exists
        <5> QED BY <5>1, <5>2
      <4> QED BY <2>1, <3>1, <4>1, <4>2 DEF Leaves, PaidUnder, Paid, Exists, InPayment
    <3> QED BY <3>1, <3>2, <3>3, NothingPaid
  <2>4. CASE \E c \in Cases : SaveRefundForm(r, c)
    <3> PICK c \in Cases : SaveRefundForm(r, c) BY <2>4
    <3> DEFINE row == [refundForm[r] EXCEPT !.case = c]
    <3>1. /\ refundForm[r] # NoRefund /\ paying[r] = NoRefund
          /\ refund' = [refund EXCEPT ![r] = row] /\ refundForm' = [refundForm EXCEPT ![r] = NoRefund]
          /\ TakeBack(r, refundForm[r].status = "paid")
          /\ UNCHANGED <<paying, drawn, timesPaid, payouts>>
      BY DEF SaveRefundForm
    <3>2. /\ row \in RefundRow /\ row.status = refundForm[r].status /\ row.external = refundForm[r].external
          /\ row # NoRefund
      <4>1. refundForm[r] \in RefundRow BY <2>1, <3>1
      <4>2. row \in RefundRow /\ row.status = refundForm[r].status /\ row.external = refundForm[r].external
        BY <4>1 DEF RefundRow
      <4> QED BY <4>2, DeliveryAssumption
    <3> HIDE DEF row
    <3>3. takenBack' = [takenBack EXCEPT ![r] = IF Paid(r) /\ refundForm[r].status # "paid" THEN @ + 1 ELSE @]
      BY <3>1 DEF TakeBack
    <3>4. takenBack' \in [Refunds -> Nat] BY <2>1, <3>3
    <3>5. RefundTypes' BY <2>1, <3>1, <3>2, <3>4 DEF RefundTypes
    <3>6. ASSUME NEW q \in Refunds PROVE Leaves(q)
      <4>1. CASE q = r
        <5>1. refund'[r] = row /\ refundForm'[r] = NoRefund /\ r \in drawn BY <2>1, <3>1 DEF Drawn
        <5>2. takenBack[r] \in Nat /\ FormTells(r) BY <2>1
        <5>3. takenBack'[r] = IF Paid(r) /\ refundForm[r].status # "paid" THEN takenBack[r] + 1 ELSE takenBack[r]
          BY <2>1, <3>3
        <5>4. Paid(r) => \/ takenBack'[r] > takenBack[r]
                         \/ Paid(r)' /\ (takenBack[r] > 0 \/ refund'[r].external = refund[r].external)
          <6> SUFFICES ASSUME Paid(r), refundForm[r].status = "paid"
                       PROVE  Paid(r)' /\ (takenBack[r] > 0 \/ refund'[r].external = refund[r].external)
            BY <5>2, <5>3
          <6> QED BY <3>1, <3>2, <5>1, <5>2 DEF FormTells, PaidUnder, Paid, Exists
        <5> QED BY <3>1, <4>1, <5>1, <5>2, <5>3, <5>4 DEF Leaves, InPayment, Drawn
      <4>2. CASE q # r
        <5>1. refund'[q] = refund[q] /\ refundForm'[q] = refundForm[q] /\ takenBack'[q] = takenBack[q]
          BY <2>1, <3>1, <3>3, <4>2
        <5> QED BY <2>1, <3>1, <5>1 DEF Leaves, Drawn, PaidUnder, Paid, Exists, InPayment
      <4> QED BY <4>1, <4>2
    <3> QED BY <3>1, <3>5, <3>6, NothingPaid
  <2>5. CASE DeleteRefund(r)
    <3>1. /\ paying[r] = NoRefund /\ refund' = [refund EXCEPT ![r] = NoRefund] /\ TakeBack(r, FALSE)
          /\ UNCHANGED <<refundForm, paying, drawn, timesPaid, payouts>>
      BY <2>5 DEF DeleteRefund
    <3>2. takenBack' = [takenBack EXCEPT ![r] = IF Paid(r) THEN @ + 1 ELSE @] BY <3>1 DEF TakeBack
    <3>3. takenBack' \in [Refunds -> Nat] BY <2>1, <3>2
    <3>4. RefundTypes' BY <2>1, <3>1, <3>3 DEF RefundTypes
    <3>5. ASSUME NEW q \in Refunds PROVE Leaves(q)
      <4>1. CASE q = r
        <5>1. refund'[r] = NoRefund /\ takenBack[r] \in Nat BY <2>1, <3>1
        <5>2. takenBack'[r] = IF Paid(r) THEN takenBack[r] + 1 ELSE takenBack[r] BY <2>1, <3>2
        <5> QED BY <2>1, <3>1, <4>1, <5>1, <5>2 DEF Leaves, InPayment, Drawn, Exists
      <4>2. CASE q # r
        <5>1. refund'[q] = refund[q] /\ takenBack'[q] = takenBack[q] BY <2>1, <3>1, <3>2, <4>2
        <5> QED BY <2>1, <3>1, <5>1 DEF Leaves, Drawn, PaidUnder, Paid, Exists, InPayment
      <4> QED BY <4>1, <4>2
    <3> QED BY <3>1, <3>4, <3>5, NothingPaid
  <2>6. CASE \E actor \in Staff : ApproveRefund(r, actor)
    <3> DEFINE approved == [refund[r] EXCEPT !.status = "approved"]
    <3>1. /\ Exists(r) /\ ~CompanyHeld(refund[r].case) /\ refund[r].status = "pending"
          /\ refund' = [refund EXCEPT ![r] = approved]
          /\ UNCHANGED <<refundForm, paying, drawn, timesPaid, takenBack, payouts>>
      BY <2>6 DEF ApproveRefund
    <3>2. approved \in RefundRow
      <4>1. refund[r] \in RefundRow BY <2>1, <3>1 DEF Exists
      <4> QED BY <4>1 DEF RefundRow
    <3> HIDE DEF approved
    <3>3. RefundTypes' BY <2>1, <3>1, <3>2 DEF RefundTypes
    <3>4. ~InPayment(r) /\ r \in drawn BY <2>1, <3>1 DEF CompanyHeld, InPayment, Drawn
    <3>5. ASSUME NEW q \in Refunds PROVE Leaves(q)
      <4>1. CASE q = r BY <2>1, <3>1, <3>4, <4>1 DEF Leaves, Drawn, Paid, InPayment
      <4>2. CASE q # r
        <5>1. refund'[q] = refund[q] BY <2>1, <3>1, <4>2
        <5> QED BY <2>1, <3>1, <5>1 DEF Leaves, Drawn, PaidUnder, Paid, Exists, InPayment
      <4> QED BY <4>1, <4>2
    <3> QED BY <3>1, <3>3, <3>5, NothingPaid
  <2>7. CASE AbortPay(r)
    <3>1. /\ paying' = [paying EXCEPT ![r] = NoRefund]
          /\ UNCHANGED <<refund, refundForm, drawn, timesPaid, takenBack, payouts>>
      BY <2>7 DEF AbortPay
    <3>2. RefundTypes' BY <2>1, <3>1 DEF RefundTypes
    <3>3. ASSUME NEW q \in Refunds PROVE Leaves(q)
      <4>1. paying'[q] = NoRefund \/ paying'[q] = paying[q] BY <2>1, <3>1
      <4> QED BY <2>1, <3>1, <4>1 DEF Leaves, Drawn, PaidUnder, Paid, Exists, InPayment
    <3> QED BY <3>1, <3>2, <3>3, NothingPaid
  <2>8. CASE \E e \in External : BeginPay(r, e) BY <2>8, PayBegins
  <2>9. CASE MarkPaid(r) BY <2>9, RefundPaid
  <2> QED BY <2>2, <2>3, <2>4, <2>5, <2>6, <2>7, <2>8, <2>9
<1> QED BY <1>1, <1>2, PartMoves

\* A refund is paid again only as often as an edit or a deletion took its payment
\* back, and a number of the payment provider's is used for one refund of a
\* company, unless a payment was taken back (mark_refund_paid).
THEOREM PaidOnceAlways == DeliverySpec => []PaidOnce
<1>1. PaidInv => PaidOnce BY DEF PaidInv
<1> QED BY <1>1, PaidStart, PaidStep, PTL DEF DeliverySpec
-----------------------------------------------------------------------------
(***************************************************************************)
(* Returns: an order line counts what its receipts brought, a case its     *)
(* one receipt, and the stock both parts of each.                          *)
(***************************************************************************)
BroughtTo(l) == {k \in DOMAIN receipt : CaseLine[receipt[k].case] = l}
ReturnedRows == {r \in booked : r.key[1] \in DOMAIN receipt}

LineReturned(l) ==
  /\ sold[l].returned = SumOver([k \in DOMAIN receipt |-> Came(k)], BroughtTo(l))
  /\ sold[l].returned <= sold[l].shipped
StockReturned(b) ==
  Moved(b, ReturnedRows) = SumOver([k \in DOMAIN receipt |-> CameTo(b, k)], DOMAIN receipt)

ReturnsInv ==
  /\ case \in [Cases -> CaseRow] /\ IsFiniteSet(DOMAIN receipt)
  /\ \A k \in DOMAIN receipt : /\ receipt[k] \in ReceiptRow
                               /\ case[receipt[k].case].received = Came(k)
  /\ \A l \in SoldLines : LineReturned(l)
  /\ \A b \in Balances : StockReturned(b)

LEMMA ReturnsTell == ASSUME ReturnsInv, PaidInv PROVE ReturnsAreReceived
BY DEF ReturnsInv, PaidInv, RefundTypes, ReturnsAreReceived, AfterSalesTypeOK, LineReturned, StockReturned,
  BroughtTo, ReturnedRows

LEMMA ReturnsStart == ASSUME DeliveryInit PROVE ReturnsInv
<1>1. /\ DOMAIN receipt = {} /\ booked = {} /\ case = [c \in Cases |-> [status |-> "draft", received |-> 0]]
      /\ sold = [l \in SoldLines |-> [shipped |-> 0, cancelled |-> 0, returned |-> 0]]
  BY DEF DeliveryInit, StockInit, AfterSalesInit, SerialsInit
<1>2. ASSUME NEW l \in SoldLines PROVE LineReturned(l)
  <2> DEFINE f == [k \in DOMAIN receipt |-> Came(k)]
  <2>1. BroughtTo(l) = {} /\ sold[l].returned = 0 /\ sold[l].shipped = 0 BY <1>1 DEF BroughtTo
  <2>2. SumOver(f, BroughtTo(l)) = 0
    <3> HIDE DEF f
    <3> QED BY <2>1, SumEmpty
  <2> QED BY <2>1, <2>2 DEF LineReturned
<1>3. ASSUME NEW b \in Balances PROVE StockReturned(b)
  <2> DEFINE f == [k \in DOMAIN receipt |-> CameTo(b, k)]
  <2>1. SumOver(f, DOMAIN receipt) = 0
    <3> HIDE DEF f
    <3> QED BY <1>1, SumEmpty
  <2>2. ReturnedRows = {} BY <1>1 DEF ReturnedRows
  <2> QED BY <2>1, <2>2, MovedNone DEF StockReturned
<1> QED BY <1>1, <1>2, <1>3, FS_EmptySet DEF ReturnsInv, CaseRow

\* Shipping, and cancelling, never take back what was shipped or what came back.
LEMMA SoldGrows ==
  ASSUME SerialsTypeOK, SerialsMove, NEW l \in SoldLines
  PROVE  sold'[l].returned = sold[l].returned /\ sold'[l].shipped >= sold[l].shipped
<1>1. sold \in [SoldLines -> SoldRow] BY DEF SerialsTypeOK
<1>2. sold[l].shipped \in Nat BY <1>1 DEF SoldRow
<1>3. ASSUME NEW d \in Deliveries, ShipDelivery(d)
      PROVE  sold'[l].returned = sold[l].returned /\ sold'[l].shipped >= sold[l].shipped
  <2> DEFINE m == LineOf[d]
  <2>1. sold' = [sold EXCEPT ![m].shipped = @ + DeliveredQty[d]] BY <1>3 DEF ShipDelivery
  <2>2. m \in SoldLines /\ DeliveredQty[d] \in Nat BY SerialsAssumption
  <2> HIDE DEF m
  <2> QED BY <1>1, <1>2, <2>1, <2>2 DEF SoldRow
<1>4. ASSUME NEW m \in SoldLines, CancelLine(m)
      PROVE  sold'[l].returned = sold[l].returned /\ sold'[l].shipped >= sold[l].shipped
  BY <1>1, <1>2, <1>4 DEF CancelLine, SoldRow
<1>5. ASSUME UNCHANGED sold
      PROVE  sold'[l].returned = sold[l].returned /\ sold'[l].shipped >= sold[l].shipped
  BY <1>2, <1>5
<1>6. ShippingNext => \/ \E d \in Deliveries : ShipDelivery(d)
                      \/ \E m \in SoldLines : CancelLine(m)
                      \/ UNCHANGED sold
  BY DEF ShippingNext, MoveDelivery
<1>7. MakingNext => UNCHANGED sold
  BY DEF MakingNext, ActivatePool, Generate, StartProduction, DisposeNg, CompleteAttempt
<1>8. HoldingNext => UNCHANGED sold
  BY DEF HoldingNext, AutoHold, Hold, ReleaseHold, Assign
<1> QED BY <1>3, <1>4, <1>5, <1>6, <1>7, <1>8 DEF SerialsMove

\* A step that receives nothing.
LEMMA ReturnsKept ==
  ASSUME ReturnsInv, UNCHANGED receipt, ReturnedRows' = ReturnedRows, case' \in [Cases -> CaseRow],
         \A c \in Cases : case'[c].received = case[c].received,
         \A l \in SoldLines : /\ sold[l].shipped \in Nat /\ sold'[l].shipped \in Nat /\ sold[l].returned \in Nat
                              /\ sold'[l].returned = sold[l].returned
                              /\ sold'[l].shipped >= sold[l].shipped
  PROVE  ReturnsInv'
<1>1. ASSUME NEW k \in DOMAIN receipt
      PROVE  receipt'[k] \in ReceiptRow /\ case'[receipt'[k].case].received = Came(k)'
  <2>1. receipt[k] \in ReceiptRow /\ case[receipt[k].case].received = Came(k) BY DEF ReturnsInv
  <2>2. receipt[k].case \in Cases BY <2>1 DEF ReceiptRow
  <2> QED BY <2>1, <2>2 DEF Came
<1>2. ASSUME NEW l \in SoldLines PROVE LineReturned(l)'
  <2>1. LineReturned(l) BY DEF ReturnsInv
  <2>2. BroughtTo(l)' = BroughtTo(l) BY DEF BroughtTo
  <2>3. [k \in DOMAIN receipt |-> Came(k)]' = [k \in DOMAIN receipt |-> Came(k)] BY DEF Came
  <2>4. sold'[l].returned <= sold'[l].shipped BY <2>1 DEF LineReturned
  <2> QED BY <2>1, <2>2, <2>3, <2>4 DEF LineReturned
<1>3. ASSUME NEW b \in Balances PROVE StockReturned(b)'
  <2>1. StockReturned(b) BY DEF ReturnsInv
  <2>2. [k \in DOMAIN receipt |-> CameTo(b, k)]' = [k \in DOMAIN receipt |-> CameTo(b, k)] BY DEF CameTo
  <2>3. Moved(b, ReturnedRows)' = Moved(b, ReturnedRows) BY DEF Moved
  <2> QED BY <2>1, <2>2, <2>3 DEF StockReturned
<1> QED BY <1>1, <1>2, <1>3 DEF ReturnsInv

LEMMA ReturnsReceived ==
  ASSUME RowsInv, BooksInv, ReturnsInv, NEW c \in Cases, NEW k \in ReturnKeys, NEW a \in ReturnQty,
         NEW b \in ReturnQty, Receive(c, k, a, b)
  PROVE  ReturnsInv'
<1> DEFINE line == CaseLine[c]
           R == ReturnRows(c, k, a, b)
           D == DOMAIN receipt
           row == [case |-> c, accepted |-> a, rejected |-> b]
           now == [status |-> "processing", received |-> a + b]
           back == sold[line].returned + (a + b)
<1>1. CameBack(c, k, a, b) BY ReceiptBooks
<1>2. /\ \A j \in D : receipt[j].case # c
      /\ case' = [case EXCEPT ![c] = now] /\ back <= sold[line].shipped
      /\ sold' = [sold EXCEPT ![line].returned = back]
  BY DEF Receive, Returns
<1>3. a \in Nat /\ b \in Nat /\ line \in SoldLines BY AfterSalesAssumption
<1>4. /\ k \notin D /\ D' = D \cup {k} /\ receipt'[k] = row
      /\ \A j \in D : receipt'[j] = receipt[j]
  BY <1>1 DEF CameBack
<1>5. IsFiniteSet(D) /\ IsFiniteSet(D') BY <1>4, FS_AddElement DEF ReturnsInv
<1>6. /\ row \in ReceiptRow /\ row.case = c /\ row.accepted = a /\ row.rejected = b
      /\ now \in CaseRow /\ now.received = a + b
  BY <1>3 DEF ReceiptRow, CaseRow
<1>7. \A j \in D : receipt[j] \in ReceiptRow BY DEF ReturnsInv
<1>8. /\ Came(k)' = a + b /\ \A j \in D : Came(j)' = Came(j) /\ Came(j) \in Int
  BY <1>4, <1>6, <1>7 DEF Came, ReceiptRow
<1> HIDE DEF D, R, line, row, now
<1>9. /\ case' \in [Cases -> CaseRow] /\ case'[c].received = a + b
      /\ \A d \in Cases \ {c} : case'[d] = case[d]
  BY <1>2, <1>6 DEF ReturnsInv
<1>10. ASSUME NEW j \in DOMAIN receipt'
       PROVE  receipt'[j] \in ReceiptRow /\ case'[receipt'[j].case].received = Came(j)'
  <2>1. CASE j = k BY <1>4, <1>6, <1>8, <1>9, <2>1
  <2>2. CASE j \in D
    <3>1. receipt[j] \in ReceiptRow /\ case[receipt[j].case].received = Came(j)
      BY <2>2 DEF ReturnsInv, D
    <3>2. receipt[j].case \in Cases \ {c} BY <1>2, <2>2, <3>1 DEF ReceiptRow
    <3> QED BY <1>4, <1>8, <1>9, <2>2, <3>1, <3>2
  <2> QED BY <1>4, <2>1, <2>2 DEF D
<1>11. ASSUME NEW l \in SoldLines PROVE LineReturned(l)'
  <2> DEFINE f == [j \in D |-> Came(j)]
             g == [j \in D' |-> Came(j)']
             S == BroughtTo(l)
  <2>1. LineReturned(l) BY DEF ReturnsInv
  <2>2. S \subseteq D /\ k \notin S BY <1>4 DEF BroughtTo, D
  <2>3. IsFiniteSet(S) BY <1>5, <2>2, FS_Subset
  <2>4. S' = IF l = line THEN S \cup {k} ELSE S
    <3>1. \A j \in D : receipt'[j] = receipt[j] BY <1>4
    <3>2. CaseLine[receipt'[k].case] = line BY <1>4, <1>6 DEF line
    <3>3. S = {j \in D : CaseLine[receipt[j].case] = l} BY DEF BroughtTo, D
    <3>4. S' = {j \in D' : CaseLine[receipt'[j].case] = l} BY DEF BroughtTo, D
    <3> QED BY <1>4, <3>1, <3>2, <3>3, <3>4
  <2>5. (\A j \in S : f[j] \in Int /\ g[j] = f[j]) /\ g[k] = a + b BY <1>4, <1>8, <2>2
  <2>6. sold[l].returned = SumOver(f, S) /\ sold[l].returned <= sold[l].shipped
    BY <2>1 DEF LineReturned, D
  <2>7. sold[l] \in SoldRow /\ sold[line] \in SoldRow BY <1>3 DEF RowsInv, SerialsTypeOK
  <2>8. /\ sold'[l].shipped = sold[l].shipped
        /\ sold'[l].returned = IF l = line THEN back ELSE sold[l].returned
    BY <1>2, <1>3, <2>7 DEF RowsInv, SerialsTypeOK, SoldRow
  <2> HIDE DEF f, g, S
  <2>9. SumOver(g, S) = SumOver(f, S) BY <2>3, <2>5, SumAgree
  <2>10. sold'[l].returned = SumOver(g, S')
    <3>1. CASE l # line BY <2>4, <2>6, <2>8, <2>9, <3>1
    <3>2. CASE l = line
      <4>1. \A j \in S \cup {k} : g[j] \in Int BY <1>3, <2>5
      <4>2. SumOver(g, S \cup {k}) = SumOver(g, S) + g[k] BY <2>2, <2>3, <4>1, SumAdd DEF S
      <4> QED BY <2>4, <2>5, <2>6, <2>8, <2>9, <3>2, <4>2
    <3> QED BY <3>1, <3>2
  <2>11. sold'[l].returned <= sold'[l].shipped BY <1>2, <2>6, <2>8
  <2> QED BY <2>10, <2>11 DEF LineReturned, g, S, D
<1>12. ReturnedRows' = ReturnedRows \cup R /\ ReturnedRows \cap R = {}
  <2>1. /\ booked' = booked \cup R /\ booked \cap R = {} /\ k \notin Tasks
        /\ \A r \in R : r.key[1] = k
    BY <1>1 DEF CameBack, R
  <2>2. \A r \in booked : r.key[1] # k BY <1>4, <2>1 DEF BooksInv, D
  <2> QED BY <1>4, <2>1, <2>2 DEF ReturnedRows, D
<1>13. ASSUME NEW x \in Balances PROVE StockReturned(x)'
  <2> DEFINE f == [j \in D |-> CameTo(x, j)]
             g == [j \in D' |-> CameTo(x, j)']
  <2>1. /\ Ledgered(R)
        /\ Moved(x, R) = (IF x = AcceptAt THEN a ELSE 0) + (IF x = ExceptAt THEN b ELSE 0)
    BY <1>3, ReturnMoves DEF R
  <2>2. Ledgered(ReturnedRows) BY FS_Subset DEF BooksInv, Ledgered, ReturnedRows
  <2>3. Moved(x, ReturnedRows \cup R) = Moved(x, ReturnedRows) + Moved(x, R)
    BY <1>12, <2>1, <2>2, MovedUnion
  <2>4. Moved(x, ReturnedRows) = SumOver(f, D) BY DEF ReturnsInv, StockReturned, D
  <2>5. Moved(x, ReturnedRows)' = Moved(x, ReturnedRows \cup R) BY <1>12 DEF Moved
  <2>6. (\A j \in D : f[j] \in Int /\ g[j] = f[j]) /\ g[k] = Moved(x, R)
    BY <1>4, <1>6, <1>7, <2>1 DEF CameTo, ReceiptRow
  <2>7. g[k] \in Int BY <1>3, <2>1, <2>6
  <2> HIDE DEF f, g
  <2>8. SumOver(g, D) = SumOver(f, D) BY <1>5, <2>6, SumAgree
  <2>9. SumOver(g, D \cup {k}) = SumOver(g, D) + g[k]
    <3>1. IsFiniteSet(D) /\ k \notin D /\ \A j \in D \cup {k} : g[j] \in Int
      BY <1>4, <1>5, <2>6, <2>7
    <3> HIDE DEF D
    <3> QED BY ONLY <3>1, SumAdd
  <2>10. Moved(x, ReturnedRows)' = SumOver(g, D') BY <1>4, <2>3, <2>4, <2>5, <2>6, <2>8, <2>9
  <2> QED BY <2>10 DEF StockReturned, g, D
<1> QED BY <1>5, <1>9, <1>10, <1>11, <1>13 DEF ReturnsInv, D

LEMMA ReturnsStep ==
  ASSUME RowsInv, BooksInv, TasksInv, ReturnsInv, [DeliveryNext]_deliveryVars
  PROVE  ReturnsInv'
<1>1. CASE Receiving BY <1>1, ReturnsReceived DEF Receiving
<1>2. CASE ~Receiving
  <2>1. UNCHANGED receipt
    BY <1>2, PartMoves DEF ownAfter
  <2>2. ReturnedRows' = ReturnedRows
    <3>1. CASE UNCHANGED stockVars BY <2>1, <3>1 DEF ReturnedRows, stockVars
    <3>2. CASE TasksNext /\ UNCHANGED ownAfter
      <4>1. ASSUME NEW t \in Tasks, CompleteTask(t), TaskType[t] = "putaway"
            PROVE  ReturnedRows' = ReturnedRows
        <5>1. Book(PutRows(t)) BY <4>1 DEF CompleteTask
        <5>2. TaskRows(t) \in {{}, PutRows(t)} BY <4>1 DEF TasksInv, TaskDone
        <5>3. PutQty # 0 /\ booked' = booked \cup PutRows(t) BY <5>1, <5>2, PutawayBooks
        <5>4. \A r \in PutRows(t) : r.key[1] = t BY <5>3, PutMoves
        <5>5. t \notin DOMAIN receipt BY DeliveryAssumption DEF BooksInv
        <5> QED BY <2>1, <5>3, <5>4, <5>5 DEF ReturnedRows
      <4>2. UNCHANGED stockVars \/ \E t \in Tasks : CompleteTask(t) /\ TaskType[t] = "putaway"
        BY <3>2 DEF TasksNext, ReleaseTask, OpenTaskForm, SaveTaskForm, RecordScan, CompleteTask
      <4> QED BY <3>1, <4>1, <4>2
    <3> QED BY <1>2, <3>1, <3>2, PartMoves
  <2>3. /\ case' \in [Cases -> CaseRow]
        /\ \A c \in Cases : case'[c].received = case[c].received
    <3>1. case \in [Cases -> CaseRow] BY DEF ReturnsInv
    <3>2. ASSUME NEW c \in Cases, NEW x, case' = [case EXCEPT ![c].status = x],
                 x \in {"pending_approval", "approved", "rejected", "completed"}
          PROVE  /\ case' \in [Cases -> CaseRow]
                 /\ \A d \in Cases : case'[d].received = case[d].received
      <4> DEFINE row == [case[c] EXCEPT !.status = x]
      <4>1. row \in CaseRow /\ row.received = case[c].received BY <3>1, <3>2 DEF CaseRow
      <4>2. case' = [case EXCEPT ![c] = row] BY <3>2
      <4> HIDE DEF row
      <4> QED BY <3>1, <4>1, <4>2
    <3>3. CASE CaseMoves BY <3>2, <3>3 DEF CaseMoves, Submit, CompleteCase, ApproveCase
    <3> QED BY <1>2, <3>1, <3>3, PartMoves
  <2>4. SerialsTypeOK BY DEF RowsInv
  <2>5. \A l \in SoldLines : sold[l] \in SoldRow BY <2>4 DEF SerialsTypeOK
  <2>6. SerialsTypeOK' BY RowsStep DEF RowsInv
  <2>7. \A l \in SoldLines : sold'[l] \in SoldRow BY <2>6 DEF SerialsTypeOK, SoldRow
  <2>8. \A l \in SoldLines : sold'[l].returned = sold[l].returned /\ sold'[l].shipped >= sold[l].shipped
    <3>1. CASE SerialsMove BY <2>4, <3>1, SoldGrows
    <3>2. CASE UNCHANGED serialVars BY <2>5, <3>2 DEF serialVars, SoldRow
    <3> QED BY <1>2, <3>1, <3>2, PartMoves
  <2> QED BY <2>1, <2>2, <2>3, <2>5, <2>7, <2>8, ReturnsKept DEF SoldRow
<1> QED BY <1>1, <1>2

\* What an order line got back is what its cases received, each once, and no more
\* than was delivered; and the stock has all of it (submit_case, receive_return).
THEOREM ReturnsAreReceivedAlways == DeliverySpec => []ReturnsAreReceived
<1>1. DeliveryInit => RowsInv /\ BooksInv /\ TasksInv /\ ReturnsInv /\ PaidInv
  BY RowsStart, BooksStart, TasksStart, ReturnsStart, PaidStart
<1>2. RowsInv /\ BooksInv /\ TasksInv /\ ReturnsInv /\ PaidInv /\ [DeliveryNext]_deliveryVars
        => RowsInv' /\ BooksInv' /\ TasksInv' /\ ReturnsInv' /\ PaidInv'
  BY RowsStep, BooksStep, TasksStep, ReturnsStep, PaidStep
<1> QED BY <1>1, <1>2, ReturnsTell, PTL DEF DeliverySpec
=============================================================================
