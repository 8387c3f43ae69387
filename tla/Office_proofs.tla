----------------------------- MODULE Office_proofs -----------------------------
(***************************************************************************)
(* The office, for any number of shipments, boxes, papers, files, batches, *)
(* instances, tasks and people: foreign trade (what a sealed box that left *)
(* holds, what a paper that was given out says), documents (holds and      *)
(* disposals) and workflow (approvals and the locks they take).            *)
(***************************************************************************)
EXTENDS Approvals, Documents, Trade, Totals_proofs, SequenceTheorems

-----------------------------------------------------------------------------
\* The statuses a paper that was given out can still take.
Settled == {"generated", "issued", "void", "cleared", "confirmed", "paid", "reconciled", "approved"}
TradePaperStatus == Settled \cup {"draft", "submitted", "rejected", "cancelled"}

\* A request carries a row of the table it is about, of a paper only while it
\* could be edited.
RequestOK ==
  request # Nothing =>
    /\ request.what \in Papers \cup Boxes \cup Consignments
    /\ request.what \in Papers =>
         /\ request.copy \in PaperRow
         /\ KindOf[request.what] = "contract" \/ request.copy.status = "draft"
    /\ request.what \in Boxes => request.copy \in BoxRow /\ box[request.what] # Nothing
    /\ request.what \in Consignments => request.copy \in ConsignmentRow

TradeTypes ==
  /\ TradeTypeOK /\ RequestOK
  /\ box \in [Boxes -> BoxRow \cup {Nothing}] /\ tradeEdits \in Nat

SentStand ==
  \A x \in sent : x.box \in Boxes /\
    (x.box \in overwritten \/
      (box[x.box] # Nothing /\ box[x.box].items = x.items /\ box[x.box].status = "dispatched"))

\* Only the boxes that no edit touched count, so that a box an edit moved to
\* another shipment leaves no more room than it took.
RoomIsKept ==
  \A s \in Consignments, l \in TradeLines :
    SumOver(Items(l), BoxesOf(s) \ overwritten) <= OrderedQty[l]

\* A contract is given out once; its text may be edited.
GivenStand ==
  \A g \in given : g.paper \in Papers /\
    (g.paper \in overwritten \/
      /\ paper[g.paper].status \in Settled
      /\ KindOf[g.paper] # "contract" => paper[g.paper].text = g.text)

\* What others have was given out as it is.
OutWasGiven ==
  \A p \in Papers : Stands(p) /\ paper[p].status \in OutStatus =>
    \E x \in given : x.paper = p /\ x.text = paper[p].text

TradeInv == TradeTypes /\ SentStand /\ RoomIsKept /\ GivenStand /\ OutWasGiven
-----------------------------------------------------------------------------
\* What each move of a paper leads to.
LEMMA PaperSteps ==
  ASSUME NEW p \in Papers, NEW step \in PaperWay[KindOf[p]]
  PROVE  /\ step[2] \in TradePaperStatus
         /\ step[1] \in Settled => step[2] \in Settled
         /\ step[2] \in GivenOut => step[2] \in Settled
         /\ KindOf[p] = "contract" => step[1] = "draft"
         /\ step[2] \in OutStatus => step[2] \in GivenOut \/ step[1] \in OutStatus
<1>1. KindOf[p] \in {"document", "customs", "settlement", "contract"}
  BY TradeAssumption
<1>2. CASE KindOf[p] = "document"
  BY <1>2 DEF PaperWay, TradePaperStatus, Settled, GivenOut, OutStatus
<1>3. CASE KindOf[p] = "customs"
  BY <1>3 DEF PaperWay, TradePaperStatus, Settled, GivenOut, OutStatus
<1>4. CASE KindOf[p] = "settlement"
  BY <1>4 DEF PaperWay, TradePaperStatus, Settled, GivenOut, OutStatus
<1>5. CASE KindOf[p] = "contract"
  BY <1>5 DEF PaperWay, TradePaperStatus, Settled, GivenOut, OutStatus
<1> QED BY <1>1, <1>2, <1>3, <1>4, <1>5

\* The quantities in boxes are naturals, of every box.
LEMMA ItemsAreNat ==
  ASSUME TradeTypes, NEW l \in TradeLines, NEW b \in Boxes
  PROVE  Items(l)[b] \in Nat
<1>1. box[b] = Nothing \/ box[b].items \in [TradeLines -> Nat]
  BY DEF TradeTypes, BoxRow
<1> QED BY <1>1 DEF Items

LEMMA BoxesAreFinite ==
  ASSUME NEW s
  PROVE  IsFiniteSet(BoxesOf(s)) /\ IsFiniteSet(BoxesOf(s) \ overwritten) /\ BoxesOf(s) \subseteq Boxes
<1>1. BoxesOf(s) \subseteq Boxes /\ BoxesOf(s) \ overwritten \subseteq Boxes
  BY DEF BoxesOf
<1> QED BY <1>1, TradeAssumption, FS_Subset

\* A step leaves the room when every box that counts afterwards counted before
\* with the same items, or is empty.
LEMMA RoomFollows ==
  ASSUME RoomIsKept, TradeTypes,
         \A s \in Consignments, l \in TradeLines : \A b \in (BoxesOf(s) \ overwritten)' :
           b \in Boxes /\ \/ b \in BoxesOf(s) \ overwritten /\ Items(l)'[b] = Items(l)[b]
                          \/ Items(l)'[b] = 0
  PROVE  RoomIsKept'
<1> SUFFICES ASSUME NEW s \in Consignments, NEW l \in TradeLines
             PROVE  SumOver(Items(l), BoxesOf(s) \ overwritten)' <= OrderedQty[l]
  BY DEF RoomIsKept
<1> DEFINE S == BoxesOf(s) \ overwritten
           S1 == (BoxesOf(s) \ overwritten)'
           T == S1 \cap S
           f == Items(l)
           g == Items(l)'
<1>1. IsFiniteSet(S) /\ \A b \in S : f[b] \in Int /\ f[b] >= 0
  BY BoxesAreFinite, ItemsAreNat
<1>2. T \in SUBSET S /\ T \in SUBSET S1 /\ \A b \in S1 \ T : g[b] = 0
  OBVIOUS
<1>3. IsFiniteSet(S1)
  <2>1. S1 \subseteq Boxes
    OBVIOUS
  <2> QED BY <2>1, TradeAssumption, FS_Subset
<1>4. \A b \in S1 : g[b] \in Int
  BY <1>1
<1>5. \A b \in T : f[b] \in Int /\ g[b] \in Int /\ (g[b] = f[b] \/ g[b] = 0)
  BY <1>1
<1>6. IsFiniteSet(T)
  BY <1>1, <1>2, FS_Subset
<1> DEFINE U == {b \in T : g[b] = f[b]}
<1>7. U \in SUBSET S /\ U \in SUBSET S1 /\ \A b \in S1 \ U : g[b] = 0
  BY <1>2, <1>5
<1> HIDE DEF T
<1>8. SumOver(g, S1) = SumOver(g, U)
  BY <1>3, <1>4, <1>7, SumSupport
<1>9. IsFiniteSet(U) /\ \A b \in U : f[b] \in Int /\ g[b] = f[b]
  BY <1>5, <1>6, <1>7, FS_Subset
<1>10. SumOver(g, U) = SumOver(f, U) /\ SumOver(f, U) \in Int
  BY <1>9, SumAgree, SumType
<1>11. SumOver(f, U) <= SumOver(f, S) /\ SumOver(f, S) \in Int
  BY <1>1, <1>7, SumMonotone, SumType
<1>12. SumOver(f, S) <= OrderedQty[l] /\ OrderedQty[l] \in Int
  BY TradeAssumption DEF RoomIsKept
<1> HIDE DEF S, f, g, U
<1>13. SumOver(g, S1) <= OrderedQty[l]
  BY <1>8, <1>10, <1>11, <1>12
<1> QED BY <1>13 DEF g

\* Steps that leave the papers, and what was given out of them.
LEMMA PapersStay ==
  ASSUME TradeInv, UNCHANGED <<paper, given>>, overwritten \subseteq overwritten'
  PROVE  GivenStand' /\ OutWasGiven'
BY DEF TradeInv, GivenStand, OutWasGiven

\* One box gets another row; it stays with its shipment, and did not leave.
LEMMA SetBoxTypes ==
  ASSUME TradeInv, NEW b \in Boxes, NEW row \in BoxRow, SetBox(b, row),
         box[b] = Nothing \/ box[b].status # "dispatched"
  PROVE  TradeTypes' /\ SentStand' /\ GivenStand' /\ OutWasGiven'
<1> USE DEF SetBox, papersUnchanged
<1>1. box' \in [Boxes -> BoxRow \cup {Nothing}]
  BY DEF TradeInv, TradeTypes
<1>a. \A c \in Boxes : box[c] # Nothing => box'[c] # Nothing
  BY NoBoxAssumption DEF TradeInv, TradeTypes
<1>2. TradeTypes'
  BY <1>1, <1>a DEF TradeInv, TradeTypes, TradeTypeOK, RequestOK
<1>3. SentStand'
  BY DEF TradeInv, SentStand, TradeTypes
<1>4. GivenStand' /\ OutWasGiven'
  BY PapersStay
<1> QED BY <1>2, <1>3, <1>4

LEMMA SameItems ==
  ASSUME TradeInv, NEW b \in Boxes, NEW row \in BoxRow, SetBox(b, row),
         box[b] # Nothing, row.of = box[b].of, row.items = box[b].items
  PROVE  RoomIsKept'
<1>1. \A s : BoxesOf(s)' = BoxesOf(s)
  BY NoBoxAssumption DEF BoxesOf, SetBox, TradeInv, TradeTypes
<1>2. \A l : Items(l)' = Items(l)
  BY NoBoxAssumption DEF Items, SetBox, TradeInv, TradeTypes
<1>3. \A s : BoxesOf(s) \subseteq Boxes
  BY DEF BoxesOf
<1> QED BY <1>1, <1>2, <1>3, RoomFollows DEF TradeInv, SetBox, papersUnchanged

LEMMA CreateBoxKeeps ==
  ASSUME TradeInv, NEW b \in Boxes, NEW s \in Consignments, CreateBox(b, s)
  PROVE  TradeInv'
<1> DEFINE row == [of |-> s, status |-> "draft", items |-> [l \in TradeLines |-> 0]]
<1>1. row \in BoxRow /\ SetBox(b, row) /\ box[b] = Nothing
  BY DEF CreateBox, BoxRow
<1>2. TradeTypes' /\ SentStand' /\ GivenStand' /\ OutWasGiven'
  BY <1>1, SetBoxTypes
<1>3. box' = [box EXCEPT ![b] = row] /\ overwritten' = overwritten
  BY <1>1 DEF SetBox, papersUnchanged
<1>4. ASSUME NEW z \in Consignments, NEW l \in TradeLines, NEW c \in (BoxesOf(z) \ overwritten)'
      PROVE  c \in Boxes /\ \/ c \in BoxesOf(z) \ overwritten /\ Items(l)'[c] = Items(l)[c]
                            \/ Items(l)'[c] = 0
  <2>1. c \in Boxes /\ box \in [Boxes -> BoxRow \cup {Nothing}]
    BY DEF BoxesOf, TradeInv, TradeTypes
  <2>2. CASE c = b
    <3>1. box'[c] = row
      BY <1>3, <2>1, <2>2
    <3> QED BY <2>1, <3>1 DEF Items
  <2>3. CASE c # b
    <3>1. box'[c] = box[c]
      BY <1>3, <2>1, <2>3
    <3> QED BY <1>3, <2>1, <3>1 DEF Items, BoxesOf
  <2> QED BY <2>2, <2>3
<1>5. RoomIsKept'
  BY <1>4, RoomFollows DEF TradeInv
<1> QED BY <1>2, <1>5 DEF TradeInv

LEMMA PackKeeps ==
  ASSUME TradeInv, NEW b \in Boxes, NEW l \in TradeLines, NEW n \in PackQty, Pack(b, l, n)
  PROVE  TradeInv'
<1> DEFINE items == [box[b].items EXCEPT ![l] = @ + n]
           row == [of |-> box[b].of, status |-> "packing", items |-> items]
<1>1. /\ box[b] # Nothing /\ box[b] \in BoxRow /\ n \in Nat /\ Fits(b, l, n)
      /\ box[b].status # "dispatched" /\ SetBox(b, row)
  BY TradeAssumption DEF Pack, Packable, TradeInv, TradeTypes
<1>a. box[b].items \in [TradeLines -> Nat] /\ box[b].of \in Consignments
  BY <1>1 DEF BoxRow
<1>c. items \in [TradeLines -> Nat]
  BY <1>1, <1>a
<1>2. row \in BoxRow /\ row.of = box[b].of /\ row.items = items
  <2> HIDE DEF items
  <2> QED BY <1>a, <1>c DEF BoxRow
<1>3. TradeTypes' /\ SentStand' /\ GivenStand' /\ OutWasGiven'
  BY <1>1, <1>2, SetBoxTypes
<1>4. /\ box \in [Boxes -> BoxRow \cup {Nothing}] /\ box'[b] = row /\ overwritten' = overwritten
      /\ \A c \in Boxes \ {b} : box'[c] = box[c]
  BY <1>1 DEF SetBox, papersUnchanged, TradeInv, TradeTypes
<1>d. row # Nothing
  BY <1>2, NoBoxAssumption
<1>e. \A k \in TradeLines : items[k] = IF k = l THEN box[b].items[k] + n ELSE box[b].items[k]
  BY <1>a
<1> HIDE DEF items, row
<1>5. \A z : BoxesOf(z)' = BoxesOf(z)
  BY <1>1, <1>2, <1>4, <1>d DEF BoxesOf
<1>6. \A k \in TradeLines : \A c \in Boxes :
        Items(k)'[c] = IF c = b /\ k = l THEN Items(k)[c] + n ELSE Items(k)[c]
  BY <1>1, <1>2, <1>4, <1>d, <1>e DEF Items
<1>7. SUFFICES ASSUME NEW z \in Consignments, NEW k \in TradeLines
               PROVE  SumOver(Items(k), BoxesOf(z) \ overwritten)' <= OrderedQty[k]
  BY <1>3 DEF TradeInv, RoomIsKept
<1> DEFINE f == Items(k)
           g == Items(k)'
           A == BoxesOf(z)
           S == A \ overwritten
<1>8. /\ IsFiniteSet(A) /\ IsFiniteSet(S) /\ S \in SUBSET A /\ A \subseteq Boxes
      /\ \A c \in A : f[c] \in Int /\ f[c] >= 0
  BY BoxesAreFinite, ItemsAreNat DEF TradeInv
<1>9. \A c \in A : g[c] \in Int /\ g[c] >= 0
  BY <1>1, <1>6, <1>8
<1>10. SumOver(g, S) <= SumOver(g, A) /\ SumOver(g, S) \in Int /\ SumOver(g, A) \in Int
  BY <1>8, <1>9, SumMonotone, SumType
<1>11. OrderedQty[k] \in Nat
  BY TradeAssumption
<1>12. SumOver(g, S) <= OrderedQty[k]
  <2>1. CASE k = l /\ b \in A
    <3>1. SumOver(g, A) = SumOver(f, A) + g[b] - f[b]
      <4>1. b \in A /\ \A c \in A : c # b => g[c] = f[c]
        BY <1>6, <1>8, <2>1
      <4>2. IsFiniteSet(A) /\ g[b] \in Int /\ \A c \in A : f[c] \in Int
        BY <1>8, <1>9, <2>1
      <4> HIDE DEF f, g, A
      <4> QED BY <4>1, <4>2, SumChange
    <3>2. z = box[b].of
      BY <2>1 DEF BoxesOf
    <3>4. g[b] = f[b] + n /\ f[b] \in Int /\ SumOver(f, A) \in Int
      BY <1>6, <1>8, <2>1, SumType
    <3>3. SumOver(f, A) + n <= OrderedQty[k]
      <4>1. SumOver(f, A) + n <= IF l \in cancelled THEN 0 ELSE OrderedQty[l]
        BY <1>1, <2>1, <3>2 DEF Fits, Packed
      <4> HIDE DEF f, A
      <4> QED BY <1>1, <1>11, <2>1, <3>4, <4>1
    <3> HIDE DEF f, g, A, S
    <3>5. SumOver(g, A) <= OrderedQty[k]
      BY <1>1, <1>11, <3>1, <3>3, <3>4
    <3> QED BY <1>10, <1>11, <3>5
  <2>2. CASE ~(k = l /\ b \in A)
    <3>1. \A c \in S : g[c] = f[c]
      BY <1>6, <1>8, <2>2
    <3>2. SumOver(g, S) = SumOver(f, S)
      BY <1>8, <3>1, SumAgree
    <3>3. SumOver(f, S) <= OrderedQty[k]
      BY DEF TradeInv, RoomIsKept
    <3> QED BY <3>2, <3>3
  <2> QED BY <2>1, <2>2
<1> QED BY <1>4, <1>5, <1>12

\* Submitting, reviewing and opening a box.
LEMMA BoxStatusKeeps ==
  ASSUME TradeInv, NEW b \in Boxes, NEW approved \in BOOLEAN,
         SubmitBox(b) \/ ReviewBox(b, approved) \/ OpenBox(b)
  PROVE  TradeInv'
<1>1. PICK status \in {"packing", "review", "sealed"} :
        SetBox(b, [box[b] EXCEPT !.status = status])
  BY DEF SubmitBox, ReviewBox, OpenBox
<1>2. box[b] # Nothing /\ box[b] \in BoxRow /\ box[b].status # "dispatched"
  BY DEF SubmitBox, ReviewBox, OpenBox, TradeInv, TradeTypes
<1> DEFINE row == [box[b] EXCEPT !.status = status]
<1>3. row \in BoxRow /\ row.of = box[b].of /\ row.items = box[b].items
  BY <1>2 DEF BoxRow
<1> HIDE DEF row
<1>4. SetBox(b, row)
  BY <1>1 DEF row
<1> QED BY <1>2, <1>3, <1>4, SetBoxTypes, SameItems DEF TradeInv

\* Steps that change neither a box nor what was overwritten.
LEMMA BoxesStay ==
  ASSUME TradeInv, UNCHANGED <<box, sent, overwritten>>
  PROVE  SentStand' /\ RoomIsKept'
<1>1. SentStand'
  BY DEF TradeInv, SentStand
<1>2. \A s : BoxesOf(s)' = BoxesOf(s) /\ BoxesOf(s) \subseteq Boxes
  BY DEF BoxesOf
<1>3. \A l : Items(l)' = Items(l)
  BY DEF Items
<1>4. RoomIsKept'
  BY <1>2, <1>3, RoomFollows DEF TradeInv
<1> QED BY <1>1, <1>4

LEMMA ShipmentKeeps ==
  ASSUME TradeInv,
         \/ \E l \in TradeLines : CancelOrder(l)
         \/ \E s \in Consignments, l \in TradeLines : AddOrder(s, l)
         \/ \E s \in Consignments : RecordException(s) \/ \E step \in Way : MoveOn(s, step)
  PROVE  TradeInv'
<1>1. UNCHANGED <<box, sent, overwritten, paper, given, request, tradeEdits>>
  BY DEF AddOrder, CancelOrder, RecordException, MoveOn, SetConsignment, papersUnchanged
<1>2. SentStand' /\ RoomIsKept' /\ GivenStand' /\ OutWasGiven'
  BY <1>1, BoxesStay, PapersStay
<1>3. consignment' \in [Consignments -> ConsignmentRow]
  <2>0. consignment \in [Consignments -> ConsignmentRow]
    BY DEF TradeInv, TradeTypes, TradeTypeOK
  <2>1. ASSUME NEW s \in Consignments, NEW l \in TradeLines, AddOrder(s, l)
        PROVE  consignment' \in [Consignments -> ConsignmentRow]
    BY <2>0, <2>1 DEF AddOrder, ConsignmentRow
  <2>2. ASSUME NEW l \in TradeLines, CancelOrder(l)
        PROVE  consignment' \in [Consignments -> ConsignmentRow]
    BY <2>0, <2>2 DEF CancelOrder
  <2>3. ASSUME NEW s \in Consignments, RecordException(s)
        PROVE  consignment' \in [Consignments -> ConsignmentRow]
    BY <2>0, <2>3 DEF RecordException, SetConsignment, ConsignmentRow
  <2>4. ASSUME NEW s \in Consignments, NEW step \in Way, MoveOn(s, step)
        PROVE  consignment' \in [Consignments -> ConsignmentRow]
    <3>1. step[2] \in {"planned", "arranging", "confirmed", "packing", "documents", "dispatch_ready",
            "dispatched", "in_transit", "arrived", "delivered", "completed", "exception"}
      BY DEF Way
    <3>2. PICK status : status = step[2]
      OBVIOUS
    <3>3. consignment' = [consignment EXCEPT ![s].status = status, ![s].count = consignment[s].count]
      BY <2>4, <3>2 DEF MoveOn, SetConsignment
    <3>4. \A r \in ConsignmentRow : [r EXCEPT !.status = status, !.count = r.count] \in ConsignmentRow
      BY <3>1, <3>2 DEF ConsignmentRow
    <3>5. consignment'= [consignment EXCEPT ![s] =
            [consignment[s] EXCEPT !.status = status, !.count = consignment[s].count]]
      BY <3>3
    <3> QED BY <2>0, <3>4, <3>5
  <2> QED BY <2>1, <2>2, <2>3, <2>4
<1>4. TradeTypes'
  BY <1>1, <1>3 DEF TradeInv, TradeTypes, TradeTypeOK, RequestOK
<1> QED BY <1>2, <1>4 DEF TradeInv

LEMMA DispatchKeeps ==
  ASSUME TradeInv, NEW s \in Consignments, Dispatch(s)
  PROVE  TradeInv'
<1> DEFINE n == Cardinality(BoxesOf(s))
<1>1. n \in 0..Cardinality(Boxes)
  <2>1. IsFiniteSet(Boxes) /\ BoxesOf(s) \subseteq Boxes
    BY BoxesAreFinite, TradeAssumption
  <2>2. n <= Cardinality(Boxes) /\ IsFiniteSet(BoxesOf(s))
    BY <2>1, FS_Subset
  <2>3. n \in Nat /\ Cardinality(Boxes) \in Nat
    BY <2>1, <2>2, FS_CardinalityType
  <2> QED BY <2>2, <2>3
<1> HIDE DEF n
<1>2. consignment' = [consignment EXCEPT ![s].status = "dispatched", ![s].count = n]
  BY DEF Dispatch, SetConsignment, n
<1>3. consignment' \in [Consignments -> ConsignmentRow]
  BY <1>1, <1>2 DEF TradeInv, TradeTypes, TradeTypeOK, ConsignmentRow
<1>4. /\ UNCHANGED <<paper, given, request, tradeEdits, overwritten>> /\ AllSealed(s)
      /\ box \in [Boxes -> BoxRow \cup {Nothing}] /\ BoxesOf(s) \subseteq Boxes
  BY DEF Dispatch, SetConsignment, papersUnchanged, TradeInv, TradeTypes, BoxesOf
<1>5. \A b \in Boxes \ BoxesOf(s) : box'[b] = box[b]
  BY DEF Dispatch
<1>6. \A b \in BoxesOf(s) :
        /\ box[b] # Nothing /\ box[b] \in BoxRow /\ box[b].status = "sealed"
        /\ box'[b] = [box[b] EXCEPT !.status = "dispatched"] /\ b \in Boxes
  BY <1>4 DEF Dispatch, BoxesOf, AllSealed
<1>7. \A b \in BoxesOf(s) :
        /\ box'[b] \in BoxRow /\ box'[b] # Nothing /\ box'[b].status = "dispatched"
        /\ box'[b].of = box[b].of /\ box'[b].items = box[b].items
  <2>1. \A r \in BoxRow : LET q == [r EXCEPT !.status = "dispatched"] IN
          q \in BoxRow /\ q.status = "dispatched" /\ q.of = r.of /\ q.items = r.items
    BY DEF BoxRow
  <2> SUFFICES ASSUME NEW b \in BoxesOf(s)
               PROVE  /\ box'[b] \in BoxRow /\ box'[b] # Nothing /\ box'[b].status = "dispatched"
                      /\ box'[b].of = box[b].of /\ box'[b].items = box[b].items
    OBVIOUS
  <2>2. box[b] \in BoxRow /\ box'[b] = [box[b] EXCEPT !.status = "dispatched"]
    BY <1>6
  <2> QED BY <2>1, <2>2, NoBoxAssumption
<1>8. box' \in [Boxes -> BoxRow \cup {Nothing}]
  <2>1. box' = [b \in Boxes |-> box'[b]]
    BY DEF Dispatch
  <2> QED BY <1>4, <1>5, <1>7, <2>1
<1>9. TradeTypes'
  <2>1. \A c \in Boxes : box[c] # Nothing => box'[c] # Nothing
    BY <1>5, <1>7
  <2> QED BY <1>3, <1>4, <1>8, <2>1 DEF TradeInv, TradeTypes, TradeTypeOK, RequestOK
<1>10. SentStand'
  <2> SUFFICES ASSUME NEW x \in sent'
               PROVE  x.box \in Boxes /\
                 (x.box \in overwritten \/
                   (box'[x.box] # Nothing /\ box'[x.box].items = x.items /\ box'[x.box].status = "dispatched"))
    BY <1>4 DEF SentStand
  <2>1. CASE x \in sent
    <3>1. x.box \in overwritten \/ x.box \in Boxes \ BoxesOf(s)
      BY <1>6, <2>1 DEF TradeInv, SentStand
    <3> QED BY <1>5, <2>1, <3>1 DEF TradeInv, SentStand
  <2>2. CASE x \notin sent
    <3>1. PICK b \in BoxesOf(s) : x = [box |-> b, items |-> box[b].items]
      BY <2>2 DEF Dispatch
    <3> QED BY <1>6, <1>7, <3>1
  <2> QED BY <2>1, <2>2
<1>11. GivenStand' /\ OutWasGiven'
  BY <1>4, PapersStay
<1>12. \A z : BoxesOf(z)' = BoxesOf(z)
  BY <1>5, <1>6, <1>7 DEF BoxesOf
<1>13. \A l \in TradeLines : \A b \in Boxes : Items(l)'[b] = Items(l)[b]
  BY <1>5, <1>6, <1>7 DEF Items
<1>14. RoomIsKept'
  <2>1. \A z : BoxesOf(z) \subseteq Boxes
    BY DEF BoxesOf
  <2> QED BY <1>4, <1>12, <1>13, <2>1, RoomFollows DEF TradeInv
<1> QED BY <1>9, <1>10, <1>11, <1>14 DEF TradeInv

LEMMA MovePaperKeeps ==
  ASSUME TradeInv, NEW p \in Papers, NEW actor, NEW step \in PaperWay[KindOf[p]],
         MovePaper(p, step, actor)
  PROVE  TradeInv'
<1>1. SentStand' /\ RoomIsKept'
  BY BoxesStay DEF MovePaper
<1>2. /\ step[2] \in TradePaperStatus /\ (step[1] \in Settled => step[2] \in Settled)
      /\ (step[2] \in GivenOut => step[2] \in Settled)
      /\ (KindOf[p] = "contract" => step[1] = "draft")
  BY PaperSteps
<1>3. paper \in [Papers -> PaperRow] /\ paper[p].status = step[1]
  BY DEF MovePaper, TradeInv, TradeTypes, TradeTypeOK
<1>4. /\ paper' \in [Papers -> PaperRow] /\ paper'[p].text = paper[p].text
      /\ paper'[p].status = step[2] /\ \A q \in Papers \ {p} : paper'[q] = paper[q]
  BY <1>2, <1>3 DEF MovePaper, PaperRow, TradePaperStatus, Settled
<1>5. TradeTypes'
  BY <1>4 DEF MovePaper, TradeInv, TradeTypes, TradeTypeOK, RequestOK
<1> DEFINE new == [paper |-> p, text |-> paper[p].text, by |-> actor, as |-> step[2]]
<1>6. /\ given' = given \/ (given' = given \cup {new} /\ step[2] \in Settled)
      /\ overwritten' = overwritten
  BY <1>2 DEF MovePaper
<1>7. new.paper = p /\ new.text = paper[p].text
  OBVIOUS
<1> HIDE DEF new
<1>8. GivenStand'
  <2> SUFFICES ASSUME NEW g \in given'
               PROVE  g.paper \in Papers /\
                 (g.paper \in overwritten \/
                   /\ paper'[g.paper].status \in Settled
                   /\ KindOf[g.paper] # "contract" => paper'[g.paper].text = g.text)
    BY <1>6 DEF GivenStand
  <2>1. CASE g \in given
    BY <1>2, <1>3, <1>4, <2>1 DEF TradeInv, GivenStand
  <2>2. CASE g \notin given
    BY <1>4, <1>6, <1>7, <2>2
  <2> QED BY <2>1, <2>2
<1>9. ASSUME NEW q \in Papers, Stands(q), paper'[q].status \in OutStatus
      PROVE  \E x \in given' : x.paper = q /\ x.text = paper'[q].text
  <2>1. CASE q = p /\ step[2] \in GivenOut
    <3>1. new \in given' BY <2>1 DEF MovePaper, new
    <3> QED BY <1>4, <1>7, <2>1, <3>1
  <2>2. CASE q # p \/ step[2] \notin GivenOut
    <3>1. paper[q].status \in OutStatus /\ paper'[q].text = paper[q].text
      BY <1>3, <1>4, <1>9, <2>2, PaperSteps
    <3> QED BY <1>6, <1>9, <3>1 DEF TradeInv, OutWasGiven
  <2> QED BY <2>1, <2>2
<1>10. OutWasGiven'
  BY <1>9 DEF OutWasGiven
<1> QED BY <1>1, <1>5, <1>8, <1>10 DEF TradeInv

LEMMA OpenTradeEditKeeps ==
  ASSUME TradeInv, NEW x \in Papers \cup Boxes \cup Consignments, OpenTradeEdit(x)
  PROVE  TradeInv'
<1>1. SentStand' /\ RoomIsKept' /\ GivenStand' /\ OutWasGiven'
  BY BoxesStay, PapersStay DEF OpenTradeEdit
<1>2. RequestOK'
  <2>1. x \in Papers => Row(x) \in PaperRow /\ (KindOf[x] = "contract" \/ Row(x).status = "draft")
    BY DEF OpenTradeEdit, Editable, Row, TradeInv, TradeTypes, TradeTypeOK
  <2>2. x \in Boxes => Row(x) \in BoxRow /\ box'[x] # Nothing
    BY TradeAssumption DEF OpenTradeEdit, Row, TradeInv, TradeTypes
  <2>3. x \in Consignments => Row(x) \in ConsignmentRow
    BY TradeAssumption DEF OpenTradeEdit, Row, TradeInv, TradeTypes, TradeTypeOK
  <2>4. request'.what = x /\ request'.copy = Row(x)
    BY DEF OpenTradeEdit
  <2> QED BY <2>1, <2>2, <2>3, <2>4 DEF RequestOK
<1>3. TradeTypes'
  BY <1>2 DEF OpenTradeEdit, TradeInv, TradeTypes, TradeTypeOK
<1> QED BY <1>1, <1>3 DEF TradeInv

\* A save that puts back what a later step had changed is remembered; any other
\* leaves the row as it is, but for the text of a paper.
LEMMA SaveTradeEditKeeps ==
  ASSUME TradeInv, NEW s \in Consignments, SaveTradeEdit(s)
  PROVE  TradeInv'
<1> DEFINE x == request.what
           copy == request.copy
<1>1. /\ request # Nothing /\ request' = Nothing /\ UNCHANGED <<tradeEdits, sent, given>>
      /\ overwritten \subseteq overwritten' /\ overwritten' \subseteq overwritten \cup {x}
      /\ x \notin overwritten' => Row(x) = copy /\ (x \in Boxes => s = box[x].of)
  BY DEF SaveTradeEdit
<1>2. /\ x \in Papers \cup Boxes \cup Consignments
      /\ x \in Papers => copy \in PaperRow /\ (KindOf[x] = "contract" \/ copy.status = "draft")
      /\ x \in Boxes => copy \in BoxRow /\ box[x] # Nothing
      /\ x \in Consignments => copy \in ConsignmentRow
  BY <1>1 DEF TradeInv, TradeTypes, RequestOK
<1>3. /\ consignment \in [Consignments -> ConsignmentRow] /\ paper \in [Papers -> PaperRow]
      /\ box \in [Boxes -> BoxRow \cup {Nothing}] /\ tradeEdits \in Nat
      /\ \A b \in Boxes : box[b] = Nothing \/ box[b] \in BoxRow
  BY DEF TradeInv, TradeTypes, TradeTypeOK
<1>4. RequestOK'
  BY <1>1 DEF RequestOK
<1>5. CASE x \in Papers
  <2> DEFINE row == [copy EXCEPT !.text = tradeEdits]
  <2>1. paper' = [paper EXCEPT ![x] = row] /\ UNCHANGED <<box, consignment>>
    BY <1>5, TradeAssumption DEF SaveTradeEdit
  <2>2. row \in PaperRow /\ row.status = copy.status
    BY <1>2, <1>3, <1>5 DEF PaperRow
  <2> HIDE DEF row, x, copy
  <2>3. paper' \in [Papers -> PaperRow]
    BY <1>3, <1>5, <2>1, <2>2
  <2>4. TradeTypes'
    BY <1>1, <1>3, <1>4, <2>1, <2>3 DEF TradeTypes, TradeTypeOK
  <2>5. \A b : BoxesOf(b)' = BoxesOf(b) /\ BoxesOf(b) \subseteq Boxes
    BY <2>1 DEF BoxesOf
  <2>6. \A l : Items(l)' = Items(l)
    BY <2>1 DEF Items
  <2>7. RoomIsKept'
    BY <1>1, <2>5, <2>6, RoomFollows DEF TradeInv
  <2>8. SentStand'
    BY <1>1, <2>1 DEF TradeInv, SentStand
  <2>9. x \notin overwritten' => paper[x] = copy
    BY <1>1, <1>5 DEF Row
  <2>10. GivenStand'
    <3> SUFFICES ASSUME NEW g \in given, g.paper \notin overwritten'
                 PROVE  /\ paper'[g.paper].status \in Settled
                        /\ KindOf[g.paper] # "contract" => paper'[g.paper].text = g.text
      BY <1>1 DEF GivenStand, TradeInv
    <3>1. /\ g.paper \in Papers /\ paper[g.paper].status \in Settled
          /\ KindOf[g.paper] # "contract" => paper[g.paper].text = g.text
      BY <1>1 DEF TradeInv, GivenStand
    <3>2. CASE g.paper = x
      <4>1. "draft" \notin Settled
        BY DEF Settled
      <4>2. paper'[x] = row /\ paper[x] = copy
        BY <1>3, <1>5, <2>1, <2>9, <3>2
      <4> QED BY <1>2, <1>5, <2>2, <3>1, <3>2, <4>1, <4>2
    <3>3. CASE g.paper # x
      BY <1>3, <2>1, <3>1, <3>3
    <3> QED BY <3>2, <3>3
  <2>11. OutWasGiven'
    <3> SUFFICES ASSUME NEW p \in Papers, Stands(p), paper'[p].status \in OutStatus
                 PROVE  \E y \in given : y.paper = p /\ y.text = paper'[p].text
      BY <1>1 DEF OutWasGiven
    <3>1. p # x
      <4>1. "draft" \notin OutStatus BY DEF OutStatus
      <4> QED BY <1>2, <1>3, <1>5, <2>1, <2>2, <4>1 DEF Stands
    <3> QED BY <1>3, <2>1, <3>1 DEF TradeInv, OutWasGiven
  <2> QED BY <2>4, <2>7, <2>8, <2>10, <2>11 DEF TradeInv
<1>6. CASE x \in Boxes
  <2> DEFINE row == [copy EXCEPT !.items = box[x].items, !.of = s]
  <2>1. box' = [box EXCEPT ![x] = row] /\ UNCHANGED <<paper, consignment>>
    BY <1>6, TradeAssumption DEF SaveTradeEdit
  <2>2. x \notin overwritten' => box[x] = copy /\ s = box[x].of
    BY <1>1, <1>6, TradeAssumption DEF Row
  <2>3. x \notin overwritten' => box[x] \in BoxRow /\ row = box[x]
    <3>1. \A r \in BoxRow : [r EXCEPT !.items = r.items, !.of = r.of] = r
      BY DEF BoxRow
    <3> QED BY <1>2, <1>6, <2>2, <3>1
  <2>4. row \in BoxRow
    <3>1. \A r, q \in BoxRow : [r EXCEPT !.items = q.items, !.of = s] \in BoxRow
      BY DEF BoxRow
    <3> QED BY <1>2, <1>3, <1>6, <3>1
  <2> HIDE DEF row, x, copy
  <2>5. /\ box' \in [Boxes -> BoxRow \cup {Nothing}] /\ row # Nothing /\ box'[x] = row
        /\ \A b \in Boxes \ {x} : box'[b] = box[b]
    BY <1>3, <1>6, <2>1, <2>4, NoBoxAssumption
  <2>6. TradeTypes'
    BY <1>1, <1>3, <1>4, <2>1, <2>5 DEF TradeTypes, TradeTypeOK
  <2>7. \A b \in Boxes : b \in overwritten' \/ box'[b] = box[b]
    BY <2>3, <2>5
  <2>8. SentStand'
    BY <1>1, <2>7 DEF TradeInv, SentStand
  <2>9. GivenStand' /\ OutWasGiven'
    BY <1>1, <2>1, PapersStay
  <2>10. ASSUME NEW z \in Consignments, NEW l \in TradeLines, NEW b \in (BoxesOf(z) \ overwritten)'
         PROVE  b \in Boxes /\ b \in BoxesOf(z) \ overwritten /\ Items(l)'[b] = Items(l)[b]
    BY <1>1, <2>7 DEF BoxesOf, Items
  <2>11. RoomIsKept'
    BY <2>10, RoomFollows DEF TradeInv
  <2> QED BY <2>6, <2>8, <2>9, <2>11 DEF TradeInv
<1>7. CASE x \in Consignments
  <2> DEFINE row == [copy EXCEPT !.lines = consignment[x].lines]
  <2>1. consignment' = [consignment EXCEPT ![x] = row] /\ UNCHANGED <<paper, box>>
    BY <1>7, TradeAssumption DEF SaveTradeEdit
  <2>2. row \in ConsignmentRow
    BY <1>2, <1>3, <1>7 DEF ConsignmentRow
  <2> HIDE DEF row, x, copy
  <2>3. consignment' \in [Consignments -> ConsignmentRow]
    BY <1>3, <1>7, <2>1, <2>2
  <2>4. TradeTypes'
    BY <1>1, <1>3, <1>4, <2>1, <2>3 DEF TradeTypes, TradeTypeOK
  <2>5. SentStand'
    BY <1>1, <2>1 DEF TradeInv, SentStand
  <2>6. GivenStand' /\ OutWasGiven'
    BY <1>1, <2>1, PapersStay
  <2>7. \A z : BoxesOf(z)' = BoxesOf(z) /\ BoxesOf(z) \subseteq Boxes
    BY <2>1 DEF BoxesOf
  <2>8. \A l : Items(l)' = Items(l)
    BY <2>1 DEF Items
  <2>9. RoomIsKept'
    BY <1>1, <2>7, <2>8, RoomFollows DEF TradeInv
  <2> QED BY <2>4, <2>5, <2>6, <2>9 DEF TradeInv
<1> QED BY <1>2, <1>5, <1>6, <1>7

LEMMA TradeInitially == TradeInit => TradeInv
<1> SUFFICES ASSUME TradeInit PROVE TradeInv
  OBVIOUS
<1>1. Cardinality(Boxes) \in Nat
  BY TradeAssumption, FS_CardinalityType
<1>2. TradeTypes
  BY <1>1 DEF TradeInit, TradeTypes, TradeTypeOK, RequestOK, ConsignmentRow, PaperRow
<1>3. SentStand /\ GivenStand /\ OutWasGiven
  BY DEF TradeInit, SentStand, GivenStand, OutWasGiven, OutStatus
<1>4. RoomIsKept
  <2> SUFFICES ASSUME NEW s \in Consignments, NEW l \in TradeLines
               PROVE  SumOver(Items(l), BoxesOf(s) \ overwritten) <= OrderedQty[l]
    BY DEF RoomIsKept
  <2>1. BoxesOf(s) \ overwritten = {}
    BY DEF TradeInit, BoxesOf
  <2>2. OrderedQty[l] \in Nat
    BY TradeAssumption
  <2> QED BY <2>1, <2>2, SumEmpty
<1> QED BY <1>2, <1>3, <1>4 DEF TradeInv

LEMMA TradeStep == TradeInv /\ [TradeNext]_tradeVars => TradeInv'
<1> SUFFICES ASSUME TradeInv, [TradeNext]_tradeVars PROVE TradeInv'
  OBVIOUS
<1>1. CASE \/ \E l \in TradeLines : CancelOrder(l)
           \/ \E s \in Consignments, l \in TradeLines : AddOrder(s, l)
           \/ \E s \in Consignments : RecordException(s) \/ \E step \in Way : MoveOn(s, step)
  BY <1>1, ShipmentKeeps
<1>2. ASSUME NEW b \in Boxes, SubmitBox(b) \/ OpenBox(b) \/ \E approved \in BOOLEAN : ReviewBox(b, approved)
      PROVE  TradeInv'
  BY <1>2, BoxStatusKeeps
<1>3. ASSUME NEW b \in Boxes, NEW s \in Consignments, CreateBox(b, s)
      PROVE  TradeInv'
  BY <1>3, CreateBoxKeeps
<1>4. ASSUME NEW b \in Boxes, NEW l \in TradeLines, NEW n \in PackQty, Pack(b, l, n)
      PROVE  TradeInv'
  BY <1>4, PackKeeps
<1>5. ASSUME NEW s \in Consignments, Dispatch(s)
      PROVE  TradeInv'
  BY <1>5, DispatchKeeps
<1>7. ASSUME NEW s \in Consignments, SaveTradeEdit(s)
      PROVE  TradeInv'
  BY <1>7, SaveTradeEditKeeps
<1>8. ASSUME NEW x \in Papers \cup Boxes \cup Consignments, OpenTradeEdit(x)
      PROVE  TradeInv'
  BY <1>8, OpenTradeEditKeeps
<1>9. ASSUME NEW p \in Papers, NEW actor, NEW step \in PaperWay[KindOf[p]], MovePaper(p, step, actor)
      PROVE  TradeInv'
  BY <1>9, MovePaperKeeps
<1>10. CASE UNCHANGED tradeVars
  <2>1. TradeTypes'
    BY <1>10 DEF tradeVars, TradeInv, TradeTypes, TradeTypeOK, RequestOK
  <2> QED BY <1>10, <2>1, BoxesStay, PapersStay DEF tradeVars, TradeInv
<1>11. CASE BoxesNext
  <2>1. CASE \E l \in TradeLines : CancelOrder(l) \/ \E s \in Consignments : AddOrder(s, l)
    BY <2>1, <1>1
  <2>2. CASE \E b \in Boxes : SubmitBox(b) \/ OpenBox(b)
               \/ \E approved \in BOOLEAN : ReviewBox(b, approved)
               \/ \E s \in Consignments : CreateBox(b, s)
               \/ \E l \in TradeLines, n \in PackQty : Pack(b, l, n)
    BY <2>2, <1>2, <1>3, <1>4
  <2>3. CASE \E s \in Consignments : Dispatch(s) \/ RecordException(s) \/ SaveTradeEdit(s)
               \/ \E step \in Way : MoveOn(s, step)
    <3>1. PICK s \in Consignments : Dispatch(s) \/ RecordException(s) \/ SaveTradeEdit(s)
               \/ \E step \in Way : MoveOn(s, step)
      BY <2>3
    <3>2. CASE RecordException(s) \/ \E step \in Way : MoveOn(s, step)
      BY <3>2, ShipmentKeeps
    <3> QED BY <3>1, <3>2, <1>5, <1>7
  <2>4. CASE \E x \in Boxes \cup Consignments : OpenTradeEdit(x)
    BY <2>4, <1>8
  <2> QED BY <1>11, <2>1, <2>2, <2>3, <2>4 DEF BoxesNext
<1>12. CASE PapersNext
  BY <1>7, <1>8, <1>9, <1>12 DEF PapersNext
<1> QED BY <1>10, <1>11, <1>12 DEF TradeNext

\* What left in a sealed box is what was reviewed, and no shipment holds more of
\* an order line than was ordered, in every behaviour (SentBoxesStand).
THEOREM SentBoxesStandAlways == TradeSpec => []SentBoxesStand
<1>1. TradeInv => SentBoxesStand
  <2> SUFFICES ASSUME TradeInv, NEW s \in Consignments, NEW l \in TradeLines,
                      BoxesOf(s) \cap overwritten = {}
               PROVE  Packed(s, l) <= OrderedQty[l]
    BY DEF TradeInv, SentStand, SentBoxesStand
  <2>1. BoxesOf(s) \ overwritten = BoxesOf(s)
    OBVIOUS
  <2> QED BY <2>1 DEF TradeInv, RoomIsKept, Packed
<1> QED BY <1>1, TradeInitially, TradeStep, PTL DEF TradeSpec

\* What others have of a document, a declaration or a settlement is what was given
\* out, and what was given out stands, in every behaviour (PapersStand).
THEOREM PapersStandAlways == TradeSpec => []PapersStand
<1>1. TradeInv => PapersStand
  BY DEF TradeInv, TradeTypes, OutWasGiven, GivenStand, Stands, PapersStand
<1> QED BY <1>1, TradeInitially, TradeStep, PTL DEF TradeSpec
-----------------------------------------------------------------------------
EditKinds == {"archived", "recycled", "active", "hold", "lift", "edit"}

\* A request holds a row it was allowed to change.
EditsOK ==
  \A c \in Clerks : edit[c] # NoForm =>
    /\ edit[c].file \in Files /\ edit[c].kind \in EditKinds /\ edit[c].copy \in FileRow
    /\ Allowed(edit[c].kind, edit[c].copy)

DocumentTypes ==
  /\ DocumentsTypeOK /\ version \in [Files -> 0..MaxVersions] /\ EditsOK
  /\ frozen \subseteq Files /\ \A d \in disposed : d.file \in Files

\* A batch that is not executed has disposed of nothing.
BatchesWhole ==
  \A b \in Batches :
    /\ \A f : (\E d \in disposed : d.batch = b /\ d.file = f)
              <=> (batch[b].status = "executed" /\ f \in ItemsOf[b])
    /\ batch[b].status \in {"approved", "executed"} => batch[b].by \notin {Requester[b], NoForm}

FilesTell ==
  \A f \in Files \ late :
    /\ file[f].current = version[f]
    /\ (\E d \in disposed : d.file = f) <=> file[f].status = "disposed"

DocumentsInv == DocumentTypes /\ HoldsBind /\ BatchesWhole /\ FilesTell

LEMMA DocumentsInitially == DocumentsInit => DocumentsInv
BY DocumentsAssumption
DEF DocumentsInit, DocumentsInv, DocumentTypes, DocumentsTypeOK, EditsOK, HoldsBind, BatchesWhole,
    FilesTell, FileRow, BatchRow

LEMMA AddVersionKeeps ==
  ASSUME DocumentsInv, NEW f \in Files, AddVersion(f)
  PROVE  DocumentsInv'
<1>1. /\ file \in [Files -> FileRow] /\ version \in [Files -> 0..MaxVersions]
      /\ file' = [file EXCEPT ![f].current = version[f] + 1]
      /\ version' = [version EXCEPT ![f] = version[f] + 1]
      /\ version[f] + 1 \in 0..MaxVersions
      /\ UNCHANGED <<batch, edit, frozen, disposed, late>>
  BY DocumentsAssumption DEF AddVersion, DocumentsInv, DocumentTypes, DocumentsTypeOK
<1>2. file' \in [Files -> FileRow] /\ version' \in [Files -> 0..MaxVersions]
  BY <1>1 DEF FileRow
<1>3. \A g \in Files : /\ file'[g].hold = file[g].hold /\ file'[g].status = file[g].status
                       /\ file[g].current = version[g] => file'[g].current = version'[g]
  BY <1>1 DEF FileRow
<1>4. DocumentTypes'
  BY <1>1, <1>2 DEF DocumentsInv, DocumentTypes, DocumentsTypeOK, EditsOK
<1>5. HoldsBind'
  BY <1>1, <1>3 DEF DocumentsInv, DocumentTypes, HoldsBind
<1>6. BatchesWhole'
  BY <1>1 DEF DocumentsInv, BatchesWhole
<1>7. FilesTell'
  BY <1>1, <1>3 DEF DocumentsInv, FilesTell
<1> QED BY <1>4, <1>5, <1>6, <1>7 DEF DocumentsInv

LEMMA ScanKeeps ==
  ASSUME DocumentsInv, NEW f \in Files, NEW v, NEW clean \in BOOLEAN, SetScanResult(f, v, clean)
  PROVE  DocumentsInv'
<1>1. PICK status \in {"active", "draft"} :
        /\ file' = [file EXCEPT ![f].status = status]
        /\ UNCHANGED <<version, batch, edit, frozen, disposed>>
        /\ late \subseteq late' /\ (f \notin late' => file[f].status \in {"draft", "active"})
  BY DEF SetScanResult
<1>2. file \in [Files -> FileRow]
  BY DEF DocumentsInv, DocumentTypes, DocumentsTypeOK
<1>3. /\ file' \in [Files -> FileRow] /\ file'[f].status = status
      /\ \A g \in Files : file'[g].hold = file[g].hold /\ file'[g].current = file[g].current
      /\ \A g \in Files \ {f} : file'[g] = file[g]
  BY <1>1, <1>2 DEF FileRow
<1>4. DocumentTypes'
  BY <1>1, <1>3 DEF DocumentsInv, DocumentTypes, DocumentsTypeOK, EditsOK
<1>5. HoldsBind'
  BY <1>1, <1>3 DEF DocumentsInv, DocumentTypes, HoldsBind
<1>6. BatchesWhole'
  BY <1>1 DEF DocumentsInv, BatchesWhole
<1>7. FilesTell'
  BY <1>1, <1>3 DEF DocumentsInv, FilesTell
<1> QED BY <1>4, <1>5, <1>6, <1>7 DEF DocumentsInv

LEMMA OpenEditKeeps ==
  ASSUME DocumentsInv, NEW c \in Clerks, NEW f \in Files, NEW k \in EditKinds, OpenEdit(c, f, k)
  PROVE  DocumentsInv'
<1>1. UNCHANGED <<file, version, batch, frozen, disposed, late>>
  BY DEF OpenEdit
<1>2. EditsOK'
  <2> SUFFICES ASSUME NEW d \in Clerks, edit'[d] # NoForm
               PROVE  /\ edit'[d].file \in Files /\ edit'[d].kind \in EditKinds
                      /\ edit'[d].copy \in FileRow /\ Allowed(edit'[d].kind, edit'[d].copy)
    BY DEF EditsOK, Allowed
  <2>1. edit' = [edit EXCEPT ![c] = [file |-> f, kind |-> k, copy |-> file[f]]] /\ Allowed(k, file[f])
    BY DEF OpenEdit
  <2>2. file[f] \in FileRow
    BY DEF DocumentsInv, DocumentTypes, DocumentsTypeOK
  <2>3. edit'[d] = edit[d] \/ edit'[d] = [file |-> f, kind |-> k, copy |-> file[f]]
    BY <2>1
  <2> QED BY <2>1, <2>2, <2>3 DEF DocumentsInv, DocumentTypes, EditsOK
<1>3. DocumentTypes'
  BY <1>1, <1>2 DEF DocumentsInv, DocumentTypes, DocumentsTypeOK
<1>4. HoldsBind' /\ BatchesWhole' /\ FilesTell'
  BY <1>1 DEF DocumentsInv, HoldsBind, BatchesWhole, FilesTell
<1> QED BY <1>3, <1>4 DEF DocumentsInv

LEMMA SaveEditKeeps ==
  ASSUME DocumentsInv, NEW c \in Clerks, SaveEdit(c)
  PROVE  DocumentsInv'
<1> DEFINE e == edit[c]
           f == e.file
           row == Saved(e)
<1>1. /\ e # NoForm /\ file' = [file EXCEPT ![f] = row] /\ UNCHANGED <<version, batch, disposed>>
      /\ edit' = [edit EXCEPT ![c] = NoForm]
      /\ late \subseteq late' /\ (f \notin late' => file[f] = e.copy)
  BY DEF SaveEdit
<1>2. /\ f \in Files /\ e.kind \in EditKinds /\ e.copy \in FileRow /\ Allowed(e.kind, e.copy)
      /\ file \in [Files -> FileRow] /\ file[f] \in FileRow
  BY <1>1 DEF DocumentsInv, DocumentTypes, DocumentsTypeOK, EditsOK
<1>3. row \in FileRow
  BY <1>2 DEF Saved, EditKinds, FileRow
<1>4. f \notin late' => row.current = file[f].current
  BY <1>1, <1>2 DEF Saved, EditKinds, FileRow
<1>5. f \notin late' => (row.status = "disposed" <=> file[f].status = "disposed")
  BY <1>1, <1>2 DEF Saved, EditKinds, FileRow, Allowed
<1>6. f \notin late' /\ f \in frozen' => row.hold
  <2>1. CASE e.kind = "hold"
    BY <1>2, <2>1 DEF Saved, FileRow
  <2>2. CASE e.kind = "lift"
    BY <2>2 DEF SaveEdit
  <2>3. CASE e.kind \notin {"hold", "lift"}
    <3>1. f \in frozen' => f \in frozen
      BY <2>3 DEF SaveEdit
    <3>2. f \notin late' /\ f \in frozen => file[f].hold
      BY <1>1 DEF DocumentsInv, HoldsBind
    <3>3. f \notin late' => row.hold = file[f].hold
      BY <1>1, <1>2, <2>3 DEF Saved, EditKinds, FileRow
    <3> QED BY <3>1, <3>2, <3>3
  <2> QED BY <2>1, <2>2, <2>3
<1>7. frozen' \subseteq frozen \cup {f}
  BY DEF SaveEdit
<1> HIDE DEF row, e
<1>8. file' \in [Files -> FileRow] /\ file'[f] = row /\ \A g \in Files \ {f} : file'[g] = file[g]
  BY <1>1, <1>2, <1>3
<1>9. EditsOK'
  BY <1>1 DEF DocumentsInv, DocumentTypes, EditsOK, Allowed
<1>10. DocumentTypes'
  BY <1>1, <1>2, <1>7, <1>8, <1>9 DEF DocumentsInv, DocumentTypes, DocumentsTypeOK
<1>11. HoldsBind'
  BY <1>1, <1>2, <1>6, <1>7, <1>8 DEF DocumentsInv, DocumentTypes, HoldsBind
<1>12. BatchesWhole'
  BY <1>1 DEF DocumentsInv, BatchesWhole
<1>13. FilesTell'
  BY <1>1, <1>4, <1>5, <1>8 DEF DocumentsInv, FilesTell
<1> QED BY <1>10, <1>11, <1>12, <1>13 DEF DocumentsInv

LEMMA BatchKeeps ==
  ASSUME DocumentsInv, NEW b \in Batches, CreateBatch(b) \/ \E u \in Keepers : ApproveDisposal(b, u)
  PROVE  DocumentsInv'
<1>1. UNCHANGED <<file, version, edit, frozen, disposed, late>> /\ batch \in [Batches -> BatchRow]
  BY DEF CreateBatch, ApproveDisposal, DocumentsInv, DocumentTypes, DocumentsTypeOK
<1>2. /\ batch' \in [Batches -> BatchRow] /\ \A x \in Batches \ {b} : batch'[x] = batch[x]
      /\ batch[b].status # "executed" /\ batch'[b].status # "executed"
      /\ batch'[b].status = "approved" => batch'[b].by \notin {Requester[b], NoForm}
  <2>1. CASE CreateBatch(b)
    BY <1>1, <2>1 DEF CreateBatch, BatchRow
  <2>2. ASSUME NEW u \in Keepers, ApproveDisposal(b, u)
        PROVE  /\ batch' \in [Batches -> BatchRow] /\ \A x \in Batches \ {b} : batch'[x] = batch[x]
               /\ batch[b].status # "executed" /\ batch'[b].status # "executed"
               /\ batch'[b].status = "approved" => batch'[b].by \notin {Requester[b], NoForm}
    BY <1>1, <2>2, DocumentsAssumption DEF ApproveDisposal, BatchRow
  <2> QED BY <2>1, <2>2
<1>3. DocumentTypes'
  BY <1>1, <1>2 DEF DocumentsInv, DocumentTypes, DocumentsTypeOK, EditsOK
<1>4. HoldsBind' /\ FilesTell'
  BY <1>1 DEF DocumentsInv, HoldsBind, FilesTell
<1>5. BatchesWhole'
  BY <1>1, <1>2 DEF DocumentsInv, BatchesWhole
<1> QED BY <1>3, <1>4, <1>5 DEF DocumentsInv

LEMMA ExecuteKeeps ==
  ASSUME DocumentsInv, NEW b \in Batches, ExecuteDisposal(b)
  PROVE  DocumentsInv'
<1> DEFINE items == ItemsOf[b]
           new == {[file |-> f, batch |-> b, frozen |-> f \in frozen] : f \in items}
<1>1. /\ batch[b].status = "approved" /\ items \subseteq Files
      /\ \A f \in items : ~file[f].hold
      /\ batch' = [batch EXCEPT ![b].status = "executed"]
      /\ file' = [f \in Files |-> IF f \in items THEN [file[f] EXCEPT !.status = "disposed"] ELSE file[f]]
      /\ disposed' = disposed \cup new
      /\ UNCHANGED <<version, edit, frozen, late>>
  BY DocumentsAssumption DEF ExecuteDisposal, Disposable, NoneHeld
<1>2. file \in [Files -> FileRow] /\ batch \in [Batches -> BatchRow]
  BY DEF DocumentsInv, DocumentTypes, DocumentsTypeOK
<1>3. /\ \A d \in new : d.batch = b /\ d.file \in items /\ (d.frozen => d.file \in frozen)
      /\ \A f \in items : \E d \in new : d.batch = b /\ d.file = f
  <2>1. ASSUME NEW d \in new PROVE d.batch = b /\ d.file \in items /\ (d.frozen => d.file \in frozen)
    <3>1. PICK f \in items : d = [file |-> f, batch |-> b, frozen |-> f \in frozen]
      BY <2>1
    <3>2. d.file = f /\ d.batch = b
      BY <3>1
    <3>3. d.frozen = (f \in frozen)
      BY <3>1, Zenon
    <3> QED BY <3>2, <3>3
  <2>2. ASSUME NEW f \in items PROVE \E d \in new : d.batch = b /\ d.file = f
    <3>1. [file |-> f, batch |-> b, frozen |-> f \in frozen] \in new
      OBVIOUS
    <3> QED BY <3>1
  <2> QED BY <2>1, <2>2
<1> HIDE DEF new, items
<1>4. /\ file' \in [Files -> FileRow]
      /\ \A f \in Files : file'[f].hold = file[f].hold /\ file'[f].current = file[f].current
      /\ \A f \in items : file'[f].status = "disposed"
      /\ \A f \in Files \ items : file'[f] = file[f]
  BY <1>1, <1>2 DEF FileRow
<1>5. /\ batch' \in [Batches -> BatchRow] /\ batch'[b].status = "executed" /\ batch'[b].by = batch[b].by
      /\ \A x \in Batches \ {b} : batch'[x] = batch[x]
  BY <1>1, <1>2 DEF BatchRow
<1>6. DocumentTypes'
  BY <1>1, <1>3, <1>4, <1>5 DEF DocumentsInv, DocumentTypes, DocumentsTypeOK, EditsOK
<1>7. HoldsBind'
  <2>1. \A f \in frozen' : file'[f].hold \/ f \in late'
    BY <1>1, <1>4 DEF DocumentsInv, DocumentTypes, HoldsBind
  <2>2. \A d \in new : d.frozen => d.file \in late
    BY <1>1, <1>3 DEF DocumentsInv, HoldsBind
  <2> QED BY <1>1, <2>1, <2>2 DEF DocumentsInv, HoldsBind
<1>8. BatchesWhole'
  <2> SUFFICES ASSUME NEW x \in Batches
               PROVE  /\ \A f : (\E d \in disposed' : d.batch = x /\ d.file = f)
                                <=> (batch'[x].status = "executed" /\ f \in ItemsOf[x])
                      /\ batch'[x].status \in {"approved", "executed"} =>
                           batch'[x].by \notin {Requester[x], NoForm}
    BY DEF BatchesWhole
  <2>1. CASE x = b
    <3>1. \A d \in disposed : d.batch # b
      <4>1. batch[b].status # "executed" BY <1>1
      <4>2. BatchesWhole BY DEF DocumentsInv
      <4>3. \A f : ~ \E d \in disposed : d.batch = b /\ d.file = f
        BY ONLY <4>1, <4>2, b \in Batches DEF BatchesWhole
      <4> QED BY ONLY <4>3
    <3>2. \A f : (\E d \in disposed' : d.batch = b /\ d.file = f) <=> f \in items
      <4>1. disposed' = disposed \cup new BY <1>1
      <4>2. \A d \in new : d.batch = b /\ d.file \in items BY <1>3
      <4>3. \A f \in items : \E d \in new : d.batch = b /\ d.file = f BY <1>3
      <4> QED BY ONLY <3>1, <4>1, <4>2, <4>3
    <3>3. batch[b].by \notin {Requester[b], NoForm}
      BY <1>1 DEF DocumentsInv, BatchesWhole
    <3> QED BY ONLY <1>5, <2>1, <3>2, <3>3 DEF items
  <2>2. CASE x # b
    BY <1>1, <1>3, <1>5, <2>2 DEF DocumentsInv, BatchesWhole
  <2> QED BY <2>1, <2>2
<1>9. FilesTell'
  BY <1>1, <1>3, <1>4 DEF DocumentsInv, FilesTell
<1> QED BY <1>6, <1>7, <1>8, <1>9 DEF DocumentsInv

LEMMA DocumentsStep == DocumentsInv /\ [DocumentsNext]_documentVars => DocumentsInv'
<1> SUFFICES ASSUME DocumentsInv, [DocumentsNext]_documentVars PROVE DocumentsInv'
  OBVIOUS
<1>1. CASE UNCHANGED documentVars
  BY <1>1 DEF documentVars, DocumentsInv, DocumentTypes, DocumentsTypeOK, EditsOK, Allowed, HoldsBind,
              BatchesWhole, FilesTell
<1>2. ASSUME NEW f \in Files, AddVersion(f) PROVE DocumentsInv'
  BY <1>2, AddVersionKeeps
<1>3. ASSUME NEW f \in Files, NEW v, NEW clean \in BOOLEAN, SetScanResult(f, v, clean) PROVE DocumentsInv'
  BY <1>3, ScanKeeps
<1>4. ASSUME NEW c \in Clerks, SaveEdit(c) PROVE DocumentsInv'
  BY <1>4, SaveEditKeeps
<1>5. ASSUME NEW c \in Clerks, NEW f \in Files, NEW k \in EditKinds, OpenEdit(c, f, k) PROVE DocumentsInv'
  BY <1>5, OpenEditKeeps
<1>6. ASSUME NEW b \in Batches, CreateBatch(b) \/ \E u \in Keepers : ApproveDisposal(b, u)
      PROVE  DocumentsInv'
  BY <1>6, BatchKeeps
<1>7. ASSUME NEW b \in Batches, ExecuteDisposal(b) PROVE DocumentsInv'
  BY <1>7, ExecuteKeeps
<1> QED BY <1>1, <1>2, <1>3, <1>4, <1>5, <1>6, <1>7 DEF DocumentsNext, EditKinds

\* A legal hold binds, and a batch is disposed of whole and by a second person's
\* approval, in every behaviour (DisposalsAreWhole).
THEOREM DisposalsAreWholeAlways == DocumentsSpec => []DisposalsAreWhole
<1>1. DocumentsInv => DisposalsAreWhole
  <2> SUFFICES ASSUME DocumentsInv, NEW b \in Batches
               PROVE  {d.file : d \in {x \in disposed : x.batch = b}}
                        = (IF batch[b].status = "executed" THEN ItemsOf[b] ELSE {})
    BY DEF DocumentsInv, DocumentTypes, BatchesWhole, FilesTell, DisposalsAreWhole
  <2>1. \A f : f \in {d.file : d \in {x \in disposed : x.batch = b}}
               <=> \E d \in disposed : d.batch = b /\ d.file = f
    OBVIOUS
  <2> QED BY <2>1 DEF DocumentsInv, BatchesWhole
<1> QED BY <1>1, DocumentsInitially, DocumentsStep, PTL DEF DocumentsSpec
-----------------------------------------------------------------------------
ApprovalSession == [op : {"approved", "rejected", "transfer"}, task : Nat, actor : Users,
  target : Users, phase : {"task", "instance", "cancel"}, tasks : SUBSET Nat, left : SUBSET Nat,
  last : BOOLEAN]

ApprovalTypes ==
  /\ members \in [DOMAIN RoleMembers -> SUBSET Users]
  /\ instance \in [Instances -> InstanceRow]
  /\ task \in Seq(ApprovalTaskRow)
  /\ DOMAIN session = Workers
  /\ \A w \in Workers : Works(w) => session[w] \in ApprovalSession

\* What a task says, as far as its instance has come.
TaskFits(t) ==
  LET r == task[t]
      i == instance[r.instance] IN
  /\ i.status # "none" /\ r.node <= i.step
  /\ r.node < i.step \/ i.status = "approved" =>
       /\ r.status \notin {"pending", "rejected"}
       /\ Nodes[r.node].mode = "all" => r.status # "cancelled"
  /\ i.status = "pending" => r.status \notin {"rejected", "cancelled"} \/ r.node < i.step
  /\ i.status = "rejected" => r.status # "pending"
  /\ r.status \in {"approved", "rejected"} => r.by # Applicant[r.instance]
  /\ r.status = "rejected" => i.status = "rejected"

\* Where one approval is enough, one task at a time is open or approved.
Live(t) == task[t].status \in {"pending", "approved"}
OneLive(i) ==
  \A t, u \in DOMAIN task :
    (/\ task[t].instance = i /\ task[u].instance = i /\ task[t].node = task[u].node
     /\ Nodes[task[t].node].mode # "all" /\ Live(t) /\ Live(u)) => t = u

HasWork(i) ==
  instance[i].status = "pending" =>
    /\ instance[i].step \in DOMAIN Nodes
    /\ \E t \in DOMAIN task :
         task[t].instance = i /\ task[t].node = instance[i].step /\ task[t].status = "pending"

NodesDone(i) ==
  \A n \in DOMAIN Nodes : instance[i].status = "approved" \/ n < instance[i].step =>
    \E t \in DOMAIN task : task[t].instance = i /\ task[t].node = n /\ task[t].status = "approved"

TasksOK(i) ==
  /\ \A t \in DOMAIN task : task[t].instance = i => TaskFits(t)
  /\ OneLive(i) /\ HasWork(i) /\ NodesDone(i)

\* A decision past its second lock has seen what still holds: a rejection has
\* every open task or waits for it, an approval holds its own task and knows
\* whether another of the node is open.
Decides(w) ==
  LET s == session[w] IN
  /\ s.op \in {"approved", "rejected"}
  /\ task[s.task].status = "pending" /\ instance[Of(w)].status = "pending" /\ Applicant[Of(w)] # s.actor
  /\ s.op = "rejected" => s.left \cup s.tasks = PendingOf(Of(w))
  /\ s.op = "approved" =>
       /\ s.left = {} /\ s.tasks = {s.task}
       /\ s.last <=> AtNode(PendingOf(Of(w)) \ {s.task}, task[s.task].node) = {}

SessionOK(w) ==
  LET s == session[w] IN
  /\ s.task \in DOMAIN task /\ s.tasks \subseteq DOMAIN task /\ s.left \subseteq DOMAIN task
  /\ s.phase = "task" => s.tasks = {}
  /\ s.phase # "task" => s.task \in s.tasks
  /\ s.phase = "instance" => s.tasks = {s.task} /\ (s.op = "transfer" => task[s.task].status = "pending")
  /\ s.phase = "cancel" => Decides(w)

LocksOK ==
  \A w, v \in Workers : w # v /\ Works(w) /\ Works(v) =>
    /\ session[w].tasks \cap session[v].tasks = {}
    /\ ~(Of(w) = Of(v) /\ session[w].phase = "cancel" /\ session[v].phase = "cancel")

SessionsOK == (\A w \in Workers : Works(w) => SessionOK(w)) /\ LocksOK

ApprovalsInv == ApprovalTypes /\ (\A i \in Instances : TasksOK(i)) /\ SessionsOK

-----------------------------------------------------------------------------
\* A node of the definition.
LEMMA NodeFields ==
  ASSUME NEW n \in DOMAIN Nodes
  PROVE  /\ Nodes[n].mode \in {"all", "any"} /\ Nodes[n].user \in Users \cup {Nobody}
         /\ Nodes[n].role \in DOMAIN RoleMembers
<1> DEFINE Asking == [mode : {"all", "any"}, user : Users \cup {Nobody}, role : DOMAIN RoleMembers]
<1>1. Nodes \in Seq(Asking) BY ApprovalsAssumption
<1> HIDE DEF Asking
<1>2. Nodes[n] \in Asking BY <1>1
<1> QED BY <1>2 DEF Asking

\* A node that has somebody to ask gets open tasks, one where one approval is
\* enough (_create_tasks).
LEMMA NewTasksRows ==
  ASSUME ApprovalTypes, NEW i \in Instances, NEW n \in DOMAIN Nodes, Asked(n) # {}
  PROVE  /\ NewTasks(i, n) \in Seq(ApprovalTaskRow) /\ Len(NewTasks(i, n)) > 0
         /\ \A k \in DOMAIN NewTasks(i, n) :
              /\ NewTasks(i, n)[k].instance = i /\ NewTasks(i, n)[k].node = n
              /\ NewTasks(i, n)[k].status = "pending"
         /\ Nodes[n].mode # "all" => Len(NewTasks(i, n)) = 1
<1> DEFINE Asking(u) == [instance |-> i, node |-> n, assignee |-> u, status |-> "pending", by |-> Nobody]
           S == {Asking(u) : u \in Asked(n)}
<1>1. /\ Nodes[n].mode \in {"all", "any"} /\ Nodes[n].user \in Users \cup {Nobody}
      /\ Nodes[n].role \in DOMAIN RoleMembers
  BY NodeFields
<1>2. Asked(n) \subseteq Users \cup {Nobody} BY <1>1 DEF Asked, ApprovalTypes
<1>3. IsFiniteSet(Asked(n)) /\ (Nodes[n].mode # "all" => \E u : Asked(n) = {u})
  <2>1. IsFiniteSet(Users) BY ApprovalsAssumption
  <2>2. IsFiniteSet({Nodes[n].user}) /\ IsFiniteSet({Nobody}) BY FS_Singleton
  <2>3. members[Nodes[n].role] \subseteq Users BY <1>1 DEF ApprovalTypes
  <2>4. IsFiniteSet(members[Nodes[n].role]) BY <2>1, <2>3, FS_Subset
  <2> QED BY <2>2, <2>4 DEF Asked
<1>4. IsFiniteSet(S)
  <2> DEFINE F == [u \in Asked(n) |-> Asking(u)]
  <2>1. F \in [Asked(n) -> S] /\ \A r \in S : \E u \in Asked(n) : F[u] = r OBVIOUS
  <2> HIDE DEF F, S
  <2>2. F \in Surjection(Asked(n), S) BY <2>1 DEF Surjection
  <2> QED BY <1>3, <2>2, FS_Surjection DEF ExistsSurjection
<1>5. \A r \in S : /\ r \in ApprovalTaskRow /\ r.instance = i /\ r.node = n /\ r.status = "pending"
  <2>1. SUFFICES ASSUME NEW u \in Users \cup {Nobody}
                 PROVE  /\ Asking(u) \in ApprovalTaskRow /\ Asking(u).instance = i /\ Asking(u).node = n
                        /\ Asking(u).status = "pending"
    BY <1>2
  <2> QED BY DEF ApprovalTaskRow
<1>6. NewTasks(i, n) = SetToSeq(S) BY DEF NewTasks
<1> HIDE DEF S
<1>7. Cardinality(S) \in Nat /\ ExistsBijection(1..Cardinality(S), S)
  BY <1>4, FS_CardinalityType, FS_NatBijection
<1>8. PICK f \in Bijection(1..Cardinality(S), S) : TRUE BY <1>7 DEF ExistsBijection
<1>9. f \in [1..Cardinality(S) -> S] /\ IsInjective(f)
  BY <1>8 DEF Bijection, Injection, Surjection, IsInjective
<1>10. SetToSeq(S) \in [1..Cardinality(S) -> S] BY <1>9 DEF SetToSeq
<1>11. S # {} /\ (Nodes[n].mode # "all" => \E r : S = {r})
  <2>1. PICK u \in Asked(n) : TRUE OBVIOUS
  <2>2. Asking(u) \in S BY DEF S
  <2>3. ASSUME NEW v, Asked(n) = {v} PROVE S = {Asking(v)} BY <2>3, Zenon DEF S
  <2> QED BY <1>3, <2>2, <2>3
<1>12. Cardinality(S) > 0 BY <1>4, <1>7, <1>11, FS_EmptySet
<1>13. Nodes[n].mode # "all" => Cardinality(S) = 1 BY <1>11, FS_Singleton
<1>14. SetToSeq(S) \in Seq(S) /\ Len(SetToSeq(S)) = Cardinality(S) BY <1>7, <1>10
<1>15. DOMAIN SetToSeq(S) = 1..Cardinality(S) BY <1>10
<1>16. SetToSeq(S) \in Seq(ApprovalTaskRow) BY <1>5, <1>10, <1>14, <1>7
<1> QED BY <1>5, <1>6, <1>10, <1>12, <1>13, <1>14, <1>15, <1>16
-----------------------------------------------------------------------------
\* A session that writes no task and no instance: what the tasks say stands.
LEMMA SessionsOnly ==
  ASSUME ApprovalsInv, UNCHANGED <<instance, task>>, ApprovalTypes', SessionsOK'
  PROVE  ApprovalsInv'
<1>1. ASSUME NEW i \in Instances PROVE TasksOK(i)'
  <2>1. TasksOK(i) BY DEF ApprovalsInv
  <2> QED BY <2>1 DEF TasksOK, TaskFits, OneLive, Live, HasWork, NodesDone
<1> QED BY <1>1 DEF ApprovalsInv

\* What one transaction writes is of one instance, in rows that it has locked.
Writes(j, W) ==
  /\ DOMAIN task \subseteq DOMAIN task'
  /\ \A t \in DOMAIN task :
       /\ task'[t].instance = task[t].instance /\ task'[t].node = task[t].node
       /\ IF t \in W THEN task[t].instance = j ELSE task'[t] = task[t]
  /\ \A t \in DOMAIN task' \ DOMAIN task : task'[t].instance = j
  /\ \A i \in Instances \ {j} : instance'[i] = instance[i]
  /\ \A v \in Workers : session'[v] = Nobody \/
       (session'[v] = session[v] /\
          (Works(v) => session[v].tasks \cap W = {} /\ ~(Of(v) = j /\ session[v].phase = "cancel")))

\* A decision that goes on still knows what it saw.
LEMMA DecisionStands ==
  ASSUME NEW v, Decides(v), session'[v] = session[v], Of(v)' = Of(v),
         task'[session[v].task] = task[session[v].task], instance'[Of(v)] = instance[Of(v)],
         PendingOf(Of(v))' = PendingOf(Of(v)),
         AtNode(PendingOf(Of(v)) \ {session[v].task}, task[session[v].task].node)'
           = AtNode(PendingOf(Of(v)) \ {session[v].task}, task[session[v].task].node)
  PROVE  Decides(v)'
<1> DEFINE P == PendingOf(Of(v))
           A == AtNode(PendingOf(Of(v)) \ {session[v].task}, task[session[v].task].node)
<1>1. P' = P /\ A' = A OBVIOUS
<1>2. /\ session[v].op \in {"approved", "rejected"}
      /\ task[session[v].task].status = "pending" /\ instance[Of(v)].status = "pending"
      /\ Applicant[Of(v)] # session[v].actor
      /\ session[v].op = "rejected" => session[v].left \cup session[v].tasks = P
      /\ session[v].op = "approved" => session[v].left = {} /\ session[v].tasks = {session[v].task}
      /\ session[v].op = "approved" => (session[v].last <=> A = {})
  BY Zenon DEF Decides
<1>3. Decides(v)' <=>
      /\ session'[v].op \in {"approved", "rejected"}
      /\ task'[session'[v].task].status = "pending" /\ instance'[Of(v)'].status = "pending"
      /\ Applicant[Of(v)'] # session'[v].actor
      /\ session'[v].op = "rejected" => session'[v].left \cup session'[v].tasks = P'
      /\ session'[v].op = "approved" => session'[v].left = {} /\ session'[v].tasks = {session'[v].task}
      /\ session'[v].op = "approved" => (session'[v].last <=> A' = {})
  BY Zenon DEF Decides
<1> HIDE DEF P, A
<1> QED BY ONLY <1>1, <1>2, <1>3, session'[v] = session[v], Of(v)' = Of(v),
         task'[session[v].task] = task[session[v].task], instance'[Of(v)] = instance[Of(v)], Zenon

LEMMA OthersStand ==
  ASSUME ApprovalsInv, NEW j \in Instances, NEW W \in SUBSET DOMAIN task, Writes(j, W),
         ApprovalTypes', TasksOK(j)'
  PROVE  ApprovalsInv'
<1> USE DEF Writes
<1>1. ASSUME NEW i \in Instances \ {j} PROVE TasksOK(i)'
  <2>1. TasksOK(i) BY DEF ApprovalsInv
  <2>2. \A t \in DOMAIN task' : task'[t].instance = i => t \in DOMAIN task /\ task'[t] = task[t]
    BY <1>1
  <2>3. \A t \in DOMAIN task : task[t].instance = i => t \in DOMAIN task' /\ task'[t] = task[t]
    BY <1>1
  <2>4. instance'[i] = instance[i] BY <1>1
  <2>5. ASSUME NEW t \in DOMAIN task', task'[t].instance = i PROVE TaskFits(t)'
    BY <2>1, <2>2, <2>4, <2>5 DEF TasksOK, TaskFits
  <2>6. OneLive(i)' BY <2>1, <2>2 DEF TasksOK, OneLive, Live
  <2>7. HasWork(i)' BY <2>1, <2>3, <2>4 DEF TasksOK, HasWork
  <2>8. NodesDone(i)' BY <2>1, <2>3, <2>4 DEF TasksOK, NodesDone
  <2> QED BY <2>5, <2>6, <2>7, <2>8 DEF TasksOK
<1>2. ASSUME NEW v \in Workers, Works(v)' PROVE session'[v] = session[v] /\ Works(v) /\ SessionOK(v)
  BY <1>2 DEF Works, ApprovalsInv, SessionsOK
<1>3. ASSUME NEW v \in Workers, Works(v)' PROVE Of(v)' = Of(v) /\ Of(v) \in Instances
  <2>1. session'[v] = session[v] /\ session[v].task \in DOMAIN task BY <1>2, <1>3 DEF SessionOK
  <2>2. task[session[v].task] \in ApprovalTaskRow BY <2>1 DEF ApprovalsInv, ApprovalTypes
  <2>3. task[session[v].task].instance \in Instances BY <2>2 DEF ApprovalTaskRow
  <2> QED BY <2>1, <2>3 DEF Of
<1>4. ASSUME NEW v \in Workers, Works(v)' PROVE SessionOK(v)'
  <2>1. session'[v] = session[v] /\ SessionOK(v) /\ session[v].tasks \cap W = {}
    BY <1>2, <1>4 DEF Works
  <2>2. Of(v)' = Of(v) /\ Of(v) \in Instances BY <1>3, <1>4
  <2>3. CASE session[v].phase = "cancel"
    <3>1. Of(v) # j BY <1>2, <1>4, <2>3 DEF Works
    <3>2. instance'[Of(v)] = instance[Of(v)] BY <2>2, <3>1
    <3>3. session[v].task \in DOMAIN task /\ Decides(v) BY <2>1, <2>3 DEF SessionOK
    <3>4. task'[session[v].task] = task[session[v].task] BY <3>1, <3>3 DEF Of
    <3>5. PendingOf(Of(v))' = PendingOf(Of(v)) BY <2>2, <3>1 DEF PendingOf
    <3>6. AtNode(PendingOf(Of(v)) \ {session[v].task}, task[session[v].task].node)'
            = AtNode(PendingOf(Of(v)) \ {session[v].task}, task[session[v].task].node)
      <4>1. \A t \in PendingOf(Of(v)) : t \in DOMAIN task BY DEF PendingOf
      <4> QED BY <2>1, <3>3, <3>4, <3>5, <4>1 DEF AtNode
    <3>7. Decides(v)' BY <2>1, <2>2, <3>2, <3>3, <3>4, <3>5, <3>6, DecisionStands
    <3> QED BY <2>1, <3>3, <3>7 DEF SessionOK
  <2>4. CASE session[v].phase # "cancel"
    <3>1. session[v].task \in DOMAIN task BY <2>1 DEF SessionOK
    <3>2. session[v].phase = "instance" => task'[session[v].task] = task[session[v].task]
      BY <2>1, <3>1 DEF SessionOK
    <3> QED BY <2>1, <2>4, <3>2 DEF SessionOK
  <2> QED BY <2>3, <2>4
<1>5. LocksOK'
  <2>1. LocksOK BY DEF ApprovalsInv, SessionsOK
  <2> QED BY <1>2, <1>3, <2>1 DEF LocksOK
<1> QED BY <1>1, <1>4, <1>5 DEF ApprovalsInv, SessionsOK
-----------------------------------------------------------------------------
LEMMA ApprovalsInitially == ASSUME ApprovalsInit PROVE ApprovalsInv
<1>1. [status |-> "none", step |-> 0] \in InstanceRow
  <2>1. Len(Nodes) \in Nat BY ApprovalsAssumption
  <2> QED BY <2>1 DEF InstanceRow
<1>2. ApprovalTypes
  BY <1>1, ApprovalsAssumption DEF ApprovalsInit, ApprovalTypes, Works
<1>3. ASSUME NEW i \in Instances PROVE TasksOK(i)
  BY DEF ApprovalsInit, TasksOK, OneLive, HasWork, NodesDone
<1> QED BY <1>2, <1>3 DEF ApprovalsInv, SessionsOK, LocksOK, ApprovalsInit, Works

LEMMA StartStep ==
  ASSUME ApprovalsInv, NEW i \in Instances, Start(i) PROVE ApprovalsInv'
<1> DEFINE new == NewTasks(i, 1)
<1> USE DEF Start
<1>1. 1 \in DOMAIN Nodes /\ Len(Nodes) \in Nat BY ApprovalsAssumption
<1>2. /\ new \in Seq(ApprovalTaskRow) /\ Len(new) > 0
      /\ \A k \in DOMAIN new : new[k].instance = i /\ new[k].node = 1 /\ new[k].status = "pending"
      /\ Nodes[1].mode # "all" => Len(new) = 1
  BY <1>1, NewTasksRows DEF ApprovalsInv
<1> HIDE DEF new
<1>3. task \in Seq(ApprovalTaskRow) /\ task' = task \o new
  BY DEF ApprovalsInv, ApprovalTypes, new
<1>4. /\ task' \in Seq(ApprovalTaskRow) /\ DOMAIN task \subseteq DOMAIN task'
      /\ \A t \in DOMAIN task : task'[t] = task[t]
      /\ \A t \in DOMAIN task' \ DOMAIN task : t - Len(task) \in DOMAIN new /\ task'[t] = new[t - Len(task)]
      /\ Len(task) + 1 \in DOMAIN task' \ DOMAIN task
  <2>1. /\ task' \in Seq(ApprovalTaskRow) /\ Len(task') = Len(task) + Len(new)
        /\ \A t \in 1 .. Len(task) + Len(new) :
             task'[t] = IF t <= Len(task) THEN task[t] ELSE new[t - Len(task)]
    <3>1. new \in Seq(ApprovalTaskRow) /\ task \in Seq(ApprovalTaskRow) BY <1>2, <1>3
    <3>2. /\ task \o new \in Seq(ApprovalTaskRow) /\ Len(task \o new) = Len(task) + Len(new)
          /\ \A t \in 1 .. Len(task) + Len(new) :
               (task \o new)[t] = IF t <= Len(task) THEN task[t] ELSE new[t - Len(task)]
      BY ONLY <3>1, ConcatProperties
    <3> QED BY ONLY <1>3, <3>2
  <2>2. /\ Len(task) \in Nat /\ Len(new) \in Nat /\ DOMAIN task = 1..Len(task)
        /\ DOMAIN new = 1..Len(new) /\ DOMAIN task' = 1..Len(task')
    BY <1>2, <1>3, <2>1
  <2> QED BY ONLY <1>2, <2>1, <2>2
<1>5. \A t \in DOMAIN task : task[t].instance # i
  BY DEF ApprovalsInv, TasksOK, TaskFits
<1>6. /\ instance \in [Instances -> InstanceRow] /\ [status |-> "pending", step |-> 1] \in InstanceRow
      /\ instance'[i].status = "pending" /\ instance'[i].step = 1
  BY <1>1 DEF ApprovalsInv, ApprovalTypes, InstanceRow
<1>7. ApprovalTypes' BY <1>4, <1>6 DEF ApprovalsInv, ApprovalTypes, Works
<1>8. \A t \in DOMAIN task' : task'[t].instance = i =>
        /\ t - Len(task) \in DOMAIN new /\ task'[t].node = 1 /\ task'[t].status = "pending"
  BY <1>2, <1>4, <1>5
<1>9. TasksOK(i)'
  <2>1. ASSUME NEW t \in DOMAIN task', task'[t].instance = i PROVE TaskFits(t)'
    BY <1>6, <1>8, <2>1 DEF TaskFits
  <2>2. OneLive(i)'
    <3>1. Nodes[1].mode # "all" => \A t \in DOMAIN task' : task'[t].instance = i => t = Len(task) + 1
      BY <1>2, <1>3, <1>8
    <3> QED BY <1>8, <3>1 DEF OneLive
  <2>3. HasWork(i)'
    <3>1. Len(task) + 1 \in DOMAIN task' /\ task'[Len(task) + 1] = new[1] /\ 1 \in DOMAIN new
      BY <1>2, <1>3, <1>4
    <3> QED BY <1>1, <1>2, <1>6, <3>1 DEF HasWork
  <2>4. NodesDone(i)' BY <1>6, ApprovalsAssumption DEF NodesDone
  <2> QED BY <2>1, <2>2, <2>3, <2>4 DEF TasksOK
<1>10. Writes(i, {})
  <2>1. \A v \in Workers : Works(v) => Of(v) # i
    BY <1>5 DEF ApprovalsInv, SessionsOK, SessionOK, Of
  <2> QED BY <1>2, <1>4, <2>1 DEF Writes
<1> QED BY <1>7, <1>9, <1>10, OthersStand

LEMMA LeaveStep ==
  ASSUME ApprovalsInv, NEW r \in DOMAIN members, NEW u \in Users, Leave(r, u) PROVE ApprovalsInv'
<1>1. ApprovalTypes' BY DEF ApprovalsInv, ApprovalTypes, Leave, Works
<1>2. \A v \in Workers : /\ Works(v)' = Works(v) /\ Of(v)' = Of(v) /\ session'[v] = session[v]
                         /\ PendingOf(Of(v))' = PendingOf(Of(v))
  BY DEF Leave, Works, Of, PendingOf
<1>3. SessionsOK'
  BY <1>2 DEF ApprovalsInv, SessionsOK, SessionOK, LocksOK, Decides, AtNode, Leave
<1> QED BY <1>1, <1>3, SessionsOnly DEF Leave

\* What a session may turn into, when nothing else changes.
LEMMA SessionGoes ==
  ASSUME ApprovalsInv, NEW w \in Workers, NEW s \in ApprovalSession,
         UNCHANGED <<instance, task>>, members' = members, session' = [session EXCEPT ![w] = s],
         SessionOK(w)',
         \A v \in Workers \ {w} : Works(v) =>
           /\ s.tasks \cap session[v].tasks = {}
           /\ ~(task[s.task].instance = Of(v) /\ s.phase = "cancel" /\ session[v].phase = "cancel")
  PROVE  ApprovalsInv'
<1>1. session'[w] = s /\ \A v \in Workers \ {w} : session'[v] = session[v]
  BY DEF ApprovalsInv, ApprovalTypes
<1>2. ApprovalTypes' BY <1>1 DEF ApprovalsInv, ApprovalTypes, Works
<1>3. \A v \in Workers \ {w} : /\ Works(v)' = Works(v) /\ Of(v)' = Of(v)
                               /\ PendingOf(Of(v))' = PendingOf(Of(v))
  BY <1>1 DEF Works, Of, PendingOf
<1>4. ASSUME NEW v \in Workers, Works(v)' PROVE SessionOK(v)'
  <2>1. CASE v # w
    <3>1. SessionOK(v) /\ session'[v] = session[v] BY <1>1, <1>3, <1>4, <2>1 DEF ApprovalsInv, SessionsOK
    <3>2. Decides(v) => Decides(v)' BY <1>3, <2>1, <3>1, DecisionStands DEF AtNode
    <3> QED BY <3>1, <3>2 DEF SessionOK
  <2> QED BY <2>1
<1>5. Of(w)' = task[s.task].instance BY <1>1 DEF Of
<1>6. LocksOK' BY <1>1, <1>3, <1>5 DEF LocksOK, ApprovalsInv, SessionsOK
<1> QED BY <1>2, <1>4, <1>6, SessionsOnly DEF SessionsOK

LEMMA SessionEnds ==
  ASSUME ApprovalsInv, NEW w \in Workers, Refuse(w) PROVE ApprovalsInv'
<1> USE DEF Refuse, End
<1>1. session'[w] = Nobody /\ \A v \in Workers \ {w} : session'[v] = session[v]
  BY DEF ApprovalsInv, ApprovalTypes
<1>2. ApprovalTypes' BY <1>1 DEF ApprovalsInv, ApprovalTypes, Works
<1>3. \A v \in Workers \ {w} : /\ Works(v)' = Works(v) /\ Of(v)' = Of(v)
                               /\ PendingOf(Of(v))' = PendingOf(Of(v))
  BY <1>1 DEF Works, Of, PendingOf
<1>4. ASSUME NEW v \in Workers, Works(v)' PROVE SessionOK(v)'
  <2>1. v # w BY <1>1, <1>4 DEF Works
  <2>2. SessionOK(v) /\ session'[v] = session[v] BY <1>1, <1>3, <1>4, <2>1 DEF ApprovalsInv, SessionsOK
  <2>3. Decides(v) => Decides(v)' BY <1>3, <2>1, <2>2, DecisionStands DEF AtNode
  <2> QED BY <2>2, <2>3 DEF SessionOK
<1>5. LocksOK' BY <1>1, <1>3 DEF LocksOK, ApprovalsInv, SessionsOK, Works
<1> QED BY <1>2, <1>4, <1>5, SessionsOnly DEF SessionsOK
-----------------------------------------------------------------------------
LEMMA BeginStep ==
  ASSUME ApprovalsInv, NEW w \in Workers, NEW t \in DOMAIN task, NEW u \in Users, NEW target \in Users,
         NEW op \in {"approved", "rejected", "transfer"}, Begin(w, t, u, op, target)
  PROVE  ApprovalsInv'
<1> DEFINE s == [op |-> op, task |-> t, actor |-> u, target |-> target,
                 phase |-> "task", tasks |-> {}, left |-> {}, last |-> FALSE]
<1>1. s \in ApprovalSession
  <2>1. task \in Seq(ApprovalTaskRow) BY DEF ApprovalsInv, ApprovalTypes
  <2>2. t \in Nat BY <2>1
  <2> QED BY <2>2 DEF ApprovalSession
<1>2. s.task = t /\ s.phase = "task" /\ s.tasks = {} /\ s.left = {} OBVIOUS
<1> HIDE DEF s
<1>3. session' = [session EXCEPT ![w] = s] /\ UNCHANGED <<members, instance, task>> BY DEF Begin, s
<1>4. session'[w] = s BY <1>3 DEF ApprovalsInv, ApprovalTypes
<1>5. SessionOK(w)' BY <1>2, <1>3, <1>4 DEF SessionOK
<1> QED BY <1>1, <1>2, <1>3, <1>5, SessionGoes

\* A session that works, with its task, its instance and what the invariant says.
LEMMA AtWork ==
  ASSUME ApprovalsInv, NEW w \in Workers, Works(w)
  PROVE  /\ session[w] \in ApprovalSession /\ SessionOK(w) /\ Of(w) \in Instances
         /\ session[w].task \in DOMAIN task /\ task[session[w].task] \in ApprovalTaskRow
         /\ task[session[w].task].instance = Of(w) /\ TaskFits(session[w].task)
         /\ DOMAIN task \subseteq Nat
<1>1. session[w] \in ApprovalSession /\ SessionOK(w) BY DEF ApprovalsInv, ApprovalTypes, SessionsOK
<1>2. session[w].task \in DOMAIN task /\ task \in Seq(ApprovalTaskRow)
  BY <1>1 DEF SessionOK, ApprovalsInv, ApprovalTypes
<1>3. task[session[w].task] \in ApprovalTaskRow BY <1>2
<1>4. task[session[w].task].instance \in Instances BY <1>3 DEF ApprovalTaskRow
<1>5. TaskFits(session[w].task) BY <1>2, <1>4 DEF ApprovalsInv, TasksOK
<1> QED BY <1>1, <1>2, <1>3, <1>4, <1>5 DEF Of

LEMMA LockTaskStep ==
  ASSUME ApprovalsInv, NEW w \in Workers, Works(w), LockTask(w) PROVE ApprovalsInv'
<1> DEFINE s == session[w]
           g == [s EXCEPT !.phase = "instance", !.tasks = {s.task}]
<1>1. CASE Refuse(w) BY <1>1, SessionEnds
<1>2. CASE Go(w, g) /\ (s.op = "transfer" => task[s.task].status = "pending")
  <2>1. s \in ApprovalSession /\ s.task \in DOMAIN task /\ s.task \in Nat /\ s.left \subseteq DOMAIN task
    BY AtWork DEF SessionOK
  <2>2. /\ g \in ApprovalSession /\ g.task = s.task /\ g.phase = "instance" /\ g.tasks = {s.task}
        /\ g.left = s.left /\ g.op = s.op
    BY <2>1 DEF ApprovalSession
  <2>3. TaskFree(s.task) BY DEF LockTask
  <2> HIDE DEF g
  <2>4. session' = [session EXCEPT ![w] = g] /\ UNCHANGED <<members, instance, task>> BY <1>2 DEF Go
  <2>5. session'[w] = g BY <2>4 DEF ApprovalsInv, ApprovalTypes
  <2>6. SessionOK(w)' BY <1>2, <2>1, <2>2, <2>4, <2>5 DEF SessionOK
  <2> QED BY <2>2, <2>3, <2>4, <2>6, SessionGoes DEF TaskFree
<1> QED BY <1>1, <1>2 DEF LockTask

LEMMA LockOtherStep ==
  ASSUME ApprovalsInv, NEW w \in Workers, Works(w), NEW t \in session[w].left, LockOther(w, t)
  PROVE  ApprovalsInv'
<1> DEFINE s == session[w]
           g == [s EXCEPT !.tasks = @ \cup {t}, !.left = @ \ {t}]
<1>1. /\ s \in ApprovalSession /\ s.task \in DOMAIN task /\ s.left \subseteq DOMAIN task
      /\ s.tasks \subseteq DOMAIN task /\ s.task \in s.tasks /\ s.phase = "cancel" /\ Decides(w) /\ t \in Nat
  BY AtWork DEF SessionOK, LockOther
<1>2. /\ g \in ApprovalSession /\ g.task = s.task /\ g.phase = s.phase /\ g.tasks = s.tasks \cup {t}
      /\ g.left = s.left \ {t} /\ g.op = s.op /\ g.actor = s.actor /\ g.last = s.last
  BY <1>1 DEF ApprovalSession
<1>3. s.op = "rejected"
  BY <1>1 DEF Decides
<1> HIDE DEF g
<1>4. session' = [session EXCEPT ![w] = g] /\ UNCHANGED <<members, instance, task>>
  BY DEF LockOther, Go, g
<1>5. session'[w] = g BY <1>4 DEF ApprovalsInv, ApprovalTypes
<1>6. Of(w)' = Of(w) /\ PendingOf(Of(w))' = PendingOf(Of(w)) BY <1>2, <1>4, <1>5 DEF Of, PendingOf
<1>7. Decides(w)' BY <1>1, <1>2, <1>3, <1>4, <1>5, <1>6 DEF Decides
<1>8. SessionOK(w)' BY <1>1, <1>2, <1>4, <1>5, <1>7 DEF SessionOK
<1>9. ASSUME NEW v \in Workers \ {w}, Works(v)
      PROVE  /\ g.tasks \cap session[v].tasks = {}
             /\ ~(task[g.task].instance = Of(v) /\ g.phase = "cancel" /\ session[v].phase = "cancel")
  <2>1. s.tasks \cap session[v].tasks = {} /\ ~(Of(w) = Of(v) /\ session[v].phase = "cancel")
    BY <1>1, <1>9 DEF ApprovalsInv, SessionsOK, LocksOK
  <2>2. t \notin session[v].tasks BY <1>9 DEF LockOther, TaskFree
  <2> QED BY <1>2, <2>1, <2>2 DEF Of
<1> QED BY <1>2, <1>4, <1>8, <1>9, SessionGoes

\* A decision that goes on to cancel tasks.
CancelOf(s, L, b) == [s EXCEPT !.phase = "cancel", !.left = L, !.last = b]

LEMMA SessionCancels ==
  ASSUME NEW s \in ApprovalSession, NEW L \in SUBSET Nat, NEW b \in BOOLEAN
  PROVE  LET g == CancelOf(s, L, b) IN
         /\ g \in ApprovalSession /\ g.task = s.task /\ g.phase = "cancel" /\ g.tasks = s.tasks
         /\ g.left = L /\ g.op = s.op /\ g.actor = s.actor /\ g.last = b
BY DEF ApprovalSession, CancelOf

LEMMA LockInstanceStep ==
  ASSUME ApprovalsInv, NEW w \in Workers, Works(w), LockInstance(w) PROVE ApprovalsInv'
<1> DEFINE s == session[w]
           n == task[s.task].node
           others == PendingOf(Of(w)) \ {s.task}
           g == [s EXCEPT !.phase = "cancel", !.left = ToCancel(s, others),
                          !.last = CompletesNode(s, others)]
<1>1. CASE Refuse(w) BY <1>1, SessionEnds
<1>2. CASE Go(w, g) /\ MayDecide(s)
  <2>1. /\ s \in ApprovalSession /\ s.task \in DOMAIN task /\ s.tasks = {s.task} /\ Of(w) \in Instances
        /\ s.op # "transfer" /\ task[s.task].instance = Of(w) /\ task[s.task].node \in DOMAIN Nodes
        /\ DOMAIN task \subseteq Nat /\ TaskFits(s.task)
    BY AtWork DEF SessionOK, LockInstance, ApprovalTaskRow
  <2>2. s.op \in {"approved", "rejected"} BY <2>1 DEF ApprovalSession
  <2>3. others \subseteq DOMAIN task BY DEF PendingOf
  <2>4. task[s.task].status = "pending" /\ instance[Of(w)].status = "pending" /\ Applicant[Of(w)] # s.actor
    BY <1>2, <2>1 DEF MayDecide
  <2>5. s.op = "approved" /\ Nodes[n].mode # "all" => AtNode(others, n) = {}
    <3>1. OneLive(Of(w)) BY <2>1 DEF ApprovalsInv, TasksOK
    <3> QED BY <2>1, <2>4, <3>1 DEF OneLive, Live, AtNode, PendingOf
  <2>6. /\ ToCancel(s, others) \in SUBSET DOMAIN task
        /\ s.op = "rejected" => ToCancel(s, others) = others
        /\ s.op = "approved" => ToCancel(s, others) = {}
    BY <2>2, <2>3, <2>5 DEF ToCancel, CompletesNode, AtNode
  <2>7. CompletesNode(s, others) \in BOOLEAN /\
          (s.op = "approved" => (CompletesNode(s, others) <=> AtNode(others, n) = {}))
    BY <2>5 DEF CompletesNode
  <2>8. ToCancel(s, others) \in SUBSET Nat BY <2>1, <2>6
  <2> DEFINE left == ToCancel(s, others)
             last == CompletesNode(s, others)
  <2>10. /\ g \in ApprovalSession /\ g.task = s.task /\ g.phase = "cancel" /\ g.tasks = s.tasks
         /\ g.left = left /\ g.op = s.op /\ g.actor = s.actor /\ g.last = last
    <3>1. left \in SUBSET Nat /\ last \in BOOLEAN BY <2>7, <2>8
    <3> HIDE DEF left, last, s
    <3>2. g = CancelOf(s, left, last) BY DEF CancelOf, left, last
    <3> HIDE DEF g
    <3>3. s \in ApprovalSession BY <2>1
    <3> QED BY ONLY <3>1, <3>2, <3>3, SessionCancels
  <2> HIDE DEF g, left, last
  <2>11. session' = [session EXCEPT ![w] = g] /\ UNCHANGED <<members, instance, task>>
    BY <1>2 DEF Go
  <2>12. session'[w] = g BY <2>11 DEF ApprovalsInv, ApprovalTypes
  <2>13. Of(w)' = Of(w) /\ PendingOf(Of(w))' = PendingOf(Of(w))
    BY <2>10, <2>11, <2>12 DEF Of, PendingOf
  <2>14. AtNode(PendingOf(Of(w)) \ {session[w].task}, task[session[w].task].node)' = AtNode(others, n)
    BY <2>10, <2>11, <2>12, <2>13 DEF AtNode
  <2>15. Decides(w)'
    <3>1. left \cup g.tasks = PendingOf(Of(w)) \/ g.op # "rejected"
      <4>1. s.task \in PendingOf(Of(w)) BY <2>1, <2>4 DEF PendingOf
      <4> QED BY <2>1, <2>6, <2>10, <4>1 DEF left
    <3>2. g.op = "approved" => left = {} /\ (g.last <=> AtNode(others, n) = {})
      <4>1. g.op = "approved" => left = {} BY <2>6, <2>10 DEF left
      <4>2. g.op = "approved" => (last <=> AtNode(others, n) = {}) BY <2>7, <2>10 DEF last
      <4>3. g.last = last /\ last \in BOOLEAN BY <2>7, <2>10 DEF last
      <4> HIDE DEF others, s, n
      <4> QED BY ONLY <4>1, <4>2, <4>3, Zenon
    <3>3. Decides(w)' <=>
      /\ session'[w].op \in {"approved", "rejected"}
      /\ task'[session'[w].task].status = "pending" /\ instance'[Of(w)'].status = "pending"
      /\ Applicant[Of(w)'] # session'[w].actor
      /\ session'[w].op = "rejected" => session'[w].left \cup session'[w].tasks = PendingOf(Of(w))'
      /\ session'[w].op = "approved" => session'[w].left = {} /\ session'[w].tasks = {session'[w].task}
      /\ session'[w].op = "approved" =>
           (session'[w].last <=> AtNode(PendingOf(Of(w)) \ {session[w].task}, task[session[w].task].node)' = {})
      BY Zenon DEF Decides
    <3>4. /\ g.op = s.op /\ s.op \in {"approved", "rejected"} /\ g.task = s.task /\ g.tasks = {s.task}
          /\ g.left = left /\ g.actor = s.actor
      BY <2>1, <2>2, <2>10
    <3>5. task' = task /\ instance' = instance BY <2>11
    <3> DEFINE A == AtNode(others, n)
               B == AtNode(PendingOf(Of(w)) \ {session[w].task}, task[session[w].task].node)'
    <3>6. A = B BY <2>14
    <3>7. /\ g.op = "approved" => left = {} /\ (g.last <=> B = {})
      BY <3>2, <3>6, Zenon
    <3> HIDE DEF others, n, A, B
    <3>8. /\ session'[w].op \in {"approved", "rejected"}
          /\ task'[session'[w].task].status = "pending" /\ instance'[Of(w)'].status = "pending"
          /\ Applicant[Of(w)'] # session'[w].actor
      BY <2>4, <2>12, <2>13, <3>4, <3>5
    <3>9. session'[w].op = "rejected" => session'[w].left \cup session'[w].tasks = PendingOf(Of(w))'
      BY <2>12, <2>13, <3>1, <3>4
    <3>10. session'[w].op = "approved" =>
             /\ session'[w].left = {} /\ session'[w].tasks = {session'[w].task}
             /\ session'[w].last <=> B = {}
      BY ONLY <2>12, <3>4, <3>7, Zenon
    <3> QED BY ONLY <3>3, <3>8, <3>9, <3>10, Zenon DEF B
  <2>16. SessionOK(w)'
    <3>1. g.left \subseteq DOMAIN task BY <2>6, <2>10 DEF left
    <3> QED BY <2>1, <2>10, <2>11, <2>12, <2>15, <3>1 DEF SessionOK
  <2>17. ASSUME NEW v \in Workers \ {w}, Works(v)
        PROVE  /\ g.tasks \cap session[v].tasks = {}
               /\ ~(task[g.task].instance = Of(v) /\ g.phase = "cancel" /\ session[v].phase = "cancel")
    <3>1. s.tasks \cap session[v].tasks = {} BY <2>17 DEF ApprovalsInv, SessionsOK, LocksOK
    <3>2. ~(Of(w) = Of(v) /\ session[v].phase = "cancel") BY <2>17 DEF LockInstance, InstanceFree
    <3> QED BY <2>1, <2>10, <3>1, <3>2
  <2> QED BY <2>10, <2>11, <2>16, <2>17, SessionGoes
<1> QED BY <1>1, <1>2 DEF LockInstance
-----------------------------------------------------------------------------
\* The end of a session that wrote what it had locked.
EndWrite(w, i, W) ==
  /\ Works(w) /\ End(w) /\ i = Of(w) /\ W \in SUBSET session[w].tasks
  /\ DOMAIN task \subseteq DOMAIN task' /\ task' \in Seq(ApprovalTaskRow)
  /\ \A t \in DOMAIN task :
       /\ task'[t].instance = task[t].instance /\ task'[t].node = task[t].node
       /\ IF t \in W THEN task[t].instance = i ELSE task'[t] = task[t]
  /\ \A t \in DOMAIN task' \ DOMAIN task : task'[t].instance = i
  /\ \A j \in Instances \ {i} : instance'[j] = instance[j]
  /\ \A v \in Workers \ {w} : Works(v) => ~(Of(v) = i /\ session[v].phase = "cancel")
  /\ instance' \in [Instances -> InstanceRow] /\ TasksOK(i)'

LEMMA EndWrites ==
  ASSUME ApprovalsInv, NEW w \in Workers, NEW i \in Instances, NEW W, EndWrite(w, i, W)
  PROVE  ApprovalsInv'
<1> USE DEF EndWrite
<1>1. session'[w] = Nobody /\ \A v \in Workers \ {w} : session'[v] = session[v]
  BY DEF ApprovalsInv, ApprovalTypes, End
<1>2. ApprovalTypes' BY <1>1 DEF ApprovalsInv, ApprovalTypes, Works, End
<1>3. W \in SUBSET DOMAIN task BY AtWork DEF SessionOK
<1>4. \A v \in Workers \ {w} : Works(v) => session[v].tasks \cap W = {}
  BY DEF ApprovalsInv, SessionsOK, LocksOK
<1>5. Writes(i, W) BY <1>1, <1>4 DEF Writes
<1> QED BY <1>2, <1>3, <1>5, OthersStand

\* A decision in its last phase, and what it makes of the tasks of its instance.
LEMMA Deciding ==
  ASSUME ApprovalsInv, NEW w \in Workers, Works(w), session[w].phase = "cancel", session[w].left = {}
  PROVE  /\ session[w] \in ApprovalSession /\ session[w].op \in {"approved", "rejected"}
         /\ Of(w) \in Instances /\ session[w].task \in session[w].tasks
         /\ session[w].tasks \subseteq PendingOf(Of(w))
         /\ session[w].op = "rejected" => session[w].tasks = PendingOf(Of(w))
         /\ session[w].op = "approved" => session[w].tasks = {session[w].task}
         /\ session[w].op = "approved" =>
              (session[w].last <=> \A t \in PendingOf(Of(w)) :
                 task[t].node = task[session[w].task].node => t = session[w].task)
         /\ instance[Of(w)].status = "pending" /\ instance[Of(w)].step \in DOMAIN Nodes
         /\ \A t \in PendingOf(Of(w)) : task[t].node = instance[Of(w)].step
         /\ Applicant[Of(w)] # session[w].actor
         /\ \A v \in Workers \ {w} : Works(v) => ~(Of(v) = Of(w) /\ session[v].phase = "cancel")
<1> DEFINE s == session[w]
<1>1. /\ s \in ApprovalSession /\ Of(w) \in Instances /\ s.task \in DOMAIN task /\ s.task \in s.tasks
      /\ task[s.task].instance = Of(w) /\ Decides(w)
  BY AtWork DEF SessionOK
<1>2. /\ s.op \in {"approved", "rejected"} /\ task[s.task].status = "pending"
      /\ instance[Of(w)].status = "pending" /\ Applicant[Of(w)] # s.actor
      /\ s.op = "rejected" => s.left \cup s.tasks = PendingOf(Of(w))
      /\ s.op = "approved" => s.tasks = {s.task}
  BY <1>1 DEF Decides
<1>3. s.op = "approved" => (s.last <=> AtNode(PendingOf(Of(w)) \ {s.task}, task[s.task].node) = {})
  BY <1>1, Zenon DEF Decides
<1>4. AtNode(PendingOf(Of(w)) \ {s.task}, task[s.task].node) = {} <=>
        \A t \in PendingOf(Of(w)) : task[t].node = task[s.task].node => t = s.task
  BY DEF AtNode
<1>5. s.op = "approved" => (s.last <=> \A t \in PendingOf(Of(w)) : task[t].node = task[s.task].node => t = s.task)
  BY <1>3, <1>4, Zenon
<1>6. s.task \in PendingOf(Of(w)) BY <1>1, <1>2 DEF PendingOf
<1>7. HasWork(Of(w)) /\ \A t \in DOMAIN task : task[t].instance = Of(w) => TaskFits(t)
  BY <1>1 DEF ApprovalsInv, TasksOK
<1>8. instance[Of(w)].step \in DOMAIN Nodes BY <1>2, <1>7 DEF HasWork
<1>9. ASSUME NEW t \in PendingOf(Of(w)) PROVE task[t].node = instance[Of(w)].step
  <2>1. t \in DOMAIN task /\ task[t].instance = Of(w) /\ task[t].status = "pending" BY DEF PendingOf
  <2>2. TaskFits(t) /\ task[t] \in ApprovalTaskRow /\ DOMAIN Nodes \subseteq Nat
    <3>1. task \in Seq(ApprovalTaskRow) BY DEF ApprovalsInv, ApprovalTypes
    <3> QED BY <1>7, <2>1, <3>1, ApprovalsAssumption
  <2>3. /\ task[t].node <= instance[Of(w)].step /\ ~(task[t].node < instance[Of(w)].step)
        /\ task[t].node \in Nat /\ instance[Of(w)].step \in Nat
    BY <1>8, <2>1, <2>2 DEF TaskFits, ApprovalTaskRow
  <2> QED BY <2>3
<1>10. \A v \in Workers \ {w} : Works(v) => ~(Of(v) = Of(w) /\ session[v].phase = "cancel")
  BY DEF ApprovalsInv, SessionsOK, LocksOK
<1> QED BY <1>1, <1>2, <1>5, <1>6, <1>8, <1>9, <1>10

\* What Decided writes, row by row.
LEMMA DecidedRows ==
  ASSUME ApprovalsInv, NEW w \in Workers, Works(w), session[w].phase = "cancel", session[w].left = {}
  PROVE  LET s == session[w]  D == Decided(s) IN
         /\ D \in Seq(ApprovalTaskRow) /\ DOMAIN D = DOMAIN task
         /\ \A t \in DOMAIN task : /\ D[t].instance = task[t].instance /\ D[t].node = task[t].node
                                   /\ t \notin s.tasks => D[t] = task[t]
         /\ D[s.task].status = s.op /\ D[s.task].by = s.actor
         /\ \A t \in s.tasks \ {s.task} : D[t].status = "cancelled"
<1> DEFINE s == session[w]
           D == Decided(s)
<1>1. /\ s \in ApprovalSession /\ s.op \in {"approved", "rejected"} /\ s.task \in s.tasks
      /\ s.tasks \subseteq PendingOf(Of(w))
  BY Deciding
<1>2. \A t \in s.tasks : t \in DOMAIN task /\ task[t].status = "pending" BY <1>1 DEF PendingOf
<1>3. task \in Seq(ApprovalTaskRow) /\ s.actor \in Users
  BY <1>1 DEF ApprovalsInv, ApprovalTypes, ApprovalSession
<1> HIDE DEF s
<1>5. DOMAIN D = DOMAIN task BY DEF Decided
<1>6. \A t \in DOMAIN task : task[t] \in ApprovalTaskRow BY <1>3
<1>7. ASSUME NEW t \in DOMAIN task
      PROVE  /\ D[t] \in ApprovalTaskRow /\ D[t].instance = task[t].instance /\ D[t].node = task[t].node
             /\ t \notin s.tasks => D[t] = task[t]
             /\ t = s.task => D[t].status = s.op /\ D[t].by = s.actor
             /\ t \in s.tasks \ {s.task} => D[t].status = "cancelled"
  <2> DEFINE a == [task[t] EXCEPT !.status = s.op, !.by = s.actor]
             b == [task[t] EXCEPT !.status = "cancelled"]
  <2>1. /\ a \in ApprovalTaskRow /\ a.instance = task[t].instance /\ a.node = task[t].node
        /\ a.status = s.op /\ a.by = s.actor
        /\ b \in ApprovalTaskRow /\ b.instance = task[t].instance /\ b.node = task[t].node
        /\ b.status = "cancelled"
    <3>1. task[t] \in ApprovalTaskRow /\ s.op \in {"approved", "rejected"} /\ s.actor \in Users
      BY <1>1, <1>3, <1>6
    <3> DEFINE r == task[t]
               o == s.op
               u == s.actor
    <3>2. r \in ApprovalTaskRow /\ o \in {"approved", "rejected"} /\ u \in Users BY <3>1
    <3> HIDE DEF r, o, u
    <3> DEFINE x == [r EXCEPT !.status = o, !.by = u]
               y == [r EXCEPT !.status = "cancelled"]
    <3>3. /\ x \in ApprovalTaskRow /\ x.instance = r.instance /\ x.node = r.node
          /\ x.status = o /\ x.by = u
          /\ y \in ApprovalTaskRow /\ y.instance = r.instance /\ y.node = r.node /\ y.status = "cancelled"
      BY ONLY <3>2 DEF ApprovalTaskRow
    <3>4. a = x /\ b = y /\ r = task[t] /\ o = s.op /\ u = s.actor BY DEF r, o, u
    <3> HIDE DEF a, b, x, y
    <3> QED BY ONLY <3>3, <3>4
  <2>2. D[t] = IF t = s.task THEN a ELSE IF t \in s.tasks /\ task[t].status = "pending" THEN b ELSE task[t]
    BY DEF Decided
  <2> HIDE DEF D, a, b
  <2> QED BY <1>1, <1>2, <1>6, <2>1, <2>2
<1>8. D \in Seq(ApprovalTaskRow)
  <2>1. Len(task) \in Nat /\ DOMAIN task = 1..Len(task) BY <1>3
  <2> HIDE DEF D
  <2>2. D = [t \in 1..Len(task) |-> D[t]] BY <1>5, <2>1 DEF D, Decided
  <2>3. D \in [1..Len(task) -> ApprovalTaskRow] BY <1>7, <2>1, <2>2
  <2> QED BY <2>1, <2>3
<1> HIDE DEF D
<1>9. \A t \in s.tasks : t \in DOMAIN task BY <1>2
<1> QED BY <1>1, <1>5, <1>7, <1>8, <1>9 DEF D, s
-----------------------------------------------------------------------------
\* An instance whose status or whose step is set.
LEMMA StepIsNat ==
  ASSUME ApprovalTypes, NEW i \in Instances
  PROVE  instance[i].step \in Nat
<1>1. Len(Nodes) \in Nat BY ApprovalsAssumption
<1>2. instance[i] \in InstanceRow BY DEF ApprovalTypes
<1> QED BY <1>1, <1>2 DEF InstanceRow

LEMMA StatusSet ==
  ASSUME ApprovalTypes, NEW i \in Instances, NEW x \in {"approved", "rejected"},
         instance' = [instance EXCEPT ![i].status = x]
  PROVE  /\ instance' \in [Instances -> InstanceRow] /\ instance'[i].status = x
         /\ instance'[i].step = instance[i].step /\ \A j \in Instances \ {i} : instance'[j] = instance[j]
<1> QED BY DEF ApprovalTypes, InstanceRow

LEMMA StepSet ==
  ASSUME ApprovalTypes, NEW i \in Instances, NEW n \in 1..Len(Nodes),
         instance' = [instance EXCEPT ![i].step = n]
  PROVE  /\ instance' \in [Instances -> InstanceRow] /\ instance'[i].status = instance[i].status
         /\ instance'[i].step = n /\ \A j \in Instances \ {i} : instance'[j] = instance[j]
<1>1. Len(Nodes) \in Nat BY ApprovalsAssumption
<1> QED BY <1>1 DEF ApprovalTypes, InstanceRow

\* A rejection closes the instance and every open task of it.
LEMMA RejectStep ==
  ASSUME ApprovalsInv, NEW w \in Workers, Works(w), Decide(w), session[w].op = "rejected"
  PROVE  ApprovalsInv'
<1> SUFFICES ASSUME NEW i \in Instances, i = Of(w) PROVE ApprovalsInv'
  BY Deciding DEF Decide
<1> DEFINE s == session[w]
           D == Decided(s)
           W == s.tasks
<1>1. /\ s.phase = "cancel" /\ s.left = {} /\ task' = D /\ End(w)
      /\ instance' = [instance EXCEPT ![i].status = "rejected"]
  BY DEF Decide
<1>2. /\ W = PendingOf(i) /\ s.task \in W /\ instance[i].status = "pending" /\ instance[i].step \in DOMAIN Nodes
      /\ \A t \in W : task[t].node = instance[i].step
      /\ Applicant[i] # s.actor
      /\ \A v \in Workers \ {w} : Works(v) => ~(Of(v) = i /\ session[v].phase = "cancel")
  BY <1>1, Deciding
<1>3. /\ D \in Seq(ApprovalTaskRow) /\ DOMAIN D = DOMAIN task
      /\ \A t \in DOMAIN task : /\ D[t].instance = task[t].instance /\ D[t].node = task[t].node
                                /\ t \notin W => D[t] = task[t]
      /\ D[s.task].status = "rejected" /\ D[s.task].by = s.actor
      /\ \A t \in W \ {s.task} : D[t].status = "cancelled"
  BY <1>1, DecidedRows
<1>4. /\ instance' \in [Instances -> InstanceRow] /\ instance'[i].status = "rejected"
      /\ instance'[i].step = instance[i].step /\ \A j \in Instances \ {i} : instance'[j] = instance[j]
  BY <1>1, StatusSet DEF ApprovalsInv
<1>5. TasksOK(i) /\ \A t \in W : t \in DOMAIN task /\ task[t].instance = i /\ task[t].status = "pending"
  BY <1>2 DEF ApprovalsInv, PendingOf
<1>6. instance[i].step \in Nat BY StepIsNat DEF ApprovalsInv
<1> HIDE DEF D, W, s
<1>7. TasksOK(i)'
  <2>1. ASSUME NEW t \in DOMAIN task', task'[t].instance = i PROVE TaskFits(t)'
    <3>1. t \in DOMAIN task /\ task[t].instance = i /\ TaskFits(t) BY <1>1, <1>3, <1>5, <2>1 DEF TasksOK
    <3>2. CASE t \in W
      <4>1. /\ task'[t].node = instance[i].step /\ task'[t].status \in {"rejected", "cancelled"}
            /\ task'[t].status = "rejected" => task'[t].by # Applicant[i]
        BY <1>1, <1>2, <1>3, <3>1, <3>2
      <4> QED BY <1>4, <1>6, <2>1, <4>1 DEF TaskFits
    <3>3. CASE t \notin W
      <4>1. task'[t] = task[t] /\ task[t].status # "pending" BY <1>1, <1>2, <1>3, <3>1, <3>3 DEF PendingOf
      <4> QED BY <1>2, <1>4, <3>1, <4>1 DEF TaskFits
    <3> QED BY <3>2, <3>3
  <2>2. OneLive(i)' BY <1>1, <1>3, <1>5 DEF TasksOK, OneLive, Live
  <2>3. HasWork(i)' BY <1>4 DEF HasWork
  <2>4. NodesDone(i)'
    <3>1. \A t \in DOMAIN task : task[t].status = "approved" => t \in DOMAIN task' /\ task'[t] = task[t]
      BY <1>1, <1>3, <1>5
    <3> QED BY <1>2, <1>4, <1>5, <3>1 DEF TasksOK, NodesDone
  <2> QED BY <2>1, <2>2, <2>3, <2>4 DEF TasksOK
<1>8. /\ DOMAIN task \subseteq DOMAIN task' /\ task' \in Seq(ApprovalTaskRow)
      /\ \A t \in DOMAIN task :
           /\ task'[t].instance = task[t].instance /\ task'[t].node = task[t].node
           /\ IF t \in W THEN task[t].instance = i ELSE task'[t] = task[t]
      /\ \A t \in DOMAIN task' \ DOMAIN task : task'[t].instance = i
  BY <1>1, <1>3, <1>5
<1>9. W \in SUBSET session[w].tasks BY DEF W, s
<1>10. \A v \in Workers \ {w} : Works(v) => ~(Of(v) = i /\ session[v].phase = "cancel") BY <1>2
<1>11. /\ instance' \in [Instances -> InstanceRow] /\ End(w)
       /\ \A j \in Instances \ {i} : instance'[j] = instance[j]
  BY <1>1, <1>4
<1> QED
  <2>1. EndWrite(w, i, W)
    BY ONLY Works(w), i = Of(w), <1>7, <1>8, <1>9, <1>10, <1>11 DEF EndWrite
  <2> HIDE DEF W
  <2> QED BY ONLY ApprovalsInv, w \in Workers, i \in Instances, <2>1, EndWrites

\* An approval: of one of several, of the last node, or of a node before it.
LEMMA ApproveStep ==
  ASSUME ApprovalsInv, NEW w \in Workers, Works(w), Decide(w), session[w].op = "approved"
  PROVE  ApprovalsInv'
<1> SUFFICES ASSUME NEW i \in Instances, i = Of(w), NEW n \in DOMAIN Nodes, n = instance[i].step
             PROVE  ApprovalsInv'
  BY Deciding DEF Decide
<1> DEFINE s == session[w]
           D == Decided(s)
           W == s.tasks
           new == NewTasks(i, n + 1)
           last == \A t \in PendingOf(i) : task[t].node = n => t = s.task
<1>1. s.phase = "cancel" /\ s.left = {}
  BY DEF Decide
<1>2. /\ W = {s.task} /\ s.task \in PendingOf(i) /\ instance[i].status = "pending"
      /\ \A t \in PendingOf(i) : task[t].node = n
      /\ Applicant[i] # s.actor
      /\ \A v \in Workers \ {w} : Works(v) => ~(Of(v) = i /\ session[v].phase = "cancel")
  BY <1>1, Deciding
<1>3. task[s.task].node = n BY <1>2
<1>4. s.last <=> last BY <1>1, <1>3, Deciding
<1>5. /\ D \in Seq(ApprovalTaskRow) /\ DOMAIN D = DOMAIN task
      /\ \A t \in DOMAIN task : /\ D[t].instance = task[t].instance /\ D[t].node = task[t].node
                                /\ t # s.task => D[t] = task[t]
      /\ D[s.task].status = "approved" /\ D[s.task].by = s.actor
  BY <1>1, <1>2, DecidedRows
<1>6. TasksOK(i) /\ s.task \in DOMAIN task /\ task[s.task].instance = i /\ task[s.task].status = "pending"
  BY <1>2 DEF ApprovalsInv, PendingOf
<1>7. n \in Nat /\ Len(Nodes) \in Nat /\ n <= Len(Nodes) /\ DOMAIN Nodes = 1..Len(Nodes)
  BY ApprovalsAssumption
<1>8. \/ ~last /\ task' = D /\ End(w) /\ UNCHANGED instance
      \/ last /\ n = Len(Nodes) /\ task' = D /\ End(w) /\ instance' = [instance EXCEPT ![i].status = "approved"]
      \/ Refuse(w)
      \/ /\ last /\ n # Len(Nodes) /\ Asked(n + 1) # {} /\ task' = D \o new /\ End(w)
         /\ instance' = [instance EXCEPT ![i].step = n + 1]
  BY <1>3, <1>4, Zenon DEF Decide
<1> HIDE DEF D, s, W, new
\* What the old rows of the instance are afterwards.
<1>9. ASSUME NEW t \in DOMAIN task, task[t].instance = i
      PROVE  /\ TaskFits(t) /\ task[t] \in ApprovalTaskRow
             /\ t # s.task => D[t] = task[t]
             /\ t # s.task /\ last => task[t].status # "pending"
             /\ task[t].node \in Nat /\ task[t].node <= n
             /\ task[t].node < n => task[t].status \notin {"pending", "rejected"}
             /\ task[t].node < n /\ Nodes[task[t].node].mode = "all" => task[t].status # "cancelled"
             /\ task[t].status \notin {"rejected", "cancelled"} \/ task[t].node < n
             /\ task[t].status \in {"approved", "rejected"} => task[t].by # Applicant[i]
             /\ task[t].status # "rejected"
  <2>1. TaskFits(t) BY <1>6, <1>9 DEF TasksOK
  <2>2. task[t] \in ApprovalTaskRow
    <3>1. task \in Seq(ApprovalTaskRow) BY DEF ApprovalsInv, ApprovalTypes
    <3> QED BY <3>1
  <2>3. task[t].node \in Nat BY <1>7, <2>2 DEF ApprovalTaskRow
  <2>4. t # s.task /\ last => task[t].status # "pending" BY <1>2, <1>9 DEF PendingOf
  <2> QED BY <1>2, <1>5, <1>9, <2>1, <2>2, <2>3, <2>4 DEF TaskFits
<1>10. ASSUME NEW t \in DOMAIN task, D[t].instance = i
       PROVE  task[t].instance = i /\ (t = s.task => D[t].node = n /\ D[t].status = "approved" /\ D[t].by # Applicant[i])
  BY <1>2, <1>3, <1>5, <1>10
<1>11. \A m \in DOMAIN Nodes : m < n =>
         \E t \in DOMAIN task : D[t].instance = i /\ D[t].node = m /\ D[t].status = "approved"
  <2>1. \A m \in DOMAIN Nodes : m < n =>
          \E t \in DOMAIN task : task[t].instance = i /\ task[t].node = m /\ task[t].status = "approved"
    BY <1>6 DEF TasksOK, NodesDone
  <2> QED BY <1>5, <1>6, <2>1
\* A row that was open or approved is what is open or approved.
<1>12. \A t, u \in DOMAIN task :
         (/\ D[t].instance = i /\ D[u].instance = i /\ D[t].node = D[u].node
          /\ Nodes[D[t].node].mode # "all" /\ D[t].status \in {"pending", "approved"}
          /\ D[u].status \in {"pending", "approved"}) => t = u
  <2>1. \A t \in DOMAIN task : D[t].status \in {"pending", "approved"} => Live(t)
    BY <1>5, <1>6 DEF Live
  <2> QED BY <1>5, <1>6, <2>1 DEF TasksOK, OneLive
<1>13. CASE task' = D /\ End(w) /\ instance' \in [Instances -> InstanceRow]
              /\ (\A j \in Instances \ {i} : instance'[j] = instance[j]) /\ TasksOK(i)'
  <2>1. /\ DOMAIN task \subseteq DOMAIN task' /\ task' \in Seq(ApprovalTaskRow)
        /\ \A t \in DOMAIN task :
             /\ task'[t].instance = task[t].instance /\ task'[t].node = task[t].node
             /\ IF t \in W THEN task[t].instance = i ELSE task'[t] = task[t]
        /\ \A t \in DOMAIN task' \ DOMAIN task : task'[t].instance = i
    BY <1>2, <1>5, <1>6, <1>13
  <2>2. W \in SUBSET session[w].tasks BY DEF W, s
  <2>3. \A v \in Workers \ {w} : Works(v) => ~(Of(v) = i /\ session[v].phase = "cancel") BY <1>2
  <2>4. /\ instance' \in [Instances -> InstanceRow] /\ End(w) /\ TasksOK(i)'
        /\ \A j \in Instances \ {i} : instance'[j] = instance[j]
    BY <1>13
  <2> QED
    <3>1. EndWrite(w, i, W)
      BY ONLY Works(w), i = Of(w), <2>1, <2>2, <2>3, <2>4 DEF EndWrite
    <3> HIDE DEF W
    <3> QED BY ONLY ApprovalsInv, w \in Workers, i \in Instances, <3>1, EndWrites
<1>14. CASE ~last /\ task' = D /\ End(w) /\ UNCHANGED instance
  <2>1. ASSUME NEW t \in DOMAIN task', task'[t].instance = i PROVE TaskFits(t)'
    <3>1. t \in DOMAIN task /\ task[t].instance = i BY <1>5, <1>10, <1>14, <2>1
    <3>2. CASE t = s.task BY <1>2, <1>7, <1>10, <1>14, <2>1, <3>1, <3>2 DEF TaskFits
    <3>3. CASE t # s.task BY <1>9, <1>14, <3>1, <3>3 DEF TaskFits
    <3> QED BY <3>2, <3>3
  <2>2. OneLive(i)' BY <1>5, <1>12, <1>14 DEF OneLive, Live
  <2>3. HasWork(i)'
    <3>1. PICK t \in PendingOf(i) : task[t].node = n /\ t # s.task BY <1>14
    <3>2. t \in DOMAIN task' /\ task'[t] = task[t] BY <1>5, <1>14, <3>1 DEF PendingOf
    <3> QED BY <1>14, <3>1, <3>2 DEF HasWork, PendingOf
  <2>4. NodesDone(i)' BY <1>2, <1>5, <1>11, <1>14 DEF NodesDone
  <2>5. TasksOK(i)' BY <2>1, <2>2, <2>3, <2>4 DEF TasksOK
  <2> QED BY <1>13, <1>14, <2>5 DEF ApprovalsInv, ApprovalTypes
<1>15. CASE last /\ n = Len(Nodes) /\ task' = D /\ End(w)
              /\ instance' = [instance EXCEPT ![i].status = "approved"]
  <2>1. /\ instance' \in [Instances -> InstanceRow] /\ instance'[i].status = "approved"
        /\ instance'[i].step = n /\ \A j \in Instances \ {i} : instance'[j] = instance[j]
    BY <1>15, StatusSet DEF ApprovalsInv
  <2>2. ASSUME NEW t \in DOMAIN task', task'[t].instance = i PROVE TaskFits(t)'
    <3>1. t \in DOMAIN task /\ task[t].instance = i BY <1>5, <1>10, <1>15, <2>2
    <3>2. CASE t = s.task
      <4>1. task'[t].node = n /\ task'[t].status = "approved" /\ task'[t].by # Applicant[i]
        BY <1>10, <1>15, <2>2, <3>1, <3>2
      <4> QED BY <1>7, <2>1, <2>2, <4>1 DEF TaskFits
    <3>3. CASE t # s.task
      <4>1. /\ task'[t] = task[t] /\ task[t].status \notin {"pending", "rejected"}
            /\ task[t].node \in Nat /\ task[t].node <= n
            /\ Nodes[task[t].node].mode = "all" => task[t].status # "cancelled"
            /\ task[t].status \in {"approved", "rejected"} => task[t].by # Applicant[i]
        BY <1>9, <1>15, <3>1, <3>3
      <4> QED BY <2>1, <2>2, <4>1 DEF TaskFits
    <3> QED BY <3>2, <3>3
  <2>3. OneLive(i)' BY <1>5, <1>12, <1>15 DEF OneLive, Live
  <2>4. HasWork(i)' BY <2>1 DEF HasWork
  <2>5. NodesDone(i)'
    <3>1. D[s.task].instance = i /\ D[s.task].node = n /\ s.task \in DOMAIN D BY <1>3, <1>5, <1>6
    <3> QED BY <1>5, <1>7, <1>11, <1>15, <3>1 DEF NodesDone
  <2>6. TasksOK(i)' BY <2>2, <2>3, <2>4, <2>5 DEF TasksOK
  <2> QED BY <1>13, <1>15, <2>1, <2>6
<1>16. CASE last /\ n # Len(Nodes) /\ Asked(n + 1) # {} /\ task' = D \o new /\ End(w)
              /\ instance' = [instance EXCEPT ![i].step = n + 1]
  <2>0. n + 1 \in DOMAIN Nodes /\ n + 1 \in 1..Len(Nodes) BY <1>7, <1>16
  <2>1. /\ instance' \in [Instances -> InstanceRow] /\ instance'[i].status = "pending"
        /\ instance'[i].step = n + 1 /\ \A j \in Instances \ {i} : instance'[j] = instance[j]
    <3>1. ApprovalTypes BY DEF ApprovalsInv
    <3>2. instance' = [instance EXCEPT ![i].step = n + 1] BY <1>16
    <3> DEFINE m == n + 1
    <3>3. m \in 1..Len(Nodes) BY <2>0
    <3>4. instance' = [instance EXCEPT ![i].step = m] BY <3>2
    <3> HIDE DEF m
    <3>5. /\ instance' \in [Instances -> InstanceRow] /\ instance'[i].status = instance[i].status
          /\ instance'[i].step = m /\ \A j \in Instances \ {i} : instance'[j] = instance[j]
      BY ONLY <3>1, <3>3, <3>4, StepSet, i \in Instances
    <3> QED BY <1>2, <3>5 DEF m
  <2>2. /\ new \in Seq(ApprovalTaskRow) /\ Len(new) > 0
        /\ \A k \in DOMAIN new : new[k].instance = i /\ new[k].node = n + 1 /\ new[k].status = "pending"
        /\ Nodes[n + 1].mode # "all" => Len(new) = 1
    BY <1>16, <2>0, NewTasksRows DEF ApprovalsInv, new
  <2>3. /\ task' \in Seq(ApprovalTaskRow) /\ DOMAIN task \subseteq DOMAIN task'
        /\ \A t \in DOMAIN task : task'[t] = D[t]
        /\ \A t \in DOMAIN task' \ DOMAIN task : t - Len(task) \in DOMAIN new /\ task'[t] = new[t - Len(task)]
        /\ Len(task) + 1 \in DOMAIN task' \ DOMAIN task
        /\ Len(new) = 1 => \A t \in DOMAIN task' \ DOMAIN task : t = Len(task) + 1
    <3>1. /\ D \o new \in Seq(ApprovalTaskRow) /\ Len(D \o new) = Len(D) + Len(new)
          /\ \A t \in 1 .. Len(D) + Len(new) :
               (D \o new)[t] = IF t <= Len(D) THEN D[t] ELSE new[t - Len(D)]
      BY ONLY <1>5, <2>2, ConcatProperties
    <3>2. /\ Len(D) \in Nat /\ Len(new) \in Nat /\ DOMAIN D = 1..Len(D)
          /\ DOMAIN new = 1..Len(new) /\ DOMAIN (D \o new) = 1..Len(D \o new)
          /\ Len(task) \in Nat /\ DOMAIN task = 1..Len(task)
      BY <1>5, <2>2, <3>1 DEF ApprovalsInv, ApprovalTypes
    <3>3. Len(D) = Len(task)
      <4> DEFINE d == Len(D)
                 k == Len(task)
      <4>1. d \in Nat /\ k \in Nat /\ 1..d = 1..k BY <1>5, <3>2
      <4> HIDE DEF d, k
      <4>2. (d \in 1..d \/ d = 0) /\ (k \in 1..k \/ k = 0) BY ONLY <4>1
      <4>3. d = k BY ONLY <4>1, <4>2
      <4> QED BY <4>3 DEF d, k
    <3> DEFINE k == Len(task)
               E == D \o new
    <3>4. /\ E \in Seq(ApprovalTaskRow) /\ k \in Nat /\ Len(new) \in Nat /\ DOMAIN new = 1..Len(new)
          /\ DOMAIN E = 1 .. k + Len(new) /\ DOMAIN task = 1..k /\ task' = E /\ Len(new) > 0
          /\ \A t \in 1 .. k + Len(new) : E[t] = IF t <= k THEN D[t] ELSE new[t - k]
      BY <1>16, <2>2, <3>1, <3>2, <3>3
    <3> HIDE DEF k, E
    <3> DEFINE q == Len(new)
    <3>6. /\ k \in Nat /\ q \in Nat /\ DOMAIN new = 1..q /\ DOMAIN E = 1 .. k + q /\ DOMAIN task = 1..k
          /\ q > 0 /\ \A t \in 1 .. k + q : E[t] = IF t <= k THEN D[t] ELSE new[t - k]
      BY ONLY <3>4
    <3> HIDE DEF q
    <3>7. /\ DOMAIN task \subseteq DOMAIN E /\ k + 1 \in DOMAIN E \ DOMAIN task
          /\ q = 1 => \A t \in DOMAIN E \ DOMAIN task : t = k + 1
      BY ONLY <3>6
    <3>8. /\ \A t \in DOMAIN task : E[t] = D[t]
          /\ \A t \in DOMAIN E \ DOMAIN task : t - k \in DOMAIN new /\ E[t] = new[t - k]
      BY ONLY <3>6
    <3>5. /\ E \in Seq(ApprovalTaskRow) /\ DOMAIN task \subseteq DOMAIN E
          /\ \A t \in DOMAIN task : E[t] = D[t]
          /\ \A t \in DOMAIN E \ DOMAIN task : t - k \in DOMAIN new /\ E[t] = new[t - k]
          /\ k + 1 \in DOMAIN E \ DOMAIN task
          /\ Len(new) = 1 => \A t \in DOMAIN E \ DOMAIN task : t = k + 1
      <4>1. E \in Seq(ApprovalTaskRow) BY ONLY <3>4
      <4>2. q = Len(new) BY DEF q
      <4> QED BY ONLY <3>7, <3>8, <4>1, <4>2
    <3>9. task' = E BY ONLY <3>4
    <3>10. k = Len(task) BY DEF k
    <3> QED BY ONLY <3>5, <3>9, <3>10
  <2>4. \A t \in DOMAIN task' \ DOMAIN task :
          task'[t].instance = i /\ task'[t].node = n + 1 /\ task'[t].status = "pending"
    <3>1. \A t \in DOMAIN task' \ DOMAIN task :
            \E k \in DOMAIN new : task'[t] = new[k]
      BY ONLY <2>3
    <3>2. \A k \in DOMAIN new : new[k].instance = i /\ new[k].node = n + 1 /\ new[k].status = "pending"
      BY <2>2
    <3> HIDE DEF new
    <3> QED BY ONLY <3>1, <3>2
  <2>5. ASSUME NEW t \in DOMAIN task', task'[t].instance = i PROVE TaskFits(t)'
    <3>1. CASE t \in DOMAIN task
      <4>1. task[t].instance = i /\ task'[t] = D[t] BY <1>10, <2>3, <2>5, <3>1
      <4>2. CASE t = s.task
        <5>1. task'[t].node = n /\ task'[t].status = "approved" /\ task'[t].by # Applicant[i]
          BY <1>10, <2>5, <3>1, <4>1, <4>2
        <5> QED BY <1>7, <2>1, <2>5, <5>1 DEF TaskFits
      <4>3. CASE t # s.task
        <5>1. /\ task'[t] = task[t] /\ task[t].status \notin {"pending", "rejected"}
              /\ task[t].node \in Nat /\ task[t].node <= n
              /\ Nodes[task[t].node].mode = "all" => task[t].status # "cancelled"
              /\ task[t].status \in {"approved", "rejected"} => task[t].by # Applicant[i]
          BY <1>9, <1>16, <3>1, <4>1, <4>3
        <5> QED BY <1>7, <2>1, <2>5, <5>1 DEF TaskFits
      <4> QED BY <4>2, <4>3
    <3>2. CASE t \notin DOMAIN task
      <4>1. task'[t].node = n + 1 /\ task'[t].status = "pending" BY <2>4, <2>5, <3>2
      <4> QED BY <1>7, <2>1, <2>5, <4>1 DEF TaskFits
    <3> QED BY <3>1, <3>2
  <2>6. \A t \in DOMAIN task : task'[t].instance = i => task'[t].node \in Nat /\ task'[t].node <= n
    BY <1>9, <1>10, <1>5, <2>3
  <2>7. OneLive(i)'
    <3>1. ASSUME NEW t \in DOMAIN task', NEW u \in DOMAIN task',
                 task'[t].instance = i, task'[u].instance = i, task'[t].node = task'[u].node,
                 Nodes[task'[t].node].mode # "all", Live(t)', Live(u)'
          PROVE  t = u
      <4>1. t \in DOMAIN task <=> u \in DOMAIN task BY <1>7, <2>4, <2>6, <3>1
      <4>2. CASE t \in DOMAIN task BY <1>12, <2>3, <3>1, <4>1, <4>2 DEF Live
      <4>3. CASE t \notin DOMAIN task
        <5>1. Nodes[n + 1].mode # "all" BY <2>4, <3>1, <4>3
        <5> QED BY <2>2, <2>3, <4>1, <4>3, <5>1
      <4> QED BY <4>2, <4>3
    <3> QED BY <3>1 DEF OneLive
  <2>8. HasWork(i)' BY <2>0, <2>1, <2>3, <2>4 DEF HasWork
  <2>9. NodesDone(i)'
    <3>1. task'[s.task].instance = i /\ task'[s.task].node = n /\ task'[s.task].status = "approved"
      BY <1>3, <1>5, <1>6, <2>3
    <3>2. ASSUME NEW m \in DOMAIN Nodes, instance'[i].status = "approved" \/ m < instance'[i].step
          PROVE  \E t \in DOMAIN task' :
                   task'[t].instance = i /\ task'[t].node = m /\ task'[t].status = "approved"
      <4>1. m < n \/ m = n BY <1>7, <2>1, <3>2
      <4>2. CASE m < n
        <5>1. PICK t \in DOMAIN task : D[t].instance = i /\ D[t].node = m /\ D[t].status = "approved"
          BY <1>11, <4>2
        <5> QED BY <2>3, <5>1
      <4>3. CASE m = n BY <1>6, <2>3, <3>1, <4>3
      <4> QED BY <4>1, <4>2, <4>3
    <3> QED BY <3>2 DEF NodesDone
  <2>10. TasksOK(i)' BY <2>5, <2>7, <2>8, <2>9 DEF TasksOK
  <2>11. /\ \A t \in DOMAIN task :
              /\ task'[t].instance = task[t].instance /\ task'[t].node = task[t].node
              /\ IF t \in W THEN task[t].instance = i ELSE task'[t] = task[t]
         /\ \A t \in DOMAIN task' \ DOMAIN task : task'[t].instance = i
    BY <1>2, <1>5, <1>6, <2>3, <2>4
  <2>12. W \in SUBSET session[w].tasks BY DEF W, s
  <2>13. \A v \in Workers \ {w} : Works(v) => ~(Of(v) = i /\ session[v].phase = "cancel") BY <1>2
  <2>14. /\ instance' \in [Instances -> InstanceRow] /\ End(w)
         /\ \A j \in Instances \ {i} : instance'[j] = instance[j]
         /\ task' \in Seq(ApprovalTaskRow) /\ DOMAIN task \subseteq DOMAIN task'
    BY <1>16, <2>1, <2>3
  <2> QED
    <3>1. EndWrite(w, i, W)
      BY ONLY Works(w), i = Of(w), <2>10, <2>11, <2>12, <2>13, <2>14 DEF EndWrite
    <3> HIDE DEF W
    <3> QED BY ONLY ApprovalsInv, w \in Workers, i \in Instances, <3>1, EndWrites
<1> QED BY <1>8, <1>14, <1>15, <1>16, SessionEnds
-----------------------------------------------------------------------------
\* A transfer closes one open task and adds one for the deputy.
LEMMA TransferStep ==
  ASSUME ApprovalsInv, NEW w \in Workers, Works(w), Transfer(w) PROVE ApprovalsInv'
<1> SUFFICES ASSUME NEW i \in Instances, i = Of(w) PROVE ApprovalsInv' BY AtWork
<1> DEFINE s == session[w]
           k == s.task
           old == [task EXCEPT ![s.task].status = "transferred", ![s.task].by = s.actor]
           new == [task[s.task] EXCEPT !.assignee = s.target]
<1>1. /\ k \in DOMAIN task /\ task[k] \in ApprovalTaskRow /\ task[k].status = "pending" /\ task[k].instance = i
      /\ s.tasks = {k} /\ s.actor \in Users /\ s.target \in Users
  BY AtWork DEF Transfer, SessionOK, ApprovalSession
<1>2. /\ task' = Append(old, new) /\ End(w) /\ instance' = instance
      /\ \A v \in Workers \ {w} : Works(v) => ~(Of(v) = i /\ session[v].phase = "cancel")
  BY DEF Transfer, InstanceFree
<1>3. task \in Seq(ApprovalTaskRow) /\ instance \in [Instances -> InstanceRow] /\ TasksOK(i)
  BY DEF ApprovalsInv, ApprovalTypes
<1> HIDE DEF k, s
<1>4. /\ new \in ApprovalTaskRow /\ new.instance = i /\ new.node = task[k].node /\ new.status = "pending"
  BY <1>1 DEF ApprovalTaskRow, k, s
<1>5. \A r \in ApprovalTaskRow, u \in Users :
        LET c == [[r EXCEPT !.status = "transferred"] EXCEPT !.by = u] IN
        c \in ApprovalTaskRow /\ c.instance = r.instance /\ c.node = r.node /\ c.status = "transferred"
  BY DEF ApprovalTaskRow
<1>6. /\ old \in Seq(ApprovalTaskRow) /\ Len(old) = Len(task)
      /\ \A t \in DOMAIN task : old[t].instance = task[t].instance /\ old[t].node = task[t].node
                                /\ (t # k => old[t] = task[t])
      /\ old[k].status = "transferred"
  <2> DEFINE c == [[task[k] EXCEPT !.status = "transferred"] EXCEPT !.by = s.actor]
  <2>1. c \in ApprovalTaskRow /\ c.instance = task[k].instance /\ c.node = task[k].node /\ c.status = "transferred"
    BY <1>1, <1>5
  <2>2. old = [task EXCEPT ![k] = c] BY <1>1, <1>3 DEF k
  <2> HIDE DEF old, c
  <2> QED BY <1>1, <1>3, <2>1, <2>2
<1>7. /\ task' \in Seq(ApprovalTaskRow) /\ DOMAIN task \subseteq DOMAIN task'
      /\ \A t \in DOMAIN task : task'[t] = old[t]
      /\ \A t \in DOMAIN task' \ DOMAIN task : t = Len(task) + 1 /\ task'[t] = new
      /\ Len(task) + 1 \in DOMAIN task' \ DOMAIN task
  <2> HIDE DEF old, new
  <2>1. /\ Append(old, new) \in Seq(ApprovalTaskRow) /\ Len(Append(old, new)) = Len(task) + 1
        /\ \A t \in 1..Len(task) : Append(old, new)[t] = old[t]
        /\ Append(old, new)[Len(task) + 1] = new
    BY <1>4, <1>6, AppendProperties
  <2>2. /\ Len(task) \in Nat /\ DOMAIN task = 1..Len(task)
        /\ DOMAIN Append(old, new) = 1..Len(Append(old, new))
    BY <1>3, <2>1
  <2> QED BY ONLY <1>2, <2>1, <2>2
<1> HIDE DEF old, new
<1>8. k \in DOMAIN task /\ TaskFits(k) /\ instance[i].step \in Nat /\ task[k].node \in Nat
  BY <1>1, <1>3, StepIsNat, ApprovalsAssumption DEF TasksOK, ApprovalsInv, ApprovalTaskRow
<1>9. /\ instance[i].status = "pending" /\ task[k].node = instance[i].step
  <2>1. instance[i] \in InstanceRow BY <1>3
  <2> QED BY <1>1, <1>8, <2>1 DEF TaskFits, InstanceRow
<1>10. TasksOK(i)'
  <2>1. ASSUME NEW t \in DOMAIN task', task'[t].instance = i PROVE TaskFits(t)'
    <3>1. CASE t \in DOMAIN task /\ t # k
      <4>1. task'[t] = task[t] BY <1>6, <1>7, <3>1
      <4> QED BY <1>2, <1>3, <2>1, <3>1, <4>1 DEF TasksOK, TaskFits
    <3>2. CASE t = k
      <4>1. task'[t].node = task[k].node /\ task'[t].status = "transferred" BY <1>6, <1>7, <1>8, <3>2
      <4> QED BY <1>2, <1>8, <1>9, <2>1, <4>1 DEF TaskFits
    <3>3. CASE t \notin DOMAIN task
      <4>1. task'[t].node = task[k].node /\ task'[t].status = "pending" BY <1>4, <1>7, <3>3
      <4> QED BY <1>2, <1>8, <1>9, <2>1, <4>1 DEF TaskFits
    <3> QED BY <3>1, <3>2, <3>3
\* The row that is live for a row of afterwards: the old task for the new one.
  <2>2. OneLive(i)'
    <3> DEFINE was(t) == IF t \in DOMAIN task THEN t ELSE k
    <3>1. ASSUME NEW t \in DOMAIN task', task'[t].instance = i, Live(t)'
          PROVE  /\ was(t) \in DOMAIN task /\ task[was(t)].instance = i /\ Live(was(t))
                 /\ task[was(t)].node = task'[t].node /\ (t \in DOMAIN task => t # k)
      <4>1. CASE t \in DOMAIN task BY <1>6, <1>7, <3>1, <4>1 DEF Live
      <4>2. CASE t \notin DOMAIN task BY <1>1, <1>4, <1>7, <4>2 DEF Live
      <4> QED BY <4>1, <4>2
    <3>2. OneLive(i) BY <1>3 DEF TasksOK
    <3>3. ASSUME NEW t \in DOMAIN task', NEW u \in DOMAIN task',
                 task'[t].instance = i, task'[u].instance = i, task'[t].node = task'[u].node,
                 Nodes[task'[t].node].mode # "all", Live(t)', Live(u)'
          PROVE  t = u
      <4>1. was(t) = was(u)
        <5>1. /\ was(t) \in DOMAIN task /\ task[was(t)].instance = i /\ Live(was(t))
              /\ task[was(t)].node = task'[t].node
          BY <3>1, <3>3
        <5>2. /\ was(u) \in DOMAIN task /\ task[was(u)].instance = i /\ Live(was(u))
              /\ task[was(u)].node = task'[u].node
          BY <3>1, <3>3
        <5> HIDE DEF was
        <5> QED BY <3>2, <3>3, <5>1, <5>2 DEF OneLive
      <4>2. t \in DOMAIN task => t # k BY <3>1, <3>3
      <4>3. u \in DOMAIN task => u # k BY <3>1, <3>3
      <4> QED BY <1>7, <4>1, <4>2, <4>3
    <3> QED BY <3>3 DEF OneLive
  <2>3. HasWork(i)'
    <3>1. HasWork(i) BY <1>3 DEF TasksOK
    <3> QED BY <1>2, <1>4, <1>7, <1>9, <3>1 DEF HasWork
  <2>4. NodesDone(i)'
    <3>1. \A t \in DOMAIN task : task[t].status = "approved" => task'[t] = task[t] /\ t \in DOMAIN task'
      BY <1>1, <1>6, <1>7
    <3>2. NodesDone(i) BY <1>3 DEF TasksOK
    <3> QED BY <1>2, <3>1, <3>2 DEF NodesDone
  <2> QED BY <2>1, <2>2, <2>3, <2>4 DEF TasksOK
<1>11. {k} \in SUBSET session[w].tasks BY <1>1 DEF s
<1>12. /\ \A t \in DOMAIN task :
             /\ task'[t].instance = task[t].instance /\ task'[t].node = task[t].node
             /\ IF t \in {k} THEN task[t].instance = i ELSE task'[t] = task[t]
       /\ \A t \in DOMAIN task' \ DOMAIN task : task'[t].instance = i
       /\ task' \in Seq(ApprovalTaskRow) /\ DOMAIN task \subseteq DOMAIN task'
       /\ instance' \in [Instances -> InstanceRow] /\ End(w)
       /\ \A j \in Instances \ {i} : instance'[j] = instance[j]
  BY <1>1, <1>2, <1>3, <1>4, <1>6, <1>7
<1>13. \A v \in Workers \ {w} : Works(v) => ~(Of(v) = i /\ session[v].phase = "cancel") BY <1>2
<1> QED
  <2>1. EndWrite(w, i, {k})
    BY ONLY Works(w), i = Of(w), <1>10, <1>11, <1>12, <1>13 DEF EndWrite
  <2> QED BY ONLY ApprovalsInv, w \in Workers, i \in Instances, <2>1, EndWrites

LEMMA ProceedStep ==
  ASSUME ApprovalsInv, NEW w \in Workers, Proceed(w) PROVE ApprovalsInv'
<1>1. Works(w) BY DEF Proceed
<1>2. CASE LockTask(w) BY <1>1, <1>2, LockTaskStep
<1>3. CASE LockInstance(w) BY <1>1, <1>3, LockInstanceStep
<1>4. CASE Decide(w)
  <2>1. session[w].op \in {"approved", "rejected"} BY <1>1, <1>4, Deciding DEF Decide
  <2> QED BY <1>1, <1>4, <2>1, ApproveStep, RejectStep
<1>5. CASE Transfer(w) BY <1>1, <1>5, TransferStep
<1>6. CASE Abort(w) BY <1>6, SessionEnds DEF Abort
<1>7. CASE \E t \in session[w].left : LockOther(w, t) BY <1>1, <1>7, LockOtherStep
<1> QED BY <1>2, <1>3, <1>4, <1>5, <1>6, <1>7 DEF Proceed

LEMMA ApprovalsStep ==
  ASSUME ApprovalsInv, [ApprovalsNext]_approvalVars PROVE ApprovalsInv'
<1>1. CASE UNCHANGED approvalVars
  <2>1. UNCHANGED <<members, instance, task, session>> BY <1>1 DEF approvalVars
  <2>2. ApprovalTypes' BY <2>1 DEF ApprovalsInv, ApprovalTypes, Works
  <2>3. \A v \in Workers : Works(v)' = Works(v) /\ Of(v)' = Of(v) /\ PendingOf(Of(v))' = PendingOf(Of(v))
    BY <2>1 DEF Works, Of, PendingOf
  <2>4. SessionsOK'
    BY <2>1, <2>3 DEF ApprovalsInv, SessionsOK, SessionOK, LocksOK, Decides, AtNode
  <2> QED BY <2>1, <2>2, <2>4, SessionsOnly
<1>2. ASSUME NEW i \in Instances, Start(i) PROVE ApprovalsInv' BY <1>2, StartStep
<1>3. ASSUME NEW r \in DOMAIN members, NEW u \in Users, Leave(r, u) PROVE ApprovalsInv'
  BY <1>3, LeaveStep
<1>4. ASSUME NEW w \in Workers, NEW t \in DOMAIN task, NEW u \in Users,
             (\E op \in {"approved", "rejected"} : Begin(w, t, u, op, u))
               \/ \E target \in Deputies : Begin(w, t, u, "transfer", target)
      PROVE  ApprovalsInv'
  <2>1. Deputies \subseteq Users BY ApprovalsAssumption
  <2> QED BY <1>4, <2>1, BeginStep
<1>5. ASSUME NEW w \in Workers, Proceed(w) PROVE ApprovalsInv' BY <1>5, ProceedStep
<1> QED BY <1>1, <1>2, <1>3, <1>4, <1>5 DEF ApprovalsNext

\* An instance is approved when every node was, nobody rejected it, the
\* applicant decided nothing, and one that waits has an open task, whatever
\* decisions and transfers overlapped (decide_task, transfer_task).
THEOREM ApprovalsAreCompleteAlways == ApprovalsSpec => []ApprovalsAreComplete
<1>1. ASSUME ApprovalsInv PROVE ApprovalsAreComplete
  <2> USE <1>1
  <2>0. task \in Seq(ApprovalTaskRow) /\ DOMAIN Nodes \subseteq Nat
    BY ApprovalsAssumption DEF ApprovalsInv, ApprovalTypes
  <2>1. ApprovalsTypeOK
    BY <2>0 DEF ApprovalsInv, ApprovalTypes, SessionsOK, SessionOK, ApprovalsTypeOK
  <2>2. \A t \in DOMAIN task : /\ TaskFits(t) /\ task[t].instance \in Instances
                               /\ task[t].node \in Nat
    <3>1. \A t \in DOMAIN task : task[t] \in ApprovalTaskRow BY <2>0
    <3>2. \A t \in DOMAIN task : task[t].instance \in Instances /\ task[t].node \in DOMAIN Nodes
      BY <3>1 DEF ApprovalTaskRow
    <3> QED BY <2>0, <3>2 DEF ApprovalsInv, TasksOK
  <2>3. PendingHasWork
    <3>1. \A i \in Instances : HasWork(i) BY DEF ApprovalsInv, TasksOK
    <3> QED BY <3>1 DEF PendingHasWork, HasWork, TasksOf
  <2>4. ASSUME NEW i \in Instances, NEW n \in DOMAIN Nodes, instance[i].status = "approved" \/ n < instance[i].step
        PROVE  /\ TasksOf(i, n, "pending") = {} /\ TasksOf(i, n, "rejected") = {}
               /\ IF Nodes[n].mode = "all"
                  THEN TasksOf(i, n, "cancelled") = {} /\ TasksOf(i, n, "approved") # {}
                  ELSE Cardinality(TasksOf(i, n, "approved")) = 1
    <3>1. NodesDone(i) /\ OneLive(i) BY DEF ApprovalsInv, TasksOK
    <3>2. PICK t \in DOMAIN task : task[t].instance = i /\ task[t].node = n /\ task[t].status = "approved"
      BY <2>4, <3>1 DEF NodesDone
    <3>3. TasksOf(i, n, "pending") = {} /\ TasksOf(i, n, "rejected") = {}
      BY <2>2, <2>4 DEF TasksOf, TaskFits
    <3>4. Nodes[n].mode = "all" => TasksOf(i, n, "cancelled") = {} BY <2>2, <2>4 DEF TasksOf, TaskFits
    <3>5. t \in TasksOf(i, n, "approved") BY <3>2 DEF TasksOf
    <3>6. Nodes[n].mode # "all" => TasksOf(i, n, "approved") = {t}
      <4>1. ASSUME Nodes[n].mode # "all", NEW u \in TasksOf(i, n, "approved") PROVE u = t
        BY <3>1, <3>2, <4>1 DEF OneLive, Live, TasksOf
      <4> QED BY <3>5, <4>1
    <3>7. Cardinality({t}) = 1 BY FS_Singleton
    <3> QED BY <3>3, <3>4, <3>5, <3>6, <3>7
  <2>5. ASSUME NEW i \in Instances, NEW n \in DOMAIN Nodes, n > instance[i].step,
               NEW t \in DOMAIN task, task[t].instance = i
        PROVE  task[t].node # n
    <3>1. instance[i].step \in Nat /\ n \in Nat BY <2>0, StepIsNat DEF ApprovalsInv
    <3>2. task[t].node <= instance[i].step /\ task[t].node \in Nat BY <2>2, <2>5 DEF TaskFits
    <3> QED BY <2>5, <3>1, <3>2
  <2>6. ASSUME NEW i \in Instances, instance[i].status \in {"approved", "rejected"} PROVE PendingOf(i) = {}
    BY <2>2, <2>6 DEF PendingOf, TaskFits
  <2>7. \A t \in DOMAIN task : task[t].status \in {"approved", "rejected"} =>
          task[t].by # Applicant[task[t].instance] /\
            (task[t].status = "rejected" => instance[task[t].instance].status = "rejected")
    BY <2>2 DEF TaskFits
  <2> QED BY <2>1, <2>3, <2>4, <2>5, <2>6, <2>7 DEF ApprovalsAreComplete
<1> QED BY <1>1, ApprovalsInitially, ApprovalsStep, PTL DEF ApprovalsSpec

\* Approvals and transfers never wait for each other in a circle: a session
\* that waits for its first lock holds nothing, an approval cancels nothing, and
\* one session at a time is past the lock of an instance.
THEOREM OnlyRejectionsCollideAlways == ApprovalsSpec => []OnlyRejectionsCollide
<1>1. ASSUME ApprovalsInv PROVE OnlyRejectionsCollide
  <2>1. SUFFICES ASSUME NEW w \in Workers, NEW v \in Workers, WaitsFor(w, v), WaitsFor(v, w)
                 PROVE  "rejected" \in {session[w].op, session[v].op}
    BY DEF OnlyRejectionsCollide
  <2>2. /\ Works(w) /\ Works(v) BY <2>1 DEF WaitsFor
  <2>3. \A x \in {w, v} :
          /\ session[x].phase = "task" => session[x].tasks = {}
          /\ session[x].phase = "cancel" /\ session[x].left # {} => session[x].op = "rejected"
    BY <1>1, <2>2 DEF ApprovalsInv, SessionsOK, SessionOK, Decides
  <2> QED BY <2>1, <2>3 DEF WaitsFor
<1> QED BY <1>1, ApprovalsInitially, ApprovalsStep, PTL DEF ApprovalsSpec
=============================================================================
