---------------------------- MODULE Supply_proofs ----------------------------
(***************************************************************************)
(* What supply does, for any number of orders, lines, receipts, returns,   *)
(* production orders, keys, packs and versions.  The parts of Supply share *)
(* the stock only, which the invariant of a part does not read, so that    *)
(* each has one of its own, and a step of Supply is a step of that part or *)
(* leaves its variables alone (PartMoves).  What adds up every part is     *)
(* StockInv, at the end, over the invariants of the parts (WorkInv).       *)
(***************************************************************************)
EXTENDS Supply, Totals_proofs

\* A step of Supply is a step of each part, or leaves the part as it is.
LEMMA PartMoves ==
  ASSUME [SupplyNext]_supplyVars
  PROVE  /\ EffectiveNext \/ UNCHANGED effectiveVars
         /\ WorkNext \/ SuggestionNext \/ UNCHANGED ownProduction
         /\ PrepackNext \/ UNCHANGED ownPrepack
         /\ \/ SourcingNext
            \/ \E f \in Rfqs, t \in Quotes : Award(f, t)
            \/ UNCHANGED sourcingVars
         /\ \/ PurchasingNext
            \/ \E o \in Orders, wanted \in Seq(Nat) : CreateOrder(o, wanted)
            \/ UNCHANGED <<orderVars, returnVars>>
<1>1. CASE UNCHANGED supplyVars
  BY <1>1 DEF supplyVars, ownPurchasing, ownProduction, ownPrepack, ownSub, effectiveVars
<1>2. CASE SupplyNext /\ UNCHANGED ownPurchasing
  <2>1. UNCHANGED sourcingVars /\ UNCHANGED <<orderVars, returnVars>> BY <1>2 DEF ownPurchasing
  <2>2. MakingNext \/ (BuyingNext /\ UNCHANGED <<effectiveVars, ownProduction, ownSub, ownPrepack>>)
    BY <1>2 DEF SupplyNext
  <2> QED BY <2>1, <2>2 DEF MakingNext
<1>3. CASE BuyingNext /\ UNCHANGED <<effectiveVars, ownProduction, ownSub, ownPrepack>>
  <2>1. CASE PurchasingNext /\ UNCHANGED sourcingVars BY <1>3, <2>1
  <2>2. CASE SourcingNext /\ UNCHANGED purchasingVars BY <1>3, <2>2 DEF purchasingVars
  <2>3. CASE \E o \in Direct : CreateOrder(o, Wanted[o]) /\ UNCHANGED sourcingVars
    <3>1. Direct \subseteq Orders /\ \A o \in Direct : Wanted[o] \in Seq(Nat) BY SupplyAssumption
    <3> QED BY <1>3, <2>3, <3>1
  <2>4. CASE \E f \in Rfqs, t \in Quotes, o \in Orders : AwardQuote(f, t, o)
    <3>1. \A t \in Quotes : Quoted[t] \in Seq(Nat) BY SourcingAssumption
    <3> QED BY <1>3, <2>4, <3>1 DEF AwardQuote
  <2> QED BY <1>3, <2>1, <2>2, <2>3, <2>4 DEF BuyingNext
<1> QED BY <1>1, <1>2, <1>3 DEF SupplyNext
-----------------------------------------------------------------------------
(***************************************************************************)
(* Versions in force.  The invariant adds to OneInForce what an open edit  *)
(* holds: a copy of a routing that was there.                              *)
(***************************************************************************)

\* Two versions of one kind stand beside each other.
Apart(v, x) ==
  (v # x /\ Scope[v] = Scope[x] /\ version[v].status = "active" /\ version[x].status = "active")
    => ~Overlap(version[v].window, version[x].window)

EInv ==
  /\ version \in [Versions -> [status : {"draft", "approved", "active", "obsolete"},
                               window : Windowed]]
  /\ routingForm \in [Routings -> RoutingRow \cup {NoForm}]
  /\ EffectiveTypeOK
  /\ \A kind \in {Boms, Plans, Routings} : \A v, x \in kind \ loose : Apart(v, x)

LEMMA OverlapSymmetric ==
  ASSUME NEW w, NEW x
  PROVE  Overlap(w, x) <=> Overlap(x, w)
BY DEF Overlap

LEMMA InvariantTells == EInv => OneInForce
<1> SUFFICES ASSUME EInv, NEW kind \in {Boms, Plans, Routings},
                    NEW v \in kind \ loose, NEW x \in kind \ loose, v # x, Scope[v] = Scope[x],
                    {version[v].status, version[x].status} = {"active"}
             PROVE  ~Overlap(version[v].window, version[x].window)
  BY DEF OneInForce, EInv
<1>1. version[v].status = "active" /\ version[x].status = "active"
  OBVIOUS
<1>2. Apart(v, x)
  BY DEF EInv
<1> QED BY <1>1, <1>2 DEF Apart

LEMMA EffectiveStarts == EffectiveInit => EInv
<1> SUFFICES ASSUME EffectiveInit PROVE EInv
  OBVIOUS
<1>1. \A v \in Versions : /\ version[v].window = Window[v] /\ Window[v] \in Windowed
                          /\ version[v].status = IF v \in InForce THEN "active" ELSE "draft"
                          /\ version[v] = [status |-> version[v].status, window |-> Window[v]]
  BY EffectiveAssumption DEF EffectiveInit
<1>2. /\ version \in [Versions -> [status : {"draft", "approved", "active", "obsolete"},
                                   window : Windowed]]
      /\ EffectiveTypeOK
  BY <1>1, EffectiveAssumption
  DEF EffectiveInit, EffectiveTypeOK, Versions, BomRow, RoutingRow, PlanRow
<1>3. ASSUME NEW kind \in {Boms, Plans, Routings}, NEW v \in kind, NEW x \in kind
      PROVE  Apart(v, x)
  <2>1. v \in Versions /\ x \in Versions
    BY DEF Versions
  <2>2. version[v].status = "active" => v \in InForce
    BY <1>1, <2>1
  <2>3. version[x].status = "active" => x \in InForce
    BY <1>1, <2>1
  <2>4. v \in InForce /\ x \in InForce /\ v # x /\ Scope[v] = Scope[x]
          => ~Overlap(Window[v], Window[x])
    BY EffectiveAssumption
  <2>5. version[v].window = Window[v] /\ version[x].window = Window[x]
    BY ONLY <1>1, <2>1
  <2> QED BY ONLY <2>2, <2>3, <2>4, <2>5 DEF Apart
<1> QED BY <1>2, <1>3 DEF EInv, EffectiveInit

\* A version takes a status of its kind: it stands beside the others as before,
\* unless it is put in force, and then they leave it room.
LEMMA StatusKeeps ==
  ASSUME EInv, NEW kind \in {Boms, Plans, Routings}, NEW v \in kind, NEW to,
         version' = [version EXCEPT ![v].status = to],
         to \in {"draft", "active", "obsolete"} \/ (to = "approved" /\ kind = Boms),
         to = "active" => Blocking(v, kind) = {} \/ v \in loose',
         routingForm' = routingForm, activating' \subseteq Routings,
         loose \subseteq loose'
  PROVE  EInv'
<1>1. v \in Versions
  BY DEF Versions
<1>2. version[v] \in [status : {"draft", "approved", "active", "obsolete"}, window : Windowed]
  BY <1>1 DEF EInv
<1> DEFINE new == [version[v] EXCEPT !.status = to]
<1>3. /\ new = [status |-> to, window |-> version[v].window]
      /\ new.status = to /\ new.window = version[v].window
  BY <1>2
<1>4. \A x \in Versions : version'[x] = IF x = v THEN new ELSE version[x]
  BY <1>1 DEF EInv
<1>5. version' \in [Versions -> [status : {"draft", "approved", "active", "obsolete"},
                                 window : Windowed]]
  <2>1. new \in [status : {"draft", "approved", "active", "obsolete"}, window : Windowed]
    BY <1>2, <1>3
  <2>2. version' = [version EXCEPT ![v] = new]
    OBVIOUS
  <2> QED BY <2>1, <2>2 DEF EInv
<1>6. EffectiveTypeOK'
  <2>1. v \in Boms => new \in BomRow
    BY <1>2, <1>3 DEF BomRow
  <2>2. v \in Routings \cup Plans => to \in {"draft", "active", "obsolete"}
    BY EffectiveAssumption
  <2>3. v \in Routings => new \in RoutingRow
    BY <1>2, <1>3, <2>2 DEF RoutingRow
  <2>4. v \in Plans => new \in PlanRow
    BY <1>2, <1>3, <2>2 DEF PlanRow
  <2> QED BY <1>4, <2>1, <2>3, <2>4 DEF EInv, EffectiveTypeOK, Versions
<1> HIDE DEF new
<1>7. ASSUME NEW k \in {Boms, Plans, Routings}, NEW x \in k \ loose', NEW y \in k \ loose'
      PROVE  Apart(x, y)'
  <2>1. x \in Versions /\ y \in Versions /\ Apart(x, y) /\ Apart(y, x)
    BY DEF Versions, EInv
  <2>2. CASE x # v /\ y # v
    BY <1>4, <2>1, <2>2 DEF Apart
  <2>3. CASE x = v \/ y = v
    <3>1. k = kind \/ k \cap kind = {}
      BY EffectiveAssumption
    <3>2. k = kind
      BY <2>3, <3>1
    <3>3. CASE to = "active"
      <4>1. Blocking(v, kind) = {}
        BY <2>3, <3>3
      <4>2. \A z \in kind \ {v} :
              Scope[z] = Scope[v] /\ version[z].status = "active"
                => ~Overlap(version[z].window, version[v].window)
        BY <4>1 DEF Blocking, Rivals
      <4>3. \A z \in kind \ {v} :
              Scope[z] = Scope[v] /\ version[z].status = "active"
                => ~Overlap(version[v].window, version[z].window)
        BY <4>2, OverlapSymmetric
      <4> QED BY <1>3, <1>4, <2>1, <2>3, <3>2, <4>2, <4>3 DEF Apart
    <3>4. CASE to # "active"
      BY <1>3, <1>4, <2>1, <2>3, <3>4 DEF Apart
    <3> QED BY <3>3, <3>4
  <2> QED BY <2>2, <2>3
<1> QED BY <1>5, <1>6, <1>7 DEF EInv

\* An edit saves a routing that is loose from then on.
LEMMA SaveKeeps ==
  ASSUME EInv, NEW v \in Routings, NEW w \in Windows, SaveRoutingForm(v, w)
  PROVE  EInv'
<1> DEFINE new == [routingForm[v] EXCEPT !.window = w]
<1>1. routingForm[v] \in RoutingRow /\ w \in Windowed /\ v \in Versions
  BY EffectiveAssumption DEF EInv, SaveRoutingForm, Versions
<1>2. new \in RoutingRow
  BY <1>1 DEF RoutingRow
<1>3. RoutingRow \subseteq [status : {"draft", "approved", "active", "obsolete"},
                            window : Windowed]
  BY DEF RoutingRow
<1>4. version' = [version EXCEPT ![v] = new] /\ loose' = loose \cup {v}
  BY DEF SaveRoutingForm
<1>5. \A x \in Versions : version'[x] = IF x = v THEN new ELSE version[x]
  BY <1>1, <1>4 DEF EInv
<1> HIDE DEF new
<1>6. version' \in [Versions -> [status : {"draft", "approved", "active", "obsolete"},
                                 window : Windowed]]
  BY <1>1, <1>2, <1>3, <1>4 DEF EInv
<1>7. routingForm' \in [Routings -> RoutingRow \cup {NoForm}]
  BY DEF SaveRoutingForm, EInv
<1>8. EffectiveTypeOK'
  BY <1>2, <1>5, EffectiveAssumption DEF EInv, EffectiveTypeOK, SaveRoutingForm, Versions
<1>9. \A kind \in {Boms, Plans, Routings} : \A x, y \in kind \ loose' : Apart(x, y)'
  BY <1>4, <1>5 DEF EInv, Apart, Versions
<1> QED BY <1>6, <1>7, <1>8, <1>9 DEF EInv

LEMMA EffectiveStep == EInv /\ [EffectiveNext]_effectiveVars => EInv'
<1> SUFFICES ASSUME EInv, [EffectiveNext]_effectiveVars PROVE EInv'
  OBVIOUS
<1>1. ASSUME NEW v \in Boms, ApproveBom(v) \/ ActivateBom(v) \/ ObsoleteBom(v) PROVE EInv'
  <2>1. activating' \subseteq Routings /\ routingForm' = routingForm /\ loose' = loose
    BY <1>1 DEF ApproveBom, ActivateBom, ObsoleteBom, KeepRest, EInv, EffectiveTypeOK
  <2>2. CASE ApproveBom(v)
    <3>1. version' = [version EXCEPT ![v].status = "approved"]
      BY <2>2 DEF ApproveBom, SetStatus
    <3> QED BY <2>1, <3>1, StatusKeeps
  <2>3. CASE ActivateBom(v)
    <3>1. version' = [version EXCEPT ![v].status = "active"] /\ Blocking(v, Boms) = {}
      BY <2>3 DEF ActivateBom, SetStatus
    <3> QED BY <2>1, <3>1, StatusKeeps
  <2>4. CASE ObsoleteBom(v)
    <3>1. version' = [version EXCEPT ![v].status = "obsolete"]
      BY <2>4 DEF ObsoleteBom, SetStatus
    <3> QED BY <2>1, <3>1, StatusKeeps
  <2> QED BY <1>1, <2>2, <2>3, <2>4
<1>2. ASSUME NEW v \in Plans, ActivatePlan(v) PROVE EInv'
  <2>1. activating' \subseteq Routings /\ routingForm' = routingForm /\ loose' = loose
    BY <1>2 DEF ActivatePlan, KeepRest, EInv, EffectiveTypeOK
  <2>2. version' = [version EXCEPT ![v].status = "active"] /\ Blocking(v, Plans) = {}
    BY <1>2 DEF ActivatePlan, SetStatus, Blocking
  <2> QED BY <2>1, <2>2, StatusKeeps
<1>3. ASSUME NEW v \in Routings, OpenActivation(v) PROVE EInv'
  BY <1>3 DEF OpenActivation, EInv, EffectiveTypeOK, Apart
<1>4. ASSUME NEW v \in Routings, CloseActivation(v) PROVE EInv'
  <2>1. /\ version' = [version EXCEPT ![v].status = "active"]
        /\ activating' \subseteq Routings /\ routingForm' = routingForm
        /\ loose \subseteq loose' /\ (Blocking(v, Routings) = {} \/ v \in loose')
    BY <1>4 DEF CloseActivation, EInv, EffectiveTypeOK
  <2> QED BY <2>1, StatusKeeps
<1>5. ASSUME NEW v \in Routings, OpenRoutingForm(v) PROVE EInv'
  <2>1. version[v] \in RoutingRow
    BY DEF EInv, EffectiveTypeOK
  <2>2. routingForm' \in [Routings -> RoutingRow \cup {NoForm}]
    BY <1>5, <2>1 DEF OpenRoutingForm, EInv
  <2> QED BY <1>5, <2>2 DEF OpenRoutingForm, EInv, EffectiveTypeOK, Apart
<1>6. ASSUME NEW v \in Routings, NEW w \in Windows, SaveRoutingForm(v, w) PROVE EInv'
  BY <1>6, SaveKeeps
<1>7. CASE UNCHANGED effectiveVars
  BY <1>7 DEF effectiveVars, EInv, EffectiveTypeOK, Apart
<1> QED BY <1>1, <1>2, <1>3, <1>4, <1>5, <1>6, <1>7 DEF EffectiveNext

\* Of the BOMs, plans and routings of one scope one is in force at a time, but
\* for routings that were edited or activated side by side (transition_bom,
\* activate_packaging_plan, activate_routing).
THEOREM VersionsApart == EffectiveSpec => []OneInForce
<1> QED BY EffectiveStarts, EffectiveStep, InvariantTells, PTL DEF EffectiveSpec
-----------------------------------------------------------------------------
(***************************************************************************)
(* Tables keyed by what a client chose.                                    *)
(***************************************************************************)
\* U is table T with a row of a new key k, and g gives every row of U what f
\* gives the row of T.
RowPut(T, U, k, f, g) ==
  /\ IsFiniteSet(DOMAIN T) /\ k \notin DOMAIN T /\ DOMAIN U = DOMAIN T \cup {k}
  /\ \A x \in DOMAIN T : U[x] = T[x] /\ f[x] \in Int /\ g[x] = f[x]
  /\ g[k] \in Int

\* A total over the rows of one order, when a row of a new key is added.
LEMMA RowAdded ==
  ASSUME NEW T, NEW U, NEW k, NEW f, NEW g, RowPut(T, U, k, f, g), NEW o
  PROVE  SumOver(g, RowsOf(U, o)) = SumOver(f, RowsOf(T, o)) + (IF U[k].order = o THEN g[k] ELSE 0)
<1> USE DEF RowPut
<1> DEFINE R == RowsOf(T, o)
<1>1. R \subseteq DOMAIN T /\ k \notin R BY DEF RowsOf
<1>2. IsFiniteSet(R) BY <1>1, FS_Subset
<1>3. RowsOf(U, o) = IF U[k].order = o THEN R \cup {k} ELSE R BY DEF RowsOf
<1>4. \A x \in R : f[x] \in Int /\ g[x] = f[x] BY <1>1
<1>5. \A x \in R \cup {k} : g[x] \in Int BY <1>4
<1> HIDE DEF R
<1>6. SumOver(g, R) = SumOver(f, R) BY <1>2, <1>4, SumAgree
<1>7. SumOver(g, R \cup {k}) = SumOver(g, R) + g[k] BY <1>1, <1>2, <1>5, SumAdd
<1>8. SumOver(g, R) \in Int BY <1>2, <1>5, SumType
<1>9. CASE U[k].order = o BY <1>3, <1>6, <1>7, <1>9 DEF R
<1>10. CASE U[k].order # o BY <1>3, <1>6, <1>8, <1>10 DEF R
<1> QED BY <1>9, <1>10
-----------------------------------------------------------------------------
(***************************************************************************)
(* Production.  The invariant adds to OutputIsCounted that the tables of   *)
(* issues and completions are finite, and what an open edit of a           *)
(* suggestion holds.                                                       *)
(***************************************************************************)
Done(o) == prodOrder[o].status \in {"completed", "closed"}

\* What OutputIsCounted says of an order, and of one of its materials.
OutputCounted(o) ==
  /\ prodOrder[o].accepted = SumOver([k \in DOMAIN completion |-> completion[k].out.good], RowsOf(completion, o))
  /\ prodOrder[o].completed = SumOver([k \in DOMAIN completion |->
       completion[k].out.good + completion[k].out.rejected], RowsOf(completion, o))
  /\ prodOrder[o].completed <= Planned[o]
  /\ Done(o) <=> prodOrder[o].completed = Planned[o]

UseCounted(o, c) ==
  /\ usage[o][c].issued = SumOver([k \in DOMAIN issue |-> issue[k].qty[c]], RowsOf(issue, o))
  /\ usage[o][c].actual = SumOver([k \in DOMAIN completion |-> completion[k].used[c]], RowsOf(completion, o))
  /\ usage[o][c].actual <= usage[o][c].issued

LossCounted(o, c) ==
  Done(o) => usage[o][c].loss = IF usage[o][c].actual - Planned[o] * PerUnit[c] > 0
                                THEN usage[o][c].actual - Planned[o] * PerUnit[c] ELSE 0

ProductionInv ==
  /\ ProductionTypeOK
  /\ \A o \in ProdOrders : OutputCounted(o)
  /\ \A o \in ProdOrders, c \in Components : UseCounted(o, c) /\ LossCounted(o, c)
  /\ IsFiniteSet(DOMAIN issue) /\ IsFiniteSet(DOMAIN completion)
  /\ suggestionForm \in [Suggestions -> SuggestionRow \cup {Unconverted}]

LEMMA ProductionTells == ASSUME ProductionInv PROVE OutputIsCounted
<1>1. LossIsExact BY DEF ProductionInv, LossCounted, LossIsExact, Done
<1>2. \A o \in ProdOrders : OutputCounted(o) BY DEF ProductionInv
<1>3. \A o \in ProdOrders, c \in Components : UseCounted(o, c) BY DEF ProductionInv
<1> QED BY <1>1, <1>2, <1>3 DEF ProductionInv, OutputIsCounted, OutputCounted, UseCounted, Done

LEMMA ProductionStarts == ASSUME ProductionInit PROVE ProductionInv
<1> USE DEF ProductionInit
<1>1. \A o \in ProdOrders : Planned[o] \in Nat \ {0} BY ProductionAssumption
<1>2. DOMAIN issue = {} /\ DOMAIN completion = {} OBVIOUS
<1>3. ProductionTypeOK
  <2>1. NoOrder \in OrderRow BY DEF NoOrder, OrderRow, ProdStatus
  <2>2. NoUsage \in UsageRow BY DEF NoUsage, UsageRow
  <2>4. [status |-> "open", order |-> Unconverted] \in SuggestionRow BY DEF SuggestionRow
  <2> QED BY <1>2, <2>1, <2>2, <2>4 DEF ProductionTypeOK
<1>4. \A o : RowsOf(issue, o) = {} /\ RowsOf(completion, o) = {} BY <1>2 DEF RowsOf
<1>5. ASSUME NEW o \in ProdOrders PROVE OutputCounted(o) /\ ~Done(o)
  <2> DEFINE f == [k \in DOMAIN completion |-> completion[k].out.good]
             g == [k \in DOMAIN completion |-> completion[k].out.good + completion[k].out.rejected]
  <2>1. SumOver(f, {}) = 0 /\ SumOver(g, {}) = 0 BY SumEmpty, Zenon
  <2> HIDE DEF f, g
  <2>2. /\ SumOver(f, RowsOf(completion, o)) = 0 /\ SumOver(g, RowsOf(completion, o)) = 0
        /\ prodOrder[o].accepted = 0 /\ prodOrder[o].completed = 0 /\ prodOrder[o].status = "none"
    BY <1>4, <2>1 DEF NoOrder
  <2>3. ~Done(o) BY <2>2 DEF Done
  <2> QED BY <1>1, <2>2, <2>3 DEF OutputCounted, f, g
<1>6. ASSUME NEW o \in ProdOrders, NEW c \in Components PROVE UseCounted(o, c)
  <2> DEFINE f == [k \in DOMAIN issue |-> issue[k].qty[c]]
             g == [k \in DOMAIN completion |-> completion[k].used[c]]
  <2>1. SumOver(f, {}) = 0 /\ SumOver(g, {}) = 0 BY SumEmpty, Zenon
  <2> HIDE DEF f, g
  <2>2. /\ SumOver(f, RowsOf(issue, o)) = 0 /\ SumOver(g, RowsOf(completion, o)) = 0
        /\ usage[o][c].issued = 0 /\ usage[o][c].actual = 0
    BY <1>4, <2>1 DEF NoUsage
  <2> QED BY <2>2 DEF UseCounted, f, g
<1> QED BY <1>2, <1>3, <1>5, <1>6, FS_EmptySet DEF ProductionInv, LossCounted

\* Orders move and suggestions change: what was issued and made stands.
LEMMA OrdersMove ==
  ASSUME ProductionInv, UNCHANGED <<usage, issue, completion>>,
         prodOrder' \in [ProdOrders -> OrderRow],
         \A o \in ProdOrders : /\ prodOrder'[o].completed = prodOrder[o].completed
                               /\ prodOrder'[o].accepted = prodOrder[o].accepted
                               /\ Done(o)' <=> Done(o),
         suggestion' \in [Suggestions -> SuggestionRow],
         suggestionForm' \in [Suggestions -> SuggestionRow \cup {Unconverted}]
  PROVE  ProductionInv'
<1>1. ProductionTypeOK' BY DEF ProductionInv, ProductionTypeOK
<1>2. ASSUME NEW o \in ProdOrders PROVE OutputCounted(o)' BY DEF ProductionInv, OutputCounted
<1>3. ASSUME NEW o \in ProdOrders, NEW c \in Components PROVE UseCounted(o, c)' /\ LossCounted(o, c)'
  BY DEF ProductionInv, UseCounted, LossCounted
<1> QED BY <1>1, <1>2, <1>3 DEF ProductionInv

\* The row of an order that is saved with the next version.
LEMMA OrderSaved ==
  ASSUME ProductionInv, NEW o \in ProdOrders, NEW row \in OrderRow, SetOrder(o, row)
  PROVE  /\ prodOrder' \in [ProdOrders -> OrderRow]
         /\ prodOrder'[o].completed = row.completed /\ prodOrder'[o].accepted = row.accepted
         /\ prodOrder'[o].status = row.status
         /\ prodOrder'[o].rejected = row.rejected /\ prodOrder'[o].source = row.source
         /\ \A x \in ProdOrders \ {o} : prodOrder'[x] = prodOrder[x]
<1> DEFINE new == [row EXCEPT !.version = @ + 1]
<1>1. /\ new \in OrderRow /\ new.completed = row.completed /\ new.accepted = row.accepted
      /\ new.status = row.status /\ new.rejected = row.rejected /\ new.source = row.source
  BY DEF OrderRow
<1>2. prodOrder' = [prodOrder EXCEPT ![o] = new] /\ prodOrder \in [ProdOrders -> OrderRow]
  BY DEF SetOrder, ProductionInv, ProductionTypeOK
<1> HIDE DEF new
<1> QED BY <1>1, <1>2

\* An order with another status.
LEMMA StatusRow ==
  ASSUME NEW r \in OrderRow, NEW x \in ProdStatus
  PROVE  LET n == [r EXCEPT !.status = x] IN
         /\ n \in OrderRow /\ n.completed = r.completed /\ n.accepted = r.accepted /\ n.status = x
         /\ n.rejected = r.rejected /\ n.source = r.source
BY DEF OrderRow

LEMMA NewOrderStep ==
  ASSUME ProductionInv, NEW o \in ProdOrders, NEW source \in Suggestions \cup {Unconverted},
         NewOrder(o, source)
  PROVE  /\ prodOrder' \in [ProdOrders -> OrderRow]
         /\ \A x \in ProdOrders : /\ prodOrder'[x].completed = prodOrder[x].completed
                                  /\ prodOrder'[x].accepted = prodOrder[x].accepted
                                  /\ Done(x)' <=> Done(x)
         /\ prodOrder'[o].source = source
         /\ \A x \in ProdOrders \ {o} : prodOrder'[x] = prodOrder[x]
<1>1. prodOrder \in [ProdOrders -> OrderRow] BY DEF ProductionInv, ProductionTypeOK
<1> DEFINE new == [[prodOrder[o] EXCEPT !.status = "draft"] EXCEPT !.source = source]
<1>2. \A r \in OrderRow : LET n == [[r EXCEPT !.status = "draft"] EXCEPT !.source = source] IN
        n \in OrderRow /\ n.completed = r.completed /\ n.accepted = r.accepted /\ n.status = "draft"
        /\ n.source = source
  BY DEF OrderRow, ProdStatus
<1>3. /\ new \in OrderRow /\ new.completed = prodOrder[o].completed /\ new.accepted = prodOrder[o].accepted
      /\ new.status = "draft" /\ new.source = source
  BY <1>1, <1>2
<1>4. prodOrder' = [prodOrder EXCEPT ![o] = new] /\ prodOrder[o].status = "none"
  BY <1>1 DEF NewOrder
<1> HIDE DEF new
<1>5. prodOrder'[o] = new /\ \A x \in ProdOrders \ {o} : prodOrder'[x] = prodOrder[x]
  BY <1>1, <1>4
<1>6. prodOrder' \in [ProdOrders -> OrderRow] BY <1>1, <1>3, <1>4
<1> QED BY <1>3, <1>4, <1>5, <1>6 DEF Done

LEMMA MoveOrderStep ==
  ASSUME ProductionInv, NEW o \in ProdOrders, NEW action \in {"approve", "release", "close"}, NEW v,
         MoveOrder(o, action, v)
  PROVE  ProductionInv'
<1> DEFINE row == prodOrder[o]
           to == ProdTarget(o, action)
<1>1. row \in OrderRow BY DEF ProductionInv, ProductionTypeOK
<1>2. \/ row.status \in {"draft", "approved"} /\ to \in {"approved", "released"}
      \/ row.status = "completed" /\ to = "closed"
  BY DEF MoveOrder, ProdTarget
<1>3. SetOrder(o, [row EXCEPT !.status = to]) /\ to \in ProdStatus BY <1>2 DEF MoveOrder, ProdStatus
<1> HIDE DEF row, to
<1>4. /\ [row EXCEPT !.status = to] \in OrderRow /\ [row EXCEPT !.status = to].completed = row.completed
      /\ [row EXCEPT !.status = to].accepted = row.accepted /\ [row EXCEPT !.status = to].status = to
  BY <1>1, <1>3, StatusRow
<1>5. /\ prodOrder' \in [ProdOrders -> OrderRow]
      /\ prodOrder'[o].completed = row.completed /\ prodOrder'[o].accepted = row.accepted
      /\ prodOrder'[o].status = to
      /\ \A x \in ProdOrders \ {o} : prodOrder'[x] = prodOrder[x]
  BY <1>3, <1>4, OrderSaved
<1>6. \A x \in ProdOrders : /\ prodOrder'[x].completed = prodOrder[x].completed
                            /\ prodOrder'[x].accepted = prodOrder[x].accepted
                            /\ Done(x)' <=> Done(x)
  <2>1. ASSUME NEW x \in ProdOrders, x # o
        PROVE  /\ prodOrder'[x].completed = prodOrder[x].completed
               /\ prodOrder'[x].accepted = prodOrder[x].accepted /\ (Done(x)' <=> Done(x))
    BY <1>5, <2>1 DEF Done
  <2>2. /\ prodOrder'[o].completed = prodOrder[o].completed
        /\ prodOrder'[o].accepted = prodOrder[o].accepted /\ (Done(o)' <=> Done(o))
    BY <1>2, <1>5 DEF Done, row
  <2> QED BY <2>1, <2>2
<1>7. UNCHANGED <<usage, issue, completion, suggestion, suggestionForm>>
  BY DEF MoveOrder, suggestionVars
<1> QED BY <1>5, <1>6, <1>7, OrdersMove DEF ProductionInv, ProductionTypeOK

LEMMA SuggestionStep ==
  ASSUME ProductionInv, NEW s \in Suggestions,
         OpenSuggestionForm(s) \/ SaveSuggestionForm(s) \/ \E o \in ProdOrders : Convert(s, o)
  PROVE  ProductionInv'
<1>1. suggestion \in [Suggestions -> SuggestionRow] BY DEF ProductionInv, ProductionTypeOK
<1>2. CASE OpenSuggestionForm(s)
  <2>1. suggestionForm' \in [Suggestions -> SuggestionRow \cup {Unconverted}]
    BY <1>1, <1>2 DEF OpenSuggestionForm, ProductionInv
  <2>2. UNCHANGED <<prodOrder, usage, issue, completion, suggestion>>
    BY <1>2 DEF OpenSuggestionForm
  <2> QED BY <2>1, <2>2, OrdersMove DEF ProductionInv, ProductionTypeOK, Done
<1>3. CASE SaveSuggestionForm(s)
  <2>1. /\ suggestionForm' \in [Suggestions -> SuggestionRow \cup {Unconverted}]
        /\ suggestion' \in [Suggestions -> SuggestionRow]
    BY <1>1, <1>3 DEF SaveSuggestionForm, ProductionInv
  <2>2. UNCHANGED <<prodOrder, usage, issue, completion>>
    BY <1>3 DEF SaveSuggestionForm
  <2> QED BY <2>1, <2>2, OrdersMove DEF ProductionInv, ProductionTypeOK, Done
<1>4. ASSUME NEW o \in ProdOrders, Convert(s, o) PROVE ProductionInv'
  <2>1. NewOrder(o, s) /\ s \in Suggestions \cup {Unconverted} BY <1>4 DEF Convert
  <2>2. [status |-> "converted", order |-> o] \in SuggestionRow BY DEF SuggestionRow
  <2>3. suggestion' \in [Suggestions -> SuggestionRow] BY <1>1, <1>4, <2>2 DEF Convert
  <2>4. UNCHANGED <<usage, issue, completion, suggestionForm>> BY <1>4 DEF Convert
  <2>5. /\ prodOrder' \in [ProdOrders -> OrderRow]
        /\ \A x \in ProdOrders : /\ prodOrder'[x].completed = prodOrder[x].completed
                                 /\ prodOrder'[x].accepted = prodOrder[x].accepted
                                 /\ Done(x)' <=> Done(x)
    BY <2>1, NewOrderStep
  <2> QED BY <2>3, <2>4, <2>5, OrdersMove DEF ProductionInv, ProductionTypeOK
<1> QED BY <1>2, <1>3, <1>4
-----------------------------------------------------------------------------
LEMMA IssueStep ==
  ASSUME ProductionInv, NEW o \in ProdOrders, NEW k \in ProdKeys, NEW q \in IssueChoices,
         IssueMaterials(o, k, q)
  PROVE  ProductionInv'
<1> DEFINE row == prodOrder[o]
           new == [order |-> o, qty |-> q]
           U(c) == IF q[c] = 0 THEN usage[o][c] ELSE Issued(usage[o][c], o, c, q[c])
<1>1. /\ row \in OrderRow /\ \A x \in ProdOrders, c \in Components : usage[x][c] \in UsageRow
      /\ usage \in [ProdOrders -> [Components -> UsageRow]]
  BY DEF ProductionInv, ProductionTypeOK
<1>2. q \in [Components -> Nat] /\ new \in IssueRow /\ new.order = o /\ new.qty = q
  BY ProductionAssumption DEF Components, IssueRow
<1>3. /\ k \notin DOMAIN issue /\ issue' = With(issue, k, new)
      /\ row.status \in {"released", "in_progress", "partially_completed"}
      /\ SetOrder(o, [row EXCEPT !.status = "in_progress"])
      /\ usage' = [usage EXCEPT ![o] = [c \in Components |-> U(c)]]
      /\ UNCHANGED <<completion, suggestion, suggestionForm>>
  BY DEF IssueMaterials, Posted, suggestionVars
<1>4. ASSUME NEW c \in Components
      PROVE  /\ U(c) \in UsageRow /\ U(c).issued = usage[o][c].issued + q[c]
             /\ U(c).actual = usage[o][c].actual /\ U(c).loss = usage[o][c].loss
  <2>1. Planned[o] * PerUnit[c] \in Nat
    <3>1. Planned[o] \in Nat /\ PerUnit[c] \in Nat BY ProductionAssumption DEF Components
    <3> QED BY <3>1
  <2>2. usage[o][c] \in UsageRow /\ q[c] \in Nat BY <1>1, <1>2
  <2> DEFINE u == usage[o][c]
             i == Issued(u, o, c, q[c])
  <2>3. /\ i \in UsageRow /\ i.issued = u.issued + q[c] /\ i.actual = u.actual /\ i.loss = u.loss
    BY <2>1, <2>2 DEF Issued, UsageRow
  <2>4. u.issued + 0 = u.issued BY <2>2 DEF UsageRow
  <2> HIDE DEF i
  <2> QED BY <2>2, <2>3, <2>4 DEF i
<1> DEFINE n == [row EXCEPT !.status = "in_progress"]
<1>5. n \in OrderRow /\ n.completed = row.completed /\ n.accepted = row.accepted /\ n.status = "in_progress"
  BY <1>1, StatusRow DEF ProdStatus
<1>6. SetOrder(o, n) BY <1>3
<1> HIDE DEF n, new, U
<1>7. /\ prodOrder' \in [ProdOrders -> OrderRow]
      /\ prodOrder'[o].completed = row.completed /\ prodOrder'[o].accepted = row.accepted
      /\ prodOrder'[o].status = "in_progress"
      /\ \A x \in ProdOrders \ {o} : prodOrder'[x] = prodOrder[x]
  BY <1>5, <1>6, OrderSaved
<1>8. \A x \in ProdOrders : /\ prodOrder'[x].completed = prodOrder[x].completed
                            /\ prodOrder'[x].accepted = prodOrder[x].accepted /\ (Done(x)' <=> Done(x))
  <2>1. ASSUME NEW x \in ProdOrders, x # o
        PROVE  /\ prodOrder'[x].completed = prodOrder[x].completed
               /\ prodOrder'[x].accepted = prodOrder[x].accepted /\ (Done(x)' <=> Done(x))
    BY <1>7, <2>1 DEF Done
  <2>2. /\ prodOrder'[o].completed = prodOrder[o].completed
        /\ prodOrder'[o].accepted = prodOrder[o].accepted /\ ~Done(o)' /\ ~Done(o)
    BY <1>3, <1>7 DEF Done
  <2> QED BY <2>1, <2>2
<1>9. /\ usage' \in [ProdOrders -> [Components -> UsageRow]]
      /\ \A c \in Components : usage'[o][c] = U(c)
      /\ \A x \in ProdOrders \ {o} : usage'[x] = usage[x]
  BY <1>1, <1>3, <1>4
<1>20. DOMAIN issue' = DOMAIN issue \cup {k} /\ issue'[k] = new
  BY <1>3 DEF With
<1>10. IsFiniteSet(DOMAIN issue')
  <2>1. IsFiniteSet(DOMAIN issue) BY DEF ProductionInv
  <2>2. IsFiniteSet(DOMAIN issue \cup {k}) BY <2>1, FS_AddElement
  <2> QED BY <1>20, <2>2
<1>21. \A x \in DOMAIN issue : issue'[x] = issue[x]
  BY <1>3 DEF With, Posted
<1>22. issue'[k].order = o BY <1>2, <1>20
<1>23. k \notin DOMAIN issue BY <1>3 DEF Posted
<1>24. DOMAIN issue' = DOMAIN issue \cup {k} BY <1>20
<1>11. ProductionTypeOK' BY <1>2, <1>3, <1>7, <1>9, <1>10, <1>20, <1>21 DEF ProductionInv, ProductionTypeOK
<1>12. ASSUME NEW x \in ProdOrders PROVE OutputCounted(x)'
  <2>1. OutputCounted(x) BY DEF ProductionInv
  <2> QED BY <1>3, <1>8, <2>1 DEF OutputCounted
<1>13. ASSUME NEW x \in ProdOrders, NEW c \in Components PROVE UseCounted(x, c)'
  <2>1. UseCounted(x, c) BY DEF ProductionInv
  <2> DEFINE f == [y \in DOMAIN issue |-> issue[y].qty[c]]
             g == [y \in DOMAIN issue' |-> issue'[y].qty[c]]
  <2>2. \A y \in DOMAIN issue : f[y] \in Int /\ g[y] = f[y]
    <3>1. \A y \in DOMAIN issue : issue[y] \in IssueRow BY DEF ProductionInv, ProductionTypeOK
    <3> QED BY <1>10, <1>20, <1>21, <3>1 DEF IssueRow
  <2>3. g[k] = q[c] /\ g[k] \in Int BY <1>2, <1>10, <1>20, <1>21
  <2>4. IsFiniteSet(DOMAIN issue) BY DEF ProductionInv
  <2>9. g[k] \in Int BY <2>3
  <2> HIDE DEF f, g
  <2>5. SumOver(g, RowsOf(issue', x))
          = SumOver(f, RowsOf(issue, x)) + (IF x = o THEN g[k] ELSE 0)
    <3>1. RowPut(issue, issue', k, f, g) BY <2>2, <2>9, <2>4, <1>21, <1>23, <1>24 DEF RowPut
    <3> QED BY <3>1, <1>22, RowAdded
  <2>6. SumOver(g, RowsOf(issue', x)) = usage[x][c].issued + (IF x = o THEN q[c] ELSE 0)
    BY <1>2, <1>3, <2>1, <2>3, <2>5 DEF UseCounted, f
  <2>7. usage'[x][c].issued = usage[x][c].issued + (IF x = o THEN q[c] ELSE 0) /\
        usage'[x][c].actual = usage[x][c].actual /\
        usage[x][c].issued \in Nat /\ usage[x][c].actual \in Nat
    <3>1. usage[x][c].issued \in Nat /\ usage[x][c].actual \in Nat BY <1>1 DEF UsageRow
    <3> QED BY <1>4, <1>9, <3>1
  <2>8. usage'[x][c].actual <= usage'[x][c].issued
    <3>1. q[c] \in Nat /\ usage[x][c].actual <= usage[x][c].issued BY <1>2, <2>1 DEF UseCounted
    <3> QED BY <2>7, <3>1
  <2> QED BY <1>3, <2>1, <2>6, <2>7, <2>8 DEF UseCounted, g
<1>14. ASSUME NEW x \in ProdOrders, NEW c \in Components PROVE LossCounted(x, c)'
  <2>1. LossCounted(x, c) BY DEF ProductionInv
  <2>2. x # o \/ ~Done(x)' BY <1>7 DEF Done
  <2> QED BY <1>8, <1>9, <2>1, <2>2 DEF LossCounted
<1> QED BY <1>3, <1>10, <1>20, <1>21, <1>11, <1>12, <1>13, <1>14 DEF ProductionInv

LEMMA CompleteStep ==
  ASSUME ProductionInv, NEW o \in ProdOrders, NEW k \in ProdKeys, NEW out \in OutputChoices,
         NEW used \in UseChoices, Complete(o, k, out, used)
  PROVE  ProductionInv'
<1> DEFINE row == prodOrder[o]
           made == row.completed + out.good + out.rejected
           new == [order |-> o, out |-> out, used |-> used]
           U(c) == Consumed(usage[o][c], c, used[c], made)
           to == OutputStatus(o, made, out.good)
           n == [row EXCEPT !.completed = made, !.accepted = @ + out.good,
                            !.rejected = @ + out.rejected, !.status = to]
<1>1. /\ row \in OrderRow /\ \A x \in ProdOrders, c \in Components : usage[x][c] \in UsageRow
      /\ usage \in [ProdOrders -> [Components -> UsageRow]]
  BY DEF ProductionInv, ProductionTypeOK
<1>2. /\ used \in [Components -> Nat] /\ out \in [good : Nat, rejected : Nat]
      /\ out.good \in Nat /\ out.rejected \in Nat
      /\ new \in CompletionRow /\ new.order = o /\ new.out = out /\ new.used = used
  BY ProductionAssumption DEF Components, CompletionRow
<1>3. /\ k \notin DOMAIN completion /\ completion' = With(completion, k, new)
      /\ row.status \in {"in_progress", "partially_completed"} /\ made <= Planned[o]
      /\ \A c \in Components : usage[o][c].actual + used[c] <= usage[o][c].issued
      /\ SetOrder(o, n)
      /\ usage' = [usage EXCEPT ![o] = [c \in Components |-> U(c)]]
      /\ UNCHANGED <<issue, suggestion, suggestionForm>>
  BY DEF Complete, Posted, suggestionVars
<1>4. made \in Nat /\ row.accepted \in Nat /\ row.rejected \in Nat /\ row.completed \in Nat
  BY <1>1, <1>2 DEF OrderRow
<1>5. to \in ProdStatus /\ (to \in {"completed", "closed"} <=> made = Planned[o])
  BY DEF OutputStatus, ProdStatus
<1>6. /\ n \in OrderRow /\ n.completed = made /\ n.accepted = row.accepted + out.good /\ n.status = to
  <2> HIDE DEF made, to
  <2>1. /\ row.accepted + out.good \in Nat /\ row.rejected + out.rejected \in Nat BY <1>2, <1>4
  <2> HIDE DEF row
  <2> QED BY <1>1, <1>4, <1>5, <2>1 DEF OrderRow
<1>7. ASSUME NEW c \in Components
      PROVE  /\ U(c) \in UsageRow /\ U(c).issued = usage[o][c].issued
             /\ U(c).actual = usage[o][c].actual + used[c]
             /\ U(c).loss = IF (usage[o][c].actual + used[c]) - made * PerUnit[c] > 0
                            THEN (usage[o][c].actual + used[c]) - made * PerUnit[c] ELSE 0
  <2> DEFINE standard == made * PerUnit[c]
             u == usage[o][c]
  <2>1. standard \in Nat
    <3>1. PerUnit[c] \in Nat BY ProductionAssumption DEF Components
    <3> HIDE DEF made
    <3> QED BY <1>4, <3>1
  <2>2. u \in UsageRow /\ used[c] \in Nat BY <1>1, <1>2
  <2>3. U(c) = [seen |-> u.seen, issued |-> u.issued, actual |-> u.actual + used[c], standard |-> standard,
                loss |-> IF u.actual + used[c] > standard THEN (u.actual + used[c]) - standard ELSE 0]
    BY DEF Consumed
  <2>4. u.actual \in Nat /\ u.issued \in Nat /\ u.seen \in BOOLEAN BY <2>2 DEF UsageRow
  <2> HIDE DEF U, u, standard
  <2>5. /\ u.actual + used[c] \in Nat
        /\ (IF u.actual + used[c] > standard THEN (u.actual + used[c]) - standard ELSE 0) \in Nat
        /\ u.actual + used[c] > standard <=> (u.actual + used[c]) - standard > 0
    BY <2>1, <2>2, <2>4
  <2>9. ASSUME NEW s \in BOOLEAN, NEW i \in Nat, NEW a \in Nat, NEW d \in Nat, NEW l \in Nat
        PROVE  [seen |-> s, issued |-> i, actual |-> a, standard |-> d, loss |-> l] \in UsageRow
    BY ONLY <2>9 DEF UsageRow
  <2>6. U(c) \in UsageRow BY ONLY <2>1, <2>3, <2>4, <2>5, <2>9
  <2>7. /\ U(c).issued = u.issued /\ U(c).actual = u.actual + used[c]
        /\ U(c).loss = IF u.actual + used[c] > standard THEN (u.actual + used[c]) - standard ELSE 0
    BY <2>3
  <2>8. U(c).loss = IF (u.actual + used[c]) - standard > 0 THEN (u.actual + used[c]) - standard ELSE 0
    BY <2>5, <2>7
  <2> QED BY <2>6, <2>7, <2>8 DEF u, standard
<1> HIDE DEF n, new, U, made, to
<1>8. /\ prodOrder' \in [ProdOrders -> OrderRow]
      /\ prodOrder'[o].completed = made /\ prodOrder'[o].accepted = row.accepted + out.good
      /\ prodOrder'[o].status = to
      /\ \A x \in ProdOrders \ {o} : prodOrder'[x] = prodOrder[x]
  BY <1>3, <1>6, OrderSaved
<1>9. /\ usage' \in [ProdOrders -> [Components -> UsageRow]]
      /\ \A c \in Components : usage'[o][c] = U(c)
      /\ \A x \in ProdOrders \ {o} : usage'[x] = usage[x]
  BY <1>1, <1>3, <1>7
<1>20. DOMAIN completion' = DOMAIN completion \cup {k} /\ completion'[k] = new
  BY <1>3 DEF With
<1>10. IsFiniteSet(DOMAIN completion')
  <2>1. IsFiniteSet(DOMAIN completion) BY DEF ProductionInv
  <2>2. IsFiniteSet(DOMAIN completion \cup {k}) BY <2>1, FS_AddElement
  <2> QED BY <1>20, <2>2
<1>21. \A x \in DOMAIN completion : completion'[x] = completion[x]
  BY <1>3 DEF With, Posted
<1>22. completion'[k].order = o BY <1>2, <1>20
<1>23. k \notin DOMAIN completion BY <1>3 DEF Posted
<1>24. DOMAIN completion' = DOMAIN completion \cup {k} BY <1>20
<1>11. ProductionTypeOK' BY <1>2, <1>3, <1>8, <1>9, <1>10, <1>20, <1>21 DEF ProductionInv, ProductionTypeOK
<1>12. \A y \in DOMAIN completion :
         /\ completion[y].out.good \in Nat /\ completion[y].out.rejected \in Nat
         /\ completion[y].used \in [Components -> Nat]
  <2>1. \A y \in DOMAIN completion : completion[y] \in CompletionRow BY DEF ProductionInv, ProductionTypeOK
  <2> QED BY <2>1 DEF CompletionRow
<1>13. IsFiniteSet(DOMAIN completion) BY DEF ProductionInv
<1>14. ASSUME NEW x \in ProdOrders PROVE OutputCounted(x)'
  <2>1. OutputCounted(x) BY DEF ProductionInv
  <2> DEFINE f == [y \in DOMAIN completion |-> completion[y].out.good]
             g == [y \in DOMAIN completion' |-> completion'[y].out.good]
             h == [y \in DOMAIN completion |-> completion[y].out.good + completion[y].out.rejected]
             i == [y \in DOMAIN completion' |-> completion'[y].out.good + completion'[y].out.rejected]
  <2>2. \A y \in DOMAIN completion : f[y] \in Int /\ g[y] = f[y]
    BY <1>10, <1>20, <1>21, <1>12
  <2>3. \A y \in DOMAIN completion : h[y] \in Int /\ i[y] = h[y]
    BY <1>10, <1>20, <1>21, <1>12
  <2>4. /\ g[k] = out.good /\ g[k] \in Int /\ i[k] = out.good + out.rejected /\ i[k] \in Int
    BY <1>2, <1>10, <1>20, <1>21
  <2> HIDE DEF f, g, h, i
  <2>5. SumOver(g, RowsOf(completion', x))
          = SumOver(f, RowsOf(completion, x)) + (IF x = o THEN g[k] ELSE 0)
    <3>1. g[k] \in Int BY <2>4
    <3>2. RowPut(completion, completion', k, f, g)
      BY <1>13, <2>2, <3>1, <1>21, <1>23, <1>24 DEF RowPut
    <3> QED BY <3>2, <1>22, RowAdded
  <2>6. SumOver(i, RowsOf(completion', x))
          = SumOver(h, RowsOf(completion, x)) + (IF x = o THEN i[k] ELSE 0)
    <3>1. i[k] \in Int BY <2>4
    <3>2. RowPut(completion, completion', k, h, i)
      BY <1>13, <2>3, <3>1, <1>21, <1>23, <1>24 DEF RowPut
    <3> QED BY <3>2, <1>22, RowAdded
  <2>7. /\ SumOver(g, RowsOf(completion', x)) = prodOrder[x].accepted + (IF x = o THEN out.good ELSE 0)
        /\ SumOver(i, RowsOf(completion', x))
             = prodOrder[x].completed + (IF x = o THEN out.good + out.rejected ELSE 0)
    BY <1>2, <1>3, <2>1, <2>4, <2>5, <2>6 DEF OutputCounted, f, h
  <2>8. CASE x = o
    <3>1. /\ prodOrder'[o].accepted = SumOver(g, RowsOf(completion', o))
          /\ prodOrder'[o].completed = SumOver(i, RowsOf(completion', o))
      BY <1>2, <1>4, <1>8, <2>7, <2>8 DEF made
    <3>2. prodOrder'[o].completed <= Planned[o] /\ (Done(o)' <=> prodOrder'[o].completed = Planned[o])
      BY <1>3, <1>5, <1>8 DEF Done
    <3> QED BY <2>8, <3>1, <3>2 DEF OutputCounted, g, i
  <2>9. CASE x # o
    <3>1. prodOrder[x].accepted \in Nat /\ prodOrder[x].completed \in Nat
      <4>1. prodOrder[x] \in OrderRow BY DEF ProductionInv, ProductionTypeOK
      <4> QED BY <4>1 DEF OrderRow
    <3>2. /\ prodOrder'[x].accepted = SumOver(g, RowsOf(completion', x))
          /\ prodOrder'[x].completed = SumOver(i, RowsOf(completion', x))
      BY <1>8, <2>7, <2>9, <3>1
    <3>3. prodOrder'[x].completed <= Planned[x] /\ (Done(x)' <=> prodOrder'[x].completed = Planned[x])
      BY <1>8, <2>1, <2>9 DEF Done, OutputCounted
    <3> QED BY <3>2, <3>3 DEF OutputCounted, g, i
  <2> QED BY <2>8, <2>9
<1>15. ASSUME NEW x \in ProdOrders, NEW c \in Components PROVE UseCounted(x, c)'
  <2>1. UseCounted(x, c) BY DEF ProductionInv
  <2> DEFINE f == [y \in DOMAIN completion |-> completion[y].used[c]]
             g == [y \in DOMAIN completion' |-> completion'[y].used[c]]
  <2>2. \A y \in DOMAIN completion : f[y] \in Int /\ g[y] = f[y] BY <1>10, <1>20, <1>21, <1>12
  <2>3. g[k] = used[c] /\ g[k] \in Int BY <1>2, <1>10, <1>20, <1>21
  <2> HIDE DEF f, g
  <2>5. SumOver(g, RowsOf(completion', x))
          = SumOver(f, RowsOf(completion, x)) + (IF x = o THEN g[k] ELSE 0)
    <3>1. g[k] \in Int BY <2>3
    <3>2. RowPut(completion, completion', k, f, g)
      BY <1>13, <2>2, <3>1, <1>21, <1>23, <1>24 DEF RowPut
    <3> QED BY <3>2, <1>22, RowAdded
  <2>6. SumOver(g, RowsOf(completion', x)) = usage[x][c].actual + (IF x = o THEN used[c] ELSE 0)
    BY <1>2, <1>3, <2>1, <2>3, <2>5 DEF UseCounted, f
  <2>7. /\ usage'[x][c].actual = usage[x][c].actual + (IF x = o THEN used[c] ELSE 0)
        /\ usage'[x][c].issued = usage[x][c].issued
    <3>1. usage[x][c].issued \in Nat /\ usage[x][c].actual \in Nat BY <1>1 DEF UsageRow
    <3> QED BY <1>7, <1>9, <3>1
  <2>8. usage'[x][c].actual <= usage'[x][c].issued
    <3>1. usage[x][c].actual <= usage[x][c].issued /\ usage[x][c].actual \in Nat
      BY <1>1, <2>1 DEF UseCounted, UsageRow
    <3>2. usage[o][c].actual + used[c] <= usage[o][c].issued BY <1>3
    <3> QED BY <2>7, <3>1, <3>2
  <2> QED BY <1>3, <2>1, <2>6, <2>7, <2>8 DEF UseCounted, g
<1>16. ASSUME NEW x \in ProdOrders, NEW c \in Components PROVE LossCounted(x, c)'
  <2>1. CASE x # o
    <3>1. LossCounted(x, c) BY DEF ProductionInv
    <3> QED BY <1>8, <1>9, <2>1, <3>1 DEF LossCounted, Done
  <2>2. CASE x = o
    <3>1. Done(o)' => made = Planned[o] BY <1>5, <1>8 DEF Done
    <3> DEFINE Loss(m, a) == IF a - m * PerUnit[c] > 0 THEN a - m * PerUnit[c] ELSE 0
    <3>2. U(c).actual = usage[o][c].actual + used[c] /\ U(c).loss = Loss(made, usage[o][c].actual + used[c])
      BY ONLY <1>7, Zenon
    <3>3. usage'[o][c] = U(c) BY <1>9
    <3> HIDE DEF Loss
    <3>4. Done(o)' => usage'[o][c].loss = Loss(Planned[o], usage'[o][c].actual)
      BY ONLY <3>1, <3>2, <3>3, Zenon
    <3> QED BY <2>2, <3>4 DEF LossCounted, Loss
  <2> QED BY <2>1, <2>2
<1> QED BY <1>3, <1>10, <1>20, <1>21, <1>11, <1>14, <1>15, <1>16 DEF ProductionInv

LEMMA ProductionStep ==
  ASSUME ProductionInv, [SupplyNext]_supplyVars PROVE ProductionInv'
<1>1. CASE WorkNext
  <2>1. ASSUME NEW o \in ProdOrders, PlanOrder(o) PROVE ProductionInv'
    <3>1. NewOrder(o, Unconverted) BY <2>1 DEF PlanOrder
    <3>2. UNCHANGED <<usage, issue, completion, suggestion, suggestionForm>>
      BY <2>1 DEF PlanOrder, suggestionVars
    <3>3. /\ prodOrder' \in [ProdOrders -> OrderRow]
          /\ \A x \in ProdOrders : /\ prodOrder'[x].completed = prodOrder[x].completed
                                   /\ prodOrder'[x].accepted = prodOrder[x].accepted
                                   /\ Done(x)' <=> Done(x)
      BY <3>1, NewOrderStep
    <3> QED BY <3>2, <3>3, OrdersMove DEF ProductionInv, ProductionTypeOK
  <2> QED BY <1>1, <2>1, MoveOrderStep, IssueStep, CompleteStep DEF WorkNext
<1>3. CASE SuggestionNext BY <1>3, SuggestionStep DEF SuggestionNext
<1>4. CASE UNCHANGED ownProduction
  <2>1. UNCHANGED <<prodOrder, usage, issue, completion, suggestion, suggestionForm>>
    BY <1>4 DEF ownProduction, suggestionVars
  <2> QED BY <2>1, OrdersMove DEF ProductionInv, ProductionTypeOK, Done
<1> QED BY <1>1, <1>3, <1>4, PartMoves

\* An order's output is what its completions add up to, never more than planned,
\* it is complete exactly when nothing is left, and of each material no more is
\* used up than was issued (complete_production, issue_production_materials).
THEOREM OutputIsCountedAlways == SupplySpec => []OutputIsCounted
<1>1. SupplyInit => ProductionInv BY ProductionStarts DEF SupplyInit
<1> QED BY <1>1, ProductionStep, ProductionTells, PTL DEF SupplySpec
-----------------------------------------------------------------------------
(***************************************************************************)
(* Requisitions and suggestions.  NeedsAreCounted needs what comes before  *)
(* it: no RFQ was issued on a requisition that is not sourced or ordered   *)
(* yet; an RFQ that is issued or awarded, or was read as such by an edit,  *)
(* was issued on a requisition; the outbox has every award, those that an  *)
(* edit took back or still holds included; and an order that was not made  *)
(* yet has no source.                                                      *)
(***************************************************************************)
SourcedOnce(q) ==
  /\ Len(sourced[q]) <= 1
  /\ requisition[q] \notin {"sourcing", "ordered"} => sourced[q] = <<>>

IssuedOnce(f) == \E q \in Requisitions : sourced[q] = <<f>>
AwardsCounted(f) ==
  /\ awards[f] = IF f \in awardEvents THEN 1 ELSE 0
  /\ (rfq[f].status = "awarded" \/ (rfqForm[f] # Nobody /\ rfqForm[f].status = "awarded"))
       => f \in awardEvents
  /\ (awards[f] > 0 \/ rfq[f].status # "draft" \/ (rfqForm[f] # Nobody /\ rfqForm[f].status # "draft"))
       => IssuedOnce(f)

SourcingInv ==
  /\ SourcingTypeOK
  /\ rfqForm \in [Rfqs -> RfqRows \cup {Nobody}]
  /\ sourced \in [Requisitions -> Seq(Rfqs)]
  /\ awards \in [Rfqs -> Nat]
  /\ \A q \in Requisitions : SourcedOnce(q)
  /\ \A f \in Rfqs : AwardsCounted(f)

MadeOf(s) == {o \in ProdOrders : prodOrder[o].source = s}
Converted(s) == IF suggestion[s].status = "converted" THEN 1 ELSE 0

ConvertedCounted(s) ==
  /\ IsFiniteSet(MadeOf(s))
  /\ Cardinality(MadeOf(s)) = reoffered[s] + Converted(s)
  /\ suggestionForm[s] # Unconverted /\ suggestionForm[s].status = "converted"
       => suggestion[s].status = "converted"

SuggestionsInv ==
  /\ reoffered \in [Suggestions -> Nat]
  /\ \A o \in ProdOrders : prodOrder[o].status = "none" => prodOrder[o].source = Unconverted
  /\ \A s \in Suggestions : ConvertedCounted(s)

LEMMA NeedsTell == ASSUME SourcingInv, SuggestionsInv PROVE NeedsAreCounted
<1>1. \A q \in Requisitions : Len(sourced[q]) <= 1 BY DEF SourcingInv, SourcedOnce
<1>2. ASSUME NEW f \in Rfqs
      PROVE  /\ awards[f] <= 1 /\ (rfq[f].status = "awarded" => awards[f] = 1)
             /\ awards[f] > 0 => \E q \in Requisitions : sourced[q] = <<f>>
  <2>1. AwardsCounted(f) BY <1>2 DEF SourcingInv
  <2>2. awards[f] = 0 \/ awards[f] = 1 BY <2>1 DEF AwardsCounted
  <2>3. rfq[f].status = "awarded" => awards[f] = 1 BY <2>1 DEF AwardsCounted
  <2>4. awards[f] > 0 => IssuedOnce(f) BY <2>1 DEF AwardsCounted
  <2>5. awards[f] <= 1 BY <2>2
  <2> QED BY <2>3, <2>4, <2>5 DEF IssuedOnce
<1>3. \A s \in Suggestions :
        Cardinality({o \in ProdOrders : prodOrder[o].source = s})
          = reoffered[s] + IF suggestion[s].status = "converted" THEN 1 ELSE 0
  BY DEF SuggestionsInv, ConvertedCounted, Converted, MadeOf
<1> QED BY <1>1, <1>2, <1>3 DEF NeedsAreCounted, SourcingInv

LEMMA SourcingStarts == ASSUME SourcingInit PROVE SourcingInv
<1> USE DEF SourcingInit
<1>1. SourcingTypeOK BY SourcingAssumption DEF SourcingTypeOK, RequisitionStatus, RfqRows
<1>2. \A q \in Requisitions : SourcedOnce(q) BY DEF SourcedOnce
<1>3. \A f \in Rfqs : AwardsCounted(f) BY DEF AwardsCounted
<1> QED BY <1>1, <1>2, <1>3 DEF SourcingInv

\* A requisition moves, and is not sourced.
LEMMA RequisitionMoves ==
  ASSUME SourcingInv, NEW q \in Requisitions, NEW to \in RequisitionStatus,
         requisition[q] \notin {"sourcing", "ordered"},
         requisition' = [requisition EXCEPT ![q] = to],
         UNCHANGED <<rfq, rfqForm, sourced, awardEvents, awards>>
  PROVE  SourcingInv'
<1>1. SourcingTypeOK' BY DEF SourcingInv, SourcingTypeOK
<1>2. \A x \in Requisitions \ {q} : requisition'[x] = requisition[x]
  BY DEF SourcingInv, SourcingTypeOK
<1>3. \A x \in Requisitions : SourcedOnce(x)' BY <1>2 DEF SourcingInv, SourcedOnce
<1>4. \A f \in Rfqs : AwardsCounted(f)' BY DEF SourcingInv, AwardsCounted, IssuedOnce
<1> QED BY <1>1, <1>3, <1>4 DEF SourcingInv

LEMMA IssueRfqStep == ASSUME SourcingInv, NEW f \in Rfqs, IssueRfq(f) PROVE SourcingInv'
<1> DEFINE q == rfq[f].requisition
<1>1. /\ rfq \in [Rfqs -> RfqRows] /\ requisition \in [Requisitions -> RequisitionStatus]
      /\ sourced \in [Requisitions -> Seq(Rfqs)] /\ q \in Requisitions
  BY DEF SourcingInv, SourcingTypeOK, RfqRows
<1>2. /\ requisition' = [requisition EXCEPT ![q] = "sourcing"] /\ requisition[q] = "approved"
      /\ rfq' = [rfq EXCEPT ![f].status = "issued"] /\ rfq[f].status = "draft"
      /\ sourced' = [sourced EXCEPT ![q] = Append(@, f)]
      /\ UNCHANGED <<rfqForm, awardEvents, awards>>
  BY DEF IssueRfq, AfterIssue
<1> HIDE DEF q
<1>3. SourcingTypeOK' BY <1>1, <1>2 DEF SourcingTypeOK, RequisitionStatus, RfqRows
<1>4. sourced[q] = <<>> BY <1>1, <1>2 DEF SourcingInv, SourcedOnce
<1>5. /\ sourced'[q] = <<f>> /\ \A x \in Requisitions \ {q} : sourced'[x] = sourced[x]
      /\ sourced' \in [Requisitions -> Seq(Rfqs)]
  BY <1>1, <1>2, <1>4
<1>6. Len(<<f>>) = 1 /\ \A g : <<g>> # <<>> OBVIOUS
<1>7. \A x \in Requisitions : SourcedOnce(x)'
  BY <1>1, <1>2, <1>5, <1>6 DEF SourcingInv, SourcedOnce
<1>8. IssuedOnce(f)' /\ \A g \in Rfqs : IssuedOnce(g) => IssuedOnce(g)'
  BY <1>1, <1>4, <1>5, <1>6 DEF IssuedOnce
<1>9. /\ rfq'[f].status = "issued" /\ \A g \in Rfqs \ {f} : rfq'[g] = rfq[g]
  BY <1>1, <1>2 DEF RfqRows
<1>10. ASSUME NEW g \in Rfqs PROVE AwardsCounted(g)'
  BY <1>2, <1>8, <1>9 DEF SourcingInv, AwardsCounted
<1> QED BY <1>2, <1>3, <1>5, <1>7, <1>10 DEF SourcingInv

LEMMA AwardStep == ASSUME SourcingInv, NEW f \in Rfqs, NEW t \in Quotes, Award(f, t) PROVE SourcingInv'
<1> DEFINE q == rfq[f].requisition
<1>1. /\ rfq \in [Rfqs -> RfqRows] /\ requisition \in [Requisitions -> RequisitionStatus]
      /\ awards \in [Rfqs -> Nat] /\ q \in Requisitions
  BY DEF SourcingInv, SourcingTypeOK, RfqRows
<1>2. /\ requisition' = [requisition EXCEPT ![q] = "ordered"]
      /\ rfq' = [rfq EXCEPT ![f] = [status |-> "awarded", awarded |-> t, requisition |-> q]]
      /\ rfq[f].status = "issued" /\ f \notin awardEvents /\ awardEvents' = awardEvents \cup {f}
      /\ awards' = [awards EXCEPT ![f] = awards[f] + 1]
      /\ UNCHANGED <<rfqForm, sourced>>
  <2>1. /\ rfq' = [rfq EXCEPT ![f].status = "awarded", ![f].awarded = t]
        /\ requisition' = [requisition EXCEPT ![q] = "ordered"]
        /\ awards' = [awards EXCEPT ![f] = @ + 1]
        /\ f \notin awardEvents /\ awardEvents' = awardEvents \cup {f}
        /\ rfq[f].status = "issued" /\ UNCHANGED <<rfqForm, sourced>>
    BY DEF Award
  <2>2. rfq[f] \in RfqRows BY <1>1
  <2>3. rfq' = [rfq EXCEPT ![f] = [status |-> "awarded", awarded |-> t, requisition |-> q]]
    <3> DEFINE row == [status |-> "awarded", awarded |-> t, requisition |-> q]
    <3>1. rfq'[f] = [[rfq[f] EXCEPT !.status = "awarded"] EXCEPT !.awarded = t] BY <1>1, <2>1
    <3>2. rfq'[f] = row BY <2>2, <3>1 DEF RfqRows
    <3>3. DOMAIN rfq' = Rfqs /\ (\A g \in Rfqs \ {f} : rfq'[g] = rfq[g]) BY <1>1, <2>1
    <3> HIDE DEF row
    <3>4. \A g \in Rfqs : rfq'[g] = [rfq EXCEPT ![f] = row][g] BY <1>1, <3>2, <3>3
    <3>5. rfq' = [g \in Rfqs |-> rfq'[g]] BY <1>1, <2>1
    <3> QED BY <1>1, <3>2, <3>4, <3>5 DEF row
  <2> QED BY <2>1, <2>3
<1> HIDE DEF q
<1>3. SourcingTypeOK' BY <1>1, <1>2 DEF SourcingTypeOK, RequisitionStatus, RfqRows
<1>4. \A x \in Requisitions : SourcedOnce(x)' BY <1>1, <1>2 DEF SourcingInv, SourcedOnce
<1>5. /\ rfq'[f].status = "awarded" /\ awards'[f] = awards[f] + 1
      /\ awards' \in [Rfqs -> Nat]
      /\ \A g \in Rfqs \ {f} : rfq'[g] = rfq[g] /\ awards'[g] = awards[g]
  BY <1>1, <1>2
<1>6. ASSUME NEW g \in Rfqs PROVE AwardsCounted(g)'
  <2>1. AwardsCounted(g) /\ (IssuedOnce(g)' <=> IssuedOnce(g)) BY <1>2 DEF SourcingInv, IssuedOnce
  <2>2. CASE g = f
    <3>1. awards'[f] = 1 BY <1>2, <1>5, <2>1, <2>2 DEF AwardsCounted
    <3>2. IssuedOnce(f)' BY <1>2, <2>1, <2>2 DEF AwardsCounted
    <3> QED BY <1>2, <2>2, <3>1, <3>2 DEF AwardsCounted
  <2>3. CASE g # f
    <3>1. g \in awardEvents' <=> g \in awardEvents BY <1>2, <2>3
    <3> QED BY <1>2, <1>5, <2>1, <2>3, <3>1 DEF AwardsCounted
  <2> QED BY <2>2, <2>3
<1> QED BY <1>2, <1>3, <1>4, <1>5, <1>6 DEF SourcingInv

\* The edit may put an award back; its event stays in the outbox.
LEMMA SaveRfqStep ==
  ASSUME SourcingInv, NEW f \in Rfqs, NEW q \in Requisitions, SaveRfqForm(f, q)
  PROVE  SourcingInv'
<1> DEFINE old == rfqForm[f]
           new == [old EXCEPT !.requisition = q]
<1>1. /\ rfq \in [Rfqs -> RfqRows] /\ old \in RfqRows /\ old # Nobody
      /\ rfqForm \in [Rfqs -> RfqRows \cup {Nobody}]
  BY DEF SourcingInv, SourcingTypeOK, SaveRfqForm
<1>2. new \in RfqRows /\ new.status = old.status BY <1>1 DEF RfqRows
<1>3. /\ rfq' = [rfq EXCEPT ![f] = new] /\ rfqForm' = [rfqForm EXCEPT ![f] = Nobody]
      /\ UNCHANGED <<requisition, sourced, awardEvents, awards>>
  BY DEF SaveRfqForm
<1>4. AwardsCounted(f) BY DEF SourcingInv
<1>5. (old.status = "awarded" => f \in awardEvents) /\ (old.status # "draft" => IssuedOnce(f))
  BY <1>1, <1>4 DEF AwardsCounted
<1> HIDE DEF old, new
<1>6. SourcingTypeOK' /\ rfqForm' \in [Rfqs -> RfqRows \cup {Nobody}]
  BY <1>1, <1>2, <1>3 DEF SourcingInv, SourcingTypeOK
<1>7. \A x \in Requisitions : SourcedOnce(x)' BY <1>3 DEF SourcingInv, SourcedOnce
<1>8. /\ rfq'[f].status = old.status /\ rfqForm'[f] = Nobody
      /\ \A g \in Rfqs \ {f} : rfq'[g] = rfq[g] /\ rfqForm'[g] = rfqForm[g]
  BY <1>1, <1>2, <1>3
<1>9. ASSUME NEW g \in Rfqs PROVE AwardsCounted(g)'
  <2>1. IssuedOnce(g)' <=> IssuedOnce(g) BY <1>3 DEF IssuedOnce
  <2>2. CASE g = f
    BY <1>3, <1>4, <1>5, <1>8, <2>1, <2>2 DEF AwardsCounted
  <2>3. CASE g # f
    <3>1. AwardsCounted(g) BY DEF SourcingInv
    <3> QED BY <1>3, <1>8, <2>1, <2>3, <3>1 DEF AwardsCounted
  <2> QED BY <2>2, <2>3
<1> QED BY <1>3, <1>6, <1>7, <1>9 DEF SourcingInv

LEMMA SourcingStep == ASSUME SourcingInv, [SupplyNext]_supplyVars PROVE SourcingInv'
<1>1. ASSUME NEW q \in Requisitions, SubmitRequisition(q) PROVE SourcingInv'
  BY <1>1, RequisitionMoves DEF SubmitRequisition, RequisitionStatus
<1>2. ASSUME NEW q \in Requisitions, NEW actor \in Users, NEW approved \in BOOLEAN,
             ApproveRequisition(q, actor, approved)
      PROVE  SourcingInv'
  BY <1>2, RequisitionMoves DEF ApproveRequisition, RequisitionStatus
<1>3. ASSUME NEW f \in Rfqs, OpenRfqForm(f) PROVE SourcingInv'
  <2>1. /\ rfqForm' = [rfqForm EXCEPT ![f] = rfq[f]]
        /\ UNCHANGED <<requisition, rfq, sourced, awardEvents, awards>>
    BY <1>3 DEF OpenRfqForm
  <2>2. SourcingTypeOK' /\ rfqForm' \in [Rfqs -> RfqRows \cup {Nobody}]
    BY <2>1 DEF SourcingInv, SourcingTypeOK
  <2>3. ASSUME NEW g \in Rfqs PROVE AwardsCounted(g)'
    BY <2>1 DEF SourcingInv, AwardsCounted, IssuedOnce
  <2> QED BY <2>1, <2>2, <2>3 DEF SourcingInv, SourcedOnce
<1>4. CASE UNCHANGED sourcingVars
  <2>1. SourcingTypeOK' BY <1>4 DEF sourcingVars, SourcingInv, SourcingTypeOK
  <2>2. \A f \in Rfqs : AwardsCounted(f)'
    BY <1>4 DEF sourcingVars, SourcingInv, AwardsCounted, IssuedOnce
  <2> QED BY <1>4, <2>1, <2>2 DEF sourcingVars, SourcingInv, SourcedOnce
<1> QED BY <1>1, <1>2, <1>3, <1>4, IssueRfqStep, AwardStep, SaveRfqStep, PartMoves DEF SourcingNext

LEMMA SuggestionsStart == ASSUME ProductionInit PROVE SuggestionsInv
<1> USE DEF ProductionInit
<1>1. \A o \in ProdOrders : prodOrder[o].source = Unconverted BY DEF NoOrder
<1>2. ASSUME NEW s \in Suggestions PROVE ConvertedCounted(s)
  <2>1. MadeOf(s) = {} BY <1>1, ProductionAssumption DEF MadeOf
  <2>2. IsFiniteSet({}) /\ Cardinality({}) = 0 BY FS_EmptySet
  <2>3. Converted(s) = 0 /\ reoffered[s] = 0 /\ suggestionForm[s] = Unconverted BY DEF Converted
  <2> QED BY <2>1, <2>2, <2>3 DEF ConvertedCounted
<1> QED BY <1>1, <1>2 DEF SuggestionsInv

\* Whatever else moves an order keeps the suggestion it is made of.
LEMMA SourcesStay ==
  ASSUME ProductionInv, SuggestionsInv, UNCHANGED <<suggestion, suggestionForm, reoffered>>,
         \A o \in ProdOrders : /\ prodOrder'[o].source = prodOrder[o].source
                               /\ prodOrder'[o].status = "none" => prodOrder[o].status = "none"
  PROVE  SuggestionsInv'
<1>1. ASSUME NEW s \in Suggestions PROVE ConvertedCounted(s)'
  <2>1. MadeOf(s)' = MadeOf(s) BY DEF MadeOf
  <2>2. Converted(s)' = Converted(s) BY DEF Converted
  <2> QED BY <2>1, <2>2 DEF SuggestionsInv, ConvertedCounted
<1> QED BY <1>1 DEF SuggestionsInv

LEMMA SavedSource ==
  ASSUME ProductionInv, SuggestionsInv, NEW o \in ProdOrders, NEW row \in OrderRow, SetOrder(o, row),
         row.source = prodOrder[o].source, row.status # "none",
         UNCHANGED <<suggestion, suggestionForm, reoffered>>
  PROVE  SuggestionsInv'
<1>1. /\ prodOrder'[o].source = row.source /\ prodOrder'[o].status = row.status
      /\ \A x \in ProdOrders \ {o} : prodOrder'[x] = prodOrder[x]
  BY OrderSaved
<1> QED BY <1>1, SourcesStay

\* A conversion makes one order more of the suggestion.
LEMMA ConvertStep ==
  ASSUME ProductionInv, SuggestionsInv, NEW s \in Suggestions, NEW o \in ProdOrders, Convert(s, o)
  PROVE  SuggestionsInv'
<1>1. /\ NewOrder(o, s) /\ suggestion[s].status # "converted"
      /\ UNCHANGED <<reoffered, suggestionForm>>
      /\ suggestion' = [suggestion EXCEPT ![s] = [status |-> "converted", order |-> o]]
  BY DEF Convert
<1>2. prodOrder'[o].source = s /\ \A x \in ProdOrders \ {o} : prodOrder'[x] = prodOrder[x]
  BY <1>1, NewOrderStep
<1>3. /\ prodOrder[o].status = "none" /\ prodOrder'[o].status = "draft"
  BY <1>1 DEF NewOrder, ProductionInv, ProductionTypeOK, OrderRow
<1>4. prodOrder[o].source = Unconverted /\ s # Unconverted
  BY <1>3, ProductionAssumption DEF SuggestionsInv
<1>5. suggestion'[s].status = "converted" /\ \A x \in Suggestions \ {s} : suggestion'[x] = suggestion[x]
  BY <1>1 DEF ProductionInv, ProductionTypeOK
<1>6. ASSUME NEW x \in Suggestions PROVE ConvertedCounted(x)'
  <2>1. ConvertedCounted(x) /\ reoffered[x] \in Nat BY DEF SuggestionsInv
  <2>2. CASE x = s
    <3> DEFINE made == MadeOf(s)
    <3>1. MadeOf(s)' = made \cup {o} /\ o \notin made BY <1>2, <1>4 DEF MadeOf
    <3>2. IsFiniteSet(made) /\ Cardinality(made) = reoffered[s] + Converted(s)
      BY <2>1, <2>2 DEF ConvertedCounted
    <3> HIDE DEF made
    <3>3. IsFiniteSet(made \cup {o}) /\ Cardinality(made \cup {o}) = Cardinality(made) + 1
      BY <3>1, <3>2, FS_AddElement
    <3>4. Converted(s) = 0 /\ Converted(s)' = 1 BY <1>1, <1>5 DEF Converted
    <3> QED BY <1>1, <1>5, <2>1, <2>2, <3>1, <3>2, <3>3, <3>4 DEF ConvertedCounted
  <2>3. CASE x # s
    <3>1. MadeOf(x)' = MadeOf(x)
      BY <1>2, <1>4, <2>3, ProductionAssumption DEF MadeOf
    <3>2. Converted(x)' = Converted(x) BY <1>5, <2>3 DEF Converted
    <3> QED BY <1>1, <1>5, <2>1, <2>3, <3>1, <3>2 DEF ConvertedCounted
  <2> QED BY <2>2, <2>3
<1>7. \A x \in ProdOrders : prodOrder'[x].status = "none" => prodOrder'[x].source = Unconverted
  BY <1>2, <1>3 DEF SuggestionsInv
<1> QED BY <1>1, <1>6, <1>7 DEF SuggestionsInv

LEMMA SuggestionFormsStep ==
  ASSUME ProductionInv, SuggestionsInv, NEW s \in Suggestions,
         OpenSuggestionForm(s) \/ SaveSuggestionForm(s)
  PROVE  SuggestionsInv'
<1>0. /\ suggestion \in [Suggestions -> SuggestionRow]
      /\ suggestionForm \in [Suggestions -> SuggestionRow \cup {Unconverted}]
      /\ reoffered \in [Suggestions -> Nat]
  BY DEF ProductionInv, ProductionTypeOK, SuggestionsInv
<1>1. prodOrder' = prodOrder BY DEF OpenSuggestionForm, SaveSuggestionForm
<1>2. \A x \in Suggestions : MadeOf(x)' = MadeOf(x) /\ ConvertedCounted(x)
  BY <1>1 DEF MadeOf, SuggestionsInv
<1>3. CASE OpenSuggestionForm(s)
  <2>1. suggestionForm' = [suggestionForm EXCEPT ![s] = suggestion[s]] /\ UNCHANGED <<suggestion, reoffered>>
    BY <1>3 DEF OpenSuggestionForm
  <2>2. \A x \in Suggestions : ConvertedCounted(x)'
    BY <1>0, <1>2, <2>1 DEF ConvertedCounted, Converted
  <2> QED BY <1>1, <2>1, <2>2 DEF SuggestionsInv
<1>4. CASE SaveSuggestionForm(s)
  <2> DEFINE old == suggestionForm[s]
  <2>1. /\ suggestion' = [suggestion EXCEPT ![s] = old] /\ old # Unconverted
        /\ suggestionForm' = [suggestionForm EXCEPT ![s] = Unconverted]
        /\ reoffered' = [reoffered EXCEPT ![s] = @ +
             IF suggestion[s].status = "converted" /\ old.status # "converted" THEN 1 ELSE 0]
    BY <1>4 DEF SaveSuggestionForm
  <2>2. old.status = "converted" => suggestion[s].status = "converted"
    BY <1>2, <2>1 DEF ConvertedCounted
  <2> HIDE DEF old
  <2>3. /\ suggestion'[s] = old /\ suggestionForm'[s] = Unconverted
        /\ reoffered'[s] = reoffered[s] +
             IF suggestion[s].status = "converted" /\ old.status # "converted" THEN 1 ELSE 0
        /\ \A x \in Suggestions \ {s} : /\ suggestion'[x] = suggestion[x]
                                        /\ suggestionForm'[x] = suggestionForm[x]
                                        /\ reoffered'[x] = reoffered[x]
        /\ reoffered' \in [Suggestions -> Nat]
    BY <1>0, <2>1
  <2>4. reoffered'[s] + Converted(s)' = reoffered[s] + Converted(s)
    BY <1>0, <2>2, <2>3 DEF Converted
  <2>5. ASSUME NEW x \in Suggestions, x # s PROVE ConvertedCounted(x)'
    BY <1>2, <2>3, <2>5 DEF ConvertedCounted, Converted
  <2>6. ConvertedCounted(s)' BY <1>2, <2>3, <2>4 DEF ConvertedCounted
  <2> QED BY <1>1, <2>3, <2>5, <2>6 DEF SuggestionsInv
<1> QED BY <1>3, <1>4

LEMMA SuggestionsStep ==
  ASSUME ProductionInv, SuggestionsInv, [SupplyNext]_supplyVars PROVE SuggestionsInv'
<1>0. \A o \in ProdOrders : prodOrder[o] \in OrderRow BY DEF ProductionInv, ProductionTypeOK
<1>1. ASSUME NEW o \in ProdOrders, PlanOrder(o) PROVE SuggestionsInv'
  <2>1. NewOrder(o, Unconverted) /\ UNCHANGED <<suggestion, suggestionForm, reoffered>>
    BY <1>1 DEF PlanOrder, suggestionVars
  <2>2. prodOrder'[o].source = Unconverted /\ \A x \in ProdOrders \ {o} : prodOrder'[x] = prodOrder[x]
    BY <2>1, NewOrderStep
  <2>3. prodOrder[o].status = "none" BY <2>1 DEF NewOrder
  <2>4. prodOrder[o].source = Unconverted BY <2>3 DEF SuggestionsInv
  <2> QED BY <2>1, <2>2, <2>3, <2>4, SourcesStay
<1>2. ASSUME NEW o \in ProdOrders, NEW action \in {"approve", "release", "close"}, NEW v,
             MoveOrder(o, action, v)
      PROVE  SuggestionsInv'
  <2> DEFINE to == ProdTarget(o, action)
             n == [prodOrder[o] EXCEPT !.status = to]
  <2>1. to \in ProdStatus /\ to # "none" BY <1>2 DEF MoveOrder, ProdTarget, ProdStatus
  <2>3. SetOrder(o, n) /\ UNCHANGED <<suggestion, suggestionForm, reoffered>>
    BY <1>2 DEF MoveOrder, suggestionVars
  <2> HIDE DEF to
  <2>2. n \in OrderRow /\ n.source = prodOrder[o].source /\ n.status = to BY <1>0, <2>1, StatusRow
  <2> HIDE DEF n
  <2> QED BY <2>1, <2>2, <2>3, SavedSource
<1>3. ASSUME NEW o \in ProdOrders, NEW k \in ProdKeys, NEW q \in IssueChoices, IssueMaterials(o, k, q)
      PROVE  SuggestionsInv'
  <2> DEFINE n == [prodOrder[o] EXCEPT !.status = "in_progress"]
  <2>2. n \in OrderRow /\ n.source = prodOrder[o].source /\ n.status = "in_progress"
    BY <1>0, StatusRow DEF ProdStatus
  <2>3. SetOrder(o, n) /\ UNCHANGED <<suggestion, suggestionForm, reoffered>>
    BY <1>3 DEF IssueMaterials, suggestionVars
  <2> HIDE DEF n
  <2> QED BY <2>2, <2>3, SavedSource
<1>4. ASSUME NEW o \in ProdOrders, NEW k \in ProdKeys, NEW out \in OutputChoices, NEW used \in UseChoices,
             Complete(o, k, out, used)
      PROVE  SuggestionsInv'
  <2> DEFINE made == prodOrder[o].completed + out.good + out.rejected
             to == OutputStatus(o, made, out.good)
             n == [prodOrder[o] EXCEPT !.completed = made, !.accepted = @ + out.good,
                     !.rejected = @ + out.rejected, !.status = to]
  <2>1. to \in ProdStatus /\ to # "none" BY DEF OutputStatus, ProdStatus
  <2>2. /\ prodOrder[o].completed \in Nat /\ prodOrder[o].accepted + out.good \in Nat
        /\ prodOrder[o].rejected + out.rejected \in Nat /\ made \in Nat
    <3>1. out.good \in Nat /\ out.rejected \in Nat BY ProductionAssumption
    <3> QED BY <1>0, <3>1 DEF OrderRow
  <2>3. SetOrder(o, n) /\ UNCHANGED <<suggestion, suggestionForm, reoffered>>
    BY <1>4 DEF Complete, suggestionVars
  <2> HIDE DEF made, to
  <2>4. n \in OrderRow /\ n.source = prodOrder[o].source /\ n.status = to
    BY <1>0, <2>1, <2>2 DEF OrderRow
  <2> HIDE DEF n
  <2> QED BY <2>1, <2>3, <2>4, SavedSource
<1>5. CASE UNCHANGED ownProduction
  <2>1. UNCHANGED <<prodOrder, suggestion, suggestionForm, reoffered>>
    BY <1>5 DEF ownProduction, suggestionVars
  <2> QED BY <2>1, SourcesStay
<1>6. CASE WorkNext BY <1>1, <1>2, <1>3, <1>4, <1>6 DEF WorkNext
<1>7. CASE SuggestionNext BY <1>7, ConvertStep, SuggestionFormsStep DEF SuggestionNext
<1> QED BY <1>5, <1>6, <1>7, PartMoves

\* An approved requisition is sourced by one RFQ, an RFQ that was issued is awarded
\* once and once more for each time an edit took its award back, and a suggestion
\* becomes one order and one more for each time an edit took its conversion back
\* (issue_rfq, award_quote, RfqViewSet, convert_suggestion, SuggestionViewSet).
THEOREM NeedsAreCountedAlways == SupplySpec => []NeedsAreCounted
<1> DEFINE Inv == ProductionInv /\ SourcingInv /\ SuggestionsInv
<1>1. SupplyInit => Inv
  BY ProductionStarts, SourcingStarts, SuggestionsStart DEF SupplyInit
<1>2. Inv /\ [SupplyNext]_supplyVars => Inv'
  BY ProductionStep, SourcingStep, SuggestionsStep
<1>3. Inv => NeedsAreCounted BY NeedsTell
<1> QED BY <1>1, <1>2, <1>3, PTL DEF SupplySpec
-----------------------------------------------------------------------------
(***************************************************************************)
(* Packing ahead.  The invariant adds to PacksAreCounted that the tables   *)
(* of executions and breakdowns are finite.                                *)
(***************************************************************************)
\* What PacksAreCounted says of an order's product, and of a material.
PackCounted(p) ==
  /\ pack[p].completed = SumOver([k \in DOMAIN execution |-> execution[k].qty], WorkOf(execution, p))
  /\ pack[p].broken = SumOver([k \in DOMAIN breakdown |-> breakdown[k].qty], WorkOf(breakdown, p))
  /\ pack[p].broken <= pack[p].completed /\ pack[p].completed <= PackPlanned[p]

PrepackInv ==
  /\ PrepackTypeOK
  /\ IsFiniteSet(DOMAIN execution) /\ IsFiniteSet(DOMAIN breakdown)
  /\ \A p \in Packs : PackCounted(p)
  /\ \A p \in Packs, i \in Items : PutBack(p, i) <= Used(p, i)

LEMMA PrepackTells == ASSUME PrepackInv PROVE PacksAreCounted
BY DEF PrepackInv, PacksAreCounted, PackCounted

LEMMA PrepackStarts == ASSUME PrepackInit PROVE PrepackInv
<1> USE DEF PrepackInit
<1>1. \A p \in Packs : PackPlanned[p] \in Nat BY PrepackAssumption
<1>2. DOMAIN execution = {} /\ DOMAIN breakdown = {} OBVIOUS
<1>3. PrepackTypeOK BY <1>2 DEF PrepackTypeOK, PackRow
<1>4. \A p \in Packs : WorkOf(execution, p) = {} /\ WorkOf(breakdown, p) = {} BY <1>2 DEF WorkOf
<1>5. ASSUME NEW p \in Packs PROVE PackCounted(p)
  <2> DEFINE f == [k \in DOMAIN execution |-> execution[k].qty]
             g == [k \in DOMAIN breakdown |-> breakdown[k].qty]
  <2>1. SumOver(f, {}) = 0 /\ SumOver(g, {}) = 0 BY SumEmpty, Zenon
  <2> HIDE DEF f, g
  <2>2. SumOver(f, WorkOf(execution, p)) = 0 /\ SumOver(g, WorkOf(breakdown, p)) = 0 BY <1>4, <2>1
  <2>3. pack[p].completed = 0 /\ pack[p].broken = 0 OBVIOUS
  <2> QED BY <1>1, <2>2, <2>3 DEF PackCounted, f, g
<1>6. ASSUME NEW p \in Packs, NEW i \in Items PROVE PutBack(p, i) <= Used(p, i)
  <2> DEFINE f == [k \in DOMAIN execution |-> execution[k].used[i]]
             g == [k \in DOMAIN breakdown |-> breakdown[k].back[i]]
  <2>1. SumOver(f, {}) = 0 /\ SumOver(g, {}) = 0 BY SumEmpty, Zenon
  <2> HIDE DEF f, g
  <2>2. SumOver(f, WorkOf(execution, p)) = 0 /\ SumOver(g, WorkOf(breakdown, p)) = 0 BY <1>4, <2>1
  <2>3. Used(p, i) = 0 /\ PutBack(p, i) = 0 BY <2>2 DEF Used, PutBack, f, g
  <2> QED BY <2>3
<1> QED BY <1>2, <1>3, <1>5, <1>6, FS_EmptySet DEF PrepackInv

\* A total over an order's work, when a row of a new key is added.
LEMMA WorkTotal ==
  ASSUME NEW T, NEW U, NEW k, NEW f, NEW g, RowPut(T, U, k, f, g), NEW p
  PROVE  SumOver(g, WorkOf(U, p)) = SumOver(f, WorkOf(T, p)) + (IF U[k].order = p THEN g[k] ELSE 0)
<1>1. WorkOf(U, p) = RowsOf(U, p) /\ WorkOf(T, p) = RowsOf(T, p) BY DEF WorkOf, RowsOf
<1> QED BY <1>1, RowAdded

LEMMA PackStands ==
  ASSUME PrepackInv, UNCHANGED <<execution, breakdown>>, pack' \in [Packs -> PackRow],
         \A p \in Packs : pack'[p].completed = pack[p].completed /\ pack'[p].broken = pack[p].broken
  PROVE  PrepackInv'
<1>1. PrepackTypeOK' BY DEF PrepackInv, PrepackTypeOK
<1>2. ASSUME NEW p \in Packs PROVE PackCounted(p)' BY DEF PrepackInv, PackCounted
<1>3. ASSUME NEW p \in Packs, NEW i \in Items PROVE (PutBack(p, i) <= Used(p, i))'
  BY DEF PrepackInv, PutBack, Used
<1> QED BY <1>1, <1>2, <1>3 DEF PrepackInv

LEMMA ExecuteStep ==
  ASSUME PrepackInv, NEW p \in Packs, NEW k \in PackKeys, NEW n \in PackQty, NEW used \in UsedChoices,
         ExecutePack(p, k, n, used)
  PROVE  PrepackInv'
<1> DEFINE row == pack[p]
           new == [order |-> p, qty |-> n, used |-> used]
           to == IF row.completed + n = PackPlanned[p] THEN "completed" ELSE "partially_completed"
           packed == [status |-> to, version |-> row.version + 1, completed |-> row.completed + n,
                      broken |-> row.broken]
<1>1. /\ row \in PackRow /\ pack \in [Packs -> PackRow]
      /\ \A x \in DOMAIN execution : execution[x] \in ExecutionRow
      /\ IsFiniteSet(DOMAIN execution)
  BY DEF PrepackInv, PrepackTypeOK
<1>2. n \in Nat /\ used \in [Items -> Nat] /\ new \in ExecutionRow
      /\ new.order = p /\ new.qty = n /\ new.used = used
  BY PrepackAssumption DEF ExecutionRow
<1>3. packed \in PackRow /\ packed.completed = row.completed + n /\ packed.broken = row.broken
  <2>1. row.completed + n \in Nat /\ row.version + 1 \in Nat /\ row.broken \in Nat
    BY <1>1, <1>2 DEF PackRow
  <2> HIDE DEF row
  <2> QED BY <2>1 DEF PackRow
<1>4. /\ k \notin DOMAIN execution /\ execution' = Add(execution, k, new)
      /\ pack' = [pack EXCEPT ![p] = packed] /\ breakdown' = breakdown
      /\ row.completed + n <= PackPlanned[p]
  BY DEF ExecutePack, In
<1> HIDE DEF new, packed, to
<1>5. /\ DOMAIN execution' = DOMAIN execution \cup {k} /\ IsFiniteSet(DOMAIN execution')
      /\ execution'[k] = new /\ \A x \in DOMAIN execution : execution'[x] = execution[x]
  <2>1. IsFiniteSet(DOMAIN execution \cup {k}) BY <1>1, FS_AddElement
  <2>2. /\ DOMAIN execution' = DOMAIN execution \cup {k} /\ execution'[k] = new
        /\ \A x \in DOMAIN execution : execution'[x] = execution[x]
    BY <1>4 DEF Add
  <2> QED BY <2>1, <2>2
<1>6. /\ pack' \in [Packs -> PackRow] /\ pack'[p] = packed
      /\ \A x \in Packs \ {p} : pack'[x] = pack[x]
  BY <1>1, <1>3, <1>4
<1>7. PrepackTypeOK'
  <2>1. \A x \in DOMAIN execution' : execution'[x] \in ExecutionRow BY <1>1, <1>2, <1>5
  <2> QED BY <1>4, <1>6, <2>1 DEF PrepackInv, PrepackTypeOK
<1>8. ASSUME NEW x \in Packs PROVE PackCounted(x)'
  <2> DEFINE f == [y \in DOMAIN execution |-> execution[y].qty]
             g == [y \in DOMAIN execution' |-> execution'[y].qty]
  <2>1. PackCounted(x) BY DEF PrepackInv
  <2>2. g[k] = n /\ g[k] \in Int BY <1>2, <1>5
  <2>3. \A y \in DOMAIN execution : f[y] \in Int /\ g[y] = f[y] BY <1>1, <1>5 DEF ExecutionRow
  <2> HIDE DEF f, g
  <2>4. RowPut(execution, execution', k, f, g) BY <1>1, <1>4, <1>5, <2>2, <2>3 DEF RowPut
  <2>5. SumOver(g, WorkOf(execution', x))
          = SumOver(f, WorkOf(execution, x)) + (IF execution'[k].order = x THEN g[k] ELSE 0)
    BY <2>4, WorkTotal
  <2>6. SumOver(g, WorkOf(execution', x)) = pack[x].completed + (IF x = p THEN n ELSE 0)
    BY <1>2, <1>5, <2>1, <2>2, <2>5 DEF PackCounted, f
  <2>7. /\ pack'[x].completed = pack[x].completed + (IF x = p THEN n ELSE 0)
        /\ pack'[x].broken = pack[x].broken /\ pack[x].completed \in Nat /\ pack[x].broken \in Nat
    <3>1. pack[x].completed \in Nat /\ pack[x].broken \in Nat BY <1>1 DEF PackRow
    <3> QED BY <1>3, <1>6, <3>1
  <2>8. pack'[x].broken <= pack'[x].completed /\ pack'[x].completed <= PackPlanned[x]
    <3>1. pack[x].broken <= pack[x].completed /\ pack[x].completed <= PackPlanned[x]
      BY <2>1 DEF PackCounted
    <3> QED BY <1>2, <1>4, <2>7, <3>1
  <2> QED BY <1>4, <2>1, <2>6, <2>7, <2>8 DEF PackCounted, g
<1>9. ASSUME NEW x \in Packs, NEW i \in Items PROVE (PutBack(x, i) <= Used(x, i))'
  <2> DEFINE f == [y \in DOMAIN execution |-> execution[y].used[i]]
             g == [y \in DOMAIN execution' |-> execution'[y].used[i]]
  <2>1. PutBack(x, i) <= Used(x, i) BY DEF PrepackInv
  <2>2. g[k] = used[i] /\ g[k] \in Nat /\ g[k] \in Int BY <1>2, <1>5
  <2>3. \A y \in DOMAIN execution : f[y] \in Int /\ g[y] = f[y] BY <1>1, <1>5 DEF ExecutionRow
  <2> HIDE DEF f, g
  <2>4. RowPut(execution, execution', k, f, g) BY <1>1, <1>4, <1>5, <2>2, <2>3 DEF RowPut
  <2>5. SumOver(g, WorkOf(execution', x))
          = SumOver(f, WorkOf(execution, x)) + (IF execution'[k].order = x THEN g[k] ELSE 0)
    BY <2>4, WorkTotal
  <2>6. SumOver(f, WorkOf(execution, x)) \in Int /\ PutBack(x, i) \in Int
    <3>1. IsFiniteSet(WorkOf(execution, x)) /\ IsFiniteSet(WorkOf(breakdown, x))
      BY FS_Subset DEF WorkOf, PrepackInv
    <3>2. \A y \in WorkOf(execution, x) : f[y] \in Int BY <2>3 DEF WorkOf
    <3> DEFINE h == [y \in DOMAIN breakdown |-> breakdown[y].back[i]]
    <3>3. \A y \in WorkOf(breakdown, x) : h[y] \in Int
      BY DEF WorkOf, PrepackInv, PrepackTypeOK, BreakdownRow
    <3> HIDE DEF h
    <3>4. SumOver(h, WorkOf(breakdown, x)) \in Int BY <3>1, <3>3, SumType
    <3>5. SumOver(f, WorkOf(execution, x)) \in Int BY <3>1, <3>2, SumType
    <3> QED BY <3>4, <3>5 DEF PutBack, h
  <2>7. Used(x, i)' = SumOver(g, WorkOf(execution', x)) /\ Used(x, i) = SumOver(f, WorkOf(execution, x))
    BY DEF Used, f, g
  <2>8. PutBack(x, i)' = PutBack(x, i) BY <1>4 DEF PutBack
  <2> HIDE DEF f, g
  <2> QED BY <2>1, <2>2, <2>5, <2>6, <2>7, <2>8
<1> QED BY <1>4, <1>5, <1>7, <1>8, <1>9 DEF PrepackInv

LEMMA BreakDownStep ==
  ASSUME PrepackInv, NEW p \in Packs, NEW k \in PackKeys, NEW n \in PackQty, NEW back \in BackChoices,
         BreakDown(p, k, n, back)
  PROVE  PrepackInv'
<1> DEFINE row == pack[p]
           new == [order |-> p, qty |-> n, back |-> back]
           opened == [row EXCEPT !.version = @ + 1, !.broken = @ + n]
<1>1. /\ row \in PackRow /\ pack \in [Packs -> PackRow]
      /\ \A x \in DOMAIN breakdown : breakdown[x] \in BreakdownRow
      /\ IsFiniteSet(DOMAIN breakdown)
  BY DEF PrepackInv, PrepackTypeOK
<1>2. n \in Nat /\ back \in [Items -> Nat] /\ new \in BreakdownRow
      /\ new.order = p /\ new.qty = n /\ new.back = back
  BY PrepackAssumption DEF BreakdownRow
<1>3. opened \in PackRow /\ opened.completed = row.completed /\ opened.broken = row.broken + n
  <2>1. row.broken + n \in Nat /\ row.version + 1 \in Nat BY <1>1, <1>2 DEF PackRow
  <2> HIDE DEF row
  <2> QED BY <1>1, <2>1 DEF PackRow
<1>4. /\ k \notin DOMAIN breakdown /\ breakdown' = Add(breakdown, k, new)
      /\ pack' = [pack EXCEPT ![p] = opened] /\ execution' = execution
      /\ row.broken + n <= row.completed
      /\ \A i \in Items : back[i] > 0 => PutBack(p, i) + back[i] <= Used(p, i)
  BY <1>1 DEF BreakDown, In, MayReturn
<1> HIDE DEF new, opened
<1>5. /\ DOMAIN breakdown' = DOMAIN breakdown \cup {k} /\ IsFiniteSet(DOMAIN breakdown')
      /\ breakdown'[k] = new /\ \A x \in DOMAIN breakdown : breakdown'[x] = breakdown[x]
  <2>1. IsFiniteSet(DOMAIN breakdown \cup {k}) BY <1>1, FS_AddElement
  <2>2. /\ DOMAIN breakdown' = DOMAIN breakdown \cup {k} /\ breakdown'[k] = new
        /\ \A x \in DOMAIN breakdown : breakdown'[x] = breakdown[x]
    BY <1>4 DEF Add
  <2> QED BY <2>1, <2>2
<1>6. /\ pack' \in [Packs -> PackRow] /\ pack'[p] = opened
      /\ \A x \in Packs \ {p} : pack'[x] = pack[x]
  BY <1>1, <1>3, <1>4
<1>7. PrepackTypeOK'
  <2>1. \A x \in DOMAIN breakdown' : breakdown'[x] \in BreakdownRow BY <1>1, <1>2, <1>5
  <2> QED BY <1>4, <1>6, <2>1 DEF PrepackInv, PrepackTypeOK
<1>8. ASSUME NEW x \in Packs PROVE PackCounted(x)'
  <2> DEFINE f == [y \in DOMAIN breakdown |-> breakdown[y].qty]
             g == [y \in DOMAIN breakdown' |-> breakdown'[y].qty]
  <2>1. PackCounted(x) BY DEF PrepackInv
  <2>2. g[k] = n /\ g[k] \in Int BY <1>2, <1>5
  <2>3. \A y \in DOMAIN breakdown : f[y] \in Int /\ g[y] = f[y] BY <1>1, <1>5 DEF BreakdownRow
  <2> HIDE DEF f, g
  <2>4. RowPut(breakdown, breakdown', k, f, g) BY <1>1, <1>4, <1>5, <2>2, <2>3 DEF RowPut
  <2>5. SumOver(g, WorkOf(breakdown', x))
          = SumOver(f, WorkOf(breakdown, x)) + (IF breakdown'[k].order = x THEN g[k] ELSE 0)
    BY <2>4, WorkTotal
  <2>6. SumOver(g, WorkOf(breakdown', x)) = pack[x].broken + (IF x = p THEN n ELSE 0)
    BY <1>2, <1>5, <2>1, <2>2, <2>5 DEF PackCounted, f
  <2>7. /\ pack'[x].broken = pack[x].broken + (IF x = p THEN n ELSE 0)
        /\ pack'[x].completed = pack[x].completed /\ pack[x].completed \in Nat /\ pack[x].broken \in Nat
    <3>1. pack[x].completed \in Nat /\ pack[x].broken \in Nat BY <1>1 DEF PackRow
    <3> QED BY <1>3, <1>6, <3>1
  <2>8. pack'[x].broken <= pack'[x].completed /\ pack'[x].completed <= PackPlanned[x]
    <3>1. pack[x].broken <= pack[x].completed /\ pack[x].completed <= PackPlanned[x]
      BY <2>1 DEF PackCounted
    <3> QED BY <1>2, <1>4, <2>7, <3>1
  <2> QED BY <1>4, <2>1, <2>6, <2>7, <2>8 DEF PackCounted, g
<1>9. ASSUME NEW x \in Packs, NEW i \in Items PROVE (PutBack(x, i) <= Used(x, i))'
  <2> DEFINE f == [y \in DOMAIN breakdown |-> breakdown[y].back[i]]
             g == [y \in DOMAIN breakdown' |-> breakdown'[y].back[i]]
  <2>1. PutBack(x, i) <= Used(x, i) BY DEF PrepackInv
  <2>2. g[k] = back[i] /\ back[i] \in Nat /\ g[k] \in Int BY <1>2, <1>5
  <2>3. \A y \in DOMAIN breakdown : f[y] \in Int /\ g[y] = f[y] BY <1>1, <1>5 DEF BreakdownRow
  <2> HIDE DEF f, g
  <2>4. RowPut(breakdown, breakdown', k, f, g) BY <1>1, <1>4, <1>5, <2>2, <2>3 DEF RowPut
  <2>5. SumOver(g, WorkOf(breakdown', x))
          = SumOver(f, WorkOf(breakdown, x)) + (IF breakdown'[k].order = x THEN g[k] ELSE 0)
    BY <2>4, WorkTotal
  <2>6. SumOver(f, WorkOf(breakdown, x)) \in Int
    <3>1. IsFiniteSet(WorkOf(breakdown, x)) BY FS_Subset DEF WorkOf, PrepackInv
    <3>2. \A y \in WorkOf(breakdown, x) : f[y] \in Int BY <2>3 DEF WorkOf
    <3> QED BY <3>1, <3>2, SumType
  <2>7. PutBack(x, i)' = SumOver(g, WorkOf(breakdown', x)) /\ PutBack(x, i) = SumOver(f, WorkOf(breakdown, x))
    BY DEF PutBack, f, g
  <2>8. Used(x, i)' = Used(x, i) BY <1>4 DEF Used
  <2>9. PutBack(x, i)' = PutBack(x, i) + (IF x = p THEN back[i] ELSE 0) /\ PutBack(x, i) \in Int
    BY <1>2, <1>5, <2>2, <2>5, <2>6, <2>7
  <2>10. CASE x = p /\ back[i] > 0
    <3>1. PutBack(p, i) + back[i] <= Used(p, i) BY <1>4, <2>10
    <3> QED BY <2>8, <2>9, <2>10, <3>1
  <2>11. CASE ~(x = p /\ back[i] > 0)
    <3>1. PutBack(x, i)' = PutBack(x, i) BY <2>2, <2>9, <2>11
    <3> QED BY <2>1, <2>8, <3>1
  <2> QED BY <2>10, <2>11
<1> QED BY <1>4, <1>5, <1>7, <1>8, <1>9 DEF PrepackInv

LEMMA PrepackStep == ASSUME PrepackInv, [SupplyNext]_supplyVars PROVE PrepackInv'
<1>1. ASSUME NEW p \in Packs, NEW v, ApprovePack(p, v) PROVE PrepackInv'
  <2>1. /\ pack' \in [Packs -> PackRow]
        /\ \A x \in Packs : pack'[x].completed = pack[x].completed /\ pack'[x].broken = pack[x].broken
    BY <1>1 DEF ApprovePack, PrepackInv, PrepackTypeOK, PackRow
  <2> QED BY <1>1, <2>1, PackStands DEF ApprovePack
<1>2. CASE UNCHANGED ownPrepack
  BY <1>2, PackStands DEF ownPrepack, PrepackInv, PrepackTypeOK
<1> QED BY <1>1, <1>2, ExecuteStep, BreakDownStep, PartMoves DEF PrepackNext

\* What is packed and unpacked of an order is what its executions and breakdowns
\* say, and no more comes back than went in (execute_prepack, breakdown_prepack).
THEOREM PacksAreCountedAlways == SupplySpec => []PacksAreCounted
<1>1. SupplyInit => PrepackInv BY PrepackStarts DEF SupplyInit
<1> QED BY <1>1, PrepackStep, PrepackTells, PTL DEF SupplySpec
-----------------------------------------------------------------------------
(***************************************************************************)
(* Purchasing.  The invariant adds to LinesAreCounted that an order not    *)
(* yet made has empty lines and that a receipt not yet inspected found     *)
(* nothing good.  It adds to ReturnsAreCounted that a dispatch under way   *)
(* read of a line no more than the returns that left took of it, and that  *)
(* a return some edit holds as dispatched left.                            *)
(***************************************************************************)
Came(o) == \E l \in LinesOf(o) : line[l].received > 0
Due(o) == \E l \in LinesOf(o) : line[l].received < line[l].ordered
Tells(o) ==
  /\ order[o].status = "received" <=> Came(o) /\ ~Due(o)
  /\ order[o].status = "partially_received" <=> Came(o) /\ Due(o)

LineCounted(l) ==
  /\ line[l].received = ReceivedOn(l) /\ line[l].received <= line[l].ordered
  /\ line[l].accepted = AcceptedOn(l)
  /\ line[l].accepted + line[l].rejected = InspectedOn(l)

Unmade(l) == order[l[1]].status = "none" => line[l] = NoLine
Uninspected(n) == receipt[n].status # "completed" => receipt[n].good = [l \in Lines |-> 0]

Dispatch(r) == [key : Keys, read : [ReturnLines[r] -> Nat]]
UnderWay(r) ==
  dispatching[r] # None =>
    /\ dispatching[r] \in Dispatch(r)
    /\ \A x \in ReturnLines[r] : dispatching[r].read[x] <= DispatchedFrom(x.line)
Announced(r) ==
  return[r].status = "dispatched" \/ (form[r] # None /\ form[r].status = "dispatched")
    => r \in returnEvents
ReturnCounted(l) ==
  /\ line[l].returned <= DispatchedFrom(l)
  /\ l \notin raced => line[l].returned = DispatchedFrom(l)

OrdersInv ==
  /\ PurchasingTypeOK
  /\ \A l \in Lines : LineCounted(l) /\ Unmade(l)
  /\ \A n \in ReceiptRows : Uninspected(n)
  /\ \A o \in Orders : Tells(o)

ReturnsInv ==
  /\ dispatching = [r \in Returns |-> dispatching[r]]
  /\ form \in [Returns -> ReturnRows \cup {None}] /\ returnEvents \subseteq Returns
  /\ \A r \in Returns : UnderWay(r) /\ Announced(r)
  /\ \A l \in Lines : ReturnCounted(l)

LEMMA LinesTell == ASSUME OrdersInv PROVE LinesAreCounted
<1>1. StatusTellsReceipts BY DEF OrdersInv, StatusTellsReceipts, Tells, Came, Due
<1> QED BY <1>1 DEF OrdersInv, LinesAreCounted, LineCounted

LEMMA ReturnsTell == ASSUME ReturnsInv PROVE ReturnsAreCounted
BY DEF ReturnsInv, ReturnsAreCounted, Announced, ReturnCounted

\* The quantities of rows.
LEMMA RowTypes ==
  /\ NR \in Nat
  /\ \A x \in LineRows : /\ x.ordered \in Nat /\ x.received \in Nat /\ x.accepted \in Nat
                         /\ x.rejected \in Nat /\ x.returned \in Nat
  /\ \A x \in ReceiptRowSet, l \in Lines : x.qty[l] \in Nat /\ x.good[l] \in Nat
<1>1. NR \in Nat /\ MaxQty \in Nat BY PurchasingAssumption
<1>2. \A x \in ReceiptRowSet : x.qty \in [Lines -> 0..MaxQty] /\ x.good \in [Lines -> 0..MaxQty]
  BY DEF ReceiptRowSet, Quantities
<1>3. \A x \in ReceiptRowSet, l \in Lines : x.qty[l] \in Nat /\ x.good[l] \in Nat BY <1>1, <1>2
<1> QED BY <1>1, <1>3 DEF LineRows

LEMMA LineTypes ==
  ASSUME PurchasingTypeOK
  PROVE  /\ NR \in Nat
         /\ \A l \in Lines : /\ line[l] \in LineRows /\ line[l].ordered \in Nat /\ line[l].received \in Nat
                             /\ line[l].accepted \in Nat /\ line[l].rejected \in Nat /\ line[l].returned \in Nat
         /\ \A n \in 1..NR : receipt[n] \in ReceiptRowSet
         /\ \A n \in 1..NR, l \in Lines : receipt[n].qty[l] \in Nat /\ receipt[n].good[l] \in Nat
BY RowTypes DEF PurchasingTypeOK, ReceiptRows

\* The columns that receipts add up to.
LEMMA Columns ==
  ASSUME PurchasingTypeOK, NEW l \in Lines
  PROVE  /\ [n \in 1..NR |-> receipt[n].qty[l]] \in [1..NR -> Int]
         /\ [n \in 1..NR |-> receipt[n].good[l]] \in [1..NR -> Int]
         /\ [n \in 1..NR |-> IF receipt[n].status = "completed" THEN receipt[n].qty[l] ELSE 0] \in [1..NR -> Int]
BY LineTypes

LEMMA OrdersStart == ASSUME PurchasingInit PROVE OrdersInv
<1> USE DEF PurchasingInit
<1>1. PurchasingTypeOK
  <2>1. NoLine \in LineRows BY DEF NoLine, LineRows
  <2>2. NoReceipt \in ReceiptRowSet
    <3>1. [l \in Lines |-> 0] \in Quantities /\ 0 \in 0..NI BY PurchasingAssumption DEF Quantities
    <3> QED BY <3>1 DEF NoReceipt, ReceiptRowSet
  <2>3. NoReturn \in ReturnRows BY DEF NoReturn, ReturnRows
  <2>4. [status |-> "none", version |-> 1] \in OrderRows BY DEF OrderRows
  <2> QED BY <2>1, <2>2, <2>3, <2>4 DEF PurchasingTypeOK
<1>2. ASSUME NEW l \in Lines PROVE LineCounted(l)
  <2>1. /\ ReceivedOn(l) = Total([n \in 1..NR |-> 0], NR) /\ AcceptedOn(l) = Total([n \in 1..NR |-> 0], NR)
        /\ InspectedOn(l) = Total([n \in 1..NR |-> 0], NR)
    <3>1. /\ [n \in ReceiptRows |-> receipt[n].qty[l]] = [n \in 1..NR |-> 0]
          /\ [n \in ReceiptRows |-> receipt[n].good[l]] = [n \in 1..NR |-> 0]
          /\ [n \in ReceiptRows |-> IF receipt[n].status = "completed" THEN receipt[n].qty[l] ELSE 0]
               = [n \in 1..NR |-> 0]
      BY DEF ReceiptRows, NoReceipt
    <3> QED BY <3>1 DEF ReceivedOn, AcceptedOn, InspectedOn
  <2>2. Total([n \in 1..NR |-> 0], NR) = 0 BY PurchasingAssumption, TotalBlank
  <2>3. line[l] = NoLine OBVIOUS
  <2> QED BY <2>1, <2>2, <2>3 DEF LineCounted, NoLine
<1>3. \A l \in Lines : Unmade(l) BY DEF Unmade
<1>4. \A n \in ReceiptRows : Uninspected(n) BY DEF Uninspected, NoReceipt
<1>5. \A o \in Orders : Tells(o) BY DEF Tells, Came, LinesOf, NoLine
<1> QED BY <1>1, <1>2, <1>3, <1>4, <1>5 DEF OrdersInv

LEMMA ReturnsStart == ASSUME PurchasingInit PROVE ReturnsInv
<1> USE DEF PurchasingInit
<1>1. \A r \in Returns : return[r].status = "draft" BY DEF NoReturn
<1>2. \A r \in Returns : UnderWay(r) /\ Announced(r) BY <1>1 DEF UnderWay, Announced
<1>3. ASSUME NEW l \in Lines PROVE ReturnCounted(l)
  <2> DEFINE f == [r \in Returns |-> IF r \in returnEvents THEN TakenFrom(r, l) ELSE 0]
  <2>1. \A r \in Returns : f[r] = 0 OBVIOUS
  <2>2. IsFiniteSet(Returns) BY PurchasingAssumption
  <2>3. DispatchedFrom(l) = SumOver(f, Returns) BY DEF DispatchedFrom
  <2> HIDE DEF f
  <2>4. DispatchedFrom(l) = 0 BY <2>1, <2>2, <2>3, SumZero
  <2>5. line[l].returned = 0 BY DEF NoLine
  <2> QED BY <2>4, <2>5 DEF ReturnCounted
<1> QED BY <1>2, <1>3 DEF ReturnsInv

\* A step that keeps the quantities that tell an order's status, and its status
\* or at least that nothing came.
LEMMA TellsKept ==
  ASSUME NEW o \in Orders, Tells(o),
         \A l \in Lines : l[1] = o => /\ line'[l].ordered = line[l].ordered
                                      /\ line'[l].received = line[l].received,
         \/ order'[o].status = order[o].status
         \/ /\ order[o].status \notin {"received", "partially_received"}
            /\ order'[o].status \notin {"received", "partially_received"}
  PROVE  Tells(o)'
<1>1. LinesOf(o)' = LinesOf(o) BY DEF LinesOf
<1>2. Came(o)' = Came(o) /\ Due(o)' = Due(o) BY <1>1 DEF Came, Due, LinesOf
<1> QED BY <1>2 DEF Tells

\* A step that changes neither lines nor receipts.
LEMMA LinesKept ==
  ASSUME OrdersInv, UNCHANGED <<line, receipt>>, order' \in [Orders -> OrderRows],
         \A o \in Orders :
           /\ order'[o].status = "none" => order[o].status = "none"
           /\ \/ order'[o].status = order[o].status
              \/ /\ order[o].status \notin {"received", "partially_received"}
                 /\ order'[o].status \notin {"received", "partially_received"},
         return' \in [Returns -> ReturnRows]
  PROVE  OrdersInv'
<1>1. PurchasingTypeOK' BY DEF OrdersInv, PurchasingTypeOK
<1>2. \A l \in Lines : LineCounted(l)'
  BY DEF OrdersInv, LineCounted, ReceivedOn, AcceptedOn, InspectedOn
<1>3. \A l \in Lines : l[1] \in Orders BY DEF Lines
<1>4. \A l \in Lines : Unmade(l)' BY <1>3 DEF OrdersInv, Unmade
<1>5. \A n \in ReceiptRows : Uninspected(n)' BY DEF OrdersInv, Uninspected
<1>6. \A o \in Orders : Tells(o)' BY TellsKept DEF OrdersInv
<1> QED BY <1>1, <1>2, <1>4, <1>5, <1>6 DEF OrdersInv

\* Nothing came of a line that is not there.
LEMMA NoLineCounts ==
  ASSUME OrdersInv, NEW l \in Lines, line[l] = NoLine
  PROVE  ReceivedOn(l) = 0 /\ AcceptedOn(l) = 0 /\ InspectedOn(l) = 0
<1>1. LineCounted(l) BY DEF OrdersInv
<1> QED BY <1>1 DEF LineCounted, NoLine

LEMMA CreateOrderStep ==
  ASSUME OrdersInv, NEW o \in Orders, NEW wanted \in Seq(Nat), CreateOrder(o, wanted)
  PROVE  OrdersInv' /\ \A l \in Lines : line'[l].returned = line[l].returned
<1> DEFINE N(l) == [NoLine EXCEPT !.ordered = wanted[l[2]]]
<1>1. /\ order[o].status = "none" /\ order' = [order EXCEPT ![o].status = "draft"]
      /\ line' = [l \in Lines |-> IF l[1] = o /\ l[2] \in DOMAIN wanted THEN N(l) ELSE line[l]]
      /\ UNCHANGED <<receipt, return>>
  BY DEF CreateOrder, returnVars
<1>2. order' \in [Orders -> OrderRows] /\ order'[o].status = "draft"
      /\ \A x \in Orders \ {o} : order'[x] = order[x]
  BY <1>1 DEF OrdersInv, PurchasingTypeOK, OrderRows
<1>3. ASSUME NEW l \in Lines, l[1] = o, l[2] \in DOMAIN wanted
      PROVE  /\ N(l) \in LineRows /\ N(l).received = 0 /\ N(l).accepted = 0 /\ N(l).rejected = 0
             /\ N(l).returned = 0 /\ N(l).ordered \in Nat
  <2>1. wanted[l[2]] \in Nat BY <1>3
  <2> QED BY <2>1 DEF NoLine, LineRows
<1>4. \A l \in Lines : l[1] = o => line[l] = NoLine BY <1>1 DEF OrdersInv, Unmade
<1> HIDE DEF N
<1>5. ASSUME NEW l \in Lines
      PROVE  /\ line'[l] \in LineRows /\ line'[l].received = line[l].received
             /\ line'[l].accepted = line[l].accepted /\ line'[l].rejected = line[l].rejected
             /\ line'[l].returned = line[l].returned /\ line'[l].received <= line'[l].ordered
  <2>1. line[l] \in LineRows /\ line[l].received <= line[l].ordered
    BY DEF OrdersInv, PurchasingTypeOK, LineCounted
  <2>2. CASE l[1] = o /\ l[2] \in DOMAIN wanted
    <3>1. line'[l] = N(l) /\ line[l] = NoLine BY <1>1, <1>4, <2>2
    <3> QED BY <1>3, <2>2, <3>1 DEF NoLine
  <2>3. CASE ~(l[1] = o /\ l[2] \in DOMAIN wanted)
    <3>1. line'[l] = line[l] BY <1>1, <2>3
    <3> QED BY <2>1, <3>1
  <2> QED BY <2>2, <2>3
<1>6. PurchasingTypeOK'
  <2>1. line' \in [Lines -> LineRows] BY <1>1, <1>5
  <2> QED BY <1>1, <1>2, <2>1 DEF OrdersInv, PurchasingTypeOK
<1>7. ASSUME NEW l \in Lines PROVE LineCounted(l)'
  <2>1. LineCounted(l) BY DEF OrdersInv
  <2> QED BY <1>1, <1>5, <2>1 DEF LineCounted, ReceivedOn, AcceptedOn, InspectedOn
<1>8. ASSUME NEW l \in Lines PROVE Unmade(l)'
  <2>1. Unmade(l) /\ l[1] \in Orders BY DEF OrdersInv, Lines
  <2> QED BY <1>1, <1>2, <2>1 DEF Unmade
<1>9. \A n \in ReceiptRows : Uninspected(n)' BY <1>1 DEF OrdersInv, Uninspected
<1>10. ASSUME NEW x \in Orders PROVE Tells(x)'
  <2>1. Tells(x) BY DEF OrdersInv
  <2>2. CASE x # o
    <3>1. \A l \in Lines : l[1] = x => line'[l] = line[l] BY <1>1, <2>2
    <3> QED BY <1>2, <2>1, <2>2, <3>1, TellsKept
  <2>3. CASE x = o
    <3>1. \A l \in Lines : l[1] = o => line'[l].received = 0 BY <1>4, <1>5 DEF NoLine
    <3>2. ~Came(o)' BY <3>1 DEF Came, LinesOf
    <3> QED BY <1>2, <2>3, <3>2 DEF Tells
  <2> QED BY <2>2, <2>3
<1> QED BY <1>5, <1>6, <1>7, <1>8, <1>9, <1>10 DEF OrdersInv

LEMMA TransitionStep ==
  ASSUME OrdersInv, NEW o \in Orders, NEW action \in OrderActions, NEW v, TransitionOrder(o, action, v)
  PROVE  OrdersInv'
<1> DEFINE to == Target(o, action)
           new == [status |-> to, version |-> order[o].version + 1]
<1>1. /\ to \in {"approved", "issued", "cancelled"} /\ order[o].status \in {"draft", "approved", "issued"}
  BY DEF TransitionOrder, Target
<1>2. order' = [order EXCEPT ![o] = new] /\ UNCHANGED <<line, receipt, return>>
  BY DEF TransitionOrder, returnVars
<1>3. order \in [Orders -> OrderRows] /\ order[o].version \in Nat
  BY DEF OrdersInv, PurchasingTypeOK, OrderRows
<1> HIDE DEF to
<1>4. new \in OrderRows /\ new.status = to BY <1>1, <1>3 DEF OrderRows
<1> HIDE DEF new
<1>5. order' \in [Orders -> OrderRows] /\ order'[o] = new /\ \A x \in Orders \ {o} : order'[x] = order[x]
  BY <1>2, <1>3, <1>4
<1> QED BY <1>1, <1>2, <1>4, <1>5, LinesKept DEF OrdersInv, PurchasingTypeOK

LEMMA ReceiveStep ==
  ASSUME OrdersInv, NEW o \in Orders, NEW n \in ReceiptRows, NEW q \in Deliveries, Receive(o, n, q)
  PROVE  OrdersInv' /\ \A l \in Lines : line'[l].returned = line[l].returned
<1> DEFINE A(l) == [line[l] EXCEPT !.received = @ + q[l]]
           new == [NoReceipt EXCEPT !.status = "inspection", !.order = o, !.qty = q]
           after == [l \in Lines |-> A(l)]
           row == [status |-> ReceivedStatus(o, after, q), version |-> order[o].version + 1]
<1>1. /\ receipt[n] = NoReceipt /\ order[o].status \in {"issued", "partially_received"}
      /\ \E l \in Lines : q[l] > 0
      /\ \A l \in Lines : q[l] > 0 => l \in LinesOf(o)
      /\ \A l \in LinesOf(o) : line[l].received + q[l] <= line[l].ordered
      /\ receipt' = [receipt EXCEPT ![n] = new] /\ line' = after
      /\ order' = [order EXCEPT ![o] = row] /\ return' = return
  BY DEF Receive, returnVars
<1>2. q \in [Lines -> 0..MaxQty] /\ \A l \in Lines : q[l] \in Nat
  <2>1. q \in [Lines -> 0..MaxQty] /\ MaxQty \in Nat BY PurchasingAssumption DEF Lines
  <2> QED BY <2>1
<1>3. PurchasingTypeOK BY DEF OrdersInv
<1>4. ASSUME NEW l \in Lines
      PROVE  /\ A(l) \in LineRows /\ A(l).received = line[l].received + q[l] /\ A(l).ordered = line[l].ordered
             /\ A(l).accepted = line[l].accepted /\ A(l).rejected = line[l].rejected
             /\ A(l).returned = line[l].returned
  <2>1. line[l] \in LineRows /\ line[l].received + q[l] \in Nat BY <1>2, <1>3, LineTypes
  <2> QED BY <2>1 DEF LineRows
<1>5. /\ new \in ReceiptRowSet /\ new.qty = q /\ new.good = [l \in Lines |-> 0]
      /\ new.status = "inspection"
  <2>1. [l \in Lines |-> 0] \in Quantities /\ q \in Quantities /\ 0 \in 0..NI
    BY <1>2, PurchasingAssumption DEF Quantities
  <2> QED BY <2>1 DEF NoReceipt, ReceiptRowSet
<1> HIDE DEF A, new
<1>6. \A l \in Lines : line'[l] = A(l) BY <1>1
<1>7. receipt' \in [ReceiptRows -> ReceiptRowSet] /\ receipt'[n] = new
      /\ \A m \in ReceiptRows \ {n} : receipt'[m] = receipt[m]
  BY <1>1, <1>3, <1>5 DEF PurchasingTypeOK
<1>8. /\ order' \in [Orders -> OrderRows] /\ order'[o].status = ReceivedStatus(o, after, q)
      /\ \A x \in Orders \ {o} : order'[x] = order[x]
      /\ order'[o].status \in {"received", "partially_received"}
  <2>1. ReceivedStatus(o, after, q) \in {"received", "partially_received"} BY DEF ReceivedStatus
  <2> HIDE DEF after
  <2>2. order \in [Orders -> OrderRows] /\ order[o].version \in Nat BY <1>3 DEF PurchasingTypeOK, OrderRows
  <2>3. row \in OrderRows /\ row.status = ReceivedStatus(o, after, q) BY <2>1, <2>2 DEF OrderRows
  <2> HIDE DEF row
  <2> QED BY <1>1, <2>1, <2>2, <2>3
<1>9. PurchasingTypeOK'
  <2>1. line' \in [Lines -> LineRows] BY <1>1, <1>4, <1>6
  <2> QED BY <1>1, <1>3, <1>7, <1>8, <2>1 DEF PurchasingTypeOK
<1>10. ASSUME NEW l \in Lines PROVE LineCounted(l)'
  <2>1. LineCounted(l) BY DEF OrdersInv
  <2> DEFINE f == [m \in 1..NR |-> receipt[m].qty[l]]
             h == [m \in 1..NR |-> receipt'[m].qty[l]]
             g == [m \in 1..NR |-> receipt[m].good[l]]
             i == [m \in 1..NR |-> receipt'[m].good[l]]
             c == [m \in 1..NR |-> IF receipt[m].status = "completed" THEN receipt[m].qty[l] ELSE 0]
             d == [m \in 1..NR |-> IF receipt'[m].status = "completed" THEN receipt'[m].qty[l] ELSE 0]
  <2>2. /\ receipt[n].qty[l] = 0 /\ receipt[n].good[l] = 0 /\ receipt[n].status # "completed"
    BY <1>1 DEF NoReceipt
  <2>3. n \in 1..NR /\ NR \in Nat BY PurchasingAssumption DEF ReceiptRows
  <2>4. f \in [1..NR -> Int] /\ h \in [1..NR -> Int]
    <3>1. f \in [1..NR -> Int] BY <1>3, Columns
    <3>2. \A m \in 1..NR : receipt'[m].qty[l] \in Nat BY <1>9, RowTypes DEF PurchasingTypeOK, ReceiptRows
    <3> QED BY <3>1, <3>2
  <2>5. /\ \A m \in 1..NR : m # n => h[m] = f[m]
        /\ h[n] = q[l] /\ f[n] = 0
    BY <1>5, <1>7, <2>2, <2>3 DEF ReceiptRows
  <2>6. i = g /\ d = c
    <3>1. \A m \in 1..NR : i[m] = g[m] BY <1>5, <1>7, <2>2 DEF ReceiptRows
    <3>2. \A m \in 1..NR : d[m] = c[m] BY <1>5, <1>7, <2>2 DEF ReceiptRows
    <3> QED BY <3>1, <3>2
  <2>7. Total(h, NR) = Total(f, NR) + h[n] - f[n]
    <3> HIDE DEF f, h
    <3> QED BY <2>3, <2>4, <2>5, TotalChange
  <2>8. /\ ReceivedOn(l) = Total(f, NR) /\ ReceivedOn(l)' = Total(h, NR)
        /\ AcceptedOn(l) = Total(g, NR) /\ AcceptedOn(l)' = Total(i, NR)
        /\ InspectedOn(l) = Total(c, NR) /\ InspectedOn(l)' = Total(d, NR)
    BY DEF ReceivedOn, AcceptedOn, InspectedOn, ReceiptRows
  <2> HIDE DEF f, h, g, i, c, d
  <2>9. ReceivedOn(l)' = line'[l].received
    <3>1. line'[l].received = line[l].received + q[l] BY <1>4, <1>6
    <3>2. q[l] \in Nat /\ line[l].received \in Nat BY <1>2, <1>3, LineTypes
    <3>3. Total(f, NR) = line[l].received BY <2>1, <2>8 DEF LineCounted
    <3> QED BY <2>5, <2>7, <2>8, <3>1, <3>2, <3>3
  <2>10. line'[l].received <= line'[l].ordered
    <3>1. CASE q[l] > 0 BY <1>1, <1>4, <1>6, <3>1
    <3>2. CASE q[l] = 0
      <4>1. line'[l].received = line[l].received /\ line'[l].ordered = line[l].ordered
        BY <1>3, <1>4, <1>6, <3>2, LineTypes
      <4> QED BY <2>1, <4>1 DEF LineCounted
    <3> QED BY <1>2, <3>1, <3>2
  <2> QED BY <1>4, <1>6, <2>1, <2>6, <2>8, <2>9, <2>10 DEF LineCounted
<1>11. ASSUME NEW l \in Lines PROVE Unmade(l)'
  <2>1. Unmade(l) /\ l[1] \in Orders BY DEF OrdersInv, Lines
  <2>2. CASE l[1] = o BY <1>8, <2>2 DEF Unmade
  <2>3. CASE l[1] # o
    <3>1. l \notin LinesOf(o) BY <2>3 DEF LinesOf
    <3>2. q[l] = 0 BY <1>1, <1>2, <3>1
    <3>3. line'[l] = line[l]
      <4>1. line[l] \in LineRows /\ line[l].received \in Nat BY <1>3, LineTypes
      <4> QED BY <1>6, <3>2, <4>1 DEF A, LineRows
    <3> QED BY <1>8, <2>1, <2>3, <3>3 DEF Unmade
  <2> QED BY <2>2, <2>3
<1>12. \A m \in ReceiptRows : Uninspected(m)'
  BY <1>5, <1>7 DEF OrdersInv, Uninspected
<1>13. ASSUME NEW x \in Orders PROVE Tells(x)'
  <2>1. Tells(x) BY DEF OrdersInv
  <2>2. CASE x # o
    <3>1. \A l \in Lines : l[1] = x => line'[l].ordered = line[l].ordered /\ line'[l].received = line[l].received
      <4>1. ASSUME NEW l \in Lines, l[1] = x
            PROVE  line'[l].ordered = line[l].ordered /\ line'[l].received = line[l].received
        <5>1. q[l] = 0 BY <1>1, <1>2, <2>2, <4>1 DEF LinesOf
        <5> QED BY <1>3, <1>4, <1>6, <5>1, LineTypes
      <4> QED BY <4>1
    <3> QED BY <1>8, <2>1, <2>2, <3>1, TellsKept
  <2>3. CASE x = o
    <3>1. LinesOf(o)' = LinesOf(o) BY <1>4, <1>6 DEF LinesOf
    <3>2. Came(o)'
      <4>1. PICK l \in LinesOf(o) : q[l] > 0 BY <1>1
      <4>2. l \in Lines /\ line[l].received \in Nat BY <1>3, LineTypes DEF LinesOf
      <4>3. line'[l].received > 0 BY <1>2, <1>4, <1>6, <4>1, <4>2
      <4> QED BY <3>1, <4>1, <4>3 DEF Came
    <3>3. \A l \in LinesOf(o) : line'[l].received \in Nat /\ line'[l].ordered \in Nat
                                /\ line'[l].received <= line'[l].ordered
      <4>1. \A l \in LinesOf(o) : l \in Lines BY DEF LinesOf
      <4>2. \A l \in Lines : line'[l].received \in Nat /\ line'[l].ordered \in Nat
          BY <1>9, RowTypes DEF PurchasingTypeOK
      <4> QED BY <1>10, <4>1, <4>2 DEF LineCounted
    <3>4. Due(o)' <=> ~\A l \in LinesOf(o) : line'[l].received = line'[l].ordered
      BY <3>1, <3>3 DEF Due
    <3>5. order'[o].status = IF \A l \in LinesOf(o) : line'[l].received = line'[l].ordered
                             THEN "received" ELSE "partially_received"
      BY <1>1, <1>8 DEF ReceivedStatus
    <3> QED BY <2>3, <3>2, <3>4, <3>5 DEF Tells
  <2> QED BY <2>2, <2>3
<1> QED BY <1>4, <1>6, <1>9, <1>10, <1>11, <1>12, <1>13 DEF OrdersInv

LEMMA InspectStep ==
  ASSUME OrdersInv, NEW n \in ReceiptRows, NEW i \in 1..NI, NEW good \in Quantities, Inspect(n, i, good)
  PROVE  OrdersInv' /\ \A l \in Lines : line'[l].returned = line[l].returned
<1> DEFINE q == receipt[n].qty
           J(l) == Judged(line[l], q[l], good[l])
           new == [status |-> "completed", order |-> receipt[n].order, inspection |-> i,
                   qty |-> receipt[n].qty, good |-> good]
<1>1. PurchasingTypeOK BY DEF OrdersInv
<1>2. /\ receipt[n].status = "inspection" /\ \A l \in Lines : good[l] <= q[l]
      /\ receipt' = [receipt EXCEPT ![n] = new]
      /\ line' = [l \in Lines |-> J(l)] /\ UNCHANGED <<order, return>>
  BY <1>1 DEF Inspect, Findings, returnVars, PurchasingTypeOK
<1>3. n \in 1..NR /\ NR \in Nat /\ \A l \in Lines : q[l] \in Nat /\ good[l] \in Nat
  <2>1. n \in 1..NR BY DEF ReceiptRows
  <2>2. \A l \in Lines : good[l] \in Nat BY PurchasingAssumption DEF Quantities
  <2> QED BY <1>1, <2>1, <2>2, LineTypes
<1>4. new \in ReceiptRowSet /\ new.status = "completed" /\ new.qty = q /\ new.good = good
  <2>1. receipt[n] \in ReceiptRowSet /\ i \in 0..NI BY <1>1, PurchasingAssumption DEF PurchasingTypeOK
  <2> QED BY <2>1 DEF ReceiptRowSet
<1>5. ASSUME NEW l \in Lines
      PROVE  /\ J(l) \in LineRows /\ J(l).ordered = line[l].ordered /\ J(l).received = line[l].received
             /\ J(l).accepted = line[l].accepted + good[l]
             /\ J(l).rejected = line[l].rejected + (q[l] - good[l])
             /\ J(l).returned = line[l].returned
  <2>1. /\ line[l] \in LineRows /\ line[l].accepted \in Nat /\ line[l].rejected \in Nat
        /\ q[l] \in Nat /\ good[l] \in Nat /\ good[l] <= q[l]
    BY <1>1, <1>2, <1>3, LineTypes
  <2> HIDE DEF q
  <2>2. line[l].accepted + good[l] \in Nat /\ line[l].rejected + (q[l] - good[l]) \in Nat
        /\ line[l].rejected + q[l] - good[l] = line[l].rejected + (q[l] - good[l])
    BY <2>1
  <2>3. \A x \in LineRows : x.accepted + good[l] \in Nat /\ x.rejected + (q[l] - good[l]) \in Nat =>
          /\ Judged(x, q[l], good[l]) \in LineRows
          /\ Judged(x, q[l], good[l]).ordered = x.ordered
          /\ Judged(x, q[l], good[l]).received = x.received
          /\ Judged(x, q[l], good[l]).returned = x.returned
          /\ Judged(x, q[l], good[l]).accepted = x.accepted + good[l]
          /\ Judged(x, q[l], good[l]).rejected = x.rejected + (q[l] - good[l])
    BY <2>1 DEF Judged, LineRows
  <2> QED BY <2>1, <2>2, <2>3
<1> HIDE DEF J, new, q
<1>6. receipt' \in [ReceiptRows -> ReceiptRowSet] /\ receipt'[n] = new
      /\ \A m \in ReceiptRows \ {n} : receipt'[m] = receipt[m]
  BY <1>1, <1>2, <1>4 DEF PurchasingTypeOK
<1>7. \A l \in Lines : line'[l] = J(l) BY <1>2
<1>8. PurchasingTypeOK'
  <2>1. line' \in [Lines -> LineRows] BY <1>2, <1>5
  <2> QED BY <1>1, <1>2, <1>6, <2>1 DEF PurchasingTypeOK
<1>9. ASSUME NEW l \in Lines PROVE LineCounted(l)'
  <2>1. LineCounted(l) BY DEF OrdersInv
  <2> DEFINE f == [m \in 1..NR |-> receipt[m].qty[l]]
             h == [m \in 1..NR |-> receipt'[m].qty[l]]
             g == [m \in 1..NR |-> receipt[m].good[l]]
             a == [m \in 1..NR |-> receipt'[m].good[l]]
             c == [m \in 1..NR |-> IF receipt[m].status = "completed" THEN receipt[m].qty[l] ELSE 0]
             d == [m \in 1..NR |-> IF receipt'[m].status = "completed" THEN receipt'[m].qty[l] ELSE 0]
  <2>2. receipt[n].good[l] = 0 /\ receipt[n].status # "completed" /\ receipt[n].qty[l] = q[l]
    BY <1>2 DEF OrdersInv, Uninspected, q
  <2>3. f = h
    <3>1. \A m \in 1..NR : h[m] = f[m] BY <1>4, <1>6, <2>2 DEF ReceiptRows
    <3> QED BY <3>1
  <2>4. g \in [1..NR -> Int] /\ c \in [1..NR -> Int] BY <1>1, Columns
  <2>5. a \in [1..NR -> Int] /\ d \in [1..NR -> Int]
    <3>1. \A m \in 1..NR : receipt'[m].qty[l] \in Nat /\ receipt'[m].good[l] \in Nat
      BY <1>8, RowTypes DEF PurchasingTypeOK, ReceiptRows
    <3> QED BY <3>1
  <2>6. /\ \A m \in 1..NR : m # n => a[m] = g[m]
        /\ a[n] = good[l] /\ g[n] = 0
    BY <1>3, <1>4, <1>6, <2>2 DEF ReceiptRows
  <2>7. /\ \A m \in 1..NR : m # n => d[m] = c[m]
        /\ d[n] = q[l] /\ c[n] = 0
    BY <1>3, <1>4, <1>6, <2>2 DEF ReceiptRows
  <2>8. /\ ReceivedOn(l) = Total(f, NR) /\ ReceivedOn(l)' = Total(h, NR)
        /\ AcceptedOn(l) = Total(g, NR) /\ AcceptedOn(l)' = Total(a, NR)
        /\ InspectedOn(l) = Total(c, NR) /\ InspectedOn(l)' = Total(d, NR)
    BY DEF ReceivedOn, AcceptedOn, InspectedOn, ReceiptRows
  <2> HIDE DEF f, h, g, a, c, d
  <2>9. Total(a, NR) = Total(g, NR) + a[n] - g[n] BY <1>3, <2>4, <2>5, <2>6, TotalChange
  <2>10. Total(d, NR) = Total(c, NR) + d[n] - c[n] BY <1>3, <2>4, <2>5, <2>7, TotalChange
  <2>11. /\ line[l].accepted \in Nat /\ line[l].rejected \in Nat /\ q[l] \in Nat /\ good[l] \in Nat
    BY <1>1, <1>3, LineTypes
  <2>12. line'[l].accepted = line[l].accepted + good[l]
         /\ line'[l].rejected = line[l].rejected + (q[l] - good[l])
         /\ line'[l].received = line[l].received /\ line'[l].ordered = line[l].ordered
    BY <1>5, <1>7
  <2>13. AcceptedOn(l)' = line'[l].accepted
    <3>1. Total(g, NR) = line[l].accepted BY <2>1, <2>8 DEF LineCounted
    <3> QED BY <2>6, <2>8, <2>9, <2>11, <2>12, <3>1
  <2>14. InspectedOn(l)' = line'[l].accepted + line'[l].rejected
    <3>1. Total(c, NR) = line[l].accepted + line[l].rejected BY <2>1, <2>8 DEF LineCounted
    <3> QED BY <2>7, <2>8, <2>10, <2>11, <2>12, <3>1
  <2> QED BY <2>1, <2>3, <2>8, <2>12, <2>13, <2>14 DEF LineCounted
<1>10. ASSUME NEW l \in Lines PROVE Unmade(l)'
  <2>1. Unmade(l) /\ LineCounted(l) /\ line[l] \in LineRows BY <1>1 DEF OrdersInv, PurchasingTypeOK
  <2>2. CASE order[l[1]].status # "none" BY <1>2, <2>2 DEF Unmade
  <2>3. CASE order[l[1]].status = "none"
    <3>1. line[l] = NoLine BY <2>1, <2>3 DEF Unmade
    <3>2. ReceivedOn(l) = 0 BY <3>1, NoLineCounts
    <3> DEFINE f == [m \in 1..NR |-> receipt[m].qty[l]]
    <3>3. f \in [1..NR -> Int] /\ \A m \in 1..NR : f[m] >= 0 BY <1>1, LineTypes, Columns
    <3>4. f[n] = q[l] BY <1>3 DEF q
    <3>5. ReceivedOn(l) = Total(f, NR) BY DEF ReceivedOn, ReceiptRows
    <3> HIDE DEF f
    <3>6. f[n] <= Total(f, NR) BY <1>3, <3>3, TotalCovers
    <3>7. q[l] = 0 /\ good[l] = 0 BY <1>2, <1>3, <3>2, <3>4, <3>5, <3>6
    <3>8. line'[l] = NoLine
      <4>1. /\ line'[l].ordered = 0 /\ line'[l].received = 0 /\ line'[l].accepted = 0
            /\ line'[l].rejected = 0 /\ line'[l].returned = 0 /\ line'[l] \in LineRows
        BY <1>5, <1>7, <3>1, <3>7 DEF NoLine
      <4>2. \A x \in LineRows : /\ x.ordered = 0 /\ x.received = 0 /\ x.accepted = 0
                               /\ x.rejected = 0 /\ x.returned = 0 => x = NoLine
        BY DEF LineRows, NoLine
      <4> QED BY <4>1, <4>2
    <3> QED BY <3>8 DEF Unmade
  <2> QED BY <2>2, <2>3
<1>11. \A m \in ReceiptRows : Uninspected(m)' BY <1>4, <1>6 DEF OrdersInv, Uninspected
<1>12. \A x \in Orders : Tells(x)'
  <2>1. \A l \in Lines : line'[l].ordered = line[l].ordered /\ line'[l].received = line[l].received
    BY <1>5, <1>7
  <2> QED BY <1>2, <2>1, TellsKept DEF OrdersInv
<1> QED BY <1>5, <1>7, <1>8, <1>9, <1>10, <1>11, <1>12 DEF OrdersInv

\* What a return takes of a line.
LEMMA TakenOnce ==
  ASSUME NEW r \in Returns, NEW l \in Lines
  PROVE  /\ TakenFrom(r, l) \in Nat
         /\ \A x \in ReturnLines[r] : /\ x.qty \in Nat \ {0} /\ x.line \in Lines
                                      /\ x.line = l => TakenFrom(r, l) = x.qty
                                                       /\ x = CHOOSE y \in ReturnLines[r] : y.line = l
         /\ (\A x \in ReturnLines[r] : x.line # l) => TakenFrom(r, l) = 0
<1>1. ReturnLines[r] \subseteq [line : Lines, balance : Balances, qty : Nat \ {0}]
  BY PurchasingAssumption DEF Lines
<1>2. \A x, y \in ReturnLines[r] : x.line = y.line => x = y BY PurchasingAssumption
<1>3. \A x \in ReturnLines[r] : x.qty \in Nat \ {0} /\ x.line \in Lines BY <1>1
<1>4. ASSUME NEW x \in ReturnLines[r], x.line = l
      PROVE  x = (CHOOSE y \in ReturnLines[r] : y.line = l) /\ TakenFrom(r, l) = x.qty
  <2>1. x = CHOOSE y \in ReturnLines[r] : y.line = l BY <1>2, <1>4
  <2> QED BY <1>4, <2>1 DEF TakenFrom
<1>5. (\A x \in ReturnLines[r] : x.line # l) => TakenFrom(r, l) = 0 BY DEF TakenFrom
<1>6. TakenFrom(r, l) \in Nat BY <1>3, <1>4, <1>5
<1> QED BY <1>3, <1>4, <1>5, <1>6

\* A step that changes no return and no returned quantity.
LEMMA ReturnsKept ==
  ASSUME ReturnsInv, UNCHANGED returnVars, \A l \in Lines : line'[l].returned = line[l].returned
  PROVE  ReturnsInv'
<1>1. UNCHANGED <<return, dispatching, form, forms, returnEvents, raced>> BY DEF returnVars
<1>2. \A l : DispatchedFrom(l)' = DispatchedFrom(l) BY <1>1 DEF DispatchedFrom
<1>3. \A r \in Returns : UnderWay(r)' /\ Announced(r)'
  BY <1>1, <1>2 DEF ReturnsInv, UnderWay, Announced
<1>4. \A l \in Lines : ReturnCounted(l)' BY <1>1, <1>2 DEF ReturnsInv, ReturnCounted
<1> QED BY <1>1, <1>3, <1>4 DEF ReturnsInv

\* A step that changes no order line, and by which no return leaves: a dispatch
\* that is begun reads the lines.
LEMMA NoneLeaves ==
  ASSUME ReturnsInv, UNCHANGED <<line, returnEvents, raced>>,
         dispatching' = [r \in Returns |-> dispatching'[r]],
         form' \in [Returns -> ReturnRows \cup {None}],
         \A r \in Returns : \/ dispatching'[r] = None \/ dispatching'[r] = dispatching[r]
                            \/ /\ dispatching'[r] \in Dispatch(r)
                               /\ \A x \in ReturnLines[r] :
                                    dispatching'[r].read[x] = line[x.line].returned,
         \A r \in Returns : Announced(r)'
  PROVE  ReturnsInv'
<1>1. \A l : DispatchedFrom(l)' = DispatchedFrom(l) BY DEF DispatchedFrom
<1>2. \A l \in Lines : ReturnCounted(l)' BY <1>1 DEF ReturnsInv, ReturnCounted
<1>3. ASSUME NEW r \in Returns PROVE UnderWay(r)'
  <2>1. \A x \in ReturnLines[r] : x.line \in Lines BY PurchasingAssumption DEF Lines
  <2>2. CASE dispatching'[r] = None \/ dispatching'[r] = dispatching[r]
    BY <1>1, <2>2 DEF ReturnsInv, UnderWay
  <2>3. CASE /\ dispatching'[r] \in Dispatch(r)
             /\ \A x \in ReturnLines[r] : dispatching'[r].read[x] = line[x.line].returned
    <3>1. \A x \in ReturnLines[r] : line[x.line].returned <= DispatchedFrom(x.line)
      BY <2>1 DEF ReturnsInv, ReturnCounted
    <3> QED BY <1>1, <2>3, <3>1 DEF UnderWay
  <2> QED BY <2>2, <2>3
<1> QED BY <1>2, <1>3 DEF ReturnsInv

\* What left of a line, and what does when one more return leaves.
LEMMA OneMoreLeaves ==
  ASSUME NEW r \in Returns, r \notin returnEvents, returnEvents' = returnEvents \cup {r},
         NEW l \in Lines
  PROVE  /\ DispatchedFrom(l) \in Int /\ TakenFrom(r, l) \in Nat
         /\ DispatchedFrom(l)' = DispatchedFrom(l) + TakenFrom(r, l)
<1> DEFINE f == [s \in Returns |-> IF s \in returnEvents THEN TakenFrom(s, l) ELSE 0]
           h == [s \in Returns |-> IF s \in returnEvents' THEN TakenFrom(s, l) ELSE 0]
<1>1. \A s \in Returns : TakenFrom(s, l) \in Nat BY TakenOnce
<1>2. h[r] = TakenFrom(r, l) /\ f[r] = 0 BY <1>1
<1>3. /\ IsFiniteSet(Returns) /\ r \in Returns /\ h[r] \in Int
      /\ \A s \in Returns : f[s] \in Int
      /\ \A s \in Returns : s # r => h[s] = f[s]
  BY <1>1, PurchasingAssumption
<1>4. DispatchedFrom(l) = SumOver(f, Returns) /\ DispatchedFrom(l)' = SumOver(h, Returns)
  BY DEF DispatchedFrom, TakenFrom
<1> HIDE DEF f, h
<1>5. SumOver(h, Returns) = SumOver(f, Returns) + h[r] - f[r] BY ONLY <1>3, SumChange
<1>6. SumOver(f, Returns) \in Int BY <1>3, SumType
<1> QED BY <1>1, <1>2, <1>4, <1>5, <1>6

LEMMA CloseLine ==
  ASSUME OrdersInv, ReturnsInv, NEW r \in Returns, CloseDispatch(r)
  PROVE  /\ dispatching[r] \in Dispatch(r)
         /\ \A l \in Lines :
              /\ \A x \in ReturnLines[r] :
                   x.line = l => line'[l] = [line[l] EXCEPT !.returned = dispatching[r].read[x] + x.qty]
              /\ (\A x \in ReturnLines[r] : x.line # l) => line'[l] = line[l]
<1>1. /\ dispatching[r] # None
      /\ line' = [l \in Lines |->
           IF \E x \in ReturnLines[r] : x.line = l
           THEN [line[l] EXCEPT !.returned =
                   Returned(dispatching[r].read, CHOOSE x \in ReturnLines[r] : x.line = l)]
           ELSE line[l]]
  BY DEF CloseDispatch
<1>2. ASSUME NEW l \in Lines, NEW x \in ReturnLines[r], x.line = l
      PROVE  line'[l] = [line[l] EXCEPT !.returned = dispatching[r].read[x] + x.qty]
  <2>1. x = CHOOSE y \in ReturnLines[r] : y.line = l BY <1>2, TakenOnce
  <2>2. line'[l] = [line[l] EXCEPT !.returned =
                      Returned(dispatching[r].read, CHOOSE y \in ReturnLines[r] : y.line = l)]
    BY <1>1, <1>2
  <2>3. line'[l] = [line[l] EXCEPT !.returned = Returned(dispatching[r].read, x)] BY <2>1, <2>2
  <2> QED BY <2>3 DEF Returned
<1>3. ASSUME NEW l \in Lines, \A x \in ReturnLines[r] : x.line # l PROVE line'[l] = line[l]
  BY <1>1, <1>3
<1> QED BY <1>1, <1>2, <1>3 DEF ReturnsInv, UnderWay

LEMMA CloseOrders ==
  ASSUME OrdersInv, ReturnsInv, NEW r \in Returns, CloseDispatch(r)
  PROVE  OrdersInv'
<1> DEFINE d == dispatching[r]
<1>1. /\ d \in Dispatch(r)
      /\ \A l \in Lines :
           /\ \A x \in ReturnLines[r] :
                x.line = l => line'[l] = [line[l] EXCEPT !.returned = d.read[x] + x.qty]
           /\ (\A x \in ReturnLines[r] : x.line # l) => line'[l] = line[l]
  BY CloseLine
<1>2. /\ UNCHANGED <<order, receipt>> /\ return' = [return EXCEPT ![r] = [status |-> "dispatched", key |-> d.key]]
      /\ \A x \in ReturnLines[r] : d.read[x] + x.qty <= line[x.line].rejected
      /\ line' = [l \in Lines |-> line'[l]]
  BY DEF CloseDispatch, Returned
<1>3. \A x \in ReturnLines[r] : d.read[x] \in Nat /\ d.read[x] + x.qty \in Nat /\ x.qty > 0
                                /\ d.read[x] + x.qty > 0 /\ x.line \in Lines
  <2>1. d.read \in [ReturnLines[r] -> Nat] BY <1>1 DEF Dispatch
  <2>2. \A x \in ReturnLines[r] : x.qty \in Nat \ {0} /\ x.line \in Lines
    BY PurchasingAssumption DEF Lines
  <2> QED BY <2>1, <2>2
<1>4. PurchasingTypeOK BY DEF OrdersInv
<1>5. ASSUME NEW l \in Lines
      PROVE  /\ line'[l] \in LineRows /\ line'[l].ordered = line[l].ordered
             /\ line'[l].received = line[l].received /\ line'[l].accepted = line[l].accepted
             /\ line'[l].rejected = line[l].rejected
  <2>1. line[l] \in LineRows BY <1>4 DEF PurchasingTypeOK
  <2>2. CASE \A x \in ReturnLines[r] : x.line # l
    <3>1. line'[l] = line[l] BY <1>1, <2>2
    <3> QED BY <2>1, <3>1
  <2>3. CASE \E x \in ReturnLines[r] : x.line = l
    <3>1. PICK x \in ReturnLines[r] : x.line = l BY <2>3
    <3> DEFINE t == d.read[x] + x.qty
    <3>2. line'[l] = [line[l] EXCEPT !.returned = t] /\ t \in Nat BY <1>1, <1>3, <3>1
    <3> HIDE DEF t
    <3>3. \A y \in LineRows : LET z == [y EXCEPT !.returned = t] IN
            /\ z \in LineRows /\ z.ordered = y.ordered /\ z.received = y.received
            /\ z.accepted = y.accepted /\ z.rejected = y.rejected
      BY <3>2 DEF LineRows
    <3> QED BY <2>1, <3>2, <3>3
  <2> QED BY <2>2, <2>3
<1>6. PurchasingTypeOK'
  <2>1. line' \in [Lines -> LineRows] BY <1>2, <1>5
  <2>2. d.key \in Keys BY <1>1 DEF Dispatch
  <2>3. [status |-> "dispatched", key |-> d.key] \in ReturnRows BY <2>2 DEF ReturnRows
  <2> HIDE DEF d
  <2> QED BY <1>2, <1>4, <2>1, <2>3 DEF PurchasingTypeOK
<1>7. \A l \in Lines : LineCounted(l)'
  BY <1>2, <1>5 DEF OrdersInv, LineCounted, ReceivedOn, AcceptedOn, InspectedOn
<1>8. ASSUME NEW l \in Lines PROVE Unmade(l)'
  <2>1. Unmade(l) BY DEF OrdersInv
  <2>2. CASE \A x \in ReturnLines[r] : x.line # l
    <3>1. line'[l] = line[l] BY <1>1, <2>2
    <3> QED BY <1>2, <2>1, <3>1 DEF Unmade
  <2>3. CASE \E x \in ReturnLines[r] : x.line = l
    <3>1. PICK x \in ReturnLines[r] : x.line = l BY <2>3
    <3>2. line[l].rejected \in Nat /\ line[l].rejected > 0
      <4>1. line[l].rejected \in Nat BY <1>4, LineTypes
      <4>2. d.read[x] + x.qty <= line[l].rejected BY <1>2, <3>1
      <4>3. d.read[x] + x.qty > 0 /\ d.read[x] + x.qty \in Nat BY <1>3
      <4> QED BY <4>1, <4>2, <4>3
    <3>3. line[l] # NoLine BY <3>2 DEF NoLine
    <3> QED BY <1>2, <2>1, <3>3 DEF Unmade
  <2> QED BY <2>2, <2>3
<1>9. \A n \in ReceiptRows : Uninspected(n)' BY <1>2 DEF OrdersInv, Uninspected
<1>10. \A x \in Orders : Tells(x)' BY <1>2, <1>5, TellsKept DEF OrdersInv
<1> QED BY <1>6, <1>7, <1>8, <1>9, <1>10 DEF OrdersInv

LEMMA CloseReturns ==
  ASSUME OrdersInv, ReturnsInv, NEW r \in Returns, CloseDispatch(r)
  PROVE  ReturnsInv'
<1> DEFINE d == dispatching[r]
<1>1. /\ d \in Dispatch(r)
      /\ \A l \in Lines :
           /\ \A x \in ReturnLines[r] :
                x.line = l => line'[l] = [line[l] EXCEPT !.returned = d.read[x] + x.qty]
           /\ (\A x \in ReturnLines[r] : x.line # l) => line'[l] = line[l]
  BY CloseLine
<1>2. /\ return' = [return EXCEPT ![r] = [status |-> "dispatched", key |-> d.key]]
      /\ dispatching' = [dispatching EXCEPT ![r] = None]
      /\ r \notin returnEvents /\ returnEvents' = returnEvents \cup {r} /\ form' = form
      /\ raced' = raced \cup {x.line : x \in {y \in ReturnLines[r] : d.read[y] # line[y.line].returned}}
  BY DEF CloseDispatch
<1>3. return \in [Returns -> ReturnRows] /\ PurchasingTypeOK BY DEF OrdersInv, PurchasingTypeOK
<1>4. \A x \in ReturnLines[r] : d.read[x] <= DispatchedFrom(x.line)
  BY DEF ReturnsInv, UnderWay, CloseDispatch
<1>5. \A x \in ReturnLines[r] : d.read[x] \in Nat /\ x.qty \in Nat
  <2>1. d.read \in [ReturnLines[r] -> Nat] BY <1>1 DEF Dispatch
  <2>2. \A x \in ReturnLines[r] : x.qty \in Nat \ {0} BY PurchasingAssumption
  <2> QED BY <2>1, <2>2
<1> HIDE DEF d
<1>6. \A l \in Lines : /\ DispatchedFrom(l) \in Int /\ TakenFrom(r, l) \in Nat
                       /\ DispatchedFrom(l)' = DispatchedFrom(l) + TakenFrom(r, l)
  BY <1>2, OneMoreLeaves
<1>7. \A s \in Returns \ {r} : return'[s] = return[s] BY <1>2, <1>3
<1>8. /\ dispatching' = [s \in Returns |-> dispatching'[s]] /\ dispatching'[r] = None
      /\ \A s \in Returns \ {r} : dispatching'[s] = dispatching[s]
  <2>1. dispatching = [s \in Returns |-> dispatching[s]] BY DEF ReturnsInv
  <2>2. dispatching' = [s \in Returns |-> IF s = r THEN None ELSE dispatching[s]] BY <1>2, <2>1
  <2> QED BY <2>2
<1>9. ASSUME NEW s \in Returns PROVE UnderWay(s)' /\ Announced(s)'
  <2>1. UnderWay(s) /\ Announced(s) BY DEF ReturnsInv
  <2>2. Announced(s)' BY <1>2, <1>7, <2>1 DEF Announced
  <2>3. CASE s = r BY <1>8, <2>2, <2>3 DEF UnderWay
  <2>4. CASE s # r /\ dispatching[s] # None
    <3>1. dispatching'[s] = dispatching[s] /\ dispatching[s] \in Dispatch(s) BY <1>8, <2>1, <2>4 DEF UnderWay
    <3>2. ASSUME NEW x \in ReturnLines[s] PROVE dispatching[s].read[x] <= DispatchedFrom(x.line)'
      <4>1. x.line \in Lines BY PurchasingAssumption DEF Lines
      <4>2. dispatching[s].read[x] \in Nat BY <3>1 DEF Dispatch
      <4>3. dispatching[s].read[x] <= DispatchedFrom(x.line) BY <2>1, <2>4 DEF UnderWay
      <4> QED BY <1>6, <4>1, <4>2, <4>3
    <3> QED BY <2>2, <3>1, <3>2 DEF UnderWay
  <2>5. CASE s # r /\ dispatching[s] = None BY <1>8, <2>2, <2>5 DEF UnderWay
  <2> QED BY <2>3, <2>4, <2>5
<1>10. ASSUME NEW l \in Lines PROVE ReturnCounted(l)'
  <2>1. ReturnCounted(l) BY DEF ReturnsInv
  <2>2. line[l] \in LineRows /\ line[l].returned \in Nat BY <1>3, LineTypes DEF PurchasingTypeOK
  <2>3. CASE \A x \in ReturnLines[r] : x.line # l
    <3>1. line'[l] = line[l] /\ TakenFrom(r, l) = 0 BY <1>1, <2>3, TakenOnce
    <3>2. DispatchedFrom(l)' = DispatchedFrom(l) BY <1>6, <3>1
    <3> QED BY <1>2, <2>1, <3>1, <3>2 DEF ReturnCounted
  <2>4. CASE \E x \in ReturnLines[r] : x.line = l
    <3>1. PICK x \in ReturnLines[r] : x.line = l BY <2>4
    <3>2. line'[l] = [line[l] EXCEPT !.returned = d.read[x] + x.qty] BY <1>1, <3>1
    <3>3. line'[l].returned = d.read[x] + x.qty BY <2>2, <3>2 DEF LineRows
    <3>4. TakenFrom(r, l) = x.qty BY <3>1, TakenOnce
    <3>5. DispatchedFrom(l)' = DispatchedFrom(l) + x.qty BY <1>6, <3>4
    <3>6. line'[l].returned <= DispatchedFrom(l)' BY <1>4, <1>5, <1>6, <3>1, <3>3, <3>5
    <3>7. l \notin raced' => d.read[x] = line[l].returned /\ l \notin raced BY <1>2, <3>1
    <3>8. l \notin raced' => line'[l].returned = DispatchedFrom(l)'
      BY <2>1, <3>3, <3>5, <3>7 DEF ReturnCounted
    <3> QED BY <3>6, <3>8 DEF ReturnCounted
  <2> QED BY <2>3, <2>4
<1>11. form' \in [Returns -> ReturnRows \cup {None}] /\ returnEvents' \subseteq Returns
  BY <1>2 DEF ReturnsInv
<1> QED BY <1>8, <1>9, <1>10, <1>11 DEF ReturnsInv

LEMMA SaveFormStep ==
  ASSUME OrdersInv, ReturnsInv, NEW r \in Returns, SaveForm(r)
  PROVE  return' \in [Returns -> ReturnRows] /\ ReturnsInv'
<1>1. /\ form[r] # None /\ return' = [return EXCEPT ![r] = form[r]]
      /\ form' = [form EXCEPT ![r] = None]
      /\ UNCHANGED <<line, dispatching, returnEvents, raced>>
  BY DEF SaveForm, orderVars
<1>2. return \in [Returns -> ReturnRows] /\ form \in [Returns -> ReturnRows \cup {None}]
  BY DEF OrdersInv, PurchasingTypeOK, ReturnsInv
<1>3. form[r] \in ReturnRows BY <1>1, <1>2
<1>4. /\ return' \in [Returns -> ReturnRows] /\ form' \in [Returns -> ReturnRows \cup {None}]
      /\ return'[r] = form[r] /\ form'[r] = None
      /\ \A s \in Returns \ {r} : return'[s] = return[s] /\ form'[s] = form[s]
  BY <1>1, <1>2, <1>3
<1>5. \A s \in Returns : Announced(s)' BY <1>1, <1>4 DEF ReturnsInv, Announced
<1>6. dispatching' = [s \in Returns |-> dispatching'[s]] BY <1>1 DEF ReturnsInv
<1>7. ReturnsInv' BY <1>1, <1>4, <1>5, <1>6, NoneLeaves
<1> QED BY <1>4, <1>7

LEMMA PurchasingStep ==
  ASSUME OrdersInv, ReturnsInv, [SupplyNext]_supplyVars PROVE OrdersInv' /\ ReturnsInv'
<1>1. return \in [Returns -> ReturnRows] /\ order \in [Orders -> OrderRows]
  BY DEF OrdersInv, PurchasingTypeOK
<1>2. ASSUME UNCHANGED <<line, receipt, order>>, return' \in [Returns -> ReturnRows]
      PROVE  OrdersInv'
  BY <1>1, <1>2, LinesKept
<1>3. ASSUME NEW o \in Orders, NEW action \in OrderActions, NEW v, TransitionOrder(o, action, v)
      PROVE  OrdersInv' /\ ReturnsInv'
  <2>1. UNCHANGED returnVars /\ line' = line BY <1>3 DEF TransitionOrder
  <2> QED BY <1>3, <2>1, TransitionStep, ReturnsKept
<1>4. ASSUME NEW o \in Orders, NEW n \in ReceiptRows, NEW q \in Deliveries, Receive(o, n, q)
      PROVE  OrdersInv' /\ ReturnsInv'
  <2>1. UNCHANGED returnVars BY <1>4 DEF Receive
  <2> QED BY <1>4, <2>1, ReceiveStep, ReturnsKept
<1>5. ASSUME NEW n \in ReceiptRows, NEW i \in 1..NI, NEW good \in Quantities, Inspect(n, i, good)
      PROVE  OrdersInv' /\ ReturnsInv'
  <2>1. UNCHANGED returnVars BY <1>5 DEF Inspect
  <2> QED BY <1>5, <2>1, InspectStep, ReturnsKept
<1>6. ASSUME NEW o \in Orders, NEW wanted \in Seq(Nat), CreateOrder(o, wanted)
      PROVE  OrdersInv' /\ ReturnsInv'
  <2>1. UNCHANGED returnVars BY <1>6 DEF CreateOrder
  <2> QED BY <1>6, <2>1, CreateOrderStep, ReturnsKept
<1>7. ASSUME NEW r \in Returns, NEW actor \in Staff, ApproveReturn(r, actor)
      PROVE  OrdersInv' /\ ReturnsInv'
  <2>1. /\ return' = [return EXCEPT ![r].status = "approved"] /\ return[r].status = "draft"
        /\ UNCHANGED <<line, receipt, order, dispatching, form, returnEvents, raced>>
    BY <1>7 DEF ApproveReturn, orderVars
  <2>2. /\ return' \in [Returns -> ReturnRows] /\ return'[r].status = "approved"
        /\ \A s \in Returns \ {r} : return'[s] = return[s]
    BY <1>1, <2>1 DEF ReturnRows
  <2>3. \A s \in Returns : Announced(s)' BY <2>1, <2>2 DEF ReturnsInv, Announced
  <2>4. ReturnsInv' BY <2>1, <2>3, NoneLeaves DEF ReturnsInv
  <2> QED BY <1>2, <2>1, <2>2, <2>4
<1>8. ASSUME NEW r \in Returns, NEW k \in Keys, OpenDispatch(r, k)
      PROVE  OrdersInv' /\ ReturnsInv'
  <2> DEFINE read == [x \in ReturnLines[r] |-> line[x.line].returned]
             d == [key |-> k, read |-> read]
  <2>1. /\ return[r].status = "approved" /\ dispatching' = [dispatching EXCEPT ![r] = d]
        /\ UNCHANGED <<line, receipt, order, return, form, returnEvents, raced>>
    BY <1>8 DEF OpenDispatch, orderVars
  <2>2. d \in Dispatch(r) /\ \A x \in ReturnLines[r] : d.read[x] = line[x.line].returned
    <3>1. \A x \in ReturnLines[r] : x.line \in Lines BY PurchasingAssumption DEF Lines
    <3>2. \A x \in ReturnLines[r] : line[x.line].returned \in Nat BY <3>1, LineTypes DEF OrdersInv
    <3>3. read \in [ReturnLines[r] -> Nat] BY <3>2
    <3> QED BY <3>3 DEF Dispatch
  <2> HIDE DEF d, read
  <2>3. /\ dispatching' = [s \in Returns |-> dispatching'[s]] /\ dispatching'[r] = d
        /\ \A s \in Returns \ {r} : dispatching'[s] = dispatching[s]
    <3>1. dispatching = [s \in Returns |-> dispatching[s]] BY DEF ReturnsInv
    <3>2. dispatching' = [s \in Returns |-> IF s = r THEN d ELSE dispatching[s]] BY <2>1, <3>1
    <3> QED BY <3>2
  <2>4. \A s \in Returns : Announced(s)' BY <2>1 DEF ReturnsInv, Announced
  <2>5. ReturnsInv' BY <2>1, <2>2, <2>3, <2>4, NoneLeaves DEF ReturnsInv
  <2> QED BY <1>1, <1>2, <2>1, <2>5
<1>9. ASSUME NEW r \in Returns, CloseDispatch(r) PROVE OrdersInv' /\ ReturnsInv'
  BY <1>9, CloseOrders, CloseReturns
<1>10. ASSUME NEW r \in Returns, AbortDispatch(r) PROVE OrdersInv' /\ ReturnsInv'
  <2>1. /\ dispatching' = [dispatching EXCEPT ![r] = None]
        /\ UNCHANGED <<line, receipt, order, return, form, returnEvents, raced>>
    BY <1>10 DEF AbortDispatch, orderVars
  <2>2. /\ dispatching' = [s \in Returns |-> dispatching'[s]] /\ dispatching'[r] = None
        /\ \A s \in Returns \ {r} : dispatching'[s] = dispatching[s]
    <3>1. dispatching = [s \in Returns |-> dispatching[s]] BY DEF ReturnsInv
    <3>2. dispatching' = [s \in Returns |-> IF s = r THEN None ELSE dispatching[s]] BY <2>1, <3>1
    <3> QED BY <3>2
  <2>3. \A s \in Returns : Announced(s)' BY <2>1 DEF ReturnsInv, Announced
  <2>4. ReturnsInv' BY <2>1, <2>2, <2>3, NoneLeaves DEF ReturnsInv
  <2> QED BY <1>1, <1>2, <2>1, <2>4
<1>11. ASSUME NEW r \in Returns, OpenForm(r) PROVE OrdersInv' /\ ReturnsInv'
  <2>1. /\ form' = [form EXCEPT ![r] = return[r]]
        /\ UNCHANGED <<line, receipt, order, return, dispatching, returnEvents, raced>>
    BY <1>11 DEF OpenForm, orderVars
  <2>2. form' \in [Returns -> ReturnRows \cup {None}] BY <1>1, <2>1 DEF ReturnsInv
  <2>3. \A s \in Returns : Announced(s)'
    <3>1. form'[r] = return[r] /\ \A s \in Returns \ {r} : form'[s] = form[s] BY <2>1 DEF ReturnsInv
    <3> QED BY <2>1, <3>1 DEF ReturnsInv, Announced
  <2>4. ReturnsInv' BY <2>1, <2>2, <2>3, NoneLeaves DEF ReturnsInv
  <2> QED BY <1>1, <1>2, <2>1, <2>4
<1>12. ASSUME NEW r \in Returns, SaveForm(r) PROVE OrdersInv' /\ ReturnsInv'
  <2>1. UNCHANGED <<line, receipt, order>> BY <1>12 DEF SaveForm, orderVars
  <2> QED BY <1>2, <1>12, <2>1, SaveFormStep
<1>13. CASE UNCHANGED <<orderVars, returnVars>>
  <2>1. UNCHANGED <<order, line, receipt, return>> /\ UNCHANGED returnVars
    BY <1>13 DEF orderVars, returnVars
  <2> QED BY <1>1, <1>2, <2>1, ReturnsKept
<1>14. CASE PurchasingNext
  BY <1>3, <1>4, <1>5, <1>7, <1>8, <1>9, <1>10, <1>11, <1>12, <1>14 DEF PurchasingNext
<1> QED BY <1>6, <1>13, <1>14, PartMoves

\* The counters of an order line are what its receipts and inspections add up
\* to, no line takes more than was ordered, and the status of the order tells it
\* (receive_purchase_order, complete_purchase_inspection).
THEOREM LinesAreCountedAlways == SupplySpec => []LinesAreCounted
<1>1. SupplyInit => OrdersInv /\ ReturnsInv BY OrdersStart, ReturnsStart DEF SupplyInit
<1> QED BY <1>1, PurchasingStep, LinesTell, PTL DEF SupplySpec

\* The returned quantity of a line is what the returns that left took of it, each
\* once, whatever edits put back; where two dispatches overlapped on the line it
\* may be less, and never more (dispatch_purchase_return, PurchaseReturnViewSet).
THEOREM ReturnsAreCountedAlways == SupplySpec => []ReturnsAreCounted
<1>1. SupplyInit => OrdersInv /\ ReturnsInv BY OrdersStart, ReturnsStart DEF SupplyInit
<1> QED BY <1>1, PurchasingStep, ReturnsTell, PTL DEF SupplySpec
-----------------------------------------------------------------------------
(***************************************************************************)
(* The stock.  A key in the ledger is known to the document that booked    *)
(* it (Told), so that a document that is new, of a client who did not use  *)
(* its key before, books all of its rows: the stock moves by what they     *)
(* add up to, and so does what the documents say (Said).                   *)
(***************************************************************************)
Told(key) ==
  /\ Len(key) = 4 =>
       \E n \in ReceiptRows : receipt[n].status = "completed" /\ receipt[n].inspection = key[2]
  /\ Len(key) = 3 =>
       /\ key[2] = "line" => key[1] \in DOMAIN issue
       /\ key[2] = "material" => MaterialUse(key[1]) # {}
       /\ key[2] \in Returns => key[2] \in returnEvents
  /\ Len(key) = 2 =>
       /\ key[2] \in {"A", "R"} => key[1] \in DOMAIN completion
       /\ key[2] \in {"accepted", "rejected"} => ReceiptUse(key[1]) # {}
       /\ key[2] \in {"product-source", "product-target"} => key[1] \in DOMAIN execution
       /\ key[2] \in {"product-prepacked", "product-restored"} => key[1] \in DOMAIN breakdown

\* KeysAreApart, without counting.
OneUse ==
  \A k \in SubKeys \cup PackKeys :
    /\ \A x, y \in MaterialUse(k) : x = y
    /\ \A x, y \in ReceiptUse(k) : x = y
Calm == resent = {} /\ OneUse

\* How far an order of work outside is.
Stage(row) ==
  IF row.status = "draft" THEN 0 ELSE IF row.status = "approved" THEN 1
  ELSE IF row.status = "material_sent" THEN 2 ELSE 3

SubInv ==
  /\ SubcontractTypeOK /\ IsFiniteSet(subUsed)
  /\ subForm \in [SubOrders -> SubRows \cup {NoCopy}]
  /\ \A s \in SubOrders : subForm[s] # NoCopy =>
       /\ Stage(subForm[s]) <= Stage(sub[s])
       /\ subForm[s].status = sub[s].status =>
            subForm[s].accepted = sub[s].accepted /\ subForm[s].rejected = sub[s].rejected
  /\ resent = {} => \A s \in SubOrders : \A k \in SubKeys :
       /\ <<"sent", s, k>> \in subUsed => Stage(sub[s]) >= 2
       /\ <<"back", s, k>> \in subUsed => Stage(sub[s]) >= 3
  /\ \A x \in subUsed : \E s \in SubOrders, k \in SubKeys :
       x = <<"sent", s, k>> \/ x = <<"back", s, k>>

Said(b) == OpeningStock[b] + TakenIn(b) - SentBack(b) + ProducedOn(b) + SubMoved(b) + PackedOn(b)
Books == onHand \in [Balances -> Int] /\ \A x \in booked : Told(x.key)
Explained == Calm => \A b \in Balances : onHand[b] = Said(b)

\* What the other parts of Supply say of their documents, and what StockInv adds.
WorkInv == ProductionInv /\ PrepackInv /\ OrdersInv /\ ReturnsInv
StockInv == SubInv /\ Books /\ Explained

\* A set of at most one element.
LEMMA AtMostOne ==
  ASSUME NEW S, IsFiniteSet(S), Cardinality(S) <= 1, NEW x \in S, NEW y \in S
  PROVE  x = y
<1> SUFFICES ASSUME x # y PROVE FALSE
  OBVIOUS
<1>1. IsFiniteSet({x}) /\ Cardinality({x}) = 1 /\ y \notin {x} BY FS_Singleton
<1>2. IsFiniteSet({x} \cup {y}) /\ Cardinality({x} \cup {y}) = 2 BY <1>1, FS_AddElement
<1>3. {x} \cup {y} \in SUBSET S OBVIOUS
<1>4. Cardinality({x} \cup {y}) <= Cardinality(S) BY <1>3, FS_Subset
<1>5. Cardinality(S) \in Nat BY FS_CardinalityType
<1> QED BY <1>2, <1>4, <1>5

LEMMA UsesFinite ==
  ASSUME IsFiniteSet(subUsed), NEW k
  PROVE  IsFiniteSet(MaterialUse(k)) /\ IsFiniteSet(ReceiptUse(k))
<1> DEFINE A == {x \in subUsed : x[1] = "sent" /\ x[3] = k}
           B == {<<"pack">> : x \in {k} \cap DOMAIN execution}
           C == {<<"unpack">> : x \in {k} \cap DOMAIN breakdown}
<1>1. A \in SUBSET subUsed /\ ReceiptUse(k) \in SUBSET subUsed BY DEF ReceiptUse
<1>2. IsFiniteSet(A) /\ IsFiniteSet(ReceiptUse(k))
  BY <1>1, FS_Subset
<1>3. B \in SUBSET {<<"pack">>} /\ C \in SUBSET {<<"unpack">>} OBVIOUS
<1>4. IsFiniteSet({<<"pack">>}) /\ IsFiniteSet({<<"unpack">>}) BY FS_Singleton
<1>5. IsFiniteSet(B) /\ IsFiniteSet(C) BY <1>3, <1>4, FS_Subset
<1> HIDE DEF A, B, C
<1>6. IsFiniteSet(A \cup B) BY <1>2, <1>5, FS_Union
<1>7. IsFiniteSet((A \cup B) \cup C) BY <1>5, <1>6, FS_Union
<1> QED BY <1>2, <1>7 DEF MaterialUse, A, B, C

LEMMA CalmWhenApart ==
  ASSUME IsFiniteSet(subUsed), resent = {}, KeysAreApart
  PROVE  Calm
<1> SUFFICES ASSUME NEW k \in SubKeys \cup PackKeys
             PROVE  /\ \A x, y \in MaterialUse(k) : x = y
                    /\ \A x, y \in ReceiptUse(k) : x = y
  BY DEF Calm, OneUse
<1>1. IsFiniteSet(MaterialUse(k)) /\ IsFiniteSet(ReceiptUse(k)) BY UsesFinite
<1>2. Cardinality(MaterialUse(k)) <= 1 /\ Cardinality(ReceiptUse(k)) <= 1 BY DEF KeysAreApart
<1> QED BY <1>1, <1>2, AtMostOne

\* rows has one row for each element of S, which moves q[x] on at[x]; T are the
\* elements whose rows are of the balance b.
RowsOfEach(S, row, at, q, b, rows, T) ==
  /\ IsFiniteSet(S) /\ rows = {row[x] : x \in S} /\ T = {x \in S : at[x] = b}
  /\ \A x \in S : row[x].balance = at[x] /\ row[x].delta = q[x] /\ q[x] \in Int
  /\ \A x, y \in S : row[x] = row[y] => x = y

LEMMA MovedImage ==
  ASSUME NEW S, NEW row, NEW at, NEW q, NEW b, NEW rows, NEW T,
         RowsOfEach(S, row, at, q, b, rows, T)
  PROVE  /\ IsFiniteSet(rows)
         /\ \A r \in rows : r.delta \in Int
         /\ Moved(b, rows) = SumOver(q, T)
<1> USE DEF RowsOfEach
<1> DEFINE g == [r \in rows |-> r.delta]
<1>1. IsFiniteSet(T) BY FS_Subset
<1>2. {r \in rows : r.balance = b} = {row[x] : x \in T} OBVIOUS
<1>3. \A x \in S : row[x] \in rows /\ g[row[x]] = q[x] OBVIOUS
<1>4. T \subseteq S OBVIOUS
<1> HIDE DEF g
<1>5. /\ \A x \in T : q[x] \in Int /\ g[row[x]] = q[x]
      /\ \A x, y \in T : row[x] = row[y] => x = y
  BY <1>3, <1>4
<1>6. SumOver(g, {row[x] : x \in T}) = SumOver(q, T) BY <1>1, <1>5, SumImage
<1>7. /\ \A x \in S : q[x] \in Int /\ g[row[x]] = q[x]
      /\ \A x, y \in S : row[x] = row[y] => x = y
      /\ IsFiniteSet(S)
  BY <1>3
<1>8. IsFiniteSet({row[x] : x \in S}) /\ SumOver(g, {row[x] : x \in S}) = SumOver(q, S)
  BY ONLY <1>7, SumImage
<1>9. Moved(b, rows) = SumOver(g, {r \in rows : r.balance = b}) BY DEF Moved, g
<1>10. \A r \in rows : r.delta \in Int OBVIOUS
<1> QED BY <1>2, <1>6, <1>8, <1>9, <1>10

LEMMA MovedType ==
  ASSUME NEW R, IsFiniteSet(R), \A r \in R : r.delta \in Int, NEW b
  PROVE  Moved(b, R) \in Int
<1> DEFINE T == {r \in R : r.balance = b}
           g == [r \in R |-> r.delta]
<1>1. IsFiniteSet(T) BY FS_Subset
<1>2. \A r \in T : g[r] \in Int OBVIOUS
<1> HIDE DEF T, g
<1>3. SumOver(g, T) \in Int BY <1>1, <1>2, SumType
<1> QED BY <1>3 DEF Moved, T, g

LEMMA MovedUnion ==
  ASSUME NEW R, NEW T, IsFiniteSet(R), IsFiniteSet(T), R \cap T = {},
         \A r \in R \cup T : r.delta \in Int, NEW b
  PROVE  /\ IsFiniteSet(R \cup T)
         /\ Moved(b, R \cup T) = Moved(b, R) + Moved(b, T)
<1> DEFINE A == {r \in R : r.balance = b}
           B == {r \in T : r.balance = b}
           g == [r \in R \cup T |-> r.delta]
           f == [r \in R |-> r.delta]
           h == [r \in T |-> r.delta]
<1>1. IsFiniteSet(R \cup T) BY FS_Union
<1>2. IsFiniteSet(A) /\ IsFiniteSet(B) BY FS_Subset
<1>3. A \cap B = {} /\ {r \in R \cup T : r.balance = b} = A \cup B OBVIOUS
<1>4. /\ \A r \in A \cup B : g[r] \in Int
      /\ \A r \in A : f[r] \in Int /\ g[r] = f[r]
      /\ \A r \in B : h[r] \in Int /\ g[r] = h[r]
  OBVIOUS
<1>5. Moved(b, R \cup T) = SumOver(g, A \cup B) BY <1>3 DEF Moved
<1>6. Moved(b, R) = SumOver(f, A) /\ Moved(b, T) = SumOver(h, B) BY DEF Moved
<1> HIDE DEF A, B, g, f, h
<1>7. SumOver(g, A \cup B) = SumOver(g, A) + SumOver(g, B) BY <1>2, <1>3, <1>4, SumUnion
<1>8. SumOver(g, A) = SumOver(f, A) BY <1>2, <1>4, SumAgree
<1>9. SumOver(g, B) = SumOver(h, B) BY <1>2, <1>4, SumAgree
<1> QED BY <1>1, <1>5, <1>6, <1>7, <1>8, <1>9

\* One row; and two rows of which those that move nothing are left out.
LEMMA MovedOne ==
  ASSUME NEW r, r.delta \in Int, NEW b
  PROVE  IsFiniteSet({r}) /\ Moved(b, {r}) = IF r.balance = b THEN r.delta ELSE 0
<1> DEFINE g == [x \in {r} |-> x.delta]
<1>1. IsFiniteSet({r}) BY FS_Singleton
<1>2. CASE r.balance = b
  <2>1. {x \in {r} : x.balance = b} = {r} BY <1>2
  <2>2. g[r] \in Int /\ g[r] = r.delta OBVIOUS
  <2>3. Moved(b, {r}) = SumOver(g, {r}) BY <2>1 DEF Moved
  <2> HIDE DEF g
  <2>4. SumOver(g, {r}) = g[r] BY <2>2, SumOne
  <2> QED BY <1>1, <1>2, <2>2, <2>3, <2>4
<1>3. CASE r.balance # b
  <2>1. {x \in {r} : x.balance = b} = {} BY <1>3
  <2> QED BY <1>1, <1>3, <2>1, SumEmpty DEF Moved
<1> QED BY <1>2, <1>3

LEMMA MovedPair ==
  ASSUME NEW r, NEW s, r # s, r.delta \in Int, s.delta \in Int, NEW b
  PROVE  /\ IsFiniteSet({x \in {r, s} : x.delta # 0})
         /\ Moved(b, {x \in {r, s} : x.delta # 0}) =
              (IF r.balance = b THEN r.delta ELSE 0) + (IF s.balance = b THEN s.delta ELSE 0)
<1> DEFINE R == IF r.delta # 0 THEN {r} ELSE {}
           S == IF s.delta # 0 THEN {s} ELSE {}
<1>1. Moved(b, {}) = 0
  <2>1. {x \in {} : x.balance = b} = {} OBVIOUS
  <2> QED BY <2>1, SumEmpty DEF Moved
<1>2. IsFiniteSet(R) /\ Moved(b, R) = IF r.balance = b THEN r.delta ELSE 0
  BY <1>1, MovedOne, FS_EmptySet
<1>3. IsFiniteSet(S) /\ Moved(b, S) = IF s.balance = b THEN s.delta ELSE 0
  BY <1>1, MovedOne, FS_EmptySet
<1>4. R \cap S = {} /\ \A x \in R \cup S : x.delta \in Int OBVIOUS
<1>5. {x \in {r, s} : x.delta # 0} = R \cup S OBVIOUS
<1> HIDE DEF R, S
<1>6. IsFiniteSet(R \cup S) /\ Moved(b, R \cup S) = Moved(b, R) + Moved(b, S)
  BY <1>2, <1>3, <1>4, MovedUnion
<1> QED BY <1>2, <1>3, <1>5, <1>6

\* Booking rows whose keys are new.
LEMMA Booked ==
  ASSUME Books, NEW rows, IsFiniteSet(rows), \A r \in rows : r.delta \in Int, Book(rows)
  PROVE  /\ onHand' \in [Balances -> Int]
         /\ \A x \in booked' : x \in booked \/ x \in rows
         /\ (\A r \in rows : \A x \in booked : x.key # r.key) =>
              \A b \in Balances : onHand'[b] = onHand[b] + Moved(b, rows)
<1> DEFINE new == Fresh(rows)
<1>1. new \subseteq rows BY DEF Fresh
<1>2. IsFiniteSet(new) /\ \A r \in new : r.delta \in Int BY <1>1, FS_Subset
<1>3. /\ onHand' = [b \in Balances |-> onHand[b] + Moved(b, new)]
      /\ booked' = booked \cup new /\ onHand \in [Balances -> Int]
  BY DEF Book, Books
<1>4. (\A r \in rows : \A x \in booked : x.key # r.key) => new = rows BY DEF Fresh
<1> HIDE DEF new
<1>5. \A b \in Balances : Moved(b, new) \in Int BY <1>2, MovedType
<1> QED BY <1>1, <1>3, <1>4, <1>5

\* A total of what lies in a part of a set, and zero elsewhere.
LEMMA SumWhere ==
  ASSUME NEW S, IsFiniteSet(S), NEW T \in SUBSET S, NEW q, NEW f,
         \A x \in T : q[x] \in Int /\ f[x] = q[x], \A x \in S \ T : f[x] = 0
  PROVE  SumOver(f, S) = SumOver(q, T)
<1>1. IsFiniteSet(T) BY FS_Subset
<1>2. \A x \in S : f[x] \in Int OBVIOUS
<1>3. SumOver(f, S) = SumOver(f, T) BY <1>2, SumSupport
<1>4. SumOver(f, T) = SumOver(q, T) BY <1>1, SumAgree
<1> QED BY <1>3, <1>4

\* Rows of those elements that have something to move.
RowsOfSome(S, T, row, at, q, b, rows, A) ==
  /\ IsFiniteSet(S) /\ T \subseteq S
  /\ rows = {row[x] : x \in T} /\ A = {x \in S : at[x] = b}
  /\ \A x \in T : row[x].balance = at[x] /\ row[x].delta = q[x]
  /\ \A x \in S : q[x] \in Int /\ (x \notin T => q[x] = 0)
  /\ \A x, y \in T : row[x] = row[y] => x = y

LEMMA MovedSome ==
  ASSUME NEW S, NEW T, NEW row, NEW at, NEW q, NEW b, NEW rows, NEW A,
         RowsOfSome(S, T, row, at, q, b, rows, A)
  PROVE  /\ IsFiniteSet(rows)
         /\ \A r \in rows : r.delta \in Int
         /\ Moved(b, rows) = SumOver(q, A)
<1> USE DEF RowsOfSome
<1> DEFINE B == {x \in T : at[x] = b}
<1>1. IsFiniteSet(T) /\ IsFiniteSet(A) BY FS_Subset
<1>2. RowsOfEach(T, row, at, q, b, rows, B) BY <1>1 DEF RowsOfEach
<1>3. B \in SUBSET A /\ (\A x \in A : q[x] \in Int) /\ \A x \in A \ B : q[x] = 0 OBVIOUS
<1> HIDE DEF B, RowsOfSome
<1>4. /\ IsFiniteSet(rows)
      /\ \A r \in rows : r.delta \in Int
      /\ Moved(b, rows) = SumOver(q, B)
  BY <1>2, MovedImage
<1>5. SumOver(q, A) = SumOver(q, B) BY <1>1, <1>3, SumSupport
<1> QED BY <1>4, <1>5

LEMMA LinesFinite == IsFiniteSet(Lines)
<1>1. IsFiniteSet(Orders) /\ MaxLines \in Int /\ 1 \in Int BY PurchasingAssumption
<1>2. IsFiniteSet(1..MaxLines) BY <1>1, FS_Interval
<1> QED BY <1>1, <1>2, FS_Product DEF Lines

\* What a step leaves of the documents: none is taken back, and what the outbox
\* and the history tell of returns, edits and keys stays.
Grown ==
  /\ returnEvents \subseteq returnEvents' /\ resent \subseteq resent' /\ subUsed \subseteq subUsed'
  /\ DOMAIN issue \subseteq DOMAIN issue' /\ DOMAIN completion \subseteq DOMAIN completion'
  /\ DOMAIN execution \subseteq DOMAIN execution' /\ DOMAIN breakdown \subseteq DOMAIN breakdown'
  /\ \A n \in ReceiptRows : receipt[n].status = "completed" =>
       receipt'[n].status = "completed" /\ receipt'[n].inspection = receipt[n].inspection

LEMMA UsesStay ==
  ASSUME Grown, NEW k
  PROVE  MaterialUse(k) \subseteq MaterialUse(k)' /\ ReceiptUse(k) \subseteq ReceiptUse(k)'
BY DEF Grown, MaterialUse, ReceiptUse

LEMMA ToldStays ==
  ASSUME Grown, NEW key, Told(key) PROVE Told(key)'
<1>1. \A k : MaterialUse(k) # {} => MaterialUse(k)' # {} BY UsesStay
<1>2. \A k : ReceiptUse(k) # {} => ReceiptUse(k)' # {} BY UsesStay
<1>3. ASSUME Len(key) = 4
      PROVE \E n \in ReceiptRows : receipt'[n].status = "completed" /\ receipt'[n].inspection = key[2]
  BY <1>3 DEF Told, Grown
<1>4. ASSUME Len(key) = 3
      PROVE  /\ key[2] = "line" => key[1] \in DOMAIN issue'
             /\ key[2] = "material" => MaterialUse(key[1])' # {}
             /\ key[2] \in Returns => key[2] \in returnEvents'
  BY <1>1, <1>4 DEF Told, Grown
<1>5. ASSUME Len(key) = 2
      PROVE  /\ key[2] \in {"A", "R"} => key[1] \in DOMAIN completion'
             /\ key[2] \in {"accepted", "rejected"} => ReceiptUse(key[1])' # {}
             /\ key[2] \in {"product-source", "product-target"} => key[1] \in DOMAIN execution'
             /\ key[2] \in {"product-prepacked", "product-restored"} => key[1] \in DOMAIN breakdown'
  BY <1>2, <1>5 DEF Told, Grown
<1> QED BY <1>3, <1>4, <1>5 DEF Told

LEMMA CalmBefore == ASSUME Grown, Calm' PROVE Calm
<1>1. resent = {} BY DEF Grown, Calm
<1>2. \A k \in SubKeys \cup PackKeys :
        /\ \A x, y \in MaterialUse(k)' : x = y
        /\ \A x, y \in ReceiptUse(k)' : x = y
  BY DEF Calm, OneUse
<1>3. OneUse BY <1>2, UsesStay DEF OneUse
<1> QED BY <1>1, <1>3 DEF Calm

\* A step that does not touch the stock, and one that books rows of its own.
LEMMA Stands ==
  ASSUME Books, Explained, Grown, UNCHANGED stockVars,
         Calm' => \A b \in Balances : Said(b)' = Said(b)
  PROVE  Books' /\ Explained'
<1>1. onHand' = onHand /\ booked' = booked BY DEF stockVars
<1>2. Books' BY <1>1, ToldStays DEF Books
<1>3. Explained' BY <1>1, CalmBefore DEF Explained
<1> QED BY <1>2, <1>3

LEMMA Closes ==
  ASSUME Books, Explained, Grown,
         NEW rows, IsFiniteSet(rows), \A r \in rows : r.delta \in Int, Book(rows),
         \A r \in rows : Told(r.key)',
         Calm' => /\ \A r \in rows : ~Told(r.key)
                  /\ \A b \in Balances : Said(b)' = Said(b) + Moved(b, rows)
  PROVE  Books' /\ Explained'
<1>1. /\ onHand' \in [Balances -> Int]
      /\ \A x \in booked' : x \in booked \/ x \in rows
      /\ (\A r \in rows : \A x \in booked : x.key # r.key) =>
           \A b \in Balances : onHand'[b] = onHand[b] + Moved(b, rows)
  BY Booked
<1>2. \A x \in booked' : Told(x.key)' BY <1>1, ToldStays DEF Books
<1>3. ASSUME Calm', NEW b \in Balances PROVE onHand'[b] = Said(b)'
  <2>1. onHand[b] = Said(b) BY <1>3, CalmBefore DEF Explained
  <2>2. \A r \in rows : \A x \in booked : x.key # r.key BY <1>3 DEF Books
  <2>3. onHand'[b] = onHand[b] + Moved(b, rows) BY <1>1, <2>2
  <2>4. Said(b)' = Said(b) + Moved(b, rows) BY <1>3
  <2> QED BY <2>1, <2>3, <2>4
<1> QED BY <1>1, <1>2, <1>3 DEF Books, Explained
-----------------------------------------------------------------------------
\* The documents that move the stock, and what a step of each part leaves alone.
buyDocs == <<receipt, returnEvents>>
makeDocs == <<issue, completion>>
packDocs == <<execution, breakdown>>

LEMMA StockMoves ==
  ASSUME [SupplyNext]_supplyVars
  PROVE  \/ UNCHANGED <<stockVars, buyDocs, makeDocs, ownSub, packDocs>>
         \/ /\ UNCHANGED <<makeDocs, ownSub, packDocs>>
            /\ \/ PurchasingNext
               \/ \E o \in Orders, wanted \in Seq(Nat) : CreateOrder(o, wanted)
         \/ UNCHANGED <<buyDocs, ownSub, packDocs>> /\ WorkNext
         \/ UNCHANGED <<buyDocs, makeDocs, packDocs>> /\ SubcontractNext
         \/ UNCHANGED <<buyDocs, makeDocs, ownSub>> /\ PrepackNext
<1>1. CASE UNCHANGED supplyVars
  BY <1>1 DEF supplyVars, ownPurchasing, ownProduction, ownPrepack, orderVars, returnVars,
              buyDocs, makeDocs, packDocs
<1>2. CASE MakingNext /\ UNCHANGED ownPurchasing
  <2>1. UNCHANGED buyDocs BY <1>2 DEF ownPurchasing, orderVars, returnVars, buyDocs
  <2>2. CASE EffectiveNext /\ UNCHANGED <<stockVars, ownProduction, ownSub, ownPrepack>>
    BY <2>1, <2>2 DEF ownProduction, ownPrepack, makeDocs, packDocs
  <2>3. CASE (WorkNext \/ SuggestionNext) /\ UNCHANGED <<effectiveVars, ownSub, ownPrepack>>
    <3>1. UNCHANGED <<ownSub, packDocs>> BY <2>3 DEF ownPrepack, packDocs
    <3>3. CASE SuggestionNext
      BY <2>1, <3>1, <3>3 DEF SuggestionNext, OpenSuggestionForm, SaveSuggestionForm, Convert, makeDocs
    <3> QED BY <2>1, <2>3, <3>1, <3>3
  <2>4. CASE SubcontractNext /\ UNCHANGED <<effectiveVars, ownProduction, ownPrepack>>
    BY <2>1, <2>4 DEF ownProduction, ownPrepack, makeDocs, packDocs
  <2>5. CASE PrepackNext /\ UNCHANGED <<effectiveVars, ownProduction, ownSub>>
    BY <2>1, <2>5 DEF ownProduction, makeDocs
  <2> QED BY <1>2, <2>2, <2>3, <2>4, <2>5 DEF MakingNext
<1>3. CASE BuyingNext /\ UNCHANGED <<effectiveVars, ownProduction, ownSub, ownPrepack>>
  <2>1. UNCHANGED <<makeDocs, ownSub, packDocs>>
    BY <1>3 DEF ownProduction, ownPrepack, makeDocs, packDocs
  <2>2. CASE SourcingNext /\ UNCHANGED purchasingVars
    BY <2>1, <2>2 DEF purchasingVars, orderVars, returnVars, buyDocs
  <2>3. CASE \E o \in Direct : CreateOrder(o, Wanted[o])
    <3>1. Direct \subseteq Orders /\ \A o \in Direct : Wanted[o] \in Seq(Nat) BY SupplyAssumption
    <3> QED BY <2>1, <2>3, <3>1
  <2>4. CASE \E f \in Rfqs, t \in Quotes, o \in Orders : AwardQuote(f, t, o)
    <3>1. \A t \in Quotes : Quoted[t] \in Seq(Nat) BY SourcingAssumption
    <3> QED BY <2>1, <2>4, <3>1 DEF AwardQuote
  <2> QED BY <1>3, <2>1, <2>2, <2>3, <2>4 DEF BuyingNext
<1> QED BY <1>1, <1>2, <1>3 DEF SupplyNext

LEMMA PartsStay ==
  ASSUME NEW b
  PROVE  /\ UNCHANGED buyDocs => TakenIn(b)' = TakenIn(b) /\ SentBack(b)' = SentBack(b)
         /\ UNCHANGED makeDocs => ProducedOn(b)' = ProducedOn(b)
         /\ UNCHANGED ownSub => SubMoved(b)' = SubMoved(b)
         /\ UNCHANGED packDocs => PackedOn(b)' = PackedOn(b)
<1>1. ASSUME UNCHANGED buyDocs PROVE TakenIn(b)' = TakenIn(b) /\ SentBack(b)' = SentBack(b)
  BY <1>1 DEF buyDocs, TakenIn, SentBack, LetIn, LeavesWith
<1>2. ASSUME UNCHANGED makeDocs PROVE ProducedOn(b)' = ProducedOn(b)
  BY <1>2 DEF makeDocs, ProducedOn, MadeOn, IssuedOn
<1>3. ASSUME UNCHANGED ownSub PROVE SubMoved(b)' = SubMoved(b)
  BY <1>3 DEF ownSub, SubMoved, RowMoved, TakenOut
<1>4. ASSUME UNCHANGED packDocs PROVE PackedOn(b)' = PackedOn(b)
  BY <1>4 DEF packDocs, PackedOn, Side, PackMaterials
<1> QED BY <1>1, <1>2, <1>3, <1>4

\* What one document moves on a balance, and what all do, are integers.
LEMMA LetInType ==
  ASSUME PurchasingTypeOK, NEW b, NEW n \in ReceiptRows PROVE LetIn(n, b) \in Int
<1> DEFINE f == [l \in Lines |-> (IF GoodBalance[l] = b THEN receipt[n].good[l] ELSE 0)
                   + (IF BadBalance[l] = b THEN receipt[n].qty[l] - receipt[n].good[l] ELSE 0)]
<1>1. \A l \in Lines : receipt[n].qty[l] \in Nat /\ receipt[n].good[l] \in Nat
  BY LineTypes DEF ReceiptRows
<1>2. \A l \in Lines : f[l] \in Int BY <1>1
<1> HIDE DEF f
<1>3. SumOver(f, Lines) \in Int BY <1>2, LinesFinite, SumType
<1> QED BY <1>3 DEF LetIn, f

LEMMA LeavesType ==
  ASSUME NEW b, NEW r \in Returns PROVE LeavesWith(r, b) \in Int
<1> DEFINE f == [x \in ReturnLines[r] |-> x.qty]
           S == {x \in ReturnLines[r] : x.balance = b}
<1>1. IsFiniteSet(ReturnLines[r]) /\ \A x \in ReturnLines[r] : x.qty \in Nat BY PurchasingAssumption
<1>2. IsFiniteSet(S) BY <1>1, FS_Subset
<1>3. \A x \in S : f[x] \in Int BY <1>1
<1> HIDE DEF f, S
<1>4. SumOver(f, S) \in Int BY <1>2, <1>3, SumType
<1> QED BY <1>4 DEF LeavesWith, f, S

LEMMA BoughtType ==
  ASSUME OrdersInv, ReturnsInv, NEW b PROVE TakenIn(b) \in Int /\ SentBack(b) \in Int
<1> DEFINE f == [n \in ReceiptRows |-> LetIn(n, b)]
           S == {n \in ReceiptRows : receipt[n].status = "completed"}
           g == [r \in Returns |-> LeavesWith(r, b)]
           R == returnEvents
<1>1. NR \in Int /\ 1 \in Int /\ IsFiniteSet(Returns) /\ R \in SUBSET Returns
  BY PurchasingAssumption DEF ReturnsInv
<1>2. IsFiniteSet(ReceiptRows) BY <1>1, FS_Interval DEF ReceiptRows
<1>3. IsFiniteSet(S) /\ IsFiniteSet(R) BY <1>1, <1>2, FS_Subset
<1>4. \A n \in S : f[n] \in Int BY LetInType DEF OrdersInv
<1>5. ASSUME NEW r \in R PROVE g[r] \in Int
  <2>1. r \in Returns BY <1>1
  <2> QED BY <2>1, LeavesType
<1> HIDE DEF f, S, g, R
<1>6. SumOver(f, S) \in Int /\ SumOver(g, R) \in Int BY <1>3, <1>4, <1>5, SumType
<1> QED BY <1>6 DEF TakenIn, SentBack, f, S, g, R

\* What q takes out of a balance.
Drawn(q, b) == SumOver(q, {c \in Components : ComponentAt[c] = b})

LEMMA IssuedType ==
  ASSUME NEW q \in [Components -> Nat], NEW b PROVE Drawn(q, b) \in Int
<1> DEFINE S == {c \in Components : ComponentAt[c] = b}
<1>1. NC \in Int /\ 1 \in Int BY ProductionAssumption
<1>2. IsFiniteSet(Components) BY <1>1, FS_Interval DEF Components
<1>3. IsFiniteSet(S) BY <1>2, FS_Subset
<1>4. \A c \in S : q[c] \in Int OBVIOUS
<1> HIDE DEF S
<1>5. SumOver(q, S) \in Int BY <1>3, <1>4, SumType
<1> QED BY <1>5 DEF S, Drawn

LEMMA MadeType ==
  ASSUME ProductionInv, NEW b
  PROVE  /\ \A k \in DOMAIN completion : MadeOn(k, b) \in Int
         /\ \A k \in DOMAIN issue : IssuedOn(k, b) \in Int
<1>1. ASSUME NEW k \in DOMAIN completion PROVE MadeOn(k, b) \in Int
  <2>1. completion[k] \in CompletionRow BY DEF ProductionInv, ProductionTypeOK
  <2>2. completion[k].out.good \in Nat /\ completion[k].out.rejected \in Nat BY <2>1 DEF CompletionRow
  <2> QED BY <2>2 DEF MadeOn
<1>2. ASSUME NEW k \in DOMAIN issue PROVE IssuedOn(k, b) \in Int
  <2>1. issue[k] \in IssueRow BY DEF ProductionInv, ProductionTypeOK
  <2>2. issue[k].qty \in [Components -> Nat] BY <2>1 DEF IssueRow
  <2> QED BY <2>2, IssuedType DEF IssuedOn, Drawn
<1> QED BY <1>1, <1>2

LEMMA ProducedType ==
  ASSUME ProductionInv, NEW b
  PROVE  /\ SumOver([k \in DOMAIN completion |-> MadeOn(k, b)], DOMAIN completion) \in Int
         /\ SumOver([k \in DOMAIN issue |-> IssuedOn(k, b)], DOMAIN issue) \in Int
         /\ ProducedOn(b) \in Int
<1> DEFINE f == [k \in DOMAIN completion |-> MadeOn(k, b)]
           g == [k \in DOMAIN issue |-> IssuedOn(k, b)]
<1>1. IsFiniteSet(DOMAIN completion) /\ IsFiniteSet(DOMAIN issue) BY DEF ProductionInv
<1>2. \A k \in DOMAIN completion : f[k] \in Int BY MadeType
<1>3. \A k \in DOMAIN issue : g[k] \in Int BY MadeType
<1> HIDE DEF f, g
<1>4. SumOver(f, DOMAIN completion) \in Int BY <1>1, <1>2, SumType
<1>5. SumOver(g, DOMAIN issue) \in Int BY <1>1, <1>3, SumType
<1> QED BY <1>4, <1>5 DEF ProducedOn, f, g

LEMMA MaterialType ==
  ASSUME NEW q \in [Items -> Nat], NEW b, NEW n \in Nat
  PROVE  PackMaterials(q, b) \in Int /\ Side(b, n) \in Int
<1> DEFINE S == {i \in Items : ItemAt[i] = b}
<1>1. IsFiniteSet(Items) BY PrepackAssumption
<1>2. IsFiniteSet(S) BY <1>1, FS_Subset
<1>3. \A i \in S : q[i] \in Int OBVIOUS
<1> HIDE DEF S
<1>4. SumOver(q, S) \in Int BY <1>2, <1>3, SumType
<1> QED BY <1>4 DEF PackMaterials, Side, S

\* What an execution and a breakdown move on a balance.
PackedBy(k, b) == Side(b, execution[k].qty) - PackMaterials(execution[k].used, b)
BrokenBy(k, b) == Side(b, breakdown[k].qty) - PackMaterials(breakdown[k].back, b)

LEMMA PackedByType ==
  ASSUME PrepackInv, NEW b
  PROVE  /\ \A k \in DOMAIN execution : PackedBy(k, b) \in Int
         /\ \A k \in DOMAIN breakdown : BrokenBy(k, b) \in Int
<1>1. ASSUME NEW k \in DOMAIN execution PROVE PackedBy(k, b) \in Int
  <2>1. execution[k] \in ExecutionRow BY DEF PrepackInv, PrepackTypeOK
  <2>2. execution[k].used \in [Items -> Nat] /\ execution[k].qty \in Nat BY <2>1 DEF ExecutionRow
  <2>3. PackMaterials(execution[k].used, b) \in Int /\ Side(b, execution[k].qty) \in Int
    BY <2>2, MaterialType
  <2> QED BY <2>3 DEF PackedBy
<1>2. ASSUME NEW k \in DOMAIN breakdown PROVE BrokenBy(k, b) \in Int
  <2>1. breakdown[k] \in BreakdownRow BY DEF PrepackInv, PrepackTypeOK
  <2>2. breakdown[k].back \in [Items -> Nat] /\ breakdown[k].qty \in Nat BY <2>1 DEF BreakdownRow
  <2>3. PackMaterials(breakdown[k].back, b) \in Int /\ Side(b, breakdown[k].qty) \in Int
    BY <2>2, MaterialType
  <2> QED BY <2>3 DEF BrokenBy
<1> QED BY <1>1, <1>2

LEMMA PackedType ==
  ASSUME PrepackInv, NEW b
  PROVE  /\ SumOver([k \in DOMAIN execution |-> PackedBy(k, b)], DOMAIN execution) \in Int
         /\ SumOver([k \in DOMAIN breakdown |-> BrokenBy(k, b)], DOMAIN breakdown) \in Int
         /\ PackedOn(b) \in Int
<1> DEFINE f == [k \in DOMAIN execution |-> PackedBy(k, b)]
           g == [k \in DOMAIN breakdown |-> BrokenBy(k, b)]
<1>1. IsFiniteSet(DOMAIN execution) /\ IsFiniteSet(DOMAIN breakdown) BY DEF PrepackInv
<1>2. \A k \in DOMAIN execution : f[k] \in Int BY PackedByType
<1>3. \A k \in DOMAIN breakdown : g[k] \in Int BY PackedByType
<1>4. PackedOn(b) = SumOver(f, DOMAIN execution) - SumOver(g, DOMAIN breakdown)
  BY DEF PackedOn, PackedBy, BrokenBy
<1> HIDE DEF f, g
<1>5. SumOver(f, DOMAIN execution) \in Int BY <1>1, <1>2, SumType
<1>6. SumOver(g, DOMAIN breakdown) \in Int BY <1>1, <1>3, SumType
<1> QED BY <1>4, <1>5, <1>6 DEF f, g

LEMMA SubType ==
  ASSUME SubcontractTypeOK, NEW b
  PROVE  /\ \A s \in SubOrders : TakenOut(s, b) \in Int /\ RowMoved(s, b) \in Int
         /\ SubMoved(b) \in Int
<1>1. ASSUME NEW s \in SubOrders PROVE TakenOut(s, b) \in Int /\ RowMoved(s, b) \in Int
  <2> DEFINE f == [x \in Sent[s] |-> x.qty]
             S == {x \in Sent[s] : x.balance = b}
  <2>1. IsFiniteSet(Sent[s]) /\ \A x \in Sent[s] : x.qty \in Nat BY SubcontractAssumption
  <2>2. IsFiniteSet(S) BY <2>1, FS_Subset
  <2>3. \A x \in S : f[x] \in Int BY <2>1
  <2>4. TakenOut(s, b) = SumOver(f, S) BY DEF TakenOut
  <2> HIDE DEF f, S
  <2>5. TakenOut(s, b) \in Int BY <2>2, <2>3, <2>4, SumType
  <2>6. sub[s].accepted \in Nat /\ sub[s].rejected \in Nat BY DEF SubcontractTypeOK, SubRows
  <2> QED BY <2>5, <2>6 DEF RowMoved
<1> DEFINE g == [s \in SubOrders |-> RowMoved(s, b)]
<1>2. \A s \in SubOrders : g[s] \in Int BY <1>1
<1>3. IsFiniteSet(SubOrders) BY SubcontractAssumption
<1> HIDE DEF g
<1>4. SumOver(g, SubOrders) \in Int BY <1>2, <1>3, SumType
<1> QED BY <1>1, <1>4 DEF SubMoved, g

LEMMA PartsTyped ==
  ASSUME WorkInv, SubcontractTypeOK, NEW b \in Balances
  PROVE  /\ OpeningStock[b] \in Int /\ TakenIn(b) \in Int /\ SentBack(b) \in Int
         /\ ProducedOn(b) \in Int /\ SubMoved(b) \in Int /\ PackedOn(b) \in Int
<1>1. OpeningStock[b] \in Int BY StockBooksAssumption
<1> QED BY <1>1, BoughtType, ProducedType, SubType, PackedType DEF WorkInv

\* A total over a table, when a row of a new key is added.
LEMMA TableAdded ==
  ASSUME NEW T, NEW U, NEW k, NEW f, NEW g, RowPut(T, U, k, f, g)
  PROVE  SumOver(g, DOMAIN U) = SumOver(f, DOMAIN T) + g[k]
<1> USE DEF RowPut
<1> DEFINE D == DOMAIN T
<1>1. IsFiniteSet(D) /\ k \notin D /\ DOMAIN U = D \cup {k} OBVIOUS
<1>2. \A x \in D : f[x] \in Int /\ g[x] = f[x] OBVIOUS
<1>3. \A x \in D \cup {k} : g[x] \in Int BY <1>2
<1> HIDE DEF D, RowPut
<1>4. SumOver(g, D) = SumOver(f, D) BY <1>1, <1>2, SumAgree
<1>5. SumOver(g, D \cup {k}) = SumOver(g, D) + g[k] BY <1>1, <1>3, SumAdd
<1> QED BY <1>1, <1>4, <1>5 DEF D
-----------------------------------------------------------------------------
\* Goods that come in after an inspection.
LEMMA TakenKept ==
  ASSUME OrdersInv, NEW b,
         \A n \in ReceiptRows : receipt'[n].status = "completed" <=> receipt[n].status = "completed",
         \A n \in ReceiptRows : receipt[n].status = "completed" => receipt'[n] = receipt[n]
  PROVE  TakenIn(b)' = TakenIn(b)
<1> DEFINE f == [n \in ReceiptRows |-> LetIn(n, b)]
           g == [n \in ReceiptRows |-> LetIn(n, b)']
           S == {n \in ReceiptRows : receipt[n].status = "completed"}
<1>1. NR \in Int /\ 1 \in Int BY PurchasingAssumption
<1>2. IsFiniteSet(ReceiptRows) BY <1>1, FS_Interval DEF ReceiptRows
<1>3. IsFiniteSet(S) BY <1>2, FS_Subset
<1>4. ASSUME NEW n \in S PROVE LetIn(n, b)' = LetIn(n, b) /\ LetIn(n, b) \in Int
  <2>1. receipt'[n] = receipt[n] OBVIOUS
  <2>2. LetIn(n, b) \in Int BY LetInType DEF OrdersInv
  <2> QED BY <2>1, <2>2 DEF LetIn
<1>5. \A n \in S : f[n] \in Int /\ g[n] = f[n] BY <1>4
<1>6. {n \in ReceiptRows : receipt'[n].status = "completed"} = S OBVIOUS
<1>7. TakenIn(b)' = SumOver(g, S) BY <1>6 DEF TakenIn
<1>8. TakenIn(b) = SumOver(f, S) BY DEF TakenIn
<1> HIDE DEF f, g, S
<1>9. SumOver(g, S) = SumOver(f, S) BY <1>3, <1>5, SumAgree
<1> QED BY <1>7, <1>8, <1>9

FoundIn(qty, good, b) ==
  SumOver([l \in Lines |-> (IF GoodBalance[l] = b THEN good[l] ELSE 0)
             + (IF BadBalance[l] = b THEN qty[l] - good[l] ELSE 0)], Lines)

LEMMA InspectedMoves ==
  ASSUME PurchasingTypeOK, NEW n \in ReceiptRows, NEW i, NEW good \in Findings(n), NEW b
  PROVE  /\ IsFiniteSet(InspectionRows(n, i, good))
         /\ \A r \in InspectionRows(n, i, good) : r.delta \in Int
         /\ Moved(b, InspectionRows(n, i, good)) = FoundIn(receipt[n].qty, good, b)
<1> DEFINE rest == [l \in Lines |-> receipt[n].qty[l] - good[l]]
           rowA == [l \in Lines |-> [key |-> <<"inspection", i, l, "A">>,
                                     balance |-> GoodBalance[l], delta |-> good[l]]]
           rowR == [l \in Lines |-> [key |-> <<"inspection", i, l, "R">>,
                                     balance |-> BadBalance[l], delta |-> rest[l]]]
           SA == {l \in Lines : good[l] > 0}
           SR == {l \in Lines : receipt[n].qty[l] > good[l]}
           A == {rowA[l] : l \in SA}
           R == {rowR[l] : l \in SR}
           TA == {l \in Lines : GoodBalance[l] = b}
           TR == {l \in Lines : BadBalance[l] = b}
           fA == [l \in Lines |-> IF GoodBalance[l] = b THEN good[l] ELSE 0]
           fR == [l \in Lines |-> IF BadBalance[l] = b THEN rest[l] ELSE 0]
           h == [l \in Lines |-> (IF GoodBalance[l] = b THEN good[l] ELSE 0)
                          + (IF BadBalance[l] = b THEN receipt[n].qty[l] - good[l] ELSE 0)]
<1>1. ASSUME NEW l \in Lines
      PROVE  good[l] \in Nat /\ rest[l] \in Nat /\ (l \notin SA => good[l] = 0) /\ (l \notin SR => rest[l] = 0)
  <2>1. receipt[n].qty[l] \in Nat BY LineTypes DEF ReceiptRows
  <2>2. good[l] \in Nat /\ good[l] <= receipt[n].qty[l] BY PurchasingAssumption DEF Findings, Quantities
  <2> QED BY <2>1, <2>2
<1>2. IsFiniteSet(Lines) BY LinesFinite
<1>3. RowsOfSome(Lines, SA, rowA, GoodBalance, good, b, A, TA)
  <2>1. SA \subseteq Lines /\ A = {rowA[l] : l \in SA} /\ TA = {l \in Lines : GoodBalance[l] = b} OBVIOUS
  <2>2. \A l \in SA : rowA[l].balance = GoodBalance[l] /\ rowA[l].delta = good[l] OBVIOUS
  <2>3. \A x, y \in SA : rowA[x] = rowA[y] => x = y OBVIOUS
  <2> HIDE DEF SA, rowA, A, TA, rest
  <2> QED BY <1>1, <1>2, <2>1, <2>2, <2>3 DEF RowsOfSome
<1>4. RowsOfSome(Lines, SR, rowR, BadBalance, rest, b, R, TR)
  <2>1. SR \subseteq Lines /\ R = {rowR[l] : l \in SR} /\ TR = {l \in Lines : BadBalance[l] = b} OBVIOUS
  <2>2. \A l \in SR : rowR[l].balance = BadBalance[l] /\ rowR[l].delta = rest[l] OBVIOUS
  <2>3. \A x, y \in SR : rowR[x] = rowR[y] => x = y OBVIOUS
  <2> HIDE DEF SR, rowR, R, TR, rest
  <2> QED BY <1>1, <1>2, <2>1, <2>2, <2>3 DEF RowsOfSome
<1>5. A \cap R = {} OBVIOUS
<1>6. InspectionRows(n, i, good) = A \cup R BY DEF InspectionRows
<1>7. \A l \in Lines : fA[l] \in Int /\ fR[l] \in Int /\ h[l] = fA[l] + fR[l] BY <1>1
<1>8. /\ TA \in SUBSET Lines /\ \A l \in TA : good[l] \in Int /\ fA[l] = good[l]
      /\ \A l \in Lines \ TA : fA[l] = 0
  BY <1>1
<1>9. /\ TR \in SUBSET Lines /\ \A l \in TR : rest[l] \in Int /\ fR[l] = rest[l]
      /\ \A l \in Lines \ TR : fR[l] = 0
  BY <1>1
<1> HIDE DEF rest, rowA, rowR, SA, SR, A, R, TA, TR, fA, fR, h
<1>10. /\ IsFiniteSet(A) /\ \A r \in A : r.delta \in Int
       /\ Moved(b, A) = SumOver(good, TA)
  BY <1>3, MovedSome
<1>11. /\ IsFiniteSet(R) /\ \A r \in R : r.delta \in Int
       /\ Moved(b, R) = SumOver(rest, TR)
  BY <1>4, MovedSome
<1>12. IsFiniteSet(A \cup R) /\ Moved(b, A \cup R) = Moved(b, A) + Moved(b, R)
  <2>1. \A r \in A \cup R : r.delta \in Int BY <1>10, <1>11
  <2> QED BY <1>5, <1>10, <1>11, <2>1, MovedUnion
<1>13. SumOver(fA, Lines) = SumOver(good, TA) BY <1>2, <1>8, SumWhere
<1>14. SumOver(fR, Lines) = SumOver(rest, TR) BY <1>2, <1>9, SumWhere
<1>15. SumOver(h, Lines) = SumOver(fA, Lines) + SumOver(fR, Lines) BY <1>2, <1>7, SumPlus
<1> QED BY <1>6, <1>10, <1>11, <1>12, <1>13, <1>14, <1>15 DEF h, FoundIn

\* A key of four, three or two parts is told by its own clause.
LEMMA ToldByLength ==
  /\ \A a, i, l, m : Told(<<a, i, l, m>>) <=>
       \E n \in ReceiptRows : receipt[n].status = "completed" /\ receipt[n].inspection = i
  /\ \A k, m, x : Told(<<k, m, x>>) <=>
       /\ m = "line" => k \in DOMAIN issue
       /\ m = "material" => MaterialUse(k) # {}
       /\ m \in Returns => m \in returnEvents
  /\ \A k, m : Told(<<k, m>>) <=>
       /\ m \in {"A", "R"} => k \in DOMAIN completion
       /\ m \in {"accepted", "rejected"} => ReceiptUse(k) # {}
       /\ m \in {"product-source", "product-target"} => k \in DOMAIN execution
       /\ m \in {"product-prepacked", "product-restored"} => k \in DOMAIN breakdown
BY DEF Told

LEMMA ToldByLengthThen ==
  /\ \A a, i, l, m : Told(<<a, i, l, m>>)' <=>
       \E n \in ReceiptRows : receipt'[n].status = "completed" /\ receipt'[n].inspection = i
  /\ \A k, m, x : Told(<<k, m, x>>)' <=>
       /\ m = "line" => k \in DOMAIN issue'
       /\ m = "material" => MaterialUse(k)' # {}
       /\ m \in Returns => m \in returnEvents'
  /\ \A k, m : Told(<<k, m>>)' <=>
       /\ m \in {"A", "R"} => k \in DOMAIN completion'
       /\ m \in {"accepted", "rejected"} => ReceiptUse(k)' # {}
       /\ m \in {"product-source", "product-target"} => k \in DOMAIN execution'
       /\ m \in {"product-prepacked", "product-restored"} => k \in DOMAIN breakdown'
BY DEF Told

LEMMA InspectBooks ==
  ASSUME WorkInv, SubcontractTypeOK, Books, Explained,
         NEW n \in ReceiptRows, NEW i \in 1..NI, NEW good \in Quantities, Inspect(n, i, good),
         UNCHANGED <<makeDocs, ownSub, packDocs>>
  PROVE  Books' /\ Explained'
<1> DEFINE rows == InspectionRows(n, i, good)
           S == {m \in ReceiptRows : receipt[m].status = "completed"}
           new == [status |-> "completed", order |-> receipt[n].order, inspection |-> i,
                   qty |-> receipt[n].qty, good |-> good]
<1>1. OrdersInv /\ PurchasingTypeOK /\ receipt \in [ReceiptRows -> ReceiptRowSet]
  BY DEF WorkInv, OrdersInv, PurchasingTypeOK
<1>2. /\ receipt[n].status = "inspection" /\ good \in Findings(n) /\ Book(rows)
      /\ \A m \in ReceiptRows : receipt[m].inspection # i
      /\ receipt' = [receipt EXCEPT ![n] = new] /\ UNCHANGED returnVars
  BY DEF Inspect
<1>3. receipt'[n] = new /\ \A m \in ReceiptRows \ {n} : receipt'[m] = receipt[m] BY <1>1, <1>2
<1>4. Grown
  BY <1>2, <1>3 DEF Grown, returnVars, makeDocs, ownSub, packDocs
<1>5. ASSUME NEW b
      PROVE  /\ IsFiniteSet(rows) /\ \A r \in rows : r.delta \in Int
             /\ Moved(b, rows) = LetIn(n, b)'
  <2>1. receipt'[n].qty = receipt[n].qty /\ receipt'[n].good = good BY <1>3
  <2>2. LetIn(n, b)' = FoundIn(receipt[n].qty, good, b) BY <2>1 DEF LetIn, FoundIn
  <2> QED BY <1>1, <1>2, <2>2, InspectedMoves
<1>6. ASSUME NEW r \in rows PROVE Told(r.key)' /\ ~Told(r.key)
  <2>1. PICK l, m : r.key = <<"inspection", i, l, m>> BY DEF InspectionRows
  <2>2. Told(<<"inspection", i, l, m>>)' BY <1>3, ToldByLengthThen
  <2>3. ~Told(<<"inspection", i, l, m>>) BY <1>2, ToldByLength
  <2> QED BY <2>1, <2>2, <2>3
<1>9. ASSUME NEW b \in Balances PROVE Said(b)' = Said(b) + Moved(b, rows)
  <2> DEFINE f == [m \in ReceiptRows |-> LetIn(m, b)]
             g == [m \in ReceiptRows |-> LetIn(m, b)']
  <2>1. NR \in Int /\ 1 \in Int BY PurchasingAssumption
  <2>2. IsFiniteSet(ReceiptRows) BY <2>1, FS_Interval DEF ReceiptRows
  <2>3. IsFiniteSet(S) /\ n \notin S BY <1>2, <2>2, FS_Subset
  <2>4. ASSUME NEW m \in S PROVE LetIn(m, b)' = LetIn(m, b) /\ LetIn(m, b) \in Int
    <3>1. receipt'[m] = receipt[m] BY <1>2, <1>3
    <3>2. LetIn(m, b) \in Int BY <1>1, LetInType
    <3> QED BY <3>1, <3>2 DEF LetIn
  <2>5. Moved(b, rows) \in Int BY <1>5, MovedType
  <2>6. \A m \in S : f[m] \in Int /\ g[m] = f[m] BY <2>4
  <2>7. g[n] = Moved(b, rows) BY <1>5
  <2>8. \A m \in S \cup {n} : g[m] \in Int BY <2>5, <2>6, <2>7
  <2>9. {m \in ReceiptRows : receipt'[m].status = "completed"} = S \cup {n} BY <1>3
  <2>10. TakenIn(b)' = SumOver(g, S \cup {n}) BY <2>9 DEF TakenIn
  <2>11. TakenIn(b) = SumOver(f, S) BY DEF TakenIn
  <2> HIDE DEF f, g, S, rows
  <2>12. SumOver(g, S) = SumOver(f, S) BY <2>3, <2>6, SumAgree
  <2>13. SumOver(g, S \cup {n}) = SumOver(g, S) + g[n] BY <2>3, <2>8, SumAdd
  <2>14. TakenIn(b)' = TakenIn(b) + Moved(b, rows) BY <2>7, <2>10, <2>11, <2>12, <2>13
  <2>15. returnEvents' = returnEvents BY <1>2 DEF returnVars
  <2>16. SentBack(b)' = SentBack(b) BY <2>15 DEF SentBack, LeavesWith
  <2>17. ProducedOn(b)' = ProducedOn(b) /\ SubMoved(b)' = SubMoved(b) /\ PackedOn(b)' = PackedOn(b)
    BY PartsStay
  <2> QED BY <2>5, <2>14, <2>16, <2>17, PartsTyped DEF Said
<1> HIDE DEF rows
<1>10. IsFiniteSet(rows) /\ \A r \in rows : r.delta \in Int BY <1>5
<1> QED BY <1>2, <1>4, <1>6, <1>9, <1>10, Closes

LEMMA DispatchMoves ==
  ASSUME NEW r \in Returns, NEW k, NEW b, NEW rows,
         rows = {[key |-> <<k, r, x.line>>, balance |-> x.balance, delta |-> -x.qty] : x \in ReturnLines[r]}
  PROVE  /\ IsFiniteSet(rows) /\ \A x \in rows : x.delta \in Int
         /\ Moved(b, rows) = -LeavesWith(r, b)
<1> DEFINE S == ReturnLines[r]
           row == [x \in S |-> [key |-> <<k, r, x.line>>, balance |-> x.balance, delta |-> -x.qty]]
           at == [x \in S |-> x.balance]
           q == [x \in S |-> -x.qty]
           p == [x \in S |-> x.qty]
           T == {x \in S : x.balance = b}
<1>1. /\ IsFiniteSet(S) /\ \A x \in S : x.qty \in Nat
      /\ \A x, y \in S : x.line = y.line => x = y
  BY PurchasingAssumption
<1>2. RowsOfEach(S, row, at, q, b, rows, T)
  <2>1. rows = {row[x] : x \in S} /\ T = {x \in S : at[x] = b} OBVIOUS
  <2>2. \A x \in S : row[x].balance = at[x] /\ row[x].delta = q[x] /\ q[x] \in Int BY <1>1
  <2>3. ASSUME NEW x \in S, NEW y \in S, row[x] = row[y] PROVE x = y
    <3>1. <<k, r, x.line>> = <<k, r, y.line>> BY <2>3
    <3> QED BY <1>1, <3>1
  <2> HIDE DEF S, row, at, q, T
  <2> QED BY <1>1, <2>1, <2>2, <2>3 DEF RowsOfEach
<1>3. IsFiniteSet(T) BY <1>1, FS_Subset
<1>4. \A x \in T : p[x] \in Int /\ q[x] = -p[x] BY <1>1
<1>5. LeavesWith(r, b) = SumOver(p, T) BY DEF LeavesWith
<1> HIDE DEF S, row, at, q, p, T
<1>6. /\ IsFiniteSet(rows) /\ \A x \in rows : x.delta \in Int
      /\ Moved(b, rows) = SumOver(q, T)
  BY <1>2, MovedImage
<1>7. SumOver(q, T) = -SumOver(p, T) BY <1>3, <1>4, SumNegated
<1> QED BY <1>5, <1>6, <1>7

LEMMA CloseBooks ==
  ASSUME WorkInv, SubcontractTypeOK, Books, Explained, NEW r \in Returns, CloseDispatch(r),
         UNCHANGED <<makeDocs, ownSub, packDocs>>
  PROVE  Books' /\ Explained'
<1>0. PICK k : k = dispatching[r].key OBVIOUS
<1> DEFINE rows == {[key |-> <<k, r, x.line>>, balance |-> x.balance, delta |-> -x.qty] : x \in ReturnLines[r]}
           R == returnEvents
<1>1. R \in SUBSET Returns BY DEF WorkInv, ReturnsInv
<1>2. /\ Book(rows) /\ r \notin R /\ returnEvents' = R \cup {r} /\ receipt' = receipt
  BY <1>0 DEF CloseDispatch
<1>5. Grown BY <1>2 DEF Grown, makeDocs, ownSub, packDocs
<1>6. \A b : /\ IsFiniteSet(rows) /\ \A x \in rows : x.delta \in Int
             /\ Moved(b, rows) = -LeavesWith(r, b)
  BY DispatchMoves
<1>7. r \notin {"line", "material"} BY PurchasingAssumption
<1>8. ASSUME NEW x \in rows
      PROVE  Told(x.key)' /\ ~Told(x.key)
  <2>1. PICK l : x.key = <<k, r, l>> OBVIOUS
  <2>2. Told(<<k, r, l>>)' BY <1>2, <1>7, ToldByLengthThen
  <2>3. ~Told(<<k, r, l>>) BY <1>2, ToldByLength
  <2> QED BY <2>1, <2>2, <2>3
<1>9. ASSUME NEW b \in Balances PROVE Said(b)' = Said(b) + Moved(b, rows)
  <2> DEFINE g == [s \in Returns |-> LeavesWith(s, b)]
  <2>1. IsFiniteSet(Returns) BY PurchasingAssumption
  <2>2. IsFiniteSet(R) /\ r \notin R BY <1>1, <1>2, <2>1, FS_Subset
  <2>3. \A s \in R \cup {r} : g[s] \in Int BY <1>1, LeavesType
  <2>5. SentBack(b)' = SumOver(g, R \cup {r}) BY <1>2 DEF SentBack, LeavesWith
  <2>6. SentBack(b) = SumOver(g, R) BY DEF SentBack
  <2>7. g[r] = LeavesWith(r, b) OBVIOUS
  <2> HIDE DEF g, R, rows
  <2>8. SumOver(g, R \cup {r}) = SumOver(g, R) + g[r] BY <2>2, <2>3, SumAdd
  <2>9. SentBack(b)' = SentBack(b) + LeavesWith(r, b) BY <2>5, <2>6, <2>7, <2>8
  <2>10. TakenIn(b)' = TakenIn(b) BY <1>2 DEF TakenIn, LetIn
  <2>11. ProducedOn(b)' = ProducedOn(b) /\ SubMoved(b)' = SubMoved(b) /\ PackedOn(b)' = PackedOn(b)
    BY PartsStay
  <2>12. Moved(b, rows) = -LeavesWith(r, b) /\ LeavesWith(r, b) \in Int BY <1>6, LeavesType
  <2> QED BY <2>9, <2>10, <2>11, <2>12, PartsTyped DEF Said
<1> HIDE DEF rows
<1>10. IsFiniteSet(rows) /\ \A x \in rows : x.delta \in Int BY <1>6
<1> QED BY <1>2, <1>5, <1>8, <1>9, <1>10, Closes

\* The other steps of purchasing: nothing new is inspected, and nothing leaves.
LEMMA BoughtStands ==
  ASSUME WorkInv, SubcontractTypeOK, Books, Explained,
         UNCHANGED <<makeDocs, ownSub, packDocs>>, UNCHANGED stockVars, returnEvents' = returnEvents,
         \A n \in ReceiptRows : receipt'[n].status = "completed" <=> receipt[n].status = "completed",
         \A n \in ReceiptRows : receipt[n].status = "completed" => receipt'[n] = receipt[n]
  PROVE  Books' /\ Explained'
<1>1. Grown BY DEF Grown, makeDocs, ownSub, packDocs
<1>2. ASSUME NEW b \in Balances PROVE Said(b)' = Said(b)
  <2>2. SentBack(b)' = SentBack(b) BY DEF SentBack, LeavesWith
  <2>3. TakenIn(b)' = TakenIn(b) BY TakenKept DEF WorkInv
  <2>4. ProducedOn(b)' = ProducedOn(b) /\ SubMoved(b)' = SubMoved(b) /\ PackedOn(b)' = PackedOn(b)
    BY PartsStay
  <2> QED BY <2>2, <2>3, <2>4 DEF Said
<1> QED BY <1>1, <1>2, Stands

LEMMA BuyingBooks ==
  ASSUME WorkInv, SubcontractTypeOK, Books, Explained, UNCHANGED <<makeDocs, ownSub, packDocs>>,
         PurchasingNext \/ \E o \in Orders, wanted \in Seq(Nat) : CreateOrder(o, wanted)
  PROVE  Books' /\ Explained'
<1>1. receipt \in [ReceiptRows -> ReceiptRowSet] BY DEF WorkInv, OrdersInv, PurchasingTypeOK
<1>2. ASSUME UNCHANGED <<stockVars, receipt, returnEvents>> PROVE Books' /\ Explained'
  BY <1>2, BoughtStands
<1>3. ASSUME NEW o, NEW wanted, CreateOrder(o, wanted) PROVE Books' /\ Explained'
  BY <1>2, <1>3 DEF CreateOrder, returnVars
<1>4. ASSUME NEW o, NEW action, NEW v, TransitionOrder(o, action, v) PROVE Books' /\ Explained'
  BY <1>2, <1>4 DEF TransitionOrder, returnVars
<1>5. ASSUME NEW o \in Orders, NEW n \in ReceiptRows, NEW q \in Deliveries, Receive(o, n, q)
      PROVE  Books' /\ Explained'
  <2> DEFINE new == [NoReceipt EXCEPT !.status = "inspection", !.order = o, !.qty = q]
  <2>1. /\ receipt[n] = NoReceipt /\ receipt' = [receipt EXCEPT ![n] = new]
        /\ UNCHANGED <<stockVars, returnEvents>>
    BY <1>5 DEF Receive, returnVars
  <2>2. new.status = "inspection" /\ NoReceipt.status = "none" BY DEF NoReceipt
  <2> HIDE DEF new
  <2>3. receipt'[n] = new /\ \A m \in ReceiptRows \ {n} : receipt'[m] = receipt[m] BY <1>1, <2>1
  <2> QED BY <2>1, <2>2, <2>3, BoughtStands
<1>6. ASSUME NEW r \in Returns, NEW actor, ApproveReturn(r, actor) PROVE Books' /\ Explained'
  BY <1>2, <1>6 DEF ApproveReturn, orderVars
<1>7. ASSUME NEW r \in Returns, NEW k, OpenDispatch(r, k) PROVE Books' /\ Explained'
  BY <1>2, <1>7 DEF OpenDispatch, orderVars
<1>8. ASSUME NEW r \in Returns, AbortDispatch(r) PROVE Books' /\ Explained'
  BY <1>2, <1>8 DEF AbortDispatch, orderVars
<1>9. ASSUME NEW r \in Returns, OpenForm(r) PROVE Books' /\ Explained'
  BY <1>2, <1>9 DEF OpenForm, orderVars
<1>10. ASSUME NEW r \in Returns, SaveForm(r) PROVE Books' /\ Explained'
  BY <1>2, <1>10 DEF SaveForm, orderVars
<1>11. CASE PurchasingNext
  BY <1>4, <1>5, <1>6, <1>7, <1>8, <1>9, <1>10, <1>11, InspectBooks, CloseBooks DEF PurchasingNext
<1> QED BY <1>3, <1>11
-----------------------------------------------------------------------------
\* Materials that go into production, and what comes out of it.
LEMMA IssueMoves ==
  ASSUME NEW q \in [Components -> Nat], NEW k, NEW b
  PROVE  /\ IsFiniteSet(IssueRows(k, q)) /\ \A r \in IssueRows(k, q) : r.delta \in Int
         /\ \A r \in IssueRows(k, q) : \E x : r.key = <<k, "line", x>>
         /\ Moved(b, IssueRows(k, q)) = -Drawn(q, b)
<1> DEFINE S == {c \in Components : q[c] > 0}
           rank == [c \in S |-> Cardinality({d \in S : d <= c})]
           row == [c \in S |-> [key |-> <<k, "line", rank[c]>>, balance |-> ComponentAt[c], delta |-> -q[c]]]
           minus == [c \in Components |-> -q[c]]
           rows == {row[c] : c \in S}
           A == {c \in Components : ComponentAt[c] = b}
<1>1. NC \in Int /\ 1 \in Int /\ NC \in Nat BY ProductionAssumption
<1>2. IsFiniteSet(Components) BY <1>1, FS_Interval DEF Components
<1>3. IsFiniteSet(S) /\ IsFiniteSet(A) /\ \A c \in S : c \in Int BY <1>1, <1>2, FS_Subset DEF Components
<1>4. ASSUME NEW x \in S, NEW y \in S, x < y PROVE rank[x] # rank[y]
  <2> DEFINE X == {d \in S : d <= x}
             Y == {d \in S : d <= y}
  <2>1. X \in SUBSET Y /\ y \in Y /\ y \notin X BY <1>3, <1>4
  <2>2. IsFiniteSet(Y) BY <1>3, FS_Subset
  <2>3. X # Y BY <2>1
  <2>4. rank[x] = Cardinality(X) /\ rank[y] = Cardinality(Y) OBVIOUS
  <2> HIDE DEF X, Y, rank, S
  <2>5. Cardinality(X) # Cardinality(Y) BY <2>1, <2>2, <2>3, FS_Subset
  <2> QED BY <2>4, <2>5
<1>5. \A x, y \in S : row[x] = row[y] => x = y
  <2> SUFFICES ASSUME NEW x \in S, NEW y \in S, row[x] = row[y], x # y PROVE FALSE
    OBVIOUS
  <2>1. <<k, "line", rank[x]>> = <<k, "line", rank[y]>> OBVIOUS
  <2>2. rank[x] = rank[y] BY <2>1
  <2>3. x < y \/ y < x BY <1>3
  <2> QED BY <1>4, <2>2, <2>3
<1>6. IssueRows(k, q) = rows BY DEF IssueRows
<1>7. RowsOfSome(Components, S, row, ComponentAt, minus, b, rows, A)
  <2>1. S \subseteq Components /\ rows = {row[c] : c \in S} /\ A = {c \in Components : ComponentAt[c] = b}
    OBVIOUS
  <2>2. \A c \in S : row[c].balance = ComponentAt[c] /\ row[c].delta = minus[c] OBVIOUS
  <2>3. \A c \in Components : minus[c] \in Int /\ (c \notin S => minus[c] = 0) OBVIOUS
  <2> HIDE DEF S, row, rows, minus, A
  <2> QED BY <1>2, <1>5, <2>1, <2>2, <2>3 DEF RowsOfSome
<1>8. \A r \in rows : \E x : r.key = <<k, "line", x>>
  <2>1. \A c \in S : row[c].key = <<k, "line", rank[c]>> OBVIOUS
  <2> HIDE DEF row, rank, S
  <2> QED BY <2>1
<1>9. \A c \in A : q[c] \in Int /\ minus[c] = -q[c] OBVIOUS
<1> HIDE DEF S, rank, row, rows, minus, A
<1>10. /\ IsFiniteSet(rows) /\ \A r \in rows : r.delta \in Int
       /\ Moved(b, rows) = SumOver(minus, A)
  BY <1>7, MovedSome
<1>11. SumOver(minus, A) = -SumOver(q, A) BY <1>3, <1>9, SumNegated
<1> QED BY <1>6, <1>8, <1>10, <1>11 DEF A, Drawn

LEMMA IssueBooks ==
  ASSUME WorkInv, SubcontractTypeOK, Books, Explained, UNCHANGED <<buyDocs, ownSub, packDocs>>,
         NEW o \in ProdOrders, NEW k \in ProdKeys, NEW q \in IssueChoices, IssueMaterials(o, k, q)
  PROVE  Books' /\ Explained'
<1> DEFINE rows == IssueRows(k, q)
           new == [order |-> o, qty |-> q]
<1>1. /\ k \notin DOMAIN issue /\ issue' = With(issue, k, new) /\ completion' = completion /\ Book(rows)
  BY DEF IssueMaterials, Posted
<1>2. new.qty = q /\ q \in [Components -> Nat] BY ProductionAssumption DEF Components
<1> HIDE DEF new
<1>3. /\ DOMAIN issue' = DOMAIN issue \cup {k} /\ issue'[k] = new
      /\ \A x \in DOMAIN issue : issue'[x] = issue[x]
  BY <1>1 DEF With
<1>4. Grown BY <1>1, <1>3 DEF Grown, buyDocs, ownSub, packDocs
<1>5. ASSUME NEW b
      PROVE  /\ IsFiniteSet(rows) /\ \A r \in rows : r.delta \in Int
             /\ Moved(b, rows) = -Drawn(q, b)
  BY <1>2, IssueMoves
<1>6. "line" \notin Returns BY PurchasingAssumption
<1>7. ASSUME NEW r \in rows PROVE Told(r.key)' /\ ~Told(r.key)
  <2>1. PICK x : r.key = <<k, "line", x>> BY <1>2, IssueMoves
  <2>2. Told(<<k, "line", x>>)' BY <1>3, <1>6, ToldByLengthThen
  <2>3. ~Told(<<k, "line", x>>) BY <1>1, ToldByLength
  <2> QED BY <2>1, <2>2, <2>3
<1>8. ASSUME NEW b \in Balances PROVE Said(b)' = Said(b) + Moved(b, rows)
  <2> DEFINE f == [x \in DOMAIN issue |-> IssuedOn(x, b)]
             g == [x \in DOMAIN issue' |-> IssuedOn(x, b)']
             m == SumOver([x \in DOMAIN completion |-> MadeOn(x, b)], DOMAIN completion)
  <2>1. g[k] = Drawn(q, b) BY <1>2, <1>3 DEF IssuedOn, Drawn
  <2>2. Drawn(q, b) \in Int BY <1>2, IssuedType
  <2>3. IsFiniteSet(DOMAIN issue) BY DEF WorkInv, ProductionInv
  <2>4. ASSUME NEW x \in DOMAIN issue PROVE f[x] \in Int /\ g[x] = f[x]
    <3>1. IssuedOn(x, b) \in Int BY MadeType DEF WorkInv
    <3>2. IssuedOn(x, b)' = IssuedOn(x, b) BY <1>3 DEF IssuedOn
    <3> QED BY <1>3, <3>1, <3>2
  <2>5. ProducedOn(b) = m - SumOver(f, DOMAIN issue) BY DEF ProducedOn
  <2>6. ProducedOn(b)' = m - SumOver(g, DOMAIN issue') BY <1>1 DEF ProducedOn, MadeOn
  <2>7. m \in Int /\ SumOver(f, DOMAIN issue) \in Int BY ProducedType DEF WorkInv
  <2> HIDE DEF f, g, m
  <2>8. RowPut(issue, issue', k, f, g) BY <1>1, <1>3, <2>1, <2>2, <2>3, <2>4 DEF RowPut
  <2>9. SumOver(g, DOMAIN issue') = SumOver(f, DOMAIN issue) + g[k] BY <2>8, TableAdded
  <2>10. Moved(b, rows) = -Drawn(q, b) BY <1>5
  <2> HIDE DEF rows
  <2>11. ProducedOn(b)' = ProducedOn(b) + Moved(b, rows)
    BY <2>1, <2>2, <2>5, <2>6, <2>7, <2>9, <2>10
  <2>12. /\ TakenIn(b)' = TakenIn(b) /\ SentBack(b)' = SentBack(b)
         /\ SubMoved(b)' = SubMoved(b) /\ PackedOn(b)' = PackedOn(b)
    BY PartsStay
  <2>13. Moved(b, rows) \in Int BY <2>2, <2>10
  <2> QED BY <2>11, <2>12, <2>13, PartsTyped DEF Said
<1> HIDE DEF rows
<1>9. IsFiniteSet(rows) /\ \A r \in rows : r.delta \in Int BY <1>5
<1> QED BY <1>1, <1>4, <1>7, <1>8, <1>9, Closes

LEMMA OutputMoves ==
  ASSUME NEW k, NEW out, out.good \in Nat, out.rejected \in Nat, NEW b
  PROVE  /\ IsFiniteSet(OutputRows(k, out)) /\ \A r \in OutputRows(k, out) : r.delta \in Int
         /\ Moved(b, OutputRows(k, out)) = (IF b = GoodAt THEN out.good ELSE 0)
                                           + (IF b = RejectAt THEN out.rejected ELSE 0)
<1> DEFINE r == [key |-> <<k, "A">>, balance |-> GoodAt, delta |-> out.good]
           s == [key |-> <<k, "R">>, balance |-> RejectAt, delta |-> out.rejected]
<1>1. r # s
  <2>1. r.key # s.key OBVIOUS
  <2> QED BY <2>1
<1>2. r.delta = out.good /\ s.delta = out.rejected /\ r.balance = GoodAt /\ s.balance = RejectAt OBVIOUS
<1>3. OutputRows(k, out) = {x \in {r, s} : x.delta > 0} BY DEF OutputRows
<1> HIDE DEF r, s
<1>4. {x \in {r, s} : x.delta > 0} = {x \in {r, s} : x.delta # 0} BY <1>2
<1>5. /\ IsFiniteSet({x \in {r, s} : x.delta # 0})
      /\ Moved(b, {x \in {r, s} : x.delta # 0}) =
              (IF r.balance = b THEN r.delta ELSE 0) + (IF s.balance = b THEN s.delta ELSE 0)
  BY <1>1, <1>2, MovedPair
<1> QED BY <1>2, <1>3, <1>4, <1>5

LEMMA CompleteBooks ==
  ASSUME WorkInv, SubcontractTypeOK, Books, Explained, UNCHANGED <<buyDocs, ownSub, packDocs>>,
         NEW o \in ProdOrders, NEW k \in ProdKeys, NEW out \in OutputChoices, NEW used \in UseChoices,
         Complete(o, k, out, used)
  PROVE  Books' /\ Explained'
<1> DEFINE rows == OutputRows(k, out)
           new == [order |-> o, out |-> out, used |-> used]
<1>1. /\ k \notin DOMAIN completion /\ completion' = With(completion, k, new) /\ issue' = issue /\ Book(rows)
  BY DEF Complete, Posted
<1>2. new.out = out /\ out.good \in Nat /\ out.rejected \in Nat BY ProductionAssumption
<1> HIDE DEF new
<1>3. /\ DOMAIN completion' = DOMAIN completion \cup {k} /\ completion'[k] = new
      /\ \A x \in DOMAIN completion : completion'[x] = completion[x]
  BY <1>1 DEF With
<1>4. Grown BY <1>1, <1>3 DEF Grown, buyDocs, ownSub, packDocs
<1>5. \A b : /\ IsFiniteSet(rows) /\ \A r \in rows : r.delta \in Int
             /\ Moved(b, rows) = (IF b = GoodAt THEN out.good ELSE 0)
                                 + (IF b = RejectAt THEN out.rejected ELSE 0)
  BY <1>2, OutputMoves
<1>6. ASSUME NEW r \in rows PROVE Told(r.key)' /\ ~Told(r.key)
  <2>1. PICK x \in {"A", "R"} : r.key = <<k, x>> BY DEF OutputRows
  <2>2. Told(<<k, x>>)' BY <1>3, ToldByLengthThen
  <2>3. ~Told(<<k, x>>) BY <1>1, ToldByLength
  <2> QED BY <2>1, <2>2, <2>3
<1>7. ASSUME NEW b \in Balances PROVE Said(b)' = Said(b) + Moved(b, rows)
  <2> DEFINE f == [x \in DOMAIN completion |-> MadeOn(x, b)]
             g == [x \in DOMAIN completion' |-> MadeOn(x, b)']
             i == SumOver([x \in DOMAIN issue |-> IssuedOn(x, b)], DOMAIN issue)
  <2>1. g[k] = Moved(b, rows) BY <1>2, <1>3, <1>5 DEF MadeOn
  <2>2. Moved(b, rows) \in Int BY <1>2, <1>5
  <2>3. IsFiniteSet(DOMAIN completion) BY DEF WorkInv, ProductionInv
  <2>4. ASSUME NEW x \in DOMAIN completion PROVE f[x] \in Int /\ g[x] = f[x]
    <3>1. MadeOn(x, b) \in Int BY MadeType DEF WorkInv
    <3>2. MadeOn(x, b)' = MadeOn(x, b) BY <1>3 DEF MadeOn
    <3> QED BY <1>3, <3>1, <3>2
  <2>5. ProducedOn(b) = SumOver(f, DOMAIN completion) - i BY DEF ProducedOn
  <2>6. ProducedOn(b)' = SumOver(g, DOMAIN completion') - i BY <1>1 DEF ProducedOn, IssuedOn
  <2>7. i \in Int /\ SumOver(f, DOMAIN completion) \in Int BY ProducedType DEF WorkInv
  <2> HIDE DEF f, g, i, rows
  <2>8. RowPut(completion, completion', k, f, g) BY <1>1, <1>3, <2>1, <2>2, <2>3, <2>4 DEF RowPut
  <2>9. SumOver(g, DOMAIN completion') = SumOver(f, DOMAIN completion) + g[k] BY <2>8, TableAdded
  <2>10. ProducedOn(b)' = ProducedOn(b) + Moved(b, rows)
    BY <2>1, <2>2, <2>5, <2>6, <2>7, <2>9
  <2>11. /\ TakenIn(b)' = TakenIn(b) /\ SentBack(b)' = SentBack(b)
         /\ SubMoved(b)' = SubMoved(b) /\ PackedOn(b)' = PackedOn(b)
    BY PartsStay
  <2> QED BY <2>2, <2>10, <2>11, PartsTyped DEF Said
<1> HIDE DEF rows
<1>8. IsFiniteSet(rows) /\ \A r \in rows : r.delta \in Int BY <1>5
<1> QED BY <1>1, <1>4, <1>6, <1>7, <1>8, Closes

LEMMA WorkBooks ==
  ASSUME WorkInv, SubcontractTypeOK, Books, Explained, UNCHANGED <<buyDocs, ownSub, packDocs>>, WorkNext
  PROVE  Books' /\ Explained'
<1>1. ASSUME UNCHANGED <<stockVars, makeDocs>> PROVE Books' /\ Explained'
  <2>1. Grown BY <1>1 DEF Grown, buyDocs, makeDocs, ownSub, packDocs
  <2>2. \A b \in Balances : Said(b)' = Said(b) BY <1>1, PartsStay DEF Said
  <2> QED BY <1>1, <2>1, <2>2, Stands
<1>2. ASSUME NEW o, PlanOrder(o) PROVE Books' /\ Explained'
  BY <1>1, <1>2 DEF PlanOrder, makeDocs
<1>3. ASSUME NEW o, NEW action, NEW v, MoveOrder(o, action, v) PROVE Books' /\ Explained'
  BY <1>1, <1>3 DEF MoveOrder, makeDocs
<1> QED BY <1>2, <1>3, IssueBooks, CompleteBooks DEF WorkNext
-----------------------------------------------------------------------------
\* Work done outside.
LEMMA SubStarts == ASSUME SubcontractInit PROVE SubInv
<1>1. sub \in [SubOrders -> SubRows]
  BY SubcontractAssumption DEF SubcontractInit, NewSub, SubRows
<1>2. IsFiniteSet({}) BY FS_EmptySet
<1> QED BY <1>1, <1>2 DEF SubcontractInit, SubInv, SubcontractTypeOK

LEMMA BackRow ==
  ASSUME NEW x \in SubRows, NEW good \in Int, NEW bad \in Int, good + bad > 0,
         x.accepted + good >= 0, x.rejected + bad >= 0
  PROVE  /\ Back(x, good, bad) \in SubRows /\ Stage(Back(x, good, bad)) = 3
         /\ Back(x, good, bad).status \in {"received", "completed"}
         /\ Back(x, good, bad).accepted = x.accepted + good /\ Back(x, good, bad).rejected = x.rejected + bad
<1>1. x.received + good + bad \in Nat /\ x.accepted + good \in Nat /\ x.rejected + bad \in Nat
  BY DEF SubRows
<1> QED BY <1>1 DEF Back, SubRows, Stage

LEMMA SubKept ==
  ASSUME SubInv, UNCHANGED <<subForm, resent>>, NEW s \in SubOrders, NEW row \in SubRows,
         sub' = [sub EXCEPT ![s] = row],
         Stage(sub[s]) < Stage(row),
         subUsed' = subUsed \/
           \E k \in SubKeys : \/ subUsed' = subUsed \cup {<<"sent", s, k>>} /\ Stage(row) >= 2
                              \/ subUsed' = subUsed \cup {<<"back", s, k>>} /\ Stage(row) >= 3
  PROVE  SubInv'
<1> USE DEF SubInv, SubcontractTypeOK
<1>1. sub' \in [SubOrders -> SubRows] /\ sub'[s] = row /\ \A x \in SubOrders \ {s} : sub'[x] = sub[x]
  OBVIOUS
<1>2. IsFiniteSet(subUsed')
  <2>1. \A x : IsFiniteSet(subUsed \cup {x}) BY FS_AddElement
  <2> QED BY <2>1
<1>3. \A x \in subUsed' : \E y \in SubOrders, k \in SubKeys : x = <<"sent", y, k>> \/ x = <<"back", y, k>>
  OBVIOUS
<1>4. ASSUME NEW x \in SubOrders, subForm'[x] # NoCopy
      PROVE  /\ Stage(subForm'[x]) <= Stage(sub'[x])
             /\ subForm'[x].status = sub'[x].status =>
                  subForm'[x].accepted = sub'[x].accepted /\ subForm'[x].rejected = sub'[x].rejected
  <2>1. CASE x # s BY <1>1, <1>4, <2>1
  <2>2. CASE x = s
    <3>1. Stage(subForm[s]) <= Stage(sub[s]) BY <1>4, <2>2
    <3>2. \A y : Stage(y) \in 0..3 BY DEF Stage
    <3>3. Stage(subForm[s]) < Stage(row) BY <3>1, <3>2
    <3>4. subForm[s].status # row.status BY <3>2, <3>3 DEF Stage
    <3> QED BY <1>1, <2>2, <3>2, <3>3, <3>4
  <2> QED BY <2>1, <2>2
<1>5. ASSUME resent' = {}, NEW x \in SubOrders, NEW k \in SubKeys
      PROVE  /\ <<"sent", x, k>> \in subUsed' => Stage(sub'[x]) >= 2
             /\ <<"back", x, k>> \in subUsed' => Stage(sub'[x]) >= 3
  <2>1. /\ <<"sent", x, k>> \in subUsed => Stage(sub[x]) >= 2
        /\ <<"back", x, k>> \in subUsed => Stage(sub[x]) >= 3
    BY <1>5
  <2>2. Stage(sub'[x]) >= Stage(sub[x])
    <3>1. \A y : Stage(y) \in 0..3 BY DEF Stage
    <3> QED BY <1>1, <3>1
  <2>3. \A y : Stage(y) \in Int BY DEF Stage
  <2>4. CASE x # s BY <1>1, <2>1, <2>4
  <2>5. CASE x = s
    <3>1. sub'[x] = row BY <1>1, <2>5
    <3>2. <<"sent", x, k>> \in subUsed' => <<"sent", x, k>> \in subUsed \/ Stage(row) >= 2 OBVIOUS
    <3>3. <<"back", x, k>> \in subUsed' => <<"back", x, k>> \in subUsed \/ Stage(row) >= 3 OBVIOUS
    <3> QED BY <2>1, <2>2, <2>3, <3>1, <3>2, <3>3
  <2> QED BY <2>4, <2>5
<1> QED BY <1>1, <1>2, <1>3, <1>4, <1>5

LEMMA SubStep == ASSUME SubInv, [SupplyNext]_supplyVars PROVE SubInv'
<1>1. sub \in [SubOrders -> SubRows] /\ \A s \in SubOrders : sub[s] \in SubRows
  BY DEF SubInv, SubcontractTypeOK
<1>2. ASSUME NEW s \in SubOrders, NEW actor, ApproveSub(s, actor) PROVE SubInv'
  <2> DEFINE row == [sub[s] EXCEPT !.status = "approved"]
  <2>1. sub[s].status = "draft" /\ sub' = [sub EXCEPT ![s] = row] /\ UNCHANGED <<subForm, resent, subUsed>>
    BY <1>2 DEF ApproveSub
  <2>2. row \in SubRows /\ row.status = "approved" BY <1>1 DEF SubRows
  <2> HIDE DEF row
  <2>3. Stage(sub[s]) < Stage(row) BY <2>1, <2>2 DEF Stage
  <2> QED BY <2>1, <2>2, <2>3, SubKept
<1>3. ASSUME NEW s \in SubOrders, NEW k \in SubKeys, SendMaterials(s, k) PROVE SubInv'
  <2> DEFINE row == [sub[s] EXCEPT !.status = "material_sent"]
  <2>1. /\ sub[s].status = "approved" /\ sub' = [sub EXCEPT ![s] = row]
        /\ subUsed' = subUsed \cup {<<"sent", s, k>>} /\ UNCHANGED <<subForm, resent>>
    BY <1>3 DEF SendMaterials
  <2>2. row \in SubRows /\ row.status = "material_sent" BY <1>1 DEF SubRows
  <2> HIDE DEF row
  <2>3. Stage(sub[s]) < Stage(row) /\ Stage(row) >= 2 BY <2>1, <2>2 DEF Stage
  <2> QED BY <2>1, <2>2, <2>3, SubKept
<1>4. ASSUME NEW s \in SubOrders, NEW k \in SubKeys, NEW good \in Int, NEW bad \in Int,
             ReceiveSub(s, k, good, bad)
      PROVE  SubInv'
  <2> DEFINE row == Back(sub[s], good, bad)
  <2>1. /\ sub[s].status = "material_sent" /\ good + bad > 0
        /\ sub[s].accepted + good >= 0 /\ sub[s].rejected + bad >= 0
        /\ sub' = [sub EXCEPT ![s] = row]
        /\ subUsed' = subUsed \cup {<<"back", s, k>>} /\ UNCHANGED <<subForm, resent>>
    BY <1>1, <1>4 DEF ReceiveSub, SubRows
  <2>2. row \in SubRows /\ Stage(row) = 3 BY <1>1, <2>1, BackRow
  <2> HIDE DEF row
  <2>3. Stage(sub[s]) < Stage(row) /\ Stage(row) >= 3 BY <2>1, <2>2 DEF Stage
  <2> QED BY <2>1, <2>2, <2>3, SubKept
<1>5. ASSUME NEW s \in SubOrders, OpenSubForm(s) PROVE SubInv'
  <2>1. subForm' = [subForm EXCEPT ![s] = sub[s]] /\ UNCHANGED <<sub, resent, subUsed>>
    BY <1>5 DEF OpenSubForm
  <2>2. \A y : Stage(y) \in Int BY DEF Stage
  <2> QED BY <1>1, <2>1, <2>2 DEF SubInv, SubcontractTypeOK
<1>6. ASSUME NEW s \in SubOrders, NEW ordered \in OrderedChoices, SaveSubForm(s, ordered) PROVE SubInv'
  <2> DEFINE row == [subForm[s] EXCEPT !.ordered = ordered]
  <2>1. /\ subForm[s] # NoCopy /\ sub' = [sub EXCEPT ![s] = row]
        /\ subForm' = [subForm EXCEPT ![s] = NoCopy] /\ UNCHANGED subUsed
        /\ resent' = IF subForm[s].status = sub[s].status THEN resent ELSE resent \cup {s}
    BY <1>6 DEF SaveSubForm
  <2>2. subForm[s] \in SubRows /\ ordered \in Nat
    BY <2>1, SubcontractAssumption DEF SubInv
  <2>3. row \in SubRows /\ row.status = subForm[s].status BY <2>2 DEF SubRows
  <2>4. Stage(row) = Stage(subForm[s]) BY <2>3 DEF Stage
  <2> HIDE DEF row
  <2>5. /\ sub' \in [SubOrders -> SubRows] /\ sub'[s] = row /\ subForm'[s] = NoCopy
        /\ \A x \in SubOrders \ {s} : sub'[x] = sub[x] /\ subForm'[x] = subForm[x]
        /\ subForm' \in [SubOrders -> SubRows \cup {NoCopy}]
    BY <1>1, <2>1, <2>3 DEF SubInv
  <2>6. ASSUME resent' = {} PROVE resent = {} /\ Stage(sub'[s]) = Stage(sub[s])
    <3>1. subForm[s].status = sub[s].status BY <2>1, <2>6
    <3> QED BY <2>1, <2>3, <2>5, <2>6, <3>1 DEF Stage
  <2>7. resent' = {} => \A x \in SubOrders : Stage(sub'[x]) = Stage(sub[x]) BY <2>5, <2>6
  <2> QED BY <2>1, <2>5, <2>6, <2>7 DEF SubInv, SubcontractTypeOK
<1>7. CASE UNCHANGED ownSub BY <1>7 DEF ownSub, SubInv, SubcontractTypeOK
<1>8. CASE SubcontractNext
  <2>1. -1..MaxSubQty \subseteq Int OBVIOUS
  <2> QED BY <1>2, <1>3, <1>4, <1>5, <1>6, <1>8, <2>1 DEF SubcontractNext
<1> QED BY <1>7, <1>8, StockMoves

LEMMA SentMoves ==
  ASSUME NEW s \in SubOrders, NEW k, NEW b
  PROVE  /\ IsFiniteSet(SentRows(s, k)) /\ \A r \in SentRows(s, k) : r.delta \in Int
         /\ \A r \in SentRows(s, k) : \E x : r.key = <<k, "material", x>>
         /\ Moved(b, SentRows(s, k)) = -TakenOut(s, b)
<1> DEFINE S == Sent[s]
           row == [x \in S |-> [key |-> <<k, "material", x.material>>, balance |-> x.balance, delta |-> -x.qty]]
           at == [x \in S |-> x.balance]
           q == [x \in S |-> -x.qty]
           p == [x \in S |-> x.qty]
           T == {x \in S : x.balance = b}
           rows == {row[x] : x \in S}
<1>1. IsFiniteSet(S) /\ S \subseteq [material : Nat, balance : Balances, qty : Nat] BY SubcontractAssumption
<1>2. SentRows(s, k) = rows BY DEF SentRows
<1>3. RowsOfEach(S, row, at, q, b, rows, T)
  <2>1. rows = {row[x] : x \in S} /\ T = {x \in S : at[x] = b} OBVIOUS
  <2>2. \A x \in S : row[x].balance = at[x] /\ row[x].delta = q[x] /\ q[x] \in Int BY <1>1
  <2>3. ASSUME NEW x \in S, NEW y \in S, row[x] = row[y] PROVE x = y
    <3>1. <<k, "material", x.material>> = <<k, "material", y.material>> BY <2>3
    <3>2. x.balance = y.balance /\ -x.qty = -y.qty BY <2>3
    <3>3. x.material = y.material BY <3>1
    <3>4. x.qty = y.qty BY <1>1, <3>2
    <3> QED BY <1>1, <3>2, <3>3, <3>4
  <2> HIDE DEF S, row, at, q, T, rows
  <2> QED BY <1>1, <2>1, <2>2, <2>3 DEF RowsOfEach
<1>4. IsFiniteSet(T) BY <1>1, FS_Subset
<1>5. \A x \in T : p[x] \in Int /\ q[x] = -p[x] BY <1>1
<1>6. TakenOut(s, b) = SumOver(p, T) BY DEF TakenOut
<1>7. \A r \in SentRows(s, k) : \E x : r.key = <<k, "material", x>> BY DEF SentRows
<1> HIDE DEF S, row, at, q, p, T, rows
<1>8. /\ IsFiniteSet(rows) /\ \A x \in rows : x.delta \in Int
      /\ Moved(b, rows) = SumOver(q, T)
  BY <1>3, MovedImage
<1>9. SumOver(q, T) = -SumOver(p, T) BY <1>4, <1>5, SumNegated
<1> QED BY <1>2, <1>6, <1>7, <1>8, <1>9

\* One order changes what it says.
LEMMA SubMovedBy ==
  ASSUME SubcontractTypeOK, NEW s \in SubOrders, NEW b, NEW n \in Int, RowMoved(s, b)' = RowMoved(s, b) + n,
         \A x \in SubOrders \ {s} : sub'[x] = sub[x]
  PROVE  SubMoved(b)' = SubMoved(b) + n
<1> DEFINE f == [x \in SubOrders |-> RowMoved(x, b)]
           g == [x \in SubOrders |-> RowMoved(x, b)']
<1>1. IsFiniteSet(SubOrders) BY SubcontractAssumption
<1>2. \A x \in SubOrders : f[x] \in Int BY SubType
<1>3. \A x \in SubOrders : x # s => g[x] = f[x]
  <2> SUFFICES ASSUME NEW x \in SubOrders, x # s PROVE RowMoved(x, b)' = RowMoved(x, b)
    OBVIOUS
  <2>1. sub'[x] = sub[x] OBVIOUS
  <2> QED BY <2>1 DEF RowMoved, TakenOut
<1>4. g[s] = f[s] + n OBVIOUS
<1>5. SubMoved(b) = SumOver(f, SubOrders) BY DEF SubMoved
<1>6. SubMoved(b)' = SumOver(g, SubOrders) BY DEF SubMoved
<1> HIDE DEF f, g
<1>7. /\ IsFiniteSet(SubOrders) /\ s \in SubOrders /\ g[s] \in Int
      /\ \A x \in SubOrders : f[x] \in Int
      /\ \A x \in SubOrders : x # s => g[x] = f[x]
  BY <1>1, <1>2, <1>3, <1>4
<1>8. SumOver(g, SubOrders) = SumOver(f, SubOrders) + g[s] - f[s] BY ONLY <1>7, SumChange
<1>9. SumOver(f, SubOrders) \in Int BY <1>1, <1>2, SumType
<1> QED BY <1>2, <1>4, <1>5, <1>6, <1>8, <1>9

LEMMA SubSaid ==
  ASSUME WorkInv, SubcontractTypeOK, UNCHANGED <<buyDocs, makeDocs, packDocs>>, NEW b \in Balances,
         NEW n \in Int, SubMoved(b)' = SubMoved(b) + n
  PROVE  Said(b)' = Said(b) + n
<1>1. /\ TakenIn(b)' = TakenIn(b) /\ SentBack(b)' = SentBack(b)
      /\ ProducedOn(b)' = ProducedOn(b) /\ PackedOn(b)' = PackedOn(b)
  BY PartsStay
<1> QED BY <1>1, PartsTyped DEF Said

LEMMA SendBooks ==
  ASSUME WorkInv, SubInv, Books, Explained, UNCHANGED <<buyDocs, makeDocs, packDocs>>,
         NEW s \in SubOrders, NEW k \in SubKeys, SendMaterials(s, k)
  PROVE  Books' /\ Explained'
<1> DEFINE rows == SentRows(s, k)
           use == <<"sent", s, k>>
<1>0. SubcontractTypeOK /\ sub \in [SubOrders -> SubRows] BY DEF SubInv, SubcontractTypeOK
<1>1. /\ sub[s].status = "approved" /\ Book(rows) /\ sub' = [sub EXCEPT ![s].status = "material_sent"]
      /\ subUsed' = subUsed \cup {use} /\ resent' = resent
  BY DEF SendMaterials
<1>2. Grown BY <1>1 DEF Grown, buyDocs, makeDocs, packDocs
<1>3. ASSUME NEW b
      PROVE  /\ IsFiniteSet(rows) /\ \A r \in rows : r.delta \in Int
             /\ Moved(b, rows) = -TakenOut(s, b)
  BY SentMoves
<1>4. "material" \notin Returns BY PurchasingAssumption
<1>5. use \in MaterialUse(k)'
  <2>1. use[1] = "sent" /\ use[3] = k OBVIOUS
  <2> QED BY <1>1, <2>1 DEF MaterialUse
<1>6. ASSUME Calm' PROVE MaterialUse(k) = {}
  <2>1. resent = {} BY <1>1, <1>6 DEF Calm
  <2>2. use \notin subUsed
    <3>1. use \in subUsed => Stage(sub[s]) >= 2 BY <2>1 DEF SubInv
    <3>2. Stage(sub[s]) = 1 BY <1>1 DEF Stage
    <3> QED BY <3>1, <3>2
  <2>3. use \notin MaterialUse(k)
    <3>1. use # <<"pack">> /\ use # <<"unpack">> OBVIOUS
    <3> QED BY <2>2, <3>1 DEF MaterialUse
  <2>4. \A x \in MaterialUse(k)' : x = use BY <1>5, <1>6 DEF Calm, OneUse
  <2> QED BY <1>2, <2>3, <2>4, UsesStay
<1>7. ASSUME NEW r \in rows PROVE Told(r.key)' /\ (Calm' => ~Told(r.key))
  <2>1. PICK x : r.key = <<k, "material", x>> BY SentMoves
  <2>2. Told(<<k, "material", x>>)' BY <1>4, <1>5, ToldByLengthThen
  <2>3. Calm' => ~Told(<<k, "material", x>>) BY <1>6, ToldByLength
  <2> QED BY <2>1, <2>2, <2>3
<1>8. ASSUME NEW b \in Balances PROVE Said(b)' = Said(b) + Moved(b, rows)
  <2>1. /\ sub'[s].status = "material_sent" /\ sub'[s].accepted = sub[s].accepted
        /\ sub'[s].rejected = sub[s].rejected /\ \A x \in SubOrders \ {s} : sub'[x] = sub[x]
    BY <1>0, <1>1 DEF SubRows
  <2>2. sub[s].accepted \in Int /\ sub[s].rejected \in Int /\ TakenOut(s, b) \in Int
    <3>1. sub[s] \in SubRows BY <1>0
    <3>2. sub[s].accepted \in Nat /\ sub[s].rejected \in Nat BY <3>1 DEF SubRows
    <3>3. TakenOut(s, b) \in Int BY <1>0, SubType
    <3> QED BY <3>2, <3>3
  <2>3. TakenOut(s, b)' = TakenOut(s, b) BY DEF TakenOut
  <2>4. RowMoved(s, b)' = RowMoved(s, b) + (-TakenOut(s, b)) BY <1>1, <2>1, <2>2, <2>3 DEF RowMoved
  <2> HIDE DEF rows
  <2>5. Moved(b, rows) \in Int /\ RowMoved(s, b)' = RowMoved(s, b) + Moved(b, rows) BY <1>3, <2>2, <2>4
  <2>6. SubMoved(b)' = SubMoved(b) + Moved(b, rows) BY <1>0, <2>1, <2>5, SubMovedBy
  <2> QED BY <1>0, <2>5, <2>6, SubSaid
<1> HIDE DEF rows
<1>9. IsFiniteSet(rows) /\ \A r \in rows : r.delta \in Int BY <1>3
<1> QED BY <1>1, <1>2, <1>7, <1>8, <1>9, Closes

\* What comes back of an order, good or bad, one of which may be a correction.
LEMMA BackMoves ==
  ASSUME NEW k, NEW good \in Int, NEW bad \in Int, NEW b
  PROVE  /\ IsFiniteSet(BackRows(k, good, bad)) /\ \A r \in BackRows(k, good, bad) : r.delta \in Int
         /\ Moved(b, BackRows(k, good, bad)) = (IF b = DoneAt THEN good ELSE 0)
                                               + (IF b = ScrapAt THEN bad ELSE 0)
<1> DEFINE r == [key |-> <<k, "accepted">>, balance |-> DoneAt, delta |-> good]
           s == [key |-> <<k, "rejected">>, balance |-> ScrapAt, delta |-> bad]
<1>1. r # s
  <2>1. r.key # s.key OBVIOUS
  <2> QED BY <2>1
<1>2. r.delta = good /\ s.delta = bad /\ r.balance = DoneAt /\ s.balance = ScrapAt OBVIOUS
<1>3. BackRows(k, good, bad) = {x \in {r, s} : x.delta # 0} BY DEF BackRows
<1> HIDE DEF r, s
<1>4. /\ IsFiniteSet({x \in {r, s} : x.delta # 0})
      /\ Moved(b, {x \in {r, s} : x.delta # 0}) =
              (IF r.balance = b THEN r.delta ELSE 0) + (IF s.balance = b THEN s.delta ELSE 0)
  BY <1>1, <1>2, MovedPair
<1> QED BY <1>2, <1>3, <1>4

LEMMA ReceiveBooks ==
  ASSUME WorkInv, SubInv, Books, Explained, UNCHANGED <<buyDocs, makeDocs, packDocs>>,
         NEW s \in SubOrders, NEW k \in SubKeys, NEW good \in Int, NEW bad \in Int,
         ReceiveSub(s, k, good, bad)
  PROVE  Books' /\ Explained'
<1> DEFINE rows == BackRows(k, good, bad)
           use == <<"back", s, k>>
<1>0. /\ SubcontractTypeOK /\ sub \in [SubOrders -> SubRows] /\ sub[s] \in SubRows
      /\ sub[s].accepted \in Int /\ sub[s].rejected \in Int
  BY DEF SubInv, SubcontractTypeOK, SubRows
<1>1. /\ sub[s].status = "material_sent" /\ good + bad > 0
      /\ sub[s].accepted + good >= 0 /\ sub[s].rejected + bad >= 0
      /\ Book(rows) /\ sub' = [sub EXCEPT ![s] = Back(sub[s], good, bad)]
      /\ subUsed' = subUsed \cup {use} /\ resent' = resent
  BY <1>0 DEF ReceiveSub, SubRows
<1>2. Grown BY <1>1 DEF Grown, buyDocs, makeDocs, packDocs
<1>3. \A b : /\ IsFiniteSet(rows) /\ \A r \in rows : r.delta \in Int
             /\ Moved(b, rows) = (IF b = DoneAt THEN good ELSE 0) + (IF b = ScrapAt THEN bad ELSE 0)
  BY BackMoves
<1>4. use \in ReceiptUse(k)'
  <2>1. use[1] = "back" /\ use[3] = k OBVIOUS
  <2> QED BY <1>1, <2>1 DEF ReceiptUse
<1>5. ASSUME Calm' PROVE ReceiptUse(k) = {}
  <2>1. resent = {} BY <1>1, <1>5 DEF Calm
  <2>2. use \notin subUsed
    <3>1. use \in subUsed => Stage(sub[s]) >= 3 BY <2>1 DEF SubInv
    <3>2. Stage(sub[s]) = 2 BY <1>1 DEF Stage
    <3> QED BY <3>1, <3>2
  <2>3. use \notin ReceiptUse(k) BY <2>2 DEF ReceiptUse
  <2>4. \A x \in ReceiptUse(k)' : x = use BY <1>4, <1>5 DEF Calm, OneUse
  <2> QED BY <1>2, <2>3, <2>4, UsesStay
<1>6. ASSUME NEW r \in rows PROVE Told(r.key)' /\ (Calm' => ~Told(r.key))
  <2>1. PICK x \in {"accepted", "rejected"} : r.key = <<k, x>> BY DEF BackRows
  <2>2. Told(<<k, x>>)' BY <1>4, ToldByLengthThen
  <2>3. Calm' => ~Told(<<k, x>>) BY <1>5, ToldByLength
  <2> QED BY <2>1, <2>2, <2>3
<1>7. ASSUME NEW b \in Balances PROVE Said(b)' = Said(b) + Moved(b, rows)
  <2>1. /\ sub'[s].status \in {"received", "completed"}
        /\ sub'[s].accepted = sub[s].accepted + good /\ sub'[s].rejected = sub[s].rejected + bad
        /\ \A x \in SubOrders \ {s} : sub'[x] = sub[x]
    BY <1>0, <1>1, BackRow
  <2>2. TakenOut(s, b) \in Int BY <1>0, SubType
  <2>3. TakenOut(s, b)' = TakenOut(s, b) BY DEF TakenOut
  <2>4. Moved(b, rows) = (IF b = DoneAt THEN good ELSE 0) + (IF b = ScrapAt THEN bad ELSE 0) BY <1>3
  <2> HIDE DEF rows
  <2>5. Moved(b, rows) \in Int BY <2>4
  <2>6. RowMoved(s, b)' = RowMoved(s, b) + Moved(b, rows)
    BY <1>0, <1>1, <2>1, <2>2, <2>3, <2>4 DEF RowMoved
  <2>7. SubMoved(b)' = SubMoved(b) + Moved(b, rows) BY <1>0, <2>1, <2>5, <2>6, SubMovedBy
  <2> QED BY <1>0, <2>5, <2>7, SubSaid
<1> HIDE DEF rows
<1>8. IsFiniteSet(rows) /\ \A r \in rows : r.delta \in Int BY <1>3
<1> QED BY <1>1, <1>2, <1>6, <1>7, <1>8, Closes

\* A step of an order that moves no stock, and leaves what its row says of it.
LEMMA SubStands ==
  ASSUME WorkInv, SubInv, Books, Explained, UNCHANGED <<buyDocs, makeDocs, packDocs>>, UNCHANGED stockVars,
         resent \subseteq resent', subUsed' = subUsed,
         Calm' => \A s \in SubOrders : \A b : RowMoved(s, b)' = RowMoved(s, b)
  PROVE  Books' /\ Explained'
<1>1. Grown BY DEF Grown, buyDocs, makeDocs, packDocs
<1>2. ASSUME Calm', NEW b \in Balances PROVE Said(b)' = Said(b)
  <2>1. [s \in SubOrders |-> RowMoved(s, b)'] = [s \in SubOrders |-> RowMoved(s, b)] BY <1>2
  <2>2. SubMoved(b)' = SubMoved(b) BY <2>1 DEF SubMoved
  <2>3. /\ TakenIn(b)' = TakenIn(b) /\ SentBack(b)' = SentBack(b)
        /\ ProducedOn(b)' = ProducedOn(b) /\ PackedOn(b)' = PackedOn(b)
    BY PartsStay
  <2> QED BY <2>2, <2>3 DEF Said
<1> QED BY <1>1, <1>2, Stands

LEMMA SubBooks ==
  ASSUME WorkInv, SubInv, Books, Explained, UNCHANGED <<buyDocs, makeDocs, packDocs>>, SubcontractNext
  PROVE  Books' /\ Explained'
<1>1. sub \in [SubOrders -> SubRows] BY DEF SubInv, SubcontractTypeOK
<1>2. ASSUME NEW s \in SubOrders, NEW actor, ApproveSub(s, actor) PROVE Books' /\ Explained'
  <2>1. /\ sub[s].status = "draft" /\ sub' = [sub EXCEPT ![s].status = "approved"]
        /\ UNCHANGED <<stockVars, resent, subUsed>>
    BY <1>2 DEF ApproveSub
  <2>2. /\ sub'[s].status = "approved" /\ sub'[s].accepted = sub[s].accepted
        /\ sub'[s].rejected = sub[s].rejected /\ \A x \in SubOrders \ {s} : sub'[x] = sub[x]
    BY <1>1, <2>1 DEF SubRows
  <2>3. ASSUME NEW x \in SubOrders, NEW b PROVE RowMoved(x, b)' = RowMoved(x, b)
    BY <2>1, <2>2 DEF RowMoved, TakenOut
  <2> QED BY <2>1, <2>3, SubStands
<1>3. ASSUME NEW s \in SubOrders, OpenSubForm(s) PROVE Books' /\ Explained'
  <2>1. UNCHANGED <<stockVars, sub, resent, subUsed>> BY <1>3 DEF OpenSubForm
  <2>2. ASSUME NEW x \in SubOrders, NEW b PROVE RowMoved(x, b)' = RowMoved(x, b)
    BY <2>1 DEF RowMoved, TakenOut
  <2> QED BY <2>1, <2>2, SubStands
<1>4. ASSUME NEW s \in SubOrders, NEW ordered, SaveSubForm(s, ordered) PROVE Books' /\ Explained'
  <2> DEFINE row == [subForm[s] EXCEPT !.ordered = ordered]
  <2>1. /\ subForm[s] # NoCopy /\ sub' = [sub EXCEPT ![s] = row]
        /\ resent' = IF subForm[s].status = sub[s].status THEN resent ELSE resent \cup {s}
        /\ UNCHANGED <<stockVars, subUsed>>
    BY <1>4 DEF SaveSubForm
  <2>2. subForm[s] \in SubRows BY <2>1 DEF SubInv
  <2>3. /\ row.status = subForm[s].status /\ row.accepted = subForm[s].accepted
        /\ row.rejected = subForm[s].rejected
    BY <2>2 DEF SubRows
  <2> HIDE DEF row
  <2>4. sub'[s] = row /\ \A x \in SubOrders \ {s} : sub'[x] = sub[x] BY <1>1, <2>1
  <2>5. ASSUME Calm', NEW x \in SubOrders, NEW b PROVE RowMoved(x, b)' = RowMoved(x, b)
    <3>1. subForm[s].status = sub[s].status BY <2>1, <2>5 DEF Calm
    <3>2. subForm[s].accepted = sub[s].accepted /\ subForm[s].rejected = sub[s].rejected
      BY <2>1, <3>1 DEF SubInv
    <3> QED BY <2>3, <2>4, <3>1, <3>2 DEF RowMoved, TakenOut
  <2> QED BY <2>1, <2>5, SubStands
<1>5. -1..MaxSubQty \subseteq Int OBVIOUS
<1> QED BY <1>2, <1>3, <1>4, <1>5, SendBooks, ReceiveBooks DEF SubcontractNext
-----------------------------------------------------------------------------
\* Packing ahead and unpacking.
\* What n pieces that go from one balance to another move on a balance.
Carried(n, out, in, b) == (IF b = in THEN n ELSE 0) - (IF b = out THEN n ELSE 0)

LEMMA ProductMoves ==
  ASSUME NEW k, NEW n \in Nat \ {0}, NEW out, NEW in, NEW from, NEW to, from # to, NEW b
  PROVE  /\ IsFiniteSet(ProductRows(k, n, out, in, <<from, to>>))
         /\ \A r \in ProductRows(k, n, out, in, <<from, to>>) : r.delta \in Int
         /\ Moved(b, ProductRows(k, n, out, in, <<from, to>>)) = Carried(n, out, in, b)
<1> DEFINE r == [key |-> <<k, from>>, balance |-> out, delta |-> -n]
           s == [key |-> <<k, to>>, balance |-> in, delta |-> n]
           rows == {r} \cup {s}
<1>1. r # s
  <2>1. r.key # s.key OBVIOUS
  <2> QED BY <2>1
<1>2. r.delta = -n /\ s.delta = n /\ r.balance = out /\ s.balance = in OBVIOUS
<1>3. ProductRows(k, n, out, in, <<from, to>>) = rows BY DEF ProductRows
<1> HIDE DEF r, s
<1>4. IsFiniteSet({r}) /\ Moved(b, {r}) = IF out = b THEN -n ELSE 0 BY <1>2, MovedOne
<1>5. IsFiniteSet({s}) /\ Moved(b, {s}) = IF in = b THEN n ELSE 0 BY <1>2, MovedOne
<1>6. {r} \cap {s} = {} /\ \A x \in {r} \cup {s} : x.delta \in Int BY <1>1, <1>2
<1>7. IsFiniteSet(rows) /\ Moved(b, rows) = Moved(b, {r}) + Moved(b, {s})
  BY <1>4, <1>5, <1>6, MovedUnion
<1>8. \A x \in rows : x.delta \in Int BY <1>6
<1> HIDE DEF rows
<1>9. Moved(b, rows) = Carried(n, out, in, b) BY <1>4, <1>5, <1>7 DEF Carried
<1> QED BY <1>3, <1>7, <1>8, <1>9

\* The materials of a pack, taken (-1) or put back (1).
LEMMA MaterialMoves ==
  ASSUME NEW k, NEW q \in [Items -> Nat], NEW sign \in {-1, 1}, NEW b
  PROVE  /\ IsFiniteSet(MaterialRows(k, q, sign))
         /\ \A r \in MaterialRows(k, q, sign) : r.delta \in Int /\ \E i : r.key = <<k, "material", i>>
         /\ Moved(b, MaterialRows(k, q, sign)) = IF sign = 1 THEN PackMaterials(q, b) ELSE -PackMaterials(q, b)
<1> DEFINE S == {i \in Items : q[i] > 0}
           row == [i \in S |-> [key |-> <<k, "material", i>>, balance |-> ItemAt[i], delta |-> sign * q[i]]]
           signed == [i \in Items |-> sign * q[i]]
           rows == {row[i] : i \in S}
           A == {i \in Items : ItemAt[i] = b}
<1>1. IsFiniteSet(Items) BY PrepackAssumption
<1>2. IsFiniteSet(A) BY <1>1, FS_Subset
<1>3. ASSUME NEW i \in Items PROVE signed[i] = IF sign = 1 THEN q[i] ELSE -q[i]
  OBVIOUS
<1>4. \A x, y \in S : row[x] = row[y] => x = y
  <2> SUFFICES ASSUME NEW x \in S, NEW y \in S, row[x] = row[y] PROVE x = y
    OBVIOUS
  <2>1. <<k, "material", x>> = <<k, "material", y>> OBVIOUS
  <2> QED BY <2>1
<1>5. MaterialRows(k, q, sign) = rows BY DEF MaterialRows
<1>6. RowsOfSome(Items, S, row, ItemAt, signed, b, rows, A)
  <2>1. S \subseteq Items /\ rows = {row[i] : i \in S} /\ A = {i \in Items : ItemAt[i] = b} OBVIOUS
  <2>2. \A i \in S : row[i].balance = ItemAt[i] /\ row[i].delta = signed[i] OBVIOUS
  <2>3. \A i \in Items : signed[i] \in Int /\ (i \notin S => signed[i] = 0) BY <1>3
  <2> HIDE DEF S, row, rows, signed, A
  <2> QED BY <1>1, <1>4, <2>1, <2>2, <2>3 DEF RowsOfSome
<1>7. \A r \in rows : \E i : r.key = <<k, "material", i>>
  <2>1. \A i \in S : row[i].key = <<k, "material", i>> OBVIOUS
  <2> HIDE DEF row, S
  <2> QED BY <2>1
<1>8. \A i \in A : q[i] \in Int /\ signed[i] = IF sign = 1 THEN q[i] ELSE -q[i] BY <1>3
<1> HIDE DEF S, row, rows, signed, A
<1>9. /\ IsFiniteSet(rows) /\ \A r \in rows : r.delta \in Int
      /\ Moved(b, rows) = SumOver(signed, A)
  BY <1>6, MovedSome
<1>10. PackMaterials(q, b) = SumOver(q, A) BY DEF PackMaterials, A
<1>11. CASE sign = 1
  <2>1. \A i \in A : q[i] \in Int /\ signed[i] = q[i] BY <1>8, <1>11
  <2>2. SumOver(signed, A) = SumOver(q, A) BY <1>2, <2>1, SumAgree
  <2> QED BY <1>5, <1>7, <1>9, <1>10, <1>11, <2>2
<1>12. CASE sign = -1
  <2>1. \A i \in A : q[i] \in Int /\ signed[i] = -q[i] BY <1>8, <1>12
  <2>2. SumOver(signed, A) = -SumOver(q, A) BY <1>2, <2>1, SumNegated
  <2> QED BY <1>5, <1>7, <1>9, <1>10, <1>12, <2>2
<1> QED BY <1>11, <1>12

\* The rows of a pack or an unpack of n, and what they move on a balance.
PackRows(k, n, out, in, from, to, q, sign) ==
  ProductRows(k, n, out, in, <<from, to>>) \cup MaterialRows(k, q, sign)
PackMoved(n, out, in, q, sign, b) ==
  Carried(n, out, in, b)
    + (IF sign = 1 THEN PackMaterials(q, b) ELSE -PackMaterials(q, b))

PackKeyed(rows, k, from, to) ==
  \A r \in rows : \/ r.key = <<k, from>> \/ r.key = <<k, to>>
                   \/ \E i : r.key = <<k, "material", i>>

LEMMA PackMoves ==
  ASSUME NEW k, NEW n \in Nat \ {0}, NEW out, NEW in, NEW from, NEW to, from # to,
         NEW q \in [Items -> Nat], NEW sign \in {-1, 1}, NEW rows, rows = PackRows(k, n, out, in, from, to, q, sign),
         NEW b
  PROVE  /\ IsFiniteSet(rows) /\ \A r \in rows : r.delta \in Int
         /\ PackKeyed(rows, k, from, to)
         /\ Moved(b, rows) = PackMoved(n, out, in, q, sign, b)
<1> DEFINE P == ProductRows(k, n, out, in, <<from, to>>)
           M == MaterialRows(k, q, sign)
<1>1. \A r \in P : r.key = <<k, from>> \/ r.key = <<k, to>> BY DEF ProductRows
<1>2. \A r \in M : r.delta \in Int /\ \E i : r.key = <<k, "material", i>> BY MaterialMoves
<1>3. P \cap M = {}
  <2> SUFFICES ASSUME NEW r \in P, r \in M PROVE FALSE
    OBVIOUS
  <2>1. PICK i : r.key = <<k, "material", i>> BY <1>2
  <2>2. PICK x : r.key = <<k, x>> BY <1>1
  <2>3. Len(<<k, "material", i>>) = 3 /\ Len(<<k, x>>) = 2 OBVIOUS
  <2> QED BY <2>1, <2>2, <2>3
<1>4. /\ IsFiniteSet(P) /\ \A r \in P : r.delta \in Int
      /\ Moved(b, P) = Carried(n, out, in, b)
  BY ProductMoves
<1>5. /\ IsFiniteSet(M)
      /\ Moved(b, M) = IF sign = 1 THEN PackMaterials(q, b) ELSE -PackMaterials(q, b)
  BY MaterialMoves
<1> HIDE DEF P, M
<1>6. IsFiniteSet(P) /\ IsFiniteSet(M) /\ \A r \in P \cup M : r.delta \in Int BY <1>2, <1>4, <1>5
<1>7. IsFiniteSet(P \cup M) /\ Moved(b, P \cup M) = Moved(b, P) + Moved(b, M)
  BY <1>3, <1>6, MovedUnion
<1>8. Moved(b, P \cup M) = PackMoved(n, out, in, q, sign, b) BY <1>4, <1>5, <1>7 DEF PackMoved
<1>9. rows = P \cup M BY DEF PackRows, P, M
<1>10. PackKeyed(rows, k, from, to) BY <1>1, <1>2, <1>9 DEF PackKeyed
<1>11. IsFiniteSet(rows) /\ \A r \in rows : r.delta \in Int BY <1>6, <1>7, <1>9
<1>12. Moved(b, rows) = PackMoved(n, out, in, q, sign, b) BY <1>8, <1>9
<1> QED BY <1>10, <1>11, <1>12

LEMMA PackSaid ==
  ASSUME WorkInv, SubcontractTypeOK, UNCHANGED <<buyDocs, makeDocs, ownSub>>, NEW b \in Balances,
         NEW n \in Int, PackedOn(b)' = PackedOn(b) + n
  PROVE  Said(b)' = Said(b) + n
<1>1. /\ TakenIn(b)' = TakenIn(b) /\ SentBack(b)' = SentBack(b)
      /\ ProducedOn(b)' = ProducedOn(b) /\ SubMoved(b)' = SubMoved(b)
  BY PartsStay
<1> QED BY <1>1, PartsTyped DEF Said

LEMMA ExecuteBooks ==
  ASSUME WorkInv, SubInv, Books, Explained, UNCHANGED <<buyDocs, makeDocs, ownSub>>,
         NEW p \in Packs, NEW k \in PackKeys, NEW n \in PackQty, NEW used \in UsedChoices,
         ExecutePack(p, k, n, used)
  PROVE  Books' /\ Explained'
<1> DEFINE rows == PackRows(k, n, LooseAt, PackedAt, "product-source", "product-target", used, -1)
           new == [order |-> p, qty |-> n, used |-> used]
           use == <<"pack">>
<1>0. SubcontractTypeOK /\ PrepackInv /\ \A x \in subUsed : x # use BY DEF SubInv, WorkInv
<1>1. /\ k \notin DOMAIN execution /\ Book(rows) /\ breakdown' = breakdown
      /\ DOMAIN execution' = DOMAIN execution \cup {k} /\ execution'[k] = new
      /\ \A x \in DOMAIN execution : execution'[x] = execution[x]
  BY DEF ExecutePack, In, Add, PackRows
<1>2. /\ n \in Nat \ {0} /\ used \in [Items -> Nat] /\ new.qty = n /\ new.used = used
  BY PrepackAssumption DEF ExecutePack
<1>3. Grown BY <1>1 DEF Grown, buyDocs, makeDocs, ownSub
<1> HIDE DEF new
<1>4. ASSUME NEW b
      PROVE  /\ IsFiniteSet(rows) /\ \A r \in rows : r.delta \in Int
             /\ PackKeyed(rows, k, "product-source", "product-target")
             /\ Moved(b, rows) = PackMoved(n, LooseAt, PackedAt, used, -1, b)
  <2>1. "product-source" # "product-target" /\ -1 \in {-1, 1} OBVIOUS
  <2>2. rows = PackRows(k, n, LooseAt, PackedAt, "product-source", "product-target", used, -1) OBVIOUS
  <2> HIDE DEF rows
  <2> QED BY ONLY <1>2, <2>1, <2>2, PackMoves
<1> HIDE DEF rows
<1>5. use \in MaterialUse(k)' /\ use \notin MaterialUse(k)
  BY <1>0, <1>1 DEF MaterialUse
<1>6. ASSUME Calm' PROVE MaterialUse(k) = {}
  <2>1. \A x \in MaterialUse(k)' : x = use BY <1>5, <1>6 DEF Calm, OneUse
  <2> QED BY <1>3, <1>5, <2>1, UsesStay
<1>7. "material" \notin Returns BY PurchasingAssumption
<1>8. ASSUME NEW r \in rows PROVE Told(r.key)' /\ (Calm' => ~Told(r.key))
  <2>1. CASE \E i : r.key = <<k, "material", i>>
    <3>1. PICK i : r.key = <<k, "material", i>> BY <2>1
    <3>2. Told(<<k, "material", i>>)' BY <1>5, <1>7, ToldByLengthThen
    <3>3. Calm' => ~Told(<<k, "material", i>>) BY <1>6, ToldByLength
    <3> QED BY <3>1, <3>2, <3>3
  <2>2. CASE r.key = <<k, "product-source">> \/ r.key = <<k, "product-target">>
    <3>1. PICK x \in {"product-source", "product-target"} : r.key = <<k, x>> BY <1>2, <2>2
    <3>2. Told(<<k, x>>)' BY <1>1, ToldByLengthThen
    <3>3. ~Told(<<k, x>>) BY <1>1, ToldByLength
    <3> QED BY <3>1, <3>2, <3>3
  <2> QED BY <1>4, <2>1, <2>2 DEF PackKeyed
<1>9. ASSUME NEW b \in Balances PROVE Said(b)' = Said(b) + Moved(b, rows)
  <2> DEFINE f == [x \in DOMAIN execution |-> PackedBy(x, b)]
             g == [x \in DOMAIN execution' |-> PackedBy(x, b)']
             out == SumOver([x \in DOMAIN breakdown |-> BrokenBy(x, b)], DOMAIN breakdown)
  <2>1. g[k] = Side(b, n) - PackMaterials(used, b)
    BY <1>1, <1>2 DEF PackedBy, PackMaterials, Side
  <2>2. Side(b, n) \in Int /\ PackMaterials(used, b) \in Int BY <1>2, MaterialType
  <2>3. Moved(b, rows) = Side(b, n) - PackMaterials(used, b)
    BY <1>2, <1>4, <2>2 DEF PackMoved, Carried, Side
  <2>4. IsFiniteSet(DOMAIN execution) BY <1>0 DEF PrepackInv
  <2>5. ASSUME NEW x \in DOMAIN execution PROVE f[x] \in Int /\ g[x] = f[x]
    <3>1. PackedBy(x, b) \in Int BY <1>0, PackedByType
    <3>2. PackedBy(x, b)' = PackedBy(x, b) BY <1>1 DEF PackedBy, PackMaterials, Side
    <3> QED BY <1>1, <3>1, <3>2
  <2>6. PackedOn(b) = SumOver(f, DOMAIN execution) - out BY DEF PackedOn, PackedBy, BrokenBy
  <2>7. PackedOn(b)' = SumOver(g, DOMAIN execution') - out
    BY <1>1 DEF PackedOn, PackedBy, BrokenBy, PackMaterials, Side
  <2>8. out \in Int /\ SumOver(f, DOMAIN execution) \in Int BY <1>0, PackedType
  <2> HIDE DEF f, g, out
  <2>9. RowPut(execution, execution', k, f, g) BY <1>1, <2>1, <2>2, <2>4, <2>5 DEF RowPut
  <2>10. SumOver(g, DOMAIN execution') = SumOver(f, DOMAIN execution) + g[k] BY <2>9, TableAdded
  <2>11. Moved(b, rows) \in Int /\ g[k] = Moved(b, rows) BY <2>1, <2>2, <2>3
  <2>12. PackedOn(b)' = PackedOn(b) + Moved(b, rows) BY <2>6, <2>7, <2>8, <2>10, <2>11
  <2> QED BY <1>0, <2>11, <2>12, PackSaid
<1>10. IsFiniteSet(rows) /\ \A r \in rows : r.delta \in Int BY <1>4
<1> QED BY <1>1, <1>3, <1>8, <1>9, <1>10, Closes

LEMMA BreakBooks ==
  ASSUME WorkInv, SubInv, Books, Explained, UNCHANGED <<buyDocs, makeDocs, ownSub>>,
         NEW p \in Packs, NEW k \in PackKeys, NEW n \in PackQty, NEW back \in BackChoices,
         BreakDown(p, k, n, back)
  PROVE  Books' /\ Explained'
<1> DEFINE rows == PackRows(k, n, PackedAt, LooseAt, "product-prepacked", "product-restored", back, 1)
           new == [order |-> p, qty |-> n, back |-> back]
           use == <<"unpack">>
<1>0. SubcontractTypeOK /\ PrepackInv /\ \A x \in subUsed : x # use BY DEF SubInv, WorkInv
<1>1. /\ k \notin DOMAIN breakdown /\ Book(rows) /\ execution' = execution
      /\ DOMAIN breakdown' = DOMAIN breakdown \cup {k} /\ breakdown'[k] = new
      /\ \A x \in DOMAIN breakdown : breakdown'[x] = breakdown[x]
  BY DEF BreakDown, In, Add, PackRows
<1>2. /\ n \in Nat \ {0} /\ back \in [Items -> Nat] /\ new.qty = n /\ new.back = back
  BY PrepackAssumption DEF BreakDown
<1>3. Grown BY <1>1 DEF Grown, buyDocs, makeDocs, ownSub
<1> HIDE DEF new
<1>4. ASSUME NEW b
      PROVE  /\ IsFiniteSet(rows) /\ \A r \in rows : r.delta \in Int
             /\ PackKeyed(rows, k, "product-prepacked", "product-restored")
             /\ Moved(b, rows) = PackMoved(n, PackedAt, LooseAt, back, 1, b)
  <2>1. "product-prepacked" # "product-restored" /\ 1 \in {-1, 1} OBVIOUS
  <2>2. rows = PackRows(k, n, PackedAt, LooseAt, "product-prepacked", "product-restored", back, 1) OBVIOUS
  <2> HIDE DEF rows
  <2> QED BY ONLY <1>2, <2>1, <2>2, PackMoves
<1> HIDE DEF rows
<1>5. use \in MaterialUse(k)' /\ use \notin MaterialUse(k)
  <2>1. use # <<"pack">> OBVIOUS
  <2> QED BY <1>0, <1>1, <2>1 DEF MaterialUse
<1>6. ASSUME Calm' PROVE MaterialUse(k) = {}
  <2>1. \A x \in MaterialUse(k)' : x = use BY <1>5, <1>6 DEF Calm, OneUse
  <2> QED BY <1>3, <1>5, <2>1, UsesStay
<1>7. "material" \notin Returns BY PurchasingAssumption
<1>8. ASSUME NEW r \in rows PROVE Told(r.key)' /\ (Calm' => ~Told(r.key))
  <2>1. CASE \E i : r.key = <<k, "material", i>>
    <3>1. PICK i : r.key = <<k, "material", i>> BY <2>1
    <3>2. Told(<<k, "material", i>>)' BY <1>5, <1>7, ToldByLengthThen
    <3>3. Calm' => ~Told(<<k, "material", i>>) BY <1>6, ToldByLength
    <3> QED BY <3>1, <3>2, <3>3
  <2>2. CASE r.key = <<k, "product-prepacked">> \/ r.key = <<k, "product-restored">>
    <3>1. PICK x \in {"product-prepacked", "product-restored"} : r.key = <<k, x>> BY <1>2, <2>2
    <3>2. Told(<<k, x>>)' BY <1>1, ToldByLengthThen
    <3>3. ~Told(<<k, x>>) BY <1>1, ToldByLength
    <3> QED BY <3>1, <3>2, <3>3
  <2> QED BY <1>4, <2>1, <2>2 DEF PackKeyed
<1>9. ASSUME NEW b \in Balances PROVE Said(b)' = Said(b) + Moved(b, rows)
  <2> DEFINE f == [x \in DOMAIN breakdown |-> BrokenBy(x, b)]
             g == [x \in DOMAIN breakdown' |-> BrokenBy(x, b)']
             in == SumOver([x \in DOMAIN execution |-> PackedBy(x, b)], DOMAIN execution)
  <2>1. g[k] = Side(b, n) - PackMaterials(back, b)
    BY <1>1, <1>2 DEF BrokenBy, PackMaterials, Side
  <2>2. Side(b, n) \in Int /\ PackMaterials(back, b) \in Int BY <1>2, MaterialType
  <2>3. Moved(b, rows) = PackMaterials(back, b) - Side(b, n)
    BY <1>2, <1>4, <2>2 DEF PackMoved, Carried, Side
  <2>4. IsFiniteSet(DOMAIN breakdown) BY <1>0 DEF PrepackInv
  <2>5. ASSUME NEW x \in DOMAIN breakdown PROVE f[x] \in Int /\ g[x] = f[x]
    <3>1. BrokenBy(x, b) \in Int BY <1>0, PackedByType
    <3>2. BrokenBy(x, b)' = BrokenBy(x, b) BY <1>1 DEF BrokenBy, PackMaterials, Side
    <3> QED BY <1>1, <3>1, <3>2
  <2>6. PackedOn(b) = in - SumOver(f, DOMAIN breakdown) BY DEF PackedOn, PackedBy, BrokenBy
  <2>7. PackedOn(b)' = in - SumOver(g, DOMAIN breakdown')
    BY <1>1 DEF PackedOn, PackedBy, BrokenBy, PackMaterials, Side
  <2>8. in \in Int /\ SumOver(f, DOMAIN breakdown) \in Int BY <1>0, PackedType
  <2> HIDE DEF f, g, in
  <2>9. RowPut(breakdown, breakdown', k, f, g) BY <1>1, <2>1, <2>2, <2>4, <2>5 DEF RowPut
  <2>10. SumOver(g, DOMAIN breakdown') = SumOver(f, DOMAIN breakdown) + g[k] BY <2>9, TableAdded
  <2>11. Moved(b, rows) \in Int /\ g[k] \in Int /\ Moved(b, rows) = -g[k] BY <2>1, <2>2, <2>3
  <2>12. PackedOn(b)' = PackedOn(b) + Moved(b, rows) BY <2>6, <2>7, <2>8, <2>10, <2>11
  <2> QED BY <1>0, <2>11, <2>12, PackSaid
<1>10. IsFiniteSet(rows) /\ \A r \in rows : r.delta \in Int BY <1>4
<1> QED BY <1>1, <1>3, <1>8, <1>9, <1>10, Closes

LEMMA PackBooks ==
  ASSUME WorkInv, SubInv, Books, Explained, UNCHANGED <<buyDocs, makeDocs, ownSub>>, PrepackNext
  PROVE  Books' /\ Explained'
<1>1. ASSUME NEW p, NEW v, ApprovePack(p, v) PROVE Books' /\ Explained'
  <2>1. UNCHANGED <<stockVars, packDocs>> BY <1>1 DEF ApprovePack, packDocs
  <2>2. Grown BY <2>1 DEF Grown, buyDocs, makeDocs, ownSub, packDocs
  <2>3. \A b \in Balances : Said(b)' = Said(b) BY <2>1, PartsStay DEF Said
  <2> QED BY <2>1, <2>2, <2>3, Stands
<1> QED BY <1>1, ExecuteBooks, BreakBooks DEF PrepackNext
-----------------------------------------------------------------------------
\* Every step of the composition keeps what the stock and the ledger say.
LEMMA StockStep ==
  ASSUME WorkInv, StockInv, [SupplyNext]_supplyVars PROVE StockInv'
<1> USE DEF StockInv
<1>1. SubcontractTypeOK BY DEF SubInv
<1>2. SubInv' BY SubStep
<1>3. CASE UNCHANGED <<stockVars, buyDocs, makeDocs, ownSub, packDocs>>
  <2>1. Grown BY <1>3 DEF Grown, buyDocs, makeDocs, ownSub, packDocs
  <2>2. \A b \in Balances : Said(b)' = Said(b) BY <1>3, PartsStay DEF Said
  <2> QED BY <1>2, <1>3, <2>1, <2>2, Stands
<1>4. CASE /\ UNCHANGED <<makeDocs, ownSub, packDocs>>
           /\ PurchasingNext \/ \E o \in Orders, wanted \in Seq(Nat) : CreateOrder(o, wanted)
  BY <1>1, <1>2, <1>4, BuyingBooks
<1>5. CASE UNCHANGED <<buyDocs, ownSub, packDocs>> /\ WorkNext
  BY <1>1, <1>2, <1>5, WorkBooks
<1>6. CASE UNCHANGED <<buyDocs, makeDocs, packDocs>> /\ SubcontractNext
  BY <1>2, <1>6, SubBooks
<1>7. CASE UNCHANGED <<buyDocs, makeDocs, ownSub>> /\ PrepackNext
  BY <1>2, <1>7, PackBooks
<1> QED BY <1>3, <1>4, <1>5, <1>6, <1>7, StockMoves

\* At the start nothing was booked, and no document says anything.
LEMMA StockStarts == ASSUME SupplyInit PROVE StockInv
<1> USE DEF SupplyInit
<1>1. SubInv BY SubStarts
<1>2. Books BY StockBooksAssumption DEF PurchasingInit, StockInit, Books
<1>3. ASSUME NEW b \in Balances PROVE onHand[b] = Said(b)
  <2>1. onHand[b] = OpeningStock[b] /\ OpeningStock[b] \in Int
    BY StockBooksAssumption DEF PurchasingInit, StockInit
  <2>2. {n \in ReceiptRows : receipt[n].status = "completed"} = {}
    BY DEF PurchasingInit, NoReceipt
  <2>3. returnEvents = {} BY DEF PurchasingInit
  <2>4. TakenIn(b) = 0 /\ SentBack(b) = 0 BY <2>2, <2>3, SumEmpty DEF TakenIn, SentBack
  <2>5. DOMAIN completion = {} /\ DOMAIN issue = {} BY DEF ProductionInit
  <2>6. DOMAIN execution = {} /\ DOMAIN breakdown = {} BY DEF PrepackInit
  <2>7. ProducedOn(b) = 0 BY <2>5, SumEmpty DEF ProducedOn
  <2>8. PackedOn(b) = 0 BY <2>6, SumEmpty DEF PackedOn
  <2>9. SubMoved(b) = 0
    <3> DEFINE f == [s \in SubOrders |-> RowMoved(s, b)]
    <3>1. IsFiniteSet(SubOrders) BY SubcontractAssumption
    <3>2. ASSUME NEW s \in SubOrders PROVE RowMoved(s, b) = 0
      BY DEF SubcontractInit, NewSub, RowMoved
    <3>3. \A s \in SubOrders : f[s] = 0 BY <3>2
    <3> HIDE DEF f
    <3>4. SumOver(f, SubOrders) = 0 BY <3>1, <3>3, SumZero
    <3> QED BY <3>4 DEF SubMoved, f
  <2> QED BY <2>1, <2>4, <2>7, <2>8, <2>9 DEF Said
<1> QED BY <1>1, <1>2, <1>3 DEF StockInv, Explained

LEMMA StockTells == ASSUME StockInv PROVE StockFollowsWork
<1>1. SubcontractTypeOK /\ IsFiniteSet(subUsed) BY DEF StockInv, SubInv
<1>2. ASSUME resent = {}, KeysAreApart, NEW b \in Balances
      PROVE  onHand[b] = Said(b)
  <2>1. Calm BY <1>1, <1>2, CalmWhenApart
  <2> QED BY <2>1 DEF StockInv, Explained
<1> QED BY <1>1, <1>2 DEF StockFollowsWork, Said

\* Whatever was inspected and returned, issued, completed, sent out, brought back,
\* packed and unpacked, the stock is what the documents say, as long as no client used
\* a key for two of them and no edit put a document back (complete_purchase_inspection,
\* dispatch_purchase_return, issue_production_materials, complete_production,
\* send_subcontract_materials, receive_subcontract, execute_prepack, breakdown_prepack).
THEOREM StockFollowsWorkAlways == SupplySpec => []StockFollowsWork
<1>1. SupplyInit => WorkInv
  BY ProductionStarts, PrepackStarts, OrdersStart, ReturnsStart DEF SupplyInit, WorkInv
<1>2. WorkInv /\ [SupplyNext]_supplyVars => WorkInv'
  BY ProductionStep, PrepackStep, PurchasingStep DEF WorkInv
<1>3. SupplyInit => StockInv BY StockStarts
<1>4. WorkInv /\ StockInv /\ [SupplyNext]_supplyVars => StockInv' BY StockStep
<1>5. StockInv => StockFollowsWork BY StockTells
<1> QED BY <1>1, <1>2, <1>3, <1>4, <1>5, PTL DEF SupplySpec
=============================================================================
