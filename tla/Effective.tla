------------------------------ MODULE Effective ------------------------------
(***************************************************************************)
(* Documents of which one at a time may be in force for a product: bills   *)
(* of material (transition_bom), routings (activate_routing) and packaging *)
(* plans (activate_packaging_plan).                                        *)
(*                                                                         *)
(* A BOM and a plan are activated under the lock of their company's row    *)
(* (select_related without of=), so that two activations follow each       *)
(* other: one action each.  A routing is activated under its own row's     *)
(* lock only, between reading the others and writing itself another may    *)
(* be activated: two actions.  A routing can also be edited (PATCH), which *)
(* saves the dates given and the rest of the copy it read.                 *)
(***************************************************************************)
EXTENDS Integers, FiniteSets

CONSTANTS
  Boms, Routings, Plans,
  Scope,         \* product and type of a BOM, product of a routing, product and channel of a plan
  Window,        \* of a BOM or routing: [from, to], to excluded
  Windows,       \* bound: the dates an edit gives
  MaxRoutingForms,
  InForce,       \* versions that are in force when the system starts
  NoForm         \* no edit under way

Versions == Boms \cup Routings \cup Plans

VARIABLES
  version,       \* status and window of each of them
  activating,    \* activations of routings under way, and whether they saw no other
  routingForm, routingForms,
  loose          \* history: routings that were edited, or activated beside another

effectiveVars == <<version, activating, routingForm, routingForms, loose>>

Windowed == [from : Nat, to : Nat]
BomRow == [status : {"draft", "approved", "active", "obsolete"}, window : Windowed]
RoutingRow == [status : {"draft", "active", "obsolete"}, window : Windowed]
PlanRow == [status : {"draft", "active", "obsolete"}, window : Windowed]

Overlap(w, x) == w.from < x.to /\ x.from < w.to

ASSUME EffectiveAssumption ==
  /\ Boms \cap (Routings \cup Plans) = {} /\ Routings \cap Plans = {}
  /\ Window \in [Versions -> Windowed] /\ Windows \subseteq Windowed
  /\ NoForm \notin RoutingRow
  /\ \A kind \in {Boms, Routings, Plans} : \A v, x \in kind \cap InForce :
       v # x /\ Scope[v] = Scope[x] => ~Overlap(Window[v], Window[x])

EffectiveInit ==
  /\ version = [v \in Versions |->
       [status |-> IF v \in InForce THEN "active" ELSE "draft", window |-> Window[v]]]
  /\ activating = {} /\ routingForm = [v \in Routings |-> NoForm]
  /\ routingForms = 0 /\ loose = {}

Rivals(v, kind) == {x \in kind \ {v} : Scope[x] = Scope[v] /\ version[x].status = "active"}

\* The versions in force that leave v no room; the fault looks at the start only.
Blocking_StartOnly(v, kind) ==
  {x \in Rivals(v, kind) : version[x].window.from <= version[v].window.from
                           /\ version[v].window.from < version[x].window.to}
Blocking(v, kind) ==
  {x \in Rivals(v, kind) : Overlap(version[x].window, version[v].window)}

SetStatus(v, from, to) ==
  /\ version[v].status \in from
  /\ version' = [version EXCEPT ![v].status = to]

KeepRest == UNCHANGED <<activating, routingForm, routingForms, loose>>

\* transition_bom; approval_reference and items are there from its creation.
ApproveBom(v) == SetStatus(v, {"draft"}, "approved") /\ KeepRest
ActivateBom(v) ==
  /\ SetStatus(v, {"approved"}, "active") /\ Blocking(v, Boms) = {}
  /\ KeepRest
ObsoleteBom(v) == SetStatus(v, {"approved", "active"}, "obsolete") /\ KeepRest

\* activate_packaging_plan: plans have no dates, and one channel has one plan.
ActivatePlan(v) ==
  /\ SetStatus(v, {"draft"}, "active") /\ Rivals(v, Plans) = {}
  /\ KeepRest

\* activate_routing, until it has looked for others; and its save.
OpenActivation(v) ==
  /\ v \notin activating
  /\ version[v].status = "draft" /\ Blocking(v, Routings) = {}
  /\ activating' = activating \cup {v}
  /\ UNCHANGED <<version, routingForm, routingForms, loose>>

CloseActivation(v) ==
  /\ v \in activating
  /\ version' = [version EXCEPT ![v].status = "active"]
  /\ activating' = activating \ {v}
  /\ loose' = IF Blocking(v, Routings) = {} THEN loose ELSE loose \cup {v}
  /\ UNCHANGED <<routingForm, routingForms>>

\* RoutingViewSet.partial_update: get_object, and later save.
OpenRoutingForm(v) ==
  /\ routingForms < MaxRoutingForms /\ routingForm[v] = NoForm
  /\ routingForm' = [routingForm EXCEPT ![v] = version[v]]
  /\ routingForms' = routingForms + 1
  /\ UNCHANGED <<version, activating, loose>>

SaveRoutingForm(v, w) ==
  /\ routingForm[v] # NoForm /\ v \notin activating
  /\ version' = [version EXCEPT ![v] = [routingForm[v] EXCEPT !.window = w]]
  /\ routingForm' = [routingForm EXCEPT ![v] = NoForm]
  /\ loose' = loose \cup {v}
  /\ UNCHANGED <<activating, routingForms>>

EffectiveNext ==
  \/ \E v \in Boms : ApproveBom(v) \/ ActivateBom(v) \/ ObsoleteBom(v)
  \/ \E v \in Plans : ActivatePlan(v)
  \/ \E v \in Routings : OpenActivation(v) \/ CloseActivation(v) \/ OpenRoutingForm(v)
  \/ \E v \in Routings, w \in Windows : SaveRoutingForm(v, w)

EffectiveSpec == EffectiveInit /\ [][EffectiveNext]_effectiveVars
-----------------------------------------------------------------------------
EffectiveTypeOK ==
  /\ \A v \in Boms : version[v] \in BomRow
  /\ \A v \in Routings : version[v] \in RoutingRow
  /\ \A v \in Plans : version[v] \in PlanRow
  /\ activating \subseteq Routings

\* At no time are two BOMs of one product and type in force, nor two plans of
\* one channel, nor two routings of one product, unless a routing was edited
\* or activated while another was (transition_bom, activate_packaging_plan,
\* activate_routing).
OneInForce ==
  EffectiveTypeOK /\
  \A kind \in {Boms, Plans, Routings} : \A v, x \in kind \ loose :
    (v # x /\ Scope[v] = Scope[x] /\ {version[v].status, version[x].status} = {"active"})
      => ~Overlap(version[v].window, version[x].window)
=============================================================================
