------------------------------- MODULE Outbox -------------------------------
(***************************************************************************)
(* The transactional outbox: services append an event inside the           *)
(* transaction that changes the aggregate, publishers claim pending events *)
(* in batches under SKIP LOCKED (shared/outbox_service.py).                *)
(*                                                                         *)
(* No code publishes, fails or gives back a claimed event, so "published", *)
(* "failed" and "dead" are never reached, and the management API's retry,  *)
(* which asks for one of the last two, never applies.  Nor does the        *)
(* program call claim_outbox_events: the publishers here are its intended  *)
(* callers.                                                                *)
(***************************************************************************)
EXTENDS Integers, FiniteSets, FiniteSetsExt

CONSTANTS
  Aggregates,    \* rows whose changes are published: an order, a reservation
  Workers,       \* publishers
  Batch,         \* batch_size
  MaxEvents,     \* bound: event ids drawn from the sequence
  MaxCrashes     \* bound: publishers that die

ASSUME OutboxAssumption == Batch \in Nat \ {0} /\ MaxEvents \in Nat /\ MaxCrashes \in Nat

VARIABLES
  version,       \* committed version_no of each aggregate
  writing,       \* the event its open transaction has inserted, {}: no transaction
  nextId,        \* the sequence behind evt_outbox.id
  event,         \* the committed rows of evt_outbox
  locked,        \* the rows a publisher's open claim holds
  handed,        \* the events each publisher was given and works on
  crashes

vars == <<version, writing, nextId, event, locked, handed, crashes>>

Ids == 1..MaxEvents

\* No committed row has this id: not drawn yet, uncommitted, or rolled back.
NoRow == [status |-> "none"]
Row(a, v) == [status |-> "pending", aggregate |-> a, version |-> v, attempts |-> 0,
              expired |-> FALSE]

Init ==
  /\ version = [a \in Aggregates |-> 0]
  /\ writing = [a \in Aggregates |-> {}]
  /\ nextId = 1
  /\ event = [e \in Ids |-> NoRow]
  /\ locked = [w \in Workers |-> {}]
  /\ handed = [w \in Workers |-> {}]
  /\ crashes = 0

\* A service locks the aggregate's row, changes it and calls append_outbox_event:
\* the row is visible when the transaction commits.  The fault does not lock.
AppendEvent_Unlocked(a) ==
  /\ nextId \in Ids
  /\ writing' = [writing EXCEPT ![a] = @ \cup {nextId}]
  /\ nextId' = nextId + 1
  /\ UNCHANGED <<version, event, locked, handed, crashes>>

AppendEvent(a) ==
  /\ writing[a] = {}
  /\ nextId \in Ids
  /\ writing' = [writing EXCEPT ![a] = @ \cup {nextId}]
  /\ nextId' = nextId + 1
  /\ UNCHANGED <<version, event, locked, handed, crashes>>

Commit(a, e) ==
  /\ e \in writing[a]
  /\ version' = [version EXCEPT ![a] = @ + 1]
  /\ event' = [event EXCEPT ![e] = Row(a, version[a] + 1)]
  /\ writing' = [writing EXCEPT ![a] = @ \ {e}]
  /\ UNCHANGED <<nextId, locked, handed, crashes>>

Rollback(a, e) ==
  /\ e \in writing[a]
  /\ writing' = [writing EXCEPT ![a] = @ \ {e}]
  /\ UNCHANGED <<version, nextId, event, locked, handed, crashes>>

LockedByOthers(w) == UNION {locked[u] : u \in Workers \ {w}}
\* Faults: the select does not lock, or waits for an aggregate's earlier event to
\* be finished.
Claimable_Unlocked(w) == {e \in Ids : event[e].status = "pending"}
Claimable_PerAggregate(w) ==
  {e \in Ids : /\ event[e].status = "pending"
               /\ ~\E d \in Ids : /\ event[d].status = "processing"
                                  /\ event[d].aggregate = event[e].aggregate} \ LockedByOthers(w)
Claimable(w) == {e \in Ids : event[e].status = "pending"} \ LockedByOthers(w)
FirstIds(S) == {e \in S : Cardinality({d \in S : d < e}) < Batch}

\* claim_outbox_events selects and locks its batch, skipping locked rows.
SelectBatch(w) ==
  /\ locked[w] = {}
  /\ Claimable(w) # {}
  /\ locked' = [locked EXCEPT ![w] = FirstIds(Claimable(w))]
  /\ UNCHANGED <<version, writing, nextId, event, handed, crashes>>

\* The row a claim writes.
Claimed(r) == [r EXCEPT !.status = "processing", !.attempts = @ + 1, !.expired = FALSE]

\* Its bulk_update, commit, and return to the publisher.
CommitClaim(w) ==
  /\ locked[w] # {}
  /\ event' = [e \in Ids |-> IF e \in locked[w] THEN Claimed(event[e]) ELSE event[e]]
  /\ handed' = [handed EXCEPT ![w] = @ \cup locked[w]]
  /\ locked' = [locked EXCEPT ![w] = {}]
  /\ UNCHANGED <<version, writing, nextId, crashes>>

\* A publisher dies: an open claim is rolled back, claimed events are forgotten.
Crash(w) ==
  /\ crashes < MaxCrashes
  /\ locked[w] \cup handed[w] # {}
  /\ crashes' = crashes + 1
  /\ locked' = [locked EXCEPT ![w] = {}]
  /\ handed' = [handed EXCEPT ![w] = {}]
  /\ UNCHANGED <<version, writing, nextId, event>>

LeaseExpires(e) ==
  /\ event[e].status = "processing"
  /\ ~event[e].expired
  /\ event' = [event EXCEPT ![e].expired = TRUE]
  /\ UNCHANGED <<version, writing, nextId, locked, handed, crashes>>

Next ==
  \/ \E a \in Aggregates : AppendEvent(a) \/ \E e \in Ids : Commit(a, e) \/ Rollback(a, e)
  \/ \E w \in Workers : SelectBatch(w) \/ CommitClaim(w) \/ Crash(w)
  \/ \E e \in Ids : LeaseExpires(e)

\* A publisher that keeps calling claim_outbox_events, and time that passes.
Fairness ==
  /\ \A w \in Workers : WF_vars(SelectBatch(w)) /\ WF_vars(CommitClaim(w))
  /\ \A e \in Ids : WF_vars(LeaseExpires(e))

Spec == Init /\ [][Next]_vars /\ Fairness
-----------------------------------------------------------------------------
EventRows ==
  [status : {"pending", "processing"}, aggregate : Aggregates, version : Nat \ {0},
   attempts : Nat, expired : BOOLEAN]

TypeOK ==
  /\ version \in [Aggregates -> Nat] /\ writing \in [Aggregates -> SUBSET Ids]
  /\ nextId \in 1..(MaxEvents + 1) /\ crashes \in 0..MaxCrashes
  /\ event \in [Ids -> EventRows \cup {NoRow}]
  /\ locked \in [Workers -> SUBSET Ids] /\ handed \in [Workers -> SUBSET Ids]
  /\ \A e \in Ids : event[e].status = "pending" => event[e].attempts = 0

EventsOf(a) == {e \in Ids : event[e].status # "none" /\ event[e].aggregate = a}

\* Every committed change of an aggregate has exactly one event, and nothing else
\* has one: neither a rolled-back change nor a lost insert (append_outbox_event
\* runs inside the caller's transaction).
ChangesAreRecorded ==
  \A a \in Aggregates :
    /\ {event[e].version : e \in EventsOf(a)} = 1..version[a]
    /\ Cardinality(EventsOf(a)) = version[a]

\* Event ids follow the versions of an aggregate, though ids are drawn before the
\* commit and are lost by a rollback: the order publishers claim by is the order
\* of the changes.
IdsFollowVersions ==
  \A a \in Aggregates : \A d, e \in EventsOf(a) :
    d < e => event[d].version < event[e].version

\* The events publishers see are the history of every aggregate, in its order.
EventsTellHistory == TypeOK /\ ChangesAreRecorded /\ IdsFollowVersions

\* No event is given to two publishers, though their claims overlap.
HandedOnce ==
  \A w, u \in Workers : w # u =>
    (handed[w] \cup locked[w]) \cap (handed[u] \cup locked[u]) = {}

\* Every committed event is claimed, as long as publishers go on claiming.
EventsAreClaimed ==
  \A e \in Ids : event[e].status = "pending" ~> event[e].status = "processing"

\* An event whose publisher died is claimed again once its lease ran out.
\* (Baseline document 07, line 435.)
LeasesAreRecovered ==
  \A e \in Ids :
    (event[e].status = "processing" /\ event[e].expired /\ \A w \in Workers : e \notin handed[w])
      ~> (\E w \in Workers : e \in handed[w])
=============================================================================
