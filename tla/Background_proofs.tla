-------------------------- MODULE Background_proofs --------------------------
(***************************************************************************)
(* The work behind the requests, for any number of publishers, workers,    *)
(* operators and rows: what the outbox, the integration queue and the      *)
(* background tasks promise.                                               *)
(*                                                                         *)
(* No event of the outbox reaches two publishers, and the events tell the  *)
(* history of every aggregate.                                             *)
(*                                                                         *)
(* HandedOnce is not inductive: it needs that an open claim holds pending  *)
(* rows only and a publisher works on processing rows only, and a commit   *)
(* would turn such a row back to pending if the ids of open transactions   *)
(* were not fresh.  The order of the ids needs that the one open           *)
(* transaction of an aggregate drew its id after the events already there. *)
(***************************************************************************)
EXTENDS Outbox, IntegrationQueue, TaskRuntime, FiniteSetTheorems, TLAPS

Status(e) == event[e].status

OTypes ==
  /\ version \in [Aggregates -> Nat] /\ writing \in [Aggregates -> SUBSET Ids]
  /\ nextId \in Nat
  /\ event \in [Ids -> EventRows \cup {NoRow}]
  /\ locked \in [Workers -> SUBSET Ids] /\ handed \in [Workers -> SUBSET Ids]

\* An id that is not drawn, or whose transaction is open, has no row, and no two
\* transactions hold one id.
FreshIds ==
  /\ \A e \in Ids : e >= nextId => Status(e) = "none"
  /\ \A a \in Aggregates : \A e \in writing[a] : e < nextId /\ Status(e) = "none"
  /\ \A a, b \in Aggregates : a # b => writing[a] \cap writing[b] = {}

\* What a claim holds is pending, what a publisher works on is processing.
ClaimsAreApart ==
  /\ \A w \in Workers : \A e \in locked[w] : Status(e) = "pending"
  /\ \A w \in Workers : \A e \in handed[w] : Status(e) = "processing"
  /\ \A w, u \in Workers : w # u => locked[w] \cap locked[u] = {}
  /\ \A w, u \in Workers : w # u => handed[w] \cap handed[u] = {}

OInv == OTypes /\ FreshIds /\ ClaimsAreApart

LEMMA RowsHaveStatus ==
  ASSUME OTypes, NEW e \in Ids
  PROVE  Status(e) \in {"none", "pending", "processing"}
BY DEF OTypes, EventRows, NoRow, Status

\* The row of a new event, and of a claimed one.
LEMMA RowTyped ==
  ASSUME NEW a \in Aggregates, NEW v \in Nat
  PROVE  Row(a, v + 1) \in EventRows /\ Row(a, v + 1).status = "pending"
BY DEF Row, EventRows

LEMMA ClaimedTyped ==
  ASSUME NEW r \in EventRows
  PROVE  Claimed(r) \in EventRows /\ Claimed(r).status = "processing"
<1>1. PICK s \in {"pending", "processing"}, a \in Aggregates, v \in Nat \ {0}, n \in Nat,
            x \in BOOLEAN :
        r = [status |-> s, aggregate |-> a, version |-> v, attempts |-> n, expired |-> x]
  BY DEF EventRows
<1>2. Claimed(r) = [status |-> "processing", aggregate |-> a, version |-> v,
                    attempts |-> n + 1, expired |-> FALSE]
  <2>1. Claimed(r) = [r EXCEPT !.status = "processing", !.attempts = r.attempts + 1,
                               !.expired = FALSE]
    BY DEF Claimed
  <2>2. r.attempts = n
    BY <1>1
  <2> QED BY <1>1, <2>1, <2>2
<1>3. n + 1 \in Nat
  OBVIOUS
<1> QED BY <1>2, <1>3 DEF EventRows

LEMMA OInit == Init => OInv
<1> SUFFICES ASSUME Init PROVE OInv
  OBVIOUS
<1>1. OTypes
  BY DEF Init, OTypes, NoRow
<1>2. FreshIds /\ ClaimsAreApart
  BY DEF Init, FreshIds, ClaimsAreApart, Status, NoRow
<1> QED BY <1>1, <1>2 DEF OInv

\* A transaction draws an id nobody has.
LEMMA AppendKeeps ==
  ASSUME OInv, NEW a \in Aggregates, AppendEvent(a)
  PROVE  OInv'
<1>1. OTypes'
  BY DEF OInv, OTypes, AppendEvent, Ids
<1>2. \A e \in Ids : Status(e)' = Status(e)
  BY DEF AppendEvent, Status
<1>3. \A b \in Aggregates : writing'[b] = IF b = a THEN {nextId} ELSE writing[b]
  BY DEF OInv, OTypes, AppendEvent
<1>4. nextId' = nextId + 1 /\ nextId \in Nat /\ nextId \in Ids
  BY DEF AppendEvent, OInv, OTypes
<1>5. \A e \in Ids : e \in Nat
  BY OutboxAssumption DEF Ids
<1>6. \A b \in Aggregates : \A e \in writing[b] : e \in Ids /\ e < nextId /\ Status(e) = "none"
  BY DEF OInv, OTypes, FreshIds
<1>7. FreshIds'
  <2>1. \A e \in Ids : e >= nextId' => Status(e)' = "none"
    BY <1>2, <1>4, <1>5 DEF OInv, FreshIds
  <2>2. \A b \in Aggregates : \A e \in writing'[b] : e < nextId' /\ Status(e)' = "none"
    <3> TAKE b \in Aggregates
    <3> TAKE e \in writing'[b]
    <3>1. CASE b = a
      <4>1. e = nextId
        BY <1>3, <3>1
      <4>2. Status(nextId) = "none"
        BY <1>4, <1>5 DEF OInv, FreshIds
      <4> QED BY <1>2, <1>4, <4>1, <4>2
    <3>2. CASE b # a
      <4>1. e \in writing[b]
        BY <1>3, <3>2
      <4>2. e \in Ids /\ e < nextId /\ Status(e) = "none"
        BY <1>6, <4>1
      <4>3. e < nextId'
        BY <1>4, <1>5, <4>2
      <4> QED BY <1>2, <4>2, <4>3
    <3> QED BY <3>1, <3>2
  <2>3. \A b, c \in Aggregates : b # c => writing'[b] \cap writing'[c] = {}
    BY <1>3, <1>4, <1>5, <1>6 DEF OInv, FreshIds
  <2> QED BY <2>1, <2>2, <2>3 DEF FreshIds
<1>8. ClaimsAreApart'
  BY <1>2 DEF OInv, OTypes, ClaimsAreApart, AppendEvent
<1> QED BY <1>1, <1>7, <1>8 DEF OInv

\* A commit makes a row of an id no claim can hold.
LEMMA CommitKeeps ==
  ASSUME OInv, NEW a \in Aggregates, NEW e \in Ids, Commit(a, e)
  PROVE  OInv'
<1>1. e \in writing[a] /\ e < nextId /\ Status(e) = "none" /\ version[a] \in Nat
  BY DEF Commit, OInv, OTypes, FreshIds
<1>2. event' = [event EXCEPT ![e] = Row(a, version[a] + 1)]
  BY DEF Commit
<1>3. OTypes'
  <2>1. Row(a, version[a] + 1) \in EventRows
    BY <1>1, RowTyped
  <2>2. event' \in [Ids -> EventRows \cup {NoRow}]
    BY <1>2, <2>1 DEF OInv, OTypes
  <2>3. writing' \in [Aggregates -> SUBSET Ids] /\ version' \in [Aggregates -> Nat]
    BY <1>1 DEF OInv, OTypes, Commit
  <2> QED BY <2>2, <2>3 DEF OInv, OTypes, Commit
<1>4. \A d \in Ids : Status(d)' = IF d = e THEN "pending" ELSE Status(d)
  BY <1>1, <1>2, RowTyped DEF OInv, OTypes, Status
<1>5. \A b \in Aggregates : writing'[b] = IF b = a THEN writing[a] \ {e} ELSE writing[b]
  BY DEF OInv, OTypes, Commit
<1>6. \A b \in Aggregates : writing[b] \subseteq Ids
  BY DEF OInv, OTypes
<1>7. nextId' = nextId /\ locked' = locked /\ handed' = handed
  BY DEF Commit
<1>8. FreshIds'
  <2>1. \A d \in Ids : d >= nextId => d # e
    BY <1>1 DEF Ids, OInv, OTypes
  <2>2. \A b \in Aggregates : e \notin writing'[b]
    BY <1>1, <1>5, <1>6 DEF OInv, FreshIds
  <2>3. \A b \in Aggregates : writing'[b] \subseteq writing[b]
    BY <1>5
  <2>4. \A d \in Ids : d >= nextId' => Status(d)' = "none"
    BY <1>4, <1>7, <2>1 DEF OInv, FreshIds
  <2>5. \A b \in Aggregates : \A d \in writing'[b] : d < nextId' /\ Status(d)' = "none"
    BY <1>4, <1>6, <1>7, <2>2, <2>3 DEF OInv, FreshIds
  <2>6. \A b, c \in Aggregates : b # c => writing'[b] \cap writing'[c] = {}
    BY <2>3 DEF OInv, FreshIds
  <2> QED BY <2>4, <2>5, <2>6 DEF FreshIds
<1>9. ClaimsAreApart'
  <2>1. \A w \in Workers : e \notin locked[w] /\ e \notin handed[w]
    BY <1>1 DEF OInv, ClaimsAreApart
  <2> QED BY <1>4, <1>7, <2>1 DEF OInv, OTypes, ClaimsAreApart
<1> QED BY <1>3, <1>8, <1>9 DEF OInv

LEMMA RollbackKeeps ==
  ASSUME OInv, NEW a \in Aggregates, NEW e \in Ids, Rollback(a, e)
  PROVE  OInv'
<1>1. OTypes'
  BY DEF OInv, OTypes, Rollback
<1>2. \A b \in Aggregates : writing'[b] \subseteq writing[b]
  BY DEF OInv, OTypes, Rollback
<1>3. \A d \in Ids : Status(d)' = Status(d)
  BY DEF Rollback, Status
<1>4. FreshIds'
  <2>1. \A b \in Aggregates : \A d \in writing'[b] : d < nextId' /\ Status(d)' = "none"
    BY <1>2, <1>3 DEF OInv, OTypes, FreshIds, Rollback
  <2>2. \A b, c \in Aggregates : b # c => writing'[b] \cap writing'[c] = {}
    BY <1>2 DEF OInv, FreshIds
  <2> QED BY <1>3, <2>1, <2>2 DEF OInv, FreshIds, Rollback
<1>5. ClaimsAreApart'
  BY <1>3 DEF OInv, OTypes, ClaimsAreApart, Rollback
<1> QED BY <1>1, <1>4, <1>5 DEF OInv

\* A claim locks pending rows that no other claim holds.
LEMMA SelectKeeps ==
  ASSUME OInv, NEW w \in Workers, SelectBatch(w)
  PROVE  OInv'
<1> DEFINE batch == FirstIds(Claimable(w))
<1>1. batch \subseteq {e \in Ids : Status(e) = "pending"} \ LockedByOthers(w)
  BY DEF FirstIds, Claimable, Status
<1> HIDE DEF batch
<1>2. \A u \in Workers : locked'[u] = IF u = w THEN batch ELSE locked[u]
  BY DEF SelectBatch, OInv, OTypes, batch
<1>3. OTypes'
  <2>1. locked' = [locked EXCEPT ![w] = batch] /\ batch \subseteq Ids
    BY <1>1 DEF SelectBatch, batch
  <2> QED BY <2>1 DEF OInv, OTypes, SelectBatch
<1>4. \A e \in Ids : Status(e)' = Status(e)
  BY DEF SelectBatch, Status
<1>5. FreshIds'
  BY <1>4 DEF OInv, OTypes, FreshIds, SelectBatch
<1>6. \A u \in Workers \ {w} : batch \cap locked[u] = {}
  BY <1>1 DEF LockedByOthers
<1>7. ClaimsAreApart'
  <2>1. \A u \in Workers : \A e \in locked'[u] : Status(e)' = "pending"
    BY <1>1, <1>2, <1>4 DEF OInv, OTypes, ClaimsAreApart
  <2>2. \A u \in Workers : \A e \in handed'[u] : Status(e)' = "processing"
    BY <1>4 DEF OInv, OTypes, ClaimsAreApart, SelectBatch
  <2>3. \A u, v \in Workers : u # v => locked'[u] \cap locked'[v] = {}
    BY <1>2, <1>6 DEF OInv, ClaimsAreApart
  <2>4. \A u, v \in Workers : u # v => handed'[u] \cap handed'[v] = {}
    BY DEF OInv, ClaimsAreApart, SelectBatch
  <2> QED BY <2>1, <2>2, <2>3, <2>4 DEF ClaimsAreApart
<1> QED BY <1>3, <1>5, <1>7 DEF OInv

\* Its commit moves the rows from pending to processing and hands them over.
LEMMA ClaimKeeps ==
  ASSUME OInv, NEW w \in Workers, CommitClaim(w)
  PROVE  OInv'
<1>1. \A e \in locked[w] : e \in Ids /\ Status(e) = "pending" /\ event[e] \in EventRows
  BY DEF OInv, OTypes, ClaimsAreApart, Status, NoRow
<1>2. event' = [e \in Ids |-> IF e \in locked[w] THEN Claimed(event[e]) ELSE event[e]]
  BY DEF CommitClaim
<1>3. OTypes'
  <2>1. event' \in [Ids -> EventRows \cup {NoRow}]
    BY <1>1, <1>2, ClaimedTyped DEF OInv, OTypes
  <2> QED BY <2>1 DEF OInv, OTypes, CommitClaim
<1>4. \A e \in Ids : Status(e)' = IF e \in locked[w] THEN "processing" ELSE Status(e)
  BY <1>1, <1>2, ClaimedTyped DEF Status
<1>5. \A u \in Workers : /\ locked'[u] = IF u = w THEN {} ELSE locked[u]
                         /\ handed'[u] = IF u = w THEN handed[u] \cup locked[u] ELSE handed[u]
  BY DEF OInv, OTypes, CommitClaim
<1>6. writing' = writing /\ nextId' = nextId
  BY DEF CommitClaim
<1>7. FreshIds'
  BY <1>1, <1>4, <1>6 DEF OInv, OTypes, FreshIds
<1>8. ClaimsAreApart'
  <2>1. \A u \in Workers : \A e \in locked'[u] : e \notin locked[w]
    BY <1>5 DEF OInv, ClaimsAreApart
  <2>2. \A u \in Workers : \A e \in locked'[u] : Status(e)' = "pending"
    BY <1>4, <1>5, <2>1 DEF OInv, OTypes, ClaimsAreApart
  <2>3. \A u \in Workers : \A e \in handed'[u] : Status(e)' = "processing"
    BY <1>4, <1>5 DEF OInv, OTypes, ClaimsAreApart
  <2>4. \A u, v \in Workers : u # v => locked'[u] \cap locked'[v] = {}
    BY <1>5 DEF OInv, ClaimsAreApart
  <2>5. \A u \in Workers : handed[u] \cap locked[w] = {}
    BY DEF OInv, ClaimsAreApart
  <2>6. \A u, v \in Workers : u # v => handed'[u] \cap handed'[v] = {}
    BY <1>5, <2>5 DEF OInv, ClaimsAreApart
  <2> QED BY <2>2, <2>3, <2>4, <2>6 DEF ClaimsAreApart
<1> QED BY <1>3, <1>7, <1>8 DEF OInv

LEMMA CrashKeeps ==
  ASSUME OInv, NEW w \in Workers, Crash(w)
  PROVE  OInv'
<1>1. \A u \in Workers : locked'[u] \subseteq locked[u] /\ handed'[u] \subseteq handed[u]
  BY DEF OInv, OTypes, Crash
<1>2. OTypes'
  BY DEF OInv, OTypes, Crash
<1>3. \A e \in Ids : Status(e)' = Status(e)
  BY DEF Crash, Status
<1>4. FreshIds'
  BY <1>3 DEF OInv, OTypes, FreshIds, Crash
<1>5. ClaimsAreApart'
  BY <1>1, <1>3 DEF OInv, OTypes, ClaimsAreApart
<1> QED BY <1>2, <1>4, <1>5 DEF OInv

LEMMA ExpiryKeeps ==
  ASSUME OInv, NEW e \in Ids, LeaseExpires(e)
  PROVE  OInv'
<1>1. event[e] \in EventRows
  BY DEF OInv, OTypes, LeaseExpires, NoRow
<1>2. [event[e] EXCEPT !.expired = TRUE] \in EventRows
      /\ [event[e] EXCEPT !.expired = TRUE].status = event[e].status
  BY <1>1 DEF EventRows
<1>3. event' = [event EXCEPT ![e] = [event[e] EXCEPT !.expired = TRUE]]
  BY DEF LeaseExpires
<1>4. OTypes'
  <2>1. event' \in [Ids -> EventRows \cup {NoRow}]
    BY <1>2, <1>3 DEF OInv, OTypes
  <2> QED BY <2>1 DEF OInv, OTypes, LeaseExpires
<1>5. \A d \in Ids : Status(d)' = Status(d)
  BY <1>2, <1>3 DEF OInv, OTypes, Status
<1>6. FreshIds'
  BY <1>5 DEF OInv, OTypes, FreshIds, LeaseExpires
<1>7. ClaimsAreApart'
  BY <1>5 DEF OInv, OTypes, ClaimsAreApart, LeaseExpires
<1> QED BY <1>4, <1>6, <1>7 DEF OInv

LEMMA OStutter == OInv /\ UNCHANGED vars => OInv'
BY DEF OInv, OTypes, FreshIds, ClaimsAreApart, Status, vars

LEMMA OStep == OInv /\ [Next]_vars => OInv'
<1> SUFFICES ASSUME OInv, [Next]_vars PROVE OInv'
  OBVIOUS
<1>1. ASSUME NEW a \in Aggregates, AppendEvent(a) PROVE OInv'
  BY <1>1, AppendKeeps
<1>2. ASSUME NEW a \in Aggregates, NEW e \in Ids, Commit(a, e) PROVE OInv'
  BY <1>2, CommitKeeps
<1>3. ASSUME NEW a \in Aggregates, NEW e \in Ids, Rollback(a, e) PROVE OInv'
  BY <1>3, RollbackKeeps
<1>4. ASSUME NEW w \in Workers, SelectBatch(w) PROVE OInv'
  BY <1>4, SelectKeeps
<1>5. ASSUME NEW w \in Workers, CommitClaim(w) PROVE OInv'
  BY <1>5, ClaimKeeps
<1>6. ASSUME NEW w \in Workers, Crash(w) PROVE OInv'
  BY <1>6, CrashKeeps
<1>7. ASSUME NEW e \in Ids, LeaseExpires(e) PROVE OInv'
  BY <1>7, ExpiryKeeps
<1>8. CASE UNCHANGED vars
  BY <1>8, OStutter
<1> QED BY <1>1, <1>2, <1>3, <1>4, <1>5, <1>6, <1>7, <1>8 DEF Next

\* The outbox hands no event to two publishers, whatever the aggregates, the
\* publishers and the batch (claim_outbox_events).
THEOREM PublishersApart == Spec => []HandedOnce
<1>1. OInv => HandedOnce
  <2> SUFFICES ASSUME OInv, NEW w \in Workers, NEW u \in Workers, w # u
               PROVE (handed[w] \cup locked[w]) \cap (handed[u] \cup locked[u]) = {}
    BY DEF HandedOnce
  <2>1. \A v, x \in Workers : handed[v] \cap locked[x] = {}
    BY DEF OInv, ClaimsAreApart
  <2>2. locked[w] \cap locked[u] = {} /\ handed[w] \cap handed[u] = {}
    BY DEF OInv, ClaimsAreApart
  <2> QED BY <2>1, <2>2
<1> QED BY OInit, OStep, <1>1, PTL DEF Spec
-----------------------------------------------------------------------------
\* An aggregate's open transaction is one, and drew its id after the events that
\* are there.
OneWriter ==
  \A a \in Aggregates :
    /\ \A d, e \in writing[a] : d = e
    /\ \A d \in EventsOf(a), e \in writing[a] : d < e

History == OneWriter /\ ChangesAreRecorded /\ IdsFollowVersions

HInv == OInv /\ TypeOK /\ History

\* A step that commits nothing leaves the history as it is.
LEMMA HistoryKept ==
  ASSUME OInv, History, version' = version,
         \A a \in Aggregates : writing'[a] \subseteq writing[a],
         \A e \in Ids : /\ event'[e].status = "none" <=> event[e].status = "none"
                        /\ event[e].status # "none" =>
                             /\ event'[e].aggregate = event[e].aggregate
                             /\ event'[e].version = event[e].version
  PROVE  History'
<1>1. \A a \in Aggregates : EventsOf(a)' = EventsOf(a)
  BY DEF EventsOf
<1>2. \A a \in Aggregates : \A e \in EventsOf(a) : event'[e].version = event[e].version
  BY DEF EventsOf
<1>3. OneWriter'
  BY <1>1 DEF History, OneWriter
<1>4. ChangesAreRecorded'
  <2> SUFFICES ASSUME NEW a \in Aggregates
               PROVE  /\ {event'[e].version : e \in EventsOf(a)'} = 1..version[a]
                      /\ Cardinality(EventsOf(a)') = version[a]
    BY DEF ChangesAreRecorded
  <2>1. {event'[e].version : e \in EventsOf(a)'} = {event[e].version : e \in EventsOf(a)}
    BY <1>1, <1>2
  <2> QED BY <1>1, <2>1 DEF History, ChangesAreRecorded
<1>5. IdsFollowVersions'
  BY <1>1, <1>2 DEF History, IdsFollowVersions
<1> QED BY <1>3, <1>4, <1>5 DEF History

LEMMA HistoryAppended ==
  ASSUME OInv, History, NEW a \in Aggregates, AppendEvent(a)
  PROVE  History'
<1>1. UNCHANGED <<version, event>> /\ writing[a] = {}
      /\ nextId \in Ids
      /\ \A b \in Aggregates : writing'[b] = IF b = a THEN {nextId} ELSE writing[b]
  BY DEF OInv, OTypes, AppendEvent
<1>2. \A b \in Aggregates : EventsOf(b)' = EventsOf(b)
  BY <1>1 DEF EventsOf
<1>3. \A e \in EventsOf(a) : e < nextId
  BY <1>1 DEF EventsOf, OInv, OTypes, FreshIds, Status, Ids
<1>4. OneWriter'
  BY <1>1, <1>2, <1>3 DEF History, OneWriter
<1>5. ChangesAreRecorded' /\ IdsFollowVersions'
  BY <1>1, <1>2 DEF History, ChangesAreRecorded, IdsFollowVersions
<1> QED BY <1>4, <1>5 DEF History

\* A commit adds the aggregate's next version, under an id above the others.
LEMMA HistoryCommitted ==
  ASSUME OInv, History, NEW a \in Aggregates, NEW e \in Ids, Commit(a, e)
  PROVE  History'
<1> DEFINE n == version[a] + 1
<1>1. e \in writing[a] /\ event[e].status = "none" /\ version[a] \in Nat
  BY DEF Commit, OInv, OTypes, FreshIds, Status
<1>2. /\ \A d \in Ids : event'[d] = IF d = e THEN Row(a, n) ELSE event[d]
      /\ \A b \in Aggregates : /\ version'[b] = IF b = a THEN n ELSE version[b]
                               /\ writing'[b] = IF b = a THEN writing[a] \ {e} ELSE writing[b]
  BY DEF Commit, OInv, OTypes
<1>3. Row(a, n).status = "pending" /\ Row(a, n).aggregate = a /\ Row(a, n).version = n
  BY DEF Row
<1> HIDE DEF n
<1>4. e \notin EventsOf(a) /\ EventsOf(a)' = EventsOf(a) \cup {e}
  BY <1>1, <1>2, <1>3 DEF EventsOf
<1>5. \A b \in Aggregates \ {a} : EventsOf(b)' = EventsOf(b) /\ e \notin EventsOf(b)
  BY <1>1, <1>2, <1>3 DEF EventsOf
<1>6. \A b \in Aggregates : \A d \in EventsOf(b) : d # e /\ event'[d] = event[d]
  BY <1>1, <1>2 DEF EventsOf
<1>7. OneWriter'
  <2> SUFFICES ASSUME NEW b \in Aggregates
               PROVE  /\ \A d, f \in writing'[b] : d = f
                      /\ \A d \in EventsOf(b)', f \in writing'[b] : d < f
    BY DEF OneWriter
  <2>1. CASE b = a
    <3>1. writing'[b] = {}
      BY <1>1, <1>2, <2>1 DEF History, OneWriter
    <3> QED BY <3>1
  <2>2. CASE b # a
    BY <1>2, <1>5, <2>2 DEF History, OneWriter
  <2> QED BY <2>1, <2>2
<1>8. ChangesAreRecorded'
  <2> SUFFICES ASSUME NEW b \in Aggregates
               PROVE  /\ {event'[d].version : d \in EventsOf(b)'} = 1..version'[b]
                      /\ Cardinality(EventsOf(b)') = version'[b]
    BY DEF ChangesAreRecorded
  <2>1. /\ {event[d].version : d \in EventsOf(b)} = 1..version[b]
        /\ Cardinality(EventsOf(b)) = version[b]
    BY DEF History, ChangesAreRecorded
  <2>2. CASE b # a
    <3>1. {event'[d].version : d \in EventsOf(b)'} = {event[d].version : d \in EventsOf(b)}
      BY <1>5, <1>6, <2>2
    <3> QED BY <1>2, <1>5, <2>1, <2>2, <3>1
  <2>3. CASE b = a
    <3>1. {event'[d].version : d \in EventsOf(a)'}
            = {event[d].version : d \in EventsOf(a)} \cup {n}
      BY <1>2, <1>3, <1>4, <1>6
    <3>2. (1..version[a]) \cup {n} = 1..n
      BY <1>1 DEF n
    <3>3. IsFiniteSet(EventsOf(a))
      <4>1. IsFiniteSet(Ids)
        BY FS_Interval, OutboxAssumption DEF Ids
      <4> QED BY <4>1, FS_Subset DEF EventsOf
    <3>4. Cardinality(EventsOf(a)') = Cardinality(EventsOf(a)) + 1
      BY <1>4, <3>3, FS_AddElement
    <3> QED BY <1>2, <2>1, <2>3, <3>1, <3>2, <3>4 DEF n
  <2> QED BY <2>2, <2>3
<1>9. IdsFollowVersions'
  <2> SUFFICES ASSUME NEW b \in Aggregates, NEW d \in EventsOf(b)', NEW f \in EventsOf(b)', d < f
               PROVE  event'[d].version < event'[f].version
    BY DEF IdsFollowVersions
  <2>1. CASE d \in EventsOf(b) /\ f \in EventsOf(b)
    BY <1>6, <2>1 DEF History, IdsFollowVersions
  <2>2. CASE ~(d \in EventsOf(b) /\ f \in EventsOf(b))
    <3>1. b = a /\ (d = e \/ f = e)
      BY <1>4, <1>5, <2>2
    <3>2. \A g \in EventsOf(a) : g < e /\ g \in Ids
      BY <1>1 DEF History, OneWriter, EventsOf
    <3>3. d # e
      BY <1>4, <3>1, <3>2, OutboxAssumption DEF Ids
    <3>4. f = e /\ d \in EventsOf(a)
      BY <1>4, <3>1, <3>3
    <3>5. event[d].version \in 1..version[a]
      BY <3>4 DEF History, ChangesAreRecorded
    <3>6. event'[d].version = event[d].version /\ event'[f].version = n
      BY <1>2, <1>3, <1>6, <3>4
    <3> QED BY <1>1, <3>5, <3>6 DEF n
  <2> QED BY <2>1, <2>2
<1> QED BY <1>7, <1>8, <1>9 DEF History

\* The rest of the types: the counters' bounds and the attempts of pending rows.
LEMMA TypesKept ==
  ASSUME OInv, OInv', TypeOK, [Next]_vars
  PROVE  TypeOK'
<1> DEFINE Fresh(x) == x.status = "pending" => x.attempts = 0
<1>1. nextId' \in 1..(MaxEvents + 1)
  BY OutboxAssumption DEF TypeOK, Next, vars, AppendEvent, Commit, Rollback, SelectBatch,
       CommitClaim, Crash, LeaseExpires, Ids
<1>2. crashes' \in 0..MaxCrashes
  BY OutboxAssumption DEF TypeOK, Next, vars, AppendEvent, Commit, Rollback, SelectBatch,
       CommitClaim, Crash, LeaseExpires
<1>3. \A e \in Ids : Fresh(event'[e])
  <2>1. ASSUME event' = event PROVE \A e \in Ids : Fresh(event'[e])
    BY <2>1 DEF TypeOK
  <2>2. ASSUME NEW a \in Aggregates, NEW e \in Ids, Commit(a, e)
        PROVE  \A d \in Ids : Fresh(event'[d])
    <3>1. Fresh(Row(a, version[a] + 1))
      BY DEF Row
    <3>2. \A d \in Ids : event'[d] = IF d = e THEN Row(a, version[a] + 1) ELSE event[d]
      BY <2>2 DEF Commit, OInv, OTypes
    <3> QED BY <3>1, <3>2 DEF TypeOK
  <2>3. ASSUME NEW w \in Workers, CommitClaim(w) PROVE \A e \in Ids : Fresh(event'[e])
    <3>1. \A e \in locked[w] : event[e] \in EventRows
      BY DEF OInv, OTypes, ClaimsAreApart, Status, NoRow
    <3>2. \A e \in Ids : event'[e] = IF e \in locked[w] THEN Claimed(event[e]) ELSE event[e]
      BY <2>3 DEF CommitClaim
    <3> QED BY <3>1, <3>2, ClaimedTyped DEF TypeOK
  <2>4. ASSUME NEW e \in Ids, LeaseExpires(e) PROVE \A d \in Ids : Fresh(event'[d])
    <3>1. event[e] \in EventRows
      BY <2>4 DEF LeaseExpires, OInv, OTypes, NoRow
    <3>2. \A d \in Ids :
            event'[d] = IF d = e THEN [event[e] EXCEPT !.expired = TRUE] ELSE event[d]
      BY <2>4 DEF LeaseExpires, OInv, OTypes
    <3>3. [event[e] EXCEPT !.expired = TRUE].status = "processing"
      BY <2>4, <3>1 DEF LeaseExpires, EventRows
    <3> QED BY <3>2, <3>3 DEF TypeOK
  <2> QED BY <2>1, <2>2, <2>3, <2>4
        DEF Next, vars, AppendEvent, Rollback, SelectBatch, Crash
<1> QED BY <1>1, <1>2, <1>3 DEF TypeOK, OInv, OTypes

\* Of the steps only an append and a commit touch the history.
LEMMA HistoryStep ==
  ASSUME OInv, History, [Next]_vars
  PROVE  History'
<1> DEFINE Quiet ==
      /\ version' = version
      /\ \A a \in Aggregates : writing'[a] \subseteq writing[a]
      /\ \A e \in Ids : /\ event'[e].status = "none" <=> event[e].status = "none"
                        /\ event[e].status # "none" =>
                             /\ event'[e].aggregate = event[e].aggregate
                             /\ event'[e].version = event[e].version
<1>1. ASSUME Quiet PROVE History'
  BY <1>1, HistoryKept
<1>2. ASSUME NEW a \in Aggregates, AppendEvent(a) PROVE History'
  BY <1>2, HistoryAppended
<1>3. ASSUME NEW a \in Aggregates, NEW e \in Ids, Commit(a, e) PROVE History'
  BY <1>3, HistoryCommitted
<1>4. ASSUME NEW a \in Aggregates, NEW e \in Ids, Rollback(a, e) PROVE Quiet
  BY <1>4 DEF Rollback, OInv, OTypes
<1>5. ASSUME NEW w \in Workers, SelectBatch(w) PROVE Quiet
  BY <1>5 DEF SelectBatch
<1>6. ASSUME NEW w \in Workers, CommitClaim(w) PROVE Quiet
  <2>1. \A e \in locked[w] : event[e] \in EventRows
    BY DEF OInv, OTypes, ClaimsAreApart, Status, NoRow
  <2>2. \A r \in EventRows : /\ Claimed(r).status # "none" /\ r.status # "none"
                             /\ Claimed(r).aggregate = r.aggregate
                             /\ Claimed(r).version = r.version
    <3> TAKE r \in EventRows
    <3>1. Claimed(r).aggregate = r.aggregate /\ Claimed(r).version = r.version
      BY DEF Claimed, EventRows
    <3> QED BY <3>1, ClaimedTyped DEF EventRows
  <2>3. \A e \in Ids : event'[e] = IF e \in locked[w] THEN Claimed(event[e]) ELSE event[e]
    BY <1>6 DEF CommitClaim
  <2> QED BY <1>6, <2>1, <2>2, <2>3 DEF CommitClaim
<1>7. ASSUME NEW w \in Workers, Crash(w) PROVE Quiet
  BY <1>7 DEF Crash
<1>8. ASSUME NEW e \in Ids, LeaseExpires(e) PROVE Quiet
  <2>1. event[e] \in EventRows
    BY <1>8 DEF LeaseExpires, OInv, OTypes, NoRow
  <2>2. \A d \in Ids :
          event'[d] = IF d = e THEN [event[e] EXCEPT !.expired = TRUE] ELSE event[d]
    BY <1>8 DEF LeaseExpires, OInv, OTypes
  <2>3. /\ [event[e] EXCEPT !.expired = TRUE].status = event[e].status
        /\ [event[e] EXCEPT !.expired = TRUE].aggregate = event[e].aggregate
        /\ [event[e] EXCEPT !.expired = TRUE].version = event[e].version
    BY <2>1 DEF EventRows
  <2> QED BY <1>8, <2>2, <2>3 DEF LeaseExpires
<1>9. CASE UNCHANGED vars
  BY <1>1, <1>9 DEF vars
<1> HIDE DEF Quiet
<1> QED BY <1>1, <1>2, <1>3, <1>4, <1>5, <1>6, <1>7, <1>8, <1>9 DEF Next

\* The events publishers see are every aggregate's history, whatever commits,
\* rolls back and dies (append_outbox_event, claim_outbox_events).
THEOREM HistoryTold == Spec => []EventsTellHistory
<1>1. Init => HInv
  <2> SUFFICES ASSUME Init PROVE HInv
    OBVIOUS
  <2>1. OInv
    BY OInit
  <2>2. TypeOK
    BY <2>1, OutboxAssumption DEF Init, OInv, OTypes, TypeOK, NoRow
  <2>3. \A a \in Aggregates : EventsOf(a) = {}
    BY DEF Init, EventsOf, NoRow
  <2>4. ChangesAreRecorded
    <3>1. \A a \in Aggregates : {event[e].version : e \in EventsOf(a)} = {}
      BY <2>3
    <3>2. Cardinality({}) = 0
      BY FS_EmptySet
    <3> QED BY <2>3, <3>1, <3>2 DEF Init, ChangesAreRecorded
  <2>5. OneWriter /\ IdsFollowVersions
    BY <2>3 DEF Init, OneWriter, IdsFollowVersions
  <2> QED BY <2>1, <2>2, <2>4, <2>5 DEF HInv, History
<1>2. HInv /\ [Next]_vars => HInv'
  <2> SUFFICES ASSUME HInv, [Next]_vars PROVE HInv'
    OBVIOUS
  <2>1. OInv'
    BY OStep DEF HInv
  <2>2. TypeOK'
    BY <2>1, TypesKept DEF HInv
  <2>3. History'
    BY HistoryStep DEF HInv
  <2> QED BY <2>1, <2>2, <2>3 DEF HInv
<1>3. HInv => EventsTellHistory
  BY DEF HInv, History, EventsTellHistory
<1> QED BY <1>1, <1>2, <1>3, PTL DEF Spec
-----------------------------------------------------------------------------
(***************************************************************************)
(* The integration queue.  What an open claim holds stays claimable, since *)
(* everything else that writes a row waits for its lock; that two workers  *)
(* are never at one event needs, as long as nothing went wrong, that every *)
(* row in process is worked on, so that no lease runs out.                 *)
(***************************************************************************)
FormRow == [request : {"retry", "ignore", "edit"}, event : Events, copy : QueueRow]
HasLease(r) == r.status = "processing" => r.lease # "none"

QueueTypes ==
  /\ row \in [Events -> QueueRow]
  /\ taken \in [QueueWorkers -> SUBSET Events] /\ doing \in [QueueWorkers -> SUBSET Events]
  /\ form \in [Operators -> FormRow \cup {NoForm}]
  /\ trouble \in 0..MaxTrouble /\ forms \in 0..MaxForms
  /\ \A e \in Events : HasLease(row[e])
  /\ \A p \in Operators : form[p] # NoForm => HasLease(form[p].copy)

\* What a claim holds, and that two claims never hold one row.
TakenStands ==
  /\ \A w \in QueueWorkers : \A e \in taken[w] : row[e].status \in {"pending", "processing"}
  /\ \A w, u \in QueueWorkers : w # u => taken[w] \cap taken[u] = {}

\* A day without trouble: a worker has exactly the rows that are in process under
\* its name.
Undisturbed ==
  /\ \A p \in Operators : form[p] = NoForm
  /\ \A e \in Events : row[e].lease # "expired"
  /\ \A e \in Events : row[e].status = "processing" => \E w \in QueueWorkers : e \in doing[w]
  /\ \A w \in QueueWorkers : \A e \in taken[w] : row[e].status = "pending"
  /\ \A w \in QueueWorkers : \A e \in doing[w] :
       row[e].status = "processing" /\ row[e].worker = w

QueueInv == QueueTypes /\ TakenStands /\ (trouble = 0 /\ forms = 0 => Undisturbed)

LEMMA QueueTell == ASSUME QueueInv PROVE WorkedOnOnce
<1>1. QueueTypeOK
  <2>1. \A p \in Operators : form[p] # NoForm => form[p].copy \in QueueRow
    BY DEF QueueInv, QueueTypes, FormRow
  <2> QED BY <2>1 DEF QueueInv, QueueTypes, QueueTypeOK, HasLease
<1>2. ASSUME NEW e \in Events, trouble = 0, forms = 0
      PROVE  Cardinality({w \in QueueWorkers : e \in doing[w] \cup taken[w]}) <= 1
  <2> DEFINE S == {w \in QueueWorkers : e \in doing[w] \cup taken[w]}
  <2>1. \A w, u \in S : w = u
    <3> SUFFICES ASSUME NEW w \in S, NEW u \in S PROVE w = u OBVIOUS
    <3>1. /\ e \in taken[w] => row[e].status = "pending"
          /\ e \in taken[u] => row[e].status = "pending"
          /\ e \in doing[w] => row[e].status = "processing" /\ row[e].worker = w
          /\ e \in doing[u] => row[e].status = "processing" /\ row[e].worker = u
      BY <1>2 DEF QueueInv, Undisturbed
    <3>2. e \in taken[w] /\ e \in taken[u] => w = u BY DEF QueueInv, TakenStands
    <3> QED BY <3>1, <3>2
  <2>2. S = {} \/ \E w : S = {w} BY <2>1
  <2>3. Cardinality(S) \in {0, 1}
    <3> HIDE DEF S
    <3> QED BY <2>2, FS_EmptySet, FS_Singleton
  <2> QED BY <2>3
<1> QED BY <1>1, <1>2 DEF WorkedOnOnce

LEMMA QueueStart == ASSUME QueueInit PROVE QueueInv
<1>1. Absent \in QueueRow /\ Absent.status = "absent" /\ Absent.lease = "none"
  BY DEF Absent, QueueRow
<1>2. /\ row = [e \in Events |-> Absent] /\ taken = [w \in QueueWorkers |-> {}]
      /\ doing = [w \in QueueWorkers |-> {}] /\ form = [p \in Operators |-> NoForm]
      /\ trouble = 0 /\ forms = 0
  BY DEF QueueInit
<1>3. QueueTypes BY <1>1, <1>2, QueueAssumption DEF QueueTypes, HasLease
<1>4. TakenStands /\ Undisturbed BY <1>1, <1>2 DEF TakenStands, Undisturbed
<1> QED BY <1>3, <1>4 DEF QueueInv

\* The rows that steps write.
LEMMA QueueRowsWritten ==
  ASSUME NEW r \in QueueRow
  PROVE  /\ [r EXCEPT !.status = "pending"] \in QueueRow
         /\ [r EXCEPT !.lease = "expired"] \in QueueRow
         /\ [r EXCEPT !.lease = "expired"].status = r.status
         /\ [r EXCEPT !.lease = "expired"].worker = r.worker
         /\ [r EXCEPT !.lease = "expired"].lease = "expired"
         /\ [r EXCEPT !.due = TRUE] \in QueueRow
         /\ [r EXCEPT !.due = TRUE].status = r.status
         /\ [r EXCEPT !.due = TRUE].lease = r.lease
         /\ [r EXCEPT !.due = TRUE].worker = r.worker
         /\ \A w \in QueueWorkers :
              /\ ClaimedBy(r, w) \in QueueRow /\ ClaimedBy(r, w).status = "processing"
              /\ ClaimedBy(r, w).worker = w /\ ClaimedBy(r, w).lease = "live"
         /\ \A s \in BOOLEAN :
              /\ Reported(r, s) \in QueueRow /\ Reported(r, s).lease = "none"
              /\ Reported(r, s).status \in {"succeeded", "dead", "pending"}
<1>1. PICK s \in {"absent", "pending", "processing", "succeeded", "dead", "ignored"}, n \in Nat,
            w \in QueueWorkers \cup {"nobody"}, l \in {"none", "live", "expired"}, d \in BOOLEAN :
        r = [status |-> s, attempts |-> n, worker |-> w, lease |-> l, due |-> d]
  BY DEF QueueRow
<1>2. ASSUME NEW u \in QueueWorkers
      PROVE  ClaimedBy(r, u) = [status |-> "processing", attempts |-> n + 1, worker |-> u,
                                lease |-> "live", due |-> d]
  <2> DEFINE r1 == [r EXCEPT !.status = "processing"]
             r2 == [r1 EXCEPT !.worker = u]
             r3 == [r2 EXCEPT !.lease = "live"]
             r4 == [r3 EXCEPT !.attempts = r.attempts + 1]
  <2>1. r1 = [status |-> "processing", attempts |-> n, worker |-> w, lease |-> l, due |-> d]
    BY <1>1
  <2>2. ClaimedBy(r, u) = r4 BY DEF ClaimedBy
  <2> HIDE DEF r1
  <2>3. r2 = [status |-> "processing", attempts |-> n, worker |-> u, lease |-> l, due |-> d]
    BY <2>1
  <2> HIDE DEF r2
  <2>4. r3 = [status |-> "processing", attempts |-> n, worker |-> u, lease |-> "live", due |-> d]
    BY <2>3
  <2> HIDE DEF r3
  <2>5. r4 = [status |-> "processing", attempts |-> n + 1, worker |-> u, lease |-> "live", due |-> d]
    BY <1>1, <2>4
  <2> QED BY <2>2, <2>5
<1>3. ASSUME NEW x \in BOOLEAN
      PROVE  \E s2 \in {"succeeded", "dead", "pending"}, d2 \in BOOLEAN :
               Reported(r, x) = [status |-> s2, attempts |-> n, worker |-> "nobody",
                                 lease |-> "none", due |-> d2]
  <2> DEFINE s2 == IF x THEN "succeeded" ELSE IF r.attempts >= MaxAttempts THEN "dead" ELSE "pending"
             d2 == x \/ r.attempts >= MaxAttempts
             r1 == [r EXCEPT !.status = s2]
             r2 == [r1 EXCEPT !.due = d2]
             r3 == [r2 EXCEPT !.lease = "none"]
             r4 == [r3 EXCEPT !.worker = "nobody"]
  <2>1. s2 \in {"succeeded", "dead", "pending"} /\ d2 \in BOOLEAN OBVIOUS
  <2>2. Reported(r, x) = r4 BY DEF Reported
  <2> HIDE DEF s2, d2
  <2>3. r1 = [status |-> s2, attempts |-> n, worker |-> w, lease |-> l, due |-> d] BY <1>1
  <2> HIDE DEF r1
  <2>4. r2 = [status |-> s2, attempts |-> n, worker |-> w, lease |-> l, due |-> d2] BY <2>3
  <2> HIDE DEF r2
  <2>5. r3 = [status |-> s2, attempts |-> n, worker |-> w, lease |-> "none", due |-> d2] BY <2>4
  <2> HIDE DEF r3
  <2>6. r4 = [status |-> s2, attempts |-> n, worker |-> "nobody", lease |-> "none", due |-> d2]
    BY <2>5
  <2> QED BY <2>1, <2>2, <2>6
<1>4. \A u \in QueueWorkers :
        /\ ClaimedBy(r, u) \in QueueRow /\ ClaimedBy(r, u).status = "processing"
        /\ ClaimedBy(r, u).worker = u /\ ClaimedBy(r, u).lease = "live"
  BY <1>2 DEF QueueRow
<1>5. \A x \in BOOLEAN :
        /\ Reported(r, x) \in QueueRow /\ Reported(r, x).lease = "none"
        /\ Reported(r, x).status \in {"succeeded", "dead", "pending"}
  BY <1>3 DEF QueueRow
<1>6. /\ [r EXCEPT !.status = "pending"] \in QueueRow
      /\ [r EXCEPT !.lease = "expired"] \in QueueRow
      /\ [r EXCEPT !.lease = "expired"].status = r.status
      /\ [r EXCEPT !.lease = "expired"].worker = r.worker
      /\ [r EXCEPT !.lease = "expired"].lease = "expired"
  BY <1>1 DEF QueueRow
<1>7. /\ [r EXCEPT !.due = TRUE] \in QueueRow
      /\ [r EXCEPT !.due = TRUE].status = r.status
      /\ [r EXCEPT !.due = TRUE].lease = r.lease
      /\ [r EXCEPT !.due = TRUE].worker = r.worker
  BY <1>1 DEF QueueRow
<1> QED BY <1>4, <1>5, <1>6, <1>7

LEMMA QueueRowSet ==
  ASSUME QueueTypes, NEW e \in Events, NEW r \in QueueRow, HasLease(r), row' = [row EXCEPT ![e] = r]
  PROVE  /\ row' \in [Events -> QueueRow] /\ \A x \in Events : HasLease(row'[x])
         /\ \A x \in Events : row'[x] = IF x = e THEN r ELSE row[x]
BY DEF QueueTypes

LEMMA EventQueued ==
  ASSUME QueueInv, NEW e \in Events, Enqueue(e)
  PROVE  QueueInv'
<1> DEFINE r == [row[e] EXCEPT !.status = "pending"]
<1>1. /\ row[e] = Absent /\ row' = [row EXCEPT ![e] = r]
      /\ UNCHANGED <<taken, doing, form, trouble, forms>>
  BY DEF Enqueue
<1>2. row[e] \in QueueRow /\ row[e].status = "absent" /\ row[e].lease = "none"
  <2>1. row[e] \in QueueRow BY DEF QueueInv, QueueTypes
  <2>2. Absent.status = "absent" /\ Absent.lease = "none" BY DEF Absent
  <2> QED BY <1>1, <2>1, <2>2
<1>3. r \in QueueRow /\ r.status = "pending" /\ r.lease = "none" BY <1>1, <1>2 DEF QueueRow, Absent
<1> HIDE DEF r
<1>4. HasLease(r) BY <1>3 DEF HasLease
<1>5. /\ row' \in [Events -> QueueRow] /\ \A x \in Events : HasLease(row'[x])
      /\ \A x \in Events : row'[x] = IF x = e THEN r ELSE row[x]
  BY <1>1, <1>3, <1>4, QueueRowSet DEF QueueInv
<1>6. QueueTypes' BY <1>1, <1>5 DEF QueueInv, QueueTypes
<1>7. TakenStands' BY <1>1, <1>3, <1>5 DEF QueueInv, TakenStands, QueueTypes
<1>8. Undisturbed => Undisturbed'
  <2> SUFFICES ASSUME Undisturbed PROVE Undisturbed' OBVIOUS
  <2>1. \A w \in QueueWorkers : e \notin doing[w] BY <1>2 DEF Undisturbed
  <2>2. \A x \in Events : row'[x].status = "processing" => x # e BY <1>3, <1>5
  <2>3. \A w \in QueueWorkers : doing[w] \subseteq Events /\ taken[w] \subseteq Events
    BY DEF QueueInv, QueueTypes
  <2> QED BY <1>1, <1>3, <1>5, <2>1, <2>2, <2>3 DEF Undisturbed
<1> QED BY <1>1, <1>6, <1>7, <1>8 DEF QueueInv

\* A step that changes neither the status of a row nor who works on it.
LEMMA RowRefreshed ==
  ASSUME QueueInv, NEW e \in Events, NEW r \in QueueRow, row' = [row EXCEPT ![e] = r],
         UNCHANGED <<taken, doing, form, forms>>, trouble' \in 0..MaxTrouble, trouble <= trouble',
         r.status = row[e].status, HasLease(r),
         trouble' = 0 /\ forms = 0 => r.lease = row[e].lease /\ r.worker = row[e].worker
  PROVE  QueueInv'
<1>1. /\ row' \in [Events -> QueueRow] /\ \A x \in Events : HasLease(row'[x])
      /\ \A x \in Events : row'[x] = IF x = e THEN r ELSE row[x]
  BY QueueRowSet DEF QueueInv
<1>2. \A x \in Events : row'[x].status = row[x].status BY <1>1
<1>3. QueueTypes' BY <1>1 DEF QueueInv, QueueTypes
<1>4. \A w \in QueueWorkers : doing[w] \subseteq Events /\ taken[w] \subseteq Events
  BY DEF QueueInv, QueueTypes
<1>5. TakenStands' BY <1>2, <1>4 DEF QueueInv, TakenStands
<1>6. ASSUME trouble' = 0, forms' = 0 PROVE Undisturbed'
  <2>1. trouble = 0 /\ forms = 0 BY <1>6 DEF QueueInv, QueueTypes
  <2>2. Undisturbed BY <2>1 DEF QueueInv
  <2>3. \A x \in Events : row'[x].lease = row[x].lease /\ row'[x].worker = row[x].worker
    BY <1>1, <1>6, <2>1
  <2> QED BY <1>2, <1>4, <2>2, <2>3 DEF Undisturbed
<1> QED BY <1>3, <1>5, <1>6 DEF QueueInv

LEMMA LeasesRunOut ==
  ASSUME QueueInv, NEW e \in Events, LeaseRunsOut(e) \/ AbandonedLeaseRunsOut(e) \/ BecomesDue(e)
  PROVE  QueueInv'
<1>1. row[e] \in QueueRow /\ HasLease(row[e]) /\ trouble \in 0..MaxTrouble /\ forms \in 0..MaxForms
  BY DEF QueueInv, QueueTypes
<1> DEFINE r == [row[e] EXCEPT !.lease = "expired"]
           t == [row[e] EXCEPT !.due = TRUE]
<1>2. /\ r \in QueueRow /\ r.status = row[e].status /\ r.lease = "expired"
      /\ t \in QueueRow /\ t.status = row[e].status
      /\ t.lease = row[e].lease /\ t.worker = row[e].worker
  BY <1>1, QueueRowsWritten
<1>3. HasLease(r) /\ HasLease(t) BY <1>1, <1>2 DEF HasLease
<1>4. CASE LeaseRunsOut(e)
  <2>1. /\ row' = [row EXCEPT ![e] = r] /\ trouble < MaxTrouble /\ trouble' = trouble + 1
        /\ UNCHANGED <<taken, doing, form, forms>>
    BY <1>4 DEF LeaseRunsOut
  <2>2. trouble' \in 0..MaxTrouble /\ trouble <= trouble' /\ trouble' # 0
    BY <1>1, <2>1, QueueAssumption
  <2> HIDE DEF r
  <2> QED BY <1>2, <1>3, <2>1, <2>2, RowRefreshed
<1>5. CASE AbandonedLeaseRunsOut(e)
  <2>1. /\ row' = [row EXCEPT ![e] = r] /\ row[e].status = "processing" /\ ~HasWorker(e)
        /\ UNCHANGED <<taken, doing, form, trouble, forms>>
    BY <1>5 DEF AbandonedLeaseRunsOut
  <2>2. ~(trouble' = 0 /\ forms = 0)
    BY <2>1 DEF QueueInv, Undisturbed, HasWorker
  <2>3. trouble' \in 0..MaxTrouble /\ trouble <= trouble' BY <1>1, <2>1
  <2> HIDE DEF r
  <2> QED BY <1>2, <1>3, <2>1, <2>2, <2>3, RowRefreshed
<1>6. CASE BecomesDue(e)
  <2>1. row' = [row EXCEPT ![e] = t] /\ UNCHANGED <<taken, doing, form, trouble, forms>>
    BY <1>6 DEF BecomesDue
  <2>2. trouble' \in 0..MaxTrouble /\ trouble <= trouble' BY <1>1, <2>1
  <2> HIDE DEF t
  <2> QED BY <1>2, <1>3, <2>1, <2>2, RowRefreshed
<1> QED BY <1>4, <1>5, <1>6

LEMMA EventsSelected ==
  ASSUME QueueInv, NEW w \in QueueWorkers, SelectDue(w)
  PROVE  QueueInv'
<1> DEFINE S == {e \in Events : ClaimableEvent(e)}
<1>1. /\ taken' = [taken EXCEPT ![w] = S] /\ UNCHANGED <<row, doing, form, trouble, forms>>
  BY DEF SelectDue
<1>2. S \subseteq Events OBVIOUS
<1>3. \A e \in S : /\ row[e].status \in {"pending", "processing"}
                   /\ row[e].lease # "expired" => row[e].status = "pending"
                   /\ \A u \in QueueWorkers : e \notin taken[u]
  BY DEF ClaimableEvent, Locked
<1> HIDE DEF S
<1>4. \A u \in QueueWorkers : taken'[u] = IF u = w THEN S ELSE taken[u]
  BY <1>1 DEF QueueInv, QueueTypes
<1>5. QueueTypes' BY <1>1, <1>2 DEF QueueInv, QueueTypes
<1>6. TakenStands' BY <1>1, <1>3, <1>4 DEF QueueInv, TakenStands
<1>7. Undisturbed => Undisturbed' BY <1>1, <1>2, <1>3, <1>4 DEF Undisturbed
<1> QED BY <1>1, <1>5, <1>6, <1>7 DEF QueueInv

LEMMA EventsClaimed ==
  ASSUME QueueInv, NEW w \in QueueWorkers, CommitEvents(w)
  PROVE  QueueInv'
<1>1. /\ row' = [e \in Events |-> IF e \in taken[w] THEN ClaimedBy(row[e], w) ELSE row[e]]
      /\ doing' = [doing EXCEPT ![w] = @ \cup taken[w]] /\ taken' = [taken EXCEPT ![w] = {}]
      /\ UNCHANGED <<form, trouble, forms>>
  BY DEF CommitEvents
<1>2. \A u \in QueueWorkers : /\ taken'[u] = IF u = w THEN {} ELSE taken[u]
                              /\ doing'[u] = IF u = w THEN doing[w] \cup taken[w] ELSE doing[u]
                              /\ taken[u] \subseteq Events /\ doing[u] \subseteq Events
  BY <1>1 DEF QueueInv, QueueTypes
<1>3. \A e \in Events : row[e] \in QueueRow /\ HasLease(row[e]) BY DEF QueueInv, QueueTypes
<1>4. \A e \in Events :
        /\ ClaimedBy(row[e], w) \in QueueRow /\ ClaimedBy(row[e], w).status = "processing"
        /\ ClaimedBy(row[e], w).worker = w /\ ClaimedBy(row[e], w).lease = "live"
  <2> TAKE e \in Events
  <2> DEFINE x == row[e]
  <2>1. x \in QueueRow BY <1>3
  <2> HIDE DEF x
  <2>2. \A u \in QueueWorkers :
          /\ ClaimedBy(x, u) \in QueueRow /\ ClaimedBy(x, u).status = "processing"
          /\ ClaimedBy(x, u).worker = u /\ ClaimedBy(x, u).lease = "live"
    BY <2>1, QueueRowsWritten
  <2> QED BY <2>2 DEF x
<1>5. /\ \A e \in Events : e \in taken[w] =>
           /\ row'[e] \in QueueRow /\ row'[e].status = "processing"
           /\ row'[e].worker = w /\ row'[e].lease = "live"
      /\ \A e \in Events : e \notin taken[w] => row'[e] = row[e]
  BY <1>1, <1>4
<1>6. QueueTypes'
  <2>1. row' \in [Events -> QueueRow] BY <1>1, <1>3, <1>4
  <2>2. \A e \in Events : HasLease(row'[e]) BY <1>3, <1>5 DEF HasLease
  <2>3. taken' \in [QueueWorkers -> SUBSET Events] /\ doing' \in [QueueWorkers -> SUBSET Events]
    BY <1>1 DEF QueueInv, QueueTypes
  <2> QED BY <1>1, <2>1, <2>2, <2>3 DEF QueueInv, QueueTypes
<1>7. \A u \in QueueWorkers \ {w} : taken[u] \cap taken[w] = {} BY DEF QueueInv, TakenStands
<1>8. TakenStands'
  <2>1. ASSUME NEW u \in QueueWorkers, NEW e \in taken'[u]
        PROVE  row'[e].status \in {"pending", "processing"}
    <3>1. u # w /\ e \in taken[u] BY <1>2, <2>1
    <3>2. row'[e] = row[e] BY <1>2, <1>5, <1>7, <3>1
    <3> QED BY <3>1, <3>2 DEF QueueInv, TakenStands
  <2>2. \A u, v \in QueueWorkers : u # v => taken'[u] \cap taken'[v] = {}
    BY <1>2 DEF QueueInv, TakenStands
  <2> QED BY <2>1, <2>2 DEF TakenStands
<1>9. ASSUME Undisturbed PROVE Undisturbed'
  <2>1. \A e \in Events : row'[e].lease # "expired" BY <1>5, <1>9 DEF Undisturbed
  <2>2. ASSUME NEW e \in Events, row'[e].status = "processing"
        PROVE  \E u \in QueueWorkers : e \in doing'[u]
    <3>1. CASE e \in taken[w] BY <1>2, <3>1
    <3>2. CASE e \notin taken[w]
      <4>1. PICK u \in QueueWorkers : e \in doing[u] BY <1>5, <1>9, <2>2, <3>2 DEF Undisturbed
      <4> QED BY <1>2, <4>1
    <3> QED BY <3>1, <3>2
  <2>3. ASSUME NEW u \in QueueWorkers, NEW e \in taken'[u] PROVE row'[e].status = "pending"
    <3>1. u # w /\ e \in taken[u] BY <1>2, <2>3
    <3>2. row'[e] = row[e] BY <1>2, <1>5, <1>7, <3>1
    <3> QED BY <1>9, <3>1, <3>2 DEF Undisturbed
  <2>4. ASSUME NEW u \in QueueWorkers, NEW e \in doing'[u]
        PROVE  row'[e].status = "processing" /\ row'[e].worker = u
    <3>1. CASE u = w /\ e \in taken[w] BY <1>2, <1>5, <3>1
    <3>2. CASE ~(u = w /\ e \in taken[w])
      <4>1. e \in doing[u] BY <1>2, <2>4, <3>2
      <4>2. row[e].status = "processing" /\ row[e].worker = u BY <1>9, <4>1 DEF Undisturbed
      <4>3. e \notin taken[w] BY <1>9, <4>2 DEF Undisturbed
      <4> QED BY <1>2, <1>5, <4>1, <4>2, <4>3
    <3> QED BY <3>1, <3>2
  <2> QED BY <1>1, <1>9, <2>1, <2>2, <2>3, <2>4 DEF Undisturbed
<1> QED BY <1>1, <1>6, <1>8, <1>9 DEF QueueInv

LEMMA EventCompleted ==
  ASSUME QueueInv, NEW w \in QueueWorkers, NEW e \in Events, Complete(w, e)
  PROVE  /\ QueueInv'
         /\ \A x \in Events : row[x].status = "succeeded" => row'[x] = row[x]
<1>1. /\ e \in doing[w] /\ ~Locked(e) /\ doing' = [doing EXCEPT ![w] = @ \ {e}]
      /\ UNCHANGED <<taken, form, trouble, forms>>
  BY DEF Complete
<1>2. \A u \in QueueWorkers : /\ doing'[u] = IF u = w THEN doing[w] \ {e} ELSE doing[u]
                              /\ taken[u] \subseteq Events /\ doing[u] \subseteq Events
  BY <1>1 DEF QueueInv, QueueTypes
<1>3. doing' \in [QueueWorkers -> SUBSET Events] BY <1>1 DEF QueueInv, QueueTypes
<1>4. CASE LeaseValid(w, e) /\ \E s \in BOOLEAN : row' = [row EXCEPT ![e] = Reported(@, s)]
  <2>1. PICK s \in BOOLEAN : row' = [row EXCEPT ![e] = Reported(row[e], s)] BY <1>4
  <2> DEFINE x == row[e]
             r == Reported(x, s)
  <2>2. x \in QueueRow BY DEF QueueInv, QueueTypes
  <2> HIDE DEF x
  <2>3. /\ r \in QueueRow /\ r.lease = "none" /\ r.status \in {"succeeded", "dead", "pending"}
    <3>1. \A z \in BOOLEAN :
            /\ Reported(x, z) \in QueueRow /\ Reported(x, z).lease = "none"
            /\ Reported(x, z).status \in {"succeeded", "dead", "pending"}
      BY <2>2, QueueRowsWritten
    <3> QED BY <3>1
  <2>4. row' = [row EXCEPT ![e] = r] BY <2>1 DEF x
  <2> HIDE DEF r
  <2>5. HasLease(r) BY <2>3 DEF HasLease
  <2>6. /\ row' \in [Events -> QueueRow] /\ \A y \in Events : HasLease(row'[y])
        /\ \A y \in Events : row'[y] = IF y = e THEN r ELSE row[y]
    BY <2>3, <2>4, <2>5, QueueRowSet DEF QueueInv
  <2>7. QueueTypes' BY <1>1, <1>3, <2>6 DEF QueueInv, QueueTypes
  <2>8. \A u \in QueueWorkers : e \notin taken[u] BY <1>1 DEF Locked
  <2>9. TakenStands' BY <1>1, <1>2, <2>6, <2>8 DEF QueueInv, TakenStands
  <2>10. row[e].status = "processing" /\ row[e].worker = w BY <1>4 DEF LeaseValid
  <2>11. Undisturbed => Undisturbed'
    <3> SUFFICES ASSUME Undisturbed PROVE Undisturbed' OBVIOUS
    <3>1. \A y \in Events : row'[y].lease # "expired" BY <2>3, <2>6 DEF Undisturbed
    <3>2. \A y \in Events : row'[y].status = "processing" =>
            \E u \in QueueWorkers : y \in doing'[u]
      BY <1>2, <2>3, <2>6 DEF Undisturbed
    <3>3. \A u \in QueueWorkers : \A y \in taken[u] : row'[y].status = "pending"
      BY <1>2, <2>6, <2>8 DEF Undisturbed
    <3>4. ASSUME NEW u \in QueueWorkers, NEW y \in doing'[u]
          PROVE  row'[y].status = "processing" /\ row'[y].worker = u
      <4>1. y \in doing[u] /\ y \in Events BY <1>2, <3>4
      <4>2. y # e
        <5>1. y = e => u = w BY <2>10, <4>1 DEF Undisturbed
        <5> QED BY <1>2, <3>4, <5>1
      <4> QED BY <2>6, <4>1, <4>2 DEF Undisturbed
    <3> QED BY <1>1, <3>1, <3>2, <3>3, <3>4 DEF Undisturbed
  <2>12. \A y \in Events : row[y].status = "succeeded" => row'[y] = row[y] BY <2>6, <2>10
  <2> QED BY <1>1, <2>7, <2>9, <2>11, <2>12 DEF QueueInv
<1>5. CASE ~LeaseValid(w, e) /\ UNCHANGED row
  <2>1. QueueTypes' BY <1>1, <1>3, <1>5 DEF QueueInv, QueueTypes
  <2>2. TakenStands' BY <1>1, <1>5 DEF QueueInv, TakenStands
  <2>3. ~Undisturbed BY <1>1, <1>5 DEF Undisturbed, LeaseValid
  <2> QED BY <1>1, <1>5, <2>1, <2>2, <2>3 DEF QueueInv
<1> QED BY <1>4, <1>5 DEF Complete

LEMMA WorkerDied ==
  ASSUME QueueInv, NEW w \in QueueWorkers, WorkerDies(w)
  PROVE  QueueInv'
<1>1. /\ taken' = [taken EXCEPT ![w] = {}] /\ doing' = [doing EXCEPT ![w] = {}]
      /\ trouble < MaxTrouble /\ trouble' = trouble + 1 /\ UNCHANGED <<row, form, forms>>
  BY DEF WorkerDies
<1>2. trouble' \in 0..MaxTrouble /\ trouble' # 0 BY <1>1, QueueAssumption DEF QueueInv, QueueTypes
<1>3. QueueTypes' BY <1>1, <1>2 DEF QueueInv, QueueTypes
<1>4. \A u \in QueueWorkers : taken'[u] = IF u = w THEN {} ELSE taken[u]
  BY <1>1 DEF QueueInv, QueueTypes
<1>5. TakenStands' BY <1>1, <1>4 DEF QueueInv, TakenStands
<1> QED BY <1>2, <1>3, <1>5 DEF QueueInv

LEMMA FormLoaded ==
  ASSUME QueueInv, NEW p \in Operators, NEW e \in Events, NEW request \in {"retry", "ignore", "edit"},
         Load(p, e, request)
  PROVE  QueueInv'
<1> DEFINE f == [request |-> request, event |-> e, copy |-> row[e]]
<1>1. /\ form' = [form EXCEPT ![p] = f] /\ forms < MaxForms /\ forms' = forms + 1
      /\ UNCHANGED <<row, taken, doing, trouble>>
  BY DEF Load
<1>2. row[e] \in QueueRow /\ HasLease(row[e]) BY DEF QueueInv, QueueTypes
<1>3. f \in FormRow /\ f.copy = row[e] BY <1>2 DEF FormRow
<1> HIDE DEF f
<1>4. forms' \in 0..MaxForms /\ forms' # 0 BY <1>1, QueueAssumption DEF QueueInv, QueueTypes
<1>5. /\ form' \in [Operators -> FormRow \cup {NoForm}]
      /\ \A q \in Operators : form'[q] = IF q = p THEN f ELSE form[q]
  BY <1>1, <1>3 DEF QueueInv, QueueTypes
<1>6. \A q \in Operators : form'[q] # NoForm => HasLease(form'[q].copy)
  BY <1>2, <1>3, <1>5 DEF QueueInv, QueueTypes
<1>7. QueueTypes' BY <1>1, <1>4, <1>5, <1>6 DEF QueueInv, QueueTypes
<1>8. TakenStands' BY <1>1 DEF QueueInv, TakenStands
<1> QED BY <1>4, <1>7, <1>8 DEF QueueInv

\* What a request saves is a row again, and its event is not locked.
LEMMA FormSaved ==
  ASSUME QueueInv, NEW p \in Operators, Save(p)
  PROVE  /\ QueueInv' /\ form[p] # NoForm /\ form'[p] = NoForm
         /\ \A x \in Events : row'[x] # row[x] => form[p].event = x
<1> DEFINE f == form[p]
           c == f.copy
           r == Edited(f)
<1>1. /\ f # NoForm /\ ~Locked(f.event) /\ row' = [row EXCEPT ![f.event] = r]
      /\ form' = [form EXCEPT ![p] = NoForm] /\ UNCHANGED <<taken, doing, trouble, forms>>
  BY DEF Save
<1>2. f \in FormRow /\ HasLease(f.copy) BY <1>1 DEF QueueInv, QueueTypes
<1> HIDE DEF f
<1>3. f.event \in Events /\ c \in QueueRow /\ HasLease(c) /\ f.request \in {"retry", "ignore", "edit"}
  BY <1>2 DEF FormRow
<1>4. r \in QueueRow /\ HasLease(r)
  <2>1. CASE f.request = "edit" BY <1>3, <2>1 DEF Edited
  <2>2. CASE f.request = "ignore"
    <3>1. r = [c EXCEPT !.status = "ignored"] BY <2>2 DEF Edited
    <3> HIDE DEF c, r
    <3>2. r \in QueueRow /\ r.status = "ignored" BY <1>3, <3>1 DEF QueueRow
    <3> QED BY <3>2 DEF HasLease
  <2>3. CASE f.request = "retry"
    <3>1. r = [c EXCEPT !.status = "pending", !.due = TRUE] BY <2>3 DEF Edited
    <3> HIDE DEF c, r
    <3>2. r \in QueueRow /\ r.status = "pending" BY <1>3, <3>1 DEF QueueRow
    <3> QED BY <3>2 DEF HasLease
  <2> QED BY <1>3, <2>1, <2>2, <2>3
<1> DEFINE e == f.event
<1>5. /\ row' \in [Events -> QueueRow] /\ \A y \in Events : HasLease(row'[y])
      /\ \A y \in Events : row'[y] = IF y = e THEN r ELSE row[y]
  <2>1. e \in Events /\ row' = [row EXCEPT ![e] = r] BY <1>1, <1>3
  <2> HIDE DEF e, r
  <2> QED BY <1>4, <2>1, QueueRowSet DEF QueueInv
<1>6. /\ form' \in [Operators -> FormRow \cup {NoForm}]
      /\ \A q \in Operators : form'[q] = IF q = p THEN NoForm ELSE form[q]
  BY <1>1 DEF QueueInv, QueueTypes
<1>7. \A q \in Operators : form'[q] # NoForm => HasLease(form'[q].copy)
  BY <1>6 DEF QueueInv, QueueTypes
<1>8. QueueTypes' BY <1>1, <1>5, <1>6, <1>7 DEF QueueInv, QueueTypes
<1>9. TakenStands'
  <2>1. \A u \in QueueWorkers : e \notin taken[u] /\ taken[u] \subseteq Events
    BY <1>1 DEF Locked, QueueInv, QueueTypes
  <2> QED BY <1>1, <1>5, <2>1 DEF QueueInv, TakenStands
<1>10. ~Undisturbed BY <1>1 DEF Undisturbed, f
<1>11. \A x \in Events : row'[x] # row[x] => e = x BY <1>5
<1> QED BY <1>1, <1>6, <1>8, <1>9, <1>10, <1>11 DEF QueueInv, f

\* What one step may do to a success.
SuccessKept ==
  \A e \in Events :
    row[e].status = "succeeded" /\ row'[e].status # "succeeded" =>
      \E p \in Operators : form[p] # NoForm /\ form[p].event = e /\ form'[p] = NoForm

LEMMA QueueStep ==
  ASSUME QueueInv, [QueueNext]_queueVars
  PROVE  QueueInv' /\ SuccessKept
<1>1. ASSUME NEW e \in Events,
             Enqueue(e) \/ LeaseRunsOut(e) \/ AbandonedLeaseRunsOut(e) \/ BecomesDue(e)
      PROVE  QueueInv' /\ SuccessKept
  <2>1. row \in [Events -> QueueRow] BY DEF QueueInv, QueueTypes
  <2>2. \/ row[e] = Absent /\ row' = [row EXCEPT ![e].status = "pending"]
        \/ row' = [row EXCEPT ![e].lease = "expired"]
        \/ row' = [row EXCEPT ![e].due = TRUE]
    BY <1>1 DEF Enqueue, LeaseRunsOut, AbandonedLeaseRunsOut, BecomesDue
  <2>3. Absent.status = "absent" BY DEF Absent
  <2>4. \A x \in Events : x # e => row'[x] = row[x] BY <2>1, <2>2
  <2>5. row[e].status = "succeeded" => row'[e].status = "succeeded"
    <3> DEFINE r == row[e]
    <3>1. r \in QueueRow BY <2>1
    <3> HIDE DEF r
    <3>2. /\ [r EXCEPT !.lease = "expired"].status = r.status
          /\ [r EXCEPT !.due = TRUE].status = r.status
      BY <3>1, QueueRowsWritten
    <3>3. \/ r.status = "absent"
          \/ row'[e] = [r EXCEPT !.lease = "expired"]
          \/ row'[e] = [r EXCEPT !.due = TRUE]
      BY <2>1, <2>2, <2>3 DEF r
    <3> QED BY <3>2, <3>3 DEF r
  <2> QED BY <1>1, <2>4, <2>5, EventQueued, LeasesRunOut DEF SuccessKept
<1>2. ASSUME NEW w \in QueueWorkers, CommitEvents(w) PROVE QueueInv' /\ SuccessKept
  <2>1. row' = [e \in Events |-> IF e \in taken[w] THEN ClaimedBy(row[e], w) ELSE row[e]]
    BY <1>2 DEF CommitEvents
  <2>2. \A e \in taken[w] : row[e].status # "succeeded" BY DEF QueueInv, TakenStands
  <2>3. \A e \in Events : row[e].status = "succeeded" => row'[e] = row[e] BY <2>1, <2>2
  <2> QED BY <1>2, <2>3, EventsClaimed DEF SuccessKept
<1>3. ASSUME NEW w \in QueueWorkers, SelectDue(w) \/ WorkerDies(w) PROVE QueueInv' /\ SuccessKept
  BY <1>3, EventsSelected, WorkerDied DEF SuccessKept, SelectDue, WorkerDies
<1>4. ASSUME NEW w \in QueueWorkers, NEW e \in Events, Complete(w, e) PROVE QueueInv' /\ SuccessKept
  BY <1>4, EventCompleted DEF SuccessKept
<1>5. ASSUME NEW p \in Operators, Save(p) PROVE QueueInv' /\ SuccessKept
  BY <1>5, FormSaved DEF SuccessKept
<1>6. ASSUME NEW p \in Operators, NEW e \in Events, NEW request \in {"retry", "ignore", "edit"},
             Load(p, e, request)
      PROVE  QueueInv' /\ SuccessKept
  <2>1. QueueInv' BY <1>6, FormLoaded
  <2>2. UNCHANGED row BY <1>6 DEF Load
  <2> QED BY <2>1, <2>2 DEF SuccessKept
<1>7. CASE UNCHANGED queueVars
  <2>1. UNCHANGED <<row, taken, doing, form, trouble, forms>> BY <1>7 DEF queueVars
  <2>2. QueueInv' BY <2>1 DEF QueueInv, QueueTypes, TakenStands, Undisturbed
  <2> QED BY <2>1, <2>2 DEF SuccessKept
<1> QED BY <1>1, <1>2, <1>3, <1>4, <1>5, <1>6, <1>7 DEF QueueNext

\* Two workers are at one event only after a lease ran out, a crash, or an
\* operator's request (claim_events).
THEOREM WorkedOnOnceAlways == QueueSpec => []WorkedOnOnce
BY QueueStart, QueueStep, QueueTell, PTL DEF QueueSpec

\* A reported success stands, but for an operator's request that loaded the event
\* before (complete_event, claim_events).
THEOREM SuccessStands == QueueSpec => OnlyFormsUndoSuccess
<1>1. QueueInv /\ [QueueNext]_queueVars => QueueInv' BY QueueStep
<1>2. QueueInv /\ [QueueNext]_queueVars => [SuccessKept]_queueVars BY QueueStep
<1> QED BY <1>1, <1>2, QueueStart, PTL DEF QueueSpec, OnlyFormsUndoSuccess, SuccessKept
-----------------------------------------------------------------------------
(***************************************************************************)
(* Background tasks.  An execution never counts more attempts than its     *)
(* task was started, although a run saves the count it loaded; a worker    *)
(* that runs is what lets a success be overwritten.                        *)
(***************************************************************************)
RunRow == [phase : {"working"}, message : Messages, key : Keys, attempts : Nat]
ExecutionRow ==
  [status : {"absent", "pending", "processing", "succeeded", "failed", "dead"}, attempts : Nat]

TaskInv ==
  /\ TaskTypeOK
  /\ run \in [TaskWorkers -> RunRow \cup {Idle}]
  /\ \A w \in TaskWorkers : run[w] # Idle => run[w].attempts <= begun[run[w].key]

\* What one step may do to a success.
SuccessFinal ==
  \A k \in Keys :
    execution[k].status = "succeeded" /\ Running(k) = {} /\ k \notin loaded =>
      execution'[k] = execution[k] /\ begun'[k] = begun[k]

LEMMA TaskStart == ASSUME TaskInit PROVE TaskInv
<1>1. /\ execution = [k \in Keys |-> [status |-> "absent", attempts |-> 0]] /\ window = 1
      /\ inbox = [m \in Messages |-> 1] /\ run = [w \in TaskWorkers |-> Idle] /\ loaded = {}
      /\ extra = 0 /\ begun = [k \in Keys |-> 0]
  BY DEF TaskInit
<1>2. TaskTypeOK BY <1>1, TaskAssumption DEF TaskTypeOK
<1> QED BY <1>1, <1>2 DEF TaskInv

LEMMA KeysOfMessages == ASSUME TaskInv, NEW m \in Messages PROVE KeyOf(m) \in Keys
BY DEF TaskInv, TaskTypeOK, KeyOf, Keys, Messages

\* A run: what it needs, whatever it does to the executions.
LEMMA TaskKept ==
  ASSUME TaskInv,
         execution' \in [Keys -> ExecutionRow], window' \in 1..MaxWindow,
         inbox' \in [Messages -> Nat], loaded' \subseteq Keys, extra' \in 0..MaxExtra,
         begun' \in [Keys -> Nat], \A k \in Keys : begun[k] <= begun'[k],
         \A k \in Keys : execution'[k].attempts <= begun'[k],
         run' \in [TaskWorkers -> RunRow \cup {Idle}],
         \A w \in TaskWorkers : run'[w] \in {run[w], Idle}
                                  \/ (run'[w] # Idle => run'[w].attempts <= begun'[run'[w].key])
  PROVE  TaskInv'
<1>1. TaskTypeOK' BY DEF TaskTypeOK, ExecutionRow
<1>2. ASSUME NEW w \in TaskWorkers, run'[w] # Idle PROVE run'[w].attempts <= begun'[run'[w].key]
  <2>1. CASE run'[w] = run[w]
    <3>1. run[w].attempts <= begun[run[w].key] BY <1>2, <2>1 DEF TaskInv
    <3>2. run[w].key \in Keys /\ run[w].attempts \in Nat BY <1>2, <2>1 DEF RunRow
    <3>3. begun[run[w].key] \in Nat /\ begun'[run[w].key] \in Nat
      BY <3>2 DEF TaskInv, TaskTypeOK
    <3>4. begun[run[w].key] <= begun'[run[w].key] BY <3>2
    <3> QED BY <2>1, <3>1, <3>2, <3>3, <3>4
  <2> QED BY <1>2, <2>1
<1> QED BY <1>1, <1>2 DEF TaskInv

LEMMA RunBegun ==
  ASSUME TaskInv, NEW w \in TaskWorkers, NEW m \in Messages, Begin(w, m)
  PROVE  TaskInv' /\ SuccessFinal
<1> DEFINE k == KeyOf(m)
<1>1. /\ inbox[m] > 0 /\ inbox' = [inbox EXCEPT ![m] = @ - 1] /\ UNCHANGED <<window, loaded, extra>>
  BY DEF Begin
<1>2. k \in Keys BY KeysOfMessages
<1>3. inbox' \in [Messages -> Nat] BY <1>1 DEF TaskInv, TaskTypeOK
<1>4. /\ execution \in [Keys -> ExecutionRow] /\ begun \in [Keys -> Nat]
      /\ \A x \in Keys : execution[x].attempts <= begun[x]
      /\ window \in 1..MaxWindow /\ loaded \subseteq Keys /\ extra \in 0..MaxExtra
      /\ run \in [TaskWorkers -> RunRow \cup {Idle}]
  BY DEF TaskInv, TaskTypeOK, ExecutionRow
<1>5. \A x \in Keys : begun[x] \in Nat BY <1>4
<1>6. CASE AlreadyDone(k) /\ UNCHANGED <<execution, run, begun>>
  <2>1. TaskInv' BY <1>1, <1>3, <1>4, <1>5, <1>6, TaskKept
  <2> QED BY <1>6, <2>1 DEF SuccessFinal
<1>7. CASE ~AlreadyDone(k)
  <2> DEFINE n == execution[k].attempts
             r == [status |-> "processing", attempts |-> n + 1]
             s == [phase |-> "working", message |-> m, key |-> k, attempts |-> n + 1]
  <2>1. /\ execution' = [execution EXCEPT ![k] = r] /\ run' = [run EXCEPT ![w] = s]
        /\ begun' = [begun EXCEPT ![k] = @ + 1]
    BY <1>7 DEF Begin
  <2>2. n \in Nat /\ n <= begun[k] /\ begun[k] \in Nat BY <1>2, <1>4 DEF ExecutionRow
  <2>3. r \in ExecutionRow /\ r.attempts = n + 1 BY <2>2 DEF ExecutionRow
  <2>4. s \in RunRow /\ s.attempts = n + 1 /\ s.key = k BY <1>2, <2>2 DEF RunRow
  <2> HIDE DEF k, n, r, s
  <2>5. /\ execution' \in [Keys -> ExecutionRow]
        /\ \A x \in Keys : execution'[x] = IF x = k THEN r ELSE execution[x]
    BY <1>4, <2>1, <2>3
  <2>6. /\ begun' \in [Keys -> Nat]
        /\ \A x \in Keys : begun'[x] = IF x = k THEN begun[k] + 1 ELSE begun[x]
    BY <1>2, <1>4, <2>1, <2>2
  <2>7. /\ run' \in [TaskWorkers -> RunRow \cup {Idle}]
        /\ \A u \in TaskWorkers : run'[u] = IF u = w THEN s ELSE run[u]
    BY <1>4, <2>1, <2>4
  <2>8. \A x \in Keys : begun[x] <= begun'[x] BY <1>5, <2>2, <2>6
  <2>9. \A x \in Keys : execution'[x].attempts <= begun'[x]
    <3> TAKE x \in Keys
    <3>1. CASE x = k BY <1>2, <2>2, <2>3, <2>5, <2>6, <3>1
    <3>2. CASE x # k BY <1>4, <2>5, <2>6, <3>2
    <3> QED BY <3>1, <3>2
  <2>10. \A u \in TaskWorkers : run'[u] \in {run[u], Idle}
                                 \/ (run'[u] # Idle => run'[u].attempts <= begun'[run'[u].key])
    BY <1>2, <2>2, <2>4, <2>6, <2>7
  <2>11. TaskInv' BY <1>1, <1>3, <1>4, <2>5, <2>6, <2>7, <2>8, <2>9, <2>10, TaskKept
  <2>12. execution[k].status # "succeeded" BY <1>7 DEF AlreadyDone
  <2> QED BY <2>5, <2>6, <2>11, <2>12 DEF SuccessFinal
<1> QED BY <1>6, <1>7 DEF Begin

LEMMA RunFinished ==
  ASSUME TaskInv, NEW w \in TaskWorkers, Finish(w)
  PROVE  TaskInv' /\ SuccessFinal
<1>1. /\ run[w] # Idle /\ run' = [run EXCEPT ![w] = Idle]
      /\ UNCHANGED <<window, inbox, loaded, extra, begun>>
  BY DEF Finish
<1> DEFINE k == run[w].key
           n == run[w].attempts
<1>2. run[w] \in RunRow /\ n <= begun[k] BY <1>1 DEF TaskInv
<1>3. k \in Keys /\ n \in Nat BY <1>2 DEF RunRow
<1>4. PICK failed \in BOOLEAN : execution' = [execution EXCEPT ![k] = Saved(n, failed)]
  BY DEF Finish
<1> DEFINE r == Saved(n, failed)
<1>5. r \in ExecutionRow /\ r.attempts = n
  <2> HIDE DEF n
  <2> QED BY <1>3 DEF Saved, ExecutionRow
<1>6. w \in Running(k) BY <1>1 DEF Running
<1> HIDE DEF r, k, n
<1>7. /\ execution \in [Keys -> ExecutionRow] /\ begun \in [Keys -> Nat]
      /\ \A x \in Keys : execution[x].attempts <= begun[x]
      /\ window \in 1..MaxWindow /\ loaded \subseteq Keys /\ extra \in 0..MaxExtra
      /\ inbox \in [Messages -> Nat] /\ run \in [TaskWorkers -> RunRow \cup {Idle}]
  BY DEF TaskInv, TaskTypeOK, ExecutionRow
<1>8. /\ execution' \in [Keys -> ExecutionRow]
      /\ \A x \in Keys : execution'[x] = IF x = k THEN r ELSE execution[x]
  BY <1>4, <1>5, <1>7 DEF r
<1>9. \A x \in Keys : execution'[x].attempts <= begun'[x] BY <1>1, <1>2, <1>5, <1>7, <1>8
<1>10. /\ run' \in [TaskWorkers -> RunRow \cup {Idle}]
       /\ \A u \in TaskWorkers : run'[u] \in {run[u], Idle}
  BY <1>1, <1>7
<1>11. \A x \in Keys : begun[x] <= begun'[x] BY <1>1, <1>7
<1>12. TaskInv' BY <1>1, <1>7, <1>8, <1>9, <1>10, <1>11, TaskKept
<1> QED BY <1>1, <1>6, <1>8, <1>12 DEF SuccessFinal

\* The steps that leave every execution alone, but for a retry.
LEMMA TaskMoved ==
  ASSUME TaskInv, execution' \in [Keys -> ExecutionRow],
         \A k \in Keys : execution'[k].attempts = execution[k].attempts,
         \A k \in Keys \ loaded : execution'[k] = execution[k],
         window' \in 1..MaxWindow, inbox' \in [Messages -> Nat], loaded' \subseteq Keys,
         extra' \in 0..MaxExtra, UNCHANGED begun, run' \in [TaskWorkers -> RunRow \cup {Idle}],
         \A w \in TaskWorkers : run'[w] \in {run[w], Idle}
  PROVE  TaskInv' /\ SuccessFinal
<1>1. begun' \in [Keys -> Nat] /\ \A k \in Keys : begun[k] <= begun'[k]
  BY DEF TaskInv, TaskTypeOK
<1>2. \A k \in Keys : execution'[k].attempts <= begun'[k] BY DEF TaskInv, TaskTypeOK
<1>3. TaskInv' BY <1>1, <1>2, TaskKept
<1>4. SuccessFinal BY DEF SuccessFinal
<1> QED BY <1>3, <1>4

LEMMA TaskStep ==
  ASSUME TaskInv, [TaskNext]_taskVars
  PROVE  TaskInv' /\ SuccessFinal
<1>1. /\ execution \in [Keys -> ExecutionRow] /\ window \in 1..MaxWindow
      /\ inbox \in [Messages -> Nat] /\ loaded \subseteq Keys /\ extra \in 0..MaxExtra
      /\ run \in [TaskWorkers -> RunRow \cup {Idle}] /\ Scheduled \in Messages
      /\ MaxWindow \in Nat /\ MaxExtra \in Nat
  BY TaskAssumption DEF TaskInv, TaskTypeOK, ExecutionRow, Messages
<1>2. ASSUME Tick PROVE TaskInv' /\ SuccessFinal
  <2>1. /\ window < MaxWindow /\ window' = window + 1 /\ inbox' = [inbox EXCEPT ![Scheduled] = @ + 1]
        /\ UNCHANGED <<execution, run, loaded, extra, begun>>
    BY <1>2 DEF Tick
  <2>2. window' \in 1..MaxWindow /\ inbox' \in [Messages -> Nat] BY <1>1, <2>1
  <2> QED BY <1>1, <2>1, <2>2, TaskMoved
<1>3. ASSUME NEW w \in TaskWorkers, LoseWorker(w) \/ Redeliver(w) PROVE TaskInv' /\ SuccessFinal
  <2>1. /\ run[w] # Idle /\ extra < MaxExtra /\ extra' = extra + 1
        /\ inbox' = [inbox EXCEPT ![run[w].message] = @ + 1]
        /\ run' = [run EXCEPT ![w] = Idle] \/ run' = run
        /\ UNCHANGED <<execution, window, loaded, begun>>
    BY <1>3 DEF LoseWorker, Redeliver
  <2>2. run[w].message \in Messages BY <1>1, <2>1 DEF RunRow
  <2>3. inbox' \in [Messages -> Nat] /\ extra' \in 0..MaxExtra BY <1>1, <2>1, <2>2
  <2>4. /\ run' \in [TaskWorkers -> RunRow \cup {Idle}]
        /\ \A u \in TaskWorkers : run'[u] \in {run[u], Idle}
    BY <1>1, <2>1
  <2> QED BY <1>1, <2>1, <2>3, <2>4, TaskMoved
<1>4. ASSUME NEW k \in Keys, LoadRetry(k) PROVE TaskInv' /\ SuccessFinal
  <2>1. /\ extra < MaxExtra /\ extra' = extra + 1 /\ loaded' = loaded \cup {k}
        /\ UNCHANGED <<execution, window, inbox, run, begun>>
    BY <1>4 DEF LoadRetry
  <2>2. extra' \in 0..MaxExtra /\ loaded' \subseteq Keys BY <1>1, <2>1
  <2> QED BY <1>1, <2>1, <2>2, TaskMoved
<1>5. ASSUME NEW k \in Keys, Retry(k) PROVE TaskInv' /\ SuccessFinal
  <2> DEFINE x == execution[k]
             r == [x EXCEPT !.status = "pending"]
  <2>1. /\ k \in loaded /\ execution' = [execution EXCEPT ![k] = r] /\ loaded' = loaded \ {k}
        /\ inbox' = inbox \/ inbox' = [inbox EXCEPT ![Scheduled] = @ + 1]
        /\ UNCHANGED <<window, run, extra, begun>>
    BY <1>5 DEF Retry
  <2>2. x \in ExecutionRow BY <1>1
  <2> HIDE DEF x
  <2>3. r \in ExecutionRow /\ r.attempts = x.attempts BY <2>2 DEF ExecutionRow
  <2> HIDE DEF r
  <2>4. /\ execution' \in [Keys -> ExecutionRow]
        /\ \A y \in Keys : execution'[y].attempts = execution[y].attempts
        /\ \A y \in Keys \ loaded : execution'[y] = execution[y]
    BY <1>1, <2>1, <2>3 DEF x
  <2>5. inbox' \in [Messages -> Nat] /\ loaded' \subseteq Keys BY <1>1, <2>1
  <2> QED BY <1>1, <2>1, <2>4, <2>5, TaskMoved
<1>6. CASE UNCHANGED taskVars
  <2>1. UNCHANGED <<execution, window, inbox, run, loaded, extra, begun>> BY <1>6 DEF taskVars
  <2> QED BY <1>1, <2>1, TaskMoved
<1> QED BY <1>2, <1>3, <1>4, <1>5, <1>6, RunBegun, RunFinished DEF TaskNext

\* A success is overwritten only by a run that began before, or a retry that read
\* the execution before, and no execution counts more attempts than starts
\* (recorded_task).
THEOREM SuccessOutlives == TaskSpec => SuccessOutlivesItsRuns
<1>1. TaskInv /\ [TaskNext]_taskVars => TaskInv' BY TaskStep
<1>2. TaskInv /\ [TaskNext]_taskVars => [SuccessFinal]_taskVars BY TaskStep
<1>3. TaskInv => TaskTypeOK BY DEF TaskInv
<1> QED BY <1>1, <1>2, <1>3, TaskStart, PTL DEF TaskSpec, SuccessOutlivesItsRuns, SuccessFinal
=============================================================================
