-------------------------- MODULE IntegrationQueue --------------------------
(***************************************************************************)
(* The queue of events exchanged with external platforms: enqueue_event,   *)
(* claim_events and complete_event of integrations/services.py, and the    *)
(* operators' retry, ignore and edit requests of integrations/api.py.      *)
(*                                                                         *)
(* The services lock the row they change.  The operators' requests do not: *)
(* they load an event, change it in memory and save every column of it, so *)
(* each is a read and, later, a write.                                     *)
(***************************************************************************)
EXTENDS Integers, FiniteSets

CONSTANTS
  Events,        \* idempotency keys of one account and direction
  QueueWorkers,       \* worker ids
  Operators,     \* users who resolve errors
  MaxAttempts,   \* max_attempts of an event
  MaxTrouble,    \* bound: workers that crash or outlive their lease
  MaxForms       \* bound: operators' requests

ASSUME QueueAssumption ==
  MaxAttempts \in Nat \ {0} /\ MaxTrouble \in Nat /\ MaxForms \in Nat

VARIABLES
  row,           \* int_event, by key
  taken,         \* rows locked by a worker's open claim
  doing,         \* events a worker has claimed and not yet reported on
  form,          \* the event an operator's request has loaded
  trouble, forms

queueVars == <<row, taken, doing, form, trouble, forms>>

Absent == [status |-> "absent", attempts |-> 0, worker |-> "nobody", lease |-> "none",
           due |-> TRUE]
NoForm == [request |-> "none"]

QueueInit ==
  /\ row = [e \in Events |-> Absent]
  /\ taken = [w \in QueueWorkers |-> {}]
  /\ doing = [w \in QueueWorkers |-> {}]
  /\ form = [p \in Operators |-> NoForm]
  /\ trouble = 0
  /\ forms = 0

\* enqueue_event: a key that is there already is answered with its row.
Enqueue(e) ==
  /\ row[e] = Absent
  /\ row' = [row EXCEPT ![e].status = "pending"]
  /\ UNCHANGED <<taken, doing, form, trouble, forms>>

Locked(e) == \E w \in QueueWorkers : e \in taken[w]

\* The filter of claim_events; the faults forget expired leases or the locks of
\* other claims.
ClaimableEvent_PendingOnly(e) == row[e].status = "pending" /\ row[e].due /\ ~Locked(e)
ClaimableEvent_Unlocked(e) ==
  /\ row[e].status = "pending" \/ (row[e].status = "processing" /\ row[e].lease = "expired")
  /\ row[e].due
ClaimableEvent(e) ==
  /\ row[e].status = "pending" \/ (row[e].status = "processing" /\ row[e].lease = "expired")
  /\ row[e].due
  /\ ~Locked(e)

\* claim_events selects and locks what is due: a batch is larger than the queue.
SelectDue(w) ==
  /\ taken[w] = {}
  /\ \E e \in Events : ClaimableEvent(e)
  /\ taken' = [taken EXCEPT ![w] = {e \in Events : ClaimableEvent(e)}]
  /\ UNCHANGED <<row, doing, form, trouble, forms>>

\* The row a claim writes.
ClaimedBy(r, w) ==
  [r EXCEPT !.status = "processing", !.worker = w, !.lease = "live", !.attempts = @ + 1]

CommitEvents(w) ==
  /\ taken[w] # {}
  /\ row' = [e \in Events |-> IF e \in taken[w] THEN ClaimedBy(row[e], w) ELSE row[e]]
  /\ doing' = [doing EXCEPT ![w] = @ \cup taken[w]]
  /\ taken' = [taken EXCEPT ![w] = {}]
  /\ UNCHANGED <<form, trouble, forms>>

\* Who may report on an event; the fault takes anybody's word.
LeaseValid_Anyone(w, e) == TRUE
LeaseValid(w, e) == row[e].status = "processing" /\ row[e].worker = w

\* What a report makes of a row.
Reported(r, succeeded) ==
  [r EXCEPT !.status = IF succeeded THEN "succeeded"
                       ELSE IF r.attempts >= MaxAttempts THEN "dead" ELSE "pending",
            !.due = succeeded \/ r.attempts >= MaxAttempts,
            !.lease = "none", !.worker = "nobody"]

\* complete_event: without a valid lease it raises and changes nothing.
Complete(w, e) ==
  /\ e \in doing[w]
  /\ ~Locked(e)
  /\ doing' = [doing EXCEPT ![w] = @ \ {e}]
  /\ \/ /\ LeaseValid(w, e)
        /\ \E succeeded \in BOOLEAN : row' = [row EXCEPT ![e] = Reported(@, succeeded)]
     \/ ~LeaseValid(w, e) /\ UNCHANGED row
  /\ UNCHANGED <<taken, form, trouble, forms>>

WorkerDies(w) ==
  /\ trouble < MaxTrouble
  /\ taken[w] \cup doing[w] # {}
  /\ taken' = [taken EXCEPT ![w] = {}]
  /\ doing' = [doing EXCEPT ![w] = {}]
  /\ trouble' = trouble + 1
  /\ UNCHANGED <<row, form, forms>>

HasWorker(e) == \E w \in QueueWorkers : e \in doing[w] /\ row[e].worker = w

\* A lease runs out under the worker that holds it, or after nobody does.
LeaseRunsOut(e) ==
  /\ row[e].status = "processing" /\ row[e].lease = "live" /\ HasWorker(e)
  /\ trouble < MaxTrouble
  /\ row' = [row EXCEPT ![e].lease = "expired"]
  /\ trouble' = trouble + 1
  /\ UNCHANGED <<taken, doing, form, forms>>

AbandonedLeaseRunsOut(e) ==
  /\ row[e].status = "processing" /\ row[e].lease = "live" /\ ~HasWorker(e)
  /\ row' = [row EXCEPT ![e].lease = "expired"]
  /\ UNCHANGED <<taken, doing, form, trouble, forms>>

\* The back-off of a failed attempt passes.
BecomesDue(e) ==
  /\ ~row[e].due
  /\ row' = [row EXCEPT ![e].due = TRUE]
  /\ UNCHANGED <<taken, doing, form, trouble, forms>>

\* An operator's request loads an event; only a retry looks at its status.
Load(p, e, request) ==
  /\ form[p] = NoForm /\ forms < MaxForms
  /\ row[e] # Absent
  /\ request = "retry" => row[e].status \in {"failed", "dead"}
  /\ form' = [form EXCEPT ![p] = [request |-> request, event |-> e, copy |-> row[e]]]
  /\ forms' = forms + 1
  /\ UNCHANGED <<row, taken, doing, trouble>>

\* What the request saves over the whole row: the event as it was loaded, but for
\* the columns the request is about.
Edited(f) ==
  CASE f.request = "retry"  -> [f.copy EXCEPT !.status = "pending", !.due = TRUE]
    [] f.request = "ignore" -> [f.copy EXCEPT !.status = "ignored"]
    [] f.request = "edit"   -> f.copy

Save(p) ==
  /\ form[p] # NoForm
  /\ ~Locked(form[p].event)
  /\ row' = [row EXCEPT ![form[p].event] = Edited(form[p])]
  /\ form' = [form EXCEPT ![p] = NoForm]
  /\ UNCHANGED <<taken, doing, trouble, forms>>

QueueNext ==
  \/ \E e \in Events :
       Enqueue(e) \/ LeaseRunsOut(e) \/ AbandonedLeaseRunsOut(e) \/ BecomesDue(e)
  \/ \E w \in QueueWorkers :
       SelectDue(w) \/ CommitEvents(w) \/ WorkerDies(w) \/ \E e \in Events : Complete(w, e)
  \/ \E p \in Operators :
       Save(p) \/ \E e \in Events, request \in {"retry", "ignore", "edit"} : Load(p, e, request)

\* QueueWorkers poll and report, and time passes.
QueueFairness ==
  /\ \A w \in QueueWorkers :
       /\ WF_queueVars(SelectDue(w)) /\ WF_queueVars(CommitEvents(w))
       /\ \A e \in Events : WF_queueVars(Complete(w, e))
  /\ \A e \in Events : WF_queueVars(AbandonedLeaseRunsOut(e)) /\ WF_queueVars(BecomesDue(e))

QueueSpec == QueueInit /\ [][QueueNext]_queueVars /\ QueueFairness
-----------------------------------------------------------------------------
QueueRow == [status : {"absent", "pending", "processing", "succeeded", "dead", "ignored"},
         attempts : Nat, worker : QueueWorkers \cup {"nobody"},
         lease : {"none", "live", "expired"}, due : BOOLEAN]

QueueTypeOK ==
  /\ row \in [Events -> QueueRow]
  /\ taken \in [QueueWorkers -> SUBSET Events] /\ doing \in [QueueWorkers -> SUBSET Events]
  /\ trouble \in 0..MaxTrouble /\ forms \in 0..MaxForms
  /\ \A p \in Operators : form[p] # NoForm => form[p].copy \in QueueRow
  /\ \A e \in Events : (row[e].status = "processing") => (row[e].lease # "none")

\* Two workers are at one event only after a lease ran out, a crash, or an
\* operator's request: claims skip each other's rows (claim_events).
WorkedOnOnce ==
  /\ QueueTypeOK
  /\ \A e \in Events :
       trouble = 0 /\ forms = 0 => Cardinality({w \in QueueWorkers : e \in doing[w] \cup taken[w]}) <= 1

\* A reported success stands: no late worker and no repeated claim undoes it,
\* only an operator's request that loaded the event before.
OnlyFormsUndoSuccess ==
  [][\A e \in Events :
       row[e].status = "succeeded" /\ row'[e].status # "succeeded" =>
         \E p \in Operators : form[p] # NoForm /\ form[p].event = e /\ form'[p] = NoForm]_queueVars

\* Every event that is queued is settled in the end, whatever crashed on the way.
EventsAreSettled ==
  \A e \in Events :
    row[e].status \in {"pending", "processing"}
      ~> row[e].status \in {"succeeded", "dead", "ignored"}
=============================================================================
