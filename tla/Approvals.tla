------------------------------ MODULE Approvals ------------------------------
(***************************************************************************)
(* Approvals: an instance of a definition goes through its nodes in order, *)
(* with tasks for the approvers of each (workflow/services.py).            *)
(*                                                                         *)
(* Deciding and transferring are transactions of several locks, so each is *)
(* a session with a phase.  What a session writes is applied at its commit *)
(* ("others do not see it before").  decide_task locks the task first,     *)
(* then the instance, and cancels other tasks one row after the other;     *)
(* transfer_task locks the task alone, but the row it inserts refers to    *)
(* the instance, which PostgreSQL checks at the commit under a share of    *)
(* the instance's lock (the constraint is deferred).  PostgreSQL aborts a  *)
(* session that waits in a circle; no caller tries again.                  *)
(*                                                                         *)
(* decide_task also locks the company and the node with the task.  That    *)
(* makes decisions of different instances wait for each other and nothing  *)
(* else, so it is left out; so are notifications and outbox events.        *)
(***************************************************************************)
EXTENDS Integers, SequencesExt

CONSTANTS
  Instances,     \* idempotency keys of start_approval
  Applicant,     \* of an instance
  Nodes,         \* the definition: [mode, user, role] in order of step_no
  RoleMembers,   \* the users of a role at first
  Users, Deputies,   \* users, and bound: those a task is transferred to
  Workers,       \* requests at a time
  MaxRequests, MaxLeaves,   \* bounds
  Nobody         \* no user, no role, no session

ASSUME ApprovalsAssumption ==
  /\ Nodes \in Seq([mode : {"all", "any"}, user : Users \cup {Nobody}, role : DOMAIN RoleMembers])
  /\ Nodes # <<>>
  /\ RoleMembers \in [DOMAIN RoleMembers -> SUBSET Users] /\ IsFiniteSet(Users)
  /\ Applicant \in [Instances -> Users] /\ Deputies \subseteq Users

VARIABLES
  members,       \* users whose assignment of a role is valid
  instance,      \* wf_approval_instance: [status, step]
  task,          \* wf_approval_task: [instance, node, assignee, status, by]
  session,       \* the transaction of a worker, or Nobody
  requests, leaves   \* bounds: requests, and lost roles

approvalVars == <<members, instance, task, session, requests, leaves>>

InstanceRow == [status : {"none", "pending", "approved", "rejected"}, step : 0..Len(Nodes)]
ApprovalTaskRow == [instance : Instances, node : DOMAIN Nodes, assignee : Users \cup {Nobody},
  status : {"pending", "approved", "rejected", "transferred", "cancelled"}, by : Users \cup {Nobody}]

ApprovalsInit ==
  /\ members = RoleMembers
  /\ instance = [i \in Instances |-> [status |-> "none", step |-> 0]]
  /\ task = <<>> /\ session = [w \in Workers |-> Nobody] /\ requests = 0 /\ leaves = 0
-----------------------------------------------------------------------------
\* _create_tasks: one task for the node's user or for each member of its role;
\* one task for the role itself where any member will do.
Asked(n) ==
  IF Nodes[n].user # Nobody THEN {Nodes[n].user}
  ELSE IF Nodes[n].mode = "all" THEN members[Nodes[n].role] ELSE {Nobody}
NewTasks(i, n) ==
  SetToSeq({[instance |-> i, node |-> n, assignee |-> u, status |-> "pending", by |-> Nobody] :
              u \in Asked(n)})

\* start_approval; a key that is known returns its instance.
Start(i) ==
  /\ instance[i].status = "none" /\ Asked(1) # {}
  /\ instance' = [instance EXCEPT ![i] = [status |-> "pending", step |-> 1]]
  /\ task' = task \o NewTasks(i, 1)
  /\ UNCHANGED <<members, session, requests, leaves>>

\* An assignment of a role ends (UserRole.expires_at).
Leave(r, u) ==
  /\ leaves < MaxLeaves /\ u \in members[r]
  /\ members' = [members EXCEPT ![r] = @ \ {u}] /\ leaves' = leaves + 1
  /\ UNCHANGED <<instance, task, session, requests>>

\* _can_process.
CanProcess(t, u) ==
  IF task[t].assignee # Nobody THEN task[t].assignee = u
  ELSE u \in members[Nodes[task[t].node].role]
-----------------------------------------------------------------------------
\* A request for a task the user is shown.
Begin(w, t, u, op, target) ==
  /\ session[w] = Nobody /\ requests < MaxRequests /\ CanProcess(t, u)
  /\ session' = [session EXCEPT ![w] = [op |-> op, task |-> t, actor |-> u, target |-> target,
       phase |-> "task", tasks |-> {}, left |-> {}, last |-> FALSE]]
  /\ requests' = requests + 1
  /\ UNCHANGED <<members, instance, task, leaves>>

Works(w) == session[w] # Nobody
Of(w) == task[session[w].task].instance
TaskFree(t) == \A v \in Workers : Works(v) => t \notin session[v].tasks

\* Only a decision past its second lock holds the instance.
InstanceFree(i) == \A v \in Workers : Works(v) /\ Of(v) = i => session[v].phase # "cancel"

\* The transaction of w is over, without or with what it wrote.
End(w) == session' = [session EXCEPT ![w] = Nobody] /\ UNCHANGED <<members, requests, leaves>>
Refuse(w) == End(w) /\ UNCHANGED <<instance, task>>
Go(w, changes) ==
  /\ session' = [session EXCEPT ![w] = changes]
  /\ UNCHANGED <<members, instance, task, requests, leaves>>

\* The first lock of both; transfer_task decides on the task alone.
LockTask(w) ==
  LET s == session[w] IN
  /\ s.phase = "task" /\ TaskFree(s.task)
  /\ IF s.op = "transfer" /\ (~CanProcess(s.task, s.actor) \/ task[s.task].status # "pending")
     THEN Refuse(w)
     ELSE Go(w, [s EXCEPT !.phase = "instance", !.tasks = {s.task}])

PendingOf(i) == {t \in DOMAIN task : task[t].instance = i /\ task[t].status = "pending"}
AtNode(T, n) == {t \in T : task[t].node = n}

MayDecide(s) ==
  /\ task[s.task].status = "pending" /\ instance[task[s.task].instance].status = "pending"
  /\ CanProcess(s.task, s.actor) /\ Applicant[task[s.task].instance] # s.actor

\* Whether the approval completes its node, and which tasks the decision
\* cancels: all of the instance, or what is open of the node.  Faults: the first
\* approval is enough; a rejection leaves the other tasks as they are.
CompletesNode_Any(s, others) == s.op = "approved"
CompletesNode(s, others) ==
  s.op = "approved" /\ (Nodes[task[s.task].node].mode = "all" => AtNode(others, task[s.task].node) = {})
ToCancel_None(s, others) ==
  IF CompletesNode(s, others) THEN AtNode(others, task[s.task].node) ELSE {}
ToCancel(s, others) ==
  IF s.op = "rejected" THEN others
  ELSE IF CompletesNode(s, others) THEN AtNode(others, task[s.task].node) ELSE {}

LockInstance(w) ==
  LET s == session[w]
      others == PendingOf(Of(w)) \ {s.task}
  IN
  /\ s.phase = "instance" /\ s.op # "transfer" /\ InstanceFree(Of(w))
  /\ IF MayDecide(s)
     THEN Go(w, [s EXCEPT !.phase = "cancel", !.left = ToCancel(s, others),
                          !.last = CompletesNode(s, others)])
     ELSE Refuse(w)

LockOther(w, t) ==
  LET s == session[w] IN
  /\ s.phase = "cancel" /\ t \in s.left /\ TaskFree(t)
  /\ Go(w, [s EXCEPT !.tasks = @ \cup {t}, !.left = @ \ {t}])

\* The end of decide_task.  A next node that nobody can be asked for refuses
\* the decision.
Decided(s) ==
  [t \in DOMAIN task |->
     IF t = s.task THEN [task[t] EXCEPT !.status = s.op, !.by = s.actor]
     ELSE IF t \in s.tasks /\ task[t].status = "pending" THEN [task[t] EXCEPT !.status = "cancelled"]
     ELSE task[t]]
Decide(w) ==
  LET s == session[w]
      n == task[s.task].node
      i == Of(w)
  IN
  /\ s.phase = "cancel" /\ s.left = {}
  /\ CASE s.op = "rejected" -> /\ instance' = [instance EXCEPT ![i].status = "rejected"]
                               /\ task' = Decided(s) /\ End(w)
       [] s.op = "approved" /\ ~s.last -> task' = Decided(s) /\ End(w) /\ UNCHANGED instance
       [] s.op = "approved" /\ s.last /\ n = Len(Nodes) ->
            /\ instance' = [instance EXCEPT ![i].status = "approved"]
            /\ task' = Decided(s) /\ End(w)
       [] OTHER -> IF Asked(n + 1) = {} THEN Refuse(w)
                   ELSE /\ instance' = [instance EXCEPT ![i].step = n + 1]
                        /\ task' = Decided(s) \o NewTasks(i, n + 1) /\ End(w)

\* The commit of transfer_task.
Transfer(w) ==
  LET s == session[w] IN
  /\ s.phase = "instance" /\ s.op = "transfer" /\ InstanceFree(Of(w))
  /\ task' = Append([task EXCEPT ![s.task].status = "transferred", ![s.task].by = s.actor],
                    [task[s.task] EXCEPT !.assignee = s.target])
  /\ End(w) /\ UNCHANGED instance

\* w waits for a lock that v holds.
WaitsFor(w, v) ==
  /\ w # v /\ Works(w) /\ Works(v)
  /\ \/ session[w].phase = "task" /\ session[w].task \in session[v].tasks
     \/ session[w].phase = "instance" /\ Of(v) = Of(w) /\ session[v].phase = "cancel"
     \/ session[w].phase = "cancel" /\ session[w].left \cap session[v].tasks # {}

\* The database ends one of a circle.  An instance has one holder, and every
\* circle goes through it, so that a circle is of two.
Abort(w) == (\E v \in Workers : WaitsFor(w, v) /\ WaitsFor(v, w)) /\ Refuse(w)

Proceed(w) ==
  /\ Works(w)
  /\ LockTask(w) \/ LockInstance(w) \/ Decide(w) \/ Transfer(w) \/ Abort(w)
       \/ \E t \in session[w].left : LockOther(w, t)

ApprovalsNext ==
  \/ \E i \in Instances : Start(i)
  \/ \E r \in DOMAIN members, u \in Users : Leave(r, u)
  \/ \E w \in Workers, t \in DOMAIN task, u \in Users :
       \/ \E op \in {"approved", "rejected"} : Begin(w, t, u, op, u)
       \/ \E target \in Deputies : Begin(w, t, u, "transfer", target)
  \/ \E w \in Workers : Proceed(w)

ApprovalsSpec == ApprovalsInit /\ [][ApprovalsNext]_approvalVars
-----------------------------------------------------------------------------
ApprovalsTypeOK ==
  /\ instance \in [Instances -> InstanceRow]
  /\ \A t \in DOMAIN task : task[t] \in ApprovalTaskRow
  /\ \A w \in Workers : Works(w) => session[w].tasks \subseteq DOMAIN task

TasksOf(i, n, status) == {t \in DOMAIN task :
  task[t].instance = i /\ task[t].node = n /\ task[t].status = status}

\* An instance that waits for a decision has a task somebody can decide on: two
\* last approvals of a node that overlap do not leave it open for ever.
PendingHasWork ==
  \A i \in Instances : instance[i].status = "pending" =>
    TasksOf(i, instance[i].step, "pending") # {}

\* An instance is approved when every node was, in order: by one where one is
\* enough, by everybody who was asked where all are; nobody rejected it, the
\* applicant decided nothing, an instance that is decided has no open task and one
\* that waits has some,
\* whatever transfers and decisions overlapped (decide_task, transfer_task).
ApprovalsAreComplete ==
  /\ ApprovalsTypeOK /\ PendingHasWork
  /\ \A i \in Instances :
       /\ \A n \in DOMAIN Nodes :
            IF instance[i].status = "approved" \/ n < instance[i].step
            THEN /\ TasksOf(i, n, "pending") = {} /\ TasksOf(i, n, "rejected") = {}
                 /\ IF Nodes[n].mode = "all"
                    THEN TasksOf(i, n, "cancelled") = {} /\ TasksOf(i, n, "approved") # {}
                    ELSE Cardinality(TasksOf(i, n, "approved")) = 1
            ELSE n > instance[i].step => \A t \in DOMAIN task : task[t].node # n \/ task[t].instance # i
       /\ instance[i].status \in {"approved", "rejected"} => PendingOf(i) = {}
       /\ \A t \in DOMAIN task : task[t].instance = i /\ task[t].status \in {"approved", "rejected"} =>
            task[t].by # Applicant[i] /\ (task[t].status = "rejected" => instance[i].status = "rejected")

\* Only a rejection collides: approvals and transfers, however they overlap,
\* never wait for each other in a circle, so that the database ends none of them.
OnlyRejectionsCollide ==
  \A w, v \in Workers : WaitsFor(w, v) /\ WaitsFor(v, w) =>
    "rejected" \in {session[w].op, session[v].op}
=============================================================================
