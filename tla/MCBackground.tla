----------------------------- MODULE MCBackground -----------------------------
(***************************************************************************)
(* The work that goes on behind the requests: publishers of the outbox,    *)
(* workers at the integration queue, and background tasks.  They share no  *)
(* rows, so that a behaviour is of one of them ("loop").  Two aggregates   *)
(* and three events; two events or one of the queue, and operators who act *)
(* on the same events; one export and a task that is scheduled every       *)
(* minute; two workers and one crash, or two.                              *)
(***************************************************************************)
EXTENDS Outbox, IntegrationQueue, TaskRuntime

CONSTANTS o1, o2, w1, w2, e1, e2, p1, j1

VARIABLE loop

BackgroundInit == loop \in {"outbox", "queue", "tasks"} /\ Init /\ QueueInit /\ TaskInit
BackgroundNext ==
  /\ UNCHANGED loop
  /\ \/ loop = "outbox" /\ Next /\ UNCHANGED <<queueVars, taskVars>>
     \/ loop = "queue" /\ QueueNext /\ UNCHANGED <<vars, taskVars>>
     \/ loop = "tasks" /\ TaskNext /\ UNCHANGED <<vars, queueVars>>

all == <<vars, queueVars, taskVars, loop>>

\* The fairness of each of the three, for the behaviours that are its own.
FairlyPublished ==
  /\ \A w \in Workers : /\ WF_vars(loop = "outbox" /\ SelectBatch(w))
                        /\ WF_vars(loop = "outbox" /\ CommitClaim(w))
  /\ \A e \in Ids : WF_vars(loop = "outbox" /\ LeaseExpires(e))
FairlyQueued ==
  /\ \A w \in QueueWorkers :
       /\ WF_queueVars(loop = "queue" /\ SelectDue(w))
       /\ WF_queueVars(loop = "queue" /\ CommitEvents(w))
       /\ \A e \in Events : WF_queueVars(loop = "queue" /\ Complete(w, e))
  /\ \A e \in Events : /\ WF_queueVars(loop = "queue" /\ AbandonedLeaseRunsOut(e))
                       /\ WF_queueVars(loop = "queue" /\ BecomesDue(e))
FairlyRun ==
  \A w \in TaskWorkers :
    /\ WF_taskVars(loop = "tasks" /\ Finish(w))
    /\ \A m \in Messages : WF_taskVars(loop = "tasks" /\ Begin(w, m))

BackgroundSpec ==
  BackgroundInit /\ [][BackgroundNext]_all /\ FairlyPublished /\ FairlyQueued /\ FairlyRun
=============================================================================
