--------------------------- MODULE WorkerProperties ---------------------------
(***************************************************************************)
(* What the executor has to keep true, and what it promises to reach.      *)
(***************************************************************************)
EXTENDS Worker

(***************************************************************************)
(* Safety while no run outlives its lease (LeaseOverrun = FALSE)           *)
(***************************************************************************)

\* A coroutine between its claim and its settle holds the lease of its task: the
\* row is RUNNING in its worker's name and no other coroutine is at work on it.
\* This is what claim_ready_task, the fence of settle_task and the reclaim loop
\* are for (db.py, worker.py).
LeaseDiscipline ==
  \A c \in Coros : run[c].pc \in Executing =>
    /\ run[c].task \in Rows("RUNNING")
    /\ task[run[c].task].worker = workerId
    /\ task[run[c].task].lease = "live"
    /\ \A d \in Coros \ {c} : ~ Executes(d, run[c].task)

\* A task that left PENDING, or went back to it after a rate limit, has all its
\* dependencies DONE, and they stay DONE: no task is ever ahead of its inputs.
DependencyOrder ==
  \A t \in DOMAIN task : task[t].status # "PENDING" \/ task[t].limited => DepsDone(t)

\* The agent starts with the output of every task its own task waits for.  An
\* output missing when resolve_inputs runs becomes the empty string in silence.
InputsComplete ==
  \A c \in Coros : At(c, "agent") => run[c].inputs = task[run[c].task].deps

\* A task is FAILED only with its retry budget spent, and one task spends at most
\* the budget plus one failure per restart (a restart between record_failure and
\* the settle gives the task one more try).
RetryBudget ==
  \A t \in DOMAIN task :
    /\ t \in Rows("FAILED") => task[t].failures >= MaxAttempts
    /\ task[t].failures <= MaxAttempts + (workerId - 1)

\* A goal that reports COMPLETED carries an answer, and the answer of a goal is
\* always the output of a task that is DONE.
AnswerIsDone ==
  /\ goal.status = "COMPLETED" => goal.answer # None
  /\ goal.answer # None => goal.answer \in Rows("DONE")

\* The inductive invariant behind the properties above.  What each coroutine may
\* take for granted of the row it works on:
Finishing == {"getGoal", "promote", "verdict", "complete", "blocked"}
Holding == Executing \cup {"sleep", "requeue"}

RowFits(c) ==
  LET row == task[run[c].task] IN
  /\ run[c].pc \in Executing =>
       row.status = "RUNNING" /\ row.worker = workerId /\ row.lease = "live"
  /\ run[c].pc \in {"sleep", "requeue"} => row.status = "PENDING" /\ row.limited
  /\ run[c].pc \in Finishing => row.status = "DONE"
  /\ run[c].pc = "agent" => run[c].inputs = row.deps
  /\ run[c].pc = "settleFailed" => row.failures >= MaxAttempts

Apart ==
  \A c, d \in Coros : c # d /\ run[c].pc \in Holding /\ run[d].pc \in Holding =>
    run[c].task # run[d].task

\* The last failure of the budget is followed by FAILED, unless the process dies.
Spent(t) ==
  t \in Rows("FAILED") \/ \E c \in Coros : run[c].task = t /\ At(c, "settleFailed")

Budget(t) ==
  /\ t \in Rows("FAILED") => task[t].failures >= MaxAttempts
  /\ task[t].failures <= MaxAttempts + (workerId - 1)
  /\ ~ Spent(t) => task[t].failures < MaxAttempts + (workerId - 1)

\* Every coroutine fits its row, no two hold the same row, and rows, answer and
\* failure counts are as the properties above ask (worker.py, db.py).
LeaseInv ==
  /\ WorkerTypeOK
  /\ \A c \in Coros : RowFits(c)
  /\ Apart
  /\ DependencyOrder
  /\ \A t \in DOMAIN task : Budget(t)
  /\ AnswerIsDone
  /\ sweep.pc = "complete" => sweep.answer \in Rows("DONE")

\* The task table, read as a graph, is an execution of DagExecution: PENDING and
\* READY are to do, RUNNING and both waits are under way.
Progressed(t) ==
  CASE task[t].status \in {"PENDING", "READY"} -> "todo"
    [] task[t].status \in {"RUNNING", "WAITING_WEBHOOK", "WAITING_CREDENTIAL"} -> "active"
    [] task[t].status = "DONE" -> "done"
    [] task[t].status = "FAILED" -> "dead"

Dag == INSTANCE DagExecution WITH
         Node  <- TaskIds,
         deps  <- [t \in DOMAIN task |-> task[t].deps],
         state <- [t \in DOMAIN task |-> Progressed(t)]

RunsTheGraph == Dag!DagSpec

(***************************************************************************)
(* Liveness                                                                *)
(***************************************************************************)

\* asyncio runs every coroutine that can run; a semaphore is handed out in turn; an
\* agent is not rate limited or parked for ever; webhooks are called in the end,
\* and the user supplies the credential, again if a task still waits for it.
RunningProcess ==
  /\ WF_vars(PlannerStep)
  /\ WF_vars(ReclaimStep)
  /\ \A c \in Coros :
       /\ WF_vars(ExecutorStep(c))
       /\ SF_vars(Acquire(c))
       /\ SF_vars(AgentReturns(c) \/ AgentRaises(c))

World ==
  \A t \in TaskIds : WF_vars(CallWebhook(t)) /\ WF_vars(LeaseExpires(t))

LiveSpec == Spec /\ RunningProcess /\ World /\ WF_vars(GrantCredential)

\* Every goal gets a verdict and keeps getting one: it does not stay NEW,
\* PLANNING or RUNNING for ever.
GoalSettles == <>[](goal.status \in Verdict)

(***************************************************************************)
(* What a test says, and the code does not keep                            *)
(***************************************************************************)

Settles(c) == AgentReturns(c) \/ SettleFailed(c) \/ SettleRetry(c)

\* A worker whose lease was reclaimed does not settle the task: its settle_task is
\* refused and changes nothing (test_lease_fencing.py:1).
StragglerIsRefused == [][\A c \in Coros : run[c].lost /\ Settles(c) => task' = task]_vars
=============================================================================
