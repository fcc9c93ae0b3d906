------------------------------ MODULE GoalStore ------------------------------
(***************************************************************************)
(* The goals and tasks tables of backend/db.py, for one goal.              *)
(*                                                                         *)
(* Every function of db.py opens a connection, runs one statement (or one  *)
(* batch) and commits, so each is one atomic step here.  Two of them never *)
(* overlap; everything between two of them does.  The operators below are  *)
(* those functions.  The modules that extend this one say who calls them   *)
(* and when.                                                               *)
(*                                                                         *)
(* One goal is enough: no statement on tasks or goals reads two goals at   *)
(* once except the claims, which pick one row.                             *)
(***************************************************************************)
EXTENDS Integers

CONSTANTS TaskIds,      \* primary keys a plan may use
          None          \* SQL NULL

ASSUME NoneAssumption == None \notin TaskIds

VARIABLES goal,         \* the goals row
          task          \* the tasks rows of the goal: key -> row

store == <<goal, task>>

\* worker_id IS NULL.  A process draws its id from uuid4; here they are 1, 2, ...
NoWorker == 0

GoalStatus == {"NEW", "PLANNING", "RUNNING", "COMPLETED", "FAILED"}

TaskStatus == {"PENDING", "READY", "RUNNING", "DONE", "FAILED",
               "WAITING_WEBHOOK", "WAITING_CREDENTIAL"}

\* A goal has a verdict once the worker has stopped working for it.
Verdict == {"COMPLETED", "FAILED"}

\* goals: of the error column only "[replanned]" is ever read back; the output
\* column is named by the task whose output it holds.
GoalRow == [status    : GoalStatus,
            terminal  : TaskIds \cup {None},
            replanned : BOOLEAN,
            answer    : TaskIds \cup {None}]

\* tasks: of the error column only the prefix 'Rate limited;' is ever read back;
\* the lease is a time, of which only "passed or not" matters.
TaskRow == [status   : TaskStatus,
            deps     : SUBSET TaskIds,
            worker   : Nat,
            lease    : {"none", "live", "expired"},
            failures : Nat,
            limited  : BOOLEAN]

\* What the planner and the replanner hand over once _validate_plan accepted it:
\* the terminal and every dependency are tasks of the plan, none is its own
\* dependency.  Nothing there rejects a cycle.
IsPlan(p) ==
  /\ p = [deps |-> p.deps, terminal |-> p.terminal]
  /\ DOMAIN p.deps \subseteq TaskIds
  /\ p.terminal \in DOMAIN p.deps
  /\ p.deps \in [DOMAIN p.deps -> SUBSET DOMAIN p.deps]
  /\ \A t \in DOMAIN p.deps : t \notin p.deps[t]

TypeOK ==
  /\ goal \in GoalRow
  /\ DOMAIN task \subseteq TaskIds
  /\ task \in [DOMAIN task -> TaskRow]

Rows(s) == {t \in DOMAIN task : task[t].status = s}

-----------------------------------------------------------------------------
(* Goals *)

\* create_goal: the row a goal starts from.
NewGoal == [status |-> "NEW", terminal |-> None, replanned |-> FALSE, answer |-> None]

\* Writes by id alone, whatever the row says, output and error included.
UpdateGoalStatus(s, output, flag) ==
  goal' = [goal EXCEPT !.status = s, !.answer = output, !.replanned = flag]

SetGoalPlan(terminal) ==
  goal' = [goal EXCEPT !.status = "RUNNING", !.terminal = terminal]

ClaimNewGoal ==
  /\ goal.status = "NEW"
  /\ goal' = [goal EXCEPT !.status = "PLANNING"]

-----------------------------------------------------------------------------
(* Tasks *)

NewTask(deps) ==
  [status |-> IF deps = {} THEN "READY" ELSE "PENDING",
   deps |-> deps, worker |-> NoWorker, lease |-> "none", failures |-> 0,
   limited |-> FALSE]

\* The ids are a primary key: one clash fails the whole batch.
IdsClash(p) == DOMAIN p.deps \cap DOMAIN task # {}

CreateTasks(p) ==
  /\ ~ IdsClash(p)
  /\ task' = [t \in DOMAIN task \cup DOMAIN p.deps |->
                IF t \in DOMAIN task THEN task[t] ELSE NewTask(p.deps[t])]

\* The NOT EXISTS of the claim and of the promotion.
DepsDone(t) == \A d \in task[t].deps : d \in Rows("DONE")

ClaimReadyTask(t, w) ==
  /\ t \in Rows("READY")
  /\ DepsDone(t)
  /\ task' = [task EXCEPT ![t].status = "RUNNING", ![t].worker = w, ![t].lease = "live"]

\* settle_task(..., worker_id=None): an administrative settle.
Settle(t, s, lim) ==
  task' = [task EXCEPT ![t].status = s, ![t].worker = NoWorker,
                       ![t].lease = "none", ![t].limited = lim]

\* settle_task(..., worker_id=w): refused, changing nothing, when the row's
\* worker is another.
SettleFenced(t, s, w) ==
  IF task[t].worker = w THEN Settle(t, s, FALSE) ELSE task' = task

\* Variant with a bug: the dependencies are left to the claim to check.
PromotableAnyway(t) == t \in Rows("PENDING") /\ ~ task[t].limited

Promotable(t) == t \in Rows("PENDING") /\ ~ task[t].limited /\ DepsDone(t)

PromoteReadyTasks ==
  task' = [t \in DOMAIN task |->
             IF Promotable(t) THEN [task[t] EXCEPT !.status = "READY"] ELSE task[t]]

\* Variant with a bug: the lease is not compared with the clock.
ExpiredUnlessIdle(t) == t \in Rows("RUNNING")

Expired(t) == t \in Rows("RUNNING") /\ task[t].lease = "expired"

ReclaimExpiredLeases ==
  task' = [t \in DOMAIN task |->
             IF Expired(t)
             THEN [task[t] EXCEPT !.status = "READY", !.worker = NoWorker, !.lease = "none"]
             ELSE task[t]]

\* set_task_waiting_webhook and set_task_waiting_credential: by id alone.
SetTaskWaiting(t, s) ==
  task' = [task EXCEPT ![t].status = s, ![t].worker = NoWorker, ![t].lease = "none"]

\* Variant with a bug: the token alone is matched, not the status.
ResumeWebhookTaskByToken(t) ==
  /\ t \in Rows("WAITING_WEBHOOK") \cup Rows("DONE")
  /\ task' = [task EXCEPT ![t].status = "READY"]

ResumeWebhookTask(t) ==
  /\ t \in Rows("WAITING_WEBHOOK")
  /\ task' = [task EXCEPT ![t].status = "READY"]

ResumeCredentialTasks ==
  task' = [t \in DOMAIN task |->
             IF t \in Rows("WAITING_CREDENTIAL")
             THEN [task[t] EXCEPT !.status = "READY"] ELSE task[t]]

RecordFailure(t) == task' = [task EXCEPT ![t].failures = @ + 1]

\* find_orphaned_goals
Progress == Rows("PENDING") \cup Rows("READY") \cup Rows("RUNNING")
              \cup Rows("WAITING_WEBHOOK") \cup Rows("WAITING_CREDENTIAL")

Orphaned ==
  /\ goal.status \in {"RUNNING", "PLANNING"}
  /\ goal.terminal # None
  /\ Progress = {}
=============================================================================
