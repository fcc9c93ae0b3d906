-------------------------------- MODULE Worker --------------------------------
(***************************************************************************)
(* backend/worker.py with replanner.py and the persisting half of          *)
(* orchestrator.py: one process, its planner coroutine, its executor       *)
(* coroutines, its reclaim loop, and the restarts between processes.       *)
(*                                                                         *)
(* A coroutine runs alone from one await to the next, so a step here is    *)
(* what lies between two awaits that touch the store: one db call and the  *)
(* local decisions after it.  The awaits on a model or a tool are the gaps *)
(* in which everybody else moves.                                          *)
(***************************************************************************)
EXTENDS GoalStore, FiniteSets

CONSTANTS Coros,          \* executor coroutines alive at once (a bound)
          InitialPlans,   \* plans run_plan may submit
          Replans,        \* plans attempt_replan may submit
          MaxAttempts,    \* tasks.max_attempts
          MaxConcurrent,  \* settings.max_concurrent_tasks
          MaxFailures,    \* bound on a task's failure_count
          MaxRestarts,    \* bound on the number of process restarts
          LeaseOverrun,   \* may a run outlive its lease?
          CommitWindow    \* may a task be claimed between the commits of one plan?

ASSUME WorkerAssumption ==
  /\ \A p \in InitialPlans \cup Replans : IsPlan(p)
  /\ MaxAttempts \in Nat \ {0}
  /\ MaxConcurrent \in Nat \ {0}
  /\ MaxFailures \in Nat
  /\ MaxRestarts \in Nat
  /\ LeaseOverrun \in BOOLEAN
  /\ CommitWindow \in BOOLEAN

VARIABLES workerId,   \* _worker_id of the running process
          planner,    \* the coroutine of _plan_goal
          run,        \* the coroutines of _execute_task and _requeue_task_later
          sweep,      \* the coroutine of _reclaim_orphaned_goals
          granted     \* has the user supplied the credential the tools ask for?

vars == <<goal, task, workerId, planner, run, sweep, granted>>

\* A coroutine between its claim and the settle of that claim.
Executing == {"queued", "resolve", "agent", "parkCredential", "settleFailed", "settleRetry"}

\* A coroutine that gave its semaphore slot back, or never had one.
Slotless == {"idle", "queued", "sleep", "requeue"}

PC == Executing \cup Slotless \cup
      {"getGoal", "promote", "verdict", "complete", "blocked", "shouldReplan",
       "replan", "setPlan", "flagReplan", "goalFailed"}

Coroutine == [pc       : PC,
              task     : TaskIds \cup {None},
              lost     : BOOLEAN,               \* was its claim reclaimed meanwhile?
              inputs   : SUBSET TaskIds,        \* upstream outputs it was given
              terminal : TaskIds \cup {None}]   \* terminal_task_id, read or to write

Idle == [pc |-> "idle", task |-> None, lost |-> FALSE, inputs |-> {}, terminal |-> None]
NoSweep == [pc |-> "idle", flag |-> FALSE, answer |-> None]
NoPlanner == [pc |-> "idle", terminal |-> None]

WorkerTypeOK ==
  /\ TypeOK
  /\ workerId \in Nat \ {NoWorker}
  /\ planner \in [pc : {"idle", "plan", "setPlan"}, terminal : TaskIds \cup {None}]
  /\ run \in [Coros -> Coroutine]
  /\ \A c \in Coros : run[c].pc # "idle" => run[c].task \in DOMAIN task
  /\ sweep \in [pc : {"idle", "complete", "fail"}, flag : BOOLEAN,
               answer : TaskIds \cup {None}]
  /\ granted \in BOOLEAN

Init ==
  /\ goal = NewGoal
  /\ task = [t \in {} |-> NewTask({})]
  /\ workerId = 1
  /\ planner = NoPlanner
  /\ run = [c \in Coros |-> Idle]
  /\ sweep = NoSweep
  /\ granted = FALSE

Goto(c, pc) == run' = [run EXCEPT ![c].pc = pc]
End(c) == run' = [run EXCEPT ![c] = Idle]
At(c, pc) == run[c].pc = pc
Executes(c, t) == run[c].task = t /\ run[c].pc \in Executing

-----------------------------------------------------------------------------
(* The planner: _goal_planner_loop, _plan_goal, run_plan *)

PlannerClaim ==
  /\ planner.pc = "idle"
  /\ ClaimNewGoal
  /\ planner' = [planner EXCEPT !.pc = "plan"]
  /\ UNCHANGED <<task, workerId, run, sweep, granted>>

PlannerFails ==
  /\ planner.pc = "plan"
  /\ UpdateGoalStatus("FAILED", None, FALSE)
  /\ planner' = NoPlanner
  /\ UNCHANGED <<task, workerId, run, sweep, granted>>

PlannerCreates ==
  /\ planner.pc = "plan"
  /\ \E p \in InitialPlans :
       /\ CreateTasks(p)
       /\ planner' = [pc |-> "setPlan", terminal |-> p.terminal]
  /\ UNCHANGED <<goal, workerId, run, sweep, granted>>

PlannerSetsPlan ==
  /\ planner.pc = "setPlan"
  /\ SetGoalPlan(planner.terminal)
  /\ planner' = NoPlanner
  /\ UNCHANGED <<task, workerId, run, sweep, granted>>

-----------------------------------------------------------------------------
(* The executor: _task_executor_loop, _execute_task *)

\* A plan some of whose commits are still to come.
PlanInFlight ==
  \/ planner.pc = "setPlan"
  \/ \E c \in Coros : run[c].pc \in {"setPlan", "flagReplan"}

Claim(c) ==
  /\ At(c, "idle")
  /\ CommitWindow \/ ~ PlanInFlight
  /\ \E t \in DOMAIN task :
       /\ ClaimReadyTask(t, workerId)
       /\ run' = [run EXCEPT ![c] = [Idle EXCEPT !.pc = "queued", !.task = t]]
  /\ UNCHANGED <<goal, workerId, planner, sweep, granted>>

\* The semaphore is taken after the claim: the lease already runs in the queue.
Acquire(c) ==
  /\ At(c, "queued")
  /\ Cardinality({d \in Coros : run[d].pc \notin Slotless}) < MaxConcurrent
  /\ Goto(c, "resolve")
  /\ UNCHANGED <<goal, task, workerId, planner, sweep, granted>>

\* list_goal_tasks and resolve_inputs: an upstream task that is not DONE at this
\* moment is replaced by the empty string.
Resolve(c) ==
  /\ At(c, "resolve")
  /\ run' = [run EXCEPT ![c].pc = "agent",
                        ![c].inputs = task[run[c].task].deps \cap Rows("DONE")]
  /\ UNCHANGED <<goal, task, workerId, planner, sweep, granted>>

\* What settle_task returned is not looked at.
AgentReturns(c) ==
  /\ At(c, "agent")
  /\ SettleFenced(run[c].task, "DONE", workerId)
  /\ Goto(c, "getGoal")
  /\ UNCHANGED <<goal, workerId, planner, sweep, granted>>

AgentWaitsForWebhook(c) ==
  /\ At(c, "agent")
  /\ SetTaskWaiting(run[c].task, "WAITING_WEBHOOK")
  /\ End(c)
  /\ UNCHANGED <<goal, workerId, planner, sweep, granted>>

\* A tool looked for the credential and did not find it ...
AgentLacksCredential(c) ==
  /\ At(c, "agent")
  /\ ~ granted
  /\ Goto(c, "parkCredential")
  /\ UNCHANGED <<goal, task, workerId, planner, sweep, granted>>

\* ... and two awaits later the task is parked on it.
ParkOnCredential(c) ==
  /\ At(c, "parkCredential")
  /\ SetTaskWaiting(run[c].task, "WAITING_CREDENTIAL")
  /\ End(c)
  /\ UNCHANGED <<goal, workerId, planner, sweep, granted>>

AgentRateLimited(c) ==
  /\ At(c, "agent")
  /\ Settle(run[c].task, "PENDING", TRUE)
  /\ Goto(c, "sleep")
  /\ UNCHANGED <<goal, workerId, planner, sweep, granted>>

\* _requeue_task_later: a coroutine in memory, nothing of it is stored.
WakeUp(c) ==
  /\ At(c, "sleep")
  /\ IF run[c].task \in Rows("PENDING") THEN Goto(c, "requeue") ELSE End(c)
  /\ UNCHANGED <<goal, task, workerId, planner, sweep, granted>>

Requeue(c) ==
  /\ At(c, "requeue")
  /\ Settle(run[c].task, "READY", FALSE)
  /\ End(c)
  /\ UNCHANGED <<goal, workerId, planner, sweep, granted>>

\* Variant with a bug: one attempt too many.
AgentRaisesOffByOne(c) ==
  LET t == run[c].task IN
  /\ At(c, "agent")
  /\ task[t].failures < MaxFailures
  /\ RecordFailure(t)
  /\ Goto(c, IF task[t].failures + 1 > MaxAttempts THEN "settleFailed" ELSE "settleRetry")
  /\ UNCHANGED <<goal, workerId, planner, sweep, granted>>

AgentRaises(c) ==
  LET t == run[c].task IN
  /\ At(c, "agent")
  /\ task[t].failures < MaxFailures
  /\ RecordFailure(t)
  /\ Goto(c, IF task[t].failures + 1 >= MaxAttempts THEN "settleFailed" ELSE "settleRetry")
  /\ UNCHANGED <<goal, workerId, planner, sweep, granted>>

SettleRetry(c) ==
  /\ At(c, "settleRetry")
  /\ SettleFenced(run[c].task, "READY", workerId)
  /\ End(c)
  /\ UNCHANGED <<goal, workerId, planner, sweep, granted>>

SettleFailed(c) ==
  /\ At(c, "settleFailed")
  /\ SettleFenced(run[c].task, "FAILED", workerId)
  /\ Goto(c, "shouldReplan")
  /\ UNCHANGED <<goal, workerId, planner, sweep, granted>>

-----------------------------------------------------------------------------
(* Giving up on a task: should_replan, attempt_replan, _handle_goal_failure *)

ShouldReplan(c) ==
  /\ At(c, "shouldReplan")
  /\ Goto(c, IF goal.replanned THEN "goalFailed" ELSE "replan")
  /\ UNCHANGED <<goal, task, workerId, planner, sweep, granted>>

\* Variant with a bug: a replan that came to nothing leaves the goal as it is.
ReplanRejectedInSilence(c) ==
  /\ At(c, "replan")
  /\ End(c)
  /\ UNCHANGED <<goal, task, workerId, planner, sweep, granted>>

\* The model answered nothing usable.
ReplanRejected(c) ==
  /\ At(c, "replan")
  /\ Goto(c, "goalFailed")
  /\ UNCHANGED <<goal, task, workerId, planner, sweep, granted>>

\* The insert raises out of attempt_replan and ends the coroutine when a replan
\* already took these ids.
ReplanCreates(c) ==
  /\ At(c, "replan")
  /\ \E p \in Replans :
       IF IdsClash(p)
       THEN End(c) /\ task' = task
       ELSE /\ CreateTasks(p)
            /\ run' = [run EXCEPT ![c].pc = "setPlan", ![c].terminal = p.terminal]
  /\ UNCHANGED <<goal, workerId, planner, sweep, granted>>

ReplanSetsPlan(c) ==
  /\ At(c, "setPlan")
  /\ SetGoalPlan(run[c].terminal)
  /\ Goto(c, "flagReplan")
  /\ UNCHANGED <<task, workerId, planner, sweep, granted>>

ReplanFlags(c) ==
  /\ At(c, "flagReplan")
  /\ UpdateGoalStatus("RUNNING", None, TRUE)
  /\ End(c)
  /\ UNCHANGED <<task, workerId, planner, sweep, granted>>

HandleGoalFailure(c) ==
  /\ At(c, "goalFailed")
  /\ UpdateGoalStatus("FAILED", None, FALSE)
  /\ End(c)
  /\ UNCHANGED <<task, workerId, planner, sweep, granted>>

-----------------------------------------------------------------------------
(* After a task: _after_task_done, blocked_task_ids *)

Unfinished == Rows("PENDING") \cup Rows("READY") \cup Rows("RUNNING")

\* The least set that holds every unfinished task with a dependency that FAILED
\* or is in the set.
Blocked ==
  LET Behind(B) == {t \in Unfinished : task[t].deps \cap (B \cup Rows("FAILED")) # {}}
      pass[n \in Nat] == IF n = 0 THEN {} ELSE Behind(pass[n - 1])
  IN  pass[Cardinality(DOMAIN task)]

AfterGetGoal(c) ==
  /\ At(c, "getGoal")
  /\ run' = [run EXCEPT ![c].pc = "promote", ![c].terminal = goal.terminal]
  /\ UNCHANGED <<goal, task, workerId, planner, sweep, granted>>

AfterPromote(c) ==
  /\ At(c, "promote")
  /\ PromoteReadyTasks
  /\ IF run[c].terminal = run[c].task THEN Goto(c, "verdict") ELSE End(c)
  /\ UNCHANGED <<goal, workerId, planner, sweep, granted>>

AfterVerdict(c) ==
  /\ At(c, "verdict")
  /\ Goto(c, IF Blocked = {} THEN "complete" ELSE "blocked")
  /\ UNCHANGED <<goal, task, workerId, planner, sweep, granted>>

CompleteGoal(c) ==
  /\ At(c, "complete")
  /\ UpdateGoalStatus("COMPLETED", run[c].task, FALSE)
  /\ End(c)
  /\ UNCHANGED <<task, workerId, planner, sweep, granted>>

FailBlockedGoal(c) ==
  /\ At(c, "blocked")
  /\ UpdateGoalStatus("FAILED", run[c].task, FALSE)
  /\ End(c)
  /\ UNCHANGED <<task, workerId, planner, sweep, granted>>

-----------------------------------------------------------------------------
(* The reclaim loop *)

\* Nobody tells the coroutines: lost is only remembered to speak about them.
Reclaim ==
  /\ sweep.pc = "idle"
  /\ \E t \in DOMAIN task : Expired(t)
  /\ ReclaimExpiredLeases
  /\ run' = [c \in Coros |-> IF \E t \in DOMAIN task : Expired(t) /\ Executes(c, t)
                            THEN [run[c] EXCEPT !.lost = TRUE] ELSE run[c]]
  /\ UNCHANGED <<goal, workerId, planner, sweep, granted>>

\* Variant with a bug: the terminal task's status is not looked at.
FindOrphanUnchecked ==
  /\ sweep.pc = "idle"
  /\ Orphaned
  /\ sweep' = [pc |-> "complete", flag |-> goal.replanned, answer |-> goal.terminal]
  /\ UNCHANGED <<goal, task, workerId, planner, run, granted>>

\* The rows found, and what the loop will write from them.
FindOrphan ==
  /\ sweep.pc = "idle"
  /\ Orphaned
  /\ sweep' = [pc |-> IF goal.terminal \in Rows("DONE") THEN "complete" ELSE "fail",
               flag |-> goal.replanned, answer |-> goal.terminal]
  /\ UNCHANGED <<goal, task, workerId, planner, run, granted>>

CompleteOrphan ==
  /\ sweep.pc = "complete"
  /\ UpdateGoalStatus("COMPLETED", sweep.answer, FALSE)
  /\ sweep' = NoSweep
  /\ UNCHANGED <<task, workerId, planner, run, granted>>

FailOrphan ==
  /\ sweep.pc = "fail"
  /\ UpdateGoalStatus("FAILED", None, sweep.flag)
  /\ sweep' = NoSweep
  /\ UNCHANGED <<task, workerId, planner, run, granted>>

-----------------------------------------------------------------------------
(* The world *)

\* POST /api/webhooks/{token}
CallWebhook(t) ==
  /\ ResumeWebhookTask(t)
  /\ UNCHANGED <<goal, workerId, planner, run, sweep, granted>>

\* PUT /api/config/keys and the connection callbacks
GrantCredential ==
  /\ ~ granted \/ Rows("WAITING_CREDENTIAL") # {}
  /\ granted' = TRUE
  /\ ResumeCredentialTasks
  /\ UNCHANGED <<goal, workerId, planner, run, sweep>>

\* lease_seconds pass.  Without LeaseOverrun no run is that long.
LeaseExpires(t) ==
  /\ t \in Rows("RUNNING")
  /\ task[t].lease = "live"
  /\ LeaseOverrun \/ \A c \in Coros : ~ Executes(c, t)
  /\ task' = [task EXCEPT ![t].lease = "expired"]
  /\ UNCHANGED <<goal, workerId, planner, run, sweep, granted>>

\* The process dies and another starts, with a _worker_id of its own.
Restart ==
  /\ workerId <= MaxRestarts
  /\ workerId' = workerId + 1
  /\ planner' = NoPlanner
  /\ run' = [c \in Coros |-> Idle]
  /\ sweep' = NoSweep
  /\ UNCHANGED <<goal, task, granted>>

-----------------------------------------------------------------------------
AgentStep(c) ==
  \/ AgentReturns(c) \/ AgentRaises(c) \/ AgentWaitsForWebhook(c)
  \/ AgentLacksCredential(c) \/ AgentRateLimited(c)

ExecutorStep(c) ==
  \/ Claim(c) \/ Acquire(c) \/ Resolve(c)
  \/ ParkOnCredential(c) \/ WakeUp(c) \/ Requeue(c)
  \/ SettleRetry(c) \/ SettleFailed(c)
  \/ ShouldReplan(c) \/ ReplanRejected(c) \/ ReplanCreates(c)
  \/ ReplanSetsPlan(c) \/ ReplanFlags(c) \/ HandleGoalFailure(c)
  \/ AfterGetGoal(c) \/ AfterPromote(c) \/ AfterVerdict(c)
  \/ CompleteGoal(c) \/ FailBlockedGoal(c)

PlannerStep == PlannerClaim \/ PlannerFails \/ PlannerCreates \/ PlannerSetsPlan

ReclaimStep == Reclaim \/ FindOrphan \/ CompleteOrphan \/ FailOrphan

Next ==
  \/ PlannerStep
  \/ \E c \in Coros : AgentStep(c) \/ ExecutorStep(c)
  \/ ReclaimStep
  \/ \E t \in DOMAIN task : CallWebhook(t) \/ LeaseExpires(t)
  \/ GrantCredential
  \/ Restart

Spec == Init /\ [][Next]_vars
=============================================================================
